------------------------------- MODULE Presets -------------------------------
(***************************************************************************)
(* The presets of internal/presets/catalog.go and what a request makes of  *)
(* them: buildVideoMetadata (internal/handler/handler.go) turns a preset   *)
(* and overrides into the row of videometa.  Overrides, and a row with     *)
(* NULLs, are functions on some of the Fields.                             *)
(***************************************************************************)
EXTENDS Integers

CONSTANT MaxInt32         \* 2^31 - 1; smaller for TLC, whose integers are that wide

ASSUME PresetsAssumption == MaxInt32 \in Nat /\ MaxInt32 >= 3500

Fields == {"format", "codec", "resolution", "bitrate", "framerate"}
Numbers == {"bitrate", "framerate"}

H264(resolution, bitrate) == [format |-> "mp4", codec |-> "h264", resolution |-> resolution,
                              bitrate |-> bitrate, framerate |-> 30]

catalog == [web_h264_v1     |-> H264("1080", 3500),
            mobile_h264_v1  |-> H264("720", 1800),
            archive_h265_v1 |-> [H264("1080", 2200) EXCEPT !.codec = "h265"]]

Known(id) == id \in DOMAIN catalog

isAllowedCodec(codec) == codec \in {"h264", "h265", "vp9", "av1"}

(* How a resolution may be written, and how it is kept.                    *)
Spellings == [r1080 |-> {"", "1080", "1080p", "1920x1080"},
              r720  |-> {"720", "720p", "1280x720"},
              r480  |-> {"480", "480p", "854x480"}]
Kept == [r1080 |-> "1080", r720 |-> "720", r480 |-> "480"]

IsResolution(raw) == \E r \in DOMAIN Spellings : raw \in Spellings[r]
normalizeResolution(raw) == Kept[CHOOSE r \in DOMAIN Spellings : raw \in Spellings[r]]

Refused == <<>>           \* no row: an error in place of the metadata

ValidOverrides(o) ==
    /\ "codec" \in DOMAIN o => isAllowedCodec(o.codec)
    /\ "resolution" \in DOMAIN o => IsResolution(o.resolution)
    /\ \A f \in Numbers \cap DOMAIN o : o[f] > 0
    /\ "format" \in DOMAIN o => o.format # ""

Resolve(id, o) ==
    IF ~(Known(id) /\ ValidOverrides(o)) THEN Refused
    ELSE [f \in Fields |-> IF f \notin DOMAIN o THEN catalog[id][f]
                           ELSE IF f = "resolution" THEN normalizeResolution(o[f]) ELSE o[f]]

(* Without a preset: the bitrate is the one override that is read.         *)
LegacyMetadata(legacy, o) ==
    IF ~IsResolution(legacy.resolution) THEN Refused
    ELSE [f \in (Fields \ {"bitrate"}) \cup (DOMAIN o \cap {"bitrate"}) |->
            CASE f = "resolution" -> normalizeResolution(legacy.resolution)
              [] f = "bitrate"    -> o.bitrate
              [] f = "codec" /\ legacy.codec = "" -> "h264"
              [] OTHER            -> legacy[f]]

buildVideoMetadata(req) ==
    IF req.preset # "" THEN Resolve(req.preset, req.overrides)
    ELSE LegacyMetadata(req.legacy, req.overrides)

(* ShouldBindJSON: the numbers of a request are *int32.                    *)
Binds(o) == \A f \in Numbers \cap DOMAIN o : o[f] \in (-MaxInt32 - 1)..MaxInt32
==============================================================================
