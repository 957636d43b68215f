---------------------------- MODULE TranscodeArgs ----------------------------
(***************************************************************************)
(* From the row of videometa to the arguments of ffmpeg: the profile the   *)
(* API server answers (internal/handler/jobs.go) and what TranscodeVideo   *)
(* makes of it (grpc/service/service.go).                                  *)
(***************************************************************************)
EXTENDS Presets

(* GetTranscodeProfile: NULL is 0 or "".                                   *)
GetTranscodeProfile(row) ==
    [f \in Fields |-> IF f \in DOMAIN row THEN row[f] ELSE IF f \in Numbers THEN 0 ELSE ""]

Encoder == [h264 |-> "libx264", h265 |-> "libx265", vp9 |-> "libvpx-vp9"]
Quality(codec) == IF codec = "vp9" THEN "crf 30" ELSE IF codec \in DOMAIN Encoder THEN "veryfast" ELSE ""

Scale == [r1080 |-> "1920x1080", r720 |-> "1280x720", r480 |-> "854x480"]
normalizeFFmpegResolution(raw) ==
    IF \E r \in DOMAIN Scale : raw \in Spellings[r] \ {""}
    THEN Scale[CHOOSE r \in DOMAIN Scale : raw \in Spellings[r]] ELSE raw

(* The options ffmpeg is given, the absent ones left out.  For vp9 a       *)
(* "-b:v 0" comes first, which a bitrate overrules.                        *)
buildFFmpegArgs(p) ==
    LET given == {f \in Numbers : p[f] > 0} \cup {f \in Fields \ Numbers : p[f] # ""}
    IN  [f \in given \cup (IF p.codec = "vp9" THEN {"bitrate"} ELSE {}) |->
            CASE f = "codec" -> <<IF p.codec \in DOMAIN Encoder THEN Encoder[p.codec] ELSE p.codec,
                                  Quality(p.codec)>>
              [] f = "resolution" -> normalizeFFmpegResolution(p.resolution)
              [] f = "bitrate" /\ p.bitrate <= 0 -> 0
              [] OTHER -> p[f]]
==============================================================================
