----------------------------- MODULE MCFrontend ------------------------------
(* Constants of the model-checking runs of Frontend.                       *)
EXTENDS Frontend

CONSTANTS u1

TooMany == MaxInt32 + 1
Picked == {"mobile_h264_v1", "archive_h265_v1"}
Entered == {[bitrate |-> 9, resolution |-> "480"],
            [framerate |-> TooMany]}
==============================================================================
