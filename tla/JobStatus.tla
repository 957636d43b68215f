------------------------------ MODULE JobStatus ------------------------------
(***************************************************************************)
(* The statuses of a job and the transitions the service declares valid    *)
(* (internal/models/model.go, internal/service/status_machine.go).         *)
(***************************************************************************)

Status == {"pending", "queued", "downloading", "processing", "uploading",
           "completed", "failed", "cancelled"}

(* The successor of each stage on the way to "completed".                  *)
Advance == [pending |-> "queued", queued |-> "downloading",
            downloading |-> "processing", processing |-> "uploading",
            uploading |-> "completed"]

Terminal == Status \ DOMAIN Advance

validTransitions ==
    [s \in Status |-> IF s \in Terminal THEN {}
                      ELSE {Advance[s], "cancelled", "failed"}]

(* Mutation: downloading may go straight to uploading.                     *)
canSkip(from, to) ==
    to \in validTransitions[from] \/ (from = "downloading" /\ to = "uploading")

canTransition(from, to) == to \in validTransitions[from]
==============================================================================
