---------------------------- MODULE MCWorkerPool ----------------------------
(* Constants of the model-checking runs of WorkerPool.                     *)
EXTENDS WorkerPool, TLC

CONSTANTS p1, p2, w1, w2, j1, j2

OnePool == {p1}
TwoPools == {p1, p2}
OneWorker == {w1}
TwoWorkers == {w1, w2}
TwoJobs == {j1, j2}
NoPool == {}

(* Two messages of one job are what a retried XADD leaves in the stream.   *)
SameJobTwice == <<j1, j1>>
OneMalformed == <<j1, NoJob, j1>>
OtherJob == <<j1, j2>>
==============================================================================
