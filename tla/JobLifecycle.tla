---------------------------- MODULE JobLifecycle ----------------------------
(***************************************************************************)
(* What the status column promises whoever watches a job while calls of    *)
(* TransitionTo race on it: it starts pending, and whatever it is set to   *)
(* follows, by a valid transition, a status the job has had.  That need    *)
(* not be the one it has: a call that read before another wrote may        *)
(* overwrite even a terminal status.                                       *)
(* StatusApi.tla, the program, is shown to implement this specification.   *)
(***************************************************************************)
EXTENDS JobStatus

CONSTANT Jobs

VARIABLES status,        \* status[j], the status column of job j
          seen           \* history: the statuses each job has had

lcVars == <<status, seen>>

LCInit == /\ status = [j \in Jobs |-> "pending"]
          /\ seen = [j \in Jobs |-> {"pending"}]

LCMove(j, to) == /\ \E from \in seen[j] : canTransition(from, to)
                 /\ status' = [status EXCEPT ![j] = to]
                 /\ seen' = [seen EXCEPT ![j] = @ \cup {to}]

LCNext == \E j \in Jobs, to \in Status : LCMove(j, to)

LCSpec == LCInit /\ [][LCNext]_lcVars
==============================================================================
