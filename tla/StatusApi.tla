------------------------------ MODULE StatusApi ------------------------------
(***************************************************************************)
(* TransitionTo (internal/service/status_machine.go) as the API server     *)
(* runs it: every UpdateStatus request, and every upload or create         *)
(* handler, calls it in a goroutine of its own.  The status is read by one *)
(* SQL statement and written by another, outside any transaction: the row  *)
(* lock taken by SELECT ... FOR UPDATE is gone when that statement commits.*)
(* Requests name any job and any two statuses: that they are statuses is   *)
(* all that UpdateStatus validates.                                        *)
(***************************************************************************)
EXTENDS JobStatus

CONSTANTS Jobs,
          Calls,         \* the calls of TransitionTo that may be under way at once
          Requests       \* the pairs <<from, to>> the callers send

ASSUME StatusApiAssumption == Requests \subseteq Status \X Status

VARIABLES status,        \* status[j], the status column of job j
          call,          \* call[c]: the call made as c, or how the last one ended
          seen           \* history: the statuses each job has had

vars == <<status, call, seen>>

Answers == {"none", "ok", "stale", "invalid", "error"}
Active == [pc : {"read", "write"}, job : Jobs, req : Requests]

Init == /\ status = [j \in Jobs |-> "pending"]
        /\ call = [c \in Calls |-> [pc |-> "none"]]
        /\ seen = [j \in Jobs |-> {"pending"}]

Busy(c) == call[c].pc \in {"read", "write"}

(* A call of TransitionTo(j, from, to) begins, r being <<from, to>>.       *)
Begin(c, j, r) ==
    /\ ~Busy(c)
    /\ call' = [call EXCEPT ![c] = [pc |-> "read", job |-> j, req |-> r]]
    /\ UNCHANGED <<status, seen>>

Answer(c, a) == call' = [call EXCEPT ![c] = [pc |-> a]]

(* Mutation: the status read is not compared with the one expected.        *)
ReadAnyFrom(c) ==
    /\ call[c].pc = "read"
    /\ LET from == call[c].req[1]
           to == call[c].req[2]
       IN  \/ status[call[c].job] = to /\ Answer(c, "ok")
           \/ ~canTransition(from, to) /\ Answer(c, "invalid")
           \/ canTransition(from, to) /\ call' = [call EXCEPT ![c].pc = "write"]
    /\ UNCHANGED <<status, seen>>

(* Mutation: validTransitions is not consulted.                            *)
ReadAnyTo(c) ==
    /\ call[c].pc = "read"
    /\ LET current == status[call[c].job]
       IN  \/ current = call[c].req[2] /\ Answer(c, "ok")
           \/ current \notin {call[c].req[1], call[c].req[2]} /\ Answer(c, "stale")
           \/ current = call[c].req[1] /\ call' = [call EXCEPT ![c].pc = "write"]
    /\ UNCHANGED <<status, seen>>

(* GetJobByJobID and the checks on the status it returned.                 *)
Read(c) ==
    /\ call[c].pc = "read"
    /\ LET current == status[call[c].job]
           from == call[c].req[1]
           to == call[c].req[2]
       IN  \/ current = to /\ Answer(c, "ok")
           \/ current \notin {from, to} /\ Answer(c, "stale")
           \/ current = from /\ from # to /\ ~canTransition(from, to) /\ Answer(c, "invalid")
           \/ current = from /\ from # to /\ canTransition(from, to)
              /\ call' = [call EXCEPT ![c].pc = "write"]
    /\ UNCHANGED <<status, seen>>

(* UpdateJobStatus: unconditional on the status the row has by now.  The   *)
(* statement may have been committed although its reply is an error.       *)
Write(c) ==
    /\ call[c].pc = "write"
    /\ LET j == call[c].job
           to == call[c].req[2]
       IN  /\ status' = [status EXCEPT ![j] = to]
           /\ seen' = [seen EXCEPT ![j] = @ \cup {to}]
    /\ Answer(c, "ok") \/ Answer(c, "error")

(* Mutation: an update that failed is answered "ok".                       *)
FailSilently(c) ==
    /\ Busy(c)
    /\ Answer(c, "error") \/ (call[c].pc = "write" /\ Answer(c, "ok"))
    /\ UNCHANGED <<status, seen>>

(* A statement fails, or the server stops, with nothing written.           *)
Fail(c) ==
    /\ Busy(c)
    /\ Answer(c, "error")
    /\ UNCHANGED <<status, seen>>

Next == \E c \in Calls :
            \/ \E j \in Jobs, r \in Requests : Begin(c, j, r)
            \/ Read(c) \/ Write(c) \/ Fail(c)

Spec == Init /\ [][Next]_vars

-----------------------------------------------------------------------------
(* Every variable has its type; a call about to write asks for a valid     *)
(* transition, out of a status the job has had.                            *)
TypeOK == /\ status \in [Jobs -> Status]
          /\ call \in [Calls -> Active \cup [pc : Answers]]
          /\ seen \in [Jobs -> SUBSET Status]
          /\ \A j \in Jobs : status[j] \in seen[j]
          /\ \A c \in Calls : call[c].pc = "write" =>
                /\ canTransition(call[c].req[1], call[c].req[2])
                /\ call[c].req[1] \in seen[call[c].job]

StagesBefore(s) ==
    CASE s = "queued" -> {"pending"}
      [] s = "downloading" -> {"pending", "queued"}
      [] s = "processing" -> {"pending", "queued", "downloading"}
      [] s = "uploading" -> {"pending", "queued", "downloading", "processing"}
      [] s = "completed" -> {"pending", "queued", "downloading", "processing", "uploading"}
      [] OTHER -> {"pending"}

(* Whatever calls race on a job, no stage is skipped: a job that has been  *)
(* in a stage has been in every stage before it, although TransitionTo     *)
(* writes on the strength of a status that may have changed meanwhile.     *)
NoStageSkipped == \A j \in Jobs : \A s \in seen[j] : StagesBefore(s) \subseteq seen[j]

(* A caller told "ok" may rely on it that the job did have the status it   *)
(* asked for, though another call may have changed it since.               *)
OkWasReached ==
    [][\A c \in Calls : Busy(c) /\ call'[c].pc = "ok"
                           => call[c].req[2] \in seen'[call[c].job]]_vars

(* The empty rows of validTransitions for completed, failed and cancelled, *)
(* and status_machine_test.go:23, "completed to failed is invalid": a      *)
(* terminal status is final.                                               *)
TerminalIsFinal ==
    [][\A j \in Jobs : status[j] \in Terminal => status'[j] = status[j]]_status

(* Only calls that had read before can undo a terminal status: once none   *)
(* is left about to write, whatever is asked from then on, the status is   *)
(* final.                                                                  *)
Settled(j) == /\ status[j] \in Terminal
              /\ \A c \in Calls : call[c].pc = "write" => call[c].job # j
SettledIsFinal ==
    [][\A j \in Jobs : Settled(j) => Settled(j)' /\ status'[j] = status[j]]_vars

(* What the rest of the system may rely on, the web page for one: a status *)
(* follows, by a valid transition, one that the job has had, even when it  *)
(* is written over another that it does not follow from.                   *)
Lifecycle == INSTANCE JobLifecycle
RefinesLifecycle == Lifecycle!LCSpec
==============================================================================
