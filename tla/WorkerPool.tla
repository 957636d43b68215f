----------------------------- MODULE WorkerPool -----------------------------
(***************************************************************************)
(* The worker processes: a Redis stream read through a consumer group, and *)
(* in every process one pool made of a dispatcher, some workers and a      *)
(* result handler, joined by two bounded channels and by the inFlight map  *)
(* (grpc/worker/worker.go, grpc/service/worker.go,                         *)
(* grpc/repository/redis.go).                                              *)
(*                                                                         *)
(* A message is its position in the stream.  What TranscodeVideo does to   *)
(* the job is left to JobPipeline.tla: here a transcode runs and returns,  *)
(* with an error or without, since handleResults treats both alike.        *)
(***************************************************************************)
EXTENDS Functions, Sequences

CONSTANTS Pools,         \* the worker processes
          Workers,       \* the worker goroutines of each pool
          Jobs,          \* job IDs
          NoJob,         \* what extractJobID finds in a malformed message
          NumMsgs,       \* bound: messages ever added to the stream
          JobOf,         \* JobOf[m] is the job message m names, or NoJob
          JobBuffer,     \* capacity of jobChan
          ResultBuffer,  \* capacity of resultChan
          MaxLen,        \* length the stream is trimmed to
          MaxFaults,     \* bound: crashes and failed Redis calls
          Cancellable    \* the pools whose context may be cancelled

Msgs == 1..NumMsgs

ASSUME PoolAssumption ==
    /\ NumMsgs \in Nat /\ MaxFaults \in Nat
    /\ JobBuffer \in Nat \ {0} /\ ResultBuffer \in Nat \ {0} /\ MaxLen \in Nat \ {0}
    /\ NoJob \notin Jobs
    /\ JobOf \in [Msgs -> Jobs \cup {NoJob}]
    /\ Cancellable \subseteq Pools

NoMsg == 0               \* no message is held
Malformed == {m \in Msgs : JobOf[m] = NoJob}

VARIABLES
    \* the stream and its consumer group
    added,               \* messages 1..added have been added
    first,               \* the oldest message not trimmed
    cursor,              \* the newest message ever delivered to the group
    pel,                 \* the pending entries list
    stale,               \* the pending entries idle for reclaimMinIdle
    acked,               \* the messages XACK was applied to
    \* the pools
    ctxDone,             \* ctxDone[p]: the context of pool p is cancelled
    dpc, dmsg,           \* the dispatcher and the message it holds
    inFlight,            \* the reserved job IDs
    jobChan, jobClosed,
    wpc, wmsg,           \* the workers and the message each holds
    resultChan, resultClosed,
    hpc, hmsg,           \* the result handler and the message it holds
    \* history and bounds
    processed,           \* messages one transcode of which has returned
    faults               \* faults so far

stream == <<added, first, cursor, pel, stale, acked>>
dispatcher == <<dpc, dmsg>>
workers == <<wpc, wmsg>>
handler == <<hpc, hmsg>>
channels == <<jobChan, jobClosed, resultChan, resultClosed>>
vars == <<stream, ctxDone, dispatcher, inFlight, channels, workers, handler,
          processed, faults>>

-----------------------------------------------------------------------------
Init ==
    /\ added = 0 /\ first = 1 /\ cursor = 0
    /\ pel = {} /\ stale = {} /\ acked = {}
    /\ ctxDone = [p \in Pools |-> FALSE]
    /\ dpc = [p \in Pools |-> "loop"] /\ dmsg = [p \in Pools |-> NoMsg]
    /\ inFlight = [p \in Pools |-> {}]
    /\ jobChan = [p \in Pools |-> <<>>] /\ jobClosed = [p \in Pools |-> FALSE]
    /\ wpc = [p \in Pools |-> [w \in Workers |-> "idle"]]
    /\ wmsg = [p \in Pools |-> [w \in Workers |-> NoMsg]]
    /\ resultChan = [p \in Pools |-> <<>>] /\ resultClosed = [p \in Pools |-> FALSE]
    /\ hpc = [p \in Pools |-> "recv"] /\ hmsg = [p \in Pools |-> NoMsg]
    /\ processed = {} /\ faults = 0

(* A Redis call of pool p may fail: within the budget of faults, and at    *)
(* will once the context it is made with has been cancelled.               *)
MayFail(p) ==
    \/ ctxDone[p] /\ UNCHANGED faults
    \/ faults < MaxFaults /\ faults' = faults + 1

-----------------------------------------------------------------------------
(* The stream.                                                             *)

(* AddtoStream: XADD with an approximate MAXLEN, which may trim the oldest *)
(* entries, read or not, but never below MaxLen.                           *)
AddtoStream ==
    /\ added < NumMsgs
    /\ added' = added + 1
    /\ \E f \in Msgs : /\ f = first \/ (f > first /\ f + MaxLen <= added + 2)
                       /\ first' = f
    /\ UNCHANGED <<cursor, pel, stale, acked, ctxDone, dispatcher, inFlight,
                   channels, workers, handler, processed, faults>>

(* Time passes: a pending entry has been idle for reclaimMinIdle.          *)
Age(m) ==
    /\ m \in pel \ stale
    /\ stale' = stale \cup {m}
    /\ UNCHANGED <<added, first, cursor, pel, acked, ctxDone, dispatcher, inFlight,
                   channels, workers, handler, processed, faults>>

(* XACK, whoever the entry is delivered to.                                *)
XAck(m) ==
    /\ pel' = pel \ {m}
    /\ stale' = stale \ {m}
    /\ acked' = acked \cup {m}
    /\ UNCHANGED <<added, first, cursor>>

(* XAUTOCLAIM from 0-0 with COUNT 1: the oldest idle entry is claimed and  *)
(* its idle time restarts; entries trimmed from the stream leave the       *)
(* pending list on the way.                                                *)
Live(S) == {m \in S : m >= first}

XAutoClaim(m) ==
    /\ m \in Live(stale)
    /\ \A k \in Live(stale) : m <= k
    /\ pel' = Live(pel)
    /\ stale' = Live(stale) \ {m}
    /\ UNCHANGED <<added, first, cursor, acked>>

(* Mutation: the read has NOACK set.                                       *)
XReadGroupNoAck(m) ==
    /\ m = IF cursor < first THEN first ELSE cursor + 1
    /\ m <= added
    /\ cursor' = m
    /\ UNCHANGED <<added, first, pel, stale, acked>>

(* XREADGROUP ">": the first entry after the cursor that is still there.   *)
XReadGroup(m) ==
    /\ m = IF cursor < first THEN first ELSE cursor + 1
    /\ m <= added
    /\ cursor' = m
    /\ pel' = pel \cup {m}
    /\ UNCHANGED <<added, first, stale, acked>>

NothingNew == cursor = added

-----------------------------------------------------------------------------
(* The dispatcher: "loop" is the head of the for loop and the claim,       *)
(* "read" the read of a new message, "parse" the message in hand, "send"   *)
(* the select on jobChan.                                                  *)
DispatcherGoes(p, pc, m) ==
    /\ dpc' = [dpc EXCEPT ![p] = pc]
    /\ dmsg' = [dmsg EXCEPT ![p] = m]

DispatcherStops(p) ==
    /\ dpc[p] = "loop" /\ ctxDone[p]
    /\ DispatcherGoes(p, "done", NoMsg)
    /\ UNCHANGED <<stream, ctxDone, inFlight, channels, workers, handler,
                   processed, faults>>

(* The claim returns an entry, or its reply is lost: the entry is then     *)
(* this consumer's, which does not know it.                                *)
ClaimStale(p) ==
    /\ dpc[p] = "loop" /\ ~ctxDone[p]
    /\ \E m \in stale :
         /\ XAutoClaim(m)
         /\ \/ DispatcherGoes(p, "parse", m) /\ UNCHANGED faults
            \/ MayFail(p) /\ UNCHANGED dispatcher
    /\ UNCHANGED <<ctxDone, inFlight, channels, workers, handler, processed>>

NothingStale(p) ==
    /\ dpc[p] = "loop" /\ ~ctxDone[p]
    /\ Live(stale) = {}
    /\ pel' = Live(pel) /\ stale' = {}
    /\ DispatcherGoes(p, "read", NoMsg)
    /\ UNCHANGED <<added, first, cursor, acked, ctxDone, inFlight, channels,
                   workers, handler, processed, faults>>

(* Likewise for the read of a new message.                                 *)
ReadNew(p) ==
    /\ dpc[p] = "read"
    /\ \E m \in Msgs :
         /\ XReadGroup(m)
         /\ \/ DispatcherGoes(p, "parse", m) /\ UNCHANGED faults
            \/ MayFail(p) /\ DispatcherGoes(p, "loop", NoMsg)
    /\ UNCHANGED <<ctxDone, inFlight, channels, workers, handler, processed>>

(* The five-second block ends with nothing read.                           *)
ReadNothing(p) ==
    /\ dpc[p] = "read" /\ NothingNew
    /\ DispatcherGoes(p, "loop", NoMsg)
    /\ UNCHANGED <<stream, ctxDone, inFlight, channels, workers, handler,
                   processed, faults>>

(* A call that fails without effect sends the dispatcher back to the loop. *)
FetchFails(p) ==
    /\ dpc[p] = "read" \/ (dpc[p] = "loop" /\ ~ctxDone[p])
    /\ MayFail(p)
    /\ DispatcherGoes(p, "loop", NoMsg)
    /\ UNCHANGED <<stream, ctxDone, inFlight, channels, workers, handler, processed>>

(* parseMessage acknowledges a message with no job field and drops it.     *)
DropMalformed(p) ==
    /\ dpc[p] = "parse" /\ JobOf[dmsg[p]] = NoJob
    /\ \/ XAck(dmsg[p]) /\ UNCHANGED faults
       \/ MayFail(p) /\ UNCHANGED stream
    /\ DispatcherGoes(p, "loop", NoMsg)
    /\ UNCHANGED <<ctxDone, inFlight, channels, workers, handler, processed>>

Reserved(p, m) == JobOf[m] \in inFlight[p]

(* Mutation: a payload is taken for a job, whether it names one or not.    *)
reserveMalformed(p) ==
    /\ dpc[p] = "parse" /\ ~Reserved(p, dmsg[p])
    /\ inFlight' = [inFlight EXCEPT ![p] = @ \cup {JobOf[dmsg[p]]}]
    /\ DispatcherGoes(p, "send", dmsg[p])
    /\ UNCHANGED <<stream, ctxDone, channels, workers, handler, processed, faults>>

(* Mutation: the map is written without being looked at.                   *)
reserveUnchecked(p) ==
    /\ dpc[p] = "parse" /\ JobOf[dmsg[p]] # NoJob
    /\ inFlight' = [inFlight EXCEPT ![p] = @ \cup {JobOf[dmsg[p]]}]
    /\ DispatcherGoes(p, "send", dmsg[p])
    /\ UNCHANGED <<stream, ctxDone, channels, workers, handler, processed, faults>>

reserveJob(p) ==
    /\ dpc[p] = "parse" /\ JobOf[dmsg[p]] # NoJob
    /\ ~Reserved(p, dmsg[p])
    /\ inFlight' = [inFlight EXCEPT ![p] = @ \cup {JobOf[dmsg[p]]}]
    /\ DispatcherGoes(p, "send", dmsg[p])
    /\ UNCHANGED <<stream, ctxDone, channels, workers, handler, processed, faults>>

(* Mutation: the reservation is never given back.                          *)
releaseNothing(p, m) == UNCHANGED inFlight

releaseJob(p, m) == inFlight' = [inFlight EXCEPT ![p] = @ \ {JobOf[m]}]

(* Mutation: a duplicate is acknowledged instead of left pending.          *)
SkipAndAck(p) ==
    /\ dpc[p] = "parse" /\ JobOf[dmsg[p]] # NoJob
    /\ Reserved(p, dmsg[p])
    /\ XAck(dmsg[p])
    /\ DispatcherGoes(p, "loop", NoMsg)
    /\ UNCHANGED <<ctxDone, inFlight, channels, workers, handler, processed, faults>>

(* The job is in flight in this pool: the message is dropped, not          *)
(* acknowledged, and stays in the pending list.                            *)
SkipDuplicate(p) ==
    /\ dpc[p] = "parse" /\ JobOf[dmsg[p]] # NoJob
    /\ Reserved(p, dmsg[p])
    /\ DispatcherGoes(p, "loop", NoMsg)
    /\ UNCHANGED <<stream, ctxDone, inFlight, channels, workers, handler,
                   processed, faults>>

SendJob(p) ==
    /\ dpc[p] = "send" /\ Len(jobChan[p]) < JobBuffer
    /\ jobChan' = [jobChan EXCEPT ![p] = Append(@, dmsg[p])]
    /\ DispatcherGoes(p, "loop", NoMsg)
    /\ UNCHANGED <<stream, ctxDone, inFlight, jobClosed, resultChan, resultClosed,
                   workers, handler, processed, faults>>

(* Mutation: a plain send, with no select on ctx.Done().                   *)
SendUnconditionally(p) == FALSE

(* select on ctx.Done() in place of the send: the reservation is returned. *)
SendCancelled(p) ==
    /\ dpc[p] = "send" /\ ctxDone[p]
    /\ releaseJob(p, dmsg[p])
    /\ DispatcherGoes(p, "done", NoMsg)
    /\ UNCHANGED <<stream, ctxDone, channels, workers, handler, processed, faults>>

Dispatcher(p) ==
    \/ DispatcherStops(p) \/ ClaimStale(p) \/ NothingStale(p)
    \/ ReadNew(p) \/ ReadNothing(p) \/ FetchFails(p)
    \/ DropMalformed(p) \/ reserveJob(p) \/ SkipDuplicate(p)
    \/ SendJob(p) \/ SendCancelled(p)

-----------------------------------------------------------------------------
(* A worker: "idle" in the select on jobs, "busy" in TranscodeVideo,       *)
(* "deliver" in the select on result.                                      *)
WorkerGoes(p, w, pc, m) ==
    /\ wpc' = [wpc EXCEPT ![p][w] = pc]
    /\ wmsg' = [wmsg EXCEPT ![p][w] = m]

TakeJob(p, w) ==
    /\ wpc[p][w] = "idle" /\ jobChan[p] # <<>>
    /\ WorkerGoes(p, w, "busy", Head(jobChan[p]))
    /\ jobChan' = [jobChan EXCEPT ![p] = Tail(@)]
    /\ UNCHANGED <<stream, ctxDone, dispatcher, inFlight, jobClosed, resultChan,
                   resultClosed, handler, processed, faults>>

TranscodeReturns(p, w) ==
    /\ wpc[p][w] = "busy"
    /\ processed' = processed \cup {wmsg[p][w]}
    /\ WorkerGoes(p, w, "deliver", wmsg[p][w])
    /\ UNCHANGED <<stream, ctxDone, dispatcher, inFlight, channels, handler, faults>>

DeliverResult(p, w) ==
    /\ wpc[p][w] = "deliver" /\ Len(resultChan[p]) < ResultBuffer
    /\ resultChan' = [resultChan EXCEPT ![p] = Append(@, wmsg[p][w])]
    /\ WorkerGoes(p, w, "idle", NoMsg)
    /\ UNCHANGED <<stream, ctxDone, dispatcher, inFlight, jobChan, jobClosed,
                   resultClosed, handler, processed, faults>>

(* The worker leaves when jobs is closed and drained, or on ctx.Done(),    *)
(* with the result of a finished transcode undelivered if it has one.      *)
WorkerReturns(p, w) ==
    /\ \/ wpc[p][w] = "idle" /\ jobClosed[p] /\ jobChan[p] = <<>>
       \/ wpc[p][w] \in {"idle", "deliver"} /\ ctxDone[p]
    /\ WorkerGoes(p, w, "done", NoMsg)
    /\ UNCHANGED <<stream, ctxDone, dispatcher, inFlight, channels, handler,
                   processed, faults>>

Worker(p, w) == TakeJob(p, w) \/ TranscodeReturns(p, w) \/ DeliverResult(p, w)
                \/ WorkerReturns(p, w)

-----------------------------------------------------------------------------
(* handleResults: the job is released first, its message acknowledged next,*)
(* whether the transcode failed or not; a failed XACK is only logged.      *)
HandlerGoes(p, pc, m) ==
    /\ hpc' = [hpc EXCEPT ![p] = pc]
    /\ hmsg' = [hmsg EXCEPT ![p] = m]

TakeResult(p) ==
    /\ hpc[p] = "recv" /\ resultChan[p] # <<>>
    /\ resultChan' = [resultChan EXCEPT ![p] = Tail(@)]
    /\ releaseJob(p, Head(resultChan[p]))
    /\ HandlerGoes(p, "ack", Head(resultChan[p]))
    /\ UNCHANGED <<stream, ctxDone, dispatcher, jobChan, jobClosed, resultClosed,
                   workers, processed, faults>>

Ack(p) ==
    /\ hpc[p] = "ack"
    /\ \/ XAck(hmsg[p]) /\ UNCHANGED faults
       \/ MayFail(p) /\ UNCHANGED stream
    /\ HandlerGoes(p, "recv", NoMsg)
    /\ UNCHANGED <<ctxDone, dispatcher, inFlight, channels, workers, processed>>

HandlerReturns(p) ==
    /\ hpc[p] = "recv"
    /\ ctxDone[p] \/ (resultClosed[p] /\ resultChan[p] = <<>>)
    /\ HandlerGoes(p, "done", NoMsg)
    /\ UNCHANGED <<stream, ctxDone, dispatcher, inFlight, channels, workers,
                   processed, faults>>

handleResults(p) == TakeResult(p) \/ Ack(p) \/ HandlerReturns(p)

-----------------------------------------------------------------------------
(* Run: jobChan is closed when the dispatcher has returned, resultChan     *)
(* when every worker has.                                                  *)
(* Mutation: jobChan is closed on ctx.Done(), its sender not waited for.   *)
CloseJobsOnCancel(p) ==
    /\ ctxDone[p] /\ ~jobClosed[p]
    /\ jobClosed' = [jobClosed EXCEPT ![p] = TRUE]
    /\ UNCHANGED <<stream, ctxDone, dispatcher, inFlight, jobChan, resultChan,
                   resultClosed, workers, handler, processed, faults>>

CloseJobs(p) ==
    /\ dpc[p] = "done" /\ ~jobClosed[p]
    /\ jobClosed' = [jobClosed EXCEPT ![p] = TRUE]
    /\ UNCHANGED <<stream, ctxDone, dispatcher, inFlight, jobChan, resultChan,
                   resultClosed, workers, handler, processed, faults>>

CloseResults(p) ==
    /\ \A w \in Workers : wpc[p][w] = "done"
    /\ ~resultClosed[p]
    /\ resultClosed' = [resultClosed EXCEPT ![p] = TRUE]
    /\ UNCHANGED <<stream, ctxDone, dispatcher, inFlight, jobChan, jobClosed,
                   resultChan, workers, handler, processed, faults>>

Cancel(p) ==
    /\ p \in Cancellable /\ ~ctxDone[p]
    /\ ctxDone' = [ctxDone EXCEPT ![p] = TRUE]
    /\ UNCHANGED <<stream, dispatcher, inFlight, channels, workers, handler,
                   processed, faults>>

(* The process dies and is started again: everything in memory is lost,    *)
(* NewWorkerPool and Run begin anew under another consumer name.           *)
Crash(p) ==
    /\ faults < MaxFaults /\ faults' = faults + 1
    /\ ctxDone' = [ctxDone EXCEPT ![p] = FALSE]
    /\ DispatcherGoes(p, "loop", NoMsg)
    /\ inFlight' = [inFlight EXCEPT ![p] = {}]
    /\ jobChan' = [jobChan EXCEPT ![p] = <<>>]
    /\ jobClosed' = [jobClosed EXCEPT ![p] = FALSE]
    /\ wpc' = [wpc EXCEPT ![p] = [w \in Workers |-> "idle"]]
    /\ wmsg' = [wmsg EXCEPT ![p] = [w \in Workers |-> NoMsg]]
    /\ resultChan' = [resultChan EXCEPT ![p] = <<>>]
    /\ resultClosed' = [resultClosed EXCEPT ![p] = FALSE]
    /\ HandlerGoes(p, "recv", NoMsg)
    /\ UNCHANGED <<stream, processed>>

PoolStep(p) == \/ Dispatcher(p) \/ \E w \in Workers : Worker(p, w)
               \/ handleResults(p) \/ CloseJobs(p) \/ CloseResults(p)

Next == \/ AddtoStream
        \/ \E m \in Msgs : Age(m)
        \/ \E p \in Pools : PoolStep(p) \/ Cancel(p) \/ Crash(p)

Spec == Init /\ [][Next]_vars

(* Every goroutine keeps running, a transcode returns, and an unclaimed    *)
(* pending entry grows idle; failures are bounded by MaxFaults.            *)
Fairness ==
    /\ \A m \in Msgs : WF_vars(Age(m))
    /\ \A p \in Pools : /\ WF_vars(Dispatcher(p))
                        /\ \A w \in Workers : WF_vars(Worker(p, w))
                        /\ WF_vars(handleResults(p))
                        /\ WF_vars(CloseJobs(p))
                        /\ WF_vars(CloseResults(p))

FairSpec == Spec /\ Fairness

-----------------------------------------------------------------------------
(* Every variable has its type; a pending entry was delivered, and only a  *)
(* pending entry grows idle; a channel never exceeds its capacity.         *)
StreamTypeOK ==
    /\ added \in 0..NumMsgs /\ first \in Nat \ {0} /\ cursor \in 0..added
    /\ pel \subseteq 1..cursor /\ stale \subseteq pel /\ acked \subseteq 1..cursor

TypeOK ==
    /\ StreamTypeOK
    /\ ctxDone \in [Pools -> BOOLEAN]
    /\ dpc \in [Pools -> {"loop", "read", "parse", "send", "done"}]
    /\ dmsg \in [Pools -> 0..NumMsgs]
    /\ inFlight \in [Pools -> SUBSET Jobs]
    /\ jobChan \in [Pools -> Seq(Msgs)]
    /\ \A p \in Pools : Len(jobChan[p]) <= JobBuffer
    /\ jobClosed \in [Pools -> BOOLEAN]
    /\ wpc \in [Pools -> [Workers -> {"idle", "busy", "deliver", "done"}]]
    /\ wmsg \in [Pools -> [Workers -> 0..NumMsgs]]
    /\ resultChan \in [Pools -> Seq(Msgs)]
    /\ \A p \in Pools : Len(resultChan[p]) <= ResultBuffer
    /\ resultClosed \in [Pools -> BOOLEAN]
    /\ hpc \in [Pools -> {"recv", "ack", "done"}]
    /\ hmsg \in [Pools -> 0..NumMsgs]
    /\ processed \subseteq 1..cursor
    /\ faults \in 0..MaxFaults

(* A message at any place of a pool was delivered to the group.            *)
HeldDelivered ==
    \A p \in Pools :
        /\ dpc[p] \in {"parse", "send"} => dmsg[p] \in 1..cursor
        /\ \A i \in 1..Len(jobChan[p]) : jobChan[p][i] \in 1..cursor
        /\ \A w \in Workers : wpc[p][w] \in {"busy", "deliver"} => wmsg[p][w] \in 1..cursor
        /\ \A i \in 1..Len(resultChan[p]) : resultChan[p][i] \in 1..cursor
        /\ hpc[p] = "ack" => hmsg[p] \in 1..cursor

(* Where pool p holds the jobs it has reserved.                            *)
JobsIn(q) == {JobOf[m] : m \in Range(q)}
JobAt(p, w) == JobOf[wmsg[p][w]]
Working(p) == {w \in Workers : wpc[p][w] \in {"busy", "deliver"}}
Running(p) == {JobAt(p, w) : w \in Working(p)}
Sending(p) == IF dpc[p] = "send" THEN {JobOf[dmsg[p]]} ELSE {}
Held(p) == Sending(p) \cup JobsIn(jobChan[p]) \cup Running(p) \cup JobsIn(resultChan[p])
NoRepeat(q) == \A i, k \in 1..Len(q) : JobOf[q[i]] = JobOf[q[k]] => i = k

Exclusive(p) ==
    /\ NoRepeat(jobChan[p]) /\ NoRepeat(resultChan[p])
    /\ \A v, w \in Working(p) : JobAt(p, v) = JobAt(p, w) => v = w
    /\ Running(p) \cap (JobsIn(jobChan[p]) \cup JobsIn(resultChan[p])) = {}
    /\ JobsIn(jobChan[p]) \cap JobsIn(resultChan[p]) = {}
    /\ Sending(p) \cap (JobsIn(jobChan[p]) \cup Running(p) \cup JobsIn(resultChan[p])) = {}

(* At any time one pool holds a job at one place at most: in the           *)
(* dispatcher, in either channel or at one worker.  So no two workers of a *)
(* pool transcode the same job, although messages of one job are delivered *)
(* twice and reclaimed while they run (reserveJob, releaseJob).            *)
ExclusiveJobs == \A p \in Pools : Exclusive(p)

(* A pool that has not been cancelled reserves exactly the jobs it holds:  *)
(* no reservation outlives its job, which would shut every later message   *)
(* of that job out of the pool, and no job is held without one.            *)
ReservedIsHeld ==
    \A p \in Pools : /\ Held(p) \subseteq inFlight[p]
                     /\ ~ctxDone[p] => inFlight[p] \subseteq Held(p)

(* A message is acknowledged only after a transcode of it has returned,    *)
(* or when it is malformed (handleResults, parseMessage).                  *)
AckedWasProcessed == acked \subseteq processed \cup Malformed

(* A message once read is not forgotten, whether the pool that read it has *)
(* crashed, never got the reply, was cancelled or skipped it: it stays     *)
(* pending, for a pool to claim, until it is acknowledged or trimmed, and  *)
(* once it is acknowledged it is not pending again.                        *)
NothingLost == /\ \A m \in 1..cursor : m \in pel \cup acked \/ m < first
               /\ pel \cap acked = {}

(* It holds because a result exists only for a transcode that returned.    *)
ResultsProcessed ==
    \A p \in Pools :
        /\ \A w \in Workers : wpc[p][w] = "deliver" => wmsg[p][w] \in processed
        /\ \A i \in 1..Len(resultChan[p]) : resultChan[p][i] \in processed
        /\ hpc[p] = "ack" => hmsg[p] \in processed

(* Neither channel is closed while a goroutine may still send on it (Run). *)
NoSendOnClosed ==
    \A p \in Pools :
        /\ jobClosed[p] => dpc[p] = "done"
        /\ resultClosed[p] => \A w \in Workers : wpc[p][w] = "done"

TranscodedOnce(m) ==
    \A p, r \in Pools : \A v, w \in Workers :
        /\ wpc[p][v] = "busy" /\ wmsg[p][v] = m
        /\ wpc[r][w] = "busy" /\ wmsg[r][w] = m
        => p = r /\ v = w

(* The comment of GetFromStream, "Reclaim only stale pending entries so    *)
(* in-flight messages are not duplicated" (redis.go:87): no message is     *)
(* transcoded in two pools at once.                                        *)
InFlightNotDuplicated == \A m \in Msgs : TranscodedOnce(m)

(* Every message added is acknowledged in the end, unless the stream was   *)
(* trimmed past it or every pool is cancelled: crashes, lost replies,      *)
(* failed acknowledgements and skipped duplicates only delay it.           *)
EventuallyAcked ==
    \A m \in Msgs :
        (m <= added) ~> (m \in acked \/ m < first \/ \A p \in Pools : ctxDone[p])

(* A cancelled pool stops: the dispatcher, every worker and the result     *)
(* handler return, none of them left blocked on a channel.                 *)
Stopped(p) == /\ dpc[p] = "done" /\ hpc[p] = "done" /\ jobClosed[p] /\ resultClosed[p]
              /\ \A w \in Workers : wpc[p][w] = "done"
ShutdownCompletes == \A p \in Pools : ctxDone[p] ~> (Stopped(p) \/ ~ctxDone[p])

(* The pools implement the abstract work queue.                            *)
Queue == INSTANCE WorkQueue
RefinesWorkQueue == Queue!WQSpec
==============================================================================
