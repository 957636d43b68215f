-------------------------- MODULE WorkerPoolProofs --------------------------
(***************************************************************************)
(* Proofs about WorkerPool.tla, for any number of pools, workers, messages *)
(* and faults.                                                             *)
(***************************************************************************)
EXTENDS WorkerPool, TLAPS

(* What taking from the head of a channel and sending to its tail do.      *)
LEMMA HeadTail ==
    ASSUME NEW S, NEW q \in Seq(S), q # <<>>
    PROVE  /\ Head(q) = q[1] /\ Head(q) \in S /\ 1 \in 1..Len(q)
           /\ Tail(q) \in Seq(S) /\ Len(Tail(q)) = Len(q) - 1
           /\ \A i \in 1..Len(Tail(q)) : i + 1 \in 1..Len(q) /\ Tail(q)[i] = q[i + 1]
OBVIOUS

LEMMA AppendOne ==
    ASSUME NEW S, NEW q \in Seq(S), NEW e \in S
    PROVE  /\ Append(q, e) \in Seq(S) /\ Len(Append(q, e)) = Len(q) + 1
           /\ \A i \in 1..Len(q) : Append(q, e)[i] = q[i]
           /\ Append(q, e)[Len(q) + 1] = e
OBVIOUS

(* What each call on the stream does to its type.                          *)
LEMMA StreamSame ==
    ASSUME StreamTypeOK, UNCHANGED stream
    PROVE  StreamTypeOK' /\ cursor' = cursor
BY DEF StreamTypeOK, stream

LEMMA StreamAck ==
    ASSUME StreamTypeOK, NEW m \in 1..cursor, XAck(m)
    PROVE  StreamTypeOK' /\ cursor' = cursor
BY PoolAssumption DEF StreamTypeOK, XAck

LEMMA StreamClaim ==
    ASSUME StreamTypeOK, NEW m, XAutoClaim(m)
    PROVE  StreamTypeOK' /\ cursor' = cursor /\ m \in 1..cursor
BY PoolAssumption DEF StreamTypeOK, XAutoClaim, Live

LEMMA StreamRead ==
    ASSUME StreamTypeOK, NEW m \in Msgs, XReadGroup(m)
    PROVE  StreamTypeOK' /\ cursor < cursor' /\ m = cursor'
BY PoolAssumption DEF StreamTypeOK, XReadGroup, Msgs

(* The type invariant alone is not inductive: reserveJob puts the job of   *)
(* dmsg into inFlight, so the dispatcher must hold a message there.        *)
TypeInv == TypeOK /\ HeldDelivered

LEMMA TypeInit == Init => TypeInv
BY PoolAssumption DEF Init, TypeInv, TypeOK, StreamTypeOK, HeldDelivered, NoMsg, Msgs

LEMMA TypeStep == TypeInv /\ [Next]_vars => TypeOK'
<1> SUFFICES ASSUME TypeOK, HeldDelivered, [Next]_vars PROVE TypeOK'
    BY DEF TypeInv
<1> USE PoolAssumption DEF TypeOK, Msgs, NoMsg,
                           dispatcher, workers, handler, channels
<1>1. CASE AddtoStream
    BY <1>1 DEF AddtoStream, StreamTypeOK, stream
<1>2. ASSUME NEW m \in Msgs, Age(m) PROVE TypeOK'
    BY <1>2 DEF Age, StreamTypeOK, stream
<1>3. ASSUME NEW p \in Pools, Dispatcher(p) PROVE TypeOK'
    <2> USE DEF DispatcherGoes
    <2>1. CASE DispatcherStops(p)
        BY <2>1 DEF DispatcherStops, StreamTypeOK, stream
    <2>2. CASE ClaimStale(p)
        <3>1. PICK m \in stale :
                 /\ XAutoClaim(m)
                 /\ \/ DispatcherGoes(p, "parse", m) /\ UNCHANGED faults
                    \/ MayFail(p) /\ UNCHANGED dispatcher
            BY ONLY <2>2 DEF ClaimStale
        <3>2. StreamTypeOK' /\ cursor' = cursor /\ m \in 0..NumMsgs
            BY ONLY TypeOK, <3>1, StreamClaim, PoolAssumption DEF TypeOK, StreamTypeOK
        <3>3. UNCHANGED <<ctxDone, inFlight, channels, workers, handler, processed>>
            BY ONLY <2>2 DEF ClaimStale
        <3>4. CASE DispatcherGoes(p, "parse", m) /\ UNCHANGED faults
            BY <3>2, <3>3, <3>4
        <3>5. CASE MayFail(p) /\ UNCHANGED dispatcher
            BY <3>2, <3>3, <3>5 DEF MayFail
        <3> QED
            BY ONLY <3>1, <3>4, <3>5
    <2>3. CASE NothingStale(p)
        <3>1. StreamTypeOK' /\ cursor' = cursor
            BY <2>3 DEF NothingStale, Live, StreamTypeOK
        <3> QED
            BY <2>3, <3>1 DEF NothingStale
    <2>4. CASE ReadNew(p)
        <3>1. PICK m \in Msgs :
                 /\ XReadGroup(m)
                 /\ \/ DispatcherGoes(p, "parse", m) /\ UNCHANGED faults
                    \/ MayFail(p) /\ DispatcherGoes(p, "loop", NoMsg)
            BY ONLY <2>4 DEF ReadNew
        <3>2. StreamTypeOK' /\ cursor < cursor'
            BY ONLY TypeOK, <3>1, StreamRead DEF TypeOK
        <3>3. processed \subseteq 1..cursor'
            BY ONLY TypeOK, <3>2 DEF TypeOK, StreamTypeOK
        <3>4. UNCHANGED <<ctxDone, inFlight, channels, workers, handler, processed>>
            BY ONLY <2>4 DEF ReadNew
        <3>5. CASE DispatcherGoes(p, "parse", m) /\ UNCHANGED faults
            BY <3>2, <3>3, <3>4, <3>5
        <3>6. CASE MayFail(p) /\ DispatcherGoes(p, "loop", NoMsg)
            BY <3>2, <3>3, <3>4, <3>6 DEF MayFail
        <3> QED
            BY ONLY <3>1, <3>5, <3>6
    <2>5. CASE ReadNothing(p)
        BY <2>5 DEF ReadNothing, StreamTypeOK, stream
    <2>6. CASE FetchFails(p)
        BY <2>6 DEF FetchFails, MayFail, StreamTypeOK, stream
    <2>7. CASE DropMalformed(p)
        <3>1. StreamTypeOK' /\ cursor' = cursor
            BY <2>7, StreamAck, StreamSame DEF DropMalformed, HeldDelivered
        <3> QED
            BY <2>7, <3>1 DEF DropMalformed, MayFail
    <2>8. CASE reserveJob(p)
        BY <2>8 DEF reserveJob, Reserved, HeldDelivered, StreamTypeOK, stream
    <2>9. CASE SkipDuplicate(p)
        BY <2>9 DEF SkipDuplicate, StreamTypeOK, stream
    <2>10. CASE SendJob(p)
        <3> DEFINE q == Append(jobChan[p], dmsg[p])
        <3>1. dmsg[p] \in Msgs
            BY <2>10 DEF SendJob, HeldDelivered, StreamTypeOK
        <3>2. q \in Seq(Msgs) /\ Len(q) <= JobBuffer
            BY <2>10, <3>1, AppendOne DEF SendJob
        <3>3. StreamTypeOK' /\ cursor' = cursor
            BY <2>10, StreamSame DEF SendJob
        <3>4. jobChan' = [jobChan EXCEPT ![p] = q]
            BY <2>10 DEF SendJob
        <3>5. jobChan' \in [Pools -> Seq(Msgs)] /\ \A r \in Pools : Len(jobChan'[r]) <= JobBuffer
            <4> HIDE DEF q
            <4> QED  BY <3>2, <3>4
        <3>6. /\ UNCHANGED <<ctxDone, inFlight, jobClosed, resultChan, resultClosed,
                             wpc, wmsg, hpc, hmsg, processed, faults>>
              /\ DispatcherGoes(p, "loop", NoMsg)
            BY ONLY <2>10 DEF SendJob, workers, handler
        <3> QED
            BY <3>3, <3>5, <3>6
    <2>11. CASE SendCancelled(p)
        BY <2>11 DEF SendCancelled, releaseJob, StreamTypeOK, stream
    <2> QED
        BY <1>3, <2>1, <2>2, <2>3, <2>4, <2>5, <2>6, <2>7, <2>8, <2>9, <2>10, <2>11
        DEF Dispatcher
<1>4. ASSUME NEW p \in Pools, NEW w \in Workers, Worker(p, w) PROVE TypeOK'
    <2> USE DEF WorkerGoes
    <2>1. CASE TakeJob(p, w)
        <3> DEFINE m == Head(jobChan[p])
                   q == Tail(jobChan[p])
        <3>1. m \in Msgs /\ q \in Seq(Msgs) /\ Len(q) <= JobBuffer
            BY <2>1, HeadTail DEF TakeJob
        <3>2. /\ jobChan' = [jobChan EXCEPT ![p] = q]
              /\ wpc' = [wpc EXCEPT ![p][w] = "busy"] /\ wmsg' = [wmsg EXCEPT ![p][w] = m]
            BY <2>1 DEF TakeJob
        <3>3. StreamTypeOK' /\ cursor' = cursor
            BY <2>1, StreamSame DEF TakeJob
        <3>4. jobChan' \in [Pools -> Seq(Msgs)] /\ \A r \in Pools : Len(jobChan'[r]) <= JobBuffer
            <4> HIDE DEF m, q
            <4> QED  BY <3>1, <3>2
        <3>5. UNCHANGED <<ctxDone, dpc, dmsg, inFlight, jobClosed, resultChan, resultClosed,
                          hpc, hmsg, processed, faults>>
            BY ONLY <2>1 DEF TakeJob, dispatcher, handler
        <3> HIDE DEF m, q
        <3> QED
            BY <3>1, <3>2, <3>3, <3>4, <3>5
    <2>2. CASE TranscodeReturns(p, w)
        BY <2>2 DEF TranscodeReturns, HeldDelivered, StreamTypeOK, stream
    <2>3. CASE DeliverResult(p, w)
        <3> DEFINE m == wmsg[p][w]
                   q == Append(resultChan[p], m)
        <3>1. m \in Msgs /\ q \in Seq(Msgs) /\ Len(q) <= ResultBuffer
            BY <2>3, AppendOne DEF DeliverResult, StreamTypeOK, HeldDelivered
        <3>2. /\ resultChan' = [resultChan EXCEPT ![p] = q]
              /\ wpc' = [wpc EXCEPT ![p][w] = "idle"] /\ wmsg' = [wmsg EXCEPT ![p][w] = NoMsg]
            BY <2>3 DEF DeliverResult
        <3>3. StreamTypeOK' /\ cursor' = cursor
            BY <2>3, StreamSame DEF DeliverResult
        <3>4. resultChan' \in [Pools -> Seq(Msgs)] /\ \A r \in Pools : Len(resultChan'[r]) <= ResultBuffer
            <4> HIDE DEF m, q
            <4> QED  BY <3>1, <3>2
        <3>5. UNCHANGED <<ctxDone, dpc, dmsg, inFlight, jobChan, jobClosed, resultClosed,
                          hpc, hmsg, processed, faults>>
            BY ONLY <2>3 DEF DeliverResult, dispatcher, handler
        <3> HIDE DEF m, q
        <3> QED
            BY <3>1, <3>2, <3>3, <3>4, <3>5
    <2>4. CASE WorkerReturns(p, w)
        BY <2>4 DEF WorkerReturns, StreamTypeOK, stream
    <2> QED
        BY <1>4, <2>1, <2>2, <2>3, <2>4 DEF Worker
<1>5. ASSUME NEW p \in Pools, handleResults(p) PROVE TypeOK'
    <2> USE DEF HandlerGoes
    <2>1. CASE TakeResult(p)
        <3> DEFINE m == Head(resultChan[p])
                   q == Tail(resultChan[p])
        <3>1. m \in Msgs /\ q \in Seq(Msgs) /\ Len(q) <= ResultBuffer
            BY <2>1, HeadTail DEF TakeResult
        <3>2. /\ resultChan' = [resultChan EXCEPT ![p] = q]
              /\ hpc' = [hpc EXCEPT ![p] = "ack"] /\ hmsg' = [hmsg EXCEPT ![p] = m]
              /\ inFlight' = [inFlight EXCEPT ![p] = @ \ {JobOf[m]}]
            BY <2>1 DEF TakeResult, releaseJob
        <3>3. StreamTypeOK' /\ cursor' = cursor
            BY <2>1, StreamSame DEF TakeResult
        <3> HIDE DEF m, q
        <3> QED
            BY <2>1, <3>1, <3>2, <3>3 DEF TakeResult
    <2>2. CASE Ack(p)
        <3>1. StreamTypeOK' /\ cursor' = cursor
            BY <2>2, StreamAck, StreamSame DEF Ack, HeldDelivered
        <3> QED
            BY <2>2, <3>1 DEF Ack, MayFail
    <2>3. CASE HandlerReturns(p)
        BY <2>3 DEF HandlerReturns, StreamTypeOK, stream
    <2> QED
        BY <1>5, <2>1, <2>2, <2>3 DEF handleResults
<1>6. ASSUME NEW p \in Pools, CloseJobs(p) \/ CloseResults(p) \/ Cancel(p) PROVE TypeOK'
    BY <1>6 DEF CloseJobs, CloseResults, Cancel, StreamTypeOK, stream
<1>7. ASSUME NEW p \in Pools, Crash(p) PROVE TypeOK'
    BY <1>7 DEF Crash, DispatcherGoes, HandlerGoes, StreamTypeOK, stream
<1>8. CASE UNCHANGED vars
    BY <1>8 DEF vars, StreamTypeOK, stream
<1> QED
    BY <1>1, <1>2, <1>3, <1>4, <1>5, <1>6, <1>7, <1>8 DEF Next, PoolStep

LEMMA HeldStep == TypeInv /\ [Next]_vars => HeldDelivered'
<1> SUFFICES ASSUME TypeOK, HeldDelivered, [Next]_vars PROVE HeldDelivered'
    BY DEF TypeInv
<1> USE DEF TypeOK, HeldDelivered, NoMsg, dispatcher, workers, handler, channels
<1>1. CASE AddtoStream
    BY <1>1 DEF AddtoStream, StreamTypeOK, stream
<1>2. ASSUME NEW m \in Msgs, Age(m) PROVE HeldDelivered'
    BY <1>2 DEF Age, StreamTypeOK, stream
<1>3. ASSUME NEW p \in Pools, Dispatcher(p) PROVE HeldDelivered'
    <2> USE DEF DispatcherGoes
    <2>1. CASE DispatcherStops(p)
        BY <2>1 DEF DispatcherStops, StreamTypeOK, stream
    <2>2. CASE ClaimStale(p)
        <3>1. cursor' = cursor
              /\ \E m \in 1..cursor : \/ DispatcherGoes(p, "parse", m)
                                      \/ UNCHANGED dispatcher
            BY <2>2, StreamClaim DEF ClaimStale
        <3> QED
            BY <2>2, <3>1 DEF ClaimStale
    <2>3. CASE NothingStale(p)
        BY <2>3 DEF NothingStale, Live, StreamTypeOK, stream
    <2>4. CASE ReadNew(p)
        <3>1. PICK m \in Msgs : /\ XReadGroup(m)
                               /\ \/ DispatcherGoes(p, "parse", m)
                                  \/ DispatcherGoes(p, "loop", NoMsg)
            BY <2>4 DEF ReadNew
        <3>2. m = cursor' /\ cursor < cursor' /\ cursor \in Nat /\ cursor' \in Nat
            BY <3>1, StreamRead DEF StreamTypeOK
        <3>3. 1..cursor \subseteq 1..cursor' /\ m \in 1..cursor'
            BY <3>2
        <3>4. UNCHANGED <<jobChan, wpc, wmsg, resultChan, hpc, hmsg>>
            BY <2>4 DEF ReadNew
        <3> QED
            BY <3>1, <3>3, <3>4
    <2>5. CASE ReadNothing(p)
        BY <2>5 DEF ReadNothing, StreamTypeOK, stream
    <2>6. CASE FetchFails(p)
        BY <2>6 DEF FetchFails, MayFail, StreamTypeOK, stream
    <2>7. CASE DropMalformed(p)
        BY <2>7 DEF DropMalformed, XAck, MayFail, StreamTypeOK, stream
    <2>8. CASE reserveJob(p)
        BY <2>8 DEF reserveJob, Reserved, StreamTypeOK, stream
    <2>9. CASE SkipDuplicate(p)
        BY <2>9 DEF SkipDuplicate, StreamTypeOK, stream
    <2>10. CASE SendJob(p)
        BY <2>10 DEF SendJob, StreamTypeOK, stream
    <2>11. CASE SendCancelled(p)
        BY <2>11 DEF SendCancelled, releaseJob, StreamTypeOK, stream
    <2> QED
        BY <1>3, <2>1, <2>2, <2>3, <2>4, <2>5, <2>6, <2>7, <2>8, <2>9, <2>10, <2>11
        DEF Dispatcher
<1>4. ASSUME NEW p \in Pools, NEW w \in Workers, Worker(p, w) PROVE HeldDelivered'
    <2> USE DEF WorkerGoes
    <2>1. CASE TakeJob(p, w)
        <3> DEFINE m == Head(jobChan[p])
                   q == Tail(jobChan[p])
        <3>1. m \in 1..cursor /\ \A i \in 1..Len(q) : q[i] \in 1..cursor
            BY <2>1, HeadTail DEF TakeJob
        <3>2. /\ jobChan' = [jobChan EXCEPT ![p] = q]
              /\ wpc' = [wpc EXCEPT ![p][w] = "busy"] /\ wmsg' = [wmsg EXCEPT ![p][w] = m]
              /\ UNCHANGED <<dpc, dmsg, resultChan, hpc, hmsg, cursor>>
            BY <2>1 DEF TakeJob, stream
        <3> HIDE DEF m, q
        <3> QED
            BY <3>1, <3>2
    <2>2. CASE TranscodeReturns(p, w)
        BY <2>2 DEF TranscodeReturns, StreamTypeOK, stream
    <2>3. CASE DeliverResult(p, w)
        <3> DEFINE m == wmsg[p][w]
                   q == Append(resultChan[p], m)
        <3>1. m \in 1..cursor /\ m \in Msgs
            BY <2>3 DEF DeliverResult, StreamTypeOK, Msgs
        <3>2. \A i \in 1..Len(q) : q[i] \in 1..cursor
            <4>1. resultChan[p] \in Seq(Msgs) /\ \A i \in 1..Len(resultChan[p]) : resultChan[p][i] \in 1..cursor
                OBVIOUS
            <4>2. /\ Len(q) = Len(resultChan[p]) + 1 /\ Len(resultChan[p]) \in Nat
                  /\ \A i \in 1..Len(resultChan[p]) : q[i] = resultChan[p][i]
                  /\ q[Len(resultChan[p]) + 1] = m
                BY ONLY <3>1, <4>1, AppendOne
            <4> HIDE DEF m, q
            <4> QED
                BY ONLY <3>1, <4>1, <4>2
        <3>3. /\ resultChan' = [resultChan EXCEPT ![p] = q]
              /\ wpc' = [wpc EXCEPT ![p][w] = "idle"] /\ wmsg' = [wmsg EXCEPT ![p][w] = NoMsg]
              /\ UNCHANGED <<dpc, dmsg, jobChan, hpc, hmsg, cursor>>
            BY <2>3 DEF DeliverResult, stream
        <3> HIDE DEF m, q
        <3> QED
            BY <3>1, <3>2, <3>3
    <2>4. CASE WorkerReturns(p, w)
        BY <2>4 DEF WorkerReturns, StreamTypeOK, stream
    <2> QED
        BY <1>4, <2>1, <2>2, <2>3, <2>4 DEF Worker
<1>5. ASSUME NEW p \in Pools, handleResults(p) PROVE HeldDelivered'
    <2> USE DEF HandlerGoes
    <2>1. CASE TakeResult(p)
        <3> DEFINE m == Head(resultChan[p])
                   q == Tail(resultChan[p])
        <3>1. m \in 1..cursor /\ \A i \in 1..Len(q) : q[i] \in 1..cursor
            BY <2>1, HeadTail DEF TakeResult
        <3>2. /\ resultChan' = [resultChan EXCEPT ![p] = q]
              /\ hpc' = [hpc EXCEPT ![p] = "ack"] /\ hmsg' = [hmsg EXCEPT ![p] = m]
              /\ UNCHANGED <<dpc, dmsg, jobChan, wpc, wmsg, cursor>>
            BY <2>1 DEF TakeResult, stream
        <3> HIDE DEF m, q
        <3> QED
            BY <3>1, <3>2
    <2>2. CASE Ack(p)
        BY <2>2 DEF Ack, XAck, MayFail, StreamTypeOK, stream
    <2>3. CASE HandlerReturns(p)
        BY <2>3 DEF HandlerReturns, StreamTypeOK, stream
    <2> QED
        BY <1>5, <2>1, <2>2, <2>3 DEF handleResults
<1>6. ASSUME NEW p \in Pools, CloseJobs(p) \/ CloseResults(p) \/ Cancel(p) PROVE HeldDelivered'
    BY <1>6 DEF CloseJobs, CloseResults, Cancel, StreamTypeOK, stream
<1>7. ASSUME NEW p \in Pools, Crash(p) PROVE HeldDelivered'
    BY <1>7 DEF Crash, DispatcherGoes, HandlerGoes, StreamTypeOK, stream
<1>8. CASE UNCHANGED vars
    BY <1>8 DEF vars, StreamTypeOK, stream
<1> QED
    BY <1>1, <1>2, <1>3, <1>4, <1>5, <1>6, <1>7, <1>8 DEF Next, PoolStep

(* Every variable keeps its type, and every message in a pool was          *)
(* delivered to the group.                                                 *)
THEOREM TypeCorrect == Spec => []TypeOK
<1>1. TypeInv => TypeOK
    BY DEF TypeInv
<1>2. TypeInv /\ [Next]_vars => TypeInv'
    BY TypeStep, HeldStep DEF TypeInv
<1> QED
    BY <1>1, <1>2, TypeInit, PTL DEF Spec

-----------------------------------------------------------------------------
(* That a message is acknowledged only once processed is not inductive by  *)
(* itself: XACK is called with the message of a result, so every result    *)
(* between the worker and the handler must be of a processed message.      *)
AckInv == ResultsProcessed /\ AckedWasProcessed

LEMMA AckInit == Init => AckInv
BY DEF Init, AckInv, ResultsProcessed, AckedWasProcessed

LEMMA AckStep == TypeInv /\ AckInv /\ [Next]_vars => AckInv'
<1> SUFFICES ASSUME TypeOK, HeldDelivered, ResultsProcessed, AckedWasProcessed, [Next]_vars
             PROVE  AckInv'
    BY DEF TypeInv, AckInv
<1> USE DEF AckInv, ResultsProcessed, AckedWasProcessed, TypeOK, Malformed,
            dispatcher, workers, handler, channels, stream
<1>1. CASE AddtoStream
    BY <1>1 DEF AddtoStream
<1>2. ASSUME NEW m \in Msgs, Age(m) PROVE AckInv'
    BY <1>2 DEF Age
<1>3. ASSUME NEW p \in Pools, Dispatcher(p) PROVE AckInv'
    <2> USE DEF DispatcherGoes
    <2>1. CASE DispatcherStops(p)
        BY <2>1 DEF DispatcherStops
    <2>2. CASE ClaimStale(p)
        BY <2>2 DEF ClaimStale, XAutoClaim
    <2>3. CASE NothingStale(p)
        BY <2>3 DEF NothingStale, Live
    <2>4. CASE ReadNew(p)
        BY <2>4 DEF ReadNew, XReadGroup
    <2>5. CASE ReadNothing(p)
        BY <2>5 DEF ReadNothing
    <2>6. CASE FetchFails(p)
        BY <2>6 DEF FetchFails
    <2>7. CASE DropMalformed(p)
        <3>1. acked' \subseteq acked \cup Malformed
            <4>1. dmsg[p] \in Msgs /\ JobOf[dmsg[p]] = NoJob
                BY <2>7, PoolAssumption DEF DropMalformed, HeldDelivered, StreamTypeOK, Msgs
            <4>2. acked' = acked \cup {dmsg[p]} \/ acked' = acked
                BY ONLY <2>7 DEF DropMalformed, XAck, stream
            <4> QED
                BY ONLY <4>1, <4>2 DEF Malformed
        <3>2. UNCHANGED <<wpc, wmsg, resultChan, hpc, hmsg, processed>>
            BY <2>7 DEF DropMalformed
        <3> QED
            BY <3>1, <3>2
    <2>8. CASE reserveJob(p)
        BY <2>8 DEF reserveJob, Reserved
    <2>9. CASE SkipDuplicate(p)
        BY <2>9 DEF SkipDuplicate
    <2>10. CASE SendJob(p)
        BY <2>10 DEF SendJob
    <2>11. CASE SendCancelled(p)
        BY <2>11 DEF SendCancelled, releaseJob
    <2> QED
        BY <1>3, <2>1, <2>2, <2>3, <2>4, <2>5, <2>6, <2>7, <2>8, <2>9, <2>10, <2>11
        DEF Dispatcher
<1>4. ASSUME NEW p \in Pools, NEW w \in Workers, Worker(p, w) PROVE AckInv'
    <2> USE DEF WorkerGoes
    <2>1. CASE TakeJob(p, w)
        <3>1. /\ wpc' = [wpc EXCEPT ![p][w] = "busy"]
              /\ wmsg' = [wmsg EXCEPT ![p][w] = Head(jobChan[p])]
              /\ UNCHANGED <<resultChan, hpc, hmsg, processed, acked>>
            BY <2>1 DEF TakeJob
        <3> QED
            BY <3>1
    <2>2. CASE TranscodeReturns(p, w)
        BY <2>2 DEF TranscodeReturns
    <2>3. CASE DeliverResult(p, w)
        <3> DEFINE m == wmsg[p][w]
                   q == Append(resultChan[p], m)
        <3>1. \A i \in 1..Len(q) : q[i] \in processed
            BY <2>3, AppendOne DEF DeliverResult
        <3>2. /\ resultChan' = [resultChan EXCEPT ![p] = q]
              /\ wpc' = [wpc EXCEPT ![p][w] = "idle"] /\ wmsg' = [wmsg EXCEPT ![p][w] = NoMsg]
              /\ UNCHANGED <<hpc, hmsg, processed, acked>>
            BY <2>3 DEF DeliverResult
        <3> HIDE DEF m, q
        <3> QED
            BY <3>1, <3>2
    <2>4. CASE WorkerReturns(p, w)
        BY <2>4 DEF WorkerReturns
    <2> QED
        BY <1>4, <2>1, <2>2, <2>3, <2>4 DEF Worker
<1>5. ASSUME NEW p \in Pools, handleResults(p) PROVE AckInv'
    <2> USE DEF HandlerGoes
    <2>1. CASE TakeResult(p)
        <3> DEFINE m == Head(resultChan[p])
                   q == Tail(resultChan[p])
        <3>1. m \in processed /\ \A i \in 1..Len(q) : q[i] \in processed
            BY <2>1, HeadTail DEF TakeResult
        <3>2. /\ resultChan' = [resultChan EXCEPT ![p] = q]
              /\ hpc' = [hpc EXCEPT ![p] = "ack"] /\ hmsg' = [hmsg EXCEPT ![p] = m]
              /\ UNCHANGED <<wpc, wmsg, processed, acked>>
            BY <2>1 DEF TakeResult
        <3> HIDE DEF m, q
        <3> QED
            BY <3>1, <3>2
    <2>2. CASE Ack(p)
        <3>1. acked' \subseteq acked \cup {hmsg[p]} /\ hmsg[p] \in processed
            BY <2>2 DEF Ack, XAck
        <3>2. /\ hpc' = [hpc EXCEPT ![p] = "recv"] /\ hmsg' = [hmsg EXCEPT ![p] = NoMsg]
              /\ UNCHANGED <<wpc, wmsg, resultChan, processed>>
            BY <2>2 DEF Ack
        <3> QED
            BY <3>1, <3>2
    <2>3. CASE HandlerReturns(p)
        BY <2>3 DEF HandlerReturns
    <2> QED
        BY <1>5, <2>1, <2>2, <2>3 DEF handleResults
<1>6. ASSUME NEW p \in Pools, CloseJobs(p) \/ CloseResults(p) \/ Cancel(p) PROVE AckInv'
    BY <1>6 DEF CloseJobs, CloseResults, Cancel
<1>7. ASSUME NEW p \in Pools, Crash(p) PROVE AckInv'
    BY <1>7 DEF Crash, DispatcherGoes, HandlerGoes
<1>8. CASE UNCHANGED vars
    BY <1>8 DEF vars
<1> QED
    BY <1>1, <1>2, <1>3, <1>4, <1>5, <1>6, <1>7, <1>8 DEF Next, PoolStep

(* No message leaves the pending list acknowledged before a transcode of   *)
(* it has returned, whatever crashes, is reclaimed or is delivered twice.  *)
THEOREM AckedOnlyProcessed == Spec => []AckedWasProcessed
<1>1. TypeInv /\ [Next]_vars => TypeInv'
    BY TypeStep, HeldStep DEF TypeInv
<1>2. AckInv => AckedWasProcessed
    BY DEF AckInv
<1> QED
    BY <1>1, <1>2, TypeInit, AckInit, AckStep, PTL DEF Spec

-----------------------------------------------------------------------------
(* Steps of the pools as steps of the work queue.                          *)
LEMMA QueueStep == TypeInv /\ AckInv /\ [Next]_vars => [Queue!WQNext]_(Queue!wqVars)
<1> DEFINE Goal == [Queue!WQNext]_(Queue!wqVars)
<1> SUFFICES ASSUME TypeOK, HeldDelivered, ResultsProcessed, [Next]_vars PROVE Goal
    BY DEF TypeInv, AckInv
<1>a. ASSUME UNCHANGED <<added, processed, acked>> PROVE Goal
    BY <1>a DEF Queue!wqVars
<1>b. cursor \in 0..added /\ added \in 0..NumMsgs /\ NumMsgs \in Nat
    BY PoolAssumption DEF TypeOK, StreamTypeOK
<1>c. ASSUME NEW m \in processed \cup Malformed, m \in 1..cursor, XAck(m), UNCHANGED processed
      PROVE  Goal
    <2>1. m \in 1..NumMsgs /\ Queue!WQAck(m)
        BY <1>b, <1>c DEF Queue!WQAck, XAck
    <2> QED
        BY <2>1 DEF Queue!WQNext
<1> HIDE DEF Goal
<1>1. CASE AddtoStream
    BY <1>1 DEF Goal, AddtoStream, Queue!WQNext, Queue!WQAdd
<1>2. CASE \E m \in Msgs : Age(m)
    BY <1>2, <1>a DEF Age
<1>3. ASSUME NEW p \in Pools, Dispatcher(p) PROVE Goal
    <2>1. CASE DropMalformed(p)
        <3>1. dmsg[p] \in 1..cursor /\ dmsg[p] \in Malformed
            BY <1>b, <2>1 DEF DropMalformed, HeldDelivered, Malformed, Msgs
        <3> QED
            BY <2>1, <3>1, <1>a, <1>c DEF DropMalformed, stream
    <2>2. CASE ~DropMalformed(p)
        <3>1. UNCHANGED <<added, processed, acked>>
            BY <1>3, <2>2 DEF Dispatcher, DispatcherStops, ClaimStale, XAutoClaim, NothingStale,
               ReadNew, XReadGroup, ReadNothing, FetchFails, reserveJob, SkipDuplicate,
               SendJob, SendCancelled, stream
        <3> QED
            BY <3>1, <1>a
    <2> QED
        BY <2>1, <2>2
<1>4. ASSUME NEW p \in Pools, NEW w \in Workers, Worker(p, w) PROVE Goal
    <2>1. CASE TranscodeReturns(p, w)
        <3> DEFINE m == wmsg[p][w]
        <3>1. m \in 1..added /\ m \in 1..NumMsgs
            BY <1>b, <2>1 DEF TranscodeReturns, HeldDelivered
        <3>2. Queue!WQProcess(m)
            BY <2>1, <3>1 DEF TranscodeReturns, Queue!WQProcess, stream
        <3> QED
            BY <3>1, <3>2 DEF Goal, Queue!WQNext
    <2>2. CASE ~TranscodeReturns(p, w)
        BY <1>4, <2>2, <1>a DEF Worker, TakeJob, DeliverResult, WorkerReturns, stream
    <2> QED
        BY <2>1, <2>2
<1>5. ASSUME NEW p \in Pools, handleResults(p) PROVE Goal
    <2>1. CASE Ack(p)
        <3>1. hmsg[p] \in 1..cursor /\ hmsg[p] \in processed
            BY <2>1 DEF Ack, HeldDelivered, ResultsProcessed
        <3> QED
            BY <2>1, <3>1, <1>a, <1>c DEF Ack, stream
    <2>2. CASE ~Ack(p)
        BY <1>5, <2>2, <1>a DEF handleResults, TakeResult, HandlerReturns, stream
    <2> QED
        BY <2>1, <2>2
<1>6. ASSUME NEW p \in Pools, CloseJobs(p) \/ CloseResults(p) \/ Cancel(p) \/ Crash(p) PROVE Goal
    BY <1>6, <1>a DEF CloseJobs, CloseResults, Cancel, Crash, stream
<1>7. CASE UNCHANGED vars
    BY <1>7, <1>a DEF vars, stream
<1> QED
    BY <1>1, <1>2, <1>3, <1>4, <1>5, <1>6, <1>7 DEF Next, PoolStep

(* The pools, with crashes, reclaims and lost replies, do only what the    *)
(* abstract work queue allows.                                             *)
THEOREM PoolImplementsQueue == Spec => RefinesWorkQueue
<1>1. Init => Queue!WQInit
    BY DEF Init, Queue!WQInit
<1>2. TypeInv /\ [Next]_vars => TypeInv'
    BY TypeStep, HeldStep DEF TypeInv
<1> QED
    BY <1>1, <1>2, TypeInit, AckInit, AckStep, QueueStep, PTL
    DEF Spec, RefinesWorkQueue, Queue!WQSpec

-----------------------------------------------------------------------------
(* Reservations.  Exclusion and the exactness of inFlight are one          *)
(* invariant: a job may be reserved anew because nobody holds it, and it   *)
(* may be released because only the handler does.                          *)
ExclusionInv(p) ==
    /\ Exclusive(p)
    /\ Held(p) \subseteq inFlight[p]
    /\ ~ctxDone[p] => inFlight[p] \subseteq Held(p)

LEMMA InJobs ==
    ASSUME NEW q \in Seq(Msgs)
    PROVE  \A x : x \in JobsIn(q) <=> \E i \in 1..Len(q) : x = JobOf[q[i]]
BY DEF JobsIn, Range

LEMMA JobsTail ==
    ASSUME NEW q \in Seq(Msgs), q # <<>>, NoRepeat(q)
    PROVE  /\ NoRepeat(Tail(q))
           /\ JobsIn(q) = JobsIn(Tail(q)) \cup {JobOf[Head(q)]}
           /\ JobOf[Head(q)] \notin JobsIn(Tail(q))
<1>1. /\ Head(q) = q[1] /\ Len(q) \in Nat \ {0} /\ Tail(q) \in Seq(Msgs)
      /\ Len(Tail(q)) = Len(q) - 1
      /\ \A i \in 1..Len(Tail(q)) : i + 1 \in 1..Len(q) /\ Tail(q)[i] = q[i + 1]
    BY HeadTail
<1>2. NoRepeat(Tail(q))
    BY <1>1 DEF NoRepeat
<1>3. \A x : x \in JobsIn(q) <=> \E i \in 1..Len(q) : x = JobOf[q[i]]
    BY InJobs
<1>4. \A x : x \in JobsIn(Tail(q)) <=> \E i \in 1..Len(Tail(q)) : x = JobOf[Tail(q)[i]]
    BY <1>1, InJobs
<1>5. \A x : x \in JobsIn(Tail(q)) <=> \E k \in 2..Len(q) : x = JobOf[q[k]]
    <2>1. ASSUME NEW x, NEW k \in 2..Len(q), x = JobOf[q[k]]
          PROVE  x \in JobsIn(Tail(q))
        <3>1. k - 1 \in 1..Len(Tail(q)) /\ (k - 1) + 1 = k
            BY <1>1
        <3>2. Tail(q)[k - 1] = q[k]
            BY <1>1, <3>1
        <3> QED
            BY <1>4, <2>1, <3>1, <3>2
    <2>2. ASSUME NEW x, NEW i \in 1..Len(Tail(q)), x = JobOf[Tail(q)[i]]
          PROVE  \E k \in 2..Len(q) : x = JobOf[q[k]]
        <3>1. i + 1 \in 2..Len(q) /\ Tail(q)[i] = q[i + 1]
            BY <1>1
        <3> QED
            BY <2>2, <3>1
    <2> QED
        BY <1>4, <2>1, <2>2
<1>6. JobsIn(q) = JobsIn(Tail(q)) \cup {JobOf[Head(q)]}
    <2>1. \A x : x \in JobsIn(q) <=> x = JobOf[q[1]] \/ \E k \in 2..Len(q) : x = JobOf[q[k]]
        BY <1>1, <1>3
    <2> QED
        BY <1>1, <1>5, <2>1
<1>7. JobOf[Head(q)] \notin JobsIn(Tail(q))
    BY <1>1, <1>5 DEF NoRepeat
<1> QED
    BY <1>2, <1>6, <1>7

LEMMA JobsAppend ==
    ASSUME NEW q \in Seq(Msgs), NEW m \in Msgs, NoRepeat(q), JobOf[m] \notin JobsIn(q)
    PROVE  /\ NoRepeat(Append(q, m))
           /\ JobsIn(Append(q, m)) = JobsIn(q) \cup {JobOf[m]}
<1> DEFINE r == Append(q, m)
<1>1. /\ r \in Seq(Msgs) /\ Len(r) = Len(q) + 1 /\ Len(q) \in Nat
      /\ \A i \in 1..Len(q) : r[i] = q[i]
      /\ r[Len(q) + 1] = m
    BY AppendOne
<1> HIDE DEF r
<1>2. \A x : x \in JobsIn(q) <=> \E i \in 1..Len(q) : x = JobOf[q[i]]
    BY InJobs
<1>3. \A x : x \in JobsIn(r) <=> \E i \in 1..Len(r) : x = JobOf[r[i]]
    BY <1>1, InJobs
<1>4. JobsIn(r) = JobsIn(q) \cup {JobOf[m]}
    <2>1. \A x : x \in JobsIn(r) <=> x = JobOf[m] \/ \E i \in 1..Len(q) : x = JobOf[q[i]]
        BY <1>1, <1>3
    <2> QED
        BY <1>2, <2>1
<1>5. NoRepeat(r)
    BY <1>1, <1>2 DEF NoRepeat
<1> QED
    BY <1>4, <1>5 DEF r

(* What ExclusionInv depends on.                                           *)
LEMMA ExclusionFrame ==
    ASSUME NEW p \in Pools, ExclusionInv(p),
           UNCHANGED <<jobChan[p], resultChan[p], inFlight[p], ctxDone[p], Sending(p),
                       wpc[p], wmsg[p]>>
    PROVE  ExclusionInv(p)'
<1>1. Working(p)' = Working(p)
    BY DEF Working
<1>2. \A w \in Working(p) : JobAt(p, w)' = JobAt(p, w)
    BY DEF JobAt
<1>3. Running(p)' = Running(p)
    BY <1>1, <1>2 DEF Running
<1>4. JobsIn(jobChan[p])' = JobsIn(jobChan[p]) /\ JobsIn(resultChan[p])' = JobsIn(resultChan[p])
    BY DEF JobsIn
<1>5. NoRepeat(jobChan[p])' = NoRepeat(jobChan[p])
      /\ NoRepeat(resultChan[p])' = NoRepeat(resultChan[p])
    BY DEF NoRepeat
<1> QED
    BY <1>1, <1>2, <1>3, <1>4, <1>5 DEF ExclusionInv, Exclusive, Held

LEMMA ExclusionStep ==
    ASSUME TypeInv, [Next]_vars, NEW p \in Pools, ExclusionInv(p)
    PROVE  ExclusionInv(p)'
<1> USE DEF TypeInv, TypeOK, dispatcher, workers, handler, channels
<1>a. ASSUME UNCHANGED <<jobChan[p], resultChan[p], inFlight[p], ctxDone[p],
                         wpc[p], wmsg[p]>>,
             (dpc'[p] # "send" /\ dpc[p] # "send") \/ UNCHANGED <<dpc[p], dmsg[p]>>
      PROVE  ExclusionInv(p)'
    <2>1. UNCHANGED Sending(p)
        BY <1>a DEF Sending
    <2> QED
        BY <1>a, <2>1, ExclusionFrame
<1>1. CASE AddtoStream
    BY <1>1, <1>a DEF AddtoStream
<1>2. CASE \E m \in Msgs : Age(m)
    BY <1>2, <1>a DEF Age
<1>3. ASSUME NEW r \in Pools, r # p, PoolStep(r) \/ Cancel(r) \/ Crash(r)
      PROVE  ExclusionInv(p)'
    <2>1. CASE Dispatcher(r)
        BY <1>3, <2>1, <1>a DEF Dispatcher, DispatcherGoes, DispatcherStops, ClaimStale,
           NothingStale, ReadNew, ReadNothing, FetchFails, DropMalformed, reserveJob,
           SkipDuplicate, SendJob, SendCancelled, releaseJob
    <2>2. CASE \E w \in Workers : Worker(r, w)
        BY <1>3, <2>2, <1>a DEF Worker, WorkerGoes, TakeJob, TranscodeReturns, DeliverResult,
           WorkerReturns
    <2>3. CASE handleResults(r)
        BY <1>3, <2>3, <1>a DEF handleResults, HandlerGoes, TakeResult, Ack, HandlerReturns,
           releaseJob
    <2>4. CASE CloseJobs(r) \/ CloseResults(r) \/ Cancel(r)
        BY <1>3, <2>4, <1>a DEF CloseJobs, CloseResults, Cancel
    <2>5. CASE Crash(r)
        BY <1>3, <2>5, <1>a DEF Crash, DispatcherGoes
    <2> QED
        BY <1>3, <2>1, <2>2, <2>3, <2>4, <2>5 DEF PoolStep
<1>4. CASE Dispatcher(p)
    <2> USE DEF DispatcherGoes
    <2>1. CASE reserveJob(p)
        <3> DEFINE J == JobOf[dmsg[p]]
        <3>1. Sending(p) = {} /\ Sending(p)' = {J} /\ J \notin inFlight[p]
            BY <2>1 DEF reserveJob, Sending, Reserved
        <3>2. inFlight'[p] = inFlight[p] \cup {J}
            BY <2>1 DEF reserveJob
        <3>3. UNCHANGED <<jobChan, resultChan, ctxDone, Running(p), Working(p)>>
              /\ \A w \in Workers : UNCHANGED JobAt(p, w)
            BY <2>1 DEF reserveJob, Running, Working, JobAt
        <3>4. UNCHANGED <<NoRepeat(jobChan[p]), JobsIn(jobChan[p]),
                          NoRepeat(resultChan[p]), JobsIn(resultChan[p])>>
            BY <3>3 DEF NoRepeat, JobsIn
        <3>5. \A v \in Working(p) : JobAt(p, v)' = JobAt(p, v)
            BY <3>3 DEF Working
        <3> HIDE DEF J
        <3> QED
            BY ONLY ExclusionInv(p), <3>1, <3>2, <3>3, <3>4, <3>5 DEF ExclusionInv, Exclusive, Held
    <2>2. CASE SendJob(p)
        <3> DEFINE J == JobOf[dmsg[p]]
                   q == jobChan[p]
        <3>1. dmsg[p] \in Msgs /\ q \in Seq(Msgs)
            BY <2>2, PoolAssumption DEF SendJob, HeldDelivered, StreamTypeOK, Msgs
        <3>2. Sending(p) = {J} /\ Sending(p)' = {}
            BY <2>2 DEF SendJob, Sending
        <3>3. NoRepeat(q) /\ J \notin JobsIn(q)
            BY <3>2 DEF ExclusionInv, Exclusive
        <3>4. jobChan'[p] = Append(q, dmsg[p])
            BY <2>2 DEF SendJob
        <3>5. NoRepeat(jobChan'[p]) /\ JobsIn(jobChan'[p]) = JobsIn(q) \cup {J}
            BY <3>1, <3>3, <3>4, JobsAppend
        <3>6. UNCHANGED <<inFlight, resultChan, ctxDone, Running(p), Working(p)>>
              /\ \A w \in Workers : UNCHANGED JobAt(p, w)
            BY <2>2 DEF SendJob, Running, Working, JobAt
        <3>7. UNCHANGED <<NoRepeat(resultChan[p]), JobsIn(resultChan[p])>>
            BY <3>6 DEF NoRepeat, JobsIn
        <3>8. NoRepeat(jobChan[p])' /\ JobsIn(jobChan[p])' = JobsIn(jobChan[p]) \cup {J}
            BY <3>5 DEF NoRepeat, JobsIn
        <3> HIDE DEF J, q
        <3> QED
            BY <3>2, <3>6, <3>7, <3>8 DEF ExclusionInv, Exclusive, Held, Working
    <2>3. CASE SendCancelled(p)
        <3> DEFINE J == JobOf[dmsg[p]]
        <3>1. Sending(p) = {J} /\ Sending(p)' = {} /\ ctxDone[p]
            BY <2>3 DEF SendCancelled, Sending
        <3>2. inFlight'[p] = inFlight[p] \ {J}
            BY <2>3 DEF SendCancelled, releaseJob
        <3>3. UNCHANGED <<jobChan, resultChan, ctxDone, Running(p), Working(p)>>
              /\ \A w \in Workers : UNCHANGED JobAt(p, w)
            BY <2>3 DEF SendCancelled, Running, Working, JobAt
        <3>4. UNCHANGED <<NoRepeat(jobChan[p]), JobsIn(jobChan[p]),
                          NoRepeat(resultChan[p]), JobsIn(resultChan[p])>>
            BY <3>3 DEF NoRepeat, JobsIn
        <3>5. \A v \in Working(p) : JobAt(p, v)' = JobAt(p, v)
            BY <3>3 DEF Working
        <3> HIDE DEF J
        <3> QED
            BY ONLY ExclusionInv(p), <3>1, <3>2, <3>3, <3>4, <3>5 DEF ExclusionInv, Exclusive, Held
    <2>4. CASE DispatcherStops(p) \/ ClaimStale(p) \/ NothingStale(p) \/ ReadNew(p)
               \/ ReadNothing(p) \/ FetchFails(p) \/ DropMalformed(p) \/ SkipDuplicate(p)
        BY <2>4, <1>a DEF DispatcherStops, ClaimStale, NothingStale, ReadNew, ReadNothing,
           FetchFails, DropMalformed, SkipDuplicate
    <2> QED
        BY <1>4, <2>1, <2>2, <2>3, <2>4 DEF Dispatcher
<1>5. ASSUME NEW w \in Workers, Worker(p, w) PROVE ExclusionInv(p)'
    <2> USE DEF WorkerGoes
    <2>1. CASE TakeJob(p, w)
        <3> DEFINE q == jobChan[p]
                   J == JobOf[Head(q)]
        <3>1. q \in Seq(Msgs) /\ q # <<>> /\ NoRepeat(q)
            BY <2>1 DEF TakeJob, ExclusionInv, Exclusive
        <3>2. /\ NoRepeat(Tail(q)) /\ J \notin JobsIn(Tail(q))
              /\ JobsIn(q) = JobsIn(Tail(q)) \cup {J}
            BY <3>1, JobsTail
        <3>3. jobChan'[p] = Tail(q)
            BY <2>1 DEF TakeJob
        <3>4. /\ Working(p)' = Working(p) \cup {w} /\ w \notin Working(p)
              /\ JobAt(p, w)' = J
              /\ \A v \in Working(p) : JobAt(p, v)' = JobAt(p, v)
            BY <2>1 DEF TakeJob, Working, JobAt
        <3>5. Running(p)' = Running(p) \cup {J}
            BY <3>4 DEF Running
        <3>6. UNCHANGED <<inFlight, resultChan, ctxDone, Sending(p)>>
            BY <2>1 DEF TakeJob, Sending
        <3>7. UNCHANGED <<NoRepeat(resultChan[p]), JobsIn(resultChan[p])>>
            BY <3>6 DEF NoRepeat, JobsIn
        <3>8. /\ NoRepeat(jobChan[p])' /\ J \notin JobsIn(jobChan[p])'
              /\ JobsIn(jobChan[p]) = JobsIn(jobChan[p])' \cup {J}
            BY <3>2, <3>3 DEF NoRepeat, JobsIn
        <3>9. \A v \in Working(p) : JobAt(p, v) # J
            BY <3>8 DEF ExclusionInv, Exclusive, Running
        <3> HIDE DEF q, J
        <3> QED
            BY <3>4, <3>5, <3>6, <3>7, <3>8, <3>9 DEF ExclusionInv, Exclusive, Held
    <2>2. CASE TranscodeReturns(p, w)
        <3>1. UNCHANGED <<Working(p), wmsg[p], Sending(p), jobChan, resultChan, inFlight, ctxDone>>
            BY <2>2 DEF TranscodeReturns, Working, Sending
        <3>2. \A v \in Workers : UNCHANGED JobAt(p, v)
            BY <3>1 DEF JobAt
        <3>3. UNCHANGED Running(p)
            BY <3>1, <3>2 DEF Running, Working
        <3>4. UNCHANGED <<NoRepeat(jobChan[p]), JobsIn(jobChan[p]),
                          NoRepeat(resultChan[p]), JobsIn(resultChan[p])>>
            BY <3>1 DEF NoRepeat, JobsIn
        <3>5. \A v \in Working(p) : JobAt(p, v)' = JobAt(p, v)
            BY <3>2 DEF Working
        <3> QED
            BY ONLY ExclusionInv(p), <3>1, <3>3, <3>4, <3>5 DEF ExclusionInv, Exclusive, Held
    <2>3. CASE DeliverResult(p, w)
        <3> DEFINE q == resultChan[p]
                   J == JobAt(p, w)
        <3>1. w \in Working(p) /\ wmsg[p][w] \in Msgs /\ q \in Seq(Msgs)
            BY <2>3, PoolAssumption DEF DeliverResult, Working, HeldDelivered, StreamTypeOK, Msgs
        <3>2. J \in Running(p) /\ J \notin JobsIn(q) /\ NoRepeat(q)
            BY <3>1 DEF ExclusionInv, Exclusive, Running
        <3>3. resultChan'[p] = Append(q, wmsg[p][w])
            BY <2>3 DEF DeliverResult
        <3>4. NoRepeat(resultChan'[p]) /\ JobsIn(resultChan'[p]) = JobsIn(q) \cup {J}
            BY <3>1, <3>2, <3>3, JobsAppend DEF JobAt
        <3>5. /\ Working(p)' = Working(p) \ {w}
              /\ \A v \in Working(p) \ {w} : JobAt(p, v)' = JobAt(p, v)
            BY <2>3 DEF DeliverResult, Working, JobAt
        <3>6. Running(p)' = Running(p) \ {J}
            <4>1. \A v \in Working(p) : JobAt(p, v) = J => v = w
                BY ONLY <3>1, ExclusionInv(p) DEF ExclusionInv, Exclusive
            <4>2. \A x : x \in Running(p)' <=> \E v \in Working(p) \ {w} : x = JobAt(p, v)
                BY ONLY <3>5 DEF Running
            <4>3. \A x : x \in Running(p) <=> \E v \in Working(p) : x = JobAt(p, v)
                BY DEF Running
            <4> QED
                BY ONLY <3>1, <4>1, <4>2, <4>3
        <3>7. UNCHANGED <<inFlight, jobChan, ctxDone, Sending(p)>>
            BY <2>3 DEF DeliverResult, Sending
        <3>8. UNCHANGED <<NoRepeat(jobChan[p]), JobsIn(jobChan[p])>>
            BY <3>7 DEF NoRepeat, JobsIn
        <3>9. NoRepeat(resultChan[p])' /\ JobsIn(resultChan[p])' = JobsIn(resultChan[p]) \cup {J}
            BY <3>4 DEF NoRepeat, JobsIn
        <3> HIDE DEF q, J
        <3> QED
            BY <3>2, <3>5, <3>6, <3>7, <3>8, <3>9 DEF ExclusionInv, Exclusive, Held
    <2>4. CASE WorkerReturns(p, w)
        <3>1. /\ Working(p)' \subseteq Working(p)
              /\ Working(p)' = Working(p) \/ ctxDone[p]
              /\ \A v \in Working(p)' : JobAt(p, v)' = JobAt(p, v)
            BY <2>4 DEF WorkerReturns, Working, JobAt
        <3>2. Running(p)' \subseteq Running(p) /\ (Running(p)' = Running(p) \/ ctxDone[p])
            BY <3>1 DEF Running
        <3>3. UNCHANGED <<inFlight, jobChan, resultChan, ctxDone, Sending(p)>>
            BY <2>4 DEF WorkerReturns, Sending
        <3>4. UNCHANGED <<NoRepeat(jobChan[p]), JobsIn(jobChan[p]),
                          NoRepeat(resultChan[p]), JobsIn(resultChan[p])>>
            BY <3>3 DEF NoRepeat, JobsIn
        <3> QED
            BY <3>1, <3>2, <3>3, <3>4 DEF ExclusionInv, Exclusive, Held
    <2> QED
        BY <1>5, <2>1, <2>2, <2>3, <2>4 DEF Worker
<1>6. CASE handleResults(p)
    <2> USE DEF HandlerGoes
    <2>1. CASE TakeResult(p)
        <3> DEFINE q == resultChan[p]
                   J == JobOf[Head(q)]
        <3>1. q \in Seq(Msgs) /\ q # <<>> /\ NoRepeat(q)
            BY <2>1 DEF TakeResult, ExclusionInv, Exclusive
        <3>2. /\ NoRepeat(Tail(q)) /\ J \notin JobsIn(Tail(q))
              /\ JobsIn(q) = JobsIn(Tail(q)) \cup {J}
            BY <3>1, JobsTail
        <3>3. resultChan'[p] = Tail(q) /\ inFlight'[p] = inFlight[p] \ {J}
            BY <2>1 DEF TakeResult, releaseJob
        <3>4. UNCHANGED <<jobChan, ctxDone, Sending(p), Working(p), Running(p)>>
              /\ \A v \in Workers : UNCHANGED JobAt(p, v)
            BY <2>1 DEF TakeResult, Sending, Working, Running, JobAt
        <3>5. UNCHANGED <<NoRepeat(jobChan[p]), JobsIn(jobChan[p])>>
            BY <3>4 DEF NoRepeat, JobsIn
        <3>6. /\ NoRepeat(resultChan[p])' /\ J \notin JobsIn(resultChan[p])'
              /\ JobsIn(resultChan[p]) = JobsIn(resultChan[p])' \cup {J}
            BY <3>2, <3>3 DEF NoRepeat, JobsIn
        <3> HIDE DEF q, J
        <3> QED
            BY <3>3, <3>4, <3>5, <3>6 DEF ExclusionInv, Exclusive, Held, Working
    <2>2. CASE Ack(p) \/ HandlerReturns(p)
        BY <2>2, <1>a DEF Ack, HandlerReturns
    <2> QED
        BY <1>6, <2>1, <2>2 DEF handleResults
<1>7. CASE Cancel(p)
    <2>1. ctxDone'[p] /\ UNCHANGED <<jobChan, resultChan, inFlight, wpc, wmsg, dpc, dmsg>>
        BY <1>7 DEF Cancel
    <2>2. UNCHANGED <<Sending(p), Working(p), Running(p)>> /\ \A v \in Workers : UNCHANGED JobAt(p, v)
        BY <2>1 DEF Sending, Working, Running, JobAt
    <2>3. UNCHANGED <<NoRepeat(jobChan[p]), JobsIn(jobChan[p]),
                      NoRepeat(resultChan[p]), JobsIn(resultChan[p])>>
        BY <2>1 DEF NoRepeat, JobsIn
    <2> QED
        BY <2>1, <2>2, <2>3 DEF ExclusionInv, Exclusive, Held, Working
<1>8. CASE Crash(p)
    <2>1. /\ dpc'[p] = "loop" /\ inFlight'[p] = {} /\ jobChan'[p] = <<>> /\ resultChan'[p] = <<>>
          /\ \A w \in Workers : wpc'[p][w] = "idle"
        BY <1>8 DEF Crash, DispatcherGoes
    <2>2. Sending(p)' = {} /\ Working(p)' = {} /\ Running(p)' = {}
        BY <2>1 DEF Sending, Working, Running
    <2>3. JobsIn(jobChan[p])' = {} /\ JobsIn(resultChan[p])' = {}
        BY <2>1 DEF JobsIn, Range
    <2>4. NoRepeat(jobChan[p])' /\ NoRepeat(resultChan[p])'
        BY <2>1 DEF NoRepeat
    <2> QED
        BY <2>1, <2>2, <2>3, <2>4 DEF ExclusionInv, Exclusive, Held
<1>9. CASE CloseJobs(p) \/ CloseResults(p)
    BY <1>9, <1>a DEF CloseJobs, CloseResults
<1>10. CASE UNCHANGED vars
    BY <1>10, <1>a DEF vars
<1> QED
    BY <1>1, <1>2, <1>3, <1>4, <1>5, <1>6, <1>7, <1>8, <1>9, <1>10 DEF Next, PoolStep

AllExclusion == \A p \in Pools : ExclusionInv(p)

LEMMA ExclusionInit == Init => AllExclusion
<1> SUFFICES ASSUME Init, NEW p \in Pools PROVE ExclusionInv(p)
    BY DEF AllExclusion
<1>1. Sending(p) = {} /\ Working(p) = {} /\ Running(p) = {}
    BY DEF Init, Sending, Working, Running
<1>2. JobsIn(jobChan[p]) = {} /\ JobsIn(resultChan[p]) = {}
    BY DEF Init, JobsIn, Range
<1>3. NoRepeat(jobChan[p]) /\ NoRepeat(resultChan[p]) /\ inFlight[p] = {}
    BY DEF Init, NoRepeat
<1> QED
    BY <1>1, <1>2, <1>3 DEF ExclusionInv, Exclusive, Held

LEMMA ExclusionAlways == Spec => []AllExclusion
<1>1. TypeInv /\ [Next]_vars => TypeInv'
    BY TypeStep, HeldStep DEF TypeInv
<1>2. TypeInv /\ AllExclusion /\ [Next]_vars => AllExclusion'
    BY ExclusionStep DEF AllExclusion
<1> QED
    BY <1>1, <1>2, TypeInit, ExclusionInit, PTL DEF Spec

(* A job is at one place of a pool at most: no two of its workers ever     *)
(* transcode the same job.                                                 *)
THEOREM JobsAreExclusive == Spec => []ExclusiveJobs
<1>1. AllExclusion => ExclusiveJobs
    BY DEF AllExclusion, ExclusionInv, ExclusiveJobs
<1> QED
    BY <1>1, ExclusionAlways, PTL

(* Reservations are neither leaked nor missing.                            *)
THEOREM ReservationsExact == Spec => []ReservedIsHeld
<1>1. AllExclusion => ReservedIsHeld
    BY DEF AllExclusion, ExclusionInv, ReservedIsHeld
<1> QED
    BY <1>1, ExclusionAlways, PTL

-----------------------------------------------------------------------------
LEMMA ChannelStep == TypeInv /\ NoSendOnClosed /\ [Next]_vars => NoSendOnClosed'
<1> SUFFICES ASSUME TypeOK, NoSendOnClosed, [Next]_vars, NEW p \in Pools
             PROVE  /\ jobClosed'[p] => dpc'[p] = "done"
                    /\ resultClosed'[p] => \A w \in Workers : wpc'[p][w] = "done"
    BY DEF TypeInv, NoSendOnClosed
<1> USE DEF TypeOK, NoSendOnClosed, dispatcher, workers, handler, channels
<1>1. CASE AddtoStream \/ \E m \in Msgs : Age(m)
    BY <1>1 DEF AddtoStream, Age
<1>2. ASSUME NEW r \in Pools, Dispatcher(r)
      PROVE  /\ dpc[p] = "done" => dpc'[p] = "done"
             /\ UNCHANGED <<jobClosed, resultClosed, wpc>>
    BY <1>2 DEF Dispatcher, DispatcherGoes, DispatcherStops, ClaimStale,
       NothingStale, ReadNew, ReadNothing, FetchFails, DropMalformed, reserveJob,
       SkipDuplicate, SendJob, SendCancelled
<1>3. ASSUME NEW r \in Pools, NEW v \in Workers, Worker(r, v)
      PROVE  /\ \A w \in Workers : wpc[p][w] = "done" => wpc'[p][w] = "done"
             /\ UNCHANGED <<jobClosed, resultClosed, dpc>>
    <2>1. /\ wpc[r][v] # "done"
          /\ \E pc : wpc' = [wpc EXCEPT ![r][v] = pc]
          /\ UNCHANGED <<jobClosed, resultClosed, dpc>>
        BY <1>3 DEF Worker, WorkerGoes, TakeJob, TranscodeReturns, DeliverResult, WorkerReturns
    <2> QED
        BY <2>1
<1>4. ASSUME NEW r \in Pools, handleResults(r)
      PROVE  UNCHANGED <<jobClosed, resultClosed, dpc, wpc>>
    BY <1>4 DEF handleResults, TakeResult, Ack, HandlerReturns
<1>5. CASE \E r \in Pools : CloseJobs(r) \/ CloseResults(r) \/ Cancel(r)
    BY <1>5 DEF CloseJobs, CloseResults, Cancel
<1>6. ASSUME NEW r \in Pools, Crash(r)
      PROVE  /\ jobClosed'[p] => dpc'[p] = "done"
             /\ resultClosed'[p] => \A w \in Workers : wpc'[p][w] = "done"
    <2>1. /\ jobClosed' = [jobClosed EXCEPT ![r] = FALSE]
          /\ resultClosed' = [resultClosed EXCEPT ![r] = FALSE]
          /\ r # p => UNCHANGED <<dpc[p], wpc[p]>>
        BY <1>6 DEF Crash, DispatcherGoes
    <2> QED
        BY <2>1
<1>7. CASE UNCHANGED vars
    BY <1>7 DEF vars
<1> QED
    BY <1>1, <1>2, <1>3, <1>4, <1>5, <1>6, <1>7 DEF Next, PoolStep

(* No goroutine of a pool ever sends on a closed channel.                  *)
THEOREM ClosedChannelsAreQuiet == Spec => []NoSendOnClosed
<1>1. TypeInv /\ [Next]_vars => TypeInv'
    BY TypeStep, HeldStep DEF TypeInv
<1>2. Init => NoSendOnClosed
    BY DEF Init, NoSendOnClosed
<1> QED
    BY <1>1, <1>2, TypeInit, ChannelStep, PTL DEF Spec

-----------------------------------------------------------------------------
(* What a step may do to the stream.                                       *)
LEMMA StreamStep ==
    ASSUME TypeInv, [Next]_vars
    PROVE  \/ UNCHANGED <<first, cursor, pel, stale, acked>>
           \/ first' \in Nat /\ first <= first' /\ UNCHANGED <<cursor, pel, stale, acked>>
           \/ \E m \in Msgs : Age(m)
           \/ pel' = Live(pel) /\ stale' \subseteq stale /\ UNCHANGED <<first, cursor, acked>>
           \/ \E m \in 1..cursor : XAck(m)
           \/ \E m \in Msgs : XReadGroup(m)
<1> USE DEF TypeInv, TypeOK, stream
<1>1. CASE AddtoStream
    BY <1>1 DEF AddtoStream, StreamTypeOK, Msgs
<1>2. CASE \E m \in Msgs : Age(m)
    BY <1>2
<1>3. ASSUME NEW p \in Pools, Dispatcher(p)
      PROVE  \/ UNCHANGED <<first, cursor, pel, stale, acked>>
             \/ pel' = Live(pel) /\ stale' \subseteq stale /\ UNCHANGED <<first, cursor, acked>>
             \/ \E m \in 1..cursor : XAck(m)
             \/ \E m \in Msgs : XReadGroup(m)
    <2>1. CASE ClaimStale(p)
        BY <2>1 DEF ClaimStale, XAutoClaim, Live
    <2>2. CASE NothingStale(p)
        BY <2>2 DEF NothingStale
    <2>3. CASE ReadNew(p)
        BY <2>3 DEF ReadNew
    <2>4. CASE DropMalformed(p)
        BY <2>4 DEF DropMalformed, HeldDelivered
    <2>5. CASE DispatcherStops(p) \/ ReadNothing(p) \/ FetchFails(p) \/ reserveJob(p)
               \/ SkipDuplicate(p) \/ SendJob(p) \/ SendCancelled(p)
        BY <2>5 DEF DispatcherStops, ReadNothing, FetchFails, reserveJob, SkipDuplicate,
           SendJob, SendCancelled
    <2> QED
        BY <1>3, <2>1, <2>2, <2>3, <2>4, <2>5 DEF Dispatcher
<1>4. ASSUME NEW p \in Pools, NEW w \in Workers, Worker(p, w) PROVE UNCHANGED stream
    BY <1>4 DEF Worker, TakeJob, TranscodeReturns, DeliverResult, WorkerReturns
<1>5. ASSUME NEW p \in Pools, handleResults(p)
      PROVE  UNCHANGED stream \/ \E m \in 1..cursor : XAck(m)
    BY <1>5 DEF handleResults, TakeResult, Ack, HandlerReturns, HeldDelivered
<1>6. ASSUME NEW p \in Pools, CloseJobs(p) \/ CloseResults(p) \/ Cancel(p) \/ Crash(p)
      PROVE  UNCHANGED stream
    BY <1>6 DEF CloseJobs, CloseResults, Cancel, Crash
<1>7. CASE UNCHANGED vars
    BY <1>7 DEF vars
<1> QED
    BY <1>1, <1>2, <1>3, <1>4, <1>5, <1>6, <1>7 DEF Next, PoolStep

LEMMA LostStep == TypeInv /\ NothingLost /\ [Next]_vars => NothingLost'
<1> SUFFICES ASSUME TypeInv, NothingLost, [Next]_vars PROVE NothingLost'
    OBVIOUS
<1> USE DEF NothingLost
<1>t. /\ first \in Nat /\ cursor \in Nat /\ pel \subseteq 1..cursor /\ acked \subseteq 1..cursor
    BY PoolAssumption DEF TypeInv, TypeOK, StreamTypeOK
<1>1. CASE first' \in Nat /\ first <= first' /\ UNCHANGED <<cursor, pel, acked>>
    BY <1>t, <1>1
<1>2. CASE \E m \in Msgs : Age(m)
    BY <1>2 DEF Age
<1>3. CASE pel' = Live(pel) /\ UNCHANGED <<first, cursor, acked>>
    <2>1. \A m \in 1..cursor : m \in pel' \/ m < first \/ m \in acked
        <3>1. \A m \in 1..cursor : (m \in pel /\ m >= first) => m \in Live(pel)
            BY DEF Live
        <3>2. \A m \in 1..cursor : m >= first \/ m < first
            BY <1>t
        <3> QED
            BY <1>3, <3>1, <3>2
    <2>2. pel' \subseteq pel
        BY <1>3 DEF Live
    <2> QED
        BY <1>3, <2>1, <2>2
<1>4. ASSUME NEW m \in 1..cursor, XAck(m) PROVE NothingLost'
    BY <1>4 DEF XAck
<1>5. ASSUME NEW m \in Msgs, XReadGroup(m) PROVE NothingLost'
    <2>1. /\ m = IF cursor < first THEN first ELSE cursor + 1
          /\ cursor' = m /\ pel' = pel \cup {m} /\ UNCHANGED <<first, acked>>
        BY <1>5 DEF XReadGroup
    <2>2. m > cursor /\ m \notin acked
        BY <1>t, <2>1
    <2>3. \A k \in 1..m : k \in 1..cursor \/ k = m \/ k < first
        BY <1>t, <2>1
    <2> QED
        BY <2>1, <2>2, <2>3
<1>6. CASE UNCHANGED <<first, cursor, pel, acked>>
    BY <1>6
<1> QED
    BY <1>1, <1>2, <1>3, <1>4, <1>5, <1>6, StreamStep

(* Whatever happens to the pools, a message read from the stream is        *)
(* acknowledged, trimmed or still pending: only XACK takes it off the list.*)
THEOREM NoMessageForgotten == Spec => []NothingLost
<1>1. TypeInv /\ [Next]_vars => TypeInv'
    BY TypeStep, HeldStep DEF TypeInv
<1>2. Init => NothingLost
    BY DEF Init, NothingLost
<1> QED
    BY <1>1, <1>2, TypeInit, LostStep, PTL DEF Spec

-----------------------------------------------------------------------------
(* Message m is in pool p, its transcode not over.                         *)
Has(p, m) ==
    \/ dpc[p] \in {"parse", "send"} /\ dmsg[p] = m
    \/ \E i \in 1..Len(jobChan[p]) : jobChan[p][i] = m
    \/ \E w \in Workers : wpc[p][w] = "busy" /\ wmsg[p][w] = m

HeldOnce(m) == \A p, r \in Pools : Has(p, m) /\ Has(r, m) => p = r

LEMMA HasDelivered == ASSUME TypeInv, NEW p \in Pools, NEW m, Has(p, m) PROVE m \in 1..cursor
BY DEF TypeInv, HeldDelivered, Has

(* A pool gets a message only by reading it, when nobody has it yet, or by *)
(* claiming it, when it is stale.                                          *)
LEMMA HasStep ==
    ASSUME TypeInv, [Next]_vars, NEW m \in Msgs, m \notin stale, NEW p \in Pools, Has(p, m)'
    PROVE  Has(p, m) \/ (ReadNew(p) /\ m \notin 1..cursor)
<1> USE DEF TypeInv, TypeOK, dispatcher, workers, handler, channels
<1>a. CASE UNCHANGED <<dpc[p], dmsg[p], jobChan[p], wpc[p], wmsg[p]>>
    BY <1>a DEF Has
<1>1. CASE AddtoStream \/ \E k \in Msgs : Age(k)
    BY <1>1, <1>a DEF AddtoStream, Age
<1>2. ASSUME NEW r \in Pools, r # p, PoolStep(r) \/ Cancel(r) \/ Crash(r)
      PROVE  UNCHANGED <<dpc[p], dmsg[p], jobChan[p], wpc[p], wmsg[p]>>
    <2>1. CASE Dispatcher(r)
        BY <1>2, <2>1 DEF Dispatcher, DispatcherGoes, DispatcherStops, ClaimStale, NothingStale,
           ReadNew, ReadNothing, FetchFails, DropMalformed, reserveJob, SkipDuplicate, SendJob,
           SendCancelled
    <2>2. ASSUME NEW w \in Workers, Worker(r, w)
          PROVE  UNCHANGED <<dpc[p], dmsg[p], jobChan[p], wpc[p], wmsg[p]>>
        BY <1>2, <2>2 DEF Worker, WorkerGoes, TakeJob, TranscodeReturns, DeliverResult, WorkerReturns
    <2>3. CASE handleResults(r) \/ CloseJobs(r) \/ CloseResults(r) \/ Cancel(r)
        BY <2>3 DEF handleResults, TakeResult, Ack, HandlerReturns, CloseJobs, CloseResults, Cancel
    <2>4. CASE Crash(r)
        BY <1>2, <2>4 DEF Crash, DispatcherGoes
    <2> QED
        BY <1>2, <2>1, <2>2, <2>3, <2>4 DEF PoolStep
<1>3. CASE Dispatcher(p)
    <2>1. UNCHANGED <<wpc, wmsg>>
        BY <1>3 DEF Dispatcher, DispatcherStops, ClaimStale, NothingStale, ReadNew, ReadNothing,
           FetchFails, DropMalformed, reserveJob, SkipDuplicate, SendJob, SendCancelled
    <2>2. CASE ClaimStale(p)
        <3>1. PICK k \in stale : DispatcherGoes(p, "parse", k) \/ UNCHANGED dispatcher
            BY <2>2 DEF ClaimStale
        <3>2. UNCHANGED jobChan
            BY <2>2 DEF ClaimStale
        <3> QED
            BY <2>1, <3>1, <3>2 DEF DispatcherGoes, Has
    <2>3. CASE ReadNew(p)
        <3>1. PICK k \in Msgs : XReadGroup(k) /\ (DispatcherGoes(p, "parse", k)
                                                  \/ DispatcherGoes(p, "loop", NoMsg))
            BY <2>3 DEF ReadNew
        <3>2. k \notin 1..cursor
            BY <3>1, StreamRead DEF StreamTypeOK
        <3>3. UNCHANGED jobChan
            BY <2>3 DEF ReadNew
        <3> QED
            BY <2>1, <2>3, <3>1, <3>2, <3>3 DEF DispatcherGoes, Has
    <2>4. CASE DispatcherStops(p) \/ NothingStale(p) \/ ReadNothing(p) \/ FetchFails(p)
               \/ DropMalformed(p) \/ SkipDuplicate(p) \/ SendCancelled(p)
        <3>1. UNCHANGED jobChan /\ dpc'[p] \notin {"parse", "send"}
            BY <2>4 DEF DispatcherStops, NothingStale, ReadNothing, FetchFails, DropMalformed,
               SkipDuplicate, SendCancelled, DispatcherGoes
        <3> QED
            BY <2>1, <3>1 DEF Has
    <2>5. CASE reserveJob(p)
        BY <2>1, <2>5 DEF reserveJob, DispatcherGoes, Has
    <2>6. CASE SendJob(p)
        <3> DEFINE q == jobChan[p]
                   e == dmsg[p]
        <3>1. e \in Msgs /\ q \in Seq(Msgs) /\ dpc[p] = "send"
            BY <2>6, PoolAssumption DEF SendJob, HeldDelivered, StreamTypeOK, Msgs
        <3>2. jobChan'[p] = Append(q, e) /\ dpc'[p] = "loop"
            BY <2>6 DEF SendJob, DispatcherGoes
        <3>3. \A i \in 1..Len(Append(q, e)) :
                  Append(q, e)[i] = e \/ \E k \in 1..Len(q) : Append(q, e)[i] = q[k]
            <4> HIDE DEF q, e
            <4>1. /\ Len(Append(q, e)) = Len(q) + 1 /\ Len(q) \in Nat
                  /\ \A i \in 1..Len(q) : Append(q, e)[i] = q[i]
                  /\ Append(q, e)[Len(q) + 1] = e
                BY ONLY <3>1, AppendOne
            <4> QED
                BY ONLY <4>1
        <3>4. CASE \E i \in 1..Len(jobChan'[p]) : jobChan'[p][i] = m
            <4>1. m = e \/ \E k \in 1..Len(q) : q[k] = m
                BY <3>2, <3>3, <3>4
            <4> QED
                BY <3>1, <4>1 DEF Has
        <3>5. CASE \E w \in Workers : wpc'[p][w] = "busy" /\ wmsg'[p][w] = m
            BY <2>1, <3>5 DEF Has
        <3> QED
            BY <3>2, <3>4, <3>5 DEF Has
    <2> QED
        BY <1>3, <2>2, <2>3, <2>4, <2>5, <2>6 DEF Dispatcher
<1>4. ASSUME NEW w \in Workers, Worker(p, w) PROVE Has(p, m)
    <2>1. UNCHANGED <<dpc, dmsg>>
        BY <1>4 DEF Worker, TakeJob, TranscodeReturns, DeliverResult, WorkerReturns
    <2>2. CASE TakeJob(p, w)
        <3> DEFINE q == jobChan[p]
        <3>1. /\ Head(q) = q[1] /\ 1 \in 1..Len(q)
              /\ \A i \in 1..Len(Tail(q)) : i + 1 \in 1..Len(q) /\ Tail(q)[i] = q[i + 1]
            BY <2>2, HeadTail DEF TakeJob
        <3>2. /\ jobChan'[p] = Tail(q)
              /\ wpc' = [wpc EXCEPT ![p][w] = "busy"] /\ wmsg' = [wmsg EXCEPT ![p][w] = Head(q)]
            BY <2>2 DEF TakeJob, WorkerGoes
        <3>3. CASE \E i \in 1..Len(jobChan'[p]) : jobChan'[p][i] = m
            BY <3>1, <3>2, <3>3 DEF Has
        <3>4. CASE \E v \in Workers : wpc'[p][v] = "busy" /\ wmsg'[p][v] = m
            BY <3>1, <3>2, <3>4 DEF Has
        <3> QED
            BY <2>1, <3>3, <3>4 DEF Has
    <2>3. CASE TranscodeReturns(p, w) \/ DeliverResult(p, w) \/ WorkerReturns(p, w)
        <3>1. /\ UNCHANGED jobChan
              /\ \A v \in Workers : wpc'[p][v] = "busy" => /\ wpc[p][v] = "busy"
                                                           /\ wmsg'[p][v] = wmsg[p][v]
            BY <2>3 DEF TranscodeReturns, DeliverResult, WorkerReturns, WorkerGoes
        <3> QED
            BY <2>1, <3>1 DEF Has
    <2> QED
        BY <1>4, <2>2, <2>3 DEF Worker
<1>5. CASE handleResults(p) \/ CloseJobs(p) \/ CloseResults(p) \/ Cancel(p)
    BY <1>5, <1>a DEF handleResults, TakeResult, Ack, HandlerReturns, CloseJobs, CloseResults, Cancel
<1>6. CASE Crash(p)
    <2>1. dpc'[p] = "loop" /\ jobChan'[p] = <<>> /\ \A w \in Workers : wpc'[p][w] = "idle"
        BY <1>6 DEF Crash, DispatcherGoes
    <2> QED
        BY <2>1 DEF Has
<1>7. CASE UNCHANGED vars
    BY <1>7, <1>a DEF vars
<1> QED
    BY <1>a, <1>1, <1>2, <1>3, <1>4, <1>5, <1>6, <1>7 DEF Next, PoolStep

LEMMA HeldOnceStep ==
    ASSUME TypeInv, [Next]_vars, NEW m \in Msgs, m \notin stale, HeldOnce(m)
    PROVE  HeldOnce(m)'
<1> SUFFICES ASSUME NEW p \in Pools, NEW r \in Pools, Has(p, m)', Has(r, m)' PROVE p = r
    BY DEF HeldOnce
<1>1. Has(p, m) \/ (ReadNew(p) /\ m \notin 1..cursor)
    BY HasStep
<1>2. Has(r, m) \/ (ReadNew(r) /\ m \notin 1..cursor)
    BY HasStep
<1>3. CASE Has(p, m) /\ Has(r, m)
    BY <1>3 DEF HeldOnce
<1>4. CASE ReadNew(p) /\ ReadNew(r) /\ m \notin 1..cursor /\ p # r
    <2>1. dpc'[p] \in {"parse", "loop"} /\ dpc[r] = "read" /\ dpc'[r] \in {"parse", "loop"}
        BY <1>4 DEF TypeInv, TypeOK, ReadNew, DispatcherGoes
    <2>2. dpc'[r] = dpc[r]
        BY <1>4 DEF TypeInv, TypeOK, ReadNew, DispatcherGoes
    <2> QED
        BY <2>1, <2>2
<1> QED
    BY <1>1, <1>2, <1>3, <1>4, HasDelivered

(* The extent of what InFlightNotDuplicated finds: a message is never      *)
(* transcoded twice at once unless it has been stale, that is, pending and *)
(* idle for reclaimMinIdle.  Crashes, lost replies, failed XACKs and       *)
(* duplicate messages alone do not do it, in any number of pools.          *)
THEOREM OnlyStaleIsDuplicated ==
    ASSUME NEW m \in Msgs
    PROVE  Spec /\ [](m \notin stale) => []TranscodedOnce(m)
<1>1. TypeInv /\ [Next]_vars => TypeInv'
    BY TypeStep, HeldStep DEF TypeInv
<1>2. Init => HeldOnce(m)
    BY DEF Init, HeldOnce, Has
<1>3. TypeInv /\ HeldOnce(m) /\ m \notin stale /\ [Next]_vars => HeldOnce(m)'
    BY HeldOnceStep
<1>4. HeldOnce(m) /\ AllExclusion => TranscodedOnce(m)
    BY DEF HeldOnce, AllExclusion, ExclusionInv, Exclusive, Has, Working, JobAt, TranscodedOnce
<1> QED
    BY <1>1, <1>2, <1>3, <1>4, TypeInit, ExclusionAlways, PTL DEF Spec
==============================================================================
