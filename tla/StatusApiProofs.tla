--------------------------- MODULE StatusApiProofs ---------------------------
(***************************************************************************)
(* Proofs about StatusApi.tla, for any jobs, any number of calls under way *)
(* and any requests.                                                       *)
(***************************************************************************)
EXTENDS StatusApi, TLAPS

LEMMA TransitionFacts ==
    ASSUME NEW r \in Status, NEW s, canTransition(r, s)
    PROVE  /\ s \in Status
           /\ StagesBefore(s) \subseteq StagesBefore(r) \cup {r}
<1>1. r \in {"pending", "queued", "downloading", "processing", "uploading"}
      /\ s \in {Advance[r], "cancelled", "failed"}
    BY DEF canTransition, validTransitions, Terminal, Status, Advance
<1>2. CASE s \in {"cancelled", "failed"}
    BY <1>1, <1>2 DEF StagesBefore, Status
<1>3. CASE s = Advance[r]
    BY <1>1, <1>3 DEF StagesBefore, Status, Advance
<1> QED
    BY <1>1, <1>2, <1>3

LEMMA TransitionSource == \A r \in Status : \A s : canTransition(r, s) => r \notin Terminal
BY DEF canTransition, validTransitions

LEMMA TypeInit == Init => TypeOK
BY DEF Init, TypeOK, Active, Answers, Status

LEMMA TypeStep == TypeOK /\ [Next]_vars => TypeOK'
<1> SUFFICES ASSUME TypeOK, [Next]_vars PROVE TypeOK'
    OBVIOUS
<1>c. \A c \in Calls : Busy(c) => /\ call[c].job \in Jobs
                                  /\ call[c].req[1] \in Status /\ call[c].req[2] \in Status
    BY StatusApiAssumption DEF TypeOK, Busy, Active, Answers
<1>1. ASSUME NEW c \in Calls, NEW j \in Jobs, NEW r \in Requests, Begin(c, j, r) PROVE TypeOK'
    BY <1>1 DEF Begin, TypeOK, Active, Answers
<1>2. ASSUME NEW c \in Calls, Read(c) PROVE TypeOK'
    <2>1. ASSUME NEW a \in Answers, Answer(c, a), UNCHANGED <<status, seen>> PROVE TypeOK'
        BY <2>1 DEF Answer, TypeOK, Active, Answers
    <2>2. ASSUME call' = [call EXCEPT ![c].pc = "write"], UNCHANGED <<status, seen>>,
                 call[c].pc = "read",
                 status[call[c].job] = call[c].req[1],
                 canTransition(call[c].req[1], call[c].req[2])
          PROVE  TypeOK'
        <3>1. call[c] \in Active /\ call[c].job \in Jobs
            BY <2>2 DEF TypeOK, Active, Answers
        <3>2. call'[c] \in Active /\ call'[c].req = call[c].req /\ call'[c].job = call[c].job
            BY <2>2, <3>1 DEF TypeOK, Active
        <3>3. status[call[c].job] \in seen[call[c].job]
            BY <3>1 DEF TypeOK
        <3>4. \A d \in Calls : d # c => call'[d] = call[d]
            BY <2>2 DEF TypeOK
        <3>5. call' \in [Calls -> Active \cup [pc : Answers]]
            BY <2>2, <3>2 DEF TypeOK
        <3> QED
            BY <2>2, <3>2, <3>3, <3>4, <3>5 DEF TypeOK
    <2> QED
        BY <1>2, <2>1, <2>2 DEF Read, Answers
<1>3. ASSUME NEW c \in Calls, Write(c) PROVE TypeOK'
    <2>1. call[c].job \in Jobs /\ call[c].req[2] \in Status
        BY <1>3, <1>c DEF Write, Busy
    <2>2. /\ status' = [status EXCEPT ![call[c].job] = call[c].req[2]]
          /\ seen' = [seen EXCEPT ![call[c].job] = @ \cup {call[c].req[2]}]
          /\ \E a \in {"ok", "error"} : call' = [call EXCEPT ![c] = [pc |-> a]]
        BY <1>3 DEF Write, Answer
    <2>3. \A j \in Jobs : seen[j] \subseteq seen'[j] /\ status'[j] \in seen'[j]
        BY <2>1, <2>2 DEF TypeOK
    <2>4. \A d \in Calls : call'[d].pc = "write" => call'[d] = call[d] /\ call[d].job \in Jobs
        BY <2>2, <1>c DEF TypeOK, Busy
    <2>5. /\ status' \in [Jobs -> Status] /\ seen' \in [Jobs -> SUBSET Status]
          /\ call' \in [Calls -> Active \cup [pc : Answers]]
        BY <2>1, <2>2 DEF TypeOK, Answers
    <2> QED
        BY <2>3, <2>4, <2>5 DEF TypeOK
<1>4. ASSUME NEW c \in Calls, Fail(c) PROVE TypeOK'
    BY <1>4 DEF Fail, Answer, TypeOK, Active, Answers
<1>5. CASE UNCHANGED vars
    BY <1>5 DEF vars, TypeOK
<1> QED
    BY <1>1, <1>2, <1>3, <1>4, <1>5 DEF Next

(* Every variable keeps its type, and no call ever writes a transition     *)
(* that validTransitions does not allow.                                   *)
THEOREM TypeCorrect == Spec => []TypeOK
BY TypeInit, TypeStep, PTL DEF Spec

-----------------------------------------------------------------------------
LEMMA StagesStep == TypeOK /\ NoStageSkipped /\ [Next]_vars => NoStageSkipped'
<1> SUFFICES ASSUME TypeOK, NoStageSkipped, [Next]_vars PROVE NoStageSkipped'
    OBVIOUS
<1>1. CASE UNCHANGED seen
    BY <1>1 DEF NoStageSkipped
<1>2. ASSUME NEW c \in Calls, Write(c) PROVE NoStageSkipped'
    <2> DEFINE j == call[c].job
               from == call[c].req[1]
               to == call[c].req[2]
    <2>1. /\ j \in Jobs /\ from \in Status /\ canTransition(from, to) /\ from \in seen[j]
        BY <1>2, StatusApiAssumption DEF Write, TypeOK, Active, Answers
    <2>2. StagesBefore(to) \subseteq seen[j]
        BY <2>1, TransitionFacts DEF NoStageSkipped
    <2>3. seen' = [seen EXCEPT ![j] = @ \cup {to}]
        BY <1>2 DEF Write
    <2> HIDE DEF j, from, to
    <2> QED
        BY <2>1, <2>2, <2>3 DEF NoStageSkipped, TypeOK
<1> QED
    BY <1>1, <1>2 DEF Next, Begin, Read, Fail, vars

(* No interleaving of any number of calls lets a job skip a stage: the     *)
(* status a call read is stale by the time it writes, but it has been the  *)
(* job's, and the history only grows.                                      *)
THEOREM StagesInOrder == Spec => []NoStageSkipped
<1>1. Init => NoStageSkipped
    BY DEF Init, NoStageSkipped, StagesBefore
<1> QED
    BY <1>1, TypeInit, TypeStep, StagesStep, PTL DEF Spec

LEMMA OkStep ==
    ASSUME TypeOK, [Next]_vars, NEW c \in Calls, Busy(c), call'[c].pc = "ok"
    PROVE  call[c].req[2] \in seen'[call[c].job]
<1>1. call \in [Calls -> Active \cup [pc : Answers]]
    BY DEF TypeOK
<1>2. call[c] \in Active /\ call[c].job \in Jobs
    BY <1>1 DEF Busy, Active, Answers
<1>3. CASE call' = call
    BY <1>3 DEF Busy
<1>4. ASSUME NEW d \in Calls, NEW j \in Jobs, NEW r \in Requests, Begin(d, j, r) PROVE FALSE
    BY <1>1, <1>4 DEF Begin, Busy
<1>5. ASSUME NEW d \in Calls, Read(d) \/ Write(d) \/ Fail(d) PROVE d = c
    BY <1>1, <1>5 DEF Read, Write, Fail, Answer, Busy
<1>6. CASE Read(c)
    <2>1. status[call[c].job] = call[c].req[2]
        BY <1>1, <1>2, <1>6 DEF Read, Answer, Active
    <2> QED
        BY <1>2, <1>6, <2>1 DEF Read, TypeOK
<1>7. CASE Write(c)
    BY <1>2, <1>7 DEF Write, TypeOK
<1>8. CASE Fail(c)
    BY <1>1, <1>8 DEF Fail, Answer
<1> QED
    BY <1>3, <1>4, <1>5, <1>6, <1>7, <1>8 DEF Next, vars

(* Whoever is told "ok" may rely on the job having had the status it asked *)
(* for: read by this call, or written by it, and the history only grows.   *)
THEOREM OkMeansReached == Spec => OkWasReached
<1> DEFINE Reached == \A c \in Calls : Busy(c) /\ call'[c].pc = "ok"
                                          => call[c].req[2] \in seen'[call[c].job]
<1>1. ASSUME TypeOK, [Next]_vars PROVE [Reached]_vars
    BY <1>1, OkStep
<1> QED
    BY <1>1, TypeInit, TypeStep, PTL DEF Spec, OkWasReached

-----------------------------------------------------------------------------
(* A job with a terminal status and no call about to write: a call that    *)
(* reads is answered, since no transition leads out of the status it reads.*)
LEMMA SettledStep ==
    ASSUME TypeOK, [Next]_vars, NEW j \in Jobs, Settled(j)
    PROVE  Settled(j)' /\ status'[j] = status[j]
<1>1. /\ status[j] \in Terminal
      /\ \A c \in Calls : call[c].pc = "write" => call[c].job # j
    BY DEF Settled
<1>2. call \in [Calls -> Active \cup [pc : Answers]] /\ status \in [Jobs -> Status]
    BY DEF TypeOK
<1>3. ASSUME NEW c \in Calls, call'[c].pc # "write" \/ call'[c].job # j,
             \A d \in Calls \ {c} : call'[d] = call[d], status'[j] = status[j]
      PROVE  Settled(j)' /\ status'[j] = status[j]
    BY <1>1, <1>3 DEF Settled
<1>4. ASSUME NEW c \in Calls, NEW a \in Answers, Answer(c, a)
      PROVE  call'[c].pc # "write" /\ \A d \in Calls \ {c} : call'[d] = call[d]
    BY <1>2, <1>4 DEF Answer, Answers
<1>5. ASSUME NEW c \in Calls, NEW k \in Jobs, NEW r \in Requests, Begin(c, k, r)
      PROVE  Settled(j)' /\ status'[j] = status[j]
    BY <1>2, <1>3, <1>5 DEF Begin
<1>6. ASSUME NEW c \in Calls, Read(c) PROVE Settled(j)' /\ status'[j] = status[j]
    <2>1. call[c] \in Active /\ UNCHANGED status
        BY <1>2, <1>6 DEF Read, Active, Answers
    <2>2. ASSUME call' = [call EXCEPT ![c].pc = "write"], status[call[c].job] = call[c].req[1],
                 canTransition(call[c].req[1], call[c].req[2])
          PROVE  Settled(j)' /\ status'[j] = status[j]
        <3>1. call[c].job # j
            BY <1>1, <1>2, <2>2, TransitionSource DEF Terminal
        <3>2. call'[c].job = call[c].job /\ \A d \in Calls \ {c} : call'[d] = call[d]
            BY <1>2, <2>1, <2>2 DEF Active
        <3> QED
            BY <1>3, <2>1, <3>1, <3>2
    <2> QED
        BY <1>3, <1>4, <1>6, <2>1, <2>2 DEF Read, Answers
<1>7. ASSUME NEW c \in Calls, Write(c) PROVE Settled(j)' /\ status'[j] = status[j]
    <2>1. call[c].job # j /\ status'[j] = status[j]
        BY <1>1, <1>2, <1>7 DEF Write
    <2> QED
        BY <1>3, <1>4, <1>7, <2>1 DEF Write, Answers
<1>8. ASSUME NEW c \in Calls, Fail(c) PROVE Settled(j)' /\ status'[j] = status[j]
    BY <1>3, <1>4, <1>8 DEF Fail, Answers
<1>9. CASE UNCHANGED vars
    BY <1>1, <1>9 DEF Settled, vars
<1> QED
    BY <1>5, <1>6, <1>7, <1>8, <1>9 DEF Next

(* A terminal status is undone by calls that had read before it was        *)
(* written, if at all: when they have ended it is final, whoever asks for  *)
(* what.                                                                   *)
THEOREM SettledJobsStay == Spec => SettledIsFinal
<1> DEFINE Stays == \A j \in Jobs : Settled(j) => Settled(j)' /\ status'[j] = status[j]
<1>1. ASSUME TypeOK, [Next]_vars PROVE [Stays]_vars
    BY <1>1, SettledStep
<1> QED
    BY <1>1, TypeInit, TypeStep, PTL DEF Spec, SettledIsFinal

-----------------------------------------------------------------------------
LEMMA LifecycleStep == TypeOK /\ [Next]_vars => [Lifecycle!LCNext]_<<status, seen>>
<1> SUFFICES ASSUME TypeOK, [Next]_vars PROVE [Lifecycle!LCNext]_<<status, seen>>
    OBVIOUS
<1>1. ASSUME NEW c \in Calls, Write(c) PROVE Lifecycle!LCNext
    <2>1. PICK j \in Jobs, from \in Status, to \in Status :
              /\ j = call[c].job /\ to = call[c].req[2]
              /\ from \in seen[j] /\ canTransition(from, to)
        BY <1>1, StatusApiAssumption DEF Write, TypeOK, Active, Answers
    <2>2. Lifecycle!canTransition(from, to)
        BY <2>1 DEF canTransition, Lifecycle!canTransition, validTransitions, Lifecycle!validTransitions,
           Terminal, Lifecycle!Terminal, Status, Lifecycle!Status, Advance, Lifecycle!Advance
    <2>3. Lifecycle!LCMove(j, to)
        BY <1>1, <2>1, <2>2 DEF Write, Lifecycle!LCMove
    <2> QED
        BY <2>3 DEF Lifecycle!LCNext, Lifecycle!Status, Status, Lifecycle!Advance, Advance
<1> QED
    BY <1>1 DEF Next, Begin, Read, Fail, vars

(* The two statements of TransitionTo, with any number of calls between    *)
(* them, implement the lifecycle that the rest of the system relies on:    *)
(* each status follows one that the job has had.                           *)
THEOREM ApiImplementsLifecycle == Spec => RefinesLifecycle
<1>1. Init => Lifecycle!LCInit
    BY DEF Init, Lifecycle!LCInit
<1>2. TypeOK /\ [Next]_vars => [Lifecycle!LCNext]_(Lifecycle!lcVars)
    BY LifecycleStep DEF Lifecycle!lcVars
<1> QED
    BY <1>1, <1>2, TypeInit, TypeStep, PTL DEF Spec, RefinesLifecycle, Lifecycle!LCSpec
==============================================================================
