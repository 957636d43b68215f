-------------------------- MODULE JobPipelineProofs --------------------------
(***************************************************************************)
(* Proofs about JobPipeline.tla, for any jobs, handlers, workers, downloads*)
(* and bounds.  What is true of the calls of TransitionTo alone is taken   *)
(* from StatusApiProofs.                                                   *)
(***************************************************************************)
EXTENDS JobPipeline, TLAPS

ApiProofs == INSTANCE StatusApiProofs WITH Requests <- Status \X Status

(* The instance whose proofs are used is the one the pipeline is built from.*)
LEMMA SameApi ==
    /\ Api!TypeOK <=> ApiProofs!TypeOK
    /\ Api!TypeOK' <=> ApiProofs!TypeOK'
    /\ [Api!Next]_(Api!vars) => [ApiProofs!Next]_(ApiProofs!vars)
<1>1. Api!TypeOK <=> ApiProofs!TypeOK
    BY DEF Api!TypeOK, ApiProofs!TypeOK, Api!Active, ApiProofs!Active,
       Api!Answers, ApiProofs!Answers, Api!canTransition, ApiProofs!canTransition,
       Api!validTransitions, ApiProofs!validTransitions, Api!Terminal, ApiProofs!Terminal,
       Api!Status, ApiProofs!Status, Api!Advance, ApiProofs!Advance
<1>2. [Api!Next]_(Api!vars) => [ApiProofs!Next]_(ApiProofs!vars)
    BY DEF Api!Next, ApiProofs!Next, Api!vars, ApiProofs!vars, Api!Begin, ApiProofs!Begin,
       Api!Read, ApiProofs!Read, Api!Write, ApiProofs!Write, Api!Fail, ApiProofs!Fail,
       Api!Answer, ApiProofs!Answer, Api!Busy, ApiProofs!Busy,
       Api!canTransition, ApiProofs!canTransition,
       Api!validTransitions, ApiProofs!validTransitions, Api!Terminal, ApiProofs!Terminal,
       Api!Status, ApiProofs!Status, Api!Advance, ApiProofs!Advance
<1>3. Api!TypeOK' <=> ApiProofs!TypeOK'
    BY DEF Api!TypeOK, ApiProofs!TypeOK, Api!Active, ApiProofs!Active,
       Api!Answers, ApiProofs!Answers, Api!canTransition, ApiProofs!canTransition,
       Api!validTransitions, ApiProofs!validTransitions, Api!Terminal, ApiProofs!Terminal,
       Api!Status, ApiProofs!Status, Api!Advance, ApiProofs!Advance
<1> QED
    BY <1>1, <1>2, <1>3

LEMMA ApiAssumption == ApiProofs!StatusApiAssumption
BY DEF ApiProofs!StatusApiAssumption, ApiProofs!Status, Status

LEMMA ApiTypeStep == Api!TypeOK /\ [Api!Next]_(Api!vars) => Api!TypeOK'
BY SameApi, ApiAssumption, ApiProofs!TypeStep

LEMMA ApiStagesStep ==
    /\ Api!TypeOK /\ [Api!Next]_(Api!vars)
    /\ \A j \in Jobs : \A s \in seen[j] : ApiProofs!StagesBefore(s) \subseteq seen[j]
    => \A j \in Jobs : \A s \in seen'[j] : ApiProofs!StagesBefore(s) \subseteq seen'[j]
BY SameApi, ApiAssumption, ApiProofs!StagesStep DEF ApiProofs!NoStageSkipped

LEMMA ApiOkStep ==
    ASSUME Api!TypeOK, [Api!Next]_(Api!vars), NEW c \in Calls, Api!Busy(c), call'[c].pc = "ok"
    PROVE  call[c].req[2] \in seen'[call[c].job]
BY SameApi, ApiAssumption, ApiProofs!OkStep DEF Api!Busy, ApiProofs!Busy

LEMMA ApiSettledStep ==
    ASSUME Api!TypeOK, [Api!Next]_(Api!vars), NEW j \in Jobs, Api!Settled(j)
    PROVE  Api!Settled(j)' /\ status'[j] = status[j]
BY SameApi, ApiAssumption, ApiProofs!SettledStep
DEF Api!Settled, ApiProofs!Settled, Api!Terminal, ApiProofs!Terminal,
    Api!Status, ApiProofs!Status, Api!Advance, ApiProofs!Advance

-----------------------------------------------------------------------------
(* The type invariant in the parts different actions change, and what makes*)
(* it inductive: who is at work has a job, a format and a message, and who *)
(* waits has a call.                                                       *)
StorageOK == /\ source \subseteq Jobs /\ meta \in [Jobs -> Formats \cup {NoFormat}]
             /\ outputs \in [Jobs -> SUBSET Formats]

QueueOK == /\ msgs \in Seq(Jobs) /\ Len(msgs) <= MaxMsgs
           /\ taken \subseteq 1..Len(msgs)
           /\ acked \subseteq processed /\ processed \subseteq 1..Len(msgs)

CountsOK == faults \in 0..MaxFaults /\ cancels \in 0..MaxCancels

GoodHandler(x) == /\ x.pc \in {"upload", "meta", "enqueue", "transition"} => x.job \in Jobs
                  /\ x.pc = "transition" => x.slot \in Calls

HandlersOK == api \in [Handlers -> HandlerStates] /\ \A h \in Handlers : GoodHandler(api[h])

GoodRun(x) == /\ x.stage # "pending"
              /\ x.phase \in {"work", "advancing", "reporting", "fetch"} => x.job \in Jobs
              /\ x.phase \in {"work", "advancing", "reporting"} => x.format \in Formats
              /\ x.phase \in {"advancing", "reporting"} => x.slot \in Calls
              /\ x.msg <= Len(msgs)

RunsOK == run \in [Runs -> RunStates] /\ \A r \in Runs : GoodRun(run[r])

SlotsOK ==
    \A r \in Runs : /\ \A h \in Handlers : run[r].slot = api[h].slot => run[r].slot = NoCall
                    /\ \A s \in Runs \ {r} : run[r].slot = run[s].slot => run[r].slot = NoCall

Inv == Api!TypeOK /\ StorageOK /\ QueueOK /\ CountsOK /\ HandlersOK /\ RunsOK /\ SlotsOK

LEMMA InvType == Inv => TypeOK
BY DEF Inv, TypeOK, StorageOK, QueueOK, CountsOK, HandlersOK, RunsOK, GoodRun, SlotsOK, Waiting

LEMMA NatBounds == /\ MaxRetries \in Nat /\ MaxMsgs \in Nat
                   /\ MaxCancels \in Nat /\ MaxFaults \in Nat
BY PipelineAssumption

LEMMA InvInit == Init => Inv
<1> SUFFICES ASSUME Init PROVE Inv
    OBVIOUS
<1>1. Api!TypeOK
    BY DEF Init, Api!Init, Api!TypeOK, Api!Active, Api!Answers, Api!Status
<1>2. StorageOK /\ QueueOK /\ CountsOK
    BY NatBounds DEF Init, StorageOK, QueueOK, CountsOK
<1>3. Idle \in RunStates /\ GoodRun(Idle)
    BY <1>2, NatBounds DEF Init, Idle, RunStates, GoodRun, Advance, NoMsg, QueueOK
<1>4. HandlersOK /\ RunsOK /\ SlotsOK
    BY <1>3 DEF Init, HandlersOK, HandlerStates, GoodHandler, RunsOK, SlotsOK, Idle
<1> QED
    BY <1>1, <1>2, <1>4 DEF Inv

-----------------------------------------------------------------------------
(* The steps of a call.                                                    *)
LEMMA StageFacts ==
    ASSUME NEW s \in DOMAIN Advance
    PROVE  s \in Status /\ Advance[s] \in Status /\ Advance[s] # s
BY DEF Advance, Status

(* Who changes the server's state.                                         *)
LEMMA ServerCases ==
    ASSUME Next
    PROVE  \/ UNCHANGED server \/ (\E c \in Calls : Serve(c) \/ ServeFails(c))
           \/ (\E j \in Jobs : cancelJob(j)) \/ (\E h \in Handlers : Enqueue(h))
           \/ \E r \in Runs : Work(r) \/ WorkFails(r) \/ Retry(r)
BY DEF Next, HandlerStep, TranscodeVideo, PutSource, Request, CompleteMultipartUpload,
   CreateVideoMeta, Respond, TakeMessage, FetchOutput, DownloadOutputVideo, Advanced,
   Refused, NoProfile, TimesOut, Crash, Stale, Ack

LEMMA ApiStep == Inv /\ [Next]_vars => [Api!Next]_(Api!vars)
<1> SUFFICES ASSUME Inv, Next PROVE [Api!Next]_(Api!vars)
    BY DEF vars, server, Api!vars
<1>1. ASSUME NEW c \in Calls, NEW j \in Jobs, NEW s \in Status, NEW t \in Status,
             Api!Begin(c, j, <<s, t>>)
      PROVE  Api!Next
    BY <1>1 DEF Api!Next
<1>2. CASE UNCHANGED server
    BY <1>2 DEF server, Api!vars
<1>3. ASSUME NEW c \in Calls, Serve(c) \/ ServeFails(c) PROVE Api!Next
    BY <1>3 DEF Serve, ServeFails, Api!Next
<1>4. ASSUME NEW j \in Jobs, cancelJob(j) PROVE Api!Next
    BY <1>1, <1>4 DEF cancelJob, Inv, Api!TypeOK, Api!Status, Status
<1>5. ASSUME NEW h \in Handlers, Enqueue(h) PROVE [Api!Next]_(Api!vars)
    <2>1. api[h].job \in Jobs
        BY <1>5 DEF Enqueue, Inv, HandlersOK, GoodHandler
    <2> QED
        BY <1>1, <1>2, <1>5, <2>1 DEF Enqueue, ToQueued, Status
<1>6. ASSUME NEW r \in Runs, Work(r) \/ WorkFails(r) \/ Retry(r) PROVE Api!Next
    <2>1. run[r].job \in Jobs /\ run[r].stage \in DOMAIN Advance
        BY <1>6 DEF Work, WorkFails, Retry, Waiting, Inv, RunsOK, RunStates, GoodRun
    <2>2. run[r].slot \in Calls \/ ~Retry(r)
        BY <1>6 DEF Retry, Waiting, Inv, RunsOK, GoodRun
    <2>3. run[r].stage \in Status /\ Advance[run[r].stage] \in Status /\ "failed" \in Status
        BY <2>1, StageFacts DEF Status
    <2> QED
        BY <1>1, <1>6, <2>1, <2>2, <2>3 DEF Work, WorkFails, Retry, transitionStatus
<1> QED
    BY <1>2, <1>3, <1>4, <1>5, <1>6, ServerCases

-----------------------------------------------------------------------------
(* The other parts, one lemma for each.                                    *)
LEMMA StorageStep == Inv /\ [Next]_vars => StorageOK'
<1> SUFFICES ASSUME Inv, [Next]_vars PROVE StorageOK'
    OBVIOUS
<1>1. CASE UNCHANGED storage
    BY <1>1 DEF storage, StorageOK, Inv
<1>2. ASSUME NEW j \in Jobs, PutSource(j) PROVE StorageOK'
    BY <1>2 DEF PutSource, StorageOK, Inv
<1>3. ASSUME NEW h \in Handlers, CompleteMultipartUpload(h) \/ CreateVideoMeta(h) PROVE StorageOK'
    <2>1. api[h].job \in Jobs
        BY <1>3 DEF CompleteMultipartUpload, CreateVideoMeta, Inv, HandlersOK, GoodHandler
    <2> QED
        BY <1>3, <2>1 DEF CompleteMultipartUpload, CreateVideoMeta, StorageOK, Inv
<1>4. ASSUME NEW r \in Runs, Work(r) \/ WorkFails(r) PROVE StorageOK'
    <2>1. run[r].format \in Formats /\ run[r].job \in Jobs
        BY <1>4 DEF Work, WorkFails, Inv, RunsOK, GoodRun
    <2> QED
        BY <1>4, <2>1 DEF Work, WorkFails, Uploads, StorageOK, Inv
<1>5. \/ UNCHANGED storage \/ \E j \in Jobs : PutSource(j)
      \/ \E h \in Handlers : CompleteMultipartUpload(h) \/ CreateVideoMeta(h)
      \/ \E r \in Runs : Work(r) \/ WorkFails(r)
    BY DEF Next, vars, HandlerStep, TranscodeVideo, Serve, ServeFails, cancelJob, Request, Enqueue,
       Respond, TakeMessage, FetchOutput, DownloadOutputVideo, Advanced, Retry, Refused,
       NoProfile, TimesOut, Crash, Stale, Ack
<1> QED
    BY <1>1, <1>2, <1>3, <1>4, <1>5

(* What a step does to the queue.                                          *)
LEMMA QueueCases ==
    ASSUME Inv, [Next]_vars
    PROVE  \/ UNCHANGED queue
           \/ /\ \E h \in Handlers : api[h].pc = "enqueue" /\ AddMessage(h)
              /\ UNCHANGED <<taken, processed, acked>>
           \/ /\ \E m \in 1..Len(msgs) : taken' = taken \cup {m}
              /\ UNCHANGED <<msgs, processed, acked>>
           \/ taken' \subseteq taken /\ UNCHANGED <<msgs, processed, acked>>
           \/ /\ \E r \in Runs : processed' = processed \cup ({run[r].msg} \ {NoMsg})
              /\ UNCHANGED <<msgs, taken, acked>>
           \/ /\ \E m \in processed : acked' = acked \cup {m}
              /\ UNCHANGED <<msgs, taken, processed>>
<1>1. ASSUME NEW h \in Handlers, Enqueue(h)
      PROVE  ((api[h].pc = "enqueue" /\ AddMessage(h)) \/ UNCHANGED msgs)
             /\ UNCHANGED <<taken, processed, acked>>
    BY <1>1 DEF Enqueue
<1>2. ASSUME NEW r \in Runs, Advanced(r) \/ Refused(r) \/ NoProfile(r) \/ TimesOut(r)
      PROVE  (processed' = processed \cup ({run[r].msg} \ {NoMsg}) \/ UNCHANGED processed)
             /\ UNCHANGED <<msgs, taken, acked>>
    BY <1>2 DEF Advanced, Refused, NoProfile, TimesOut, Return
<1>3. ASSUME NEW r \in Runs, Crash(r)
      PROVE  taken' \subseteq taken /\ UNCHANGED <<msgs, processed, acked>>
    BY <1>3 DEF Crash
<1>4. ASSUME NEW m \in 1..MaxMsgs, Stale(m)
      PROVE  taken' \subseteq taken /\ UNCHANGED <<msgs, processed, acked>>
    BY <1>4 DEF Stale
<1>5. ASSUME NEW m \in 1..MaxMsgs, Ack(m)
      PROVE  m \in processed /\ acked' = acked \cup {m} /\ UNCHANGED <<msgs, taken, processed>>
    BY <1>5 DEF Ack
<1>6. ASSUME NEW r \in Workers, NEW m \in 1..MaxMsgs, TakeMessage(r, m)
      PROVE  m \in 1..Len(msgs) /\ taken' = taken \cup {m} /\ UNCHANGED <<msgs, processed, acked>>
    BY <1>6 DEF TakeMessage
<1>7. \/ UNCHANGED queue
      \/ \E h \in Handlers : Enqueue(h)
      \/ \E r \in Runs : Advanced(r) \/ Refused(r) \/ NoProfile(r) \/ TimesOut(r) \/ Crash(r)
      \/ \E m \in 1..MaxMsgs : Stale(m) \/ Ack(m) \/ \E r \in Workers : TakeMessage(r, m)
    BY DEF Next, vars, HandlerStep, TranscodeVideo, Serve, ServeFails, cancelJob, Request,
       CompleteMultipartUpload, CreateVideoMeta, PutSource, Respond, FetchOutput,
       DownloadOutputVideo, Work, WorkFails, Retry
<1> QED
    BY <1>1, <1>2, <1>3, <1>4, <1>5, <1>6, <1>7 DEF queue

(* A message added is one more, at the end.                                *)
LEMMA AddFacts ==
    ASSUME Inv, NEW h \in Handlers, api[h].pc = "enqueue", AddMessage(h)
    PROVE  /\ api[h].job \in Jobs
           /\ msgs' \in Seq(Jobs) /\ Len(msgs') = Len(msgs) + 1 /\ Len(msgs') <= MaxMsgs
           /\ \A m \in 1..Len(msgs) : msgs'[m] = msgs[m]
           /\ msgs'[Len(msgs) + 1] = api[h].job
<1>1. api[h].job \in Jobs
    BY DEF Inv, HandlersOK, GoodHandler
<1>2. msgs \in Seq(Jobs) /\ Len(msgs) \in Nat
    BY DEF Inv, QueueOK
<1> QED
    BY <1>1, <1>2, NatBounds DEF AddMessage

LEMMA QueueStep == Inv /\ [Next]_vars => QueueOK' /\ Len(msgs) <= Len(msgs')
<1> SUFFICES ASSUME Inv, [Next]_vars PROVE QueueOK' /\ Len(msgs) <= Len(msgs')
    OBVIOUS
<1>1. QueueOK /\ Len(msgs) \in Nat
    BY DEF Inv, QueueOK
<1>2. ASSUME NEW h \in Handlers, api[h].pc = "enqueue", AddMessage(h),
             UNCHANGED <<taken, processed, acked>>
      PROVE  QueueOK' /\ Len(msgs) <= Len(msgs')
    BY <1>1, <1>2, AddFacts DEF QueueOK
<1>3. ASSUME NEW r \in Runs, processed' = processed \cup ({run[r].msg} \ {NoMsg})
      PROVE  processed' \subseteq 1..Len(msgs)
    <2>1. run[r].msg \in 0..MaxMsgs /\ run[r].msg <= Len(msgs)
        BY DEF Inv, RunsOK, RunStates, GoodRun
    <2>2. run[r].msg # NoMsg => run[r].msg \in 1..Len(msgs)
        BY <1>1, <2>1, NatBounds DEF NoMsg
    <2> QED
        BY <1>1, <1>3, <2>2 DEF QueueOK
<1>4. CASE UNCHANGED queue
    BY <1>1, <1>4 DEF QueueOK, queue
<1>5. CASE UNCHANGED msgs /\ taken' \subseteq 1..Len(msgs) /\ UNCHANGED <<processed, acked>>
    BY <1>1, <1>5 DEF QueueOK
<1>6. CASE /\ \E r \in Runs : processed' = processed \cup ({run[r].msg} \ {NoMsg})
           /\ UNCHANGED <<msgs, taken, acked>>
    BY <1>1, <1>3, <1>6 DEF QueueOK
<1>7. CASE /\ \E m \in processed : acked' = acked \cup {m}
           /\ UNCHANGED <<msgs, taken, processed>>
    BY <1>1, <1>7 DEF QueueOK
<1>8. taken \subseteq 1..Len(msgs)
    BY <1>1 DEF QueueOK
<1> QED
    BY <1>2, <1>4, <1>5, <1>6, <1>7, <1>8, QueueCases

LEMMA CountsStep == Inv /\ [Next]_vars => CountsOK'
<1> SUFFICES ASSUME Inv, [Next]_vars PROVE CountsOK'
    OBVIOUS
<1>1. CountsOK
    BY DEF Inv
<1>2. /\ UNCHANGED faults \/ MayFail
      /\ UNCHANGED cancels \/ (cancels < MaxCancels /\ cancels' = cancels + 1)
    BY DEF Next, vars, HandlerStep, TranscodeVideo, Serve, ServeFails, cancelJob, Request,
       CompleteMultipartUpload, CreateVideoMeta, PutSource, Enqueue, Respond, TakeMessage,
       FetchOutput, DownloadOutputVideo, Work, WorkFails, Advanced, Retry, Refused, NoProfile,
       TimesOut, Crash, Stale, Ack
<1> QED
    BY <1>1, <1>2, NatBounds DEF CountsOK, MayFail

-----------------------------------------------------------------------------
(* One handler or one run moves at a time, and to a call nobody awaits.    *)
MayAwait(slot, c) == c = NoCall \/ c = slot \/ c \in Calls \ Awaited

HandlerMoves(h, x) == /\ x \in HandlerStates /\ GoodHandler(x) /\ MayAwait(api[h].slot, x.slot)
                      /\ api' = [api EXCEPT ![h] = x] /\ UNCHANGED run

RunMoves(r, x) == /\ x \in RunStates /\ GoodRun(x) /\ MayAwait(run[r].slot, x.slot)
                  /\ run' = [run EXCEPT ![r] = x] /\ UNCHANGED api

LEMMA HandlerCases ==
    ASSUME Inv, NEW h \in Handlers,
           (\E j \in Jobs : Request(h, j)) \/ HandlerStep(h)
    PROVE  UNCHANGED <<api, run>> \/ \E x : HandlerMoves(h, x)
<1>1. api[h] \in HandlerStates /\ api \in [Handlers -> HandlerStates] /\ GoodHandler(api[h])
    BY DEF Inv, HandlersOK
<1>2. ASSUME NEW pc \in {"meta", "enqueue"}, HandlerGoes(h, pc), api[h].job \in Jobs, UNCHANGED run
      PROVE  \E x : HandlerMoves(h, x)
    <2> DEFINE x == [api[h] EXCEPT !.pc = pc]
    <2>1. x \in HandlerStates /\ GoodHandler(x) /\ x.slot = api[h].slot
        BY <1>1, <1>2 DEF HandlerStates, GoodHandler
    <2>2. api' = [api EXCEPT ![h] = x]
        BY <1>1, <1>2 DEF HandlerGoes
    <2> QED
        BY <1>2, <2>1, <2>2 DEF HandlerMoves, MayAwait
<1>3. ASSUME NEW pc \in {"failed", "ok"}, UNCHANGED run,
             api' = [api EXCEPT ![h] = [@ EXCEPT !.pc = pc, !.slot = NoCall]]
      PROVE  \E x : HandlerMoves(h, x)
    <2> DEFINE x == [api[h] EXCEPT !.pc = pc, !.slot = NoCall]
    <2>1. x \in HandlerStates /\ GoodHandler(x) /\ x.slot = NoCall
        BY <1>1, <1>3 DEF HandlerStates, GoodHandler
    <2>2. api' = [api EXCEPT ![h] = x]
        BY <1>1, <1>3
    <2> QED
        BY <1>3, <2>1, <2>2 DEF HandlerMoves, MayAwait
<1>4. ASSUME HandlerFails(h), UNCHANGED run PROVE \E x : HandlerMoves(h, x)
    BY <1>3, <1>4 DEF HandlerFails
<1>5. ASSUME NEW j \in Jobs, Request(h, j) PROVE \E x : HandlerMoves(h, x)
    <2>1. PICK pc \in {"upload", "meta"} :
              api' = [api EXCEPT ![h] = [@ EXCEPT !.pc = pc, !.job = j]]
        BY <1>5 DEF Request
    <2> DEFINE x == [api[h] EXCEPT !.pc = pc, !.job = j]
    <2>2. x \in HandlerStates /\ GoodHandler(x) /\ x.slot = api[h].slot
        BY <1>1, <2>1 DEF HandlerStates, GoodHandler
    <2>3. api' = [api EXCEPT ![h] = x] /\ UNCHANGED run
        BY <1>1, <1>5, <2>1 DEF Request
    <2> QED
        BY <2>2, <2>3 DEF HandlerMoves, MayAwait
<1>6. CASE CompleteMultipartUpload(h)
    BY <1>1, <1>2, <1>4, <1>6 DEF CompleteMultipartUpload, GoodHandler
<1>7. CASE CreateVideoMeta(h)
    BY <1>1, <1>2, <1>4, <1>7 DEF CreateVideoMeta, GoodHandler
<1>8. CASE Enqueue(h)
    <2>1. ASSUME NEW c \in Calls \ Awaited,
                 api' = [api EXCEPT ![h] = [@ EXCEPT !.pc = "transition", !.slot = c]]
          PROVE  \E x : HandlerMoves(h, x)
        <3> DEFINE x == [api[h] EXCEPT !.pc = "transition", !.slot = c]
        <3>1. x \in HandlerStates /\ GoodHandler(x) /\ x.slot = c
            BY <1>1, <1>8 DEF Enqueue, HandlerStates, GoodHandler
        <3>2. api' = [api EXCEPT ![h] = x] /\ UNCHANGED run
            BY <1>1, <1>8, <2>1 DEF Enqueue
        <3> QED
            BY <3>1, <3>2 DEF HandlerMoves, MayAwait
    <2> QED
        BY <1>4, <1>8, <2>1 DEF Enqueue, ToQueued
<1>9. CASE Respond(h)
    BY <1>3, <1>4, <1>9 DEF Respond
<1> QED
    BY <1>5, <1>6, <1>7, <1>8, <1>9 DEF HandlerStep

LEMMA IdleFacts ==
    ASSUME Inv
    PROVE  \A x \in {Idle, Answered, Missing} :
               /\ x \in RunStates /\ GoodRun(x) /\ x.slot = NoCall
               /\ x.phase \in {"idle", "done", "missing"} /\ x.stage = "queued"
BY NatBounds DEF Inv, QueueOK, Idle, Answered, Missing, RunStates, GoodRun, Advance, NoMsg

LEMMA StartFacts ==
    ASSUME Inv, NEW r \in Runs, NEW j \in Jobs, NEW f \in Formats,
           NEW m \in 0..Len(msgs), Start(r, j, f, m), UNCHANGED api
    PROVE  \E x : /\ RunMoves(r, x) /\ x.phase = "work" /\ x.job = j /\ x.stage = "queued"
                  /\ x.format = f /\ x.msg = m
<1> DEFINE x == [Idle EXCEPT !.phase = "work", !.job = j, !.format = f, !.msg = m]
<1>1. Idle \in RunStates
    BY IdleFacts
<1>2. m \in 0..MaxMsgs /\ f \in Formats \cup {NoFormat}
    BY NatBounds DEF Inv, QueueOK
<1>3. /\ x \in RunStates /\ x.phase = "work" /\ x.job = j /\ x.stage = "queued"
      /\ x.format = f /\ x.msg = m /\ x.slot = NoCall
    BY <1>1, <1>2 DEF RunStates, Idle
<1>5. GoodRun(x)
    BY <1>3 DEF GoodRun
<1>4. run' = [run EXCEPT ![r] = x]
    BY DEF Start
<1> HIDE DEF x
<1> QED
    BY <1>3, <1>4, <1>5 DEF RunMoves, MayAwait

LEMMA TransitionMoves ==
    ASSUME Inv, NEW r \in Runs, run[r].phase = "work", NEW to,
           NEW phase \in {"advancing", "reporting"}, transitionStatus(r, to, phase),
           UNCHANGED api
    PROVE  \E c \in Calls \ Awaited :
               /\ Api!Begin(c, run[r].job, <<run[r].stage, to>>)
               /\ \E x : /\ RunMoves(r, x) /\ x.phase = phase /\ x.job = run[r].job
                         /\ x.stage = run[r].stage /\ x.format = run[r].format
                         /\ x.msg = run[r].msg /\ x.slot = c
<1>1. run[r] \in RunStates /\ GoodRun(run[r]) /\ run \in [Runs -> RunStates]
    BY DEF Inv, RunsOK
<1>2. PICK c \in Calls \ Awaited :
          /\ Api!Begin(c, run[r].job, <<run[r].stage, to>>)
          /\ run' = [run EXCEPT ![r] = [@ EXCEPT !.phase = phase, !.slot = c, !.tries = 0]]
    BY DEF transitionStatus
<1> DEFINE x == [run[r] EXCEPT !.phase = phase, !.slot = c, !.tries = 0]
<1>3. /\ x.slot = c /\ x.phase = phase /\ x.job = run[r].job
      /\ x.stage = run[r].stage /\ x.format = run[r].format /\ x.msg = run[r].msg
    BY <1>1 DEF RunStates
<1>6. x \in RunStates
    <2>1. 0 \in 0..MaxRetries
        BY NatBounds
    <2> QED
        BY <1>1, <2>1 DEF RunStates
<1>7. GoodRun(x)
    BY <1>1, <1>3 DEF GoodRun
<1>4. run' = [run EXCEPT ![r] = x]
    BY <1>1, <1>2
<1> HIDE DEF x
<1>5. RunMoves(r, x)
    BY <1>3, <1>4, <1>6, <1>7 DEF RunMoves, MayAwait
<1> QED
    BY <1>2, <1>3, <1>5

LEMMA ReturnMoves ==
    ASSUME Inv, NEW r \in Runs, run[r].phase \in {"work", "advancing", "reporting"},
           NEW success \in BOOLEAN, Return(r, success), UNCHANGED api
    PROVE  \E x : /\ RunMoves(r, x) /\ x.slot = NoCall
                  /\ \/ x.phase \in {"idle", "done", "missing"} /\ x.stage = "queued"
                     \/ /\ success /\ r \notin Workers
                        /\ x.phase = "fetch" /\ x.job = run[r].job /\ x.msg = run[r].msg
                        /\ x.stage = run[r].stage /\ x.format = run[r].format
<1>1. run[r] \in RunStates /\ GoodRun(run[r]) /\ run \in [Runs -> RunStates]
    BY DEF Inv, RunsOK
<1>2. ASSUME NEW x \in {Idle, Answered}, run' = [run EXCEPT ![r] = x] PROVE RunMoves(r, x)
    BY <1>2, IdleFacts DEF RunMoves, MayAwait
<1>3. CASE r \notin Workers /\ success
    <2> DEFINE x == [run[r] EXCEPT !.phase = "fetch", !.slot = NoCall]
    <2>1. x \in RunStates /\ GoodRun(x) /\ x.slot = NoCall /\ x.phase = "fetch"
          /\ x.job = run[r].job /\ x.stage = run[r].stage /\ x.format = run[r].format
          /\ x.msg = run[r].msg
        BY <1>1 DEF RunStates, GoodRun
    <2>2. run' = [run EXCEPT ![r] = x]
        BY <1>1, <1>3 DEF Return
    <2> HIDE DEF x
    <2>3. RunMoves(r, x)
        BY <2>1, <2>2 DEF RunMoves, MayAwait
    <2> QED
        BY <1>3, <2>1, <2>3
<1>4. CASE r \in Workers \/ ~success
    <2>1. \E x \in {Idle, Answered} : run' = [run EXCEPT ![r] = x]
        BY <1>4 DEF Return
    <2> QED
        BY <1>2, <2>1, IdleFacts
<1> QED
    BY <1>3, <1>4

(* What a run may do, x being its state afterwards: begin, return or be    *)
(* stopped, fetch the output, ask for a transition once or again, go on to *)
(* the next stage, or finish.                                              *)
Starts(r, x) == /\ run[r].phase = "idle" /\ x.phase = "work" /\ x.stage = "queued"
                /\ r \notin Workers => meta[x.job] # NoFormat /\ x.format = meta[x.job]
                /\ x.format = MP4 \/ (meta[x.job] # NoFormat /\ x.format = meta[x.job])
                /\ \/ x.msg = NoMsg
                   \/ r \in Workers /\ x.msg \in 1..Len(msgs) /\ x.job = msgs[x.msg]
                /\ UNCHANGED server

Stops(r, x) == /\ x.phase \in {"idle", "done", "missing"} /\ x.stage = "queued"
               /\ \/ MayFail \/ run[r].phase = "fetch"
                  \/ run[r].phase = "work" /\ run[r].stage = "queued"
                  \/ /\ Waiting(r) /\ ~Api!Busy(run[r].slot)
                     /\ Answer(r) = "ok" => run[r].phase = "reporting" \/ run[r].stage = "uploading"
               /\ UNCHANGED server

Fetches(r, x) == /\ run[r].phase = "idle" /\ x.phase = "fetch" /\ x.stage = "queued"
                 /\ UNCHANGED server

SameWork(r, x) == x.job = run[r].job /\ x.format = run[r].format /\ x.msg = run[r].msg

Asks(r, x, to) == /\ run[r].phase = "work" /\ SameWork(r, x) /\ x.stage = run[r].stage
                  /\ x.slot \in Calls \ Awaited
                  /\ Api!Begin(x.slot, x.job, <<x.stage, to>>)

AsksAdvance(r, x) == /\ x.phase = "advancing" /\ Asks(r, x, Advance[x.stage]) /\ Ready(r)
                     /\ run[r].stage = "uploading" => Uploads(r)

AsksFailed(r, x) == x.phase = "reporting" /\ Asks(r, x, "failed") /\ x.stage # "queued"

AsksAgain(r, x) == /\ Waiting(r) /\ Answer(r) = "error"
                   /\ SameWork(r, x) /\ x.phase = run[r].phase
                   /\ x.stage = run[r].stage /\ x.slot = run[r].slot
                   /\ Api!Begin(x.slot, x.job,
                                <<x.stage, IF x.phase = "advancing" THEN Advance[x.stage]
                                           ELSE "failed">>)

GoesOn(r, x) == /\ run[r].phase = "advancing" /\ Answer(r) = "ok"
                /\ SameWork(r, x) /\ x.phase = "work" /\ x.slot = NoCall
                /\ x.stage = Advance[run[r].stage]
                /\ UNCHANGED server

Finishes(r, x) == /\ run[r].phase = "advancing" /\ Answer(r) = "ok" /\ r \notin Workers
                  /\ SameWork(r, x) /\ x.phase = "fetch" /\ x.stage = run[r].stage
                  /\ run[r].stage = "uploading"
                  /\ UNCHANGED server

RunDoes(r, x) == /\ RunMoves(r, x)
                 /\ \/ Starts(r, x) \/ Stops(r, x) \/ Fetches(r, x) \/ AsksAdvance(r, x)
                    \/ AsksFailed(r, x) \/ AsksAgain(r, x) \/ GoesOn(r, x) \/ Finishes(r, x)

RunAction(r) == \/ \E m \in 1..MaxMsgs : r \in Workers /\ TakeMessage(r, m)
                \/ r \in Downloads /\ (FetchOutput(r) \/ \E j \in Jobs : DownloadOutputVideo(r, j))
                \/ TranscodeVideo(r) \/ NoProfile(r) \/ TimesOut(r) \/ Crash(r)

LEMMA RunCases ==
    ASSUME Inv, NEW r \in Runs, RunAction(r)
    PROVE  \E x : RunDoes(r, x)
<1>1. run[r] \in RunStates /\ GoodRun(run[r]) /\ run \in [Runs -> RunStates]
    BY DEF Inv, RunsOK
<1>2. ASSUME NEW x \in {Idle, Answered, Missing}, run' = [run EXCEPT ![r] = x], UNCHANGED api,
             Stops(r, Idle)
      PROVE  RunDoes(r, x)
    BY <1>2, IdleFacts DEF RunDoes, RunMoves, MayAwait, Stops
<1>3. ASSUME NEW m \in 1..MaxMsgs, r \in Workers, TakeMessage(r, m) PROVE \E x : RunDoes(r, x)
    <2>1. m \in 0..Len(msgs) /\ m \in 1..Len(msgs) /\ msgs[m] \in Jobs /\ MP4 \in Formats
        BY <1>3, PipelineAssumption DEF TakeMessage, Inv, QueueOK
    <2>2. run[r].phase = "idle" /\ Start(r, msgs[m], MP4, m) /\ UNCHANGED <<api, server>>
        BY <1>3 DEF TakeMessage
    <2> QED
        BY <1>3, <2>1, <2>2, StartFacts DEF RunDoes, Starts
<1>4. ASSUME NEW j \in Jobs, DownloadOutputVideo(r, j) PROVE \E x : RunDoes(r, x)
    <2>1. run[r].phase = "idle" /\ UNCHANGED <<api, server>>
        BY <1>4 DEF DownloadOutputVideo
    <2>2. ASSUME meta[j] # NoFormat, Start(r, j, meta[j], NoMsg) PROVE \E x : RunDoes(r, x)
        <3>1. meta[j] \in Formats /\ NoMsg \in 0..Len(msgs)
            BY <2>2 DEF Inv, StorageOK, QueueOK, NoMsg
        <3> QED
            BY <2>1, <2>2, <3>1, StartFacts DEF RunDoes, Starts
    <2>3. ASSUME run' = [run EXCEPT ![r] = [Idle EXCEPT !.phase = "fetch", !.job = j]]
          PROVE  \E x : RunDoes(r, x)
        <3> DEFINE x == [Idle EXCEPT !.phase = "fetch", !.job = j]
        <3>1. x \in RunStates /\ x.phase = "fetch" /\ x.job = j /\ x.stage = "queued"
              /\ x.slot = NoCall /\ x.msg = Idle.msg
            BY IdleFacts DEF RunStates, Idle
        <3>2. GoodRun(x)
            BY <3>1, IdleFacts DEF GoodRun
        <3>4. run' = [run EXCEPT ![r] = x]
            BY <2>3
        <3> HIDE DEF x
        <3>3. RunMoves(r, x) /\ Fetches(r, x)
            BY <2>1, <3>1, <3>2, <3>4 DEF RunMoves, MayAwait, Fetches
        <3> QED
            BY <3>3 DEF RunDoes
    <2> QED
        BY <1>4, <2>2, <2>3 DEF DownloadOutputVideo
<1>5. ASSUME FetchOutput(r) PROVE \E x : RunDoes(r, x)
    <2>1. Stops(r, Idle)
        BY <1>5, IdleFacts DEF FetchOutput, Stops
    <2>2. (\E x \in {Answered, Missing} : run' = [run EXCEPT ![r] = x]) /\ UNCHANGED api
        BY <1>5 DEF FetchOutput, Get
    <2> QED
        BY <1>2, <2>1, <2>2
<1>6. ASSUME Work(r) PROVE \E x : RunDoes(r, x)
    <2>1. run[r].phase = "work" /\ transitionStatus(r, Advance[run[r].stage], "advancing")
          /\ UNCHANGED api /\ Ready(r) /\ (run[r].stage = "uploading" => Uploads(r))
        BY <1>6 DEF Work
    <2>2. PICK c, x :
              /\ c \in Calls \ Awaited /\ Api!Begin(c, run[r].job, <<run[r].stage, Advance[run[r].stage]>>)
              /\ RunMoves(r, x) /\ x.phase = "advancing" /\ x.job = run[r].job
              /\ x.stage = run[r].stage /\ x.format = run[r].format
              /\ x.msg = run[r].msg /\ x.slot = c
        BY <2>1, TransitionMoves
    <2>3. AsksAdvance(r, x)
        BY <2>1, <2>2 DEF AsksAdvance, Asks, SameWork
    <2> QED
        BY <2>2, <2>3 DEF RunDoes
<1>7. ASSUME WorkFails(r) PROVE \E x : RunDoes(r, x)
    <2>1. run[r].phase = "work" /\ transitionStatus(r, "failed", "reporting") /\ UNCHANGED api
          /\ run[r].stage # "queued"
        BY <1>7 DEF WorkFails
    <2>2. PICK c, x :
              /\ c \in Calls \ Awaited /\ Api!Begin(c, run[r].job, <<run[r].stage, "failed">>)
              /\ RunMoves(r, x) /\ x.phase = "reporting" /\ x.job = run[r].job
              /\ x.stage = run[r].stage /\ x.format = run[r].format
              /\ x.msg = run[r].msg /\ x.slot = c
        BY <2>1, TransitionMoves
    <2>3. AsksFailed(r, x)
        BY <2>1, <2>2 DEF AsksFailed, Asks, SameWork
    <2> QED
        BY <2>2, <2>3 DEF RunDoes
<1>8. ASSUME Advanced(r) PROVE \E x : RunDoes(r, x)
    <2>1. run[r].phase = "advancing" /\ Answer(r) = "ok" /\ UNCHANGED <<api, server>>
        BY <1>8 DEF Advanced
    <2>2. CASE Advance[run[r].stage] = "completed"
        <3>1. run[r].stage = "uploading"
            BY <1>1, <2>2 DEF RunStates, Advance
        <3>2. Return(r, TRUE)
            BY <1>8, <2>2 DEF Advanced
        <3>3. Stops(r, Idle)
            BY <2>1, <3>1, IdleFacts DEF Stops, Waiting, Api!Busy, Answer, Idle
        <3>4. PICK x : /\ RunMoves(r, x)
                       /\ \/ x.phase \in {"idle", "done", "missing"} /\ x.stage = "queued"
                          \/ /\ r \notin Workers /\ x.phase = "fetch" /\ x.job = run[r].job
                             /\ x.stage = run[r].stage /\ x.format = run[r].format
                             /\ x.msg = run[r].msg
            BY <2>1, <3>2, ReturnMoves
        <3> QED
            BY <2>1, <3>1, <3>3, <3>4 DEF RunDoes, Stops, Finishes, SameWork
    <2>3. CASE Advance[run[r].stage] # "completed"
        <3> DEFINE x == [run[r] EXCEPT !.phase = "work", !.stage = Advance[run[r].stage],
                                       !.slot = NoCall]
        <3>1. Advance[run[r].stage] \in DOMAIN Advance \ {"pending"}
            BY <1>1, <2>3 DEF RunStates, Advance
        <3>2. /\ x.phase = "work" /\ x.stage = Advance[run[r].stage] /\ x.slot = NoCall
              /\ x.job = run[r].job /\ x.format = run[r].format /\ x.msg = run[r].msg
            BY <1>1 DEF RunStates
        <3>3. x \in RunStates
            BY <1>1, <3>1 DEF RunStates
        <3>4. GoodRun(x)
            BY <1>1, <2>1, <3>1, <3>2 DEF GoodRun
        <3>5. run' = [run EXCEPT ![r] = x]
            BY <1>1, <1>8, <2>3 DEF Advanced
        <3> HIDE DEF x
        <3>6. RunMoves(r, x) /\ GoesOn(r, x)
            BY <2>1, <3>2, <3>3, <3>4, <3>5 DEF RunMoves, MayAwait, GoesOn, SameWork
        <3> QED
            BY <3>6 DEF RunDoes
    <2> QED
        BY <2>2, <2>3
<1>9. ASSUME Retry(r) PROVE \E x : RunDoes(r, x)
    <2> DEFINE x == [run[r] EXCEPT !.tries = @ + 1]
    <2>1. Waiting(r) /\ Answer(r) = "error" /\ run[r].tries < MaxRetries /\ UNCHANGED api
        BY <1>9 DEF Retry, MayRetry
    <2>2. SameWork(r, x) /\ x.phase = run[r].phase /\ x.stage = run[r].stage
          /\ x.slot = run[r].slot /\ x.msg = run[r].msg
        BY <1>1 DEF RunStates, SameWork
    <2>3. x \in RunStates
        <3>1. run[r].tries + 1 \in 0..MaxRetries
            BY <1>1, <2>1, NatBounds DEF RunStates
        <3> QED
            BY <1>1, <3>1 DEF RunStates
    <2>4. GoodRun(x)
        BY <1>1, <2>2 DEF GoodRun, SameWork
    <2>5. run' = [run EXCEPT ![r] = x]
        BY <1>1, <1>9 DEF Retry
    <2>6. Api!Begin(run[r].slot, run[r].job,
                    <<run[r].stage, IF run[r].phase = "advancing" THEN Advance[run[r].stage]
                                    ELSE "failed">>)
        BY <1>9 DEF Retry
    <2> HIDE DEF x
    <2>7. RunMoves(r, x) /\ AsksAgain(r, x)
        BY <2>1, <2>2, <2>3, <2>4, <2>5, <2>6 DEF RunMoves, MayAwait, AsksAgain, SameWork
    <2> QED
        BY <2>7 DEF RunDoes
<1>10. ASSUME Return(r, FALSE), run[r].phase \in {"work", "advancing", "reporting"},
              UNCHANGED api, Stops(r, Idle)
       PROVE  \E x : RunDoes(r, x)
    BY <1>2, <1>10, IdleFacts DEF Return
<1>11. CASE Refused(r)
    <2>1. Stops(r, Idle)
        BY <1>11, IdleFacts DEF Refused, Stops
    <2> QED
        BY <1>10, <1>11, <2>1 DEF Refused, Waiting
<1>12. CASE NoProfile(r) \/ TimesOut(r)
    <2>1. Stops(r, Idle)
        BY <1>12, IdleFacts DEF NoProfile, TimesOut, Stops
    <2> QED
        BY <1>10, <1>12, <2>1 DEF NoProfile, TimesOut, Waiting
<1>13. CASE Crash(r)
    <2>1. Stops(r, Idle)
        BY <1>13, IdleFacts DEF Crash, Stops
    <2>2. \E x \in {Idle, Answered} : run' = [run EXCEPT ![r] = x]
        BY <1>13 DEF Crash
    <2> QED
        BY <1>2, <1>13, <2>1, <2>2 DEF Crash
<1> QED
    BY <1>3, <1>4, <1>5, <1>6, <1>7, <1>8, <1>9, <1>11, <1>12, <1>13 DEF RunAction, TranscodeVideo

LEMMA ProcessCases ==
    ASSUME [Next]_vars
    PROVE  \/ UNCHANGED <<api, run>>
           \/ \E h \in Handlers : (\E j \in Jobs : Request(h, j)) \/ HandlerStep(h)
           \/ \E r \in Runs : RunAction(r)
BY DEF Next, vars, RunAction, Runs, Serve, ServeFails, cancelJob, PutSource, Stale, Ack

LEMMA MoveCases ==
    ASSUME Inv, [Next]_vars
    PROVE  \/ UNCHANGED <<api, run>>
           \/ \E h \in Handlers : \E x : HandlerMoves(h, x)
           \/ \E r \in Runs : \E x : RunDoes(r, x)
BY ProcessCases, HandlerCases, RunCases

LEMMA ProcessesStep == Inv /\ [Next]_vars => HandlersOK' /\ RunsOK' /\ SlotsOK'
<1> SUFFICES ASSUME Inv, [Next]_vars PROVE HandlersOK' /\ RunsOK' /\ SlotsOK'
    OBVIOUS
<1>1. HandlersOK /\ RunsOK /\ SlotsOK
    BY DEF Inv
<1>2. ASSUME NEW x \in RunStates, GoodRun(x) PROVE GoodRun(x)'
    <2>1. Len(msgs) \in Nat /\ Len(msgs') \in Nat /\ Len(msgs) <= Len(msgs')
        BY QueueStep DEF Inv, QueueOK
    <2>2. x.msg \in Nat
        BY NatBounds DEF RunStates
    <2>3. x.msg <= Len(msgs')
        BY <1>2, <2>1, <2>2 DEF GoodRun
    <2> QED
        BY <1>2, <2>3 DEF GoodRun
<1>3. CASE UNCHANGED <<api, run>>
    BY <1>1, <1>2, <1>3 DEF HandlersOK, RunsOK, SlotsOK
<1>4. ASSUME NEW h \in Handlers, NEW x, HandlerMoves(h, x)
      PROVE  HandlersOK' /\ RunsOK' /\ SlotsOK'
    <2>1. HandlersOK' /\ RunsOK'
        BY <1>1, <1>2, <1>4 DEF HandlerMoves, HandlersOK, RunsOK
    <2>2. \A r \in Runs : run[r].slot = x.slot => run[r].slot = NoCall
        BY <1>1, <1>4 DEF HandlerMoves, MayAwait, SlotsOK, Awaited
    <2> QED
        BY <1>1, <1>4, <2>1, <2>2 DEF HandlerMoves, HandlersOK, SlotsOK
<1>5. ASSUME NEW r \in Runs, NEW x, RunMoves(r, x) PROVE HandlersOK' /\ RunsOK' /\ SlotsOK'
    <2>1. HandlersOK' /\ RunsOK'
        BY <1>1, <1>2, <1>5 DEF RunMoves, HandlersOK, RunsOK
    <2>2. \A s \in Runs \ {r} : run[s].slot = x.slot => x.slot = NoCall
        BY <1>1, <1>5 DEF RunMoves, MayAwait, SlotsOK, Awaited
    <2>3. \A h \in Handlers : api[h].slot = x.slot => x.slot = NoCall
        BY <1>1, <1>5 DEF RunMoves, MayAwait, SlotsOK, Awaited
    <2>4. run'[r] = x /\ \A s \in Runs \ {r} : run'[s] = run[s]
        BY <1>1, <1>5 DEF RunMoves, RunsOK
    <2>5. UNCHANGED api
        BY <1>5 DEF RunMoves
    <2>6. SlotsOK'
        BY <1>1, <2>2, <2>3, <2>4, <2>5 DEF SlotsOK
    <2> QED
        BY <2>1, <2>6
<1> QED
    BY <1>3, <1>4, <1>5, MoveCases DEF RunDoes

LEMMA InvStep == Inv /\ [Next]_vars => Inv'
BY ApiTypeStep, ApiStep, StorageStep, QueueStep, CountsStep, ProcessesStep DEF Inv

(* Whatever the bounds and however many processes there are, the variables *)
(* keep their types and no two processes ever await the same call.         *)
THEOREM TypeCorrect == Spec => []TypeOK
BY InvInit, InvStep, InvType, PTL DEF Spec

-----------------------------------------------------------------------------
LEMMA BeginFacts ==
    ASSUME Inv, NEW c \in Calls, NEW j, NEW q, Api!Begin(c, j, q)
    PROVE  /\ ~Api!Busy(c) /\ Api!Busy(c)' /\ call'[c].job = j /\ call'[c].req = q
           /\ \A d \in Calls \ {c} : call'[d] = call[d]
           /\ UNCHANGED <<status, seen>>
BY DEF Api!Begin, Api!Busy, Inv, Api!TypeOK

(* Who begins a call: a user, a handler or a run; a run, and nobody else,   *)
(* may do so on a call that is awaited.                                     *)
RunAsks(r, x, j, q) ==
    /\ RunDoes(r, x) /\ (AsksAdvance(r, x) \/ AsksFailed(r, x) \/ AsksAgain(r, x))
    /\ j = x.job /\ x.phase \in {"advancing", "reporting"}
    /\ q = <<x.stage, IF x.phase = "advancing" THEN Advance[x.stage] ELSE "failed">>

LEMMA BeganBy ==
    ASSUME Inv, [Next]_vars, NEW c \in Calls, NEW j, NEW q, Api!Begin(c, j, q)
    PROVE  \/ c \notin Awaited /\ q[2] = "cancelled"
           \/ /\ c \notin Awaited /\ q[2] = "queued"
              /\ \E h \in Handlers : /\ api[h].pc = "enqueue" /\ AddMessage(h) /\ ToQueued(h)
                                    /\ j = api[h].job
           \/ \E r \in Runs : \E x : RunAsks(r, x, j, q) /\ x.slot = c
<1>1. /\ call'[c].job = j /\ call'[c].req = q /\ Api!Busy(c)' /\ ~Api!Busy(c)
      /\ \A d \in Calls \ {c} : call'[d] = call[d]
    BY BeginFacts
<1>2. ASSUME NEW d \in Calls, NEW k, NEW u, Api!Begin(d, k, u) PROVE d = c /\ k = j /\ u = q
    <2>1. ~Api!Busy(d) /\ Api!Busy(d)' /\ call'[d].job = k /\ call'[d].req = u
        BY <1>2, BeginFacts
    <2>2. d = c
        BY <1>1, <2>1 DEF Api!Busy
    <2> QED
        BY <1>1, <2>1, <2>2
<1>3. ASSUME NEW k \in Jobs, cancelJob(k) PROVE c \notin Awaited /\ q[2] = "cancelled"
    BY <1>2, <1>3 DEF cancelJob
<1>4. ASSUME NEW h \in Handlers, Enqueue(h)
      PROVE  /\ c \notin Awaited /\ q[2] = "queued"
             /\ api[h].pc = "enqueue" /\ AddMessage(h) /\ ToQueued(h) /\ j = api[h].job
    <2>1. api[h].pc = "enqueue" /\ AddMessage(h) /\ ToQueued(h)
        BY <1>1, <1>4 DEF Enqueue, server, Api!Busy
    <2>2. c \notin Awaited /\ q[2] = "queued" /\ j = api[h].job
        BY <1>2, <2>1 DEF ToQueued
    <2> QED
        BY <2>1, <2>2
<1>5. ASSUME NEW r \in Runs, NEW x, RunDoes(r, x) PROVE RunAsks(r, x, j, q) /\ x.slot = c
    <2>1. run[r] \in RunStates /\ GoodRun(run[r])
        BY DEF Inv, RunsOK
    <2>2. CASE AsksAdvance(r, x)
        BY <1>2, <1>5, <2>2 DEF AsksAdvance, Asks, RunAsks
    <2>3. CASE AsksFailed(r, x)
        BY <1>2, <1>5, <2>3 DEF AsksFailed, Asks, RunAsks
    <2>4. CASE AsksAgain(r, x)
        BY <1>2, <1>5, <2>1, <2>4 DEF AsksAgain, RunAsks, Waiting, GoodRun
    <2>5. CASE UNCHANGED server
        BY <1>1, <2>5 DEF server, Api!Busy
    <2> QED
        BY <1>5, <2>2, <2>3, <2>4, <2>5 DEF RunDoes, Starts, Stops, Fetches, GoesOn, Finishes
<1>6. (\E k \in Jobs : cancelJob(k)) \/ (\E h \in Handlers : Enqueue(h))
      \/ \E r \in Runs : RunAction(r)
    <2>1. Next /\ ~UNCHANGED server
        BY <1>1 DEF vars, server, Api!Busy
    <2>2. ASSUME NEW d \in Calls PROVE ~(Serve(d) \/ ServeFails(d))
        <3>1. SUFFICES ASSUME Api!Read(d) \/ Api!Write(d) \/ Api!Fail(d) PROVE FALSE
            BY DEF Serve, ServeFails
        <3>2. Api!Busy(d) /\ \A e \in Calls \ {d} : call'[e] = call[e]
            BY <3>1 DEF Api!Read, Api!Write, Api!Fail, Api!Answer, Api!Busy, Inv, Api!TypeOK
        <3> QED
            BY <1>1, <3>2 DEF Api!Busy
    <2>3. ASSUME NEW r \in Runs, Work(r) \/ WorkFails(r) \/ Retry(r) PROVE RunAction(r)
        BY <2>3 DEF RunAction, TranscodeVideo
    <2> QED
        BY <2>1, <2>2, <2>3, ServerCases
<1> QED
    BY <1>3, <1>4, <1>5, <1>6, RunCases

-----------------------------------------------------------------------------
(* What must be so before job j may have status s.  A call that asks for s *)
(* is only made when it is so, and what is so remains so: whenever the call*)
(* writes, long after its caller gave up on it perhaps, the status is due. *)
Due(j, s) ==
    /\ s = "queued" => meta[j] # NoFormat /\ \E m \in 1..Len(msgs) : msgs[m] = j
    /\ s = "processing" => j \in source
    /\ s = "completed" => outputs[j] # {}

AllDue ==
    /\ \A j \in Jobs : \A s \in seen[j] : Due(j, s)
    /\ \A c \in Calls : Api!Busy(c) => Due(call[c].job, call[c].req[2])
    /\ \A h \in Handlers : api[h].pc = "enqueue" => meta[api[h].job] # NoFormat
    /\ \A r \in Runs : run[r].phase = "advancing" => Due(run[r].job, Advance[run[r].stage])

LEMMA DueStays ==
    ASSUME Inv, [Next]_vars, NEW j \in Jobs
    PROVE  /\ meta[j] # NoFormat => meta'[j] = meta[j]
           /\ outputs[j] \subseteq outputs'[j]
           /\ \A s : Due(j, s) => Due(j, s)'
<1>1. StorageOK /\ QueueOK
    BY DEF Inv
<1>2. meta[j] # NoFormat => meta'[j] = meta[j]
    <2>1. ASSUME NEW h \in Handlers, CreateVideoMeta(h) PROVE meta[j] # NoFormat => meta'[j] = meta[j]
        BY <1>1, <2>1 DEF CreateVideoMeta, StorageOK
    <2>2. UNCHANGED meta \/ \E h \in Handlers : CreateVideoMeta(h)
        BY DEF Next, vars, storage, HandlerStep, TranscodeVideo, Serve, ServeFails, cancelJob,
           Request, CompleteMultipartUpload, PutSource, Enqueue, Respond, TakeMessage,
           FetchOutput, DownloadOutputVideo, Work, WorkFails, Advanced, Retry, Refused,
           NoProfile, TimesOut, Crash, Stale, Ack
    <2> QED
        BY <2>1, <2>2
<1>3. source \subseteq source'
    BY DEF Next, vars, storage, HandlerStep, TranscodeVideo, Serve, ServeFails, cancelJob,
       Request, CompleteMultipartUpload, CreateVideoMeta, PutSource, Enqueue, Respond,
       TakeMessage, FetchOutput, DownloadOutputVideo, Work, WorkFails, Advanced, Retry,
       Refused, NoProfile, TimesOut, Crash, Stale, Ack
<1>4. outputs[j] \subseteq outputs'[j]
    <2>1. ASSUME NEW r \in Runs, Uploads(r) PROVE outputs[j] \subseteq outputs'[j]
        BY <1>1, <2>1 DEF Uploads, StorageOK
    <2>2. UNCHANGED outputs \/ \E r \in Runs : Uploads(r)
        BY DEF Next, vars, storage, HandlerStep, TranscodeVideo, Serve, ServeFails, cancelJob,
           Request, CompleteMultipartUpload, CreateVideoMeta, PutSource, Enqueue, Respond,
           TakeMessage, FetchOutput, DownloadOutputVideo, Work, WorkFails, Advanced, Retry,
           Refused, NoProfile, TimesOut, Crash, Stale, Ack
    <2> QED
        BY <2>1, <2>2
<1>5. \A m \in 1..Len(msgs) : m \in 1..Len(msgs') /\ msgs'[m] = msgs[m]
    <2>1. Len(msgs) \in Nat /\ Len(msgs') \in Nat /\ Len(msgs) <= Len(msgs')
        BY <1>1, QueueStep DEF QueueOK
    <2>2. UNCHANGED msgs \/ \E h \in Handlers : api[h].pc = "enqueue" /\ AddMessage(h)
        BY QueueCases DEF queue
    <2> QED
        BY <2>1, <2>2, AddFacts
<1> QED
    BY <1>2, <1>3, <1>4, <1>5 DEF Due

(* Whoever begins a call asks for a status that is due.                    *)
LEMMA AskedIsDue ==
    ASSUME Inv, AllDue, [Next]_vars, NEW c \in Calls, NEW j, NEW q, Api!Begin(c, j, q)
    PROVE  j \in Jobs /\ Due(j, q[2])'
<1>1. Inv' /\ QueueOK
    BY InvStep DEF Inv
<1>2. j \in Jobs
    BY <1>1, BeginFacts DEF Inv, Api!TypeOK, Api!Busy, Api!Active, Api!Answers
<1>3. ASSUME NEW s \in {"cancelled", "failed"} PROVE Due(j, s)'
    BY <1>3 DEF Due
<1>4. ASSUME NEW h \in Handlers, api[h].pc = "enqueue", AddMessage(h), j = api[h].job
      PROVE  Due(j, "queued")'
    <2>1. meta'[j] # NoFormat
        BY <1>2, <1>4, DueStays DEF AllDue
    <2>2. Len(msgs) + 1 \in 1..Len(msgs') /\ msgs'[Len(msgs) + 1] = j
        BY <1>1, <1>4, AddFacts DEF QueueOK
    <2> QED
        BY <2>1, <2>2 DEF Due
<1>5. ASSUME NEW r \in Runs, NEW x, RunAsks(r, x, j, q) PROVE Due(j, q[2])'
    <2>1. run[r] \in RunStates /\ GoodRun(run[r])
        BY DEF Inv, RunsOK
    <2>2. CASE AsksFailed(r, x)
        BY <1>3, <1>5, <2>2 DEF AsksFailed, RunAsks
    <2>3. CASE AsksAdvance(r, x)
        <3>1. /\ j = run[r].job /\ q[2] = Advance[run[r].stage]
              /\ run[r].stage \in DOMAIN Advance \ {"pending"}
              /\ run[r].stage = "downloading" => j \in source
              /\ run[r].stage = "uploading" => Uploads(r) /\ run[r].format \in Formats
            BY <1>5, <2>1, <2>3
            DEF AsksAdvance, Asks, SameWork, Ready, RunStates, GoodRun, RunAsks
        <3>2. run[r].stage = "uploading" => outputs'[j] # {}
            BY <1>2, <3>1 DEF Uploads, Inv, StorageOK
        <3>3. run[r].stage = "downloading" => j \in source'
            BY <1>2, <3>1, DueStays DEF Due
        <3> QED
            BY <3>1, <3>2, <3>3 DEF Due, Advance
    <2>4. CASE AsksAgain(r, x)
        <3>1. /\ run[r].phase \in {"advancing", "reporting"} /\ j = run[r].job
              /\ q[2] = IF run[r].phase = "advancing" THEN Advance[run[r].stage] ELSE "failed"
            BY <1>5, <2>4 DEF AsksAgain, SameWork, RunAsks
        <3>2. run[r].phase = "advancing" => Due(j, q[2])
            BY <3>1 DEF AllDue
        <3> QED
            BY <1>2, <1>3, <3>1, <3>2, DueStays
    <2> QED
        BY <1>5, <2>2, <2>3, <2>4 DEF RunAsks
<1> QED
    BY <1>2, <1>3, <1>4, <1>5, BeganBy

(* A call goes on with the job and the statuses it was asked for.          *)
LEMMA CallCases ==
    ASSUME Inv, [Next]_vars
    PROVE  \/ UNCHANGED <<status, call, seen>>
           \/ \E c \in Calls : \E j, q : Api!Begin(c, j, q)
           \/ \E c \in Calls :
                 /\ Api!Busy(c) /\ \A d \in Calls \ {c} : call'[d] = call[d]
                 /\ Api!Busy(c)' => call'[c].job = call[c].job /\ call'[c].req = call[c].req
                 /\ \/ UNCHANGED <<status, seen>> /\ ~Api!Write(c)
                    \/ /\ Api!Write(c) /\ ~Api!Busy(c)' /\ call[c].job \in Jobs
                       /\ seen' = [seen EXCEPT ![call[c].job] = @ \cup {call[c].req[2]}]
<1>1. call \in [Calls -> Api!Active \cup [pc : Api!Answers]] /\ seen \in [Jobs -> SUBSET Status]
    BY DEF Inv, Api!TypeOK, Api!Status, Status
<1>2. ASSUME NEW c \in Calls, Api!Busy(c) PROVE call[c] \in Api!Active /\ call[c].job \in Jobs
    BY <1>1, <1>2 DEF Api!Busy, Api!Active, Api!Answers
<1>3. ASSUME NEW c \in Calls, Api!Busy(c), NEW a \in {"ok", "stale", "invalid", "error"},
             Api!Answer(c, a)
      PROVE  ~Api!Busy(c)' /\ \A d \in Calls \ {c} : call'[d] = call[d]
    BY <1>1, <1>3 DEF Api!Answer, Api!Busy
<1>4. ASSUME NEW c \in Calls, Api!Busy(c), call' = [call EXCEPT ![c].pc = "write"]
      PROVE  /\ \A d \in Calls \ {c} : call'[d] = call[d]
             /\ call'[c].job = call[c].job /\ call'[c].req = call[c].req
    BY <1>1, <1>2, <1>4 DEF Api!Active
<1>5. ASSUME NEW c \in Calls, Api!Read(c) \/ Api!Fail(c)
      PROVE  /\ Api!Busy(c) /\ \A d \in Calls \ {c} : call'[d] = call[d]
             /\ Api!Busy(c)' => call'[c].job = call[c].job /\ call'[c].req = call[c].req
             /\ UNCHANGED <<status, seen>>
    <2>1. Api!Busy(c)
        BY <1>5 DEF Api!Read, Api!Fail, Api!Busy
    <2> QED
        BY <1>3, <1>4, <1>5, <2>1 DEF Api!Read, Api!Fail
<1>6. ASSUME NEW c \in Calls, Api!Write(c)
      PROVE  /\ Api!Busy(c) /\ \A d \in Calls \ {c} : call'[d] = call[d]
             /\ ~Api!Busy(c)' /\ call[c].job \in Jobs
             /\ seen' = [seen EXCEPT ![call[c].job] = @ \cup {call[c].req[2]}]
    <2>1. Api!Busy(c)
        BY <1>6 DEF Api!Write, Api!Busy
    <2> QED
        BY <1>2, <1>3, <1>6, <2>1 DEF Api!Write
<1> QED
    BY <1>5, <1>6, ApiStep DEF Api!Next, Api!vars

(* The handlers get to "enqueue" by CreateVideoMeta only, one for each job.*)
MetaMade(h) == /\ meta[api[h].job] = NoFormat /\ meta'[api[h].job] # NoFormat
               /\ UNCHANGED server /\ \A g \in Handlers \ {h} : api'[g] = api[g]

LEMMA EnqueueCases ==
    ASSUME Inv, [Next]_vars, NEW h \in Handlers, api'[h].pc = "enqueue"
    PROVE  api'[h].job = api[h].job /\ (api[h].pc = "enqueue" \/ MetaMade(h))
<1>1. api \in [Handlers -> HandlerStates] /\ StorageOK
    BY DEF Inv, HandlersOK
<1>2. ASSUME NEW g \in Handlers, \E j \in Jobs : Request(g, j) PROVE api'[h] = api[h]
    BY <1>1, <1>2 DEF Request, HandlerStates
<1>3. ASSUME NEW g \in Handlers, CompleteMultipartUpload(g) \/ Respond(g) PROVE api'[h] = api[h]
    BY <1>1, <1>3 DEF CompleteMultipartUpload, Respond, HandlerGoes, HandlerFails, HandlerStates
<1>4. ASSUME NEW g \in Handlers, Enqueue(g) PROVE api'[h] = api[h]
    BY <1>1, <1>4 DEF Enqueue, ToQueued, HandlerFails, HandlerStates
<1>5. ASSUME NEW g \in Handlers, CreateVideoMeta(g)
      PROVE  api'[h].job = api[h].job /\ (api[h].pc = "enqueue" \/ MetaMade(h))
    <2>1. CASE g # h
        BY <1>1, <1>5, <2>1 DEF CreateVideoMeta, HandlerGoes, HandlerFails
    <2>2. CASE g = h
        <3>1. api[h].job \in Jobs
            BY <1>5, <2>2 DEF CreateVideoMeta, Inv, HandlersOK, GoodHandler
        <3>2. ~HandlerFails(h)
            <4> DEFINE x == [api[h] EXCEPT !.pc = "failed", !.slot = NoCall]
            <4>1. x.pc = "failed"
                BY <1>1 DEF HandlerStates
            <4>2. HandlerFails(h) => api' = [api EXCEPT ![h] = x]
                BY <1>1 DEF HandlerFails
            <4> QED
                BY <1>1, <4>1, <4>2
        <3>3. /\ HandlerGoes(h, "enqueue") /\ meta[api[h].job] = NoFormat /\ UNCHANGED server
              /\ \E f \in Formats : meta' = [meta EXCEPT ![api[h].job] = f]
            BY <1>5, <2>2, <3>2 DEF CreateVideoMeta
        <3> QED
            BY <1>1, <3>1, <3>3, PipelineAssumption DEF HandlerGoes, HandlerStates, StorageOK, MetaMade
    <2> QED
        BY <2>1, <2>2
<1>6. UNCHANGED api \/ \E g \in Handlers : (\E j \in Jobs : Request(g, j)) \/ HandlerStep(g)
    BY ProcessCases, RunCases DEF RunDoes, RunMoves
<1> QED
    BY <1>2, <1>3, <1>4, <1>5, <1>6 DEF HandlerStep

LEMMA AllDueStep == Inv /\ AllDue /\ [Next]_vars => AllDue'
<1> SUFFICES ASSUME Inv, AllDue, [Next]_vars PROVE AllDue'
    OBVIOUS
<1>1. Inv'
    BY InvStep
<1>2. ASSUME NEW c \in Calls, Api!Busy(c), NEW j, NEW s, j = call[c].job, s = call[c].req[2]
      PROVE  j \in Jobs /\ Due(j, s)'
    <2>1. j \in Jobs /\ Due(j, s)
        BY <1>2 DEF AllDue, Inv, Api!TypeOK, Api!Busy, Api!Active, Api!Answers
    <2> QED
        BY <2>1, DueStays
<1>3. ASSUME NEW j \in Jobs, NEW s \in seen'[j] PROVE Due(j, s)'
    <2>1. ASSUME s \in seen[j] PROVE Due(j, s)'
        BY <2>1, DueStays DEF AllDue
    <2>2. ASSUME NEW c \in Calls, Api!Busy(c), call[c].job \in Jobs,
                 seen' = [seen EXCEPT ![call[c].job] = @ \cup {call[c].req[2]}]
          PROVE  Due(j, s)'
        <3>1. s \in seen[j] \/ (j = call[c].job /\ s = call[c].req[2])
            BY <1>3, <2>2 DEF Inv, Api!TypeOK
        <3> QED
            BY <1>2, <2>1, <2>2, <3>1
    <2>3. ASSUME UNCHANGED seen PROVE s \in seen[j]
        BY <1>3, <2>3
    <2> QED
        BY <2>1, <2>2, <2>3, CallCases, BeginFacts
<1>5. ASSUME NEW d \in Calls, Api!Busy(d)',
             NEW j, NEW s, j = call'[d].job, s = call'[d].req[2]
      PROVE  Due(j, s)'
    <2>1. ASSUME Api!Busy(d), call'[d].job = call[d].job, call'[d].req = call[d].req
          PROVE  Due(j, s)'
        BY <1>2, <1>5, <2>1
    <2>2. ASSUME NEW c \in Calls, NEW k, NEW q, Api!Begin(c, k, q) PROVE Due(j, s)'
        <3>1. CASE d = c
            BY <1>5, <2>2, <3>1, BeginFacts, AskedIsDue
        <3>2. CASE d # c
            BY <1>5, <2>1, <2>2, <3>2, BeginFacts DEF Api!Busy
        <3> QED
            BY <3>1, <3>2
    <2>3. ASSUME call'[d] = call[d] PROVE Due(j, s)'
        BY <1>5, <2>1, <2>3 DEF Api!Busy
    <2> QED
        BY <1>5, <2>1, <2>2, <2>3, CallCases
<1>6. ASSUME NEW h \in Handlers, api'[h].pc = "enqueue" PROVE meta'[api'[h].job] # NoFormat
    <2>1. api[h].pc = "enqueue" => api[h].job \in Jobs
        BY DEF Inv, HandlersOK, GoodHandler
    <2> QED
        BY <1>6, <2>1, EnqueueCases, DueStays DEF AllDue, MetaMade
<1>7. ASSUME NEW r \in Runs, run'[r].phase = "advancing",
             NEW j, NEW s, j = run'[r].job, s = Advance[run'[r].stage]
      PROVE  Due(j, s)'
    <2>1. ASSUME run[r].phase = "advancing", run'[r].job = run[r].job,
                 run'[r].stage = run[r].stage
          PROVE  Due(j, s)'
        <3>1. j \in Jobs /\ Due(j, s)
            BY <1>7, <2>1 DEF AllDue, Inv, RunsOK, GoodRun
        <3> QED
            BY <3>1, DueStays
    <2>2. ASSUME NEW x, RunDoes(r, x) PROVE Due(j, s)'
        <3>1. run'[r] = x
            BY <2>2 DEF RunDoes, RunMoves, Inv, RunsOK
        <3>2. CASE AsksAdvance(r, x)
            <4>1. x.slot \in Calls /\ Api!Begin(x.slot, j, <<x.stage, s>>)
                BY <1>7, <3>1, <3>2 DEF AsksAdvance, Asks
            <4> QED
                BY <4>1, AskedIsDue
        <3>3. CASE AsksAgain(r, x)
            BY <1>7, <2>1, <3>1, <3>3 DEF AsksAgain, SameWork
        <3> QED
            BY <1>7, <2>2, <3>1, <3>2, <3>3
            DEF RunDoes, Starts, Stops, Fetches, AsksFailed, GoesOn, Finishes
    <2>3. run'[r] = run[r] \/ \E x : RunDoes(r, x)
        BY MoveCases DEF HandlerMoves, RunDoes, RunMoves, Inv, RunsOK
    <2> QED
        BY <1>7, <2>1, <2>2, <2>3
<1> QED
    BY <1>3, <1>5, <1>6, <1>7 DEF AllDue, Due

LEMMA AllDueInvariant == Spec => [](Inv /\ AllDue)
<1>1. Init => AllDue
    BY DEF Init, Api!Init, AllDue, Due, Api!Busy, Idle
<1> QED
    BY <1>1, InvInit, InvStep, AllDueStep, PTL DEF Spec

(* A job that has been queued has a message and metadata, whichever of a   *)
(* handler's steps fail and whatever call of it writes late.               *)
THEOREM QueuedHasMessage == Spec => []QueuedWasEnqueued
<1>1. Inv /\ AllDue => QueuedWasEnqueued
    BY DEF AllDue, Due, QueuedWasEnqueued
<1> QED
    BY <1>1, AllDueInvariant, PTL

(* A job that has been processing had its source object, whoever started   *)
(* its runs.                                                               *)
THEOREM ProcessedHasSource == Spec => []ProcessedFromSource
<1>1. Inv /\ AllDue => ProcessedFromSource
    BY DEF AllDue, Due, ProcessedFromSource
<1> QED
    BY <1>1, AllDueInvariant, PTL

(* A job that has been completed has an output.                            *)
THEOREM CompletedIsUploaded == Spec => []CompletedHasOutput
<1>1. Inv /\ AllDue => CompletedHasOutput
    BY DEF AllDue, Due, CompletedHasOutput
<1> QED
    BY <1>1, AllDueInvariant, PTL

(* No job of the pipeline has skipped a stage.                             *)
InOrder == \A j \in Jobs : \A s \in seen[j] : ApiProofs!StagesBefore(s) \subseteq seen[j]

LEMMA InOrderInvariant == Spec => []InOrder
<1>1. Init => InOrder
    BY DEF Init, Api!Init, ApiProofs!StagesBefore, InOrder
<1>2. Inv /\ InOrder /\ [Next]_vars => InOrder'
    BY ApiStep, ApiStagesStep DEF Inv, InOrder
<1> QED
    BY <1>1, <1>2, InvInit, InvStep, PTL DEF Spec

(* The calls of the pipeline are calls of TransitionTo, none of which skips*)
(* a stage.  So a completed job has had everything a transcode needs and   *)
(* gives: metadata, a message in the queue, its source and an output.      *)
THEOREM CompletedHadAll ==
    Spec => [](\A j \in Jobs : "completed" \in seen[j] =>
                   /\ j \in source /\ outputs[j] # {} /\ meta[j] # NoFormat
                   /\ \E m \in 1..Len(msgs) : msgs[m] = j)
<1> DEFINE HadAll == \A j \in Jobs : "completed" \in seen[j] =>
                         /\ j \in source /\ outputs[j] # {} /\ meta[j] # NoFormat
                         /\ \E m \in 1..Len(msgs) : msgs[m] = j
<1>1. Inv /\ AllDue /\ InOrder => HadAll
    BY DEF AllDue, Due, InOrder, ApiProofs!StagesBefore
<1> HIDE DEF HadAll
<1>2. Spec => []HadAll
    BY <1>1, AllDueInvariant, InOrderInvariant, PTL
<1> QED
    BY <1>2 DEF HadAll

-----------------------------------------------------------------------------
(* A run of the RPC transcodes into the format of the metadata, which never*)
(* changes once it is there.                                               *)
DownloadsOK ==
    \A r \in Runs \ Workers :
        /\ run[r].phase \in {"work", "advancing", "reporting"} =>
              meta[run[r].job] # NoFormat /\ run[r].format = meta[run[r].job]
        /\ run[r].phase \in {"advancing", "fetch"} /\ run[r].stage = "uploading" =>
              /\ meta[run[r].job] # NoFormat
              /\ meta[run[r].job] \in outputs[run[r].job]

LEMMA DownloadsStep == Inv /\ DownloadsOK /\ [Next]_vars => DownloadsOK'
<1> SUFFICES ASSUME Inv, DownloadsOK, [Next]_vars,
                    NEW r \in Runs \ Workers, NEW j, j = run'[r].job
             PROVE  /\ run'[r].phase \in {"work", "advancing", "reporting"} =>
                          meta'[j] # NoFormat /\ run'[r].format = meta'[j]
                    /\ run'[r].phase \in {"advancing", "fetch"} /\ run'[r].stage = "uploading" =>
                          meta'[j] # NoFormat /\ meta'[j] \in outputs'[j]
    BY DEF DownloadsOK
<1>1. run'[r].phase \in {"work", "advancing", "reporting", "fetch"} => j \in Jobs
    BY InvStep DEF Inv, RunsOK, GoodRun
<1>2. j \in Jobs => /\ meta[j] # NoFormat => meta'[j] = meta[j]
                    /\ outputs[j] \subseteq outputs'[j]
    BY DueStays
<1>3. CASE run'[r] = run[r]
    BY <1>1, <1>2, <1>3 DEF DownloadsOK
<1>4. ASSUME NEW x, RunDoes(r, x)
      PROVE  /\ x.phase \in {"work", "advancing", "reporting"} =>
                   meta'[j] # NoFormat /\ x.format = meta'[j]
             /\ x.phase \in {"advancing", "fetch"} /\ x.stage = "uploading" =>
                   meta'[j] # NoFormat /\ meta'[j] \in outputs'[j]
    <2>1. run'[r] = x /\ j = x.job
        BY <1>4 DEF RunDoes, RunMoves, Inv, RunsOK
    <2>2. CASE Starts(r, x)
        BY <1>1, <1>2, <2>1, <2>2 DEF Starts
    <2>3. CASE Stops(r, x) \/ Fetches(r, x)
        BY <2>3 DEF Stops, Fetches
    <2>4. CASE AsksAdvance(r, x)
        <3>1. run[r].phase = "work" /\ x.phase = "advancing" /\ run[r].job = j
              /\ x.format = run[r].format /\ x.stage = run[r].stage
              /\ (run[r].stage = "uploading" => Uploads(r))
            BY <2>1, <2>4 DEF AsksAdvance, Asks, SameWork
        <3>2. j \in Jobs /\ meta[j] # NoFormat /\ run[r].format = meta[j] /\ meta'[j] = meta[j]
            BY <1>1, <1>2, <2>1, <3>1 DEF DownloadsOK
        <3>3. run[r].stage = "uploading" => run[r].format \in outputs'[j]
            BY <3>1, <3>2 DEF Uploads, Inv, StorageOK
        <3> QED
            BY <3>1, <3>2, <3>3
    <2>5. CASE AsksFailed(r, x)
        BY <1>1, <1>2, <2>1, <2>5 DEF AsksFailed, Asks, SameWork, DownloadsOK
    <2>6. CASE AsksAgain(r, x)
        BY <1>1, <1>2, <2>1, <2>6 DEF AsksAgain, SameWork, Waiting, DownloadsOK
    <2>7. CASE GoesOn(r, x)
        BY <1>1, <1>2, <2>1, <2>7 DEF GoesOn, SameWork, DownloadsOK
    <2>8. CASE Finishes(r, x)
        BY <1>1, <1>2, <2>1, <2>8 DEF Finishes, SameWork, DownloadsOK
    <2> QED
        BY <1>4, <2>2, <2>3, <2>4, <2>5, <2>6, <2>7, <2>8 DEF RunDoes
<1>5. run'[r] = run[r] \/ \E x : RunDoes(r, x) /\ run'[r] = x
    BY MoveCases DEF HandlerMoves, RunDoes, RunMoves, Inv, RunsOK
<1> QED
    BY <1>3, <1>4, <1>5

(* Only FetchOutput takes a run away from fetching.                        *)
LEMMA FetchCases ==
    ASSUME Inv, [Next]_vars, NEW r \in Downloads, run[r].phase = "fetch", run'[r] # run[r]
    PROVE  FetchOutput(r)
<1>1. r \in Runs
    BY DEF Runs
<1>2. ASSUME NEW s \in Runs, NEW x, RunDoes(s, x) PROVE s = r
    BY <1>1, <1>2 DEF RunDoes, RunMoves, Inv, RunsOK
<1>3. ASSUME NEW h \in Handlers, NEW x, HandlerMoves(h, x) PROVE FALSE
    BY <1>1, <1>3 DEF HandlerMoves
<1>4. RunAction(r)
    BY <1>1, <1>2, <1>3, ProcessCases, HandlerCases, RunCases
<1> QED
    BY <1>4 DEF RunAction, TakeMessage, DownloadOutputVideo, TranscodeVideo, Work, WorkFails,
                Advanced, Retry, Refused, NoProfile, TimesOut, Crash, Waiting

(* A DownloadOutputVideo whose own transcode succeeded finds its output,   *)
(* whichever other runs of the job race with it and in whatever format, but*)
(* for a failing read of metadata that name another format than MP4.       *)
THEOREM DownloadsFind == Spec => DownloadFinds
<1>1. Init => DownloadsOK
    BY DEF Init, DownloadsOK, Idle
<1>2. ASSUME Inv, DownloadsOK, [Next]_vars, NEW r \in Downloads,
             run[r].phase = "fetch", run[r].stage = "uploading", run'[r].phase = "missing"
      PROVE  faults' # faults /\ outputFormat(run[r].job) # MP4
    <2>1. /\ outputFormat(run[r].job) = meta[run[r].job]
          /\ outputFormat(run[r].job) \in outputs[run[r].job]
        BY <1>2, PipelineAssumption DEF DownloadsOK, outputFormat, Runs
    <2>2. FetchOutput(r) /\ run \in [Runs -> RunStates] /\ r \in Runs
        BY <1>2, FetchCases DEF Inv, RunsOK, Runs
    <2>3. ASSUME NEW f, Get(r, f) PROVE f \notin outputs[run[r].job]
        BY <1>2, <2>2, <2>3 DEF Get, Answered, Idle
    <2>4. run' # [run EXCEPT ![r] = Answered]
        BY <1>2, <2>2 DEF Answered, Idle
    <2>5. Get(r, MP4) /\ MayFail
        BY <2>1, <2>2, <2>3, <2>4 DEF FetchOutput
    <2>6. faults' # faults
        BY <1>2, <2>5, NatBounds DEF MayFail, Inv, CountsOK
    <2> QED
        BY <2>1, <2>3, <2>5, <2>6
<1>3. ASSUME Inv, DownloadsOK, [Next]_vars
      PROVE  [\A r \in Downloads :
                 /\ run[r].phase = "fetch" /\ run[r].stage = "uploading"
                 /\ run'[r].phase = "missing"
                 => faults' # faults /\ outputFormat(run[r].job) # MP4]_vars
    BY <1>2, <1>3
<1> QED
    BY <1>1, <1>3, InvInit, InvStep, DownloadsStep, PTL DEF Spec, DownloadFinds

-----------------------------------------------------------------------------
LEMMA RunStays ==
    ASSUME Inv, [Next]_vars, NEW r \in Runs
    PROVE  run'[r] = run[r] \/ \E x : RunDoes(r, x) /\ run'[r] = x
BY MoveCases DEF HandlerMoves, RunDoes, RunMoves, Inv, RunsOK

(* Only its run begins a call that is awaited.                             *)
LEMMA BeganByItsRun ==
    ASSUME Inv, [Next]_vars, NEW r \in Runs, run[r].slot \in Calls, NEW j, NEW q,
           Api!Begin(run[r].slot, j, q)
    PROVE  \E x : RunAsks(r, x, j, q) /\ AsksAgain(r, x) /\ run'[r] = x /\ x.slot = run[r].slot
<1>1. run[r].slot \in Awaited /\ run[r].slot # NoCall
    BY PipelineAssumption DEF Awaited
<1>2. PICK s, x : s \in Runs /\ RunAsks(s, x, j, q) /\ x.slot = run[r].slot
    BY <1>1, BeganBy
<1>3. x.slot = run[s].slot /\ run'[s] = x
    BY <1>1, <1>2 DEF RunAsks, RunDoes, RunMoves, MayAwait, Inv, RunsOK
<1>4. s = r
    BY <1>1, <1>2, <1>3 DEF Inv, SlotsOK
<1> QED
    BY <1>1, <1>2, <1>3, <1>4 DEF RunAsks, AsksAdvance, AsksFailed, Asks

(* The formats of a job: a run makes the one of the metadata or the one it *)
(* takes when it is asked for none, and so the objects have one of the two.*)
FormatsOK ==
    /\ \A j \in Jobs : outputs[j] \subseteq {MP4, meta[j]}
    /\ \A r \in Runs : run[r].phase \in {"work", "advancing", "reporting"} =>
                          run[r].format \in {MP4, meta[run[r].job]}

(* An object is made by a run at work.                                     *)
LEMMA OutputCases ==
    ASSUME [Next]_vars
    PROVE  UNCHANGED outputs \/ \E r \in Runs : run[r].phase = "work" /\ Uploads(r)
<1>1. ASSUME NEW r \in Runs, Work(r) \/ WorkFails(r)
      PROVE  UNCHANGED outputs \/ (run[r].phase = "work" /\ Uploads(r))
    BY <1>1 DEF Work, WorkFails
<1>2. UNCHANGED outputs \/ \E r \in Runs : Work(r) \/ WorkFails(r)
    BY DEF Next, vars, storage, HandlerStep, TranscodeVideo, Serve, ServeFails, cancelJob,
       Request, CompleteMultipartUpload, CreateVideoMeta, PutSource, Enqueue, Respond,
       TakeMessage, FetchOutput, DownloadOutputVideo, Advanced, Retry, Refused, NoProfile,
       TimesOut, Crash, Stale, Ack
<1> QED
    BY <1>1, <1>2

LEMMA FormatsStep == Inv /\ FormatsOK /\ [Next]_vars => FormatsOK'
<1> SUFFICES ASSUME Inv, FormatsOK, [Next]_vars PROVE FormatsOK'
    OBVIOUS
<1>1. /\ StorageOK /\ \A r \in Runs : GoodRun(run[r]) /\ GoodRun(run[r])'
      /\ run \in [Runs -> RunStates]
    BY InvStep DEF Inv, RunsOK
<1>2. ASSUME NEW j \in Jobs, NEW f \in Formats, f \in {MP4, meta[j]} PROVE f \in {MP4, meta'[j]}
    BY <1>2, DueStays, PipelineAssumption
<1>3. ASSUME NEW j \in Jobs, NEW f \in outputs'[j] PROVE f \in {MP4, meta'[j]}
    <2>1. CASE f \in outputs[j]
        BY <1>1, <1>2, <2>1 DEF FormatsOK, StorageOK
    <2>2. ASSUME NEW r \in Runs, run[r].phase = "work", Uploads(r), f \notin outputs[j]
          PROVE  f \in {MP4, meta'[j]}
        <3>1. run[r].job \in Jobs /\ run[r].format \in Formats
            BY <1>1, <2>2 DEF GoodRun
        <3>2. j = run[r].job /\ f = run[r].format
            BY <1>1, <1>3, <2>2, <3>1 DEF Uploads, StorageOK
        <3> QED
            BY <1>2, <2>2, <3>1, <3>2 DEF FormatsOK
    <2> QED
        BY <1>3, <2>1, <2>2, OutputCases
<1>4. ASSUME NEW r \in Runs, NEW x, x = run'[r], x.phase \in {"work", "advancing", "reporting"}
      PROVE  x.format \in {MP4, meta'[x.job]}
    <2>1. x.job \in Jobs /\ x.format \in Formats
        BY <1>1, <1>4 DEF GoodRun
    <2>2. SUFFICES x.format \in {MP4, meta[x.job]}
        BY <1>2, <2>1
    <2>3. ASSUME run[r].phase \in {"work", "advancing", "reporting"}, SameWork(r, x)
          PROVE  x.format \in {MP4, meta[x.job]}
        BY <2>3 DEF SameWork, FormatsOK
    <2>4. CASE run'[r] = run[r]
        BY <1>4, <2>3, <2>4 DEF SameWork
    <2>5. CASE RunDoes(r, x)
        BY <1>4, <2>3, <2>5 DEF RunDoes, Starts, Stops, Fetches, AsksAdvance, AsksFailed, Asks,
                                AsksAgain, Waiting, GoesOn, Finishes
    <2> QED
        BY <1>4, <2>4, <2>5, RunStays
<1> QED
    BY <1>3, <1>4 DEF FormatsOK

(* A job that is to have the format the workers take is downloadable once  *)
(* it has been completed, whichever of its runs completed it.              *)
THEOREM CompletedInMP4 == Spec => []MP4IsDownloadable
<1>1. Init => FormatsOK
    BY DEF Init, FormatsOK, Idle
<1>2. Inv /\ AllDue /\ FormatsOK => MP4IsDownloadable
    <2> SUFFICES ASSUME Inv, AllDue, FormatsOK, NEW j \in Jobs, "completed" \in seen[j],
                        outputFormat(j) = MP4
                 PROVE  MP4 \in outputs[j]
        BY DEF MP4IsDownloadable
    <2>1. outputs[j] # {} /\ outputs[j] \subseteq Formats
        BY DEF AllDue, Due, Inv, StorageOK
    <2>2. meta[j] \in {MP4, NoFormat} /\ outputs[j] \subseteq {MP4, meta[j]}
        BY DEF outputFormat, FormatsOK
    <2> QED
        BY <2>1, <2>2, PipelineAssumption
<1> QED
    BY <1>1, <1>2, InvStep, FormatsStep, AllDueInvariant, PTL DEF Spec

-----------------------------------------------------------------------------
(* Whoever awaits call c, which asks that job j get status s, is told "ok"  *)
(* only if the job has had that status: nobody else uses the call.         *)
Told(c, j, s) ==
    /\ Api!Busy(c) => call[c].job = j /\ call[c].req[2] = s
    /\ call[c].pc = "ok" => s \in seen[j]

ToldOK ==
    /\ \A h \in Handlers : api[h].pc = "transition" => Told(api[h].slot, api[h].job, "queued")
    /\ \A h \in Handlers : api[h].pc = "ok" => api[h].job \in Jobs
    /\ \A r \in Runs : run[r].phase = "advancing" =>
          Told(run[r].slot, run[r].job, Advance[run[r].stage])

LEMMA SeenGrows == ASSUME Inv, [Next]_vars, NEW j \in Jobs PROVE seen[j] \subseteq seen'[j]
BY CallCases, BeginFacts DEF Inv, Api!TypeOK

LEMMA ToldBegun ==
    ASSUME Inv, NEW c \in Calls, NEW j, NEW q, Api!Begin(c, j, q)
    PROVE  Told(c, j, q[2])'
<1>1. Api!Busy(c)' /\ call'[c].job = j /\ call'[c].req = q
    BY BeginFacts
<1>2. call'[c].pc # "ok"
    BY <1>1 DEF Api!Busy
<1> QED
    BY <1>1, <1>2 DEF Told

LEMMA ToldStays ==
    ASSUME Inv, [Next]_vars, NEW c \in Calls, NEW j \in Jobs, NEW s, Told(c, j, s),
           \A k, q : Api!Begin(c, k, q) => k = j /\ q[2] = s
    PROVE  Told(c, j, s)'
<1>1. CASE call'[c] = call[c]
    <2>1. Api!Busy(c)' => Api!Busy(c)
        BY <1>1 DEF Api!Busy
    <2> QED
        BY <1>1, <2>1, SeenGrows DEF Told
<1>2. ASSUME NEW k, NEW q, Api!Begin(c, k, q) PROVE Told(c, j, s)'
    BY <1>2, ToldBegun
<1>3. ASSUME Api!Busy(c),
             Api!Busy(c)' => call'[c].job = call[c].job /\ call'[c].req = call[c].req
      PROVE  Told(c, j, s)'
    <2>1. call[c].job = j /\ call[c].req[2] = s
        BY <1>3 DEF Told
    <2>2. call'[c].pc = "ok" => s \in seen'[j]
        BY <1>3, <2>1, ApiStep, ApiOkStep DEF Inv
    <2> QED
        BY <1>3, <2>1, <2>2 DEF Told
<1>4. \/ call'[c] = call[c]
      \/ \E k, q : Api!Begin(c, k, q)
      \/ /\ Api!Busy(c)
         /\ Api!Busy(c)' => call'[c].job = call[c].job /\ call'[c].req = call[c].req
    BY CallCases, BeginFacts
<1> QED
    BY <1>1, <1>2, <1>3, <1>4

(* A handler waits for the call it has begun, and answers what that says.  *)
LEMMA AnswerCases ==
    ASSUME Inv, [Next]_vars, NEW h \in Handlers, api'[h].pc \in {"transition", "ok"}
    PROVE  \/ api'[h] = api[h]
           \/ /\ api'[h].pc = "transition" /\ api'[h].slot \in Calls
              /\ Api!Begin(api'[h].slot, api'[h].job, <<"pending", "queued">>)
           \/ /\ api'[h].pc = "ok" /\ api'[h].job = api[h].job
              /\ api[h].pc = "transition" /\ call[api[h].slot].pc = "ok"
<1>1. api \in [Handlers -> HandlerStates]
    BY DEF Inv, HandlersOK
<1>2. ASSUME HandlerFails(h) PROVE FALSE
    <2> DEFINE x == [api[h] EXCEPT !.pc = "failed", !.slot = NoCall]
    <2>1. x.pc = "failed"
        BY <1>1 DEF HandlerStates
    <2>2. api' = [api EXCEPT ![h] = x]
        BY <1>1, <1>2 DEF HandlerFails
    <2> QED
        BY <1>1, <2>1, <2>2
<1>3. ASSUME NEW pc \in {"meta", "enqueue"}, HandlerGoes(h, pc) PROVE FALSE
    BY <1>1, <1>3 DEF HandlerGoes, HandlerStates
<1>4. ASSUME NEW j \in Jobs, Request(h, j) PROVE FALSE
    BY <1>1, <1>4 DEF Request, HandlerStates
<1>5. ASSUME CompleteMultipartUpload(h) \/ CreateVideoMeta(h) PROVE FALSE
    BY <1>2, <1>3, <1>5 DEF CompleteMultipartUpload, CreateVideoMeta
<1>6. ASSUME NEW c \in Calls \ Awaited, Api!Begin(c, api[h].job, <<"pending", "queued">>),
             api' = [api EXCEPT ![h] = [@ EXCEPT !.pc = "transition", !.slot = c]]
      PROVE  /\ api'[h].pc = "transition" /\ api'[h].slot \in Calls
             /\ Api!Begin(api'[h].slot, api'[h].job, <<"pending", "queued">>)
    <2>1. api'[h].pc = "transition" /\ api'[h].slot = c /\ api'[h].job = api[h].job
        BY <1>1, <1>6 DEF HandlerStates
    <2> QED
        BY <1>6, <2>1
<1>7. ASSUME Respond(h)
      PROVE  /\ api'[h].pc = "ok" /\ api'[h].job = api[h].job
             /\ api[h].pc = "transition" /\ call[api[h].slot].pc = "ok"
    <2>1. /\ api[h].pc = "transition" /\ call[api[h].slot].pc = "ok"
          /\ api' = [api EXCEPT ![h] = [@ EXCEPT !.pc = "ok", !.slot = NoCall]]
        BY <1>2, <1>7 DEF Respond
    <2> QED
        BY <1>1, <2>1 DEF HandlerStates
<1>8. ASSUME NEW g \in Handlers \ {h}, (\E j \in Jobs : Request(g, j)) \/ HandlerStep(g)
      PROVE  api'[h] = api[h]
    BY <1>1, <1>8, HandlerCases DEF HandlerMoves
<1>9. UNCHANGED api \/ \E g \in Handlers : (\E j \in Jobs : Request(g, j)) \/ HandlerStep(g)
    BY ProcessCases, RunCases DEF RunDoes, RunMoves
<1>10. ASSUME Enqueue(h) PROVE UNCHANGED api \/ ToQueued(h)
    BY <1>2, <1>10 DEF Enqueue
<1>11. ASSUME ToQueued(h)
       PROVE  /\ api'[h].pc = "transition" /\ api'[h].slot \in Calls
              /\ Api!Begin(api'[h].slot, api'[h].job, <<"pending", "queued">>)
    BY <1>6, <1>11 DEF ToQueued
<1> QED
    BY <1>4, <1>5, <1>7, <1>8, <1>9, <1>10, <1>11 DEF HandlerStep

LEMMA ToldStep == Inv /\ ToldOK /\ [Next]_vars => ToldOK'
<1> SUFFICES ASSUME Inv, ToldOK, [Next]_vars PROVE ToldOK'
    OBVIOUS
<1>1. ASSUME NEW h \in Handlers, NEW y, y = api'[h], y.pc = "transition"
      PROVE  Told(y.slot, y.job, "queued")'
    <2>1. CASE y = api[h]
        <3>1. y.slot \in Calls /\ y.job \in Jobs /\ Told(y.slot, y.job, "queued")
            BY <1>1, <2>1 DEF ToldOK, Inv, HandlersOK, GoodHandler
        <3>2. y.slot \in Awaited /\ y.slot # NoCall
            BY <2>1, <3>1, PipelineAssumption DEF Awaited
        <3>3. ASSUME NEW r \in Runs, NEW x, RunMoves(r, x) PROVE x.slot # y.slot
            BY <2>1, <3>2, <3>3 DEF RunMoves, MayAwait, Inv, SlotsOK
        <3>4. \A k, q : ~Api!Begin(y.slot, k, q)
            BY <3>1, <3>2, <3>3, BeganBy DEF RunAsks, RunDoes
        <3> QED
            BY <3>1, <3>4, ToldStays
    <2>2. CASE y.slot \in Calls /\ Api!Begin(y.slot, y.job, <<"pending", "queued">>)
        BY <2>2, ToldBegun
    <2> QED
        BY <1>1, <2>1, <2>2, AnswerCases
<1>2. ASSUME NEW h \in Handlers, api'[h].pc = "ok" PROVE api'[h].job \in Jobs
    BY <1>2, AnswerCases DEF ToldOK, Inv, HandlersOK, GoodHandler
<1>3. ASSUME NEW r \in Runs, NEW y, y = run'[r], y.phase = "advancing"
      PROVE  Told(y.slot, y.job, Advance[y.stage])'
    <2>1. CASE y = run[r]
        <3>1. y.slot \in Calls /\ y.job \in Jobs /\ Told(y.slot, y.job, Advance[y.stage])
            BY <1>3, <2>1 DEF ToldOK, Inv, RunsOK, GoodRun
        <3>2. ASSUME NEW k, NEW q, Api!Begin(y.slot, k, q) PROVE k = y.job /\ q[2] = Advance[y.stage]
            <4>1. PICK x : RunAsks(r, x, k, q) /\ run'[r] = x
                BY <2>1, <3>1, <3>2, BeganByItsRun
            <4> QED
                BY <1>3, <4>1 DEF RunAsks
        <3> QED
            BY <3>1, <3>2, ToldStays
    <2>2. CASE RunDoes(r, y)
        <3>1. y.slot \in Calls
            BY <1>3, InvStep DEF Inv, RunsOK, GoodRun
        <3>2. Api!Begin(y.slot, y.job, <<y.stage, Advance[y.stage]>>)
            BY <1>3, <2>2 DEF RunDoes, Starts, Stops, Fetches, AsksAdvance, AsksFailed, Asks,
                              AsksAgain, GoesOn, Finishes
        <3> QED
            BY <3>1, <3>2, ToldBegun
    <2> QED
        BY <1>3, <2>1, <2>2, RunStays
<1> QED
    BY <1>1, <1>2, <1>3 DEF ToldOK, Told, Api!Busy

LEMMA NoneAheadStep == Inv /\ ToldOK /\ NoneAhead /\ [Next]_vars => NoneAhead'
<1> SUFFICES ASSUME Inv, ToldOK, NoneAhead, [Next]_vars PROVE NoneAhead'
    OBVIOUS
<1>1. ASSUME NEW h \in Handlers, api'[h].pc = "ok" PROVE "queued" \in seen'[api'[h].job]
    BY <1>1, AnswerCases, SeenGrows
    DEF ToldOK, Told, NoneAhead, Inv, HandlersOK, GoodHandler
<1>2. ASSUME NEW r \in Runs, NEW x, x = run'[r]
      PROVE  /\ x.phase \in {"work", "advancing", "reporting"} /\ x.stage # "queued" =>
                   x.stage \in seen'[x.job]
             /\ x.phase = "fetch" /\ x.stage = "uploading" => "completed" \in seen'[x.job]
    <2>1. GoodRun(x)'
        BY <1>2, InvStep DEF Inv, RunsOK
    <2>2. x.phase \in {"work", "advancing", "reporting", "fetch"} => seen[x.job] \subseteq seen'[x.job]
        BY <2>1, SeenGrows DEF GoodRun
    <2>3. CASE x = run[r]
        BY <2>2, <2>3 DEF NoneAhead
    <2>4. CASE Starts(r, x) \/ Stops(r, x) \/ Fetches(r, x)
        BY <2>4 DEF Starts, Stops, Fetches
    <2>5. CASE AsksAdvance(r, x) \/ AsksFailed(r, x) \/ AsksAgain(r, x)
        BY <2>2, <2>5 DEF AsksAdvance, AsksFailed, Asks, AsksAgain, Waiting, SameWork, NoneAhead
    <2>6. CASE GoesOn(r, x) \/ Finishes(r, x)
        <3>1. Advance[run[r].stage] \in seen[run[r].job]
            BY <2>6 DEF GoesOn, Finishes, Answer, ToldOK, Told
        <3> QED
            BY <2>2, <2>6, <3>1 DEF GoesOn, Finishes, SameWork, Advance
    <2> QED
        BY <1>2, <2>3, <2>4, <2>5, <2>6, RunStays DEF RunDoes
<1> QED
    BY <1>1, <1>2 DEF NoneAhead

(* Nobody acts on a transition that did not happen, whatever answers are   *)
(* lost and however many transcodes of a job take each other's statuses    *)
(* for their own.                                                          *)
THEOREM NobodyIsAhead == Spec => []NoneAhead
<1>1. Init => ToldOK /\ NoneAhead
    BY DEF Init, ToldOK, NoneAhead, Idle
<1> QED
    BY <1>1, InvInit, InvStep, ToldStep, NoneAheadStep, PTL DEF Spec

(* The server of the pipeline is the status API, so what is proved of that *)
(* for arbitrary requests is true of what the web page, the handlers and   *)
(* the transcoder ask for.                                                 *)
THEOREM ServerIsStatusApi == Spec => Api!Spec
<1>1. Init => Api!Init
    BY DEF Init
<1> QED
    BY <1>1, InvInit, InvStep, ApiStep, PTL DEF Spec, Api!Spec

(* A job that is completed, failed or cancelled stays so, whatever crashes,*)
(* retries and redeliveries follow, once no call is left that had read an  *)
(* earlier status of it.                                                   *)
THEOREM SettledJobsStay == Spec => Api!SettledIsFinal
<1> DEFINE Stays == \A j \in Jobs : Api!Settled(j) => Api!Settled(j)' /\ status'[j] = status[j]
<1>1. ASSUME Inv, [Next]_vars PROVE [Stays]_(Api!vars)
    BY <1>1, ApiStep, ApiSettledStep DEF Inv
<1> QED
    BY <1>1, InvInit, InvStep, PTL DEF Spec, Api!SettledIsFinal

-----------------------------------------------------------------------------
(* As long as nothing has failed.  A call a run waits for is the one it    *)
(* asked; a call that will write a status in progress is one a run waits   *)
(* for, and so will carry the job on from there; and a job in progress has *)
(* such a run: it works at that stage, waits for a call that read it or has*)
(* been told "ok" but not gone on yet.                                     *)
AskedOK ==
    \A r \in Runs : Waiting(r) /\ Api!Busy(run[r].slot) =>
        /\ call[run[r].slot].job = run[r].job
        /\ call[run[r].slot].req =
              <<run[r].stage, IF run[r].phase = "advancing" THEN Advance[run[r].stage]
                              ELSE "failed">>

OwnedOK ==
    \A c \in Calls : Api!Busy(c) /\ call[c].req[2] \in InProgress =>
        \E r \in Runs : run[r].phase = "advancing" /\ run[r].slot = c

Carries(r, j) ==
    /\ run[r].job = j
    /\ \/ run[r].phase = "work" /\ run[r].stage = status[j]
       \/ Waiting(r) /\ Api!Busy(run[r].slot) /\ run[r].stage = status[j]
       \/ run[r].phase = "advancing" /\ Advance[run[r].stage] = status[j] /\ Answer(r) = "ok"

CarriedOK == \A j \in Jobs : status[j] \in InProgress => \E r \in Runs : Carries(r, j)

LEMMA AskedStep == Inv /\ AskedOK /\ [Next]_vars => AskedOK'
<1> SUFFICES ASSUME Inv, AskedOK, [Next]_vars,
                    NEW r \in Runs, NEW y, y = run'[r], y.phase \in {"advancing", "reporting"},
                    NEW c, c = y.slot, Api!Busy(c)'
             PROVE  /\ call'[c].job = y.job
                    /\ call'[c].req = <<y.stage, IF y.phase = "advancing" THEN Advance[y.stage]
                                                 ELSE "failed">>
    BY DEF AskedOK, Waiting, Api!Busy
<1>1. c \in Calls
    BY InvStep DEF Inv, RunsOK, GoodRun
<1>2. ASSUME NEW j, NEW q, RunAsks(r, y, j, q), Api!Begin(c, j, q)
      PROVE  /\ call'[c].job = y.job
             /\ call'[c].req = <<y.stage, IF y.phase = "advancing" THEN Advance[y.stage]
                                          ELSE "failed">>
    BY <1>1, <1>2, BeginFacts DEF RunAsks
<1>3. CASE run'[r] = run[r]
    <2>1. c = run[r].slot /\ Waiting(r) /\ y = run[r]
        BY <1>3 DEF Waiting
    <2>2. ASSUME Api!Busy(c), call'[c].job = call[c].job, call'[c].req = call[c].req
          PROVE  /\ call'[c].job = y.job
                 /\ call'[c].req = <<y.stage, IF y.phase = "advancing" THEN Advance[y.stage]
                                              ELSE "failed">>
        BY <2>1, <2>2 DEF AskedOK
    <2>3. ASSUME NEW j, NEW q, Api!Begin(c, j, q)
          PROVE  RunAsks(r, y, j, q)
        BY <1>1, <2>1, <2>3, BeganByItsRun
    <2>4. ASSUME call'[c] = call[c] PROVE Api!Busy(c)
        BY <2>4 DEF Api!Busy
    <2>5. \/ call'[c] = call[c]
          \/ \E j, q : Api!Begin(c, j, q)
          \/ Api!Busy(c) /\ call'[c].job = call[c].job /\ call'[c].req = call[c].req
        BY <1>1, CallCases, BeginFacts
    <2> QED
        BY <1>2, <2>2, <2>3, <2>4, <2>5
<1>4. CASE RunDoes(r, y)
    <2>1. CASE AsksAdvance(r, y)
        BY <1>2, <1>4, <2>1 DEF AsksAdvance, Asks, RunAsks
    <2>2. CASE AsksFailed(r, y)
        BY <1>2, <1>4, <2>2 DEF AsksFailed, Asks, RunAsks
    <2>3. CASE AsksAgain(r, y)
        BY <1>2, <1>4, <2>3 DEF AsksAgain, RunAsks
    <2> QED
        BY <1>4, <2>1, <2>2, <2>3 DEF RunDoes, Starts, Stops, Fetches, GoesOn, Finishes
<1> QED
    BY <1>3, <1>4, RunStays

(* What a step does to the statuses and calls if it is no failure.         *)
LEMMA NoFailure ==
    ASSUME Inv, [Next]_vars, faults' = 0
    PROVE  /\ faults = 0 /\ ~MayFail
           /\ \/ UNCHANGED <<status, call, seen>>
              \/ \E c \in Calls : \E j, q : Api!Begin(c, j, q)
              \/ \E c \in Calls : Api!Read(c)
              \/ \E c \in Calls : Api!Write(c) /\ call'[c].pc = "ok"
<1>1. faults \in Nat
    BY NatBounds DEF Inv, CountsOK
<1>2. ~MayFail
    BY <1>1 DEF MayFail
<1>3. UNCHANGED faults \/ MayFail
    BY DEF Next, vars, HandlerStep, TranscodeVideo, Serve, ServeFails, cancelJob, Request,
       CompleteMultipartUpload, CreateVideoMeta, PutSource, Enqueue, Respond, TakeMessage,
       FetchOutput, DownloadOutputVideo, Work, WorkFails, Advanced, Retry, Refused, NoProfile,
       TimesOut, Crash, Stale, Ack
<1>4. ASSUME NEW c \in Calls, Serve(c) \/ ServeFails(c)
      PROVE  Api!Read(c) \/ (Api!Write(c) /\ call'[c].pc = "ok")
    BY <1>2, <1>4 DEF Serve, ServeFails
<1>5. UNCHANGED server \/ (\E c \in Calls : Serve(c) \/ ServeFails(c))
      \/ \E c \in Calls : \E j, q : Api!Begin(c, j, q)
    <2>1. ASSUME NEW k \in Jobs, cancelJob(k) PROVE \E c \in Calls : \E j, q : Api!Begin(c, j, q)
        BY <2>1 DEF cancelJob
    <2>2. ASSUME NEW h \in Handlers, Enqueue(h)
          PROVE  UNCHANGED server \/ \E c \in Calls : \E j, q : Api!Begin(c, j, q)
        BY <2>2 DEF Enqueue, ToQueued
    <2>3. ASSUME NEW r \in Runs, Work(r) \/ WorkFails(r) \/ Retry(r)
          PROVE  \E c \in Calls : \E j, q : Api!Begin(c, j, q)
        <3>1. Retry(r) => run[r].slot \in Calls
            BY DEF Retry, Waiting, Inv, RunsOK, GoodRun
        <3> QED
            BY <2>3, <3>1 DEF Work, WorkFails, Retry, transitionStatus
    <2> QED
        BY <2>1, <2>2, <2>3, ServerCases DEF vars
<1> QED
    BY <1>1, <1>2, <1>3, <1>4, <1>5 DEF server

(* A run waits as long as its call is under way.                           *)
LEMMA BusyWaits ==
    ASSUME Inv, [Next]_vars, ~MayFail, NEW r \in Runs, Waiting(r), Api!Busy(run[r].slot)
    PROVE  run'[r] = run[r]
<1>1. run[r].slot \in Calls
    BY DEF Inv, RunsOK, GoodRun, Waiting
<1>2. SUFFICES ASSUME NEW x, RunDoes(r, x) PROVE FALSE
    BY RunStays
<1>3. Answer(r) \notin {"ok", "error"}
    BY DEF Answer, Api!Busy
<1> QED
    BY <1>2, <1>3 DEF RunDoes, Starts, Stops, Fetches, AsksAdvance, AsksFailed, Asks, AsksAgain,
                      GoesOn, Finishes, Waiting

LEMMA OwnedStep == Inv /\ OwnedOK /\ [Next]_vars /\ faults' = 0 => OwnedOK'
<1> SUFFICES ASSUME Inv, OwnedOK, [Next]_vars, faults' = 0,
                    NEW c \in Calls, Api!Busy(c)', call'[c].req[2] \in InProgress
             PROVE  \E r \in Runs : run'[r].phase = "advancing" /\ run'[r].slot = c
    BY DEF OwnedOK, InProgress
<1>1. ASSUME Api!Busy(c), call'[c].req = call[c].req
      PROVE  \E r \in Runs : run'[r].phase = "advancing" /\ run'[r].slot = c
    BY <1>1, BusyWaits, NoFailure DEF OwnedOK, Waiting
<1>2. ASSUME NEW j, NEW q, Api!Begin(c, j, q)
      PROVE  \E r \in Runs : run'[r].phase = "advancing" /\ run'[r].slot = c
    <2>1. q[2] \in InProgress
        BY <1>2, BeginFacts
    <2>2. PICK r, x : r \in Runs /\ RunAsks(r, x, j, q) /\ x.slot = c
        BY <1>2, <2>1, BeganBy DEF InProgress
    <2>3. run'[r] = x
        BY <2>2 DEF RunAsks, RunDoes, RunMoves, Inv, RunsOK
    <2>4. x.phase = "advancing"
        BY <2>1, <2>2 DEF RunAsks, InProgress
    <2> QED
        BY <2>2, <2>3, <2>4
<1>3. ASSUME call'[c] = call[c] PROVE Api!Busy(c) /\ call'[c].req = call[c].req
    BY <1>3 DEF Api!Busy
<1>4. \/ call'[c] = call[c]
      \/ \E j, q : Api!Begin(c, j, q)
      \/ Api!Busy(c) /\ call'[c].req = call[c].req
    BY CallCases, BeginFacts
<1> QED
    BY <1>1, <1>2, <1>3, <1>4

LEMMA CarriedStep ==
    ASSUME Inv, AskedOK, OwnedOK, CarriedOK, [Next]_vars, faults' = 0,
           NEW j \in Jobs, status'[j] \in InProgress
    PROVE  \E r \in Runs : Carries(r, j)'
<1>1. call \in [Calls -> Api!Active \cup [pc : Api!Answers]] /\ status \in [Jobs -> Status]
    BY DEF Inv, Api!TypeOK, Api!Status, Status
<1>2. ~MayFail
    BY NoFailure
<1>3. ASSUME NEW c \in Calls, Api!Write(c), call'[c].pc = "ok", call[c].job = j
      PROVE  \E r \in Runs : Carries(r, j)'
    <2>1. Api!Busy(c) /\ status'[j] = call[c].req[2]
        BY <1>1, <1>3 DEF Api!Write, Api!Busy
    <2>2. PICK r \in Runs : run[r].phase = "advancing" /\ run[r].slot = c
        BY <2>1 DEF OwnedOK
    <2>3. Waiting(r) /\ run'[r] = run[r]
        BY <1>2, <2>1, <2>2, BusyWaits DEF Waiting
    <2>4. run[r].job = j /\ call[c].req = <<run[r].stage, Advance[run[r].stage]>>
        BY <1>3, <2>1, <2>2, <2>3 DEF AskedOK
    <2>5. Carries(r, j)'
        BY <1>3, <2>1, <2>2, <2>3, <2>4 DEF Carries, Answer
    <2> QED
        BY <2>5
<1>4. CASE ~\E c \in Calls : Api!Write(c) /\ call[c].job = j
    <2>1. status'[j] = status[j]
        BY <1>1, <1>4, NoFailure, BeginFacts DEF Api!Read, Api!Write
    <2>2. PICK r \in Runs : Carries(r, j)
        BY <2>1 DEF CarriedOK
    <2>3. run[r].stage # "queued" \/ run[r].phase = "advancing"
        BY <2>1, <2>2 DEF Carries, Waiting, InProgress
    <2>4. ASSUME run[r].phase = "work", run[r].stage = status[j] PROVE Carries(r, j)'
        <3>1. CASE run'[r] = run[r]
            BY <2>1, <2>2, <2>4, <3>1 DEF Carries
        <3>2. ASSUME NEW x, RunDoes(r, x), run'[r] = x PROVE Carries(r, j)'
            <4>1. (AsksAdvance(r, x) \/ AsksFailed(r, x))
                BY <1>2, <2>1, <2>4, <3>2 DEF RunDoes, Starts, Stops, Fetches, AsksAgain, GoesOn,
                   Finishes, Waiting, InProgress
            <4>2. /\ x.job = run[r].job /\ x.stage = run[r].stage /\ x.slot \in Calls
                  /\ x.phase \in {"advancing", "reporting"}
                  /\ \E q : Api!Begin(x.slot, x.job, q)
                BY <4>1 DEF AsksAdvance, AsksFailed, Asks, SameWork
            <4>3. Api!Busy(x.slot)'
                BY <4>2, BeginFacts
            <4>4. call'[x.slot].pc \in {"read", "write"}
                BY <4>3 DEF Api!Busy
            <4> QED
                BY <2>1, <2>2, <2>4, <3>2, <4>2, <4>4 DEF Carries, Waiting, Api!Busy
        <3> QED
            BY <3>1, <3>2, RunStays
    <2>5. ASSUME Waiting(r), Api!Busy(run[r].slot), run[r].stage = status[j] PROVE Carries(r, j)'
        <3> DEFINE c == run[r].slot
        <3>1. run'[r] = run[r] /\ c \in Calls /\ run[r].job = j /\ run[r].phase \in {"advancing", "reporting"}
            BY <1>2, <2>2, <2>5, BusyWaits DEF Inv, RunsOK, GoodRun, Waiting, Carries
        <3>2. PICK to \in {Advance[status[j]], "failed"} :
                  call[c].job = j /\ call[c].req = <<status[j], to>>
            BY <2>5, <3>1 DEF AskedOK
        <3>3. call[c] \in Api!Active
            BY <1>1, <2>5, <3>1 DEF Api!Busy, Api!Answers
        <3>4. status[j] # to /\ Api!canTransition(status[j], to)
            BY <2>1, <3>2 DEF InProgress, Advance, Api!canTransition, Api!validTransitions,
               Api!Terminal, Api!Status, Api!Advance
        <3> HIDE DEF c
        <3>5. ASSUME Api!Read(c) PROVE call'[c].pc = "write"
            <4>1. call' = [call EXCEPT ![c].pc = "write"]
                BY <3>2, <3>4, <3>5 DEF Api!Read
            <4> QED
                BY <1>1, <3>1, <3>3, <4>1 DEF Api!Active
        <3>6. call'[c] = call[c] \/ Api!Read(c)
            <4>1. ASSUME NEW d \in Calls, d # c, Api!Read(d) \/ Api!Write(d) PROVE call'[c] = call[c]
                BY <1>1, <3>1, <4>1 DEF Api!Read, Api!Write, Api!Answer
            <4>2. ~Api!Write(c)
                BY <1>4, <3>1, <3>2
            <4>3. ASSUME NEW d \in Calls, NEW k, NEW q, Api!Begin(d, k, q) PROVE call'[c] = call[c]
                <5>1. d # c
                    BY <2>5, <4>3, BeginFacts DEF c
                <5> QED
                    BY <3>1, <4>3, <5>1, BeginFacts
            <4> QED
                BY <3>1, <4>1, <4>2, <4>3, NoFailure
        <3>7. call'[c].pc \in {"read", "write"}
            BY <2>5, <3>5, <3>6 DEF Api!Busy, c
        <3> QED
            BY <2>1, <2>5, <3>1, <3>7 DEF Carries, Waiting, Api!Busy, c
    <2>6. ASSUME run[r].phase = "advancing", Advance[run[r].stage] = status[j], Answer(r) = "ok"
          PROVE  Carries(r, j)'
        <3> DEFINE c == run[r].slot
        <3>1. c \in Calls /\ ~Api!Busy(c) /\ call[c].pc = "ok" /\ run[r].job = j
            BY <2>2, <2>6 DEF Inv, RunsOK, GoodRun, Api!Busy, Answer, Carries
        <3>2. run[r].stage # "uploading"
            BY <2>1, <2>6 DEF InProgress, Advance
        <3>3. call'[c] = call[c]
            <4>1. ASSUME NEW q, NEW k, Api!Begin(c, k, q) PROVE FALSE
                <5>1. PICK x : AsksAgain(r, x)
                    BY <3>1, <4>1, BeganByItsRun
                <5> QED
                    BY <2>6, <5>1 DEF AsksAgain
            <4> QED
                BY <3>1, <4>1, CallCases, BeginFacts
        <3>4. CASE run'[r] = run[r]
            BY <2>1, <2>6, <3>1, <3>3, <3>4 DEF Carries, Answer
        <3>5. ASSUME NEW x, RunDoes(r, x), run'[r] = x PROVE Carries(r, j)'
            <4>1. GoesOn(r, x)
                BY <1>2, <2>6, <3>1, <3>2, <3>5 DEF RunDoes, Starts, Stops, Fetches, AsksAdvance,
                   AsksFailed, Asks, AsksAgain, Finishes, Waiting
            <4> QED
                BY <2>1, <2>6, <3>1, <3>5, <4>1 DEF GoesOn, SameWork, Carries
        <3> QED
            BY <3>4, <3>5, RunStays
    <2>7. Carries(r, j)'
        BY <2>2, <2>4, <2>5, <2>6 DEF Carries
    <2> QED
        BY <2>7
<1>5. ASSUME NEW c \in Calls, Api!Write(c) PROVE call'[c].pc = "ok"
    <2>1. call[c].pc = "write" /\ call'[c].pc \in {"ok", "error"}
        BY <1>1, <1>5 DEF Api!Write, Api!Answer
    <2>2. ASSUME NEW d \in Calls, d # c, Api!Read(d) \/ Api!Write(d) PROVE call'[c] = call[c]
        BY <1>1, <2>2 DEF Api!Read, Api!Write, Api!Answer
    <2>3. ~Api!Read(c)
        BY <2>1 DEF Api!Read
    <2>4. ASSUME NEW d \in Calls, NEW k, NEW q, Api!Begin(d, k, q) PROVE call'[c] = call[c]
        BY <2>1, <2>4, BeginFacts DEF Api!Busy
    <2> QED
        BY <2>1, <2>2, <2>3, <2>4, NoFailure
<1> QED
    BY <1>3, <1>4, <1>5

(* As long as nothing has failed, a job in progress is carried by a run,   *)
(* however many runs transcode it at once, take each other's statuses for  *)
(* their own and write them late, and whoever cancels it meanwhile.        *)
THEOREM CarriedUntilFailure == Spec => [](faults = 0 => InProgressIsCarried)
<1> DEFINE NoneFailed == faults = 0 => OwnedOK /\ CarriedOK
<1>1. Init => AskedOK /\ NoneFailed
    BY DEF Init, Api!Init, Idle, AskedOK, OwnedOK, CarriedOK, Waiting, Api!Busy, InProgress
<1>2. Inv /\ AskedOK /\ [Next]_vars => AskedOK'
    BY AskedStep
<1>3. Inv /\ AskedOK /\ NoneFailed /\ [Next]_vars => NoneFailed'
    <2>1. SUFFICES ASSUME Inv, AskedOK, OwnedOK, CarriedOK, [Next]_vars, faults' = 0
                   PROVE  OwnedOK' /\ CarriedOK'
        BY NoFailure
    <2>2. \A j \in Jobs : status'[j] \in InProgress => \E r \in Runs : Carries(r, j)'
        BY <2>1, CarriedStep
    <2>3. CarriedOK'
        BY <2>2 DEF CarriedOK, InProgress, Runs
    <2> QED
        BY <2>1, <2>3, OwnedStep
<1>4. Inv /\ NoneFailed => (faults = 0 => InProgressIsCarried)
    BY DEF CarriedOK, Carries, InProgressIsCarried, Carried, Waiting
<1> HIDE DEF NoneFailed
<1> QED
    BY <1>1, <1>2, <1>3, <1>4, InvInit, InvStep, PTL DEF Spec

-----------------------------------------------------------------------------
(* A job is queued once.  Nobody but its handler asks for "queued", and the *)
(* metadata row, one for each job, sees to it that one handler does, once.  *)
Enqueueing(h, j) == api[h].pc = "enqueue" /\ api[h].job = j
Queueing(c, j) == Api!Busy(c) /\ call[c].job = j /\ call[c].req[2] = "queued"

OneQueues(j) ==
    /\ \A g, h \in Handlers : Enqueueing(g, j) /\ Enqueueing(h, j) => g = h
    /\ \A h \in Handlers : Enqueueing(h, j) =>
          "queued" \notin seen[j] /\ \A c \in Calls : ~Queueing(c, j)
    /\ \A c, d \in Calls : Queueing(c, j) /\ Queueing(d, j) => c = d
    /\ \A c \in Calls : Queueing(c, j) => "queued" \notin seen[j]

LEMMA QueueingCases ==
    ASSUME Inv, [Next]_vars, NEW c \in Calls, NEW j \in Jobs, Queueing(c, j)'
    PROVE  \/ Queueing(c, j) /\ ~Api!Write(c)
           \/ /\ \E h \in Handlers : Enqueueing(h, j) /\ api'[h].pc # "enqueue"
              /\ UNCHANGED seen /\ \A d \in Calls \ {c} : call'[d] = call[d]
<1>1. Api!Busy(c)' /\ call'[c].job = j /\ call'[c].req[2] = "queued"
    BY DEF Queueing, Api!Busy
<1>2. ASSUME NEW k, NEW q, Api!Begin(c, k, q)
      PROVE  /\ \E h \in Handlers : Enqueueing(h, j) /\ api'[h].pc # "enqueue"
             /\ UNCHANGED seen /\ \A d \in Calls \ {c} : call'[d] = call[d]
    <2>1. k = j /\ q[2] = "queued"
        BY <1>1, <1>2, BeginFacts
    <2>2. ASSUME NEW r \in Runs, NEW x, RunAsks(r, x, j, q) PROVE FALSE
        <3>1. x.stage # "pending" /\ x.stage \in DOMAIN Advance
            BY <2>2 DEF RunAsks, RunDoes, RunMoves, RunStates, GoodRun
        <3> QED
            BY <2>1, <2>2, <3>1 DEF RunAsks, Advance
    <2>3. PICK h \in Handlers : api[h].pc = "enqueue" /\ ToQueued(h) /\ j = api[h].job
        BY <1>2, <2>1, <2>2, BeganBy
    <2>4. api'[h].pc = "transition"
        BY <2>3 DEF ToQueued, Inv, HandlersOK, HandlerStates
    <2> QED
        BY <1>2, <2>3, <2>4, BeginFacts DEF Enqueueing
<1>3. ASSUME call'[c] = call[c] PROVE Queueing(c, j)
    BY <1>1, <1>3 DEF Queueing, Api!Busy
<1>4. ASSUME Api!Write(c) PROVE FALSE
    BY <1>1, <1>4 DEF Api!Write, Api!Answer, Api!Busy, Inv, Api!TypeOK
<1>5. \/ call'[c] = call[c]
      \/ \E k, q : Api!Begin(c, k, q)
      \/ Api!Busy(c) /\ call'[c].job = call[c].job /\ call'[c].req = call[c].req
    BY <1>1, CallCases, BeginFacts
<1> QED
    BY <1>1, <1>2, <1>3, <1>4, <1>5 DEF Queueing

(* A job is queued by a call that asks for it.                             *)
LEMMA QueuedBy ==
    ASSUME Inv, [Next]_vars, NEW j \in Jobs
    PROVE  \/ status'[j] = status[j] /\ seen'[j] = seen[j]
           \/ \E c \in Calls : /\ Api!Write(c) /\ Api!Busy(c) /\ call[c].job = j
                               /\ status'[j] = call[c].req[2]
                               /\ seen'[j] = seen[j] \cup {call[c].req[2]}
<1>1. ASSUME NEW c \in Calls, Api!Write(c)
      PROVE  \/ status'[j] = status[j] /\ seen'[j] = seen[j]
             \/ /\ Api!Busy(c) /\ call[c].job = j
                /\ status'[j] = call[c].req[2]
                /\ seen'[j] = seen[j] \cup {call[c].req[2]}
    BY <1>1 DEF Api!Write, Api!Busy, Inv, Api!TypeOK
<1> QED
    BY <1>1, CallCases, BeginFacts

LEMMA OneQueuesStep ==
    ASSUME Inv, AllDue, [Next]_vars, NEW j \in Jobs, OneQueues(j)
    PROVE  OneQueues(j)'
<1>1. ASSUME NEW h \in Handlers, Enqueueing(h, j)'
      PROVE  Enqueueing(h, j) \/ (MetaMade(h) /\ meta[j] = NoFormat)
    BY <1>1, EnqueueCases DEF Enqueueing, MetaMade
<1>2. ASSUME meta[j] = NoFormat
      PROVE  /\ "queued" \notin seen[j]
             /\ \A h \in Handlers : ~Enqueueing(h, j)
             /\ \A c \in Calls : ~Queueing(c, j)
    BY <1>2 DEF AllDue, Due, Enqueueing, Queueing
<1>3. "queued" \in seen'[j] => \/ "queued" \in seen[j]
                               \/ \E c \in Calls : Api!Write(c) /\ Queueing(c, j)
    BY QueuedBy DEF Queueing
<1>4. ASSUME NEW g \in Handlers, NEW h \in Handlers, Enqueueing(g, j)', Enqueueing(h, j)'
      PROVE  g = h
    <2>1. CASE meta[j] = NoFormat
        BY <1>1, <1>2, <1>4, <2>1 DEF MetaMade, Enqueueing
    <2>2. CASE meta[j] # NoFormat
        BY <1>1, <1>4, <2>2 DEF OneQueues
    <2> QED
        BY <2>1, <2>2
<1>5. ASSUME NEW h \in Handlers, Enqueueing(h, j)'
      PROVE  "queued" \notin seen'[j] /\ \A c \in Calls : ~Queueing(c, j)'
    <2>1. CASE Enqueueing(h, j)
        <3>1. \A c \in Calls : ~Queueing(c, j)
            BY <2>1 DEF OneQueues
        <3>2. ASSUME NEW g \in Handlers, Enqueueing(g, j), api'[g].pc # "enqueue" PROVE FALSE
            BY <1>5, <2>1, <3>2 DEF OneQueues, Enqueueing
        <3> QED
            BY <1>3, <2>1, <3>1, <3>2, QueueingCases DEF OneQueues
    <2>2. CASE MetaMade(h) /\ meta[j] = NoFormat
        BY <1>2, <2>2 DEF MetaMade, server, Queueing, Api!Busy
    <2> QED
        BY <1>1, <1>5, <2>1, <2>2
<1>6. ASSUME NEW c \in Calls, NEW d \in Calls, Queueing(c, j)', Queueing(d, j)' PROVE c = d
    <2>1. CASE Queueing(c, j) /\ Queueing(d, j)
        BY <2>1 DEF OneQueues
    <2>2. ASSUME NEW a \in Calls, NEW b \in Calls, a # b, Queueing(b, j)',
                 NEW h \in Handlers, Enqueueing(h, j), \A e \in Calls \ {a} : call'[e] = call[e]
          PROVE  FALSE
        <3>1. Queueing(b, j)
            BY <2>2 DEF Queueing, Api!Busy
        <3> QED
            BY <2>2, <3>1 DEF OneQueues
    <2> QED
        BY <1>6, <2>1, <2>2, QueueingCases
<1>7. ASSUME NEW c \in Calls, Queueing(c, j)' PROVE "queued" \notin seen'[j]
    <2>1. CASE Queueing(c, j) /\ ~Api!Write(c)
        BY <1>3, <2>1 DEF OneQueues
    <2>2. CASE UNCHANGED seen /\ \E h \in Handlers : Enqueueing(h, j)
        BY <2>2 DEF OneQueues
    <2> QED
        BY <1>7, <2>1, <2>2, QueueingCases
<1> QED
    BY <1>4, <1>5, <1>6, <1>7 DEF OneQueues, Enqueueing, Queueing, Api!Busy

MovedOn(j) == "queued" \in seen[j] /\ status[j] # "queued"

LEMMA MovedStays ==
    ASSUME Inv, [Next]_vars, NEW j \in Jobs, OneQueues(j), MovedOn(j)
    PROVE  MovedOn(j)'
<1>1. \A c \in Calls : ~Queueing(c, j)
    BY DEF OneQueues, MovedOn
<1> QED
    BY <1>1, QueuedBy DEF MovedOn, Queueing

LEMMA OneQueuesInvariant == Spec => [](Inv /\ AllDue /\ \A j \in Jobs : OneQueues(j))
<1> DEFINE Queues == \A j \in Jobs : OneQueues(j)
<1>1. Init => Queues
    BY DEF Init, Api!Init, OneQueues, Enqueueing, Queueing, Api!Busy
<1>2. Inv /\ AllDue /\ Queues /\ [Next]_vars => Queues'
    BY OneQueuesStep DEF OneQueues, Enqueueing, Queueing, Api!Busy
<1> HIDE DEF Queues
<1>3. Spec => []Queues
    BY <1>1, <1>2, AllDueInvariant, PTL DEF Spec
<1> QED
    BY <1>3, AllDueInvariant, PTL DEF Queues

(* A job that has left the queue never returns to it: not by a request     *)
(* that is repeated, a message that is delivered again, or the handler's   *)
(* own call of TransitionTo that writes late.                              *)
THEOREM QueuedOnce ==
    Spec => [][\A j \in Jobs : "queued" \in seen[j] /\ status[j] # "queued" =>
                                  status'[j] # "queued"]_vars
<1> DEFINE Leaves == \A j \in Jobs : "queued" \in seen[j] /\ status[j] # "queued" =>
                                         status'[j] # "queued"
<1>1. ASSUME Inv, AllDue, \A j \in Jobs : OneQueues(j), [Next]_vars PROVE [Leaves]_vars
    BY <1>1, MovedStays DEF MovedOn
<1> QED
    BY <1>1, OneQueuesInvariant, PTL DEF Spec

-----------------------------------------------------------------------------
(* While nothing has failed and every worker is handed its message after   *)
(* the job was queued.  A run that is past its first stage, reports a      *)
(* failure or, for a worker, has been answered, has a job that has moved   *)
(* on from "queued"; so has a message that has been processed.             *)
InStep == \A w \in Workers : run[w].phase # "idle" => "queued" \in seen[run[w].job]

MsgOK == \A r \in Runs : run[r].phase \in {"work", "advancing", "reporting"} /\ run[r].msg # NoMsg =>
            r \in Workers /\ run[r].job = msgs[run[r].msg]

Past(r) ==
    \/ run[r].phase = "reporting"
    \/ run[r].phase \in {"work", "advancing"} /\ run[r].stage # "queued"
    \/ /\ run[r].phase = "advancing" /\ ~Api!Busy(run[r].slot)
       /\ r \in Workers \/ Answer(r) = "ok"

NoErrors == \A c \in Calls : call[c].pc # "error"

OnItsWay == /\ \A r \in Runs : Past(r) => MovedOn(run[r].job)
            /\ \A m \in processed : MovedOn(msgs[m])

LEMMA MsgStays ==
    ASSUME Inv, [Next]_vars, NEW m \in 1..Len(msgs)
    PROVE  msgs'[m] = msgs[m] /\ msgs[m] \in Jobs
<1>1. UNCHANGED msgs \/ \E h \in Handlers : api[h].pc = "enqueue" /\ AddMessage(h)
    BY QueueCases DEF queue
<1> QED
    BY <1>1, AddFacts DEF Inv, QueueOK

LEMMA MsgStep == Inv /\ MsgOK /\ [Next]_vars => MsgOK'
<1> SUFFICES ASSUME Inv, MsgOK, [Next]_vars, NEW r \in Runs, NEW x, x = run'[r],
                    x.phase \in {"work", "advancing", "reporting"}, x.msg # NoMsg
             PROVE  r \in Workers /\ x.job = msgs'[x.msg]
    BY DEF MsgOK
<1>1. ASSUME run[r].phase \in {"work", "advancing", "reporting"},
             x.msg = run[r].msg, x.job = run[r].job
      PROVE  r \in Workers /\ x.job = msgs[x.msg] /\ x.msg \in 1..Len(msgs)
    <2>1. r \in Workers /\ x.job = msgs[x.msg]
        BY <1>1 DEF MsgOK
    <2>2. x.msg \in 0..MaxMsgs /\ x.msg <= Len(msgs)
        BY <1>1 DEF Inv, RunsOK, RunStates, GoodRun
    <2>3. Len(msgs) \in Nat
        BY DEF Inv, QueueOK
    <2> QED
        BY <2>1, <2>2, <2>3, NatBounds DEF NoMsg
<1>2. CASE x = run[r]
    BY <1>1, <1>2, MsgStays
<1>3. CASE RunDoes(r, x)
    <2>1. CASE Starts(r, x)
        BY <2>1, MsgStays DEF Starts
    <2>2. CASE ~Starts(r, x)
        BY <1>1, <1>3, <2>2, MsgStays DEF RunDoes, Stops, Fetches, AsksAdvance, AsksFailed, Asks,
           AsksAgain, SameWork, GoesOn, Finishes, Waiting
    <2> QED
        BY <2>1, <2>2
<1> QED
    BY <1>2, <1>3, RunStays

LEMMA NoErrorsStep == Inv /\ NoErrors /\ [Next]_vars /\ faults' = 0 => NoErrors'
<1> SUFFICES ASSUME Inv, NoErrors, [Next]_vars, faults' = 0, NEW d \in Calls
             PROVE  call'[d].pc # "error"
    BY DEF NoErrors
<1>1. call \in [Calls -> Api!Active \cup [pc : Api!Answers]] /\ call[d].pc # "error"
    BY DEF Inv, Api!TypeOK, NoErrors
<1>2. ASSUME NEW c \in Calls, Api!Read(c) PROVE call'[d].pc # "error"
    <2>1. call[c] \in Api!Active
        BY <1>1, <1>2 DEF Api!Read, Api!Answers
    <2> QED
        BY <1>1, <1>2, <2>1 DEF Api!Read, Api!Answer, Api!Active
<1>3. ASSUME NEW c \in Calls, Api!Write(c), call'[c].pc = "ok" PROVE call'[d].pc # "error"
    BY <1>1, <1>3 DEF Api!Write, Api!Answer
<1>4. ASSUME NEW c \in Calls, NEW j, NEW q, Api!Begin(c, j, q) PROVE call'[d].pc # "error"
    BY <1>1, <1>4 DEF Api!Begin
<1> QED
    BY <1>1, <1>2, <1>3, <1>4, NoFailure

(* The call of a run that is at its first stage ends.                      *)
LEMMA FirstStage ==
    ASSUME Inv, AskedOK, InOrder, InOrder', [Next]_vars, faults' = 0, NEW r \in Runs,
           run[r].phase = "advancing", run[r].stage = "queued",
           NEW c, NEW j, c = run[r].slot, j = run[r].job, Api!Busy(c), ~Api!Busy(c)',
           call'[c].pc # "ok" => "queued" \in seen[j]
    PROVE  MovedOn(j)'
<1>1. c \in Calls /\ j \in Jobs
    BY DEF Inv, RunsOK, GoodRun
<1>2. call[c].job = j /\ call[c].req = <<"queued", "downloading">>
    BY DEF AskedOK, Waiting, Advance
<1>3. call \in [Calls -> Api!Active \cup [pc : Api!Answers]]
    BY DEF Inv, Api!TypeOK
<1>4. status[j] \in seen[j] /\ status' \in [Jobs -> Status] /\ status'[j] \in seen'[j]
    BY <1>1, InvStep DEF Inv, Api!TypeOK, Api!Status, Status
<1>5. Api!Busy(c) /\ ~(call'[c].pc \in {"read", "write"})
      /\ (call'[c].pc # "ok" => "queued" \in seen[j])
    BY DEF Api!Busy
<1>6. ASSUME "downloading" \in seen[j] PROVE "queued" \in seen[j]
    BY <1>1, <1>6 DEF InOrder, ApiProofs!StagesBefore
<1>7. ASSUME "downloading" \in seen'[j] PROVE "queued" \in seen'[j]
    BY <1>1, <1>7 DEF InOrder, ApiProofs!StagesBefore
<1>8. ASSUME Api!Read(c) PROVE MovedOn(j)'
    <2>1. /\ UNCHANGED <<status, seen>>
          /\ \/ status[j] = "downloading"
             \/ status[j] # "queued" /\ call' = [call EXCEPT ![c] = [pc |-> "stale"]]
             \/ ~Api!canTransition("queued", "downloading")
             \/ call' = [call EXCEPT ![c].pc = "write"]
        BY <1>2, <1>8 DEF Api!Read, Api!Answer
    <2>2. Api!canTransition("queued", "downloading")
        BY DEF Api!canTransition, Api!validTransitions, Api!Terminal, Api!Status, Api!Advance
    <2>3. call[c] \in Api!Active
        BY <1>1, <1>3, <1>5 DEF Api!Busy, Api!Answers
    <2>4. call' # [call EXCEPT ![c].pc = "write"]
        BY <1>1, <1>3, <1>5, <2>3 DEF Api!Active
    <2>5. ASSUME call' = [call EXCEPT ![c] = [pc |-> "stale"]] PROVE "queued" \in seen[j]
        BY <1>1, <1>3, <1>5, <2>5
    <2> QED
        BY <1>4, <1>6, <2>1, <2>2, <2>4, <2>5 DEF MovedOn
<1>9. ASSUME Api!Write(c) PROVE MovedOn(j)'
    <2>1. status'[j] = "downloading"
        BY <1>1, <1>2, <1>9 DEF Api!Write, Inv, Api!TypeOK
    <2> QED
        BY <1>4, <1>7, <2>1 DEF MovedOn
<1>10. Api!Read(c) \/ Api!Write(c)
    <2>1. ASSUME NEW d \in Calls, d # c, Api!Read(d) \/ Api!Write(d) PROVE call'[c] = call[c]
        BY <1>1, <1>3, <2>1 DEF Api!Read, Api!Write, Api!Answer
    <2>2. ASSUME NEW d \in Calls, NEW k, NEW q, Api!Begin(d, k, q) PROVE call'[c] = call[c]
        <3>1. d # c
            BY <1>5, <2>2, BeginFacts
        <3> QED
            BY <1>1, <2>2, <3>1, BeginFacts
    <2>3. call'[c] # call[c]
        BY <1>5 DEF Api!Busy
    <2> QED
        BY <2>1, <2>2, <2>3, NoFailure
<1> QED
    BY <1>8, <1>9, <1>10

(* A run returns by itself when it has finished, been refused or found no  *)
(* profile, or when its client's time is out.                              *)
LEMMA ProcessedBy ==
    ASSUME [Next]_vars
    PROVE  \/ UNCHANGED processed
           \/ \E r \in Runs : /\ processed' = processed \cup ({run[r].msg} \ {NoMsg})
                             /\ \/ run[r].phase = "advancing" /\ Advance[run[r].stage] = "completed"
                                \/ Refused(r) \/ NoProfile(r) \/ TimesOut(r)
<1>1. ASSUME NEW r \in Runs, Advanced(r)
      PROVE  \/ UNCHANGED processed
             \/ /\ processed' = processed \cup ({run[r].msg} \ {NoMsg})
                /\ run[r].phase = "advancing" /\ Advance[run[r].stage] = "completed"
    BY <1>1 DEF Advanced, Return
<1>2. ASSUME NEW r \in Runs, Refused(r) \/ NoProfile(r) \/ TimesOut(r)
      PROVE  processed' = processed \cup ({run[r].msg} \ {NoMsg})
    BY <1>2 DEF Refused, NoProfile, TimesOut, Return
<1>3. \/ UNCHANGED processed
      \/ \E r \in Runs : Advanced(r) \/ Refused(r) \/ NoProfile(r) \/ TimesOut(r)
    BY DEF Next, vars, queue, HandlerStep, TranscodeVideo, Serve, ServeFails, cancelJob, Request,
       CompleteMultipartUpload, CreateVideoMeta, PutSource, Enqueue, Respond, TakeMessage,
       FetchOutput, DownloadOutputVideo, Work, WorkFails, Retry, Crash, Stale, Ack
<1> QED
    BY <1>1, <1>2, <1>3

LEMMA OnItsWayStep ==
    ASSUME Inv, AllDue, \A j \in Jobs : OneQueues(j), AskedOK, MsgOK, InOrder, InOrder', InStep,
           NoErrors, OnItsWay, [Next]_vars, faults' = 0
    PROVE  OnItsWay'
<1>1. ~MayFail
    BY NoFailure
<1>2. ASSUME NEW r \in Runs, Past(r), NEW j, j = run[r].job PROVE MovedOn(j)'
    <2>1. j \in Jobs
        BY <1>2 DEF Past, Inv, RunsOK, GoodRun
    <2> QED
        BY <1>2, <2>1, MovedStays DEF OnItsWay
<1>3. ASSUME NEW r \in Runs, NEW y, y = run'[r],
             \/ y.phase = "reporting"
             \/ y.phase \in {"work", "advancing"} /\ y.stage # "queued"
             \/ /\ y.phase = "advancing" /\ call'[y.slot].pc \notin {"read", "write"}
                /\ r \in Workers \/ call'[y.slot].pc = "ok"
      PROVE  MovedOn(y.job)'
    <2>1. ASSUME y = run[r], ~Past(r) PROVE MovedOn(y.job)'
        <3>1. /\ y.phase = "advancing" /\ y.stage = "queued"
              /\ call'[y.slot].pc \notin {"read", "write"}
              /\ r \in Workers \/ call'[y.slot].pc = "ok"
            BY <1>3, <2>1 DEF Past
        <3>2. y.slot \in Calls /\ ~Api!Busy(y.slot)'
            BY <2>1, <3>1 DEF Inv, RunsOK, GoodRun, Api!Busy
        <3>3. Api!Busy(y.slot)
            <4>1. SUFFICES ASSUME ~Api!Busy(y.slot) PROVE FALSE
                OBVIOUS
            <4>2. call[y.slot].pc # "ok" /\ r \notin Workers
                BY <2>1, <3>1, <4>1 DEF Past, Answer
            <4>3. call'[y.slot] = call[y.slot]
                BY <3>2, <4>1, CallCases, BeginFacts
            <4> QED
                BY <3>1, <4>2, <4>3
        <3>4. r \in Workers => "queued" \in seen[y.job]
            BY <2>1, <3>1 DEF InStep
        <3> QED
            BY <2>1, <3>1, <3>2, <3>3, <3>4, FirstStage
    <2>2. ASSUME y = run[r], Past(r) PROVE MovedOn(y.job)'
        BY <1>2, <2>2
    <2>3. ASSUME RunDoes(r, y) PROVE MovedOn(y.job)'
        <3>1. ASSUME Past(r), SameWork(r, y) PROVE MovedOn(y.job)'
            BY <1>2, <3>1 DEF SameWork
        <3>2. CASE Starts(r, y) \/ Stops(r, y) \/ Fetches(r, y) \/ Finishes(r, y)
            BY <1>3, <3>2 DEF Starts, Stops, Fetches, Finishes
        <3>3. CASE AsksAdvance(r, y)
            <4>1. y.slot \in Calls /\ Api!Begin(y.slot, y.job, <<y.stage, Advance[y.stage]>>)
                  /\ y.stage = run[r].stage /\ run[r].phase = "work" /\ SameWork(r, y)
                BY <3>3 DEF AsksAdvance, Asks
            <4>2. call'[y.slot].pc \in {"read", "write"} /\ call'[y.slot].pc # "ok"
                BY <4>1, BeginFacts DEF Api!Busy
            <4>3. y.phase = "advancing"
                BY <3>3 DEF AsksAdvance
            <4>4. y.stage # "queued"
                BY <1>3, <4>2, <4>3
            <4> QED
                BY <3>1, <4>1, <4>4 DEF Past
        <3>4. CASE AsksFailed(r, y)
            BY <3>1, <3>4 DEF AsksFailed, Asks, Past
        <3>5. CASE AsksAgain(r, y)
            <4>1. run[r].slot \in Calls
                BY <3>5 DEF AsksAgain, Waiting, Inv, RunsOK, GoodRun
            <4> QED
                BY <3>5, <4>1 DEF AsksAgain, NoErrors, Answer
        <3>6. CASE GoesOn(r, y)
            BY <3>1, <3>6 DEF GoesOn, Past, Answer, Api!Busy
        <3> QED
            BY <2>3, <3>2, <3>3, <3>4, <3>5, <3>6 DEF RunDoes
    <2> QED
        BY <1>3, <2>1, <2>2, <2>3, RunStays
<1>4. ASSUME NEW r \in Runs, run[r].phase \in {"work", "advancing", "reporting"},
             run[r].msg # NoMsg,
             \/ run[r].phase = "advancing" /\ Advance[run[r].stage] = "completed"
             \/ Refused(r) \/ NoProfile(r) \/ TimesOut(r)
      PROVE  Past(r) /\ run[r].job = msgs[run[r].msg]
    <2>1. r \in Workers /\ run[r].job = msgs[run[r].msg]
        BY <1>4 DEF MsgOK
    <2>2. run[r].job \in Jobs
        BY <1>4 DEF Inv, RunsOK, GoodRun
    <2>3. CASE run[r].phase = "advancing" /\ Advance[run[r].stage] = "completed"
        BY <2>1, <2>3 DEF Past, Advance
    <2>4. CASE Refused(r)
        BY <2>1, <2>4 DEF Refused, Waiting, Past
    <2>5. CASE NoProfile(r)
        <3>1. "queued" \in seen[run[r].job] /\ run[r].stage = "queued"
            BY <1>4, <2>1, <2>5 DEF InStep, NoProfile
        <3>2. Ready(r)
            BY <2>2, <3>1 DEF AllDue, Due, Ready
        <3> QED
            BY <1>1, <2>5, <3>2 DEF NoProfile
    <2>6. CASE TimesOut(r)
        BY <1>1, <2>6 DEF TimesOut
    <2> QED
        BY <1>4, <2>3, <2>4, <2>5, <2>6
<1>5. ASSUME NEW m \in processed' PROVE MovedOn(msgs[m])' /\ m \in 1..Len(msgs)
    <2>1. ASSUME m \in processed PROVE MovedOn(msgs[m])' /\ m \in 1..Len(msgs)
        <3>1. m \in 1..Len(msgs) /\ MovedOn(msgs[m])
            BY <2>1 DEF OnItsWay, Inv, QueueOK
        <3>2. msgs[m] \in Jobs /\ msgs'[m] = msgs[m]
            BY <3>1, MsgStays
        <3> QED
            BY <3>1, <3>2, MovedStays DEF MovedOn
    <2>2. ASSUME NEW r \in Runs, m = run[r].msg, m # NoMsg,
                 \/ run[r].phase = "advancing" /\ Advance[run[r].stage] = "completed"
                 \/ Refused(r) \/ NoProfile(r) \/ TimesOut(r)
          PROVE  MovedOn(msgs[m])' /\ m \in 1..Len(msgs)
        <3>1. run[r].phase \in {"work", "advancing", "reporting"}
            BY <2>2 DEF Refused, NoProfile, TimesOut, Waiting
        <3>2. PICK j : j = msgs[m]
            OBVIOUS
        <3>3. MovedOn(j)'
            BY <1>2, <1>4, <2>2, <3>1, <3>2
        <3>4. m \in 1..Len(msgs)
            <4>1. m \in 0..MaxMsgs /\ m <= Len(msgs) /\ Len(msgs) \in Nat
                BY <2>2 DEF Inv, RunsOK, RunStates, GoodRun, QueueOK
            <4> QED
                BY <2>2, <4>1, NatBounds DEF NoMsg
        <3>5. msgs'[m] = msgs[m]
            BY <3>4, MsgStays
        <3> QED
            BY <3>2, <3>4, <3>5, <3>3 DEF MovedOn
    <2> QED
        BY <1>5, <2>1, <2>2, ProcessedBy
<1> QED
    BY <1>3, <1>5 DEF OnItsWay, Past, Answer, Api!Busy

(* As long as nothing has failed, and no worker is handed a job before the *)
(* handler that enqueued it has marked it queued, a queued job has a       *)
(* message that has not been processed: the one way, short of a failure, in*)
(* which a message is used up while its job stays queued is the worker that*)
(* is quicker than the handler.                                            *)
THEOREM QueuedAwaitsWorker ==
    Spec /\ []InStep =>
        [](faults = 0 => \A j \in Jobs : status[j] = "queued" =>
                            \E m \in 1..Len(msgs) : msgs[m] = j /\ m \notin processed)
<1> DEFINE Queues == \A j \in Jobs : OneQueues(j)
           NoneFailed == faults = 0 => NoErrors /\ OnItsWay
           Awaits == faults = 0 => \A j \in Jobs : status[j] = "queued" =>
                            \E m \in 1..Len(msgs) : msgs[m] = j /\ m \notin processed
<1>1. Init => AskedOK /\ MsgOK /\ NoneFailed
    BY DEF Init, Api!Init, Idle, AskedOK, MsgOK, NoErrors, OnItsWay, Past, Waiting
<1>2. Inv /\ AskedOK /\ MsgOK /\ [Next]_vars => AskedOK' /\ MsgOK'
    BY AskedStep, MsgStep
<1>3. Inv /\ AllDue /\ Queues /\ AskedOK /\ MsgOK /\ InOrder /\ InOrder' /\ InStep /\ NoneFailed
      /\ [Next]_vars => NoneFailed'
    <2>1. SUFFICES ASSUME Inv, AllDue, Queues, AskedOK, MsgOK, InOrder, InOrder', InStep,
                          NoErrors, OnItsWay, [Next]_vars, faults' = 0
                   PROVE  NoErrors' /\ OnItsWay'
        BY NoFailure
    <2> QED
        BY <2>1, NoErrorsStep, OnItsWayStep
<1>4. Inv /\ AllDue /\ NoneFailed => Awaits
    <2> SUFFICES ASSUME Inv, AllDue, OnItsWay, NEW j \in Jobs, status[j] = "queued"
                 PROVE  \E m \in 1..Len(msgs) : msgs[m] = j /\ m \notin processed
        OBVIOUS
    <2>1. "queued" \in seen[j]
        BY DEF Inv, Api!TypeOK
    <2>2. PICK m \in 1..Len(msgs) : msgs[m] = j
        BY <2>1 DEF AllDue, Due
    <2>3. m \notin processed
        BY <2>2 DEF OnItsWay, MovedOn
    <2> QED
        BY <2>2, <2>3
<1>5. Spec => []Queues
    BY OneQueuesInvariant, PTL DEF Queues
<1> HIDE DEF Queues, NoneFailed, Awaits
<1>6. Spec /\ []InStep => []Awaits
    BY <1>1, <1>2, <1>3, <1>4, <1>5, InOrderInvariant, AllDueInvariant, PTL DEF Spec
<1> QED
    BY <1>6 DEF Awaits
==============================================================================
