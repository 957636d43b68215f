---------------------------- MODULE JobPipeline ----------------------------
(***************************************************************************)
(* The life of a job across the web server, the queue and the transcoder:  *)
(* the two handlers that create metadata and enqueue a job                 *)
(* (internal/handler/handler.go, jobs_create.go), the TranscodeVideo runs  *)
(* that carry it through its stages (grpc/service/service.go), started by  *)
(* a worker for a message of the queue or by DownloadOutputVideo over RPC  *)
(* (internal/handler/jobs.go), and the user who cancels it.  They all      *)
(* change its status by TransitionTo, which StatusApi.tla models; of the   *)
(* queue, whose promises are those of WorkQueue.tla, they see messages     *)
(* that are given to a worker, perhaps again, until they are acknowledged. *)
(***************************************************************************)
EXTENDS JobStatus, Sequences, Naturals

CONSTANTS Jobs,          \* jobs whose row has been inserted
          Uploaded,      \* those inserted by InitiateMultipartUpload; POST /jobs the others
          Formats,       \* output formats
          Handlers,      \* requests that complete an upload or create a job
          Workers,       \* worker goroutines, of any number of pools
          Downloads,     \* requests for DownloadOutputVideo that need a transcode
          Calls,         \* the calls of TransitionTo that may be under way at once
          NoJob, NoFormat, NoCall,
          MP4,           \* the format TranscodeVideo takes when it is asked for none
          MaxRetries,    \* Retry.MaxRetries of the web client
          MaxMsgs,       \* bound: messages ever added
          MaxCancels,    \* bound: cancellations the users ask for
          MaxFaults      \* bound: crashes, timeouts, errors of a dependency

ASSUME PipelineAssumption ==
    /\ Uploaded \subseteq Jobs /\ MP4 \in Formats
    /\ Workers \cap Downloads = {}
    /\ NoJob \notin Jobs /\ NoFormat \notin Formats /\ NoCall \notin Calls
    /\ {MaxRetries, MaxMsgs, MaxCancels, MaxFaults} \subseteq Nat

VARIABLES
    status, call, seen,  \* as in StatusApi
    source,              \* the jobs whose source object is in the upload bucket
    meta,                \* meta[j], the format in the videometa row of j
    outputs,             \* outputs[j], the formats o such that <j>.<o> is in the download bucket
    msgs,                \* the messages ever added to the queue, each a job
    taken,               \* the messages delivered and not up for delivery again
    processed, acked,    \* as in WorkQueue
    api,                 \* api[h], the state of a handler
    run,                 \* run[r], the state of a TranscodeVideo
    faults, cancels

server == <<status, call, seen>>
storage == <<source, meta, outputs>>
queue == <<msgs, taken, processed, acked>>
vars == <<server, storage, queue, api, run, faults, cancels>>

Api == INSTANCE StatusApi WITH Requests <- Status \X Status

Runs == Workers \cup Downloads
NoMsg == 0

Idle == [phase |-> "idle", job |-> NoJob, stage |-> "queued", format |-> NoFormat,
         msg |-> NoMsg, slot |-> NoCall, tries |-> 0]
Answered == [Idle EXCEPT !.phase = "done"]
Missing == [Idle EXCEPT !.phase = "missing"]   \* the output was looked for and not found

Init == /\ Api!Init
        /\ source = {} /\ meta = [j \in Jobs |-> NoFormat] /\ outputs = [j \in Jobs |-> {}]
        /\ msgs = <<>> /\ taken = {} /\ processed = {} /\ acked = {}
        /\ api = [h \in Handlers |-> [pc |-> "none", job |-> NoJob, slot |-> NoCall]]
        /\ run = [r \in Runs |-> Idle]
        /\ faults = 0 /\ cancels = 0

MayFail == faults < MaxFaults /\ faults' = faults + 1

-----------------------------------------------------------------------------
(* The calls of TransitionTo, each a request of its own to the server.     *)
Awaited == {api[h].slot : h \in Handlers} \cup {run[r].slot : r \in Runs}

Serve(c) ==
    /\ Api!Read(c) \/ (Api!Write(c) /\ call'[c].pc = "ok")
    /\ UNCHANGED <<storage, queue, api, run, faults, cancels>>

ServeFails(c) ==
    /\ Api!Fail(c) \/ (Api!Write(c) /\ call'[c].pc = "error")
    /\ MayFail
    /\ UNCHANGED <<storage, queue, api, run, cancels>>

(* A user cancels the job from a status that was displayed, maybe long ago.*)
cancelJob(j) ==
    /\ cancels < MaxCancels /\ cancels' = cancels + 1
    /\ \E c \in Calls \ Awaited, s \in seen[j] : Api!Begin(c, j, <<s, "cancelled">>)
    /\ UNCHANGED <<storage, queue, api, run, faults>>

-----------------------------------------------------------------------------
(* CompleteMultipartUploadHandler and CreateJob.                           *)
HandlerGoes(h, pc) == api' = [api EXCEPT ![h].pc = pc]

HandlerFails(h) ==
    api' = [api EXCEPT ![h] = [@ EXCEPT !.pc = "failed", !.slot = NoCall]]

(* A request to complete the upload of j arrives, or CreateJob has         *)
(* inserted j.                                                             *)
Request(h, j) ==
    /\ api[h].pc = "none"
    /\ \/ j \in Uploaded /\ api' = [api EXCEPT ![h] = [@ EXCEPT !.pc = "upload", !.job = j]]
       \/ /\ j \notin Uploaded /\ \A g \in Handlers : api[g].job # j
          /\ api' = [api EXCEPT ![h] = [@ EXCEPT !.pc = "meta", !.job = j]]
    /\ UNCHANGED <<server, storage, queue, run, faults, cancels>>

(* MinIO completes an upload once; its reply may be lost.                  *)
CompleteMultipartUpload(h) ==
    /\ api[h].pc = "upload"
    /\ \/ /\ api[h].job \notin source /\ source' = source \cup {api[h].job}
          /\ \/ HandlerGoes(h, "meta") /\ UNCHANGED faults
             \/ HandlerFails(h) /\ MayFail
       \/ api[h].job \in source /\ HandlerFails(h) /\ UNCHANGED <<source, faults>>
       \/ HandlerFails(h) /\ MayFail /\ UNCHANGED source
    /\ UNCHANGED <<server, meta, outputs, queue, run, cancels>>

(* Someone puts the source object of a job made by POST /jobs in place.    *)
PutSource(j) ==
    /\ j \in Jobs \ (Uploaded \cup source)
    /\ source' = source \cup {j}
    /\ UNCHANGED <<server, meta, outputs, queue, api, run, faults, cancels>>

(* buildVideoMetadata and CreateVideoMeta.  The request may name no valid  *)
(* preset, lack a field, or be the second for its job.                     *)
CreateVideoMeta(h) ==
    /\ api[h].pc = "meta"
    /\ \/ /\ meta[api[h].job] = NoFormat
          /\ \E f \in Formats : meta' = [meta EXCEPT ![api[h].job] = f]
          /\ \/ HandlerGoes(h, "enqueue") /\ UNCHANGED faults
             \/ HandlerFails(h) /\ MayFail
       \/ HandlerFails(h) /\ UNCHANGED <<meta, faults>>
    /\ UNCHANGED <<server, source, outputs, queue, run, cancels>>

AddMessage(h) == /\ Len(msgs) < MaxMsgs
                 /\ msgs' = Append(msgs, api[h].job)

ToQueued(h) ==
    \E c \in Calls \ Awaited :
        /\ Api!Begin(c, api[h].job, <<"pending", "queued">>)
        /\ api' = [api EXCEPT ![h] = [@ EXCEPT !.pc = "transition", !.slot = c]]

(* Mutation: the handler goes on although Enqueue returned an error.       *)
EnqueueUnchecked(h) ==
    /\ api[h].pc = "enqueue"
    /\ AddMessage(h) \/ UNCHANGED msgs
    /\ ToQueued(h)
    /\ UNCHANGED <<storage, taken, processed, acked, run, faults, cancels>>

(* Enqueue, upon which the handler calls TransitionTo.  When the reply is  *)
(* lost the Redis client tries again, or gives up with an error.           *)
Enqueue(h) ==
    /\ api[h].pc = "enqueue"
    /\ \/ AddMessage(h) /\ ToQueued(h) /\ UNCHANGED faults
       \/ AddMessage(h) /\ UNCHANGED <<server, api>> /\ MayFail
       \/ (AddMessage(h) \/ UNCHANGED msgs) /\ HandlerFails(h) /\ UNCHANGED server /\ MayFail
    /\ UNCHANGED <<storage, taken, processed, acked, run, cancels>>

(* The handler answers 200 ("ok") or an error.                             *)
Respond(h) ==
    /\ api[h].pc = "transition" /\ ~Api!Busy(api[h].slot)
    /\ IF call[api[h].slot].pc = "ok"
       THEN api' = [api EXCEPT ![h] = [@ EXCEPT !.pc = "ok", !.slot = NoCall]]
       ELSE HandlerFails(h)
    /\ UNCHANGED <<server, storage, queue, run, faults, cancels>>

-----------------------------------------------------------------------------
(* TranscodeVideo.  A run is at a stage of the job; its "work" there done, *)
(* it is "advancing" to the next stage until TransitionTo has answered or, *)
(* the work having failed, "reporting" the failure.                        *)
Start(r, j, f, m) ==
    run' = [run EXCEPT ![r] = [Idle EXCEPT !.phase = "work", !.job = j, !.format = f, !.msg = m]]

(* Mutation: the format a run takes by default is the one of the source.   *)
TakeMessageAnyFormat(r, m) ==
    /\ run[r].phase = "idle"
    /\ m \in 1..Len(msgs) /\ m \notin taken \cup acked
    /\ taken' = taken \cup {m}
    /\ \E f \in Formats : Start(r, msgs[m], f, m)
    /\ UNCHANGED <<server, storage, msgs, processed, acked, api, faults, cancels>>

(* A worker is given message m; its request has no output format.          *)
TakeMessage(r, m) ==
    /\ run[r].phase = "idle"
    /\ m \in 1..Len(msgs) /\ m \notin taken \cup acked
    /\ taken' = taken \cup {m}
    /\ Start(r, msgs[m], MP4, m)
    /\ UNCHANGED <<server, storage, msgs, processed, acked, api, faults, cancels>>

(* A delivered message becomes stale, its run still under way or its Ack   *)
(* not through: another pool may be given it.                              *)
Stale(m) ==
    /\ m \in taken \ acked /\ MayFail
    /\ taken' = taken \ {m}
    /\ UNCHANGED <<server, storage, msgs, processed, acked, api, run, cancels>>

(* Mutation: the RPC leaves the output format out, as the worker does.     *)
DownloadAnyFormat(r, j) ==
    /\ run[r].phase = "idle" /\ meta[j] # NoFormat
    /\ Start(r, j, MP4, NoMsg)
    /\ UNCHANGED <<server, storage, queue, api, faults, cancels>>

(* DownloadOutputVideo read a status other than "completed", whatever the  *)
(* status is by now, and then the metadata; or it read "completed".        *)
DownloadOutputVideo(r, j) ==
    /\ run[r].phase = "idle"
    /\ \/ meta[j] # NoFormat /\ Start(r, j, meta[j], NoMsg)
       \/ status[j] = "completed" /\ run' = [run EXCEPT ![r] = [Idle EXCEPT !.phase = "fetch", !.job = j]]
    /\ UNCHANGED <<server, storage, queue, api, faults, cancels>>

(* resolveOutputURL: the output has the format of the metadata.            *)
outputFormat(j) == IF meta[j] = NoFormat THEN MP4 ELSE meta[j]

(* GET of the presigned URL: the object is there or MinIO answers 404.     *)
Get(r, f) == run' = [run EXCEPT ![r] = IF f \in outputs[run[r].job] THEN Answered ELSE Missing]

(* The output is fetched and streamed, or an error answered.  If the       *)
(* metadata cannot be read, resolveOutputURL drops the error and takes MP4.*)
FetchOutput(r) ==
    /\ run[r].phase = "fetch"
    /\ \/ Get(r, outputFormat(run[r].job)) /\ UNCHANGED faults
       \/ Get(r, MP4) /\ MayFail
       \/ run' = [run EXCEPT ![r] = Answered] /\ MayFail
    /\ UNCHANGED <<server, storage, queue, api, cancels>>

transitionStatus(r, to, phase) ==
    \E c \in Calls \ Awaited :
        /\ Api!Begin(c, run[r].job, <<run[r].stage, to>>)
        /\ run' = [run EXCEPT ![r] = [@ EXCEPT !.phase = phase, !.slot = c, !.tries = 0]]

(* The run returns: a worker then has a result for its message, and the    *)
(* RPC's caller goes on to fetch the output if there is one.               *)
Return(r, success) ==
    /\ run' = [run EXCEPT ![r] =
                 IF r \in Workers THEN Idle
                 ELSE IF success THEN [@ EXCEPT !.phase = "fetch", !.slot = NoCall] ELSE Answered]
    /\ processed' = processed \cup ({run[r].msg} \ {NoMsg})

Ready(r) == /\ run[r].stage = "queued" => meta[run[r].job] # NoFormat
            /\ run[r].stage = "downloading" => run[r].job \in source

Uploads(r) == outputs' = [outputs EXCEPT ![run[r].job] = @ \cup {run[r].format}]

(* Mutation: "completed" is reported before the output is uploaded.        *)
WorkUnsaved(r) ==
    /\ run[r].phase = "work" /\ Ready(r)
    /\ transitionStatus(r, Advance[run[r].stage], "advancing")
    /\ UNCHANGED <<storage, queue, api, faults, cancels>>

(* Mutation: neither GetSourceURL nor ffprobe is asked for the source.     *)
WorkUnchecked(r) ==
    /\ run[r].phase = "work"
    /\ IF run[r].stage = "uploading" THEN Uploads(r) ELSE UNCHANGED outputs
    /\ transitionStatus(r, Advance[run[r].stage], "advancing")
    /\ UNCHANGED <<source, meta, queue, api, faults, cancels>>

(* What the stage is for is done: the profile fetched, the source found    *)
(* and valid, ffmpeg run, the output uploaded.                             *)
Work(r) ==
    /\ run[r].phase = "work" /\ Ready(r)
    /\ IF run[r].stage = "uploading" THEN Uploads(r) ELSE UNCHANGED outputs
    /\ transitionStatus(r, Advance[run[r].stage], "advancing")
    /\ UNCHANGED <<source, meta, queue, api, faults, cancels>>

(* Mutation: a failure is not reported.                                    *)
WorkFailsUnreported(r) ==
    /\ run[r].phase = "work" /\ run[r].stage # "queued"
    /\ Return(r, FALSE)
    /\ UNCHANGED <<server, storage, msgs, taken, acked, api, faults, cancels>>

(* It cannot be done, for a reason of the video's or of a dependency's.    *)
WorkFails(r) ==
    /\ run[r].phase = "work" /\ run[r].stage # "queued"
    /\ UNCHANGED outputs \/ (run[r].stage = "uploading" /\ Uploads(r))
    /\ transitionStatus(r, "failed", "reporting")
    /\ UNCHANGED <<source, meta, queue, api, faults, cancels>>

(* GetTranscodeProfile fails: the run returns with nothing reported.       *)
NoProfile(r) ==
    /\ run[r].phase = "work" /\ run[r].stage = "queued"
    /\ IF Ready(r) THEN MayFail ELSE UNCHANGED faults
    /\ Return(r, FALSE)
    /\ UNCHANGED <<server, storage, msgs, taken, acked, api, cancels>>

Waiting(r) == run[r].phase \in {"advancing", "reporting"}
Answer(r) == call[run[r].slot].pc

(* Mutation: a conflict is taken for a transition that another run made.   *)
AdvancedAnyway(r) ==
    /\ run[r].phase = "advancing" /\ Answer(r) \in {"ok", "stale"}
    /\ LET next == Advance[run[r].stage]
       IN  IF next = "completed" THEN Return(r, TRUE)
           ELSE /\ run' = [run EXCEPT ![r] = [@ EXCEPT !.phase = "work", !.stage = next,
                                                       !.slot = NoCall]]
                /\ UNCHANGED processed
    /\ UNCHANGED <<server, storage, msgs, taken, acked, api, faults, cancels>>

Advanced(r) ==
    /\ run[r].phase = "advancing" /\ Answer(r) = "ok"
    /\ LET next == Advance[run[r].stage]
       IN  IF next = "completed" THEN Return(r, TRUE)
           ELSE /\ run' = [run EXCEPT ![r] = [@ EXCEPT !.phase = "work", !.stage = next,
                                                       !.slot = NoCall]]
                /\ UNCHANGED processed
    /\ UNCHANGED <<server, storage, msgs, taken, acked, api, faults, cancels>>

MayRetry(r) == Answer(r) = "error" /\ run[r].tries < MaxRetries

(* Retry.Do: status 500 is retried, 400 and 409 are not.                   *)
Retry(r) ==
    /\ Waiting(r) /\ MayRetry(r)
    /\ LET to == IF run[r].phase = "advancing" THEN Advance[run[r].stage] ELSE "failed"
       IN  Api!Begin(run[r].slot, run[r].job, <<run[r].stage, to>>)
    /\ run' = [run EXCEPT ![r].tries = @ + 1]
    /\ UNCHANGED <<storage, queue, api, faults, cancels>>

(* The transition was refused, or the answer to the report, which is       *)
(* ignored, has come: the run returns and changes the status no more.      *)
Refused(r) ==
    /\ Waiting(r) /\ ~Api!Busy(run[r].slot) /\ ~MayRetry(r)
    /\ Answer(r) = "ok" => run[r].phase = "reporting"
    /\ Return(r, FALSE)
    /\ UNCHANGED <<server, storage, msgs, taken, acked, api, faults, cancels>>

(* The client's timeout: not retried, and the server's call lives on.      *)
TimesOut(r) ==
    /\ Waiting(r) /\ Api!Busy(run[r].slot) /\ MayFail
    /\ Return(r, FALSE)
    /\ UNCHANGED <<server, storage, msgs, taken, acked, api, cancels>>

(* The transcoder process stops, or the caller of the RPC goes away.  The  *)
(* message, unacknowledged, is delivered again when it is stale.           *)
Crash(r) ==
    /\ run[r].phase = "work" \/ Waiting(r)
    /\ MayFail
    /\ run' = [run EXCEPT ![r] = IF r \in Workers THEN Idle ELSE Answered]
    /\ taken' = taken \ {run[r].msg}
    /\ UNCHANGED <<server, storage, msgs, processed, acked, api, cancels>>

(* Mutation: a worker's message is acknowledged before it is transcoded.   *)
AckEarly(m) ==
    /\ m \in taken \ acked
    /\ acked' = acked \cup {m}
    /\ UNCHANGED <<server, storage, msgs, taken, processed, api, run, faults, cancels>>

(* handleResults acknowledges every result, that of a failed run too.      *)
Ack(m) ==
    /\ m \in processed \ acked
    /\ acked' = acked \cup {m}
    /\ UNCHANGED <<server, storage, msgs, taken, processed, api, run, faults, cancels>>

-----------------------------------------------------------------------------
HandlerStep(h) == CompleteMultipartUpload(h) \/ CreateVideoMeta(h) \/ Enqueue(h) \/ Respond(h)

TranscodeVideo(r) == Work(r) \/ WorkFails(r) \/ Advanced(r) \/ Retry(r) \/ Refused(r)

Next == \/ \E c \in Calls : Serve(c) \/ ServeFails(c)
        \/ \E j \in Jobs : cancelJob(j) \/ PutSource(j)
        \/ \E h \in Handlers : HandlerStep(h) \/ \E j \in Jobs : Request(h, j)
        \/ \E r \in Workers, m \in 1..MaxMsgs : TakeMessage(r, m)
        \/ \E r \in Downloads : FetchOutput(r) \/ \E j \in Jobs : DownloadOutputVideo(r, j)
        \/ \E r \in Runs : TranscodeVideo(r) \/ NoProfile(r) \/ TimesOut(r) \/ Crash(r)
        \/ \E m \in 1..MaxMsgs : Stale(m) \/ Ack(m)

Spec == Init /\ [][Next]_vars

(* Servers, handlers, runs and pools go on; nobody has to ask for anything.*)
Fairness == /\ \A c \in Calls : WF_vars(Serve(c))
            /\ \A h \in Handlers : WF_vars(HandlerStep(h))
            /\ \A r \in Runs : WF_vars(TranscodeVideo(r))
            /\ \A m \in 1..MaxMsgs : WF_vars(\E r \in Workers : TakeMessage(r, m))
            /\ \A m \in 1..MaxMsgs : WF_vars(Ack(m))

FairSpec == Spec /\ Fairness

-----------------------------------------------------------------------------
HandlerStates == [pc : {"none", "upload", "meta", "enqueue", "transition", "ok", "failed"},
                  job : Jobs \cup {NoJob}, slot : Calls \cup {NoCall}]
RunStates == [phase : {"idle", "work", "advancing", "reporting", "fetch", "missing", "done"},
              job : Jobs \cup {NoJob}, stage : DOMAIN Advance, format : Formats \cup {NoFormat},
              msg : 0..MaxMsgs, slot : Calls \cup {NoCall}, tries : 0..MaxRetries]

(* Every variable has its type, and no two processes await the same call.  *)
TypeOK ==
    /\ Api!TypeOK
    /\ source \subseteq Jobs /\ meta \in [Jobs -> Formats \cup {NoFormat}]
    /\ outputs \in [Jobs -> SUBSET Formats]
    /\ msgs \in Seq(Jobs) /\ Len(msgs) <= MaxMsgs
    /\ taken \subseteq 1..Len(msgs) /\ acked \subseteq processed /\ processed \subseteq 1..Len(msgs)
    /\ api \in [Handlers -> HandlerStates] /\ run \in [Runs -> RunStates]
    /\ faults \in 0..MaxFaults /\ cancels \in 0..MaxCancels
    /\ \A r \in Runs : /\ Waiting(r) => run[r].slot \in Calls
                       /\ \A h \in Handlers : run[r].slot = api[h].slot => run[r].slot = NoCall
                       /\ \A s \in Runs \ {r} : run[r].slot = run[s].slot => run[r].slot = NoCall

(* Whatever fails, a job that has been queued has a message in the queue   *)
(* and the metadata its transcode starts from: no order of a handler's     *)
(* steps leaves it to workers who never hear of it.                        *)
QueuedWasEnqueued ==
    \A j \in Jobs : "queued" \in seen[j] =>
        meta[j] # NoFormat /\ \E m \in 1..Len(msgs) : msgs[m] = j

(* No job is ever processing whose source was not in the upload bucket     *)
(* before, though it may be enqueued without one and be transcoded by      *)
(* several runs that take each other's statuses for their own.             *)
ProcessedFromSource == \A j \in Jobs : "processing" \in seen[j] => j \in source

(* A job is not completed before some run has uploaded an output of it,    *)
(* however late a write of the status takes effect.                        *)
CompletedHasOutput == \A j \in Jobs : "completed" \in seen[j] => outputs[j] # {}

(* Nobody acts on what has not happened, although answers are lost, writes *)
(* come late and a run may take another's transition for its own: whoever  *)
(* is answered 200 has a job that was queued, and a run at work at a stage,*)
(* or done, has a job that has been there.                                 *)
NoneAhead ==
    /\ \A h \in Handlers : api[h].pc = "ok" => "queued" \in seen[api[h].job]
    /\ \A r \in Runs :
          /\ run[r].phase \in {"work", "advancing", "reporting"} /\ run[r].stage # "queued" =>
                run[r].stage \in seen[run[r].job]
          /\ run[r].phase = "fetch" /\ run[r].stage = "uploading" =>
                "completed" \in seen[run[r].job]

(* A job whose metadata name the format that the workers take has the      *)
(* object resolveOutputURL names once it has been completed: by whichever  *)
(* runs, the RPC's among them.                                             *)
MP4IsDownloadable ==
    \A j \in Jobs : "completed" \in seen[j] /\ outputFormat(j) = MP4 => MP4 \in outputs[j]

(* A DownloadOutputVideo whose own transcode succeeded finds the object    *)
(* resolveOutputURL names, whichever runs and cancellations race with it:  *)
(* unless the metadata, which name another format than MP4, could not be   *)
(* read when the name was made.                                            *)
DownloadFinds ==
    [][\A r \in Downloads :
          /\ run[r].phase = "fetch" /\ run[r].stage = "uploading"
          /\ run'[r].phase = "missing"
          => faults' # faults /\ outputFormat(run[r].job) # MP4]_vars

(* README.md:68, "GET /jobs/:id/output-url or GET /jobs/:id/download" for  *)
(* a job that is completed: the object they name is there.                 *)
CompletedIsDownloadable ==
    \A j \in Jobs : status[j] = "completed" => outputFormat(j) \in outputs[j]

(* As long as nothing fails, a job that is in progress is carried by a     *)
(* run: whichever run wrote the status last is at that stage and goes on,  *)
(* even if other runs and late writes of theirs went before.               *)
InProgress == {"downloading", "processing", "uploading"}
Carried(j) ==
    \E r \in Runs : /\ run[r].job = j /\ run[r].phase \in {"work", "advancing", "reporting"}
                    /\ \/ run[r].stage = status[j]
                       \/ run[r].phase = "advancing" /\ Advance[run[r].stage] = status[j]
InProgressIsCarried == \A j \in Jobs : status[j] \in InProgress => Carried(j)

(* README.md:17, "Async worker pool with retries/backoff on dependency     *)
(* failures", and grpc/weberror/error.go:36, which counts network errors   *)
(* among the retryable ones: when the message of a job in progress is      *)
(* acknowledged, which ends the retries, some run carries the job on.      *)
AckedIsCarried ==
    [][\A m \in 1..Len(msgs) :
          m \in acked' \ acked /\ status[msgs[m]] \in InProgress => Carried(msgs[m])]_vars

(* So every transcode that has begun ends: the job is completed, failed or *)
(* cancelled.                                                              *)
BegunEnds == \A j \in Jobs : status[j] = "downloading" ~> status[j] \in Terminal

(* README.md:67, "Poll GET /status/:id/update until terminal state": a job *)
(* whose upload was answered 200 reaches a terminal state.                 *)
PollEnds ==
    \A h \in Handlers, j \in Jobs :
        (api[h].pc = "ok" /\ api[h].job = j) ~> status[j] \in Terminal
=============================================================================
