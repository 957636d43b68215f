------------------------------- MODULE Frontend -------------------------------
(***************************************************************************)
(* A page of the web front end: the upload form (UploadForm.vue), which    *)
(* uploads one file at a time, part by part, and the store of job cards    *)
(* (jobStore.js), which polls the status of jobs, cancels and clears them  *)
(* (Home.vue).  It talks to UploadApi.tla, puts the parts into MinIO with  *)
(* the presigned URLs, and watches jobs that move as JobLifecycle.tla      *)
(* promises: the handler that completes an upload is one step here, its    *)
(* own steps being those of JobPipeline.tla.                               *)
(***************************************************************************)
EXTENDS UploadApi, JobStatus, TranscodeArgs, Sequences, FiniteSets

CONSTANTS FileSizes, PartSizes,  \* what a user may upload, and enter in the form
          MaxRetries,            \* form.maxRetries
          Picks, Overrides,      \* the presets a user may pick, and override by what
          MaxPolls,              \* bound: polls of a job unanswered at once
          MaxStatuses,           \* bound: statuses others bring a job to have had
          NoUpload

ASSUME FrontendAssumption ==
    /\ FileSizes \subseteq Nat /\ PartSizes \subseteq Nat
    /\ MaxRetries \in Nat /\ MaxPolls \in Nat \ {0, 1} /\ MaxStatuses \in Nat
    /\ NoUpload \notin Uploads /\ Picks \subseteq DOMAIN catalog

VARIABLES status, seen,     \* the status column, and the statuses each job has had
          stored,           \* stored[u], the bytes first..last-1 of each part put in MinIO
          object,           \* object[u], the parts the object was assembled of
          meta,             \* meta[u], the row in videometa, or Refused
          presets,          \* whether the page has the list of presets
          form,             \* what the upload form is doing
          card,             \* card[u], an entry of activeJobs
          timer,            \* the uploads with an entry in pollingIntervals
          poll,             \* poll[u][i], the polls of u: the first, then the timer's
          cancel,           \* cancel[u], a request to cancel u
          closed            \* the page has been left

jobs == <<status, seen, meta>>
minio == <<stored, object>>
store == <<card, timer, poll, cancel>>
page == <<presets, closed>>
vars == <<initVars, jobs, minio, form, store, page>>

Lifecycle == INSTANCE JobLifecycle WITH Jobs <- Uploads

NoChoice == [preset |-> "", overrides |-> <<>>]
FormIdle == [upload |-> NoUpload, pc |-> "idle", asked |-> 0, part |-> 1, retries |-> 0, done |-> <<>>,
             config |-> NoChoice, live |-> NoChoice]
NoCard == [key |-> "none", id |-> "none", shown |-> "pending"]
Free == [pc |-> "free", answer |-> "error"]
Slots == 1..MaxPolls

Init == /\ InitiateInit
        /\ Lifecycle!LCInit
        /\ stored = [u \in Uploads |-> <<>>] /\ object = [u \in Uploads |-> <<>>]
        /\ meta = [u \in Uploads |-> Refused]
        /\ form = FormIdle /\ presets = FALSE
        /\ card = [u \in Uploads |-> NoCard]
        /\ timer = {} /\ closed = FALSE
        /\ poll = [u \in Uploads |-> [i \in Slots |-> Free]]
        /\ cancel = [u \in Uploads |-> [pc |-> "none", from |-> "pending"]]

-----------------------------------------------------------------------------
(* The jobs.                                                               *)
Move(u, to) == Lifecycle!LCMove(u, to)

(* A run of the transcoder, or somebody else, moves the job: perhaps by a  *)
(* call that had read before another wrote, or whose caller was told it    *)
(* had failed.                                                             *)
JobMoves(u) ==
    /\ status[u] # "pending" /\ \E to \in Status : Move(u, to)
    /\ Cardinality(seen'[u]) <= MaxStatuses
    /\ UNCHANGED <<initVars, meta, minio, form, store, page>>

InitiateStep(u) == /\ InitiateMultipartUpload(u)
                   /\ UNCHANGED <<jobs, minio, form, store, page>>

-----------------------------------------------------------------------------
(* The settings in the form.  While no upload is under way they are not    *)
(* tracked: the next one may start with any of the Choices.                *)
Default == "web_h264_v1"
First == "archive_h265_v1"       \* List is sorted
Choices == [preset : IF presets THEN Picks ELSE {"", Default}, overrides : Overrides]

Live(choice) == form' = IF form.pc = "idle" THEN form ELSE [form EXCEPT !.live = choice]

(* The user goes on editing while the form uploads.                        *)
EditForm ==
    /\ form.pc # "idle"
    /\ \E c \in Choices : (presets \/ c.preset = form.live.preset) /\ Live(c)
    /\ UNCHANGED <<initVars, jobs, minio, store, page>>

(* The answer to api.getPresets, asked for when the page is opened and,    *)
(* as long as it fails, whenever the user wants.                           *)
loadPresets ==
    /\ ~closed /\ ~presets
    /\ \/ /\ presets' = TRUE
          /\ Live([form.live EXCEPT !.preset = IF Known(@) THEN @ ELSE First])
       \/ presets' = FALSE /\ Live([form.live EXCEPT !.preset = ""])
    /\ UNCHANGED <<initVars, jobs, minio, store, closed>>

-----------------------------------------------------------------------------
(* startUpload, for the file of the form.  The card has a temporary key,   *)
(* under which it stays until the upload is complete.                      *)
Upload == form.upload
Show(u, s) == card' = [card EXCEPT ![u].shown = s]

GiveUp == Show(Upload, "failed") /\ form' = FormIdle

startUpload(u, size, requested, choice) ==
    /\ ~closed /\ form.pc = "idle" /\ choice \in Choices
    /\ Initiate(u, size, requested)
    /\ form' = [FormIdle EXCEPT !.upload = u, !.pc = "initiate", !.asked = requested,
                                !.config = choice, !.live = choice]
    /\ card' = [card EXCEPT ![u] = [key |-> "temp", id |-> "temp", shown |-> "pending"]]
    /\ UNCHANGED <<rows, multipart, urls, failures, unsure, gone, jobs, minio,
                   timer, poll, cancel, page>>

(* The answer to api.initiateUpload.                                       *)
Initiated ==
    /\ form.pc = "initiate" /\ ini[Upload].pc \in Finished
    /\ IF ini[Upload].pc = "ok"
       THEN /\ card' = [card EXCEPT ![Upload].id = "job", ![Upload].shown = "uploading"]
            /\ form' = [form EXCEPT !.pc = "parts"]
       ELSE GiveUp
    /\ UNCHANGED <<initVars, jobs, minio, timer, poll, cancel, page>>

(* The connection breaks before the answer arrives.                        *)
InitiateUnanswered ==
    /\ form.pc = "initiate" /\ failures[Upload] < MaxFailures
    /\ failures' = [failures EXCEPT ![Upload] = @ + 1]
    /\ gone' = gone \cup {Upload}
    /\ GiveUp
    /\ UNCHANGED <<rows, multipart, urls, ini, unsure, jobs, minio, timer, poll, cancel, page>>

(* Mutation: parts are cut to the size asked for, not to the one answered. *)
sliceAsked(k) ==
    LET start == (k - 1) * form.asked
        end == start + form.asked
    IN  <<start, IF end < ini[Upload].size THEN end ELSE ini[Upload].size>>

slice(k) == LET start == (k - 1) * ini[Upload].partSize
                end == start + ini[Upload].partSize
            IN  <<start, IF end < ini[Upload].size THEN end ELSE ini[Upload].size>>

Put(k) == stored' = [stored EXCEPT ![Upload] =
                       [p \in DOMAIN @ \cup {k} |-> IF p = k THEN slice(k) ELSE @[p]]]

(* api.uploadPart: a part not acknowledged is put again, at most           *)
(* MaxRetries times.                                                       *)
uploadPart ==
    /\ form.pc = "parts"
    /\ \/ /\ Put(form.part)
          /\ form' = [form EXCEPT !.done = Append(@, form.part), !.retries = 0,
                        !.part = @ + 1, !.pc = IF form.part < ini[Upload].part THEN @ ELSE "complete"]
          /\ UNCHANGED <<card, failures>>
       \/ /\ Put(form.part) \/ UNCHANGED stored
          /\ CallFails(Upload)
          /\ IF form.retries < MaxRetries
             THEN form' = [form EXCEPT !.retries = @ + 1] /\ UNCHANGED card
             ELSE GiveUp
    /\ UNCHANGED <<rows, multipart, urls, ini, unsure, gone, jobs, object, timer, poll, cancel,
                   page>>

(* What MinIO asks of the parts it is to assemble.                         *)
Assembles(u, done) ==
    /\ multipart[u] = "open"
    /\ \A i \in DOMAIN done : done[i] \in DOMAIN stored[u]
    /\ \A i \in 1..(Len(done) - 1) : done[i] < done[i + 1]

Assemble(u) == /\ Assembles(u, form.done)
               /\ multipart' = [multipart EXCEPT ![u] = "completed"]
               /\ object' = [object EXCEPT ![u] = [i \in DOMAIN form.done |-> stored[u][form.done[i]]]]

(* The card gets the job's ID for its key and, beginning with a poll that  *)
(* is awaited, startPolling.                                               *)
Completed(u) ==
    /\ form' = FormIdle
    /\ card' = [card EXCEPT ![u] = [key |-> "job", id |-> "job", shown |-> "queued"]]
    /\ poll' = [poll EXCEPT ![u][1].pc = "asked"]

(* Mutation: the preset is the one the form shows by now.                  *)
payloadLive ==
    [preset |-> IF presets THEN form.live.preset ELSE "", overrides |-> form.live.overrides,
     legacy |-> catalog[IF Known(form.config.preset) THEN form.config.preset ELSE Default]]

(* What completes the upload: the preset of when it began, if the page has *)
(* a list of presets by now; the overrides the form has by now; and fields *)
(* filled in from the preset, or from the default one.                     *)
payload ==
    [preset |-> IF presets THEN form.config.preset ELSE "", overrides |-> form.live.overrides,
     legacy |-> catalog[IF Known(form.config.preset) THEN form.config.preset ELSE Default]]

SaveMeta(u) == /\ buildVideoMetadata(payload) # Refused
               /\ meta' = [meta EXCEPT ![u] = buildVideoMetadata(payload)]

(* api.completeUpload: all is done, and answered 200 or an error; or the   *)
(* object is made, and perhaps the row, but the rest refused, the form     *)
(* having no name for the video, say, or failed; or nothing is done.       *)
completeUpload ==
    /\ form.pc = "complete"
    /\ \/ /\ Binds(payload.overrides) /\ Assemble(Upload)
          /\ \/ /\ SaveMeta(Upload) /\ Move(Upload, "queued")
                /\ \/ Completed(Upload) /\ UNCHANGED failures
                   \/ GiveUp /\ CallFails(Upload) /\ UNCHANGED poll
             \/ /\ SaveMeta(Upload) /\ GiveUp /\ CallFails(Upload)
                /\ UNCHANGED <<status, seen, poll>>
             \/ GiveUp /\ UNCHANGED <<jobs, poll, failures>>
       \/ /\ GiveUp /\ UNCHANGED <<multipart, object, jobs, poll>>
          /\ IF Binds(payload.overrides) THEN CallFails(Upload) ELSE UNCHANGED failures
    /\ UNCHANGED <<rows, urls, ini, unsure, gone, stored, timer, cancel, page>>

-----------------------------------------------------------------------------
(* Polling.  The requests of one timer may be answered in any order.       *)
Tick(u) ==
    /\ u \in timer
    /\ \E i \in Slots \ {1} : /\ poll[u][i].pc = "free"
                              /\ \A k \in 2..(i - 1) : poll[u][k].pc # "free"
                              /\ poll' = [poll EXCEPT ![u][i].pc = "asked"]
    /\ UNCHANGED <<initVars, jobs, minio, form, card, timer, cancel, page>>

GetJobStatus(u, i) ==
    /\ poll[u][i].pc = "asked"
    /\ \/ /\ poll' = [poll EXCEPT ![u][i] = [pc |-> "answered", answer |-> status[u]]]
          /\ UNCHANGED failures
       \/ poll' = [poll EXCEPT ![u][i].pc = "answered"] /\ CallFails(u)
    /\ UNCHANGED <<rows, multipart, urls, ini, unsure, gone, jobs, minio, form, card, timer,
                   cancel, page>>

(* updateJob: a card that was cleared does not come back.                  *)
Displays(u, s) ==
    IF card[u].key = "job" THEN Show(u, s) ELSE UNCHANGED card

(* Mutation: an answer for a card that was cleared is dropped.             *)
stopPollingShown(u, s) ==
    IF s \in Terminal /\ card[u].key = "job" THEN timer \ {u} ELSE timer

(* Mutation: an error stops the polling.                                   *)
stopPollingOnError(u, s) == IF s \in Terminal \cup {"error"} THEN timer \ {u} ELSE timer

stopPolling(u, s) == IF s \in Terminal THEN timer \ {u} ELSE timer

(* The answer to a poll.  The timer is set when the first poll is over,    *)
(* whatever its answer: stopPolling finds no timer to clear before that.   *)
Polled(u, i) ==
    LET s == poll[u][i].answer
    IN  /\ poll[u][i].pc = "answered"
        /\ poll' = [poll EXCEPT ![u][i] = Free]
        /\ IF s = "error" THEN UNCHANGED card ELSE Displays(u, s)
        /\ timer' = IF i = 1 THEN timer \cup {u} ELSE stopPolling(u, s)
        /\ UNCHANGED <<initVars, jobs, minio, form, cancel, page>>

-----------------------------------------------------------------------------
(* Cancel and Clear, which look the card up by the ID it carries.          *)
Reachable(u) == card[u].key # "none" /\ card[u].key = card[u].id

(* cancelJob, of a job the server knows.                                   *)
cancelJob(u) ==
    /\ Reachable(u) /\ card[u].key = "job"
    /\ card[u].shown \in {"pending", "uploading", "queued", "processing"}
    /\ cancel[u].pc = "none"
    /\ cancel' = [cancel EXCEPT ![u] = [pc |-> "asked", from |-> card[u].shown]]
    /\ UNCHANGED <<initVars, jobs, minio, form, card, timer, poll, page>>

CancelAnswer(u, a) == cancel' = [cancel EXCEPT ![u].pc = a]

(* TransitionTo, from the status the card showed: the row is read and      *)
(* checked, and then written, whatever it has become.  Of the statuses the *)
(* button is shown for, each may be left for "cancelled".                  *)
ReadCancel(u) ==
    /\ cancel[u].pc = "asked"
    /\ \/ status[u] = "cancelled" /\ CancelAnswer(u, "ok")
       \/ status[u] \notin {cancel[u].from, "cancelled"} /\ CancelAnswer(u, "error")
       \/ status[u] = cancel[u].from /\ CancelAnswer(u, "write")
    /\ UNCHANGED <<initVars, jobs, minio, form, card, timer, poll, page>>

WriteCancel(u) ==
    /\ cancel[u].pc = "write" /\ Move(u, "cancelled")
    /\ \/ CancelAnswer(u, "ok") /\ UNCHANGED failures
       \/ CancelAnswer(u, "error") /\ CallFails(u)
    /\ UNCHANGED <<rows, multipart, urls, ini, unsure, gone, meta, minio, form, card, timer, poll,
                   page>>

(* Status 500, nothing written; or the connection breaks, and what is still*)
(* written then is a step of JobMoves.                                     *)
CancelFails(u) ==
    /\ cancel[u].pc \in {"asked", "write"} /\ CancelAnswer(u, "error") /\ CallFails(u)
    /\ UNCHANGED <<rows, multipart, urls, ini, unsure, gone, jobs, minio, form, card, timer, poll,
                   page>>

ServeCancel(u) == ReadCancel(u) \/ WriteCancel(u) \/ CancelFails(u)

(* Mutation: the card shows "cancelled" whatever the server has answered.  *)
CancelledAnyway(u) ==
    /\ cancel[u].pc \in {"ok", "error"}
    /\ cancel' = [cancel EXCEPT ![u] = [pc |-> "none", from |-> "pending"]]
    /\ card' = IF card[u].key = "job" THEN [card EXCEPT ![u].shown = "cancelled"] ELSE card
    /\ timer' = timer \ {u}
    /\ UNCHANGED <<initVars, jobs, minio, form, poll, page>>

Cancelled(u) ==
    /\ cancel[u].pc \in {"ok", "error"}
    /\ cancel' = [cancel EXCEPT ![u] = [pc |-> "none", from |-> "pending"]]
    /\ IF cancel[u].pc = "ok"
       THEN /\ card' = IF card[u].key = "job" THEN [card EXCEPT ![u].shown = "cancelled"] ELSE card
            /\ timer' = timer \ {u}
       ELSE UNCHANGED <<card, timer>>
    /\ UNCHANGED <<initVars, jobs, minio, form, poll, page>>

(* removeJob.                                                              *)
removeJob(u) ==
    /\ Reachable(u) /\ card[u].shown \in Terminal
    /\ card' = [card EXCEPT ![u] = NoCard]
    /\ timer' = timer \ {u}
    /\ UNCHANGED <<initVars, jobs, minio, form, poll, cancel, page>>

(* The user leaves the page, and with it everything it was doing.          *)
LeavePage ==
    /\ ~closed /\ closed' = TRUE
    /\ gone' = gone \cup {u \in Uploads : ini[u].pc \notin Finished \cup {"none"}}
    /\ form' = FormIdle /\ timer' = {}
    /\ card' = [u \in Uploads |-> NoCard]
    /\ poll' = [u \in Uploads |-> [i \in Slots |-> Free]]
    /\ UNCHANGED <<rows, multipart, urls, ini, failures, unsure, jobs, minio, cancel, presets>>

-----------------------------------------------------------------------------
Next ==
    \/ loadPresets \/ EditForm
    \/ Initiated \/ InitiateUnanswered \/ uploadPart \/ completeUpload \/ LeavePage
    \/ \E u \in Uploads :
          \/ InitiateStep(u) \/ JobMoves(u)
          \/ \E size \in FileSizes, p \in PartSizes, c \in Choices : startUpload(u, size, p, c)
          \/ Tick(u) \/ cancelJob(u) \/ ServeCancel(u) \/ Cancelled(u) \/ removeJob(u)
          \/ \E i \in Slots : GetJobStatus(u, i) \/ Polled(u, i)

(* Timers fire, and requests are served and answered.                      *)
Fairness ==
    \A u \in Uploads : /\ WF_vars(Tick(u))
                       /\ \A i \in Slots : WF_vars(GetJobStatus(u, i)) /\ WF_vars(Polled(u, i))

Spec == Init /\ [][Next]_vars /\ Fairness

-----------------------------------------------------------------------------
(* Every variable has its type; no URL outlives its job, and a card keeps  *)
(* its temporary key while the form is busy with it.                       *)
TypeOK ==
    /\ rows \subseteq Uploads /\ gone \subseteq Uploads /\ unsure \subseteq Uploads
    /\ multipart \in [Uploads -> {"none", "open", "completed"}]
    /\ \A u \in Uploads : urls[u] \subseteq 1..ini[u].part
    /\ \A u \in Uploads : urls[u] # {} => u \in rows
    /\ failures \in [Uploads -> 0..MaxFailures]
    /\ status \in [Uploads -> Status]
    /\ \A u \in Uploads : meta[u] # Refused => {"format", "codec", "resolution"} \subseteq DOMAIN meta[u]
    /\ form.upload \in Uploads \cup {NoUpload} /\ form.retries \in 0..MaxRetries
    /\ form.pc # "idle" => card[form.upload].key = "temp"
    /\ timer \subseteq Uploads
    /\ \A u \in Uploads : card[u].shown \in Status /\ cancel[u].from \in Status

(* startUpload: the object a transcode reads is the whole file, each byte  *)
(* once and in its place, although parts were put again, the size of the   *)
(* parts is the server's choice, and the page has cut them.                *)
WholeFile ==
    \A u \in Uploads : object[u] # <<>> =>
        /\ object[u][1][1] = 0
        /\ \A i \in 1..(Len(object[u]) - 1) : object[u][i][2] = object[u][i + 1][1]
        /\ object[u][Len(object[u])][2] = ini[u].size

(* README.md:16, "Preset catalog with validated overrides": ffmpeg is given *)
(* the settings of the preset chosen when the upload began, each replaced  *)
(* by what the user has put in its place, although they pass through the   *)
(* form, the row and the profile: unless the overrides have been edited    *)
(* since, or the page has no presets.                                      *)
Honours(args, choice) ==
    LET wanted == [f \in Fields |-> IF f \in DOMAIN choice.overrides THEN choice.overrides[f]
                                    ELSE catalog[choice.preset][f]]
    IN  /\ args.format = wanted.format /\ args.bitrate = wanted.bitrate
        /\ args.framerate = wanted.framerate
        /\ args.codec[1] = IF wanted.codec = "av1" THEN "av1" ELSE Encoder[wanted.codec]
        /\ \E r \in DOMAIN Scale : args.resolution = Scale[r] /\ wanted.resolution \in Spellings[r]
AsChosen ==
    [][\A u \in Uploads :
          /\ meta'[u] # meta[u] /\ presets /\ Known(form.config.preset)
          /\ form.live.overrides = form.config.overrides
          => Honours(buildFFmpegArgs(GetTranscodeProfile(meta'[u])), form.config)]_vars

(* jobStore.js: once a card stands for a job, what it shows is a status    *)
(* the job has had, whatever the order of polls and of cancellations.      *)
ShownWasReal == \A u \in Uploads : card[u].key = "job" => card[u].shown \in seen[u]

(* README.md:67, "Poll ... until terminal state": the page does not stop   *)
(* polling a job, by an answer, a cancellation or a Clear, unless the job  *)
(* has been in a terminal state, though the answers may come in any order  *)
(* and the card may be there when the job is not, and go before it does.   *)
PollsUntilEnd ==
    \A u \in Uploads : card[u].key = "job" /\ u \notin timer /\ poll[u][1].pc = "free"
                           => seen[u] \cap Terminal # {}

(* README.md:67: polling goes on no longer than until a terminal state that*)
(* stays, though the timer is set after an awaited poll that may have seen *)
(* that state already, and the card may have been cleared meanwhile.       *)
PollingStops ==
    \A u \in Uploads : <>[](status[u] \in Terminal) => <>[](u \notin timer)

(* README.md:67, "Poll ... until terminal state", and frontend/README.md:9,*)
(* "Polling mechanism to track transcoding progress": when a job is polled *)
(* no more, and no poll of it is unanswered, its card shows a terminal     *)
(* state.                                                                  *)
UnpolledShowsEnd ==
    \A u \in Uploads : card[u].key = "job" /\ u \notin timer
                           /\ (\A i \in Slots : poll[u][i].pc = "free")
                           => card[u].shown \in Terminal
==============================================================================
