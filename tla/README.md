# A verification of the video transcoder

TLA+ models of the job pipeline in this repository, the TLC configurations that check
them, and TLAPS proofs about them. Paths are relative to the repository's root.

## The system

A browser uploads a video in parts to MinIO and asks for a transcode. An API server
(`cmd`, `internal`) keeps a row per job in PostgreSQL and puts a message in a Redis
stream. Transcoder processes (`grpc`) read the stream through a consumer group, run
ffmpeg, put the output in MinIO and report each stage to the API server by HTTP. The
API server can also ask a transcoder for a transcode directly, by gRPC, when a user
downloads an output.

| Component | State | Operations | Hard behaviour | What makes it correct |
|---|---|---|---|---|
| Worker pool and stream consumer (`grpc/worker`, `grpc/service/worker.go`, `grpc/repository/redis.go`) | stream, pending entries and their idle times; two channels, the `inFlight` map, one dispatcher, some workers, one result handler | add, claim stale, read new, reserve, send, take, deliver, release, acknowledge, cancel, crash | redelivery, duplicates, lost replies, failed XACKs, trimming, shutdown with everyone blocked | a job at one place of a pool at most; reservations neither leak nor are missing; no acknowledgement without a transcode; every message is acknowledged in the end; shutdown completes |
| Job status API (`internal/service/status_machine.go`, `internal/handler/jobs.go`) | the `status` column | `UpdateStatus` -> `TransitionTo`: read, check, write | the read and the write are two statements; any number of callers race | no stage skipped; "ok" means reached; terminal statuses are final; what is written follows a status the job has had |
| Upload completion and job creation (`internal/handler/handler.go`, `jobs_create.go`) | upload, `videometa` row, message, status | complete upload, insert metadata, enqueue, move to `queued` | four stores written in sequence, each may fail, a worker may be faster | what is queued has metadata and a message; what was accepted ends |
| `TranscodeVideo` (`grpc/service/service.go`, `grpc/webserver`, `grpc/retry`) | the stage of the run, the output object | profile, source, ffmpeg, upload, a status change after each | lost answers, refusals, two runs of one job, crash in mid-run | outputs before `completed`, sources before `processing`, a job in progress has a run |
| Output download (`internal/handler/jobs.go`) | none of its own | start a transcode by RPC, fetch its output | races the worker's run | finds the object it asks for |
| Initiation of an upload (`handler.go:85-196`) | job row, multipart upload | create both, clean up | the cleanup may fail half way | nothing left behind |
| Presets (`internal/presets`), ffmpeg arguments | the catalogue | resolve a preset and overrides, make a row, a profile, arguments | five conversions between the form and ffmpeg, a form that is edited meanwhile | ffmpeg gets what was chosen |
| Connections (`internal/connection`, `grpc/connection`, both `main.go`) | the process, its attempt and delay, its clients; buckets, group | connect to PostgreSQL, MinIO, Redis; make buckets and group; exit | two processes race for the buckets, services come up late or go away, a shadowed client | who serves has its stores; everyone serves in the end; `/ready` tells the truth |
| Metrics (`internal/observability`) | counters | count requests, read the stream length | stale gauge, a count that leaks on a panic | the gauge is the backlog |
| Front end (`frontend/src`) | the presets, the form, the job cards, their timers | load presets, edit, upload parts, poll, cancel, clear | retries, overlapping polls, acts on a status displayed long ago, settings read at two times | the object is the whole file; polls until a terminal state and no longer; a card shows how its job ended |

The components meet at three places: the stream (handlers add, pools consume), the
status column (everyone calls `TransitionTo`), and the two buckets (upload: written by
the browser, read by runs; download: written by runs, read by the API server).

## The modules

| Module | Stands for |
|---|---|
| `WorkQueue` | abstract: an at-least-once queue whose messages are acknowledged only after a transcode has returned, or if malformed |
| `WorkerPool` | the worker pools and the Redis stream, goroutine by goroutine; implements `WorkQueue` |
| `JobStatus` | `Status`, `validTransitions`, `canTransition` |
| `JobLifecycle` | abstract: whatever a status is set to follows, by a valid transition, one the job has had, though perhaps not the one it overwrites |
| `StatusApi` | any number of calls of `TransitionTo`, a read and a write each; implements `JobLifecycle` |
| `JobPipeline` | handlers, runs, downloads and cancellations over `StatusApi` (its actions are used as they are) and a queue that is an abstraction of `WorkerPool` |
| `UploadApi` | `InitiateMultipartUploadHandler` and its cleanup |
| `Presets` | the catalogue, `Resolve`, `buildVideoMetadata`, what a request's binding refuses: operators |
| `TranscodeArgs` | the profile made of a row, and ffmpeg's arguments made of a profile: operators |
| `Frontend` | a page: presets, upload form, cards, polling, cancellation; extends `UploadApi` and `TranscodeArgs`, and watches jobs that move as `JobLifecycle` allows, no better |
| `Startup` | the API server and the transcoder from their start to serving, with PostgreSQL, Redis and MinIO |
| `WorkerPoolProofs`, `StatusApiProofs`, `JobPipelineProofs`, `StartupProofs` | the theorems about the module of that name; `JobPipelineProofs` instantiates `StatusApiProofs` for the API inside the pipeline |
| `FrontendProofs`; `PageProofs`, `FileProofs` | the theorems about uploads and settings; about cards and types, and about the object (both extend the first) |
| `MCWorkerPool`, `MCStatusApi`, `MCJobPipeline`, `MCFrontend` | constants for TLC |

### WorkerPool

A message is its position in the stream. `pel` and `stale` are the pending entries
and those idle for `reclaimMinIdle` (35 minutes, `Age`); `cursor` is the group's last
delivered entry and `first` the oldest that was not trimmed. Each process has

- a dispatcher (`dpc`): `loop` (XAUTOCLAIM), `read` (XREADGROUP), `parse` (the message
  is in hand: `DropMalformed`, `reserveJob` or `SkipDuplicate`), `send` (the select on
  `jobChan`), `done`;
- workers (`wpc`): `idle`, `busy` (in `TranscodeVideo`), `deliver`, `done`;
- a result handler (`hpc`): `recv`, `ack`, `done`. It releases the job before it
  acknowledges, as the code does, and acknowledges a failed run too.

`Cancel` cancels the context of a pool; from then on each of its Redis calls may fail.
`Crash` loses everything in memory and starts the process again
(`restart: unless-stopped` in the compose file). A fault is a crash or a Redis call
that fails before or after it took effect.

### StatusApi

`Begin`, `Read` (`GetJobByJobID` and the checks), `Write` (`UpdateJobStatus`) and
`Fail`. The row lock of `SELECT ... FOR UPDATE` ends with that statement, since no
transaction surrounds the two. `Requests` are the pairs (from, to) callers send.
`RefinesLifecycle` is what the two statements still promise, whoever races: it is the
specification that `Frontend` takes for the server, so that the page meets every status, and every
overwriting of a status, that `StatusApi` may produce.

### JobPipeline

`api[h]` is a handler: `upload`, `meta`, `enqueue`, `transition`, `ok` (200) or
`failed`. `run[r]` is a `TranscodeVideo`, started for a message by a worker or by a
download: in a stage it does its `work` (profile in `queued`, source URL and
validation in `downloading`, ffmpeg in `processing`, upload in `uploading`), then it
is `advancing` until `TransitionTo` answers, or `reporting` a failure. Every change of
status is a call of `StatusApi`, in a slot of its own: it lives on in the server when
the client has given up (`TimesOut`). A worker's request names no output format, so
its object is `<job>.mp4` (`MP4`); a download names the format of the metadata.
The queue is abstracted to messages, those `taken`, and `acked`; `Stale` returns a
message to be delivered again while its run may be under way. That a message is acknowledged after a
run of it has returned, and returned to the queue as long as it is not, is written into its actions here; it is
`WorkerPool` that is shown to keep to it (`RefinesWorkQueue`, `NothingLost`). Handlers of uploaded
jobs may repeat; a handler of `POST /jobs` inserts its job itself.

A download that has its transcode, or finds the job completed, goes on to `fetch` the
object that `resolveOutputURL` names (`FetchOutput`), and ends `done`, with the object or an error, or
`missing`: the URL it was given names no object. When the metadata cannot be read, `resolveOutputURL` drops the error and
takes `mp4`; `DownloadFinds` says that this is the one way for a download to miss
what its own transcode has made, and that it takes metadata of another format.

JobPipeline assumes a MinIO client that works. As written, `NewMinioConnection`
declares a second client in a closure (`internal/connection/minio.go:44`) and returns
the outer one, which is nil: `Startup_ready` shows it. Once that is repaired, the rest
is as modelled.

### UploadApi

`ini[u]` is the handler of a request: `row` (INSERT), `multipart`, `url` (one turn of the
loop for `part`), `ok`; or `abort` and `delete` (the cleanup), `failed`; or `refused` by
the validation. Each call may fail before or after its effect. `gone` are the requests
whose client has closed the connection, which cancels the context of every call of the
handler, those of the cleanup included.

### Presets and TranscodeArgs

Overrides, and a row with NULLs, are functions on some of the five `Fields`. Preset IDs are
written with `_` for `-`. Every way from a choice to ffmpeg is followed:
`buildVideoMetadata` (`Resolve`, or the fields of the form when there is no preset, where of the overrides
only the bitrate is read), the row, `GetTranscodeProfile` (NULL becomes 0 or ""), and
`buildFFmpegArgs`, whose result is the options by field. Letter case and surrounding blanks, which the code removes,
are left out; `anyToInt32` keeps a number that was an int32.

### Frontend

`form` is `startUpload`, one file at a time (`isUploading`): `initiate`, `parts` (a PUT per
part, repeated at most `MaxRetries` times), `complete`. `card[u]` is an entry of
`activeJobs`, its key and the `id` it carries: they differ during the upload, when Cancel
and Clear, which look up the `id`, find nothing (`Reachable`). `poll[u]` are requests on
their way or answered; slot 1 is the poll `startPolling` awaits before it sets the timer.
A file is its size and a part the interval of bytes it was cut to.
The status column moves as `JobLifecycle` allows (`JobMoves`): also out of a terminal
status, by a call that had read before. A cancellation is one such call, in two steps (`ReadCancel`, `WriteCancel`): it
may overwrite what the job has become since it was read, be overwritten in its turn though it was answered "ok", or fail
with or without effect (`CancelFails`, `WriteCancel`). The completion handler is one step with
four outcomes; `JobPipeline` has its steps.
Since a terminal status may be undone, `PollsUntilEnd` says that the page does not give up a job that has never been in
one, and `PollingStops` that it does give up one that stays there. That the card of a job which is
polled no more shows a terminal state is not so: an answer that was overtaken, by a
later one or by a cancellation, is displayed all the same (`UnpolledShowsEnd`, below).
While an upload is under way `form.config` is the copy of the settings it began with and
`form.live` what the form shows by now; `EditForm` changes the latter. `payload` takes the preset from the one
and the overrides from the other, as the code does. Between uploads the settings are not
tracked: the next upload may start with any. Until `loadPresets` has succeeded the form offers no
preset, and the one it starts with is not sent.

### Startup

`pc[p]` follows a process through the calls of `main`: `postgres` (API server only), `check`, `make` and
`sleep` (`retryWithBackoff` around `ensureBucket`, for `bucket[p]`), `ping` and `group`
(Redis), `serving`; the transcoder goes to Redis before MinIO, the API server after it. An error exits
(`down`), and docker compose starts the process again. `up` are the services that answer: they come up in any
order, may go down, and come back with what they had stored (`made`, `group`: they have volumes). A call may also
fail by itself, or after it took effect; a MakeBucket that did tells the process that the
bucket is there, or a network error. `lost[p]` remembers which buckets `p` lost a race
for. `client[p]` is what `NewMinioConnection` returned. `backoff` is `Retry.backoff` of
`grpc/retry`, against which the loop's `delay` is compared; when the first delay is set longer than the
longest, this loop waits the first delay once uncapped, and `Retry.backoff` would not. Its power is
`powerOfTwo`, a recursive function, so that the two can be compared for every attempt by proof. The code takes
`math.Pow` of the attempt, a float64, and converts the product to a Duration: that is exact for a first delay below 2^53 ns
as long as the product fits (`Fits`, `MaxDuration`), and the comparison is about those attempts only. `grpc/retry` makes three retries, and
never comes near the limit.

## What is checked

| Run | Expected | Shows |
|---|---|---|
| `WorkerPool_one` | pass | `ExclusiveJobs`, `NoSendOnClosed`, `EventuallyAcked`, `ShutdownCompletes`: one pool, two workers, the messages of two jobs, one fault, a cancellation |
| `WorkerPool_two` | pass | `TypeOK`, `ReservedIsHeld`, `AckedWasProcessed`, `NothingLost`, `RefinesWorkQueue`: two pools that claim each other's messages, two messages of one job with a malformed one between, a stream that is trimmed, one fault |
| `WorkerPool_dup` | violation | `InFlightNotDuplicated`, the comment at `grpc/repository/redis.go:87`: another pool claims a message whose transcode is under way for longer than `reclaimMinIdle` |
| `StatusApi_race` | pass | `TypeOK`, `NoStageSkipped`, `OkWasReached`, `SettledIsFinal`, `RefinesLifecycle`: three calls race on one job (122,410 states) |
| `StatusApi_final` | violation | `TerminalIsFinal`: two calls that both read before either writes overwrite a terminal status |
| `JobPipeline_steps` | pass | `TypeOK`, `QueuedWasEnqueued`, `ProcessedFromSource`, `CompletedHasOutput`, `DownloadFinds`, `NoneAhead`, `MP4IsDownloadable`: an uploaded job or one of `POST /jobs`, two workers and a download, two messages, a retry, a fault (1,196,228 states) |
| `JobPipeline_ends` | pass | `InProgressIsCarried`, `BegunEnds`: a worker, a download and a cancellation race; no fault |
| `JobPipeline_race` | violation | `PollEnds`, `README.md:67`: the worker is faster than the handler's move to `queued`, is refused, and its message is acknowledged: the job stays `queued` |
| `JobPipeline_lost` | violation | `AckedIsCarried`, `grpc/weberror/error.go:36` and `README.md:17`: the answer to a status change is lost, which is not retried, and the run returns; its message is acknowledged, and nobody carries on the job, which is `downloading` by then |
| `Frontend_page` | pass | `TypeOK`, `AnsweredHasAll`, `FailedLeavesNothing`, `WholeFile`, `ShownWasReal`, `PollsUntilEnd`, `PollingStops`, `AsChosen`: one upload, its form edited meanwhile, its job moved by others and cancelled, three polls at once, three failures (217,400 states) |
| `Startup_connect` | pass | `TypeOK`, `ServesWithStores`, `RaceIsLostOnce`, `DelayIsBackoff`, `AllServe`: an API server and a transcoder, three services that come up in any order, two faults |
| `Startup_ready` | violation | `ReadyWhenUp`, `README.md:25-27`: without any fault, `/ready` calls a nil MinIO client and answers 500 |

Three more statements do not hold. No run is kept for them; each shows when it is put in the cfg that is named.

- `BegunEnds` with a fault (`MaxFaults = 1` in `JobPipeline_ends`), for the reason `JobPipeline_lost` shows: a status change
  that is not answered in time is not retried, although the comment at `grpc/weberror/error.go:36` counts network errors
  among those that are. A crash in mid-run does the same: the message is delivered again, its run is refused
  (`queued` is not what the job is any more), and it is acknowledged.
- `CompletedIsDownloadable` in `JobPipeline_steps`: a worker makes `<job>.mp4` although the metadata say `webm`, and the URL
  of the completed job (`README.md:68`) names nothing. `MP4IsDownloadable` and `DownloadFinds` are what is true.
- `UnpolledShowsEnd` in `Frontend_page`: a poll is answered `queued`, a cancellation is answered "ok" and stops the polling, and
  then the answer to the poll arrives and is displayed, for good (`jobStore.js:63`).

### Bounds

- `JobBuffer` = `ResultBuffer` = 1: two jobs fill a channel and block its sender. Two
  messages of one job, which a retried XADD leaves, make a duplicate, and so does one
  that is claimed again; the malformed one is dropped between them. In both runs `MaxLen` is one
  less than `NumMsgs`, so that the stream is trimmed.
- `MaxFaults` = 1: one crash, one failed call or one stale message can come at any
  point. The theorems hold for any number.
- Two pools for what they can do to each other through the stream; two workers in a
  pool for what they can do through the channels.
- `Calls`: two calls are a race; a third is one that comes on top of it (a cancellation, in `JobPipeline_ends`).
  `StatusApi_race` has one job, since jobs are rows of their own that no call relates.
  `Calls` also bounds how many requests the server has under way. Requests of
  `StatusApi_race` are every stage, three ways out and three that must be refused
  or ignored; in `JobPipeline` they are whatever the components send.
- `Frontend_page`: a file of 5 units in parts of 2 is too many parts, of 3 (the default) it
  is two with a short last one; 0, 6 and parts of 1 are refused. One upload: uploads of a
  page share only the form, which takes one at a time. `MaxFailures` = 3 lets a part
  be given up (two) after another failure; `MaxPolls` = 3 is the first poll and two that
  overlap.
- `MaxStatuses` = 4: how many different statuses a job may have had for `JobMoves` to move it. `pending` and `queued` are two; two more
  let it go on to a stage and a terminal state, or to a terminal state and one that overwrites it, with a cancellation
  at any point besides.
- `Picks` are a preset that is neither the default nor the first of the list, and the first; `Overrides` are a
  bitrate with a resolution, and a frame rate beyond `MaxInt32`, which is 5000 here since
  TLC's own integers are 32 bits wide. The theorem `SettingsAreAsChosen` is for all presets and overrides.
- `Startup_connect`: one process of either kind, since two of a kind take the same steps; a limit of
  three attempts is reached with two faults and a service that is late; `Second` = 2 and a longest delay of 5 make a
  delay that is doubled, then capped; `MaxDuration` = 15 is more than any of them doubled. `ConnectInitialBackoff` = 0 is "not set".
- `MaxRetries` is 0 or 1: what a retry may do wrong it can do once. `MaxCancels` = 1.
- `Handlers`: each serves one request, so `JobPipeline_steps` has either an uploaded job
  or a created one in the pipeline, and its download races the workers.
- Symmetry only permutes calls and workers, and only in runs without liveness.

`CHECK_DEADLOCK FALSE` is set where the system may really stop: in `WorkerPool_one`
(a cancelled pool ends), in `Frontend_page` (the page has nothing left to do, or was
left), and in the runs of `JobPipeline`, whose handlers, messages,
cancellations and faults are bounded and used up.

### Fairness

`WorkerPool!Fairness`: weak fairness of every goroutine (the Go scheduler runs
what can run), of `Age` (an entry nobody claims grows idle), and of a transcode's
return (ffmpeg runs under `transcodeCtx`). Nothing forces `AddtoStream`, `Cancel` or
`Crash`. A select chooses among its ready cases: fairness is of the
whole dispatcher and of the whole worker, never of a case.

`JobPipeline!Fairness`: weak fairness of serving a call, of a handler, of a run, of
the delivery of a message that is up for delivery and of `Ack`, which `EventuallyAcked` and
`ReservedIsHeld` justify. Nobody has to send a request, download or cancel.

`Frontend!Fairness`: weak fairness of a timer's tick, and of serving and answering a poll
(browsers fire intervals, and requests end). Users need not do anything, nor must jobs move.

`Startup!Fairness`: weak fairness of a process' steps, of its restart and of a service's
(`restart: unless-stopped` in docker-compose.yml). Faults are never forced. `AllServe` is about the time until work is
given: the first request that uses the nil client of the transcoder ends it.

## What is proved

By TLAPS, for every value of the constants that satisfies the named assumptions
(`PoolAssumption`, `StatusApiAssumption`, `PipelineAssumption`, `UploadAssumption`, `PresetsAssumption`,
`FrontendAssumption`, `StartupAssumption`): any number of pools, workers,
messages, jobs, calls, uploads and processes, any capacities, sizes and settings, any number of faults.

| Theorem | States | By |
|---|---|---|
| `WorkerPoolProofs!TypeCorrect` | `Spec => []TypeOK` | `TypeInv`: `TypeOK` with `HeldDelivered`. Without the latter, that what a pool holds was delivered, `processed` could leave `1..cursor` |
| `AckedOnlyProcessed` | `Spec => []AckedWasProcessed` | `AckInv`: what is in `resultChan`, or about to enter or leave it, was processed (`ResultsProcessed`) |
| `PoolImplementsQueue` | `Spec => RefinesWorkQueue` | `TypeInv` and `AckInv`; the mapping is the identity on `added`, `processed`, `acked`, and every other action stutters |
| `JobsAreExclusive`, `ReservationsExact` | `Spec => []ExclusiveJobs`, `Spec => []ReservedIsHeld` | one invariant, `ExclusionInv`: neither is inductive without the other. A job enters the pool only if it is not reserved, so it is nowhere in it only if all held jobs are reserved; and its release clears the reservation of the rest only if there is no other |
| `ClosedChannelsAreQuiet` | `Spec => []NoSendOnClosed` | it is inductive, given `TypeInv` |
| `NoMessageForgotten` | `Spec => []NothingLost` | it is inductive, given `TypeInv`: `StreamStep` lists what any step does to the stream, and an entry leaves the pending ones only by XACK, or for having been trimmed |
| `OnlyStaleIsDuplicated` | a message that is never stale (pending and idle for `reclaimMinIdle`) is at one worker of all pools at most | at most one holder (`HeldOnceStep`): a pool that is given the message reads it for the first time, and so nobody has it yet (`HasDelivered`); within a pool, `ExclusionInv`. This is the extent of the finding of `WorkerPool_dup`: crashes, lost replies, failed XACKs and second messages alone do not duplicate what is in flight |
| `StatusApiProofs!TypeCorrect` | `Spec => []TypeOK` | `TypeOK` says of a call about to write that its transition is valid and its source was a status of the job |
| `StagesInOrder` | `Spec => []NoStageSkipped` | the above, and that `seen` only grows: what a call read may be stale when it writes, but the job was there |
| `OkMeansReached` | `Spec => OkWasReached` | `TypeOK`: the status a call reads is in `seen`, and so is the one it writes |
| `SettledJobsStay` | `Spec => SettledIsFinal` | `TypeOK`: no transition leads out of a terminal status, so a call that reads one does not write. This is the extent of the finding of `StatusApi_final`: only a call that had read before can undo a final status |
| `ApiImplementsLifecycle` | `Spec => RefinesLifecycle` | `TypeOK`: a call about to write asks for a valid transition out of a status in `seen`; every other action stutters (`LifecycleStep`) |
| `FrontendProofs!AnsweredHaveAll`, `FailedLeaveNothing` | `Spec => []AnsweredHasAll`, `Spec => []FailedLeavesNothing` | `IInv`: what the handler has done at each of its places (`Done`), what the cleanup has undone or how often a call has failed (`Undone`), and that the form puts parts only for an upload that was answered 200 (`Answered200`), so that no object is assembled under a handler at work. `PartsCover` is the arithmetic of rounding up |
| `SettingsAreAsChosen` | `Spec => AsChosen` | `ResolveHonours`: for every preset and every overrides that are accepted, ffmpeg gets each of them, or else what the preset says; and nothing but the completion of an upload writes a row |
| `JobPipelineProofs!TypeCorrect` | `Spec => []TypeOK` | `Inv`: `TypeOK` in parts; that a handler or run that waits owns a call that is its own (`GoodHandler`, `GoodRun`); and that no two own the same one (`SlotsOK`). Without the last, an answer could release somebody else's call |
| `QueuedHasMessage`, `ProcessedHasSource`, `CompletedIsUploaded` | `Spec =>` `[]QueuedWasEnqueued`, `[]ProcessedFromSource`, `[]CompletedHasOutput` | `AllDue`: what must be so before a status is asked for is so from the moment the call is made, and remains so. It is about the calls under way and not about the status alone, since a call may be served after its caller has given up |
| `CompletedHadAll` | a job that was completed has had metadata, message, source and output, in one statement | the three, and `NoStageSkipped` of `StatusApi`, by way of `StatusApiProofs!StagesInOrder`: the calls of the pipeline are calls of `TransitionTo` |
| `DownloadsFind` | `Spec => DownloadFinds` | `DownloadsOK`: a download that has uploaded has put the object its metadata name, and outputs stay; `FetchCases`: it looks for another only by the failure that makes `resolveOutputURL` take `mp4` |
| `CompletedInMP4` | `Spec => []MP4IsDownloadable` | `FormatsOK`: every object of a job has the format of its metadata or the one workers take, and so do the runs that will make more of them; with `AllDue`. So a completed job whose URL names nothing (`CompletedIsDownloadable`) has metadata of another format |
| `NobodyIsAhead` | `Spec => []NoneAhead` | `ToldOK`: the call a handler or run awaits still asks what it asked, and if it answers "ok" the job has had that status (`StatusApiProofs!OkStep`). It needs `SlotsOK`: an awaited call is begun anew by nobody but its run, for the same transition |
| `ServerIsStatusApi` | `Spec => Api!Spec` | `Inv`: whoever begins a call names a job and two statuses |
| `JobPipelineProofs!SettledJobsStay` | `SettledIsFinal` of the whole pipeline | the step of `StatusApiProofs!SettledJobsStay` |
| `CarriedUntilFailure` | `Spec => [](faults = 0 => InProgressIsCarried)` | `AskedOK`, `OwnedOK`, `CarriedOK`: without a fault every call under way has its caller, and the call that moved a job to the status it is in belongs to a run that is still at it |
| `QueuedOnce` | a job that has been queued and has moved on is never queued again, whatever fails | `OneQueues`: at any time at most one handler is about to enqueue the job, or one call is under way that asks for `queued`, and none any more once the job has been queued. That one handler gets there takes the metadata row, one for each job (`MetaMade`) |
| `QueuedAwaitsWorker` | until something fails, and if every worker gets its message after the job was moved to `queued` (`InStep`, a hypothesis on the behaviour), a job that is `queued` has a message that no run has used up | `OnItsWay`: a run past its first stage or reporting a failure, a worker that has been answered, and a message that was processed have a job that has left `queued`, for good by `QueuedOnce` (`MovedOn`). With `AllDue`, `AskedOK`, `InOrder`. This is the extent of the finding of `JobPipeline_race`: short of a failure, only a worker quicker than the handler uses up the message of a job that stays `queued` |
| `PageProofs!CardsShowWhatWas`, `PollsToTheEnd` | `Spec => []ShownWasReal`, `Spec => []PollsUntilEnd` | `PageInv`: what is shown, and what is on its way to a card (answers to polls, an accepted cancellation), is a status the job has had (`CardOK`), so an answer that stops the polling was true once; and Clear cannot reach the card of the upload under way (`FormCard`), whose ID is the job's before its key is |
| `PageProofs!TypeCorrect` | `Spec => []TypeOK` | `PageInv` and `IInv`, with the bounds of the server, the form, the timers and the rows, each inductive given the others |
| `FileProofs!ObjectsAreWhole` | `Spec => []WholeFile` | `FileInv`: the form's list of parts is 1, 2, 3, ...; each is stored, and is the piece its number says (`FormParts`, `StoredOK`); the sizes of an upload that was answered 200 do not change (`OkSettled`). `PiecesMeet` is the arithmetic: by `PartsCover` only the last piece is cut short |
| `StartupProofs!TypeCorrect` | `Spec => []TypeOK` | `TypeInv`: with `AttemptsLeft`, that a process that sleeps has an attempt left |
| `ServingHasStores` | `Spec => []ServesWithStores` | `Passed`: at each place, the stores the process has passed are there; and stores stay |
| `RaceLostOnce` | `Spec => []RaceIsLostOnce` | `LostExists`: a bucket somebody lost a race for exists, so the check before `make` finds it |
| `DelaysAreBackoffs` | `Spec => []DelayIsBackoff` | `DelayStep`: doubling and capping `backoff(n)` gives `backoff(n + 1)` (`BackoffDoubles`), which needs that `powerOfTwo` is what its definition says. That takes an induction: the library's rules have an operator for a parameter, so `DoublesExists`, `DoublesUnique` and `PowerOfTwo` take the least number at which they fail instead (`WFMin` and `NatLessThanWellFounded`, which are about sets) |
| `NeverReady` | every `GET /ready` there is is answered 500 | `NilClient`: no step sets the client that `NewMinioConnection` returns. This is the extent of the finding of `Startup_ready` |

Only model-checked: liveness (`EventuallyAcked`, `ShutdownCompletes`, `BegunEnds`, `PollingStops`,
`AllServe`), which is beyond TLAPS. Every other property of a passing run has its theorem; `InProgressIsCarried` as long as nothing has
failed, which is how the run checks it (`MaxFaults` is 0 there).
That the pools implement `WorkQueue` is proved; that `JobPipeline` uses the queue as `WorkQueue` allows is how its queue is
written, and no result.

## Not modelled

- Jitter, and the waiting of `grpc/retry` between the attempts `JobPipeline` counts. A listener that cannot
  be opened, a gRPC address that cannot be parsed.
- Unbuffered channels: `JobBuffer` and `ResultBuffer` may be set to 0 (they are 100 by default), where a send and its
  receive are one step; `PoolAssumption` leaves that out.
- The local file `/tmp/<job>.mp4`: two runs of one job in one process, a worker's and a download's, write
  the same one. What an output holds is not modelled, only that it is there.
- `Retry.backoff` where the product no longer fits in a Duration: about thirty more attempts than there are.
- Redis or MinIO losing what they stored: the consumer group is made at start-up only, so every read would fail
  (NOGROUP) until a process is restarted.
- Metrics: six counters and the length of the stream, which nothing reads. As written,
  `active_requests` keeps counting a request whose handler panicked
  (`internal/observability/http.go:27`), `TranscodeDone` is never called, and
  `queue_depth` includes entries already acknowledged.
- Of the front end: the look-up tool, layout and progress. The overrides are
  read from the form when an upload ends and the preset when it began; no document
  says which is meant, and `AsChosen` leaves edited overrides out.
- `Dequeue` and `ClaimStuckMessages` of the API server's repository: never called.
- Read-only handlers (status, lists, URLs, profiles) change no state.
- Generated code (`internal/sqlc`, `*.pb.go`, `docs`) and configuration.
- The bytes: videos, ffmpeg, HTTP and SQL encodings. A broken video is the failure of
  a stage, which may happen at any.
- The data race on the shared `*rand.Rand` of `grpc/retry/retry.go:25`.

## Plan

Done: `WorkQueue`, `WorkerPool`, `JobStatus`, `JobLifecycle`, `StatusApi`, `JobPipeline`,
`UploadApi`, `Frontend`, in that order, since the queue and the status are what everything
else rests on; then `Presets`, `TranscodeArgs` and `Startup`.

Then the theorems, module by module, in the same order; then those that say how far each finding reaches
(`OnlyStaleIsDuplicated`, `SettledJobsStay`, `CompletedInMP4`, `QueuedAwaitsWorker`, `NeverReady`).

Left: a second page or a second upload of one page (`Frontend_page` has one; the theorems have any number); the
loss of what Redis stored, for which the code has no answer to model beyond a restart; the length of the stream and
the counters, should anything come to read them.
