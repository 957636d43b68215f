------------------------------- MODULE Startup --------------------------------
(***************************************************************************)
(* How the API server (cmd/main.go) and the transcoder (grpc/main.go) get  *)
(* to serving: each connects to the services it needs one after another,   *)
(* and exits on an error, upon which docker compose starts it again.       *)
(* PostgreSQL and Redis must answer at once; MinIO is asked again with a   *)
(* growing delay, and both processes create the buckets that are missing.  *)
(***************************************************************************)
EXTENDS Integers

CONSTANTS Apis, Transcoders,       \* the processes of either kind
          ConnectMaxAttempts,      \* what the environment sets, or does not (0)
          ConnectInitialBackoff, ConnectMaxBackoff, WorkerCount,
          Second, MaxDuration,     \* a second, the longest time.Duration, in units of the backoffs
          MaxFaults                \* bound: outages, failed calls, crashes

ASSUME StartupAssumption ==
    /\ Apis \cap Transcoders = {}
    /\ {ConnectMaxAttempts, ConnectInitialBackoff, ConnectMaxBackoff, WorkerCount} \subseteq Int
    /\ Second \in Nat \ {0} /\ MaxFaults \in Nat

Setting(value, fallback) == IF value <= 0 THEN fallback ELSE value
maxAttempts == Setting(ConnectMaxAttempts, 20)
initialBackoff == Setting(ConnectInitialBackoff, Second)
maxBackoff == Setting(ConnectMaxBackoff, 10 * Second)

(* A Duration holds 292 years; twice a backoff is one.                     *)
ASSUME DurationAssumption ==
    /\ MaxDuration \in Nat
    /\ 2 * initialBackoff <= MaxDuration /\ 2 * maxBackoff <= MaxDuration

VARIABLES up,             \* the services that answer
          made, group,    \* the buckets in MinIO; whether Redis has the consumer group
          pc,             \* pc[p], where process p is
          bucket,         \* bucket[p], the bucket p is ensuring
          attempt, delay, \* attempt and delay of retryWithBackoff in p
          client,         \* client[p], the MinIO client p was returned
          lost,           \* history: lost[p], the buckets p was told are there already
          answer,         \* answer[p], to the last GET /ready
          faults

services == <<up, made, group>>
loop == <<bucket, attempt, delay>>
vars == <<services, pc, loop, client, lost, answer, faults>>

Processes == Apis \cup Transcoders
Services == {"postgres", "redis", "minio"}
Buckets == {1, 2}                       \* of uploads, and of downloads

FirstStep(p) == IF p \in Apis THEN "postgres" ELSE "ping"
AfterRedis(p) == IF p \in Apis THEN "serving" ELSE "check"
AfterMinio(p) == IF p \in Apis THEN "ping"
                 ELSE IF WorkerCount > 0 THEN "serving" ELSE "down"   \* NewWorkerPool's nil

Init == /\ up = {} /\ made = {} /\ group = FALSE
        /\ pc = [p \in Processes |-> "down"]
        /\ bucket = [p \in Processes |-> 1] /\ attempt = [p \in Processes |-> 1]
        /\ delay = [p \in Processes |-> initialBackoff]
        /\ client = [p \in Processes |-> "none"] /\ lost = [p \in Processes |-> {}]
        /\ answer = [p \in Processes |-> "none"]
        /\ faults = 0

MayFail == faults < MaxFaults /\ faults' = faults + 1

(* A call of a service that is not up fails, and so may any other.         *)
CallFails(s) == MayFail \/ (s \notin up /\ UNCHANGED faults)

Goes(p, to) == pc' = [pc EXCEPT ![p] = to]
Exit(p) == Goes(p, "down")

-----------------------------------------------------------------------------
NewPostgresConnection(p) ==
    /\ pc[p] = "postgres"
    /\ \/ "postgres" \in up /\ Goes(p, "check") /\ UNCHANGED faults
       \/ CallFails("postgres") /\ Exit(p)
    /\ UNCHANGED <<services, loop, client, lost, answer>>

(* NewRedisConnection: the ping, and the group.                            *)
Ping(p) ==
    /\ pc[p] = "ping"
    /\ \/ "redis" \in up /\ Goes(p, "group") /\ UNCHANGED faults
       \/ CallFails("redis") /\ Exit(p)
    /\ UNCHANGED <<services, loop, client, lost, answer>>

(* BUSYGROUP, the answer when the group is there, is no error.             *)
XGroupCreateMkStream(p) ==
    /\ pc[p] = "group"
    /\ \/ "redis" \in up /\ group' = TRUE /\ Goes(p, AfterRedis(p)) /\ UNCHANGED faults
       \/ CallFails("redis") /\ Exit(p) /\ group' \in {group, group \/ "redis" \in up}
    /\ UNCHANGED <<up, made, loop, client, lost, answer>>

-----------------------------------------------------------------------------
(* NewMinioConnection.  The closure keeps the client it makes in a         *)
(* variable of its own: the one that is returned is nil.                   *)
Connected(p) == /\ client' = [client EXCEPT ![p] = "nil"]
                /\ Goes(p, AfterMinio(p))

(* Why a call of MinIO fails: it does not answer, it answers an error, or  *)
(* it answers that the bucket is there.                                    *)
isRetryableMinioError(e) == e = "network"

(* Mutation: the loop runs out, and the last error is forgotten.           *)
ForgetLastErr(p, e) ==
    IF isRetryableMinioError(e) /\ attempt[p] = maxAttempts THEN Connected(p)
    ELSE /\ Goes(p, IF isRetryableMinioError(e) THEN "sleep" ELSE "down")
         /\ UNCHANGED client

(* Mutation: one more attempt than allowed.                                *)
OneMoreAttempt(p, e) ==
    /\ IF ~isRetryableMinioError(e) \/ attempt[p] > maxAttempts THEN Exit(p) ELSE Goes(p, "sleep")
    /\ UNCHANGED client

(* retryWithBackoff, when the attempt has ended in an error.               *)
AttemptFails(p, e) ==
    /\ IF ~isRetryableMinioError(e) \/ attempt[p] = maxAttempts THEN Exit(p) ELSE Goes(p, "sleep")
    /\ UNCHANGED client

(* Mutation: the delay is not capped.                                      *)
WakeUncapped(p) ==
    /\ pc[p] = "sleep" /\ Goes(p, "check")
    /\ bucket' = [bucket EXCEPT ![p] = 1]
    /\ attempt' = [attempt EXCEPT ![p] = @ + 1]
    /\ delay' = [delay EXCEPT ![p] = 2 * @]
    /\ UNCHANGED <<services, client, lost, answer, faults>>

Wake(p) ==
    /\ pc[p] = "sleep" /\ Goes(p, "check")
    /\ bucket' = [bucket EXCEPT ![p] = 1]
    /\ attempt' = [attempt EXCEPT ![p] = @ + 1]
    /\ delay' = [delay EXCEPT ![p] = IF 2 * @ > maxBackoff THEN maxBackoff ELSE 2 * @]
    /\ UNCHANGED <<services, client, lost, answer, faults>>

(* ensureBucket returns nil: the next bucket, or the connection, is made.  *)
Ensured(p) ==
    IF bucket[p] = 1
    THEN bucket' = [bucket EXCEPT ![p] = 2] /\ Goes(p, "check") /\ UNCHANGED client
    ELSE Connected(p) /\ UNCHANGED bucket

(* Mutation: buckets are created without a look whether they are there.    *)
NoCheck(p) ==
    /\ pc[p] = "check" /\ Goes(p, "make")
    /\ UNCHANGED <<services, loop, client, lost, answer, faults>>

MinioFails(e) == IF e = "network" THEN CallFails("minio") ELSE MayFail

BucketExists(p) ==
    /\ pc[p] = "check"
    /\ \/ /\ "minio" \in up /\ UNCHANGED faults
          /\ IF bucket[p] \in made THEN Ensured(p) ELSE Goes(p, "make") /\ UNCHANGED <<bucket, client>>
       \/ \E e \in {"network", "error"} : MinioFails(e) /\ AttemptFails(p, e) /\ UNCHANGED bucket
    /\ UNCHANGED <<services, attempt, delay, lost, answer>>

(* The bucket may have been made since: BucketAlreadyOwnedByYou is not     *)
(* retried.  When the reply is lost, the MinIO client tries again and gets *)
(* that answer, or gives up with a network error.                          *)
Make(p) == made' = made \cup {bucket[p]}
Loses(p) == lost' = [lost EXCEPT ![p] = @ \cup {bucket[p]}] /\ AttemptFails(p, "owned")

MakeBucket(p) ==
    /\ pc[p] = "make"
    /\ \/ /\ "minio" \in up /\ UNCHANGED faults
          /\ IF bucket[p] \in made THEN Loses(p) /\ UNCHANGED <<made, bucket>>
             ELSE Make(p) /\ Ensured(p) /\ UNCHANGED lost
       \/ /\ "minio" \in up /\ MayFail /\ Make(p) /\ UNCHANGED bucket
          /\ Loses(p) \/ (AttemptFails(p, "network") /\ UNCHANGED lost)
       \/ /\ \E e \in {"network", "error"} : MinioFails(e) /\ AttemptFails(p, e)
          /\ UNCHANGED <<made, bucket, lost>>
    /\ UNCHANGED <<up, group, attempt, delay, answer>>

-----------------------------------------------------------------------------
(* docker compose: "restart: unless-stopped".                              *)
Restart(p) ==
    /\ pc[p] = "down" /\ Goes(p, FirstStep(p))
    /\ bucket' = [bucket EXCEPT ![p] = 1] /\ attempt' = [attempt EXCEPT ![p] = 1]
    /\ delay' = [delay EXCEPT ![p] = initialBackoff]
    /\ client' = [client EXCEPT ![p] = "none"]
    /\ UNCHANGED <<services, lost, answer, faults>>

Crash(p) == /\ pc[p] # "down" /\ MayFail /\ Exit(p)
            /\ UNCHANGED <<services, loop, client, lost, answer>>

(* A service goes down, and comes back with what it had stored.            *)
ServiceStops(s) == /\ s \in up /\ MayFail /\ up' = up \ {s}
                   /\ UNCHANGED <<made, group, pc, loop, client, lost, answer>>
ServiceStarts(s) == /\ s \notin up /\ up' = up \cup {s}
                    /\ UNCHANGED <<made, group, pc, loop, client, lost, answer, faults>>

(* GET /ready: a call on a nil client panics, and gin answers 500.         *)
GetReady(p) ==
    /\ p \in Apis /\ pc[p] = "serving"
    /\ \/ answer' = [answer EXCEPT ![p] = IF client[p] = "nil" THEN "500"
                                          ELSE IF up = Services THEN "ready" ELSE "not_ready"]
          /\ UNCHANGED faults
       \/ answer' = [answer EXCEPT ![p] = IF client[p] = "nil" THEN "500" ELSE "not_ready"]
          /\ MayFail
    /\ UNCHANGED <<services, pc, loop, client, lost>>

Step(p) == \/ NewPostgresConnection(p) \/ Ping(p) \/ XGroupCreateMkStream(p)
           \/ BucketExists(p) \/ MakeBucket(p) \/ Wake(p)

Next == \/ \E p \in Processes : Step(p) \/ Restart(p) \/ Crash(p) \/ GetReady(p)
        \/ \E s \in Services : ServiceStops(s) \/ ServiceStarts(s)

(* Processes run and are restarted, and so are services.                   *)
Fairness == /\ \A p \in Processes : WF_vars(Step(p)) /\ WF_vars(Restart(p))
            /\ \A s \in Services : WF_vars(ServiceStarts(s))

Spec == Init /\ [][Next]_vars /\ Fairness

-----------------------------------------------------------------------------
Places == {"down", "postgres", "check", "make", "sleep", "ping", "group", "serving"}

(* Every variable has its type, and no process exceeds its attempts.       *)
TypeOK ==
    /\ up \subseteq Services /\ made \subseteq Buckets /\ group \in BOOLEAN
    /\ pc \in [Processes -> Places] /\ bucket \in [Processes -> Buckets]
    /\ attempt \in [Processes -> 1..maxAttempts]
    /\ delay \in [Processes -> Nat]
    /\ client \in [Processes -> {"none", "nil"}] /\ lost \in [Processes -> SUBSET Buckets]
    /\ answer \in [Processes -> {"none", "ready", "not_ready", "500"}]
    /\ faults \in 0..MaxFaults

(* main: whatever failed on the way and was tried again, a process that    *)
(* serves has both buckets and the consumer group its handlers and workers *)
(* take for granted, and which nobody makes later.                         *)
ServesWithStores == \A p \in Processes : pc[p] = "serving" => made = Buckets /\ group

(* ensureBucket: two processes that both find a bucket missing race to     *)
(* make it, and the loser exits; started again it finds the bucket, and    *)
(* never exits over it a second time.                                      *)
RaceIsLostOnce == \A p \in Processes : pc[p] = "make" => bucket[p] \notin lost[p]

(* Retry.backoff (grpc/retry/retry.go), without its jitter: math.Pow and   *)
(* the product are float64, which multiplies by a power of two exactly, and*)
(* converted to a Duration, if it fits.  If not, the result depends on the *)
(* platform, and nothing is said of it.                                    *)
powerOfTwo[n \in Nat] == IF n = 0 THEN 1 ELSE 2 * powerOfTwo[n - 1]
exponential(n) == initialBackoff * powerOfTwo[n]
Fits(n) == exponential(n) <= MaxDuration
backoff(n) == IF exponential(n) > maxBackoff THEN maxBackoff ELSE exponential(n)

(* The delays of this loop, which doubles and caps a variable, are those   *)
(* that Retry.backoff (grpc/retry/retry.go) computes from the number of    *)
(* the attempt, as long as that fits, and unless the first is longer than  *)
(* the longest.                                                            *)
DelayIsBackoff == initialBackoff <= maxBackoff =>
                      \A p \in Processes : Fits(attempt[p] - 1) => delay[p] = backoff(attempt[p] - 1)

(* README.md:24, "Start the full stack": in whatever order services and    *)
(* processes start and fail, in the end all of them serve, even after a    *)
(* lost race for a bucket or attempts that ran out (and until they are     *)
(* given work, which the nil client does not survive).                     *)
AllServe == WorkerCount > 0 => <>[](\A p \in Processes : pc[p] = "serving")

(* README.md:25-27, "Verify service endpoints", "GET .../ready": a server  *)
(* whose services are all up answers that it is ready.                     *)
ReadyWhenUp ==
    [][\A p \in Apis : GetReady(p) /\ up = Services /\ faults' = faults => answer'[p] = "ready"]_vars
=============================================================================
