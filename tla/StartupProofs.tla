---------------------------- MODULE StartupProofs -----------------------------
(* Theorems about Startup: whatever number of processes start, of outages  *)
(* and of failing calls.                                                   *)
EXTENDS Startup, TLAPS, WellFoundedInduction

LEMMA SettingsArePositive ==
    /\ maxAttempts \in Nat \ {0} /\ initialBackoff \in Nat /\ maxBackoff \in Nat
    /\ MaxFaults \in Nat
<1>1. /\ ConnectMaxAttempts \in Int /\ ConnectInitialBackoff \in Int /\ ConnectMaxBackoff \in Int
      /\ Second \in Nat \ {0} /\ MaxFaults \in Nat
  BY StartupAssumption DEF StartupAssumption
<1> QED BY <1>1 DEF maxAttempts, initialBackoff, maxBackoff, Setting

(* The type invariant: TypeCorrect.                                        *)
AttemptsLeft == \A p \in Processes : pc[p] = "sleep" => attempt[p] < maxAttempts
TypeInv == TypeOK /\ AttemptsLeft

LEMMA FaultsTyped ==
    ASSUME TypeOK, MayFail \/ UNCHANGED faults PROVE faults' \in 0..MaxFaults
BY SettingsArePositive DEF TypeOK, MayFail

LEMMA EndTyped ==
    ASSUME TypeOK, NEW p \in Processes, NEW e, AttemptFails(p, e) \/ Connected(p)
    PROVE  pc' \in [Processes -> Places] /\ client' \in [Processes -> {"none", "nil"}]
BY DEF TypeOK, AttemptFails, Connected, AfterMinio, Goes, Exit, Places

LEMMA EnsuredTyped ==
    ASSUME TypeOK, NEW p \in Processes, Ensured(p)
    PROVE  /\ pc' \in [Processes -> Places] /\ client' \in [Processes -> {"none", "nil"}]
           /\ bucket' \in [Processes -> Buckets]
<1>1. CASE bucket[p] = 1
  BY <1>1 DEF TypeOK, Ensured, Goes, Places, Buckets
<1>2. CASE bucket[p] # 1
  <2>1. Connected(p) /\ UNCHANGED bucket
    BY <1>2 DEF Ensured
  <2> QED BY <2>1, EndTyped DEF TypeOK
<1> QED BY <1>1, <1>2

LEMMA BucketExistsTyped ==
    ASSUME TypeOK, NEW p \in Processes, BucketExists(p) PROVE TypeOK'
<1>1. MayFail \/ UNCHANGED faults
  BY DEF BucketExists, MinioFails, CallFails
<1>2. UNCHANGED <<up, made, group, attempt, delay, lost, answer>>
  BY DEF BucketExists, services
<1>3. \/ Ensured(p)
      \/ Goes(p, "make") /\ UNCHANGED <<bucket, client>>
      \/ \E e \in {"network", "error"} : AttemptFails(p, e) /\ UNCHANGED bucket
  BY DEF BucketExists
<1>4. /\ pc' \in [Processes -> Places] /\ client' \in [Processes -> {"none", "nil"}]
      /\ bucket' \in [Processes -> Buckets]
  <2>1. CASE Ensured(p)
    BY <2>1, EnsuredTyped
  <2>2. CASE Goes(p, "make") /\ UNCHANGED <<bucket, client>>
    BY <2>2 DEF TypeOK, Goes, Places
  <2>3. CASE \E e \in {"network", "error"} : AttemptFails(p, e) /\ UNCHANGED bucket
    BY <2>3, EndTyped DEF TypeOK
  <2> QED BY <1>3, <2>1, <2>2, <2>3
<1> QED BY <1>1, <1>2, <1>4, FaultsTyped DEF TypeOK

LEMMA MakeBucketTyped ==
    ASSUME TypeOK, NEW p \in Processes, MakeBucket(p) PROVE TypeOK'
<1>1. MayFail \/ UNCHANGED faults
  BY DEF MakeBucket, MinioFails, CallFails
<1>2. UNCHANGED <<up, group, attempt, delay, answer>>
  BY DEF MakeBucket
<1>3. UNCHANGED made \/ made' = made \cup {bucket[p]}
  BY DEF MakeBucket, Make
<1>4. UNCHANGED lost \/ lost' = [lost EXCEPT ![p] = @ \cup {bucket[p]}]
  BY DEF MakeBucket, Loses
<1>5. \/ Ensured(p)
      \/ \E e \in {"network", "error", "owned"} : AttemptFails(p, e) /\ UNCHANGED bucket
  BY DEF MakeBucket, Loses
<1>6. /\ pc' \in [Processes -> Places] /\ client' \in [Processes -> {"none", "nil"}]
      /\ bucket' \in [Processes -> Buckets]
  <2>1. CASE Ensured(p)
    BY <2>1, EnsuredTyped
  <2>2. CASE \E e \in {"network", "error", "owned"} : AttemptFails(p, e) /\ UNCHANGED bucket
    BY <2>2, EndTyped DEF TypeOK
  <2> QED BY <1>5, <2>1, <2>2
<1>7. bucket[p] \in Buckets
  BY DEF TypeOK
<1>8. made' \subseteq Buckets /\ lost' \in [Processes -> SUBSET Buckets]
  BY <1>3, <1>4, <1>7 DEF TypeOK
<1> QED BY <1>1, <1>2, <1>6, <1>8, FaultsTyped DEF TypeOK

LEMMA TypeStep == ASSUME TypeInv, [Next]_vars PROVE TypeOK'
<1> USE DEF TypeInv
<1>1. ASSUME NEW p \in Processes, NewPostgresConnection(p) \/ Ping(p) PROVE TypeOK'
  <2>1. MayFail \/ UNCHANGED faults
    BY <1>1 DEF NewPostgresConnection, Ping, CallFails
  <2>2. UNCHANGED <<up, made, group, bucket, attempt, delay, client, lost, answer>>
    BY <1>1 DEF NewPostgresConnection, Ping, services, loop
  <2>3. pc' \in [Processes -> Places]
    BY <1>1 DEF TypeOK, NewPostgresConnection, Ping, Goes, Exit, Places
  <2> QED BY <2>1, <2>2, <2>3, FaultsTyped DEF TypeOK
<1>2. ASSUME NEW p \in Processes, XGroupCreateMkStream(p) PROVE TypeOK'
  <2>1. MayFail \/ UNCHANGED faults
    BY <1>2 DEF XGroupCreateMkStream, CallFails
  <2>2. UNCHANGED <<up, made, bucket, attempt, delay, client, lost, answer>>
    BY <1>2 DEF XGroupCreateMkStream, loop
  <2>3. pc' \in [Processes -> Places]
    BY <1>2 DEF TypeOK, XGroupCreateMkStream, Goes, Exit, AfterRedis, Places
  <2>4. group \in BOOLEAN => group' \in BOOLEAN
    <3>1. group' = TRUE \/ group' \in {group, group \/ "redis" \in up}
      BY <1>2 DEF XGroupCreateMkStream
    <3> QED BY <3>1, Zenon
  <2> QED BY <2>1, <2>2, <2>3, <2>4, FaultsTyped DEF TypeOK
<1>3. ASSUME NEW p \in Processes, Wake(p) PROVE TypeOK'
  <2>1. attempt[p] + 1 \in 1..maxAttempts
    BY <1>3, SettingsArePositive DEF TypeOK, AttemptsLeft, Wake
  <2> QED
    BY <1>3, <2>1, SettingsArePositive DEF TypeOK, Wake, Goes, services, Places, Buckets
<1>4. ASSUME NEW p \in Processes, Restart(p) PROVE TypeOK'
  BY <1>4, SettingsArePositive DEF TypeOK, Restart, Goes, FirstStep, services, Places, Buckets
<1>5. ASSUME NEW p \in Processes, Crash(p) PROVE TypeOK'
  BY <1>5, FaultsTyped DEF TypeOK, Crash, Goes, Exit, services, loop, Places
<1>6. ASSUME NEW p \in Processes, GetReady(p) PROVE TypeOK'
  <2>1. MayFail \/ UNCHANGED faults
    BY <1>6 DEF GetReady
  <2>2. UNCHANGED <<up, made, group, pc, bucket, attempt, delay, client, lost>>
    BY <1>6 DEF GetReady, services, loop
  <2>3. answer' \in [Processes -> {"none", "ready", "not_ready", "500"}]
    BY <1>6 DEF TypeOK, GetReady
  <2> QED BY <2>1, <2>2, <2>3, FaultsTyped DEF TypeOK
<1>7. ASSUME NEW s \in Services, ServiceStops(s) \/ ServiceStarts(s) PROVE TypeOK'
  <2>1. MayFail \/ UNCHANGED faults
    BY <1>7 DEF ServiceStops, ServiceStarts
  <2>2. UNCHANGED <<made, group, pc, bucket, attempt, delay, client, lost, answer>>
    BY <1>7 DEF ServiceStops, ServiceStarts, loop
  <2>3. up' \subseteq Services
    BY <1>7 DEF TypeOK, ServiceStops, ServiceStarts
  <2> QED BY <2>1, <2>2, <2>3, FaultsTyped DEF TypeOK
<1>8. CASE UNCHANGED vars
  BY <1>8 DEF TypeOK, vars, services, loop
<1> QED
  BY <1>1, <1>2, <1>3, <1>4, <1>5, <1>6, <1>7, <1>8, BucketExistsTyped, MakeBucketTyped DEF Next, Step

(* A process sleeps only when its attempt was not the last.                *)
LEMMA SleepsWithAttempts ==
    ASSUME TypeInv, NEW p \in Processes, UNCHANGED attempt,
           \/ UNCHANGED pc
           \/ \E to \in Places \ {"sleep"} : Goes(p, to)
           \/ \E e : AttemptFails(p, e)
           \/ Connected(p)
    PROVE  AttemptsLeft'
BY SettingsArePositive DEF TypeInv, TypeOK, AttemptsLeft, AttemptFails, Connected, AfterMinio, Goes, Exit

LEMMA AttemptsStep == ASSUME TypeInv, [Next]_vars PROVE AttemptsLeft'
<1>1. ASSUME NEW p \in Processes, NewPostgresConnection(p) \/ Ping(p) PROVE AttemptsLeft'
  BY <1>1, SleepsWithAttempts DEF NewPostgresConnection, Ping, Exit, loop, Places
<1>2. ASSUME NEW p \in Processes, XGroupCreateMkStream(p) PROVE AttemptsLeft'
  <2>1. Goes(p, AfterRedis(p)) \/ Exit(p)
    BY <1>2 DEF XGroupCreateMkStream
  <2>2. AfterRedis(p) \in Places \ {"sleep"}
    BY DEF AfterRedis, Places
  <2>3. UNCHANGED attempt
    BY <1>2 DEF XGroupCreateMkStream, loop
  <2> QED BY <2>1, <2>2, <2>3, SleepsWithAttempts DEF Exit, Places
<1>3. ASSUME NEW p \in Processes, BucketExists(p) \/ MakeBucket(p) PROVE AttemptsLeft'
  <2>1. UNCHANGED attempt
    BY <1>3 DEF BucketExists, MakeBucket
  <2>2. Goes(p, "check") \/ Goes(p, "make") \/ (\E e : AttemptFails(p, e)) \/ Connected(p)
    BY <1>3 DEF BucketExists, MakeBucket, Ensured, Loses
  <2> QED BY <2>1, <2>2, SleepsWithAttempts DEF Places
<1>4. ASSUME NEW p \in Processes, Wake(p) \/ Restart(p) PROVE AttemptsLeft'
  BY <1>4 DEF TypeInv, TypeOK, AttemptsLeft, Wake, Restart, Goes, FirstStep
<1>5. ASSUME NEW p \in Processes, Crash(p) PROVE AttemptsLeft'
  BY <1>5, SleepsWithAttempts DEF Crash, Exit, loop, Places
<1>6. CASE UNCHANGED <<pc, attempt>>
  BY <1>6 DEF TypeInv, AttemptsLeft
<1> QED
  BY <1>1, <1>2, <1>3, <1>4, <1>5, <1>6 DEF Next, Step, GetReady, ServiceStops, ServiceStarts, vars, loop

LEMMA TypeInvariant == Spec => []TypeInv
<1>1. Init => TypeInv
  <2> SUFFICES ASSUME Init PROVE TypeInv
    OBVIOUS
  <2>1. 1 \in 1..maxAttempts /\ 0 \in 0..MaxFaults /\ initialBackoff \in Nat
    BY SettingsArePositive
  <2>2. "down" \in Places /\ 1 \in Buckets
    BY DEF Places, Buckets
  <2>3. TypeOK
    BY <2>1, <2>2 DEF Init, TypeOK
  <2> QED BY <2>3 DEF Init, TypeInv, AttemptsLeft
<1>2. TypeInv /\ [Next]_vars => TypeInv'
  BY TypeStep, AttemptsStep DEF TypeInv
<1> QED BY <1>1, <1>2, PTL DEF Spec

(* Startup's variables keep their types, and retryWithBackoff never makes  *)
(* more attempts than it may: TypeOK, with AttemptsLeft, since the loop    *)
(* looks at the limit before it sleeps and counts after it has woken.      *)
THEOREM TypeCorrect == Spec => []TypeOK
BY TypeInvariant, PTL DEF TypeInv

(* What a process has passed is in place, and stays.                       *)
Passed ==
    \A p \in Processes :
        /\ pc[p] = "postgres" => p \in Apis
        /\ bucket[p] = 2 => 1 \in made
        /\ p \in Apis /\ pc[p] \in {"ping", "group", "serving"} => made = Buckets
        /\ p \notin Apis /\ pc[p] \in {"check", "make", "sleep", "serving"} => group
        /\ p \in Apis /\ pc[p] = "serving" => group
        /\ p \notin Apis /\ pc[p] = "serving" => made = Buckets

(* A bucket a process has lost exists, and it makes none it knows of.      *)
LostExists ==
    \A p \in Processes : /\ lost[p] \subseteq made
                         /\ pc[p] = "make" => bucket[p] \notin lost[p]

LEMMA PassedStep == ASSUME TypeInv, Passed, [Next]_vars PROVE Passed'
<1> USE DEF Passed
<1>t. \A p \in Processes : bucket[p] \in {1, 2}
  BY DEF TypeInv, TypeOK, Buckets
<1>1. ASSUME NEW p \in Processes, NewPostgresConnection(p) PROVE Passed'
  BY <1>1 DEF TypeInv, TypeOK, NewPostgresConnection, Goes, Exit, services, loop
<1>2. ASSUME NEW p \in Processes, Ping(p) PROVE Passed'
  <2>1. pc[p] = "ping" /\ (Goes(p, "group") \/ Goes(p, "down"))
    BY <1>2 DEF Ping, Exit
  <2>2. UNCHANGED <<made, group, bucket>>
    BY <1>2 DEF Ping, services, loop
  <2> QED BY <2>1, <2>2 DEF TypeInv, TypeOK, Goes
<1>3. ASSUME NEW p \in Processes, XGroupCreateMkStream(p) PROVE Passed'
  <2>1. (group' /\ Goes(p, AfterRedis(p))) \/ ((group => group') /\ Exit(p))
    <3>1. \/ group' = TRUE /\ Goes(p, AfterRedis(p))
          \/ Exit(p) /\ group' \in {group, group \/ "redis" \in up}
      BY <1>3 DEF XGroupCreateMkStream
    <3> QED BY <3>1, Zenon
  <2>2. pc[p] = "group" /\ UNCHANGED <<made, bucket>>
    BY <1>3 DEF XGroupCreateMkStream, loop
  <2> QED BY <2>1, <2>2 DEF TypeInv, TypeOK, Goes, Exit, AfterRedis
<1>4. ASSUME NEW p \in Processes, BucketExists(p) \/ MakeBucket(p) PROVE Passed'
  <2>1. /\ pc[p] \in {"check", "make"} /\ UNCHANGED group
        /\ made \subseteq made' /\ made' \subseteq Buckets
    BY <1>4, <1>t DEF TypeInv, TypeOK, BucketExists, MakeBucket, services, Make, Buckets
  <2>2. \/ Ensured(p) /\ bucket[p] \in made'
        \/ Goes(p, "make") /\ UNCHANGED bucket
        \/ (\E e : AttemptFails(p, e)) /\ UNCHANGED bucket
    BY <1>4 DEF BucketExists, MakeBucket, Make, Loses, services
  <2>3. CASE Ensured(p) /\ bucket[p] = 1 /\ 1 \in made'
    <3>1. Goes(p, "check") /\ bucket' = [bucket EXCEPT ![p] = 2]
      BY <2>3 DEF Ensured
    <3> QED BY <2>1, <2>3, <3>1 DEF TypeInv, TypeOK, Goes
  <2>4. CASE Ensured(p) /\ bucket[p] = 2 /\ 2 \in made'
    <3>1. Goes(p, AfterMinio(p)) /\ UNCHANGED bucket
      BY <2>4 DEF Ensured, Connected
    <3>2. made' = Buckets
      BY <2>1, <2>4 DEF Buckets
    <3> QED BY <2>1, <3>1, <3>2 DEF TypeInv, TypeOK, Goes, AfterMinio
  <2>5. CASE Goes(p, "make") /\ UNCHANGED bucket
    BY <2>1, <2>5 DEF TypeInv, TypeOK, Goes
  <2>6. CASE (\E e : AttemptFails(p, e)) /\ UNCHANGED bucket
    <3>1. Goes(p, "sleep") \/ Goes(p, "down")
      BY <2>6 DEF AttemptFails, Exit
    <3> QED BY <2>1, <2>6, <3>1 DEF TypeInv, TypeOK, Goes
  <2> QED BY <1>t, <2>2, <2>3, <2>4, <2>5, <2>6
<1>5. ASSUME NEW p \in Processes, Wake(p) \/ Restart(p) PROVE Passed'
  BY <1>5 DEF TypeInv, TypeOK, Wake, Restart, Goes, FirstStep, services
<1>6. ASSUME NEW p \in Processes, Crash(p) PROVE Passed'
  BY <1>6 DEF TypeInv, TypeOK, Crash, Goes, Exit, services, loop
<1>7. CASE UNCHANGED <<made, group, pc, bucket>>
  BY <1>7
<1> QED
  BY <1>1, <1>2, <1>3, <1>4, <1>5, <1>6, <1>7
  DEF Next, Step, GetReady, ServiceStops, ServiceStarts, vars, services, loop

(* ServesWithStores, for any number of processes, outages and failed       *)
(* calls: whoever has passed MinIO has both buckets, whoever has passed    *)
(* Redis the group, and the two kinds of process pass them in their order. *)
THEOREM ServingHasStores == Spec => []ServesWithStores
<1>1. Init => Passed
  BY DEF Init, Passed
<1>2. TypeInv /\ Passed /\ [Next]_vars => Passed'
  BY PassedStep
<1>3. Passed => ServesWithStores
  BY DEF Passed, ServesWithStores
<1> QED BY <1>1, <1>2, <1>3, TypeInvariant, PTL DEF Spec

LEMMA LostStep == ASSUME TypeInv, LostExists, [Next]_vars PROVE LostExists'
<1> USE DEF LostExists
<1>1. ASSUME NEW p \in Processes, BucketExists(p) PROVE LostExists'
  <2>1. UNCHANGED <<made, lost>>
    BY <1>1 DEF BucketExists, services
  <2>2. \/ Goes(p, "make") /\ UNCHANGED bucket /\ bucket[p] \notin made
        \/ /\ \E to \in {"check", "sleep", "down", "ping", "serving"} : Goes(p, to)
           /\ UNCHANGED bucket \/ bucket' = [bucket EXCEPT ![p] = 2]
    BY <1>1 DEF BucketExists, Ensured, Connected, AfterMinio, AttemptFails, Exit
  <2> QED BY <2>1, <2>2 DEF TypeInv, TypeOK, Goes
<1>2. ASSUME NEW p \in Processes, MakeBucket(p) PROVE LostExists'
  <2>1. /\ made \subseteq made'
        /\ UNCHANGED lost \/ (lost' = [lost EXCEPT ![p] = @ \cup {bucket[p]}] /\ bucket[p] \in made')
    BY <1>2 DEF MakeBucket, Make, Loses
  <2>2. /\ \E to \in {"check", "sleep", "down", "ping", "serving"} : Goes(p, to)
        /\ UNCHANGED bucket \/ bucket' = [bucket EXCEPT ![p] = 2]
    BY <1>2 DEF MakeBucket, Loses, Ensured, Connected, AfterMinio, AttemptFails, Exit
  <2> QED BY <2>1, <2>2 DEF TypeInv, TypeOK, Goes
<1>3. ASSUME NEW p \in Processes, NEW to \in Places \ {"make"}, Goes(p, to),
             UNCHANGED <<made, lost>>,
             UNCHANGED bucket \/ bucket' = [bucket EXCEPT ![p] = 1]
      PROVE  LostExists'
  BY <1>3 DEF TypeInv, TypeOK, Goes
<1>4. ASSUME NEW p \in Processes, NewPostgresConnection(p) \/ Ping(p) \/ Wake(p) PROVE LostExists'
  BY <1>3, <1>4 DEF NewPostgresConnection, Ping, Wake, Exit, services, loop, Places
<1>5. ASSUME NEW p \in Processes, XGroupCreateMkStream(p) PROVE LostExists'
  <2>1. Goes(p, AfterRedis(p)) \/ Goes(p, "down")
    BY <1>5 DEF XGroupCreateMkStream, Exit
  <2>2. AfterRedis(p) \in Places \ {"make"} /\ "down" \in Places \ {"make"}
    BY DEF AfterRedis, Places
  <2>3. UNCHANGED <<made, lost, bucket>>
    BY <1>5 DEF XGroupCreateMkStream, loop
  <2> QED BY <1>3, <2>1, <2>2, <2>3
<1>6. ASSUME NEW p \in Processes, Restart(p) \/ Crash(p) PROVE LostExists'
  <2>1. Goes(p, FirstStep(p)) \/ Goes(p, "down")
    BY <1>6 DEF Restart, Crash, Exit
  <2>2. FirstStep(p) \in Places \ {"make"} /\ "down" \in Places \ {"make"}
    BY DEF FirstStep, Places
  <2>3. UNCHANGED <<made, lost>> /\ (UNCHANGED bucket \/ bucket' = [bucket EXCEPT ![p] = 1])
    BY <1>6 DEF Restart, Crash, services, loop
  <2> QED BY <1>3, <2>1, <2>2, <2>3
<1>7. CASE UNCHANGED <<made, pc, bucket, lost>>
  BY <1>7
<1> QED
  BY <1>1, <1>2, <1>4, <1>5, <1>6, <1>7
  DEF Next, Step, GetReady, ServiceStops, ServiceStarts, vars, services, loop

(* RaceIsLostOnce, however many processes race for a bucket: the one that  *)
(* lost has been told that the bucket is there, and it stays.              *)
THEOREM RaceLostOnce == Spec => []RaceIsLostOnce
<1>1. Init => LostExists
  BY DEF Init, LostExists
<1>2. TypeInv /\ LostExists /\ [Next]_vars => LostExists'
  BY LostStep
<1>3. LostExists => RaceIsLostOnce
  BY DEF LostExists, RaceIsLostOnce
<1> QED BY <1>1, <1>2, <1>3, TypeInvariant, PTL DEF Spec

-----------------------------------------------------------------------------
(* Every non-empty set of numbers has a least element: what stands in for  *)
(* induction below.                                                        *)
LEMMA LeastNumber ==
    ASSUME NEW T, T \subseteq Nat, T # {} PROVE \E x \in T : \A y \in T : ~(y < x)
<1>1. \E x \in T : \A y \in T : ~ (<<y, x>> \in OpToRel(<, Nat))
  BY NatLessThanWellFounded, WFMin, Zenon
<1> QED BY <1>1 DEF OpToRel

(* g doubles, from 1, up to n.                                             *)
Doubles(g, n) == g[0] = 1 /\ \A i \in 1..n : g[i] = 2 * g[i - 1]

LEMMA DoublesExists == \A n \in Nat : \E g \in [Nat -> Nat] : Doubles(g, n)
<1> DEFINE T == {n \in Nat : ~ \E g \in [Nat -> Nat] : Doubles(g, n)}
<1> SUFFICES ASSUME T # {} PROVE FALSE
  OBVIOUS
<1>1. PICK n \in T : \A m \in T : ~(m < n)
  BY LeastNumber
<1>2. n # 0
  <2>1. Doubles([i \in Nat |-> 1], 0)
    BY DEF Doubles
  <2> QED BY <2>1
<1>3. PICK g \in [Nat -> Nat] : Doubles(g, n - 1)
  BY <1>1, <1>2
<1>4. Doubles([g EXCEPT ![n] = 2 * g[n - 1]], n)
  BY <1>2, <1>3 DEF Doubles
<1>5. [g EXCEPT ![n] = 2 * g[n - 1]] \in [Nat -> Nat]
  BY <1>2
<1>6. n \notin T
  BY ONLY <1>4, <1>5
<1> QED BY ONLY <1>6

LEMMA DoublesUnique ==
    ASSUME NEW g, NEW h, NEW n \in Nat, NEW m \in Nat, Doubles(g, n), Doubles(h, m),
           NEW i \in Nat, i <= n, i <= m
    PROVE  g[i] = h[i]
<1> DEFINE T == {k \in 0..i : g[k] # h[k]}
<1> SUFFICES ASSUME T # {} PROVE FALSE
  OBVIOUS
<1>1. PICK k \in T : \A j \in T : ~(j < k)
  <2>1. T \subseteq Nat
    OBVIOUS
  <2> HIDE DEF T
  <2> QED BY <2>1, LeastNumber
<1>2. k # 0 /\ k - 1 \in 0..i /\ k \in 1..n /\ k \in 1..m
  BY DEF Doubles
<1>3. g[k - 1] = h[k - 1]
  BY <1>1, <1>2
<1> QED BY <1>2, <1>3 DEF Doubles

(* The recursive function exists: its value at n is that of any function   *)
(* that doubles up to n.  So it is what its definition says.               *)
LEMMA PowerOfTwo ==
    /\ powerOfTwo[0] = 1
    /\ \A n \in Nat : powerOfTwo[n + 1] = 2 * powerOfTwo[n]
<1> DEFINE G(n) == CHOOSE g \in [Nat -> Nat] : Doubles(g, n)
           f == [n \in Nat |-> G(n)[n]]
<1>1. \A n \in Nat : G(n) \in [Nat -> Nat] /\ Doubles(G(n), n)
  BY DoublesExists
<1>2. f[0] = 1
  BY <1>1 DEF Doubles
<1>3. ASSUME NEW n \in Nat, n # 0 PROVE f[n] = 2 * f[n - 1]
  <2> DEFINE g == G(n)
             h == G(n - 1)
  <2>1. n - 1 \in Nat /\ n \in 1..n
    BY <1>3
  <2>2. Doubles(g, n) /\ Doubles(h, n - 1)
    BY <1>1, <2>1
  <2>3. f[n] = g[n] /\ f[n - 1] = h[n - 1]
    BY <2>1
  <2> HIDE DEF g, h, f
  <2>4. g[n] = 2 * g[n - 1]
    BY <2>1, <2>2 DEF Doubles
  <2>5. g[n - 1] = h[n - 1]
    BY <2>1, <2>2, DoublesUnique
  <2> QED BY <2>3, <2>4, <2>5
<1>4. f = [n \in Nat |-> IF n = 0 THEN 1 ELSE 2 * f[n - 1]]
  <2> HIDE DEF G
  <2>1. \A n \in Nat : f[n] = IF n = 0 THEN 1 ELSE 2 * f[n - 1]
    BY <1>2, <1>3
  <2> QED BY <2>1
<1> HIDE DEF G, f
<1>5. powerOfTwo = [n \in Nat |-> IF n = 0 THEN 1 ELSE 2 * powerOfTwo[n - 1]]
  BY <1>4, Zenon DEF powerOfTwo
<1> DEFINE P == powerOfTwo
<1>6. P = [n \in Nat |-> IF n = 0 THEN 1 ELSE 2 * P[n - 1]]
  BY <1>5
<1> HIDE DEF P
<1>7. P[0] = 1 /\ \A n \in Nat : P[n + 1] = 2 * P[n]
  BY <1>6
<1> QED BY <1>7 DEF P

LEMMA PowerOfTwoIsNat == \A n \in Nat : powerOfTwo[n] \in Nat
<1> DEFINE T == {n \in Nat : powerOfTwo[n] \notin Nat}
<1> SUFFICES ASSUME T # {} PROVE FALSE
  OBVIOUS
<1>1. PICK n \in T : \A m \in T : ~(m < n)
  <2>1. T \subseteq Nat
    OBVIOUS
  <2> HIDE DEF T
  <2> QED BY <2>1, LeastNumber
<1>2. n - 1 \in Nat /\ (n - 1) + 1 = n /\ n - 1 \notin T
  BY <1>1, PowerOfTwo
<1>3. powerOfTwo[n] = 2 * powerOfTwo[n - 1]
  BY <1>2, PowerOfTwo
<1> QED BY <1>2, <1>3

(* One more attempt doubles the backoff, up to the longest; if the product *)
(* fits in a Duration, so did the one before.                              *)
LEMMA BackoffDoubles ==
    ASSUME initialBackoff <= maxBackoff
    PROVE  /\ backoff(0) = initialBackoff
           /\ \A n \in Nat : backoff(n + 1) = IF 2 * backoff(n) > maxBackoff THEN maxBackoff
                                              ELSE 2 * backoff(n)
           /\ \A n \in Nat : Fits(n + 1) => Fits(n)
<1>1. initialBackoff \in Nat /\ maxBackoff \in Nat
  BY SettingsArePositive
<1>2. backoff(0) = initialBackoff
  BY <1>1, PowerOfTwo DEF backoff, exponential
<1>3. ASSUME NEW n \in Nat
      PROVE  /\ backoff(n + 1) = IF 2 * backoff(n) > maxBackoff THEN maxBackoff ELSE 2 * backoff(n)
             /\ Fits(n + 1) => Fits(n)
  <2> DEFINE e == initialBackoff * powerOfTwo[n]
  <2>1. e \in Nat /\ initialBackoff * powerOfTwo[n + 1] = 2 * e
    <3>1. \A i, k \in Nat : i * k \in Nat /\ i * (2 * k) = 2 * (i * k)
      OBVIOUS
    <3> QED BY <1>1, <3>1, PowerOfTwo, PowerOfTwoIsNat
  <2>2. /\ backoff(n) = IF e > maxBackoff THEN maxBackoff ELSE e
        /\ backoff(n + 1) = IF 2 * e > maxBackoff THEN maxBackoff ELSE 2 * e
    BY <2>1 DEF backoff, exponential
  <2>3. Fits(n + 1) <=> 2 * e <= MaxDuration
    BY <2>1 DEF Fits, exponential
  <2>4. Fits(n) <=> e <= MaxDuration
    BY DEF Fits, exponential
  <2> HIDE DEF e
  <2> QED BY <1>1, <2>1, <2>2, <2>3, <2>4, DurationAssumption DEF DurationAssumption
<1> QED BY <1>2, <1>3

LEMMA DelayStep == ASSUME TypeInv, DelayIsBackoff, [Next]_vars PROVE DelayIsBackoff'
<1> SUFFICES ASSUME initialBackoff <= maxBackoff, NEW q \in Processes
             PROVE  Fits(attempt'[q] - 1) => delay'[q] = backoff(attempt'[q] - 1)
  BY DEF DelayIsBackoff, initialBackoff, maxBackoff, Setting, Fits, backoff, exponential
<1>1. attempt[q] \in Nat \ {0} /\ (Fits(attempt[q] - 1) => delay[q] = backoff(attempt[q] - 1))
  BY SettingsArePositive DEF TypeInv, TypeOK, DelayIsBackoff
<1>2. ASSUME NEW p \in Processes, Wake(p), Fits(attempt'[q] - 1)
      PROVE  delay'[q] = backoff(attempt'[q] - 1)
  <2>1. CASE p = q
    <3>1. /\ attempt'[q] = attempt[q] + 1
          /\ delay'[q] = IF 2 * delay[q] > maxBackoff THEN maxBackoff ELSE 2 * delay[q]
      BY <1>2, <2>1 DEF Wake, TypeInv, TypeOK
    <3>2. attempt[q] - 1 \in Nat /\ (attempt[q] - 1) + 1 = attempt'[q] - 1
      BY <1>1, <3>1
    <3> QED BY <1>1, <1>2, <3>1, <3>2, BackoffDoubles
  <2>2. CASE p # q
    <3>1. attempt'[q] = attempt[q] /\ delay'[q] = delay[q]
      BY <1>2, <2>2 DEF Wake, TypeInv, TypeOK
    <3> QED BY <1>1, <1>2, <3>1
  <2> QED BY <2>1, <2>2
<1>3. ASSUME NEW p \in Processes, Restart(p), Fits(attempt'[q] - 1)
      PROVE  delay'[q] = backoff(attempt'[q] - 1)
  <2>1. \/ attempt'[q] = 1 /\ delay'[q] = initialBackoff
        \/ attempt'[q] = attempt[q] /\ delay'[q] = delay[q]
    BY <1>3 DEF Restart, TypeInv, TypeOK
  <2> QED BY <1>1, <1>3, <2>1, BackoffDoubles
<1>4. CASE UNCHANGED <<attempt, delay>>
  BY <1>1, <1>4
<1> QED
  BY <1>2, <1>3, <1>4
  DEF Next, Step, NewPostgresConnection, Ping, XGroupCreateMkStream, BucketExists, MakeBucket,
      Crash, GetReady, ServiceStops, ServiceStarts, vars, loop

(* DelayIsBackoff, for any settings and any number of attempts: the delay  *)
(* retryWithBackoff doubles and caps from one attempt to the next is the   *)
(* one Retry.backoff computes from the number of the attempt, as long as   *)
(* that fits in a Duration.                                                *)
THEOREM DelaysAreBackoffs == Spec => []DelayIsBackoff
<1>1. Init => DelayIsBackoff
  BY BackoffDoubles DEF Init, DelayIsBackoff
<1>2. TypeInv /\ DelayIsBackoff /\ [Next]_vars => DelayIsBackoff'
  BY DelayStep
<1> QED BY <1>1, <1>2, TypeInvariant, PTL DEF Spec

-----------------------------------------------------------------------------
(* Who has been connected to MinIO was returned a nil client.              *)
NilClient ==
    \A p \in Processes :
        /\ p \in Apis /\ pc[p] \in {"ping", "group", "serving"} => client[p] = "nil"
        /\ p \notin Apis /\ pc[p] = "serving" => client[p] = "nil"

LEMMA NilStep == ASSUME TypeInv, NilClient, [Next]_vars PROVE NilClient'
<1> USE DEF NilClient
<1>1. ASSUME NEW p \in Processes, NEW to \in {"down", "check", "make", "sleep"}, Goes(p, to),
             UNCHANGED client
      PROVE  NilClient'
  BY <1>1 DEF TypeInv, TypeOK, Goes
<1>2. ASSUME NEW p \in Processes, NewPostgresConnection(p) \/ Wake(p) \/ Crash(p) PROVE NilClient'
  BY <1>1, <1>2 DEF NewPostgresConnection, Wake, Crash, Exit
<1>3. ASSUME NEW p \in Processes, Ping(p) PROVE NilClient'
  BY <1>3 DEF TypeInv, TypeOK, Ping, Goes, Exit
<1>4. ASSUME NEW p \in Processes, XGroupCreateMkStream(p) PROVE NilClient'
  <2>1. pc[p] = "group" /\ (Goes(p, AfterRedis(p)) \/ Goes(p, "down")) /\ UNCHANGED client
    BY <1>4 DEF XGroupCreateMkStream, Exit
  <2> QED BY <2>1 DEF TypeInv, TypeOK, Goes, AfterRedis
<1>5. ASSUME NEW p \in Processes, BucketExists(p) \/ MakeBucket(p) PROVE NilClient'
  <2>1. \/ Connected(p)
        \/ \E to \in {"down", "check", "make", "sleep"} : Goes(p, to) /\ UNCHANGED client
    BY <1>5 DEF BucketExists, MakeBucket, Ensured, Loses, AttemptFails, Exit
  <2>2. CASE Connected(p)
    BY <2>2 DEF TypeInv, TypeOK, Connected, Goes
  <2> QED BY <1>1, <2>1, <2>2
<1>6. ASSUME NEW p \in Processes, Restart(p) PROVE NilClient'
  BY <1>6 DEF TypeInv, TypeOK, Restart, Goes, FirstStep
<1>7. CASE UNCHANGED <<pc, client>>
  BY <1>7
<1> QED
  BY <1>2, <1>3, <1>4, <1>5, <1>6, <1>7
  DEF Next, Step, GetReady, ServiceStops, ServiceStarts, vars

(* The extent of what ReadyWhenUp finds: because NewMinioConnection        *)
(* returns the client its closure has not set, every GET /ready there ever *)
(* is is answered 500, whatever services are up, and whatever was retried. *)
THEOREM NeverReady == Spec => [][\A p \in Apis : GetReady(p) => answer'[p] = "500"]_vars
<1>1. Init => NilClient
  BY DEF Init, NilClient
<1>2. TypeInv /\ NilClient /\ [Next]_vars => NilClient'
  BY NilStep
<1>3. TypeInv /\ NilClient => \A p \in Apis : GetReady(p) => answer'[p] = "500"
  BY DEF TypeInv, TypeOK, NilClient, GetReady, Processes
<1> QED BY <1>1, <1>2, <1>3, TypeInvariant, PTL DEF Spec
=============================================================================
