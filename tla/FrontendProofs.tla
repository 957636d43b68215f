---------------------------- MODULE FrontendProofs ----------------------------
(***************************************************************************)
(* Proofs about the initiation of uploads, as pages use it: whatever page  *)
(* and handler do and whatever fails, for any files, part sizes, limits    *)
(* and number of failures.                                                 *)
(***************************************************************************)
EXTENDS Frontend, TLAPS

AtWork == {"row", "multipart", "url"}

ServerTypes ==
    /\ rows \subseteq Uploads
    /\ multipart \in [Uploads -> {"none", "open", "completed"}]
    /\ urls \in [Uploads -> SUBSET Nat]
    /\ ini \in [Uploads -> [pc : AtWork \cup Finished \cup {"none", "abort", "delete"},
                            size : Nat, partSize : Nat, part : Nat \ {0}]]
    /\ failures \in [Uploads -> Nat]

Untouched(u) == u \notin rows /\ multipart[u] = "none" /\ urls[u] = {}

Sized(u) == /\ ini[u].size > 0 /\ ini[u].partSize > 0
            /\ ini[u].part <= totalParts(ini[u].size, ini[u].partSize)

(* What the handler has done by each of its places.                        *)
Done(u) ==
    /\ ini[u].pc \in {"none", "row"} => Untouched(u) /\ ini[u].part = 1
    /\ ini[u].pc = "multipart" => u \in rows /\ multipart[u] = "none" /\ urls[u] = {} /\ ini[u].part = 1
    /\ ini[u].pc = "url" => u \in rows /\ multipart[u] = "open" /\ urls[u] = 1..(ini[u].part - 1)
    /\ ini[u].pc \in AtWork => Sized(u)
    /\ ini[u].pc = "ok" => /\ Sized(u) /\ ini[u].part = totalParts(ini[u].size, ini[u].partSize)
                           /\ u \in rows /\ multipart[u] \in {"open", "completed"}
                           /\ urls[u] = 1..ini[u].part

(* What its cleanup has undone, unless a second call has failed.           *)
Undone(u) ==
    u \notin unsure \cup gone =>
        /\ ini[u].pc \in {"abort", "delete"} => failures[u] >= 1
        /\ ini[u].pc = "delete" => multipart[u] = "none" \/ failures[u] >= 2
        /\ ini[u].pc = "failed" => Untouched(u) \/ failures[u] >= 2

(* The form puts parts, and completes, once it was answered 200.           *)
Answered200 ==
    /\ {"upload", "pc"} \subseteq DOMAIN form
    /\ form.pc # "idle" => form.upload \in Uploads
    /\ form.pc \in {"parts", "complete"} => ini[form.upload].pc = "ok"

Server == ServerTypes /\ \A u \in Uploads : Done(u) /\ Undone(u)
IInv == Server /\ Answered200

-----------------------------------------------------------------------------
LEMMA PartsCover ==
    ASSUME NEW s \in Nat, NEW p \in Nat, s > 0, p > 0
    PROVE  /\ totalParts(s, p) \in Nat /\ totalParts(s, p) >= 1
           /\ (totalParts(s, p) - 1) * p < s
           /\ s <= totalParts(s, p) * p
<1> DEFINE q == (s + p - 1) \div p
<1>1. q \in Int /\ p * q <= s + p - 1 /\ s + p - 1 < p * q + p
    OBVIOUS
<1>2. q >= 1
    <2>1. s + p - 1 >= p
        OBVIOUS
    <2>2. q <= 0 => p * q <= 0
        BY <1>1
    <2> QED BY <1>1, <2>1, <2>2
<1>3. (q - 1) * p = p * q - p /\ q * p = p * q
    BY <1>1
<1> HIDE DEF q
<1>4. totalParts(s, p) = q
    BY DEF totalParts, q
<1> QED
    BY <1>1, <1>2, <1>3, <1>4

LEMMA SpecImplies == Server => AnsweredHasAll /\ FailedLeavesNothing
<1> SUFFICES ASSUME Server PROVE AnsweredHasAll /\ FailedLeavesNothing
    OBVIOUS
<1>1. ASSUME NEW u \in Uploads, ini[u].pc = "ok"
      PROVE  /\ (ini[u].part - 1) * ini[u].partSize < ini[u].size
             /\ ini[u].size <= ini[u].part * ini[u].partSize
    <2>1. /\ ini[u].size \in Nat /\ ini[u].partSize \in Nat
          /\ ini[u].size > 0 /\ ini[u].partSize > 0
          /\ ini[u].part = totalParts(ini[u].size, ini[u].partSize)
        BY <1>1 DEF Server, ServerTypes, Done, Sized
    <2> QED
        BY <2>1, PartsCover
<1>2. AnsweredHasAll
    BY <1>1 DEF Server, Done, AnsweredHasAll
<1>3. FailedLeavesNothing
    BY DEF Server, ServerTypes, Undone, Untouched, FailedLeavesNothing
<1> QED
    BY <1>2, <1>3

-----------------------------------------------------------------------------
(* What does not concern an upload leaves it as it is.                     *)
LEMMA Frame ==
    ASSUME NEW u \in Uploads, Done(u), Undone(u),
           failures[u] \in Nat, failures'[u] \in Nat, failures'[u] >= failures[u],
           ini'[u] = ini[u], multipart'[u] = multipart[u], urls'[u] = urls[u],
           u \in rows' <=> u \in rows,
           gone \subseteq gone', unsure \subseteq unsure'
    PROVE  Done(u)' /\ Undone(u)'
<1>1. Untouched(u)' <=> Untouched(u)
    BY DEF Untouched
<1>2. Sized(u)' <=> Sized(u)
    BY DEF Sized, totalParts
<1>3. Done(u)'
    BY <1>1, <1>2 DEF Done, totalParts
<1>4. Undone(u)'
    BY <1>1 DEF Undone
<1> QED
    BY <1>3, <1>4

LEMMA FailuresGrow ==
    ASSUME ServerTypes, NEW u \in Uploads, CallFails(u) \/ UNCHANGED failures
    PROVE  /\ failures' \in [Uploads -> Nat]
           /\ \A v \in Uploads : failures'[v] >= failures[v]
           /\ CallFails(u) => u \in gone \/ failures'[u] = failures[u] + 1
<1>1. failures \in [Uploads -> Nat]
    BY DEF ServerTypes
<1>2. CASE UNCHANGED failures
    BY <1>1, <1>2 DEF CallFails
<1>3. CASE failures' = [failures EXCEPT ![u] = @ + 1]
    BY <1>1, <1>3
<1> QED
    BY <1>2, <1>3 DEF CallFails

(* A step of the page that leaves the server's stores alone.               *)
LEMMA Elsewhere ==
    ASSUME Server, UNCHANGED <<rows, multipart, urls, ini, unsure>>, gone \subseteq gone',
           failures' \in [Uploads -> Nat], \A v \in Uploads : failures'[v] >= failures[v]
    PROVE  Server'
<1>1. ServerTypes'
    BY DEF Server, ServerTypes
<1>2. ASSUME NEW v \in Uploads PROVE Done(v)' /\ Undone(v)'
    <2>1. failures[v] \in Nat /\ failures'[v] \in Nat
        BY DEF Server, ServerTypes
    <2> QED
        BY <2>1, Frame DEF Server
<1> QED
    BY <1>1, <1>2 DEF Server

(* A step of the handler of u: the other uploads are framed.               *)
LEMMA HandlerStep ==
    ASSUME Server, NEW u \in Uploads, ServerTypes',
           \A v \in Uploads \ {u} : /\ ini'[v] = ini[v] /\ multipart'[v] = multipart[v]
                                    /\ urls'[v] = urls[v] /\ (v \in rows' <=> v \in rows)
                                    /\ failures'[v] >= failures[v],
           gone' = gone, unsure \subseteq unsure',
           Done(u)', Undone(u)'
    PROVE  Server'
<1>1. ASSUME NEW v \in Uploads PROVE Done(v)' /\ Undone(v)'
    <2>1. CASE v = u
        BY <2>1
    <2>2. CASE v # u
        <3>1. failures[v] \in Nat /\ failures'[v] \in Nat
            BY DEF Server, ServerTypes
        <3> QED
            BY <2>2, <3>1, Frame DEF Server
    <2> QED
        BY <2>1, <2>2
<1> QED
    BY <1>1 DEF Server

LEMMA IniGoesTo ==
    ASSUME ServerTypes, NEW u \in Uploads,
           NEW pc \in AtWork \cup Finished \cup {"none", "abort", "delete"}, IniGoes(u, pc)
    PROVE  /\ ini' \in [Uploads -> [pc : AtWork \cup Finished \cup {"none", "abort", "delete"},
                                    size : Nat, partSize : Nat, part : Nat \ {0}]]
           /\ ini'[u].pc = pc /\ ini'[u].size = ini[u].size
           /\ ini'[u].partSize = ini[u].partSize /\ ini'[u].part = ini[u].part
           /\ \A v \in Uploads \ {u} : ini'[v] = ini[v]
BY DEF IniGoes, ServerTypes

LEMMA CreateJobStep == ASSUME Server, NEW u \in Uploads, CreateJob(u) PROVE Server'
<1>1. /\ ini[u].pc = "row" /\ ServerTypes /\ Done(u) /\ failures[u] \in Nat
      /\ UNCHANGED <<multipart, urls, gone>>
    BY DEF CreateJob, Call, Server, ServerTypes
<1>2. Untouched(u) /\ Sized(u) /\ ini[u].part = 1
    BY <1>1 DEF Done, AtWork
<1>3. CASE rows' = rows \cup {u} /\ IniGoes(u, "multipart") /\ UNCHANGED <<failures, unsure>>
    <2>1. ServerTypes' /\ ini'[u].pc = "multipart" /\ ini'[u].part = 1 /\ Sized(u)'
        BY <1>1, <1>2, <1>3, IniGoesTo DEF AtWork, ServerTypes, Sized, totalParts
    <2>2. Done(u)' /\ Undone(u)'
        BY <1>1, <1>2, <1>3, <2>1 DEF Done, Undone, Untouched, AtWork
    <2> QED
        BY <1>1, <1>3, <2>1, <2>2, IniGoesTo, HandlerStep DEF AtWork, ServerTypes
<1>4. CASE /\ rows' = rows \cup {u} \/ UNCHANGED rows
           /\ IniGoes(u, "failed") /\ CallFails(u)
           /\ unsure' = unsure \cup {u} \/ UNCHANGED <<rows, unsure>>
    <2>1. ServerTypes' /\ ini'[u].pc = "failed"
        BY <1>1, <1>4, IniGoesTo, FailuresGrow DEF Finished, ServerTypes
    <2>2. Done(u)' /\ Undone(u)'
        BY <1>1, <1>2, <1>4, <2>1 DEF Done, Undone, Untouched, AtWork
    <2> QED
        BY <1>1, <1>4, <2>1, <2>2, IniGoesTo, FailuresGrow, HandlerStep DEF Finished, ServerTypes
<1> QED
    BY <1>3, <1>4 DEF CreateJob, Call

LEMMA MultipartStep == ASSUME Server, NEW u \in Uploads, NewMultipartUpload(u) PROVE Server'
<1>1. /\ ini[u].pc = "multipart" /\ ServerTypes /\ Done(u) /\ failures[u] \in Nat
      /\ UNCHANGED <<rows, urls, gone>>
    BY DEF NewMultipartUpload, Call, Server, ServerTypes
<1>2. u \in rows /\ multipart[u] = "none" /\ urls[u] = {} /\ Sized(u) /\ ini[u].part = 1
    BY <1>1 DEF Done, AtWork
<1>3. CASE multipart' = [multipart EXCEPT ![u] = "open"] /\ IniGoes(u, "url") /\ UNCHANGED <<failures, unsure>>
    <2>1. ServerTypes' /\ ini'[u].pc = "url" /\ ini'[u].part = 1 /\ Sized(u)' /\ multipart'[u] = "open"
        BY <1>1, <1>2, <1>3, IniGoesTo DEF AtWork, ServerTypes, Sized, totalParts
    <2>2. Done(u)' /\ Undone(u)'
        BY <1>1, <1>2, <1>3, <2>1 DEF Done, Undone, AtWork
    <2> QED
        BY <1>1, <1>3, <2>1, <2>2, IniGoesTo, HandlerStep DEF AtWork, ServerTypes
<1>4. CASE /\ multipart' = [multipart EXCEPT ![u] = "open"] \/ UNCHANGED multipart
           /\ IniGoes(u, "delete") /\ CallFails(u)
           /\ unsure' = unsure \cup {u} \/ UNCHANGED <<multipart, unsure>>
    <2>1. ServerTypes' /\ ini'[u].pc = "delete"
        BY <1>1, <1>4, IniGoesTo, FailuresGrow DEF ServerTypes
    <2>2. u \in gone \/ failures'[u] >= 1
        BY <1>1, <1>4, FailuresGrow
    <2>3. Done(u)' /\ Undone(u)'
        BY <1>1, <1>2, <1>4, <2>1, <2>2 DEF Done, Undone, AtWork
    <2> QED
        BY <1>1, <1>4, <2>1, <2>3, IniGoesTo, FailuresGrow, HandlerStep DEF ServerTypes
<1> QED
    BY <1>3, <1>4 DEF NewMultipartUpload, Call

LEMMA PresignedStep == ASSUME Server, NEW u \in Uploads, CreatePresignedURL(u) PROVE Server'
<1> DEFINE stored1 == [urls EXCEPT ![u] = @ \cup {ini[u].part}]
           total == totalParts(ini[u].size, ini[u].partSize)
           next == [ini[u] EXCEPT !.part = @ + 1]
           last == [ini[u] EXCEPT !.pc = "ok"]
<1>1. /\ ini[u].pc = "url" /\ ServerTypes /\ Done(u) /\ failures[u] \in Nat /\ ini[u].part \in Nat
      /\ UNCHANGED <<rows, multipart, gone>>
    BY DEF CreatePresignedURL, Server, ServerTypes
<1>2. u \in rows /\ multipart[u] = "open" /\ urls[u] = 1..(ini[u].part - 1) /\ Sized(u)
    BY <1>1 DEF Done, AtWork
<1>3. total \in Nat
    BY <1>1, <1>2, PartsCover DEF Sized, ServerTypes
<1>4. stored1 \in [Uploads -> SUBSET Nat] /\ stored1[u] = 1..ini[u].part
    BY <1>1, <1>2 DEF ServerTypes
<1>n. /\ next \in [pc : {"url"}, size : Nat, partSize : Nat, part : Nat \ {0}]
      /\ next.part = ini[u].part + 1 /\ next.size = ini[u].size /\ next.partSize = ini[u].partSize
    BY <1>1 DEF ServerTypes
<1> HIDE DEF stored1, next
<1>5. CASE /\ urls' = stored1 /\ UNCHANGED <<failures, unsure>>
           /\ ini' = [ini EXCEPT ![u] = next] /\ ini[u].part < total
    <2>1. /\ ini' \in [Uploads -> [pc : AtWork \cup Finished \cup {"none", "abort", "delete"},
                                  size : Nat, partSize : Nat, part : Nat \ {0}]]
          /\ ini'[u] = next /\ \A v \in Uploads \ {u} : ini'[v] = ini[v]
        BY <1>1, <1>n, <1>5 DEF ServerTypes, AtWork
    <2>t. ServerTypes'
        BY <1>1, <1>4, <1>5, <2>1 DEF ServerTypes
    <2>2. ini'[u].pc = "url" /\ ini'[u].part = ini[u].part + 1 /\ Sized(u)'
        BY <1>1, <1>2, <1>3, <1>n, <1>5, <2>1 DEF Sized, totalParts
    <2>3. Done(u)' /\ Undone(u)'
        BY <1>1, <1>2, <1>4, <1>5, <2>2 DEF Done, Undone, AtWork
    <2> QED
        BY <1>1, <1>5, <2>1, <2>t, <2>3, HandlerStep DEF ServerTypes, stored1
<1>6. CASE /\ urls' = stored1 /\ UNCHANGED <<failures, unsure>>
           /\ IniGoes(u, "ok") /\ ini[u].part >= total
    <2>1. ServerTypes' /\ ini'[u].pc = "ok" /\ Sized(u)'
        BY <1>1, <1>2, <1>4, <1>6, IniGoesTo DEF ServerTypes, Sized, totalParts, Finished
    <2>2. ini'[u].part = ini[u].part /\ ini[u].part = total
          /\ total = totalParts(ini[u].size, ini[u].partSize)'
        BY <1>1, <1>2, <1>3, <1>6, IniGoesTo DEF Sized, Finished, totalParts
    <2>3. Done(u)' /\ Undone(u)'
        BY <1>1, <1>2, <1>4, <1>6, <2>1, <2>2 DEF Done, Undone, AtWork
    <2> QED
        BY <1>1, <1>6, <2>1, <2>3, IniGoesTo, HandlerStep DEF ServerTypes, stored1, Finished
<1>7. CASE urls' \in {stored1, urls} /\ IniGoes(u, "abort") /\ CallFails(u) /\ unsure \subseteq unsure'
    <2>1. ServerTypes' /\ ini'[u].pc = "abort"
        BY <1>1, <1>4, <1>7, IniGoesTo, FailuresGrow DEF ServerTypes
    <2>2. u \in gone \/ failures'[u] >= 1
        BY <1>1, <1>7, FailuresGrow
    <2>3. Done(u)' /\ Undone(u)'
        BY <1>1, <2>1, <2>2 DEF Done, Undone, AtWork
    <2> QED
        BY <1>1, <1>7, <2>1, <2>3, IniGoesTo, FailuresGrow, HandlerStep DEF ServerTypes, stored1
<1>8. \/ /\ urls' = stored1 /\ UNCHANGED <<failures, unsure>>
         /\ ini' = [ini EXCEPT ![u] = IF ini[u].part < total THEN next ELSE last]
      \/ urls' \in {stored1, urls} /\ IniGoes(u, "abort") /\ CallFails(u) /\ unsure \subseteq unsure'
    BY DEF CreatePresignedURL, stored1, next
<1>9. ini' = [ini EXCEPT ![u] = last] => IniGoes(u, "ok")
    BY DEF IniGoes
<1>10. ini[u].part < total \/ ini[u].part >= total
    BY <1>1, <1>3
<1> HIDE DEF last, total
<1> QED
    BY <1>5, <1>6, <1>7, <1>8, <1>9, <1>10

LEMMA AbortStep == ASSUME Server, NEW u \in Uploads, AbortMultipartUpload(u) PROVE Server'
<1>1. /\ ini[u].pc = "abort" /\ ServerTypes /\ failures[u] \in Nat
      /\ u \in unsure \cup gone \/ failures[u] >= 1
      /\ UNCHANGED <<rows, urls, gone>> /\ IniGoes(u, "delete")
      /\ \/ multipart' = [multipart EXCEPT ![u] = "none"] /\ UNCHANGED <<failures, unsure>>
         \/ /\ multipart' = [multipart EXCEPT ![u] = "none"] \/ UNCHANGED multipart
            /\ CallFails(u) /\ unsure \subseteq unsure'
    BY DEF AbortMultipartUpload, Call, Server, ServerTypes, Undone
<1>2. ServerTypes' /\ ini'[u].pc = "delete"
    BY <1>1, IniGoesTo, FailuresGrow DEF ServerTypes
<1>3. \/ multipart'[u] = "none" /\ failures'[u] = failures[u]
      \/ u \in gone \/ failures'[u] = failures[u] + 1
    BY <1>1, FailuresGrow DEF ServerTypes
<1>4. Done(u)' /\ Undone(u)'
    BY <1>1, <1>2, <1>3 DEF Done, Undone, AtWork
<1> QED
    BY <1>1, <1>2, <1>4, IniGoesTo, FailuresGrow, HandlerStep DEF ServerTypes

LEMMA DeleteStep == ASSUME Server, NEW u \in Uploads, DeleteJob(u) PROVE Server'
<1>1. /\ ini[u].pc = "delete" /\ ServerTypes /\ failures[u] \in Nat
      /\ u \in unsure \cup gone \/ failures[u] >= 2 \/ (failures[u] >= 1 /\ multipart[u] = "none")
      /\ UNCHANGED <<multipart, gone>> /\ IniGoes(u, "failed") /\ unsure \subseteq unsure'
      /\ CallFails(u) \/ UNCHANGED failures
    BY DEF DeleteJob, Call, Server, ServerTypes, Undone
<1>2. \/ rows' = rows \ {u} /\ urls' = [urls EXCEPT ![u] = {}]
      \/ UNCHANGED <<rows, urls>> /\ CallFails(u)
    BY DEF DeleteJob, Call
<1>3. ServerTypes' /\ ini'[u].pc = "failed"
    BY <1>1, <1>2, IniGoesTo, FailuresGrow DEF ServerTypes, Finished
<1>4. failures'[u] \in Nat /\ failures'[u] >= failures[u]
    BY <1>1, <1>3, FailuresGrow DEF ServerTypes
<1>5. \/ u \notin rows' /\ urls'[u] = {}
      \/ u \in gone \/ failures'[u] = failures[u] + 1
    BY <1>1, <1>2, FailuresGrow DEF ServerTypes
<1>6. Done(u)' /\ Undone(u)'
    BY <1>1, <1>3, <1>4, <1>5 DEF Done, Undone, Untouched, AtWork
<1> QED
    BY <1>1, <1>2, <1>3, <1>6, IniGoesTo, FailuresGrow, HandlerStep DEF ServerTypes, Finished

LEMMA InitiateStepKeeps ==
    ASSUME Server, NEW u \in Uploads, InitiateMultipartUpload(u)
    PROVE  Server' /\ (\A v \in Uploads : ini[v].pc = "ok" => ini'[v].pc = "ok")
<1>1. Server'
    BY CreateJobStep, MultipartStep, PresignedStep, AbortStep, DeleteStep DEF InitiateMultipartUpload
<1>2. ini[u].pc # "ok" /\ \A v \in Uploads \ {u} : ini'[v] = ini[v]
    BY DEF InitiateMultipartUpload, CreateJob, NewMultipartUpload, CreatePresignedURL,
           AbortMultipartUpload, DeleteJob, Call, IniGoes, Server, ServerTypes
<1> QED
    BY <1>1, <1>2

(* A request arrives: nothing has been done for it yet.                    *)
LEMMA InitiateKeeps ==
    ASSUME Server, NEW u \in Uploads, NEW size \in Nat, NEW requested \in Nat,
           Initiate(u, size, requested), UNCHANGED <<rows, multipart, urls, failures, unsure, gone>>
    PROVE  Server' /\ (\A v \in Uploads : ini[v].pc = "ok" => ini'[v].pc = "ok")
<1> DEFINE ps == PartSizeOf(requested)
           accepted == [ini[u] EXCEPT !.pc = "row", !.size = size, !.partSize = ps]
           refused == [ini[u] EXCEPT !.pc = "refused"]
<1>1. ini[u].pc = "none" /\ ServerTypes /\ Done(u) /\ ini[u].part = 1 /\ Untouched(u)
    BY DEF Initiate, Server, Done
<1>2. ps \in Nat /\ MinPartSize \in Nat \ {0}
    BY UploadAssumption DEF PartSizeOf
<1>3. CASE ini' = [ini EXCEPT ![u] = accepted] /\ Valid(size, requested)
    <2>1. /\ ServerTypes' /\ ini'[u].pc = "row" /\ ini'[u].part = 1
          /\ ini'[u].size = size /\ ini'[u].partSize = ps
          /\ \A v \in Uploads \ {u} : ini'[v] = ini[v]
        BY <1>1, <1>2, <1>3 DEF ServerTypes, AtWork
    <2>2. size > 0 /\ ps > 0
        BY <1>2, <1>3 DEF Valid
    <2>3. totalParts(size, ps) \in Nat /\ totalParts(size, ps) >= 1
        BY <1>2, <2>2, PartsCover
    <2>4. Sized(u)'
        BY <2>1, <2>2, <2>3 DEF Sized, totalParts
    <2>5. Done(u)' /\ Undone(u)'
        BY <1>1, <2>1, <2>4 DEF Done, Undone, Untouched, AtWork
    <2>6. \A v \in Uploads : failures'[v] >= failures[v]
        BY <1>1 DEF ServerTypes
    <2> QED
        BY <1>1, <2>1, <2>5, <2>6, HandlerStep
<1>4. CASE ini' = [ini EXCEPT ![u] = refused]
    <2>1. /\ ServerTypes' /\ ini'[u].pc = "refused"
          /\ \A v \in Uploads \ {u} : ini'[v] = ini[v]
        BY <1>1, <1>4 DEF ServerTypes, Finished
    <2>2. Done(u)' /\ Undone(u)'
        BY <1>1, <2>1 DEF Done, Undone, AtWork
    <2>3. \A v \in Uploads : failures'[v] >= failures[v]
        BY <1>1 DEF ServerTypes
    <2> QED
        BY <1>1, <2>1, <2>2, <2>3, HandlerStep
<1> QED
    BY <1>3, <1>4 DEF Initiate

(* MinIO assembles the parts of an upload that was answered 200.           *)
LEMMA AssembleKeeps ==
    ASSUME Server, NEW u \in Uploads, ini[u].pc = "ok",
           UNCHANGED <<rows, urls, ini, unsure, gone>>,
           multipart' = [multipart EXCEPT ![u] = "completed"],
           CallFails(u) \/ UNCHANGED failures
    PROVE  Server'
<1>1. ServerTypes /\ ServerTypes' /\ Done(u) /\ multipart'[u] = "completed"
    BY FailuresGrow DEF Server, ServerTypes
<1>2. Sized(u)' <=> Sized(u)
    BY DEF Sized, totalParts
<1>3. Done(u)' /\ Undone(u)'
    BY <1>1, <1>2 DEF Done, Undone, AtWork, totalParts
<1> QED
    BY <1>1, <1>3, FailuresGrow, HandlerStep DEF ServerTypes

-----------------------------------------------------------------------------
(* The form: it goes on to its parts only when it was answered 200, and    *)
(* that answer stands.                                                     *)
OkStands == \A v \in Uploads : ini[v].pc = "ok" => ini'[v].pc = "ok"

LEMMA FormKeeps ==
    ASSUME Answered200, OkStands,
           \/ UNCHANGED form
           \/ form' = FormIdle
           \/ {"upload", "pc"} \subseteq DOMAIN form' /\ form'.pc = "initiate" /\ form'.upload \in Uploads
           \/ /\ {"upload", "pc"} \subseteq DOMAIN form' /\ form'.upload = form.upload
              /\ form'.pc = form.pc \/ (form.upload \in Uploads /\ ini[form.upload].pc = "ok")
    PROVE  Answered200'
BY DEF Answered200, OkStands, FormIdle

LEMMA FormStep ==
    ASSUME Answered200, OkStands,
           \/ loadPresets \/ EditForm \/ Initiated \/ InitiateUnanswered \/ uploadPart
           \/ completeUpload \/ LeavePage
           \/ \E u \in Uploads, size \in FileSizes, p \in PartSizes, c \in Choices :
                  startUpload(u, size, p, c)
           \/ UNCHANGED form
    PROVE  Answered200'
<1>0. {"upload", "pc"} \subseteq DOMAIN form
    BY DEF Answered200
<1>1. ASSUME NEW c, Live(c) PROVE Answered200'
    <2>1. UNCHANGED form \/ form' = [form EXCEPT !.live = c]
        BY <1>1 DEF Live
    <2>2. form' = [form EXCEPT !.live = c] =>
              /\ {"upload", "pc"} \subseteq DOMAIN form'
              /\ form'.upload = form.upload /\ form'.pc = form.pc
        BY <1>0
    <2> QED
        BY <2>1, <2>2, FormKeeps
<1>2. CASE Initiated
    <2>1. form.upload \in Uploads
        BY <1>2 DEF Initiated, Answered200
    <2>2. CASE ini[Upload].pc = "ok" /\ form' = [form EXCEPT !.pc = "parts"]
        <3>1. {"upload", "pc"} \subseteq DOMAIN form' /\ form'.upload = form.upload
            BY <1>0, <2>2
        <3> QED
            BY <2>1, <2>2, <3>1, FormKeeps DEF Upload
    <2> QED
        BY <1>2, <2>2, FormKeeps DEF Initiated, GiveUp
<1>3. CASE uploadPart
    <2>1. form.pc = "parts" /\ form.upload \in Uploads /\ ini[form.upload].pc = "ok"
        BY <1>3 DEF uploadPart, Answered200
    <2> DEFINE acknowledged ==
                   [form EXCEPT !.done = Append(@, form.part), !.retries = 0, !.part = @ + 1,
                                !.pc = IF form.part < ini[Upload].part THEN @ ELSE "complete"]
               again == [form EXCEPT !.retries = @ + 1]
    <2>2. form' = acknowledged \/ form' = again \/ form' = FormIdle
        BY <1>3 DEF uploadPart, GiveUp
    <2>3. /\ {"upload", "pc"} \subseteq DOMAIN acknowledged /\ acknowledged.upload = form.upload
          /\ {"upload", "pc"} \subseteq DOMAIN again /\ again.upload = form.upload
        BY <1>0
    <2> HIDE DEF acknowledged, again
    <2> QED
        BY <2>1, <2>2, <2>3, FormKeeps
<1>4. ASSUME NEW u \in Uploads, NEW size, NEW p, NEW c, startUpload(u, size, p, c) PROVE Answered200'
    <2>1. form' = [FormIdle EXCEPT !.upload = u, !.pc = "initiate", !.asked = p, !.config = c, !.live = c]
        BY <1>4 DEF startUpload
    <2>2. {"upload", "pc"} \subseteq DOMAIN form' /\ form'.pc = "initiate" /\ form'.upload = u
        BY <2>1 DEF FormIdle
    <2> QED
        BY <2>2, FormKeeps
<1>5. CASE InitiateUnanswered \/ completeUpload \/ LeavePage \/ UNCHANGED form
    BY <1>5, FormKeeps DEF InitiateUnanswered, completeUpload, LeavePage, GiveUp, Completed
<1>6. CASE loadPresets \/ EditForm
    BY <1>1, <1>6 DEF loadPresets, EditForm
<1> QED
    BY <1>2, <1>3, <1>4, <1>5, <1>6

-----------------------------------------------------------------------------
LEMMA Quiet ==
    ASSUME Server, UNCHANGED <<rows, multipart, urls, ini, unsure>>, gone \subseteq gone',
           \/ UNCHANGED failures
           \/ \E u \in Uploads : CallFails(u) \/ failures' = [failures EXCEPT ![u] = @ + 1]
    PROVE  Server' /\ OkStands
<1>1. ServerTypes
    BY DEF Server
<1>2. failures' \in [Uploads -> Nat] /\ \A v \in Uploads : failures'[v] >= failures[v]
    <2>1. CASE UNCHANGED failures
        BY <1>1, <2>1 DEF ServerTypes
    <2>2. ASSUME NEW u \in Uploads, CallFails(u) PROVE <1>2!1 /\ <1>2!2
        BY <1>1, <2>2, FailuresGrow
    <2>3. ASSUME NEW u \in Uploads, failures' = [failures EXCEPT ![u] = @ + 1]
          PROVE  <1>2!1 /\ <1>2!2
        BY <1>1, <2>3 DEF ServerTypes
    <2> QED
        BY <2>1, <2>2, <2>3
<1> QED
    BY <1>2, Elsewhere DEF OkStands

LEMMA CompleteKeeps ==
    ASSUME Server, Answered200, completeUpload PROVE Server' /\ OkStands
<1>1. form.pc = "complete" /\ Upload \in Uploads /\ ini[Upload].pc = "ok"
      /\ UNCHANGED <<rows, urls, ini, unsure, gone>>
    BY DEF completeUpload, Answered200, Upload
<1>2. /\ CallFails(Upload) \/ UNCHANGED failures
      /\ multipart' = [multipart EXCEPT ![Upload] = "completed"] \/ UNCHANGED multipart
    BY DEF completeUpload, Assemble
<1> QED
    BY <1>1, <1>2, AssembleKeeps, Quiet DEF OkStands

LEMMA IndStep == IInv /\ [Next]_vars => IInv'
<1> SUFFICES ASSUME Server, Answered200, [Next]_vars PROVE Server' /\ Answered200'
    BY DEF IInv
<1>1. UNCHANGED initVars => Server' /\ OkStands
    BY Quiet DEF initVars
<1>2. ASSUME NEW u \in Uploads, InitiateStep(u) PROVE Server' /\ OkStands /\ UNCHANGED form
    BY <1>2, InitiateStepKeeps DEF InitiateStep, OkStands
<1>3. ASSUME NEW u \in Uploads, NEW size \in FileSizes, NEW p \in PartSizes, NEW c \in Choices,
             startUpload(u, size, p, c)
      PROVE  Server' /\ OkStands
    <2>1. size \in Nat /\ p \in Nat
        BY FrontendAssumption
    <2> QED
        BY <1>3, <2>1, InitiateKeeps DEF startUpload, OkStands
<1>4. CASE completeUpload
    BY <1>4, CompleteKeeps, FormStep
<1>5. CASE InitiateUnanswered
    <2>1. Upload \in Uploads
        BY <1>5 DEF InitiateUnanswered, Answered200, Upload
    <2> QED
        BY <1>5, <2>1, Quiet, FormStep DEF InitiateUnanswered
<1>6. CASE uploadPart
    <2>1. Upload \in Uploads
        BY <1>6 DEF uploadPart, Answered200, Upload
    <2>2. UNCHANGED <<rows, multipart, urls, ini, unsure, gone>>
          /\ (CallFails(Upload) \/ UNCHANGED failures)
        BY <1>6 DEF uploadPart
    <2> QED
        BY <1>6, <2>1, <2>2, Quiet, FormStep
<1>7. CASE LeavePage
    BY <1>7, Quiet, FormStep DEF LeavePage
<1>8. ASSUME NEW u \in Uploads, NEW i \in Slots, GetJobStatus(u, i) \/ ServeCancel(u)
      PROVE  Server' /\ Answered200'
    <2>1. /\ UNCHANGED <<rows, multipart, urls, ini, unsure, gone, form>>
          /\ CallFails(u) \/ UNCHANGED failures
        BY <1>8 DEF GetJobStatus, ServeCancel, ReadCancel, WriteCancel, CancelFails, initVars
    <2> QED
        BY <2>1, Quiet, FormStep
<1>9. CASE loadPresets \/ EditForm \/ Initiated
    <2>1. UNCHANGED initVars
        BY <1>9 DEF loadPresets, EditForm, Initiated
    <2> QED
        BY <1>1, <1>9, <2>1, Quiet, FormStep DEF initVars
<1>10. ASSUME NEW u \in Uploads, NEW i \in Slots,
              \/ JobMoves(u) \/ Tick(u) \/ cancelJob(u) \/ Cancelled(u)
              \/ removeJob(u) \/ Polled(u, i)
       PROVE  Server' /\ Answered200'
    <2>1. UNCHANGED <<initVars, form>>
        BY <1>10 DEF JobMoves, Tick, cancelJob, Cancelled, removeJob, Polled
    <2> QED
        BY <2>1, Quiet, FormStep DEF initVars
<1>11. CASE UNCHANGED vars
    BY <1>11, Quiet, FormStep DEF vars, initVars
<1>12. Slots # {}
    BY FrontendAssumption DEF Slots
<1> QED
    BY <1>2, <1>3, <1>4, <1>5, <1>6, <1>7, <1>8, <1>9, <1>10, <1>11, <1>12, FormStep DEF Next

LEMMA IndInit == Init => IInv
<1> SUFFICES ASSUME Init PROVE IInv
    OBVIOUS
<1>1. ServerTypes
    BY DEF Init, InitiateInit, NewIni, ServerTypes
<1>2. \A u \in Uploads : Done(u) /\ Undone(u)
    BY DEF Init, InitiateInit, NewIni, Done, Undone, Untouched, AtWork
<1>3. Answered200
    BY DEF Init, FormIdle, Answered200
<1> QED
    BY <1>1, <1>2, <1>3 DEF IInv, Server

(* A client answered 200 has its row, its upload and a URL for every byte, *)
(* whatever its files and part sizes, and whoever fails meanwhile.         *)
THEOREM AnsweredHaveAll == Spec => []AnsweredHasAll
<1>1. IInv => AnsweredHasAll
    BY SpecImplies DEF IInv
<1> QED
    BY <1>1, IndInit, IndStep, PTL DEF Spec

(* An initiation that one call failed, and that call had no effect, leaves *)
(* nothing behind: the cleanup has undone all that came before.            *)
THEOREM FailedLeaveNothing == Spec => []FailedLeavesNothing
<1>1. IInv => FailedLeavesNothing
    BY SpecImplies DEF IInv
<1> QED
    BY <1>1, IndInit, IndStep, PTL DEF Spec

-----------------------------------------------------------------------------
(* What the catalogue and the tables of spellings hold.                    *)
Resolutions == {"r1080", "r720", "r480"}

LEMMA CatalogFacts ==
    /\ DOMAIN catalog = {"web_h264_v1", "mobile_h264_v1", "archive_h265_v1"}
    /\ \A id \in DOMAIN catalog :
           /\ catalog[id].format = "mp4" /\ catalog[id].codec \in {"h264", "h265"}
           /\ catalog[id].resolution \in {"1080", "720"}
           /\ catalog[id].bitrate \in Nat \ {0} /\ catalog[id].framerate \in Nat \ {0}
BY DEF catalog, H264

LEMMA SpellingFacts ==
    /\ DOMAIN Spellings = Resolutions /\ DOMAIN Scale = Resolutions
    /\ \A r \in Resolutions : Kept[r] \in Spellings[r] /\ Kept[r] # ""
    /\ \A r, q \in Resolutions : Kept[r] \in Spellings[q] => q = r
BY DEF Spellings, Scale, Kept, Resolutions

(* The size that ffmpeg scales to is the one that was meant.               *)
LEMMA ScaleKept ==
    ASSUME NEW r \in Resolutions PROVE normalizeFFmpegResolution(Kept[r]) = Scale[r]
<1>1. /\ r \in DOMAIN Scale /\ Kept[r] \in Spellings[r] \ {""}
      /\ (CHOOSE q \in DOMAIN Scale : Kept[r] \in Spellings[q]) = r
    BY SpellingFacts
<1> QED
    BY <1>1 DEF normalizeFFmpegResolution

LEMMA KeptIsNormal == \A r \in Resolutions : normalizeResolution(Kept[r]) = Kept[r]
<1> SUFFICES ASSUME NEW r \in Resolutions PROVE normalizeResolution(Kept[r]) = Kept[r]
    OBVIOUS
<1>1. (CHOOSE q \in DOMAIN Spellings : Kept[r] \in Spellings[q]) = r
    BY SpellingFacts
<1> QED
    BY <1>1 DEF normalizeResolution

LEMMA ScaleNormalized ==
    ASSUME NEW raw, IsResolution(raw)
    PROVE  /\ normalizeResolution(raw) # ""
           /\ \E r \in DOMAIN Scale : /\ normalizeFFmpegResolution(normalizeResolution(raw)) = Scale[r]
                                      /\ raw \in Spellings[r]
<1> DEFINE r == CHOOSE q \in DOMAIN Spellings : raw \in Spellings[q]
<1>1. r \in Resolutions /\ raw \in Spellings[r]
    BY SpellingFacts DEF IsResolution
<1>2. normalizeResolution(raw) = Kept[r]
    BY DEF normalizeResolution
<1> HIDE DEF r
<1> QED
    BY <1>1, <1>2, ScaleKept, SpellingFacts

LEMMA ResolveHonours ==
    ASSUME NEW choice, Known(choice.preset), ValidOverrides(choice.overrides), Binds(choice.overrides)
    PROVE  Honours(buildFFmpegArgs(GetTranscodeProfile(Resolve(choice.preset, choice.overrides))), choice)
<1> DEFINE o == choice.overrides
           base == catalog[choice.preset]
           wanted == [f \in Fields |-> IF f \in DOMAIN o THEN o[f] ELSE base[f]]
           row == Resolve(choice.preset, o)
           p == GetTranscodeProfile(row)
           args == buildFFmpegArgs(p)
<1>1. /\ base.format = "mp4" /\ base.codec \in {"h264", "h265"} /\ base.resolution \in {"1080", "720"}
      /\ base.bitrate \in Nat \ {0} /\ base.framerate \in Nat \ {0}
    BY CatalogFacts DEF Known
<1> HIDE DEF base
<1>2. wanted.bitrate \in Nat \ {0} /\ wanted.framerate \in Nat \ {0}
    <2>1. \A f \in Numbers : f \in DOMAIN o => o[f] \in Nat \ {0}
        <3>1. \A f \in Numbers : f \in DOMAIN o => o[f] > 0 /\ o[f] \in (-MaxInt32 - 1)..MaxInt32
            BY DEF ValidOverrides, Binds
        <3> QED
            BY <3>1, PresetsAssumption
    <2>2. /\ wanted.bitrate = IF "bitrate" \in DOMAIN o THEN o["bitrate"] ELSE base.bitrate
          /\ wanted.framerate = IF "framerate" \in DOMAIN o THEN o["framerate"] ELSE base.framerate
        BY DEF Fields
    <2> HIDE DEF o, wanted
    <2> QED
        BY <1>1, <2>1, <2>2 DEF Numbers
<1>3. wanted.format # "" /\ wanted.codec \in {"h264", "h265", "vp9", "av1"}
    <2>1. /\ "format" \in DOMAIN o => o.format # ""
          /\ "codec" \in DOMAIN o => o.codec \in {"h264", "h265", "vp9", "av1"}
        BY DEF ValidOverrides, isAllowedCodec
    <2>2. /\ wanted.format = IF "format" \in DOMAIN o THEN o.format ELSE base.format
          /\ wanted.codec = IF "codec" \in DOMAIN o THEN o.codec ELSE base.codec
        BY DEF Fields
    <2> HIDE DEF o, wanted
    <2>3. CASE "format" \in DOMAIN o
        BY <1>1, <2>1, <2>2, <2>3
    <2>4. CASE "format" \notin DOMAIN o
        BY <1>1, <2>1, <2>2, <2>4
    <2> QED
        BY <2>3, <2>4
<1>4. IsResolution(wanted.resolution)
    <2>1. IsResolution("1080") /\ IsResolution("720")
        BY DEF IsResolution, Spellings
    <2> QED
        BY <1>1, <2>1 DEF ValidOverrides, Fields
<1>5. row = [f \in Fields |-> IF f \notin DOMAIN o THEN base[f]
                             ELSE IF f = "resolution" THEN normalizeResolution(o[f]) ELSE o[f]]
    BY DEF Resolve, base
<1>6. p = row
    BY <1>5 DEF GetTranscodeProfile
<1>7. normalizeResolution("1080") = "1080" /\ normalizeResolution("720") = "720"
    <2>1. Kept.r1080 = "1080" /\ Kept.r720 = "720"
        BY DEF Kept
    <2> QED
        BY <2>1, KeptIsNormal DEF Resolutions
<1>8. /\ p.bitrate = wanted.bitrate /\ p.framerate = wanted.framerate
      /\ p.format = wanted.format /\ p.codec = wanted.codec
    BY <1>5, <1>6 DEF Fields
<1>9. p.resolution = normalizeResolution(wanted.resolution)
    BY <1>1, <1>5, <1>6, <1>7 DEF Fields
<1> HIDE DEF wanted, row, p
<1>10. /\ args.bitrate = p.bitrate /\ args.framerate = p.framerate /\ args.format = p.format
       /\ args.codec[1] = IF p.codec \in DOMAIN Encoder THEN Encoder[p.codec] ELSE p.codec
       /\ args.resolution = normalizeFFmpegResolution(p.resolution)
    <2>1. p.resolution # ""
        BY <1>4, <1>9, ScaleNormalized
    <2> DEFINE given == {f \in Numbers : p[f] > 0} \cup {f \in Fields \ Numbers : p[f] # ""}
               option(f) == CASE f = "codec" -> <<IF p.codec \in DOMAIN Encoder THEN Encoder[p.codec]
                                                 ELSE p.codec, Quality(p.codec)>>
                              [] f = "resolution" -> normalizeFFmpegResolution(p.resolution)
                              [] f = "bitrate" /\ p.bitrate <= 0 -> 0
                              [] OTHER -> p[f]
    <2>2. /\ p.bitrate > 0 /\ p.framerate > 0 /\ ~(p.bitrate <= 0)
        BY <1>2, <1>8
    <2>3. p.format # "" /\ p.codec # ""
        BY <1>3, <1>8
    <2>4. \A f \in Fields : f \in given
        BY <2>1, <2>2, <2>3 DEF Fields, Numbers
    <2>5. args = [f \in given \cup (IF p.codec = "vp9" THEN {"bitrate"} ELSE {}) |-> option(f)]
        BY DEF buildFFmpegArgs
    <2>6. /\ option("bitrate") = p.bitrate /\ option("framerate") = p.framerate
          /\ option("format") = p.format
          /\ option("resolution") = normalizeFFmpegResolution(p.resolution)
          /\ option("codec")[1] = IF p.codec \in DOMAIN Encoder THEN Encoder[p.codec] ELSE p.codec
        BY <2>2
    <2> HIDE DEF args, given, option
    <2> QED
        BY <2>4, <2>5, <2>6 DEF Fields
<1> HIDE DEF args
<1>11. args.codec[1] = IF wanted.codec = "av1" THEN "av1" ELSE Encoder[wanted.codec]
    BY <1>3, <1>8, <1>10 DEF Encoder
<1>12. \E r \in DOMAIN Scale : args.resolution = Scale[r] /\ wanted.resolution \in Spellings[r]
    <2>1. PICK r \in DOMAIN Scale :
              /\ normalizeFFmpegResolution(normalizeResolution(wanted.resolution)) = Scale[r]
              /\ wanted.resolution \in Spellings[r]
        BY <1>4, ScaleNormalized
    <2> QED
        BY <1>9, <1>10, <2>1
<1>13. Honours(args, choice)
    <2>1. wanted = [f \in Fields |-> IF f \in DOMAIN choice.overrides THEN choice.overrides[f]
                                    ELSE catalog[choice.preset][f]]
        BY DEF wanted, base
    <2> QED
        BY <1>8, <1>10, <1>11, <1>12, <2>1 DEF Honours
<1> QED
    BY <1>13 DEF args, p, row

(* Nothing but the completion of an upload writes a row.                   *)
LEMMA MetaWritten ==
    ASSUME Next
    PROVE  UNCHANGED meta \/ (completeUpload /\ Binds(payload.overrides) /\ SaveMeta(Upload))
<1>1. loadPresets \/ EditForm \/ Initiated \/ InitiateUnanswered \/ uploadPart \/ LeavePage
      => UNCHANGED meta
    BY DEF loadPresets, EditForm, Initiated, InitiateUnanswered, uploadPart, LeavePage, jobs
<1>2. completeUpload => UNCHANGED meta \/ (Binds(payload.overrides) /\ SaveMeta(Upload))
    BY DEF completeUpload, jobs
<1>3. \A u \in Uploads :
          InitiateStep(u) \/ JobMoves(u) \/ Tick(u) \/ cancelJob(u) \/ ServeCancel(u) \/ Cancelled(u)
          \/ removeJob(u) => UNCHANGED meta
    BY DEF InitiateStep, JobMoves, Tick, cancelJob, ServeCancel, ReadCancel, WriteCancel, CancelFails,
           Cancelled, removeJob, jobs
<1>4. \A u \in Uploads, i \in Slots : GetJobStatus(u, i) \/ Polled(u, i) => UNCHANGED meta
    BY DEF GetJobStatus, Polled, jobs
<1>5. \A u \in Uploads, size \in FileSizes, p \in PartSizes, c \in Choices :
          startUpload(u, size, p, c) => UNCHANGED meta
    BY DEF startUpload, jobs
<1> QED
    BY <1>1, <1>2, <1>3, <1>4, <1>5 DEF Next

(* Whatever a user picks and enters, ffmpeg is given that or, where the    *)
(* user left the choice open, what the preset says.                        *)
THEOREM SettingsAreAsChosen == Spec => AsChosen
<1> DEFINE Honoured == \A u \in Uploads :
                        /\ meta'[u] # meta[u] /\ presets /\ Known(form.config.preset)
                        /\ form.live.overrides = form.config.overrides
                        => Honours(buildFFmpegArgs(GetTranscodeProfile(meta'[u])), form.config)
           Rows == DOMAIN meta = Uploads
<1>1. Init => Rows
    BY DEF Init
<1>2. ASSUME Rows, [Next]_vars PROVE Rows'
    <2>1. UNCHANGED meta \/ SaveMeta(Upload)
        BY <1>2, MetaWritten DEF vars, jobs
    <2> QED
        BY <1>2, <2>1 DEF SaveMeta
<1>3. ASSUME Rows, [Next]_vars PROVE [Honoured]_vars
    <2> SUFFICES ASSUME NEW u \in Uploads, Next, meta'[u] # meta[u], presets,
                        Known(form.config.preset), form.live.overrides = form.config.overrides
                 PROVE  Honours(buildFFmpegArgs(GetTranscodeProfile(meta'[u])), form.config)
        BY <1>3
    <2>1. Binds(payload.overrides) /\ SaveMeta(Upload)
        BY MetaWritten
    <2>2. meta'[u] = buildVideoMetadata(payload) /\ buildVideoMetadata(payload) # Refused
        BY <1>3, <2>1 DEF SaveMeta
    <2>3. payload.preset = form.config.preset /\ payload.overrides = form.config.overrides
        BY DEF payload
    <2>4. payload.preset # ""
        BY <2>3, CatalogFacts DEF Known
    <2>5. meta'[u] = Resolve(form.config.preset, form.config.overrides)
        BY <2>2, <2>3, <2>4 DEF buildVideoMetadata
    <2>6. ValidOverrides(form.config.overrides)
        BY <2>2, <2>5 DEF Resolve
    <2> QED
        BY <2>1, <2>3, <2>5, <2>6, ResolveHonours
<1> QED
    BY <1>1, <1>2, <1>3, PTL DEF Spec, AsChosen
==============================================================================
