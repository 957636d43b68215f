------------------------------ MODULE UploadApi ------------------------------
(***************************************************************************)
(* InitiateMultipartUploadHandler (internal/handler/handler.go): a job row *)
(* in PostgreSQL, an open multipart upload in MinIO and one presigned URL  *)
(* per part, made one after the other, and undone when one of them fails.  *)
(* Every call uses the context of the request, the cleanup's calls too.    *)
(***************************************************************************)
EXTENDS Integers

CONSTANTS Uploads,          \* the requests; each gets a job ID of its own
          MinPartSize, DefaultPartSize, MaxParts, MaxFileSize,
          MaxFailures       \* bound: failures of calls in the life of an upload

ASSUME UploadAssumption ==
    /\ {MinPartSize, DefaultPartSize, MaxParts, MaxFileSize} \subseteq Nat \ {0}
    /\ MinPartSize <= DefaultPartSize
    /\ MaxFailures \in Nat

VARIABLES rows,             \* the uploads whose row is in the table jobs
          multipart,        \* multipart[u], the multipart upload in MinIO
          urls,             \* urls[u], the parts with a row in presigned_urls
          ini,              \* ini[u], the state of the handler
          failures,         \* failures[u], how many calls have failed
          unsure,           \* history: the uploads a call of which failed after its effect
          gone              \* the uploads whose client has closed the connection

initVars == <<rows, multipart, urls, ini, failures, unsure, gone>>

NewIni == [pc |-> "none", size |-> 0, partSize |-> 0, part |-> 1]
Finished == {"refused", "failed", "ok"}

InitiateInit ==
    /\ rows = {} /\ unsure = {} /\ gone = {}
    /\ multipart = [u \in Uploads |-> "none"]
    /\ urls = [u \in Uploads |-> {}]
    /\ ini = [u \in Uploads |-> NewIni]
    /\ failures = [u \in Uploads |-> 0]

PartSizeOf(requested) == IF requested = 0 THEN DefaultPartSize ELSE requested

(* Mutation: the last, shorter part is forgotten.                          *)
totalPartsDown(size, partSize) == size \div partSize

totalParts(size, partSize) == (size + partSize - 1) \div partSize

Valid(size, requested) ==
    /\ size > 0
    /\ PartSizeOf(requested) >= MinPartSize
    /\ size <= MaxFileSize
    /\ totalParts(size, PartSizeOf(requested)) <= MaxParts

IniGoes(u, pc) == ini' = [ini EXCEPT ![u].pc = pc]

(* A request arrives.                                                      *)
Initiate(u, size, requested) ==
    /\ ini[u].pc = "none"
    /\ ini' = [ini EXCEPT ![u] =
                 IF Valid(size, requested)
                 THEN [@ EXCEPT !.pc = "row", !.size = size, !.partSize = PartSizeOf(requested)]
                 ELSE [@ EXCEPT !.pc = "refused"]]

(* A call of u's fails: for want of a client any call may.                 *)
CallFails(u) ==
    \/ u \in gone /\ UNCHANGED failures
    \/ failures[u] < MaxFailures /\ failures' = [failures EXCEPT ![u] = @ + 1]

(* The call for which the handler is at "at" succeeds, and the handler     *)
(* goes on to "next"; or it returns an error, with its effect or without,  *)
(* and the handler goes on to "otherwise".                                 *)
Call(u, at, effect, nothing, next, otherwise) ==
    /\ ini[u].pc = at
    /\ \/ effect /\ IniGoes(u, next) /\ UNCHANGED <<failures, unsure>>
       \/ effect /\ IniGoes(u, otherwise) /\ CallFails(u) /\ unsure' = unsure \cup {u}
       \/ nothing /\ IniGoes(u, otherwise) /\ CallFails(u) /\ UNCHANGED unsure
    /\ UNCHANGED gone

CreateJob(u) ==
    /\ Call(u, "row", rows' = rows \cup {u}, UNCHANGED rows, "multipart", "failed")
    /\ UNCHANGED <<multipart, urls>>

NewMultipartUpload(u) ==
    /\ Call(u, "multipart", multipart' = [multipart EXCEPT ![u] = "open"],
            UNCHANGED multipart, "url", "delete")
    /\ UNCHANGED <<rows, urls>>

(* One turn of the loop: the URL of the next part is signed and stored.    *)
CreatePresignedURL(u) ==
    LET store == urls' = [urls EXCEPT ![u] = @ \cup {ini[u].part}]
    IN  /\ ini[u].pc = "url"
        /\ \/ /\ store
              /\ ini' = [ini EXCEPT ![u] =
                           IF @.part < totalParts(@.size, @.partSize)
                           THEN [@ EXCEPT !.part = ini[u].part + 1] ELSE [@ EXCEPT !.pc = "ok"]]
              /\ UNCHANGED <<failures, unsure>>
           \/ store /\ IniGoes(u, "abort") /\ CallFails(u) /\ unsure' = unsure \cup {u}
           \/ UNCHANGED <<urls, unsure>> /\ IniGoes(u, "abort") /\ CallFails(u)
        /\ UNCHANGED <<rows, multipart, gone>>

(* Mutation: the cleanup forgets the multipart upload.                     *)
AbortNothing(u) ==
    /\ ini[u].pc = "abort" /\ IniGoes(u, "delete")
    /\ UNCHANGED <<rows, multipart, urls, failures, unsure, gone>>

(* cleanupFailedInitiation: it deletes the job whether it could abort the  *)
(* multipart upload or not.                                                *)
AbortMultipartUpload(u) ==
    /\ Call(u, "abort", multipart' = [multipart EXCEPT ![u] = "none"],
            UNCHANGED multipart, "delete", "delete")
    /\ UNCHANGED <<rows, urls>>

(* Mutation: the URLs outlive their job.                                   *)
DeleteRow(u) ==
    /\ Call(u, "delete", rows' = rows \ {u}, UNCHANGED rows, "failed", "failed")
    /\ UNCHANGED <<multipart, urls>>

(* The URLs go with the row: ON DELETE CASCADE.                            *)
DeleteJob(u) ==
    /\ Call(u, "delete", rows' = rows \ {u} /\ urls' = [urls EXCEPT ![u] = {}],
            UNCHANGED <<rows, urls>>, "failed", "failed")
    /\ UNCHANGED multipart

InitiateMultipartUpload(u) ==
    \/ CreateJob(u) \/ NewMultipartUpload(u) \/ CreatePresignedURL(u)
    \/ AbortMultipartUpload(u) \/ DeleteJob(u)

-----------------------------------------------------------------------------
(* A 200 promises a client all it needs: the row, the open upload (until   *)
(* it is completed), and a stored URL for every byte of the file, though   *)
(* they are in two stores that may fail at any call.                       *)
AnsweredHasAll ==
    \A u \in Uploads : ini[u].pc = "ok" =>
        /\ u \in rows /\ multipart[u] \in {"open", "completed"}
        /\ urls[u] = 1..ini[u].part
        /\ (ini[u].part - 1) * ini[u].partSize < ini[u].size
        /\ ini[u].size <= ini[u].part * ini[u].partSize

(* cleanupFailedInitiation: an initiation that failed leaves no row, URL   *)
(* or open multipart upload, if one call failed, that call had no effect,  *)
(* and the client has not gone, which fails the cleanup's calls as well.   *)
FailedLeavesNothing ==
    \A u \in Uploads \ (unsure \cup gone) : ini[u].pc = "failed" /\ failures[u] <= 1 =>
        u \notin rows /\ multipart[u] = "none" /\ urls[u] = {}
==============================================================================
