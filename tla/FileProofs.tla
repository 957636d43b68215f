------------------------------ MODULE FileProofs ------------------------------
(***************************************************************************)
(* Proof that the object which MinIO assembles is the file that the user   *)
(* has picked, whatever the sizes of the file and of the parts.            *)
(***************************************************************************)
EXTENDS FrontendProofs

Piece(u, k) == LET start == (k - 1) * ini[u].partSize
                   end == start + ini[u].partSize
               IN  <<start, IF end < ini[u].size THEN end ELSE ini[u].size>>

(* The parts are put in order, each once it is acknowledged.               *)
FormParts ==
    /\ DOMAIN form = DOMAIN FormIdle
    /\ form.pc = "initiate" => form.part = 1 /\ form.done = <<>>
    /\ form.pc \in {"parts", "complete"} =>
          /\ form.part \in Nat \ {0} /\ form.done \in Seq(Nat) /\ Len(form.done) = form.part - 1
          /\ \A i \in 1..(form.part - 1) : form.done[i] = i /\ i \in DOMAIN stored[form.upload]
          /\ form.pc = "parts" => form.part <= ini[form.upload].part
          /\ form.pc = "complete" => form.part = ini[form.upload].part + 1

StoredOK(u) ==
    \A k \in DOMAIN stored[u] : ini[u].pc = "ok" /\ stored[u][k] = Piece(u, k)

ObjectOK(u) ==
    object[u] # <<>> =>
        /\ ini[u].pc = "ok" /\ Len(object[u]) = ini[u].part
        /\ \A i \in 1..ini[u].part : object[u][i] = Piece(u, i)

FileInv == /\ DOMAIN stored = Uploads /\ DOMAIN object = Uploads
           /\ FormParts /\ \A u \in Uploads : StoredOK(u) /\ ObjectOK(u)

LEMMA FileInit == Init => FileInv
<1> SUFFICES ASSUME Init PROVE FileInv
    OBVIOUS
<1>1. \A u \in Uploads : stored[u] = <<>> /\ object[u] = <<>>
    BY DEF Init
<1> QED
    BY <1>1 DEF Init, FileInv, FormParts, StoredOK, ObjectOK, FormIdle

(* The parts that a 200 promises lie end to end.                           *)
LEMMA PiecesMeet ==
    ASSUME Server, NEW u \in Uploads, ini[u].pc = "ok"
    PROVE  /\ Piece(u, 1)[1] = 0
           /\ \A i \in 1..(ini[u].part - 1) : Piece(u, i)[2] = Piece(u, i + 1)[1]
           /\ Piece(u, ini[u].part)[2] = ini[u].size
<1>1. PICK s \in Nat, p \in Nat, n \in Nat \ {0} :
          s = ini[u].size /\ p = ini[u].partSize /\ n = ini[u].part
    BY DEF Server, ServerTypes
<1>2. s > 0 /\ p > 0 /\ n = totalParts(s, p)
    BY <1>1 DEF Server, Done, Sized
<1>3. (n - 1) * p < s /\ s <= n * p
    BY <1>2, PartsCover
<1>4. Piece(u, 1)[1] = 0
    BY <1>1 DEF Piece
<1>5. ASSUME NEW i \in 1..(n - 1) PROVE Piece(u, i)[2] = Piece(u, i + 1)[1]
    <2>1. (i - 1) * p + p = i * p /\ (i + 1) - 1 = i
        OBVIOUS
    <2>2. i * p <= (n - 1) * p
        OBVIOUS
    <2>3. i * p < s
        BY <1>3, <2>2
    <2> QED
        BY <1>1, <2>1, <2>3 DEF Piece
<1>6. Piece(u, n)[2] = s
    <2>1. (n - 1) * p + p = n * p
        OBVIOUS
    <2> QED
        BY <1>1, <1>3, <2>1 DEF Piece
<1> QED
    BY <1>1, <1>4, <1>5, <1>6

LEMMA InvIsWhole == Server /\ FileInv => WholeFile
<1> SUFFICES ASSUME Server, FileInv, NEW u \in Uploads, object[u] # <<>>
             PROVE  /\ object[u][1][1] = 0
                    /\ \A i \in 1..(Len(object[u]) - 1) : object[u][i][2] = object[u][i + 1][1]
                    /\ object[u][Len(object[u])][2] = ini[u].size
    BY DEF WholeFile
<1>1. /\ ini[u].pc = "ok" /\ Len(object[u]) = ini[u].part /\ ini[u].part \in Nat \ {0}
      /\ \A i \in 1..ini[u].part : object[u][i] = Piece(u, i)
    BY DEF FileInv, ObjectOK, Server, ServerTypes
<1> QED
    BY <1>1, PiecesMeet

(* What was answered 200 is settled.                                       *)
Settled == \A v \in Uploads : ini[v].pc = "ok" => ini'[v] = ini[v]

LEMMA OkSettled == ASSUME Server, [Next]_vars PROVE Settled
<1>1. ASSUME NEW u \in Uploads, InitiateStep(u) PROVE Settled
    <2>1. ini[u].pc # "ok" /\ \A v \in Uploads \ {u} : ini'[v] = ini[v]
        BY <1>1 DEF InitiateStep, InitiateMultipartUpload, CreateJob, NewMultipartUpload,
               CreatePresignedURL, AbortMultipartUpload, DeleteJob, Call, IniGoes, Server, ServerTypes
    <2> QED
        BY <2>1 DEF Settled
<1>2. ASSUME NEW u \in Uploads, NEW size, NEW p, NEW c, startUpload(u, size, p, c) PROVE Settled
    BY <1>2 DEF startUpload, Initiate, Server, ServerTypes, Settled
<1>3. CASE loadPresets \/ EditForm \/ Initiated \/ InitiateUnanswered \/ uploadPart \/ completeUpload
           \/ LeavePage \/ UNCHANGED vars
    BY <1>3 DEF loadPresets, EditForm, Initiated, InitiateUnanswered, uploadPart, completeUpload,
           LeavePage, vars, initVars, Settled
<1>4. ASSUME NEW u \in Uploads, NEW i \in Slots,
             JobMoves(u) \/ Tick(u) \/ cancelJob(u) \/ ServeCancel(u) \/ Cancelled(u)
             \/ removeJob(u) \/ GetJobStatus(u, i) \/ Polled(u, i)
      PROVE  Settled
    BY <1>4 DEF JobMoves, Tick, cancelJob, ServeCancel, ReadCancel, WriteCancel, CancelFails,
           Cancelled, removeJob, GetJobStatus, Polled, initVars, Settled
<1>5. 1 \in Slots
    BY FrontendAssumption DEF Slots
<1> QED
    BY <1>1, <1>2, <1>3, <1>4, <1>5 DEF Next

-----------------------------------------------------------------------------
(* A step that puts no part and assembles nothing.                         *)
LEMMA FileFrame ==
    ASSUME FileInv, Settled, UNCHANGED minio, FormParts' PROVE FileInv'
<1>1. UNCHANGED <<stored, object>>
    BY DEF minio
<1>2. ASSUME NEW u \in Uploads PROVE StoredOK(u)' /\ ObjectOK(u)'
    BY <1>1 DEF FileInv, StoredOK, ObjectOK, Settled, Piece
<1> QED
    BY <1>1, <1>2 DEF FileInv

(* The settings the form shows are not what it does.                       *)
LEMMA SameParts ==
    ASSUME FileInv, Answered200, Settled, UNCHANGED minio,
           UNCHANGED form \/ \E c : form' = [form EXCEPT !.live = c]
    PROVE  FormParts'
<1>1. /\ DOMAIN form' = DOMAIN form /\ form'.pc = form.pc /\ form'.upload = form.upload
      /\ form'.part = form.part /\ form'.done = form.done
    BY DEF FileInv, FormParts, FormIdle
<1>2. form.pc \in {"parts", "complete"} => ini'[form.upload] = ini[form.upload]
    BY DEF Answered200, Settled
<1> QED
    BY <1>1, <1>2 DEF FileInv, FormParts, minio

LEMMA IdleParts == form' = FormIdle => FormParts'
BY DEF FormParts, FormIdle

LEMMA BeginParts ==
    ASSUME FileInv, Server, Answered200, Settled,
           \/ Initiated
           \/ \E u \in Uploads : \E size, p, c : startUpload(u, size, p, c)
    PROVE  FileInv'
<1>1. UNCHANGED minio
    BY DEF Initiated, startUpload
<1>2. CASE Initiated
    <2>1. CASE form' = [form EXCEPT !.pc = "parts"] /\ ini[form.upload].pc = "ok" /\ form.pc = "initiate"
        <3>1. /\ form.upload \in Uploads /\ ini[form.upload].part \in Nat \ {0}
              /\ ini'[form.upload] = ini[form.upload]
            BY <2>1 DEF Answered200, Settled, Server, ServerTypes
        <3>2. /\ DOMAIN form' = DOMAIN FormIdle /\ form'.pc = "parts" /\ form'.upload = form.upload
              /\ form'.part = 1 /\ form'.done = <<>>
            BY <2>1 DEF FileInv, FormParts, FormIdle
        <3>3. FormParts'
            BY <3>1, <3>2 DEF FormParts
        <3> QED
            BY <1>1, <3>3, FileFrame
    <2> QED
        BY <1>1, <1>2, <2>1, IdleParts, FileFrame DEF Initiated, GiveUp, Upload
<1>3. ASSUME NEW u \in Uploads, NEW size, NEW p, NEW c, startUpload(u, size, p, c) PROVE FileInv'
    <2>1. FormParts'
        BY <1>3 DEF startUpload, FormIdle, FormParts
    <2> QED
        BY <1>1, <2>1, FileFrame
<1> QED
    BY <1>2, <1>3

(* A part is put, acknowledged or not; the next one follows.               *)
LEMMA PutParts ==
    ASSUME FileInv, Server, Answered200, Settled, uploadPart PROVE FileInv'
<1>1. PICK u \in Uploads : /\ u = form.upload /\ form.pc = "parts" /\ ini[u].pc = "ok"
                           /\ ini'[u] = ini[u] /\ ini[u].part \in Nat \ {0}
                           /\ UNCHANGED object
    BY DEF uploadPart, Answered200, Settled, Server, ServerTypes
<1>2. /\ form.part \in Nat \ {0} /\ form.done \in Seq(Nat) /\ Len(form.done) = form.part - 1
      /\ \A i \in 1..(form.part - 1) : form.done[i] = i /\ i \in DOMAIN stored[u]
      /\ form.part <= ini[u].part
      /\ DOMAIN form = DOMAIN FormIdle /\ DOMAIN stored = Uploads
    BY <1>1 DEF FileInv, FormParts
<1> DEFINE now == [p \in DOMAIN stored[u] \cup {form.part} |->
                      IF p = form.part THEN Piece(u, form.part) ELSE stored[u][p]]
<1>3. Put(form.part) => stored' = [stored EXCEPT ![u] = now]
    BY <1>1, <1>2 DEF Put, slice, Piece, Upload
<1>4. /\ DOMAIN now = DOMAIN stored[u] \cup {form.part}
      /\ \A k \in DOMAIN now : now[k] = Piece(u, k)
    BY <1>1 DEF FileInv, StoredOK
<1> HIDE DEF now
<1>5. Put(form.part) \/ UNCHANGED stored
    BY DEF uploadPart
<1>6. /\ DOMAIN stored' = Uploads /\ DOMAIN stored[u] \subseteq DOMAIN stored'[u]
      /\ \A k \in DOMAIN stored'[u] : stored'[u][k] = Piece(u, k)
      /\ \A v \in Uploads \ {u} : stored'[v] = stored[v]
      /\ Put(form.part) => form.part \in DOMAIN stored'[u]
    BY <1>1, <1>2, <1>3, <1>4, <1>5 DEF FileInv, StoredOK
<1>7. ASSUME NEW v \in Uploads PROVE StoredOK(v)' /\ ObjectOK(v)'
    <2>1. ObjectOK(v)'
        BY <1>1 DEF FileInv, ObjectOK, Settled, Piece
    <2>2. CASE v # u
        BY <1>6, <2>1, <2>2 DEF FileInv, StoredOK, Settled, Piece
    <2>3. CASE v = u
        BY <1>1, <1>6, <2>1, <2>3 DEF StoredOK, Piece
    <2> QED
        BY <2>1, <2>2, <2>3
<1> DEFINE next == form.part + 1
           acknowledged ==
               [form EXCEPT !.done = Append(@, form.part), !.retries = 0, !.part = @ + 1,
                            !.pc = IF form.part < ini[Upload].part THEN @ ELSE "complete"]
           again == [form EXCEPT !.retries = @ + 1]
<1>8. /\ DOMAIN acknowledged = DOMAIN FormIdle /\ acknowledged.upload = u
      /\ acknowledged.part = next /\ acknowledged.done = Append(form.done, form.part)
      /\ acknowledged.pc = IF form.part < ini[u].part THEN "parts" ELSE "complete"
      /\ DOMAIN again = DOMAIN FormIdle /\ again.upload = u /\ again.part = form.part
      /\ again.done = form.done /\ again.pc = "parts"
    BY <1>1, <1>2 DEF FormIdle, Upload
<1>9. (form' = acknowledged /\ Put(form.part)) \/ form' = again \/ form' = FormIdle
    BY DEF uploadPart, GiveUp
<1> HIDE DEF acknowledged, again
<1>10. FormParts'
    <2>1. CASE form' = acknowledged /\ Put(form.part)
        <3>1. /\ Append(form.done, form.part) \in Seq(Nat)
              /\ Len(Append(form.done, form.part)) = form.part
              /\ \A i \in 1..form.part : Append(form.done, form.part)[i] = i
            <4>1. PICK n \in Nat \ {0}, d \in Seq(Nat) :
                      /\ n = form.part /\ d = form.done /\ Len(d) = n - 1
                      /\ \A i \in 1..(n - 1) : d[i] = i
                BY <1>2
            <4>2. /\ Append(d, n) \in Seq(Nat) /\ Len(Append(d, n)) = n
                  /\ \A i \in 1..n : Append(d, n)[i] = i
                BY <4>1
            <4> QED
                BY <4>1, <4>2
        <3>2. next - 1 = form.part
            BY <1>2
        <3>3. \A i \in 1..form.part : i \in DOMAIN stored'[u]
            BY <1>2, <1>6, <2>1
        <3>4. /\ form'.done \in Seq(Nat) /\ Len(form'.done) = form'.part - 1
              /\ \A i \in 1..(form'.part - 1) : form'.done[i] = i /\ i \in DOMAIN stored'[u]
            BY <1>8, <2>1, <3>1, <3>2, <3>3
        <3>5. /\ next \in Nat \ {0}
              /\ form'.pc = "parts" => next <= ini[u].part
              /\ form'.pc = "complete" => next = ini[u].part + 1
            BY <1>1, <1>2, <1>8, <2>1
        <3> QED
            BY <1>1, <1>8, <2>1, <3>4, <3>5 DEF FormParts
    <2>2. CASE form' = again
        BY <1>1, <1>2, <1>6, <1>8, <2>2 DEF FormParts
    <2> QED
        BY <1>9, <2>1, <2>2, IdleParts
<1> QED
    BY <1>1, <1>6, <1>7, <1>10 DEF FileInv

(* MinIO assembles the parts that the form names, which are all there are. *)
LEMMA AssembleParts ==
    ASSUME FileInv, Server, Answered200, Settled, completeUpload PROVE FileInv'
<1>1. PICK u \in Uploads : /\ u = form.upload /\ form.pc = "complete" /\ ini[u].pc = "ok"
                           /\ ini[u].part \in Nat \ {0} /\ form' = FormIdle /\ UNCHANGED stored
                           /\ Assemble(u) \/ UNCHANGED object
    BY DEF completeUpload, Completed, GiveUp, Answered200, Server, ServerTypes, Upload
<1>2. FormParts'
    BY <1>1, IdleParts
<1>3. CASE UNCHANGED object
    BY <1>1, <1>2, <1>3, FileFrame DEF minio
<1>4. CASE Assemble(u)
    <2> DEFINE n == ini[u].part
    <2>1. /\ form.done \in Seq(Nat) /\ Len(form.done) = n
          /\ \A i \in 1..n : form.done[i] = i /\ i \in DOMAIN stored[u]
        BY <1>1 DEF FileInv, FormParts
    <2> DEFINE made == [i \in 1..n |-> stored[u][i]]
    <2>2. object' = [object EXCEPT ![u] = made]
        <3>1. [i \in DOMAIN form.done |-> stored[u][form.done[i]]] = made
            BY <2>1
        <3> QED
            BY <1>1, <1>4, <3>1 DEF Assemble
    <2>3. \A i \in 1..n : made[i] = Piece(u, i)
        BY <1>1, <2>1 DEF FileInv, StoredOK
    <2>4. Len(made) = n
        BY <1>1
    <2> HIDE DEF made
    <2>5. ASSUME NEW v \in Uploads PROVE StoredOK(v)' /\ ObjectOK(v)'
        <3>1. StoredOK(v)'
            BY <1>1 DEF FileInv, StoredOK, Settled, Piece
        <3>2. CASE v # u
            BY <2>2, <3>1, <3>2 DEF FileInv, ObjectOK, Settled, Piece
        <3>3. CASE v = u
            <4>1. ini'[u] = ini[u] /\ object'[u] = made
                BY <1>1, <2>2 DEF Settled, FileInv
            <4> QED
                BY <1>1, <2>3, <2>4, <3>1, <3>3, <4>1 DEF ObjectOK, Piece
        <3> QED
            BY <3>1, <3>2, <3>3
    <2> QED
        BY <1>1, <1>2, <2>2, <2>5 DEF FileInv
<1> QED
    BY <1>1, <1>3, <1>4

LEMMA FileStep == IInv /\ FileInv /\ [Next]_vars => FileInv'
<1> SUFFICES ASSUME Server, Answered200, FileInv, [Next]_vars PROVE FileInv'
    BY DEF IInv
<1> Settled
    BY OkSettled
<1>1. CASE loadPresets \/ EditForm
    BY <1>1, SameParts, FileFrame DEF loadPresets, EditForm, Live
<1>2. CASE Initiated
    BY <1>2, BeginParts
<1>3. ASSUME NEW u \in Uploads, NEW size, NEW p, NEW c, startUpload(u, size, p, c) PROVE FileInv'
    BY <1>3, BeginParts
<1>4. CASE uploadPart
    BY <1>4, PutParts
<1>5. CASE completeUpload
    BY <1>5, AssembleParts
<1>6. CASE InitiateUnanswered \/ LeavePage
    BY <1>6, IdleParts, FileFrame DEF InitiateUnanswered, LeavePage, GiveUp
<1>7. ASSUME NEW u \in Uploads, NEW i \in Slots,
             JobMoves(u) \/ InitiateStep(u) \/ Tick(u) \/ cancelJob(u) \/ ServeCancel(u)
             \/ Cancelled(u) \/ removeJob(u) \/ GetJobStatus(u, i) \/ Polled(u, i)
      PROVE  FileInv'
    <2>1. UNCHANGED <<minio, form>>
        BY <1>7 DEF JobMoves, InitiateStep, Tick, cancelJob, ServeCancel, ReadCancel, WriteCancel,
               CancelFails, Cancelled, removeJob, GetJobStatus, Polled
    <2> QED
        BY <2>1, SameParts, FileFrame
<1>8. CASE UNCHANGED vars
    BY <1>8, SameParts, FileFrame DEF vars
<1>9. 1 \in Slots
    BY FrontendAssumption DEF Slots
<1> QED
    BY <1>1, <1>2, <1>3, <1>4, <1>5, <1>6, <1>7, <1>8, <1>9 DEF Next

(* The object that a transcode reads is the whole file, each byte once and *)
(* in its place, for any file and any size of parts that is accepted, and  *)
(* however often a part is put.                                            *)
THEOREM ObjectsAreWhole == Spec => []WholeFile
<1>1. FileInv /\ IInv /\ [Next]_vars => FileInv' /\ IInv'
    BY FileStep, IndStep
<1>2. FileInv /\ IInv => WholeFile
    BY InvIsWhole DEF IInv
<1> QED
    BY <1>1, <1>2, FileInit, IndInit, PTL DEF Spec
==============================================================================
