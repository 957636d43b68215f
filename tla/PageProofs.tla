------------------------------ MODULE PageProofs ------------------------------
(***************************************************************************)
(* Proofs about what a page shows of its jobs, in whatever order polls,    *)
(* cancellations and uploads are answered, and about the objects it has    *)
(* MinIO assemble.                                                         *)
(***************************************************************************)
EXTENDS FrontendProofs

Cards == [key : {"none", "temp", "job"}, id : {"none", "temp", "job"}, shown : Status]
Polls == [pc : {"free", "asked", "answered"}, answer : Status \cup {"error"}]
Cancels == [pc : {"none", "asked", "write", "ok", "error"}, from : Status]

PageTypes ==
    /\ status \in [Uploads -> Status] /\ seen \in [Uploads -> SUBSET Status]
    /\ card \in [Uploads -> Cards] /\ poll \in [Uploads -> [Slots -> Polls]]
    /\ cancel \in [Uploads -> Cancels]

(* What is on its way to a card, or shown there, is a status the job has   *)
(* had; and no card is left alone whose job has had no terminal status.    *)
CardOK(u) ==
    /\ status[u] \in seen[u]
    /\ \A i \in Slots : poll[u][i].answer \in seen[u] \cup {"error"}
    /\ cancel[u].pc = "ok" => "cancelled" \in seen[u]
    /\ card[u].key = "job" => card[u].shown \in seen[u]
    /\ card[u].key = "job" /\ u \notin timer /\ poll[u][1].pc = "free"
           => seen[u] \cap Terminal # {}

(* The form's card keeps its temporary key: Clear cannot reach it.         *)
FormCard ==
    form.pc # "idle" =>
        /\ card[form.upload].key = "temp"
        /\ form.pc = "initiate" => card[form.upload].shown = "pending"
        /\ form.pc # "initiate" => card[form.upload].id = "job"

PageInv == PageTypes /\ (\A u \in Uploads : CardOK(u)) /\ FormCard

LEMMA Ends == "cancelled" \in Terminal /\ "pending" \notin Terminal /\ "error" \notin Terminal
BY DEF Terminal, Status, Advance

LEMMA PageInit == Init => PageInv
<1> SUFFICES ASSUME Init PROVE PageInv
    OBVIOUS
<1>1. PageTypes
    BY DEF Init, PageTypes, Lifecycle!LCInit, NoCard, Free, Cards, Polls, Cancels, Status
<1>2. \A u \in Uploads : CardOK(u)
    BY DEF Init, CardOK, Lifecycle!LCInit, NoCard, Free
<1>3. FormCard
    BY DEF Init, FormCard, FormIdle
<1> QED
    BY <1>1, <1>2, <1>3 DEF PageInv

(* The history of a job only grows.                                        *)
LEMMA MoveFacts ==
    ASSUME PageInv, NEW u \in Uploads, NEW to, Move(u, to)
    PROVE  /\ status' \in [Uploads -> Status] /\ seen' \in [Uploads -> SUBSET Status]
           /\ to \in seen'[u]
           /\ \A v \in Uploads : seen[v] \subseteq seen'[v] /\ status'[v] \in seen'[v]
<1>1. /\ to \in Status /\ status' = [status EXCEPT ![u] = to]
      /\ seen' = [seen EXCEPT ![u] = @ \cup {to}]
    BY DEF Move, Lifecycle!LCMove, Lifecycle!canTransition, Lifecycle!validTransitions,
           Lifecycle!Terminal, Lifecycle!Status, Lifecycle!Advance, Status, PageInv, PageTypes
<1> QED
    BY <1>1 DEF PageInv, PageTypes, CardOK

Grown == \A v \in Uploads : seen[v] \subseteq seen'[v] /\ status'[v] \in seen'[v]

(* What does not concern the card of v leaves it as it is.                 *)
LEMMA CardFrame ==
    ASSUME PageInv, Grown, NEW v \in Uploads,
           card'[v] = card[v], poll'[v] = poll[v], cancel'[v] = cancel[v],
           v \in timer' <=> v \in timer
    PROVE  CardOK(v)'
BY DEF PageInv, CardOK, Grown

LEMMA FormCardFrame ==
    ASSUME PageInv, form'.pc = form.pc, form'.upload = form.upload,
           form.pc # "idle" => card'[form.upload] = card[form.upload]
    PROVE  FormCard'
BY DEF PageInv, FormCard

LEMMA FormIdleFrame == form' = FormIdle => FormCard'
BY DEF FormIdle, FormCard

LEMMA LiveKeepsForm ==
    ASSUME Answered200, NEW c, Live(c) PROVE form'.pc = form.pc /\ form'.upload = form.upload
BY DEF Live, Answered200

(* The jobs move: by themselves, or at the user's request.                 *)
LEMMA JobsStep ==
    ASSUME PageInv, NEW u \in Uploads, JobMoves(u) \/ ServeCancel(u) \/ InitiateStep(u)
    PROVE  PageInv'
<1>1. /\ UNCHANGED <<form, card, timer, poll>>
      /\ UNCHANGED <<status, seen>> \/ \E to : Move(u, to)
    BY DEF JobMoves, ServeCancel, ReadCancel, WriteCancel, CancelFails, InitiateStep, jobs, store
<1>2. /\ Grown /\ status' \in [Uploads -> Status] /\ seen' \in [Uploads -> SUBSET Status]
    BY <1>1, MoveFacts DEF Grown, PageInv, PageTypes, CardOK
<1>3. \/ UNCHANGED cancel
      \/ /\ cancel' = [cancel EXCEPT ![u].pc = "ok"] /\ "cancelled" \in seen'[u]
      \/ cancel' = [cancel EXCEPT ![u].pc = "write"]
      \/ cancel' = [cancel EXCEPT ![u].pc = "error"]
    <2>1. CASE ServeCancel(u)
        <3>1. ASSUME status[u] = "cancelled", UNCHANGED jobs PROVE "cancelled" \in seen'[u]
            BY <3>1 DEF jobs, PageInv, CardOK
        <3> QED
            BY <2>1, <3>1, MoveFacts DEF ServeCancel, ReadCancel, WriteCancel, CancelFails,
                                        CancelAnswer
    <2>2. CASE JobMoves(u) \/ InitiateStep(u)
        BY <2>2 DEF JobMoves, InitiateStep, store
    <2> QED
        BY <2>1, <2>2
<1>4. PageTypes'
    <2>1. \A a \in {"ok", "write", "error"} : [cancel EXCEPT ![u].pc = a] \in [Uploads -> Cancels]
        BY DEF PageInv, PageTypes, Cancels
    <2>2. cancel' \in [Uploads -> Cancels]
        BY <1>3, <2>1 DEF PageInv, PageTypes
    <2> QED
        BY <1>1, <1>2, <2>2 DEF PageInv, PageTypes
<1>5. ASSUME NEW v \in Uploads PROVE CardOK(v)'
    <2>1. cancel'[v].pc = "ok" => cancel[v].pc = "ok" \/ "cancelled" \in seen'[v]
        BY <1>3 DEF PageInv, PageTypes, Cancels
    <2> QED
        BY <1>1, <1>2, <2>1 DEF PageInv, CardOK, Grown
<1>6. FormCard'
    BY <1>1, FormCardFrame
<1> QED
    BY <1>4, <1>5, <1>6 DEF PageInv

(* The user asks for a cancellation, the timer for a status; the server    *)
(* tells it.                                                               *)
LEMMA AskStep ==
    ASSUME PageInv, NEW u \in Uploads, NEW i \in Slots,
           cancelJob(u) \/ Tick(u) \/ GetJobStatus(u, i)
    PROVE  PageInv'
<1>1. UNCHANGED <<status, seen, form, card, timer>> /\ Grown
    BY DEF cancelJob, Tick, GetJobStatus, jobs, Grown, PageInv, CardOK
<1>2. CASE cancelJob(u)
    <2>1. /\ cancel' = [cancel EXCEPT ![u] = [pc |-> "asked", from |-> card[u].shown]]
          /\ UNCHANGED poll
        BY <1>2 DEF cancelJob
    <2>2. PageTypes' /\ \A v \in Uploads : cancel'[v].pc = "ok" => cancel[v].pc = "ok"
        BY <1>1, <2>1 DEF PageInv, PageTypes, Cancels, Cards
    <2>3. \A v \in Uploads : CardOK(v)'
        BY <1>1, <2>1, <2>2 DEF PageInv, CardOK, Grown
    <2> QED
        BY <1>1, <2>2, <2>3, FormCardFrame DEF PageInv
<1>3. ASSUME NEW k \in Slots, NEW x \in Polls, poll' = [poll EXCEPT ![u][k] = x],
             UNCHANGED cancel, x.pc # "free", x.answer \in seen[u] \cup {"error"},
             k = 1 => poll[u][1].pc # "free"
      PROVE  PageInv'
    <2>1. PageTypes'
        BY <1>1, <1>3 DEF PageInv, PageTypes
    <2>2. \A v \in Uploads : /\ \A n \in Slots : poll'[v][n].answer \in seen[v] \cup {"error"}
                             /\ poll'[v][1].pc = "free" => poll[v][1].pc = "free"
        BY <1>3 DEF PageInv, PageTypes, CardOK
    <2>3. \A v \in Uploads : CardOK(v)'
        BY <1>1, <1>3, <2>2 DEF PageInv, CardOK
    <2> QED
        BY <1>1, <2>1, <2>3, FormCardFrame DEF PageInv
<1>4. \A k \in Slots : poll[u][k] \in Polls /\ poll[u][k].answer \in seen[u] \cup {"error"}
                       /\ status[u] \in seen[u] /\ status[u] \in Status
    BY DEF PageInv, PageTypes, CardOK
<1>5. CASE Tick(u)
    <2>1. PICK k \in Slots \ {1} : poll' = [poll EXCEPT ![u][k].pc = "asked"]
        BY <1>5 DEF Tick
    <2> DEFINE x == [poll[u][k] EXCEPT !.pc = "asked"]
    <2>2. x \in Polls /\ x.pc # "free" /\ x.answer = poll[u][k].answer
        BY <1>4 DEF Polls
    <2>3. poll' = [poll EXCEPT ![u][k] = x]
        BY <2>1 DEF PageInv, PageTypes
    <2>4. UNCHANGED cancel
        BY <1>5 DEF Tick
    <2> HIDE DEF x
    <2> QED
        BY <1>3, <1>4, <2>2, <2>3, <2>4
<1>6. CASE GetJobStatus(u, i)
    <2>1. poll[u][i].pc = "asked" /\ UNCHANGED cancel
          /\ \/ poll' = [poll EXCEPT ![u][i] = [pc |-> "answered", answer |-> status[u]]]
             \/ poll' = [poll EXCEPT ![u][i].pc = "answered"]
        BY <1>6 DEF GetJobStatus
    <2> DEFINE x == [poll[u][i] EXCEPT !.pc = "answered"]
               y == [pc |-> "answered", answer |-> status[u]]
    <2>2. /\ x \in Polls /\ x.pc # "free" /\ x.answer = poll[u][i].answer
          /\ y \in Polls /\ y.pc # "free" /\ y.answer = status[u]
        BY <1>4 DEF Polls
    <2>3. poll' = [poll EXCEPT ![u][i] = x] \/ poll' = [poll EXCEPT ![u][i] = y]
        BY <2>1 DEF PageInv, PageTypes
    <2> HIDE DEF x, y
    <2> QED
        BY <1>3, <1>4, <2>1, <2>2, <2>3
<1> QED
    BY <1>2, <1>5, <1>6

(* The card of u changes, or is left as it is.                             *)
LEMMA CardStep ==
    ASSUME PageInv, NEW u \in Uploads, NEW x \in Cards,
           card' = [card EXCEPT ![u] = x], Grown, PageTypes', FormCard',
           \A v \in Uploads \ {u} : /\ poll'[v] = poll[v] /\ cancel'[v] = cancel[v]
                                    /\ v \in timer' <=> v \in timer,
           CardOK(u)'
    PROVE  PageInv'
<1>1. ASSUME NEW v \in Uploads PROVE CardOK(v)'
    <2>1. CASE v = u
        BY <2>1
    <2>2. CASE v # u
        BY <2>2, CardFrame DEF PageInv, PageTypes
    <2> QED
        BY <2>1, <2>2
<1> QED
    BY <1>1 DEF PageInv

(* A card that stands for a job is not the form's.                         *)
LEMMA NotTheForms ==
    ASSUME PageInv, Answered200, UNCHANGED form, NEW u \in Uploads, NEW x \in Cards,
           card' = [card EXCEPT ![u] = x], card[u].key # "temp" \/ x = card[u]
    PROVE  FormCard'
<1>1. form.pc # "idle" => card'[form.upload] = card[form.upload]
    BY DEF Answered200, PageInv, PageTypes, FormCard
<1> QED
    BY <1>1, FormCardFrame

(* A poll is answered: the order of the answers is not that of the polls.  *)
LEMMA PolledStep ==
    ASSUME PageInv, Answered200, NEW u \in Uploads, NEW i \in Slots, Polled(u, i)
    PROVE  PageInv'
<1> DEFINE s == poll[u][i].answer
           x == IF s # "error" /\ card[u].key = "job" THEN [card[u] EXCEPT !.shown = s] ELSE card[u]
<1>1. /\ s \in Status \cup {"error"} /\ s \in seen[u] \cup {"error"} /\ card[u] \in Cards
      /\ poll \in [Uploads -> [Slots -> Polls]] /\ Grown
      /\ UNCHANGED <<status, seen, cancel, form>>
    BY DEF Polled, jobs, PageInv, PageTypes, CardOK, Polls, Grown
<1>2. x \in Cards /\ x.key = card[u].key
      /\ (x # card[u] => card[u].key = "job")
      /\ (s # "error" /\ card[u].key = "job" => x.shown = s)
      /\ (s = "error" => x.shown = card[u].shown)
    BY <1>1 DEF Cards
<1>3. card' = [card EXCEPT ![u] = x]
    BY <1>1 DEF Polled, Displays, Show, PageInv, PageTypes, Cards
<1>4. poll' = [poll EXCEPT ![u][i] = Free]
    BY DEF Polled
<1>5. poll' \in [Uploads -> [Slots -> Polls]] /\ (\A v \in Uploads \ {u} : poll'[v] = poll[v])
      /\ \A k \in Slots : poll'[u][k] = IF k = i THEN Free ELSE poll[u][k]
    BY <1>1, <1>4 DEF Free, Polls
<1> HIDE DEF x
<1>6. PageTypes'
    BY <1>1, <1>2, <1>3, <1>5 DEF PageInv, PageTypes
<1>7. \A v \in Uploads \ {u} : v \in timer' <=> v \in timer
    BY DEF Polled, stopPolling
<1>8. card[u].key = "job" /\ u \notin timer' /\ poll'[u][1].pc = "free" => seen[u] \cap Terminal # {}
    <2>1. SUFFICES ASSUME card[u].key = "job", u \notin timer', poll'[u][1].pc = "free",
                          s \notin Terminal
                   PROVE  seen[u] \cap Terminal # {}
        BY <1>1, Ends
    <2>2. i # 1 /\ timer' = stopPolling(u, s)
        BY <2>1 DEF Polled
    <2>3. u \notin timer /\ poll'[u][1] = poll[u][1]
        BY <1>5, <2>1, <2>2, FrontendAssumption DEF stopPolling, Slots
    <2> QED
        BY <2>1, <2>3 DEF PageInv, CardOK
<1>9. CardOK(u)'
    <2>1. card'[u] = x
        BY <1>3 DEF PageInv, PageTypes
    <2>2. card'[u].key = "job" => card'[u].shown \in seen'[u]
        BY <1>1, <1>2, <2>1 DEF PageInv, CardOK
    <2>3. \A k \in Slots : poll'[u][k].answer \in seen'[u] \cup {"error"}
        BY <1>1, <1>5 DEF PageInv, CardOK, Free
    <2>4. status'[u] \in seen'[u] /\ (cancel'[u].pc = "ok" => "cancelled" \in seen'[u])
        BY <1>1 DEF PageInv, CardOK
    <2> QED
        BY <1>1, <1>2, <1>8, <2>1, <2>2, <2>3, <2>4 DEF CardOK
<1>10. FormCard'
    BY <1>1, <1>2, <1>3, NotTheForms
<1> QED
    BY <1>1, <1>2, <1>3, <1>5, <1>6, <1>7, <1>9, <1>10, CardStep

(* The answer to a cancellation; Clear.                                    *)
LEMMA CancelledStep ==
    ASSUME PageInv, Answered200, NEW u \in Uploads, Cancelled(u)
    PROVE  PageInv'
<1> DEFINE x == IF cancel[u].pc = "ok" /\ card[u].key = "job"
                THEN [card[u] EXCEPT !.shown = "cancelled"] ELSE card[u]
<1>1. /\ card[u] \in Cards /\ Grown /\ UNCHANGED <<status, seen, poll, form>>
      /\ cancel' = [cancel EXCEPT ![u] = [pc |-> "none", from |-> "pending"]]
      /\ cancel[u].pc = "ok" => timer' = timer \ {u}
      /\ cancel[u].pc # "ok" => UNCHANGED <<card, timer>>
    BY DEF Cancelled, jobs, PageInv, PageTypes, CardOK, Grown
<1>2. x \in Cards /\ x.key = card[u].key /\ (x # card[u] => card[u].key = "job")
      /\ (cancel[u].pc = "ok" /\ card[u].key = "job" => x.shown = "cancelled")
      /\ (cancel[u].pc # "ok" => x = card[u])
    BY <1>1 DEF Cards, Status, Advance
<1>3. card' = [card EXCEPT ![u] = x]
    BY <1>1 DEF Cancelled, PageInv, PageTypes, Cards
<1> HIDE DEF x
<1>4. PageTypes'
    BY <1>1, <1>2, <1>3 DEF PageInv, PageTypes, Cancels, Status
<1>5. card'[u] = x /\ cancel'[u].pc = "none"
    BY <1>1, <1>3 DEF PageInv, PageTypes
<1>6. CardOK(u)'
    <2>1. CASE cancel[u].pc = "ok" /\ card[u].key = "job"
        <3>1. "cancelled" \in seen[u] /\ "cancelled" \in Terminal
            BY <2>1, Ends DEF PageInv, CardOK
        <3> QED
            BY <1>1, <1>2, <1>5, <2>1, <3>1 DEF PageInv, CardOK
    <2>2. CASE card[u].key # "job"
        BY <1>1, <1>2, <1>5, <2>2 DEF PageInv, CardOK
    <2>3. CASE cancel[u].pc # "ok"
        BY <1>1, <1>2, <1>5, <2>3 DEF PageInv, CardOK
    <2> QED
        BY <2>1, <2>2, <2>3
<1>7. \A v \in Uploads \ {u} : /\ poll'[v] = poll[v] /\ cancel'[v] = cancel[v]
                               /\ v \in timer' <=> v \in timer
    BY <1>1 DEF PageInv, PageTypes
<1>8. FormCard'
    BY <1>1, <1>2, <1>3, NotTheForms
<1> QED
    BY <1>1, <1>2, <1>3, <1>4, <1>6, <1>7, <1>8, CardStep

LEMMA RemoveStep ==
    ASSUME PageInv, Answered200, NEW u \in Uploads, removeJob(u)
    PROVE  PageInv'
<1>1. /\ card' = [card EXCEPT ![u] = NoCard]
      /\ timer' = timer \ {u}
      /\ UNCHANGED <<status, seen, poll, cancel, form>> /\ Grown
    BY DEF removeJob, jobs, PageInv, CardOK, Grown
<1>2. NoCard \in Cards /\ NoCard.key = "none"
    BY DEF NoCard, Cards, Status
<1>3. PageTypes'
    BY <1>1, <1>2 DEF PageInv, PageTypes
<1>4. CardOK(u)'
    BY <1>1, <1>2 DEF PageInv, PageTypes, CardOK
<1>5. form.pc # "idle" => card'[form.upload] = card[form.upload]
    <2>1. card[u].key = card[u].id /\ card[u].shown \in Terminal
        BY DEF removeJob, Reachable
    <2>2. card[u].shown # "pending"
        BY <2>1, Ends
    <2>3. form.pc # "idle" => form.upload # u
        BY <2>1, <2>2 DEF PageInv, FormCard
    <2> QED
        BY <1>1, <2>3 DEF Answered200, PageInv, PageTypes
<1>6. FormCard'
    BY <1>1, <1>5, FormCardFrame
<1> QED
    BY <1>1, <1>2, <1>3, <1>4, <1>6, CardStep

LEMMA LeaveStep == ASSUME PageInv, LeavePage PROVE PageInv'
<1>1. /\ form' = FormIdle /\ UNCHANGED <<status, seen, cancel>>
      /\ card' = [u \in Uploads |-> NoCard]
      /\ poll' = [u \in Uploads |-> [i \in Slots |-> Free]]
    BY DEF LeavePage, jobs
<1>2. PageTypes'
    BY <1>1 DEF PageInv, PageTypes, NoCard, Free, Cards, Polls, Status
<1>3. \A u \in Uploads : CardOK(u)'
    BY <1>1 DEF PageInv, CardOK, NoCard, Free
<1> QED
    BY <1>1, <1>2, <1>3, FormIdleFrame DEF PageInv

-----------------------------------------------------------------------------
(* The form's card changes as the upload goes on.                          *)
LEMMA StartStep ==
    ASSUME PageInv, NEW u \in Uploads, NEW size, NEW requested, NEW choice,
           startUpload(u, size, requested, choice)
    PROVE  PageInv'
<1> DEFINE x == [key |-> "temp", id |-> "temp", shown |-> "pending"]
<1>1. /\ card' = [card EXCEPT ![u] = x] /\ Grown
      /\ UNCHANGED <<status, seen, timer, poll, cancel>>
    BY DEF startUpload, jobs, PageInv, CardOK, Grown
<1>2. form'.upload = u /\ form'.pc = "initiate"
    BY DEF startUpload, FormIdle
<1>3. x \in Cards /\ x.key = "temp" /\ x.shown = "pending"
    BY DEF Cards, Status
<1> HIDE DEF x
<1>4. PageTypes' /\ card'[u] = x
    BY <1>1, <1>3 DEF PageInv, PageTypes
<1>5. CardOK(u)'
    BY <1>1, <1>3, <1>4 DEF PageInv, CardOK
<1>6. FormCard'
    BY <1>2, <1>3, <1>4 DEF FormCard
<1> QED
    BY <1>1, <1>3, <1>4, <1>5, <1>6, CardStep

(* The upload is given up: its card shows "failed", whose key is no job's. *)
LEMMA GiveUpStep ==
    ASSUME PageInv, Answered200, form.pc # "idle", GiveUp, Grown,
           status' \in [Uploads -> Status], seen' \in [Uploads -> SUBSET Status],
           UNCHANGED <<timer, poll, cancel>>
    PROVE  PageInv'
<1>1. PICK u \in Uploads : u = form.upload /\ card[u] \in Cards /\ card[u].key = "temp"
    BY DEF Answered200, PageInv, PageTypes, FormCard
<1> DEFINE x == [card[u] EXCEPT !.shown = "failed"]
<1>2. card' = [card EXCEPT ![u] = x] /\ form' = FormIdle
    BY <1>1 DEF GiveUp, Show, Upload
<1>3. x \in Cards /\ x.key = "temp"
    BY <1>1 DEF Cards, Status
<1> HIDE DEF x
<1>4. PageTypes' /\ card'[u] = x
    BY <1>1, <1>2, <1>3 DEF PageInv, PageTypes
<1>5. CardOK(u)'
    BY <1>1, <1>3, <1>4 DEF PageInv, CardOK, Grown
<1> QED
    BY <1>1, <1>2, <1>3, <1>4, <1>5, FormIdleFrame, CardStep

LEMMA InitiatedStep == ASSUME PageInv, Answered200, Initiated PROVE PageInv'
<1>u. PICK u \in Uploads : u = form.upload
    BY DEF Initiated, Answered200
<1> DEFINE x == [[card[u] EXCEPT !.id = "job"] EXCEPT !.shown = "uploading"]
<1>1. /\ form.pc = "initiate" /\ UNCHANGED <<status, seen, timer, poll, cancel>> /\ Grown
      /\ status' \in [Uploads -> Status] /\ seen' \in [Uploads -> SUBSET Status]
    BY DEF Initiated, jobs, PageInv, PageTypes, CardOK, Grown
<1>2. CASE GiveUp
    BY <1>1, <1>2, GiveUpStep
<1>3. CASE card' = [card EXCEPT ![u] = x] /\ form' = [form EXCEPT !.pc = "parts"]
    <2>1. card[u] \in Cards /\ card[u].key = "temp" /\ form'.pc = "parts" /\ form'.upload = u
        BY <1>u, <1>1, <1>3 DEF Answered200, PageInv, PageTypes, FormCard
    <2>2. x \in Cards /\ x.key = "temp" /\ x.id = "job"
        BY <2>1 DEF Cards, Status
    <2> HIDE DEF x
    <2>3. PageTypes' /\ card'[u] = x
        BY <1>1, <1>3, <2>1, <2>2 DEF PageInv, PageTypes
    <2>4. CardOK(u)'
        BY <1>1, <2>1, <2>2, <2>3 DEF PageInv, CardOK
    <2>5. FormCard'
        BY <2>1, <2>2, <2>3 DEF FormCard
    <2> QED
        BY <1>1, <1>3, <2>1, <2>2, <2>3, <2>4, <2>5, CardStep
<1>4. card' = [card EXCEPT ![u].id = "job", ![u].shown = "uploading"]
          => card' = [card EXCEPT ![u] = x]
    BY <1>1 DEF PageInv, PageTypes, Cards
<1> QED
    BY <1>u, <1>2, <1>3, <1>4 DEF Initiated, Upload

(* The upload is complete: the card now stands for a job that is queued,   *)
(* and a poll is under way.                                                *)
LEMMA CompletedStep ==
    ASSUME PageInv, NEW u \in Uploads, Completed(u), Move(u, "queued"),
           UNCHANGED <<timer, cancel>>
    PROVE  PageInv'
<1> DEFINE x == [key |-> "job", id |-> "job", shown |-> "queued"]
           y == [poll[u][1] EXCEPT !.pc = "asked"]
<1>1. /\ Grown /\ status' \in [Uploads -> Status] /\ seen' \in [Uploads -> SUBSET Status]
      /\ "queued" \in seen'[u]
    BY MoveFacts DEF Grown
<1>2. 1 \in Slots /\ poll[u][1] \in Polls /\ poll[u] \in [Slots -> Polls]
    BY FrontendAssumption DEF PageInv, PageTypes, Slots
<1>3. /\ x \in Cards /\ x.key = "job" /\ x.shown = "queued"
      /\ y \in Polls /\ y.pc = "asked" /\ y.answer = poll[u][1].answer
    BY <1>2 DEF Cards, Status, Polls
<1>4. /\ card' = [card EXCEPT ![u] = x] /\ form' = FormIdle
      /\ poll' = [poll EXCEPT ![u][1] = y]
    BY <1>2 DEF Completed, PageInv, PageTypes
<1> HIDE DEF x, y
<1>5. PageTypes' /\ card'[u] = x
    BY <1>1, <1>3, <1>4 DEF PageInv, PageTypes
<1>6. /\ \A v \in Uploads \ {u} : poll'[v] = poll[v]
      /\ \A k \in Slots : poll'[u][k] = IF k = 1 THEN y ELSE poll[u][k]
    BY <1>2, <1>4 DEF PageInv, PageTypes
<1>7. CardOK(u)'
    <2>1. \A k \in Slots : poll'[u][k].answer \in seen'[u] \cup {"error"}
        BY <1>1, <1>2, <1>3, <1>6 DEF PageInv, CardOK, Grown
    <2>2. poll'[u][1].pc = "asked"
        BY <1>2, <1>3, <1>6
    <2>3. status'[u] \in seen'[u] /\ (cancel'[u].pc = "ok" => "cancelled" \in seen'[u])
        BY <1>1 DEF PageInv, CardOK, Grown
    <2> QED
        BY <1>1, <1>3, <1>5, <2>1, <2>2, <2>3 DEF CardOK
<1> QED
    BY <1>1, <1>3, <1>4, <1>5, <1>6, <1>7, FormIdleFrame, CardStep

(* A step that only the form notices.                                      *)
LEMMA OnlyTheForm ==
    ASSUME PageInv, UNCHANGED <<status, seen, card, timer, poll, cancel>>, FormCard'
    PROVE  PageInv'
<1>1. PageTypes'
    BY DEF PageInv, PageTypes
<1>2. Grown
    BY DEF PageInv, CardOK, Grown
<1> QED
    BY <1>1, <1>2, CardFrame DEF PageInv

LEMMA PartStep == ASSUME PageInv, Answered200, uploadPart PROVE PageInv'
<1>1. /\ form.pc = "parts" /\ UNCHANGED <<status, seen, timer, poll, cancel>> /\ Grown
      /\ status' \in [Uploads -> Status] /\ seen' \in [Uploads -> SUBSET Status]
    BY DEF uploadPart, jobs, PageInv, PageTypes, CardOK, Grown
<1>2. CASE GiveUp
    BY <1>1, <1>2, GiveUpStep
<1> DEFINE acknowledged ==
               [form EXCEPT !.done = Append(@, form.part), !.retries = 0, !.part = @ + 1,
                            !.pc = IF form.part < ini[Upload].part THEN @ ELSE "complete"]
           again == [form EXCEPT !.retries = @ + 1]
<1>3. /\ acknowledged.upload = form.upload /\ acknowledged.pc \in {"parts", "complete"}
      /\ again.upload = form.upload /\ again.pc = "parts"
    BY <1>1 DEF Answered200
<1>4. GiveUp \/ (form' \in {acknowledged, again} /\ UNCHANGED card)
    BY DEF uploadPart
<1> HIDE DEF acknowledged, again
<1>5. CASE form' \in {acknowledged, again} /\ UNCHANGED card
    <2>1. FormCard'
        BY <1>1, <1>3, <1>5 DEF PageInv, FormCard
    <2> QED
        BY <1>1, <1>5, <2>1, OnlyTheForm
<1> QED
    BY <1>2, <1>4, <1>5

LEMMA CompleteStep == ASSUME PageInv, Answered200, completeUpload PROVE PageInv'
<1>1. /\ form.pc = "complete" /\ UNCHANGED <<timer, cancel>> /\ form.upload \in Uploads
      /\ \/ Completed(form.upload) /\ Move(form.upload, "queued")
         \/ GiveUp /\ UNCHANGED poll /\ Move(form.upload, "queued")
         \/ GiveUp /\ UNCHANGED <<poll, status, seen>>
    BY DEF completeUpload, Answered200, Upload, jobs
<1>2. CASE Completed(form.upload) /\ Move(form.upload, "queued")
    BY <1>1, <1>2, CompletedStep
<1>3. CASE GiveUp /\ UNCHANGED poll /\ Move(form.upload, "queued")
    BY <1>1, <1>3, MoveFacts, GiveUpStep DEF Grown
<1>4. CASE GiveUp /\ UNCHANGED <<poll, status, seen>>
    <2>1. Grown /\ status' \in [Uploads -> Status] /\ seen' \in [Uploads -> SUBSET Status]
        BY <1>4 DEF Grown, PageInv, PageTypes, CardOK
    <2> QED
        BY <1>1, <1>4, <2>1, GiveUpStep
<1> QED
    BY <1>1, <1>2, <1>3, <1>4

-----------------------------------------------------------------------------
LEMMA PageStep == PageInv /\ Answered200 /\ [Next]_vars => PageInv'
<1> SUFFICES ASSUME PageInv, Answered200, [Next]_vars PROVE PageInv'
    OBVIOUS
<1>1. CASE loadPresets \/ EditForm
    <2>1. UNCHANGED <<status, seen, card, timer, poll, cancel>> /\ (\E c : Live(c))
        BY <1>1 DEF loadPresets, EditForm, jobs, store
    <2>2. form'.pc = form.pc /\ form'.upload = form.upload
        BY <2>1, LiveKeepsForm
    <2> QED
        BY <2>1, <2>2, FormCardFrame, OnlyTheForm
<1>2. CASE Initiated
    BY <1>2, InitiatedStep
<1>3. CASE InitiateUnanswered
    <2>1. /\ form.pc # "idle" /\ GiveUp /\ UNCHANGED <<status, seen, timer, poll, cancel>>
          /\ Grown /\ status' \in [Uploads -> Status] /\ seen' \in [Uploads -> SUBSET Status]
        BY <1>3 DEF InitiateUnanswered, jobs, Grown, PageInv, PageTypes, CardOK
    <2> QED
        BY <2>1, GiveUpStep
<1>4. CASE uploadPart
    BY <1>4, PartStep
<1>5. CASE completeUpload
    BY <1>5, CompleteStep
<1>6. CASE LeavePage
    BY <1>6, LeaveStep
<1>7. ASSUME NEW u \in Uploads, JobMoves(u) \/ ServeCancel(u) \/ InitiateStep(u) PROVE PageInv'
    BY <1>7, JobsStep
<1>8. ASSUME NEW u \in Uploads, NEW i \in Slots, cancelJob(u) \/ Tick(u) \/ GetJobStatus(u, i)
      PROVE  PageInv'
    BY <1>8, AskStep
<1>9. ASSUME NEW u \in Uploads, NEW i \in Slots, Polled(u, i) PROVE PageInv'
    BY <1>9, PolledStep
<1>10. ASSUME NEW u \in Uploads, Cancelled(u) \/ removeJob(u) PROVE PageInv'
    BY <1>10, CancelledStep, RemoveStep
<1>11. ASSUME NEW u \in Uploads, NEW size, NEW p, NEW c, startUpload(u, size, p, c) PROVE PageInv'
    BY <1>11, StartStep
<1>12. CASE UNCHANGED vars
    BY <1>12, FormCardFrame, OnlyTheForm DEF vars, jobs, store
<1>13. 1 \in Slots
    BY FrontendAssumption DEF Slots
<1> QED
    BY <1>1, <1>2, <1>3, <1>4, <1>5, <1>6, <1>7, <1>8, <1>9, <1>10, <1>11, <1>12, <1>13 DEF Next

LEMMA PageInvariant == Spec => []PageInv
<1>1. PageInv /\ IInv /\ [Next]_vars => PageInv' /\ IInv'
    BY PageStep, IndStep DEF IInv
<1> QED
    BY <1>1, PageInit, IndInit, PTL DEF Spec

(* What a card shows of a job is a status the job has had, in whatever     *)
(* order polls and cancellations are answered: an answer may be old, but   *)
(* the card never shows what was never so.                                 *)
THEOREM CardsShowWhatWas == Spec => []ShownWasReal
<1>1. PageInv => ShownWasReal
    BY DEF PageInv, CardOK, ShownWasReal
<1> QED
    BY <1>1, PageInvariant, PTL

(* The page does not stop asking for the status of a job it has a card for *)
(* unless the job has been in a terminal state, in whatever order polls,   *)
(* cancellations and the writes of others come.                            *)
THEOREM PollsToTheEnd == Spec => []PollsUntilEnd
<1>1. PageInv => PollsUntilEnd
    BY DEF PageInv, CardOK, PollsUntilEnd
<1> QED
    BY <1>1, PageInvariant, PTL

-----------------------------------------------------------------------------
(* What else TypeOK says: the bounds of the server, of the form, of the    *)
(* timers, and of the rows.                                                *)
ServerBounds ==
    /\ gone \subseteq Uploads /\ unsure \subseteq Uploads
    /\ failures \in [Uploads -> 0..MaxFailures]
    /\ \A u \in Uploads : urls[u] \subseteq 1..ini[u].part /\ (urls[u] # {} => u \in rows)

FormBounds ==
    /\ DOMAIN form = DOMAIN FormIdle
    /\ form.upload \in Uploads \cup {NoUpload} /\ form.retries \in 0..MaxRetries

TimerBounds == timer \subseteq Uploads

RowBounds ==
    /\ DOMAIN meta = Uploads
    /\ \A u \in Uploads : meta[u] # Refused => {"format", "codec", "resolution"} \subseteq DOMAIN meta[u]

LEMMA CallsCounted ==
    ASSUME ServerBounds, NEW u \in Uploads,
           \/ CallFails(u) \/ UNCHANGED failures
           \/ failures[u] < MaxFailures /\ failures' = [failures EXCEPT ![u] = @ + 1]
    PROVE  failures' \in [Uploads -> 0..MaxFailures]
BY UploadAssumption DEF ServerBounds, CallFails

LEMMA HandlerBounds ==
    ASSUME Server, ServerBounds, NEW u \in Uploads, InitiateStep(u) PROVE ServerBounds'
<1>1. UNCHANGED gone /\ unsure' \subseteq Uploads /\ (CallFails(u) \/ UNCHANGED failures)
    BY DEF InitiateStep, InitiateMultipartUpload, CreateJob, NewMultipartUpload,
           CreatePresignedURL, AbortMultipartUpload, DeleteJob, Call, ServerBounds
<1>2. failures' \in [Uploads -> 0..MaxFailures]
    BY <1>1, CallsCounted
<1>3. CASE CreatePresignedURL(u)
    <2>1. u \in rows /\ UNCHANGED rows /\ ini[u].part \in Nat \ {0}
        BY <1>3 DEF CreatePresignedURL, Server, Done, ServerTypes
    <2>2. /\ ini'[u].part \in {ini[u].part, ini[u].part + 1}
          /\ \A v \in Uploads \ {u} : ini'[v] = ini[v]
        BY <1>3 DEF CreatePresignedURL, IniGoes, Server, ServerTypes
    <2>3. /\ urls'[u] \subseteq urls[u] \cup {ini[u].part}
          /\ \A v \in Uploads \ {u} : urls'[v] = urls[v]
        BY <1>3 DEF CreatePresignedURL, Server, ServerTypes
    <2>4. \A v \in Uploads : urls'[v] \subseteq 1..ini'[v].part /\ (urls'[v] # {} => v \in rows')
        BY <2>1, <2>2, <2>3 DEF ServerBounds
    <2> QED
        BY <1>1, <1>2, <2>4 DEF ServerBounds
<1>4. CASE CreateJob(u) \/ NewMultipartUpload(u) \/ AbortMultipartUpload(u) \/ DeleteJob(u)
    <2>1. \A v \in Uploads : ini'[v].part = ini[v].part
        BY <1>4 DEF CreateJob, NewMultipartUpload, AbortMultipartUpload, DeleteJob, Call, IniGoes,
               Server, ServerTypes
    <2>2. \/ UNCHANGED urls /\ rows \subseteq rows'
          \/ rows' = rows \ {u} /\ urls' = [urls EXCEPT ![u] = {}]
        BY <1>4 DEF CreateJob, NewMultipartUpload, AbortMultipartUpload, DeleteJob, Call
    <2>3. \A v \in Uploads : urls'[v] \subseteq 1..ini'[v].part /\ (urls'[v] # {} => v \in rows')
        BY <2>1, <2>2 DEF ServerBounds, Server, ServerTypes
    <2> QED
        BY <1>1, <1>2, <2>3 DEF ServerBounds
<1> QED
    BY <1>3, <1>4 DEF InitiateStep, InitiateMultipartUpload

LEMMA SomeSlot == 1 \in Slots
BY FrontendAssumption DEF Slots

LEMMA ServerStep == IInv /\ ServerBounds /\ [Next]_vars => ServerBounds'
<1> SUFFICES ASSUME Server, Answered200, ServerBounds, [Next]_vars PROVE ServerBounds'
    BY DEF IInv
<1>1. ASSUME NEW u \in Uploads, InitiateStep(u) PROVE ServerBounds'
    BY <1>1, HandlerBounds
<1>2. ASSUME NEW u \in Uploads, NEW size, NEW p, NEW c, startUpload(u, size, p, c) PROVE ServerBounds'
    <2>1. UNCHANGED <<rows, urls, failures, unsure, gone>>
        BY <1>2 DEF startUpload
    <2>2. \A v \in Uploads : ini'[v].part = ini[v].part
        BY <1>2 DEF startUpload, Initiate, Server, ServerTypes
    <2> QED
        BY <2>1, <2>2 DEF ServerBounds
<1>3. ASSUME UNCHANGED <<rows, urls, ini, unsure>>, gone' \subseteq Uploads,
             \/ UNCHANGED failures
             \/ \E u \in Uploads : \/ CallFails(u)
                                   \/ /\ failures[u] < MaxFailures
                                      /\ failures' = [failures EXCEPT ![u] = @ + 1]
      PROVE  ServerBounds'
    <2>1. failures' \in [Uploads -> 0..MaxFailures]
        BY <1>3, CallsCounted DEF ServerBounds
    <2> QED
        BY <1>3, <2>1 DEF ServerBounds
<1>4. CASE InitiateUnanswered \/ uploadPart \/ completeUpload
    <2>1. Upload \in Uploads
        BY <1>4 DEF InitiateUnanswered, uploadPart, completeUpload, Answered200, Upload
    <2> QED
        BY <1>3, <1>4, <2>1 DEF InitiateUnanswered, uploadPart, completeUpload, ServerBounds
<1>5. ASSUME NEW u \in Uploads, NEW i \in Slots, GetJobStatus(u, i) \/ ServeCancel(u)
      PROVE  ServerBounds'
    <2>1. /\ UNCHANGED <<rows, multipart, urls, ini, unsure, gone>>
          /\ CallFails(u) \/ UNCHANGED failures
        BY <1>5 DEF GetJobStatus, ServeCancel, ReadCancel, WriteCancel, CancelFails, initVars
    <2> QED
        BY <1>3, <2>1 DEF ServerBounds
<1>6. CASE LeavePage
    BY <1>3, <1>6 DEF LeavePage, ServerBounds
<1>7. UNCHANGED initVars => ServerBounds'
    BY <1>3 DEF initVars, ServerBounds
<1>8. \/ UNCHANGED initVars \/ InitiateUnanswered \/ uploadPart \/ completeUpload \/ LeavePage
      \/ \E u \in Uploads : \/ InitiateStep(u)
                            \/ \E i \in Slots : GetJobStatus(u, i) \/ ServeCancel(u)
                            \/ \E size, p, c : startUpload(u, size, p, c)
    BY SomeSlot DEF Next, vars, loadPresets, EditForm, Initiated, JobMoves, Tick, cancelJob,
                    Cancelled, removeJob, Polled
<1> QED
    BY <1>1, <1>2, <1>4, <1>5, <1>6, <1>7, <1>8

LEMMA FormBoundsStep == Answered200 /\ FormBounds /\ [Next]_vars => FormBounds'
<1> SUFFICES ASSUME Answered200, FormBounds, [Next]_vars PROVE FormBounds'
    OBVIOUS
<1>1. UNCHANGED form => FormBounds'
    BY DEF FormBounds
<1>2. form' = FormIdle => FormBounds'
    BY FrontendAssumption DEF FormBounds, FormIdle
<1>3. CASE loadPresets \/ EditForm
    <2>1. PICK c : UNCHANGED form \/ form' = [form EXCEPT !.live = c]
        BY <1>3 DEF loadPresets, EditForm, Live
    <2> QED
        BY <1>1, <2>1 DEF FormBounds, FormIdle
<1>4. CASE Initiated
    BY <1>2, <1>4 DEF Initiated, GiveUp, FormBounds, FormIdle
<1>5. CASE uploadPart
    <2> DEFINE acknowledged ==
                   [form EXCEPT !.done = Append(@, form.part), !.retries = 0, !.part = @ + 1,
                                !.pc = IF form.part < ini[Upload].part THEN @ ELSE "complete"]
               again == [form EXCEPT !.retries = @ + 1]
    <2>1. /\ DOMAIN acknowledged = DOMAIN FormIdle /\ acknowledged.upload = form.upload
          /\ acknowledged.retries = 0
          /\ DOMAIN again = DOMAIN FormIdle /\ again.upload = form.upload
          /\ again.retries = form.retries + 1
        BY DEF FormBounds, FormIdle
    <2>2. \/ form' = acknowledged \/ form' = FormIdle
          \/ form' = again /\ form.retries < MaxRetries
        BY <1>5 DEF uploadPart, GiveUp
    <2> HIDE DEF acknowledged, again
    <2> QED
        BY <1>2, <2>1, <2>2, FrontendAssumption DEF FormBounds
<1>6. ASSUME NEW u \in Uploads, NEW size, NEW p, NEW c, startUpload(u, size, p, c) PROVE FormBounds'
    BY <1>6, FrontendAssumption DEF startUpload, FormBounds, FormIdle
<1>7. \/ UNCHANGED form \/ form' = FormIdle
      \/ loadPresets \/ EditForm \/ Initiated \/ uploadPart
      \/ \E u \in Uploads : \E size, p, c : startUpload(u, size, p, c)
    BY DEF Next, vars, InitiateUnanswered, completeUpload, Completed, GiveUp, LeavePage, InitiateStep,
           JobMoves, Tick, cancelJob, ServeCancel, ReadCancel, WriteCancel, CancelFails, Cancelled,
           removeJob, GetJobStatus, Polled
<1> QED
    BY <1>1, <1>2, <1>3, <1>4, <1>5, <1>6, <1>7

LEMMA TimerStep == TimerBounds /\ [Next]_vars => TimerBounds'
<1> SUFFICES ASSUME TimerBounds, [Next]_vars PROVE TimerBounds'
    OBVIOUS
<1>1. ASSUME NEW u \in Uploads, NEW i \in Slots, Polled(u, i) PROVE TimerBounds'
    BY <1>1 DEF Polled, Displays, stopPolling, TimerBounds
<1>2. ASSUME NEW u \in Uploads, Cancelled(u) \/ removeJob(u) PROVE TimerBounds'
    BY <1>2 DEF Cancelled, removeJob, TimerBounds
<1>3. CASE LeavePage
    BY <1>3 DEF LeavePage, TimerBounds
<1>4. UNCHANGED timer => TimerBounds'
    BY DEF TimerBounds
<1>5. \/ UNCHANGED timer \/ LeavePage
      \/ \E u \in Uploads : \/ Cancelled(u) \/ removeJob(u) \/ \E i \in Slots : Polled(u, i)
    BY DEF Next, vars, store, loadPresets, EditForm, Initiated, InitiateUnanswered, uploadPart,
           completeUpload, InitiateStep, JobMoves, startUpload, Tick, cancelJob, ServeCancel,
           ReadCancel, WriteCancel, CancelFails,
           GetJobStatus
<1> QED
    BY <1>1, <1>2, <1>3, <1>4, <1>5

LEMMA RowStep == RowBounds /\ [Next]_vars => RowBounds'
<1> SUFFICES ASSUME RowBounds, [Next]_vars PROVE RowBounds'
    OBVIOUS
<1>1. UNCHANGED meta \/ SaveMeta(Upload)
    BY MetaWritten DEF vars, jobs
<1>2. CASE SaveMeta(Upload)
    <2>1. {"format", "codec", "resolution"} \subseteq DOMAIN buildVideoMetadata(payload)
        BY <1>2 DEF SaveMeta, buildVideoMetadata, Resolve, LegacyMetadata, Fields
    <2> QED
        BY <1>2, <2>1 DEF SaveMeta, RowBounds
<1> QED
    BY <1>1, <1>2 DEF RowBounds

(* Every variable of the page and of the server keeps its type and its     *)
(* bounds: no URL outlives its job, no call fails more often than assumed, *)
(* and the card of the upload under way keeps its temporary key.           *)
THEOREM TypeCorrect == Spec => []TypeOK
<1> DEFINE Bounds == ServerBounds /\ FormBounds /\ TimerBounds /\ RowBounds
<1>1. Init => Bounds
    BY UploadAssumption, FrontendAssumption
       DEF Init, InitiateInit, NewIni, FormIdle, ServerBounds, FormBounds, TimerBounds, RowBounds
<1>2. Bounds /\ IInv /\ [Next]_vars => Bounds' /\ IInv'
    BY ServerStep, FormBoundsStep, TimerStep, RowStep, IndStep DEF IInv
<1>3. Bounds /\ IInv /\ PageInv => TypeOK
    BY DEF IInv, Server, ServerTypes, PageInv, PageTypes, FormCard, Cards, Cancels,
           ServerBounds, FormBounds, TimerBounds, RowBounds, TypeOK
<1> HIDE DEF Bounds
<1> QED
    BY <1>1, <1>2, <1>3, IndInit, PageInvariant, PTL DEF Spec
==============================================================================
