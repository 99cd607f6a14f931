------------------------- MODULE QuestionQueueProofs -------------------------
(***************************************************************************)
(* The promises of the question queue and of the matrix's publication      *)
(* rules, for any number of concurrent requests, questions, files and      *)
(* days.  LocalOK says what a request has in hand at each statement; the   *)
(* other parts of the invariants say what it may rely on in the database   *)
(* until it commits, because it holds a row lock or because its id is new. *)
(***************************************************************************)
EXTENDS QuestionQueue, FiniteSetTheorems, SequenceTheorems, TLAPS

Suggestions == [text : Texts, sheet : {PublicSheet, None}]
ItemRows == [text : Texts, status : {"Draft", "Published"}, ready : BOOLEAN,
             at : Nat \cup {None}, resources : SUBSET Resources]

(* x has the fields of a request. *)
Shaped(x) ==
  x = [op |-> x.op, pc |-> x.pc, may |-> x.may, at |-> x.at, q |-> x.q, i |-> x.i,
       params |-> x.params, new |-> x.new, file |-> x.file, preview |-> x.preview,
       keys |-> x.keys, rows |-> x.rows, client |-> x.client, day |-> x.day, late |-> x.late]

Queuing(x) ==
  /\ x.q \in Questions /\ x.i = None /\ x.new = None /\ x.params \in Suggestions
  /\ \/ x.op = "suggest" /\ x.pc \in {"sheets", "duplicates", "quota", "commit"}
        /\ x.client \in Clients /\ x.day \in Days /\ x.late \in BOOLEAN
     \/ x.op = "addQueued" /\ x.pc = "commit"

Importing(x) ==
  /\ x.op = "import" /\ x.q = None /\ x.i = None /\ x.new = None
  /\ \/ /\ x.pc = "shown" /\ x.file \in Files
        /\ x.preview = WithDuplicateWarnings(Preview(x.file), x.keys)
     \/ x.pc = "commit" /\ \A k \in DOMAIN x.rows : x.rows[k] # None

Writing(x) ==
  /\ x.i \in Items /\ x.new \in Content /\ x.at \in Nat /\ x.may \in BOOLEAN
  /\ \/ x.op = "create" /\ x.pc \in {"resources", "commit"} /\ x.q = None
     \/ x.op = "convert" /\ x.pc \in {"lock", "commit"} /\ x.q \in Questions
     \/ x.op = "update" /\ x.pc \in {"resources", "lock", "commit"} /\ x.q = None
  /\ x.op # "update" => x.may \/ x.new.status # "Published"

Switching(x) ==
  /\ x.i \in Items /\ x.q = None /\ x.new = None /\ x.may \in BOOLEAN
  /\ \/ x.op = "delete" /\ x.pc \in {"lock", "commit"}
     \/ x.op = "publish" /\ x.pc \in {"lock", "commit"} /\ x.may /\ x.at \in Nat
     \/ x.op = "unpublish" /\ x.pc \in {"read", "write", "nothing", "commit"} /\ x.may

Rejecting(x) ==
  /\ x.op = "reject" /\ x.pc \in {"lock", "commit"} /\ x.q \in Questions
  /\ x.i = None /\ x.new = None

(* What a request has in hand at each statement *)
LocalOK(x) ==
  /\ Shaped(x)
  /\ x = Idle \/ Queuing(x) \/ Importing(x) \/ Writing(x) \/ Switching(x) \/ Rejecting(x)

TypeOK ==
  /\ tx = [t \in Tx |-> tx[t]] /\ \A t \in Tx : LocalOK(tx[t])
  /\ queue = [q \in Questions |-> queue[q]]
  /\ items = [i \in Items |-> items[i]]
  /\ locks \in [Questions \cup Items -> Tx \cup {None}]
  /\ left \in 0 .. MaxRequests
  /\ day \in Days /\ late \in BOOLEAN /\ (late => day < LastDay)

-----------------------------------------------------------------------------
(* A decision that is about to commit holds the question's row lock, and the
   question still stands. *)
DecisionSafe(t) ==
  tx[t].op \in {"convert", "reject"} /\ At(t, "commit") =>
    locks[tx[t].q] = t /\ queue[tx[t].q] # None

Deeds == {"suggest", "addQueued", "import", "convert", "reject"}

FateTyped == fate \in [Questions -> Seq(Deeds)]

DecisionInv == TypeOK /\ FateTyped /\ OneDecision /\ \A t \in Tx : DecisionSafe(t)

-----------------------------------------------------------------------------
(* Nobody else creates the question that a request creates. *)
CreationSafe(t) ==
  tx[t].op \in {"create", "convert"} =>
    /\ items[tx[t].i] = None
    /\ \A u \in Tx \ {t} : tx[u].op \in {"create", "convert"} => tx[u].i # tx[t].i
    /\ At(t, "commit") => PublicReady(tx[t].new) /\ ResourcesExist(tx[t].new)

(* A change that is about to commit holds the row's lock, and what it checked
   under the lock still holds. *)
ChangeSafe(t) ==
  LET x == tx[t]  old == items[x.i] IN
  /\ x.op = "update" /\ x.pc # "resources" => ResourcesExist(x.new)
  /\ x.op \in {"update", "delete", "publish", "unpublish"} /\ x.pc = "commit" =>
       /\ locks[x.i] = t /\ old # None
       /\ x.op = "update" => Allowed(t, {old.status, x.new.status}) /\ PublicReady(x.new)
       /\ x.op = "delete" => Allowed(t, {old.status})
       /\ x.op = "publish" => old.ready

ItemsTyped == items \in [Items -> ItemRows \cup {None}]

LinksExist == \A i \in Items : items[i] # None => items[i].resources \subseteq resources

ItemsInv ==
  TypeOK /\ ItemsTyped /\ LinksExist /\ PublishedComplete /\ \A t \in Tx : CreationSafe(t) /\ ChangeSafe(t)

-----------------------------------------------------------------------------
(* The id of a question on its way into the queue is nobody else's. *)
IdsNew ==
  \A t \in Tx : tx[t].op \in {"suggest", "addQueued"} =>
    /\ fate[tx[t].q] = <<>> /\ queue[tx[t].q] = None
    /\ \A u \in Tx \ {t} : tx[u].q # tx[t].q

Checked(t) == tx[t].op = "suggest" /\ tx[t].pc \in {"quota", "commit"}

Suggested(q) == queue[q] # None /\ fate[q] = <<"suggest">>

Rivals(p, q) == p \in rivals[q] \/ q \in rivals[p]

(* Of two suggestions past the check one saw the other on its way, and so
   with a suggestion in the queue that is the same. *)
CheckedRivals ==
  \A t \in Tx : Checked(t) =>
    /\ \A u \in Tx \ {t} : Checked(u) => Rivals(tx[t].q, tx[u].q)
    /\ \A q \in Questions : Suggested(q) /\ KeyOf(queue[q]) = KeyOf(tx[t].params)
                            => Rivals(tx[t].q, q)

RivalsTyped == rivals = [q \in Questions |-> rivals[q]] /\ fate = [q \in Questions |-> fate[q]]

RivalsInv == TypeOK /\ RivalsTyped /\ IdsNew /\ CheckedRivals /\ DuplicatesNeedOverlap

-----------------------------------------------------------------------------
(* Until a day's last second its counters have counted whatever was let
   through. *)
CounterCounts ==
  \A c \in Clients, d \in Days :
    day < d \/ (day = d /\ ~late) => accepted[<<c, d>>] <= quota[<<c, d>>]

(* A request's clock is not ahead of the calendar. *)
ClocksBehind ==
  \A t \in Tx : tx[t].op = "suggest" =>
    tx[t].day <= day /\ (tx[t].day = day /\ tx[t].late => late)

QuotaTyped ==
  quota \in [Clients \X Days -> Nat] /\ accepted \in [Clients \X Days -> Nat]

QuotaInv == TypeOK /\ QuotaTyped /\ CounterCounts /\ ClocksBehind /\ QuotaHolds

-----------------------------------------------------------------------------
(* Moving to another statement changes nothing else a request has in hand. *)
LEMMA PcMove ==
  ASSUME NEW x, Shaped(x), NEW pc
  PROVE  /\ Shaped([x EXCEPT !.pc = pc])
         /\ [x EXCEPT !.pc = pc].pc = pc
         /\ [x EXCEPT !.pc = pc].op = x.op /\ [x EXCEPT !.pc = pc].may = x.may
         /\ [x EXCEPT !.pc = pc].at = x.at /\ [x EXCEPT !.pc = pc].q = x.q
         /\ [x EXCEPT !.pc = pc].i = x.i /\ [x EXCEPT !.pc = pc].params = x.params
         /\ [x EXCEPT !.pc = pc].new = x.new /\ [x EXCEPT !.pc = pc].rows = x.rows
         /\ [x EXCEPT !.pc = pc].client = x.client /\ [x EXCEPT !.pc = pc].day = x.day
         /\ [x EXCEPT !.pc = pc].late = x.late
BY DEF Shaped

LEMMA IdleOK ==
  /\ LocalOK(Idle)
  /\ Idle.op = "none" /\ Idle.pc = "idle" /\ ~Idle.may
  /\ Idle.q = None /\ Idle.i = None /\ Idle.new = None
BY DEF LocalOK, Shaped, Idle

LEMMA NowIsNat == TypeOK => Now \in Nat
BY QueueAssumptions DEF TypeOK, Now

(* A request's transaction moves to another statement. *)
Moves(t, pc) == tx' = [tx EXCEPT ![t].pc = pc]

(* The other requests stay where they are. *)
OthersStay(t) == tx' = [u \in Tx |-> tx'[u]] /\ \A u \in Tx \ {t} : tx'[u] = tx[u]

LEMMA MoveFields ==
  ASSUME TypeOK, NEW t \in Tx, NEW pc, Moves(t, pc)
  PROVE  /\ OthersStay(t)
         /\ Shaped(tx'[t]) /\ tx'[t].pc = pc
         /\ tx'[t].op = tx[t].op /\ tx'[t].may = tx[t].may /\ tx'[t].at = tx[t].at
         /\ tx'[t].q = tx[t].q /\ tx'[t].i = tx[t].i /\ tx'[t].params = tx[t].params
         /\ tx'[t].new = tx[t].new /\ tx'[t].rows = tx[t].rows /\ tx'[t].client = tx[t].client
         /\ tx'[t].day = tx[t].day /\ tx'[t].late = tx[t].late
<1>1. tx' = [tx EXCEPT ![t] = [tx[t] EXCEPT !.pc = pc]]
  BY DEF Moves
<1>2. OthersStay(t) /\ tx'[t] = [tx[t] EXCEPT !.pc = pc]
  BY <1>1 DEF TypeOK, OthersStay
<1>3. Shaped(tx[t])
  BY DEF TypeOK, LocalOK
<1> QED BY <1>2, <1>3, PcMove

LEMMA ReleaseFields ==
  ASSUME TypeOK, NEW t \in Tx, Release(t)
  PROVE  /\ OthersStay(t) /\ tx'[t] = Idle
         /\ locks' \in [Questions \cup Items -> Tx \cup {None}]
         /\ \A r \in Questions \cup Items : locks'[r] = IF locks[r] = t THEN None ELSE locks[r]
<1>1. OthersStay(t) /\ tx'[t] = Idle
  BY DEF TypeOK, Release, OthersStay
<1>2. DOMAIN locks = Questions \cup Items
  BY DEF TypeOK
<1> QED BY <1>1, <1>2 DEF TypeOK, Release

-----------------------------------------------------------------------------
(* What is true of a request when it arrives *)
Arrives(t, x) ==
  /\ LocalOK(x)
  /\ tx' = [tx EXCEPT ![t] = x] /\ left' = left - 1
  /\ UNCHANGED <<db, quota, day, late, locks, history>>
  /\ x.pc = "commit" => x.op = "addQueued"
  /\ x.op = "update" => x.pc = "resources"
  /\ x.op = "suggest" => x.pc = "sheets" /\ x.day = day /\ x.late = late
  /\ x.op \in {"suggest", "addQueued"} => Fresh(x.q)
  /\ x.op \in {"create", "convert"} => FreshItem(x.i)
  /\ x.op \in {"convert", "reject"} => fate[x.q] # <<>>

LEMMA SuggestArrives ==
  ASSUME TypeOK, NEW t \in Tx, NEW q \in Questions, NEW text \in Texts, NEW c \in Clients,
         BeginSuggest(t, q, text, c)
  PROVE  \E x : Arrives(t, x)
<1>0. Shaped(Idle) /\ Idle.q = None /\ Idle.i = None /\ Idle.new = None /\ ~Idle.may
  BY IdleOK DEF LocalOK
<1>1. PICK x : x = LimitParams([Idle EXCEPT !.op = "suggest", !.pc = "sheets", !.q = q,
                                         !.params = Suggestion(text, PublicSheet)], c)
  OBVIOUS
<1>2. Shaped(x)
  BY <1>0, <1>1 DEF Shaped, LimitParams
<1>3. x.op = "suggest" /\ x.pc = "sheets" /\ x.q = q /\ x.client = c /\ x.day = day /\ x.late = late
      /\ x.params = Suggestion(text, PublicSheet) /\ x.i = None /\ x.new = None
  BY <1>0, <1>1 DEF Shaped, LimitParams
<1>4. LocalOK(x)
  BY <1>2, <1>3, NowIsNat DEF TypeOK, LocalOK, Queuing, Suggestions, Suggestion
<1>5. Arrives(t, x)
  BY <1>1, <1>3, <1>4 DEF Arrives, BeginSuggest, Begin
<1> QED BY <1>5

LEMMA AddQueuedArrives ==
  ASSUME TypeOK, NEW t \in Tx, NEW q \in Questions, NEW text \in Texts,
         BeginAddQueued(t, q, text)
  PROVE  \E x : Arrives(t, x)
<1>0. Shaped(Idle) /\ Idle.q = None /\ Idle.i = None /\ Idle.new = None /\ ~Idle.may
  BY IdleOK DEF LocalOK
<1>1. PICK x : x = [Idle EXCEPT !.op = "addQueued", !.pc = "commit", !.q = q,
                             !.params = Suggestion(text, None)]
  OBVIOUS
<1>2. Shaped(x)
  BY <1>0, <1>1 DEF Shaped
<1>3. x.op = "addQueued" /\ x.pc = "commit" /\ x.q = q /\ x.params = Suggestion(text, None)
      /\ x.i = None /\ x.new = None
  BY <1>0, <1>1 DEF Shaped
<1>4. LocalOK(x)
  BY <1>2, <1>3, NowIsNat DEF LocalOK, Queuing, Suggestions, Suggestion
<1>5. Arrives(t, x)
  BY <1>1, <1>3, <1>4 DEF Arrives, BeginAddQueued, Begin
<1> QED BY <1>5

LEMMA PreviewImportArrives ==
  ASSUME TypeOK, NEW t \in Tx, NEW f \in Files,
         PreviewImport(t, f)
  PROVE  \E x : Arrives(t, x)
<1>0. Shaped(Idle) /\ Idle.q = None /\ Idle.i = None /\ Idle.new = None /\ ~Idle.may
  BY IdleOK DEF LocalOK
<1>1. PICK x : x = [Idle EXCEPT !.op = "import", !.pc = "shown", !.file = f, !.keys = QueuedKeys,
                             !.preview = WithDuplicateWarnings(Preview(f), QueuedKeys)]
  OBVIOUS
<1>2. Shaped(x)
  BY <1>0, <1>1 DEF Shaped
<1>3. x.op = "import" /\ x.pc = "shown" /\ x.file = f /\ x.keys = QueuedKeys
      /\ x.preview = WithDuplicateWarnings(Preview(f), QueuedKeys)
      /\ x.q = None /\ x.i = None /\ x.new = None
  BY <1>0, <1>1 DEF Shaped
<1>4. LocalOK(x)
  BY <1>2, <1>3, NowIsNat DEF LocalOK, Importing
<1>5. Arrives(t, x)
  BY <1>1, <1>3, <1>4 DEF Arrives, PreviewImport, Begin
<1> QED BY <1>5

LEMMA RejectArrives ==
  ASSUME TypeOK, NEW t \in Tx, NEW q \in Questions,
         BeginReject(t, q)
  PROVE  \E x : Arrives(t, x)
<1>0. Shaped(Idle) /\ Idle.q = None /\ Idle.i = None /\ Idle.new = None /\ ~Idle.may
  BY IdleOK DEF LocalOK
<1>1. PICK x : x = [Idle EXCEPT !.op = "reject", !.pc = "lock", !.q = q]
  OBVIOUS
<1>2. Shaped(x)
  BY <1>0, <1>1 DEF Shaped
<1>3. x.op = "reject" /\ x.pc = "lock" /\ x.q = q /\ x.i = None /\ x.new = None
  BY <1>0, <1>1 DEF Shaped
<1>4. LocalOK(x)
  BY <1>2, <1>3, NowIsNat DEF LocalOK, Rejecting
<1>5. Arrives(t, x)
  BY <1>1, <1>3, <1>4 DEF Arrives, BeginReject, Begin
<1> QED BY <1>5

LEMMA CreateArrives ==
  ASSUME TypeOK, NEW t \in Tx, NEW i \in Items, NEW new \in Content, NEW may \in BOOLEAN,
         BeginCreate(t, i, new, may)
  PROVE  \E x : Arrives(t, x)
<1>0. Shaped(Idle) /\ Idle.q = None /\ Idle.i = None /\ Idle.new = None /\ ~Idle.may
  BY IdleOK DEF LocalOK
<1>1. PICK x : x = [Idle EXCEPT !.op = "create", !.pc = "resources", !.i = i, !.new = new,
                             !.may = may, !.at = Now]
  OBVIOUS
<1>2. Shaped(x)
  BY <1>0, <1>1 DEF Shaped
<1>3. x.op = "create" /\ x.pc = "resources" /\ x.i = i /\ x.new = new /\ x.may = may /\ x.at = Now
      /\ x.q = None /\ (may \/ new.status # "Published")
  BY <1>0, <1>1 DEF Shaped, BeginCreate, BeginConvert
<1>4. LocalOK(x)
  BY <1>2, <1>3, NowIsNat DEF LocalOK, Writing
<1>5. Arrives(t, x)
  BY <1>1, <1>3, <1>4 DEF Arrives, BeginCreate, Begin
<1> QED BY <1>5

LEMMA UpdateArrives ==
  ASSUME TypeOK, NEW t \in Tx, NEW i \in Items, NEW new \in Content, NEW may \in BOOLEAN,
         BeginUpdate(t, i, new, may)
  PROVE  \E x : Arrives(t, x)
<1>0. Shaped(Idle) /\ Idle.q = None /\ Idle.i = None /\ Idle.new = None /\ ~Idle.may
  BY IdleOK DEF LocalOK
<1>1. PICK x : x = [Idle EXCEPT !.op = "update", !.pc = "resources", !.i = i, !.new = new,
                             !.may = may, !.at = Now]
  OBVIOUS
<1>2. Shaped(x)
  BY <1>0, <1>1 DEF Shaped
<1>3. x.op = "update" /\ x.pc = "resources" /\ x.i = i /\ x.new = new /\ x.may = may /\ x.at = Now
      /\ x.q = None
  BY <1>0, <1>1 DEF Shaped
<1>4. LocalOK(x)
  BY <1>2, <1>3, NowIsNat DEF LocalOK, Writing
<1>5. Arrives(t, x)
  BY <1>1, <1>3, <1>4 DEF Arrives, BeginUpdate, Begin
<1> QED BY <1>5

LEMMA ConvertArrives ==
  ASSUME TypeOK, NEW t \in Tx, NEW q \in Questions, NEW i \in Items, NEW new \in Content, NEW may \in BOOLEAN,
         BeginConvert(t, q, i, new, may)
  PROVE  \E x : Arrives(t, x)
<1>0. Shaped(Idle) /\ Idle.q = None /\ Idle.i = None /\ Idle.new = None /\ ~Idle.may
  BY IdleOK DEF LocalOK
<1>1. PICK x : x = [Idle EXCEPT !.op = "convert", !.pc = "lock", !.q = q, !.i = i,
                             !.new = new, !.may = may, !.at = Now]
  OBVIOUS
<1>2. Shaped(x)
  BY <1>0, <1>1 DEF Shaped
<1>3. x.op = "convert" /\ x.pc = "lock" /\ x.q = q /\ x.i = i /\ x.new = new /\ x.may = may
      /\ x.at = Now /\ (may \/ new.status # "Published")
  BY <1>0, <1>1 DEF Shaped, BeginCreate, BeginConvert
<1>4. LocalOK(x)
  BY <1>2, <1>3, NowIsNat DEF LocalOK, Writing
<1>5. Arrives(t, x)
  BY <1>1, <1>3, <1>4 DEF Arrives, BeginConvert, Begin
<1> QED BY <1>5

LEMMA DeleteArrives ==
  ASSUME TypeOK, NEW t \in Tx, NEW i \in Items, NEW may \in BOOLEAN,
         BeginDelete(t, i, may)
  PROVE  \E x : Arrives(t, x)
<1>0. Shaped(Idle) /\ Idle.q = None /\ Idle.i = None /\ Idle.new = None /\ ~Idle.may
  BY IdleOK DEF LocalOK
<1>1. PICK x : x = [Idle EXCEPT !.op = "delete", !.pc = "lock", !.i = i, !.may = may]
  OBVIOUS
<1>2. Shaped(x)
  BY <1>0, <1>1 DEF Shaped
<1>3. x.op = "delete" /\ x.pc = "lock" /\ x.i = i /\ x.may = may /\ x.q = None /\ x.new = None
  BY <1>0, <1>1 DEF Shaped
<1>4. LocalOK(x)
  BY <1>2, <1>3, NowIsNat DEF LocalOK, Switching
<1>5. Arrives(t, x)
  BY <1>1, <1>3, <1>4 DEF Arrives, BeginDelete, Begin
<1> QED BY <1>5

LEMMA PublishArrives ==
  ASSUME TypeOK, NEW t \in Tx, NEW i \in Items,
         BeginPublish(t, i)
  PROVE  \E x : Arrives(t, x)
<1>0. Shaped(Idle) /\ Idle.q = None /\ Idle.i = None /\ Idle.new = None /\ ~Idle.may
  BY IdleOK DEF LocalOK
<1>1. PICK x : x = [Idle EXCEPT !.op = "publish", !.pc = "lock", !.i = i, !.may = TRUE, !.at = Now]
  OBVIOUS
<1>2. Shaped(x)
  BY <1>0, <1>1 DEF Shaped
<1>3. x.op = "publish" /\ x.pc = "lock" /\ x.i = i /\ x.may = TRUE /\ x.at = Now /\ x.q = None /\ x.new = None
  BY <1>0, <1>1 DEF Shaped
<1>4. LocalOK(x)
  BY <1>2, <1>3, NowIsNat DEF LocalOK, Switching
<1>5. Arrives(t, x)
  BY <1>1, <1>3, <1>4 DEF Arrives, BeginPublish, Begin
<1> QED BY <1>5

LEMMA UnpublishArrives ==
  ASSUME TypeOK, NEW t \in Tx, NEW i \in Items,
         BeginUnpublish(t, i)
  PROVE  \E x : Arrives(t, x)
<1>0. Shaped(Idle) /\ Idle.q = None /\ Idle.i = None /\ Idle.new = None /\ ~Idle.may
  BY IdleOK DEF LocalOK
<1>1. PICK x : x = [Idle EXCEPT !.op = "unpublish", !.pc = "read", !.i = i, !.may = TRUE]
  OBVIOUS
<1>2. Shaped(x)
  BY <1>0, <1>1 DEF Shaped
<1>3. x.op = "unpublish" /\ x.pc = "read" /\ x.i = i /\ x.may = TRUE /\ x.q = None /\ x.new = None
  BY <1>0, <1>1 DEF Shaped
<1>4. LocalOK(x)
  BY <1>2, <1>3, NowIsNat DEF LocalOK, Switching
<1>5. Arrives(t, x)
  BY <1>1, <1>3, <1>4 DEF Arrives, BeginUnpublish, Begin
<1> QED BY <1>5

(* Every request *)
LEMMA RequestArrives ==
  ASSUME TypeOK, NEW t \in Tx, Request(t)
  PROVE  \E x : Arrives(t, x)
BY SuggestArrives, AddQueuedArrives, PreviewImportArrives, RejectArrives, CreateArrives,
   UpdateArrives, ConvertArrives, DeleteArrives, PublishArrives, UnpublishArrives
   DEF Request

-----------------------------------------------------------------------------
LEMMA ConfirmFields ==
  ASSUME TypeOK, NEW t \in Tx, NEW numbers, ConfirmImport(t, numbers)
  PROVE  \/ Fail(t)
         \/ /\ OthersStay(t) /\ LocalOK(tx'[t]) /\ tx'[t].op = "import" /\ tx'[t].pc = "commit"
            /\ tx'[t].q = None /\ tx'[t].i = None /\ tx'[t].new = None
            /\ tx[t].op = "import"
            /\ UNCHANGED <<db, quota, day, late, locks, left, history>>
<1> DEFINE rows == SelectedQuestions(Preview(tx[t].file), numbers)
<1>0. Shaped(Idle) /\ Idle.q = None /\ Idle.i = None /\ Idle.new = None
  BY IdleOK DEF LocalOK
<1>1. rows # Invalid => \A k \in DOMAIN rows : rows[k] # None
  BY DEF SelectedQuestions
<1> HIDE DEF rows
<1>2. CASE ~Fail(t)
  <2>1. /\ rows # Invalid
        /\ tx' = [tx EXCEPT ![t] = [Idle EXCEPT !.op = "import", !.pc = "commit", !.rows = rows]]
        /\ UNCHANGED <<db, quota, day, late, locks, left, history>>
    BY <1>2 DEF ConfirmImport, rows
  <2>2. OthersStay(t) /\ tx'[t] = [Idle EXCEPT !.op = "import", !.pc = "commit", !.rows = rows]
    BY <2>1 DEF TypeOK, OthersStay
  <2>3. Shaped(tx'[t])
    BY <1>0, <2>2 DEF Shaped
  <2>4. /\ tx'[t].op = "import" /\ tx'[t].pc = "commit" /\ tx'[t].rows = rows
        /\ tx'[t].q = None /\ tx'[t].i = None /\ tx'[t].new = None
    BY <1>0, <2>2 DEF Shaped
  <2>5. LocalOK(tx'[t])
    BY <1>1, <2>1, <2>3, <2>4 DEF LocalOK, Importing
  <2>6. tx[t].op = "import"
    <3>1. tx[t].pc = "shown" /\ LocalOK(tx[t])
      BY DEF ConfirmImport, At, TypeOK
    <3> QED BY <3>1, IdleOK DEF LocalOK, Queuing, Importing, Writing, Switching, Rejecting
  <2> QED BY <2>1, <2>2, <2>4, <2>5, <2>6
<1> QED BY <1>2

(* A transaction that ends keeps the types. *)
LEMMA ReleaseTyped ==
  ASSUME TypeOK, NEW t \in Tx, Release(t), UNCHANGED <<left, day, late>>,
         queue' = [q \in Questions |-> queue'[q]], items' = [i \in Items |-> items'[i]]
  PROVE  TypeOK'
BY ReleaseFields, IdleOK DEF TypeOK, OthersStay

LEMMA FailTyped ==
  ASSUME TypeOK, NEW t \in Tx, Fail(t)
  PROVE  TypeOK'
BY ReleaseTyped DEF Fail, db, TypeOK

(* A transaction that moves on keeps the types, if its new place is one of
   its operation. *)
LEMMA MoveTyped ==
  ASSUME TypeOK, NEW t \in Tx, NEW pc, Moves(t, pc),
         \/ Queuing(tx[t]) /\ tx[t].op = "suggest" /\ pc \in {"duplicates", "quota", "commit"}
         \/ Writing(tx[t]) /\ tx[t].op \in {"create", "convert"} /\ pc = "commit"
         \/ Writing(tx[t]) /\ tx[t].op = "update" /\ pc \in {"lock", "commit"}
         \/ Switching(tx[t]) /\ tx[t].op \in {"delete", "publish"} /\ pc = "commit"
         \/ Switching(tx[t]) /\ tx[t].op = "unpublish" /\ pc \in {"write", "nothing", "commit"}
         \/ Rejecting(tx[t]) /\ pc = "commit",
         UNCHANGED <<queue, items, left, day, late>>,
         locks' \in [Questions \cup Items -> Tx \cup {None}]
  PROVE  TypeOK'
<1>1. LocalOK(tx'[t])
  BY MoveFields DEF LocalOK, Queuing, Writing, Switching, Rejecting
<1> QED BY <1>1, MoveFields DEF TypeOK, OthersStay

(* Where a request stands tells what it is about. *)
LEMMA Standing ==
  ASSUME TypeOK, NEW t \in Tx
  PROVE  /\ At(t, "idle") => tx[t] = Idle
         /\ tx[t].pc \in {"sheets", "duplicates", "quota"} => Queuing(tx[t]) /\ tx[t].op = "suggest"
         /\ At(t, "resources") => Writing(tx[t]) /\ tx[t].op \in {"create", "update"}
         /\ tx[t].pc \in {"read", "write", "nothing"} => Switching(tx[t]) /\ tx[t].op = "unpublish"
         /\ tx[t].op \in {"suggest", "addQueued"} => Queuing(tx[t])
         /\ tx[t].op = "import" => Importing(tx[t])
         /\ tx[t].op \in {"create", "convert", "update"} => Writing(tx[t])
         /\ tx[t].op \in {"delete", "publish", "unpublish"} => Switching(tx[t])
         /\ tx[t].op = "reject" => Rejecting(tx[t])
<1>1. LocalOK(tx[t])
  BY DEF TypeOK
<1> QED BY <1>1, IdleOK DEF LocalOK, Queuing, Importing, Writing, Switching, Rejecting, At

(* Every row an operation leaves is one. *)
LEMMA WrittenTyped ==
  ASSUME NEW x, NEW old,
         \/ Writing(x) /\ x.op \in {"create", "convert"}
         \/ (Writing(x) \/ Switching(x)) /\ old \in ItemRows
  PROVE  Written(x, old) \in ItemRows \cup {None}
<1>1. ASSUME NEW new \in Content
      PROVE  /\ new.text \in Texts /\ new.status \in {"Draft", "Published"} /\ new.ready \in BOOLEAN
             /\ Attached(new) \in SUBSET Resources
  BY <1>1, QueueAssumptions DEF ContentType, Attachments, Attached
<1>2. CASE Writing(x) /\ x.op \in {"create", "convert"}
  BY <1>1, <1>2 DEF Written, Writing, ItemRows, FirstPublishedAt
<1>3. CASE Writing(x) /\ x.op = "update" /\ old \in ItemRows
  BY <1>1, <1>3 DEF Written, Writing, ItemRows, FirstPublishedAt
<1>4. CASE Switching(x) /\ x.op = "publish" /\ old \in ItemRows
  BY <1>4 DEF Written, Switching, ItemRows, FirstPublishedAt
<1>5. CASE Switching(x) /\ x.op = "unpublish" /\ old \in ItemRows
  BY <1>5 DEF Written, Switching, ItemRows
<1>6. CASE Switching(x) /\ x.op = "delete"
  BY <1>6 DEF Written
<1> QED BY <1>2, <1>3, <1>4, <1>5, <1>6 DEF Writing, Switching

(* Every step keeps the types. *)
LEMMA TypeStep == TypeOK /\ [Next]_vars => TypeOK'
<1> SUFFICES ASSUME TypeOK, [Next]_vars PROVE TypeOK'
  OBVIOUS
<1>1. ASSUME NEW t \in Tx, Request(t) PROVE TypeOK'
  <2>1. PICK x : Arrives(t, x)
    BY <1>1, RequestArrives
  <2>2. left > 0
    BY <1>1 DEF Request
  <2> QED BY <2>1, <2>2, QueueAssumptions DEF Arrives, TypeOK, db
<1>2. ASSUME NEW t \in Tx, CheckSheet(t) PROVE TypeOK'
  <2>1. \/ Fail(t)
        \/ Moves(t, "duplicates") /\ UNCHANGED <<queue, items, left, day, late, locks>>
    BY <1>2 DEF CheckSheet, Goto, Moves, db
  <2>2. Queuing(tx[t]) /\ tx[t].op = "suggest"
    BY <1>2, Standing DEF CheckSheet, At
  <2> QED BY <2>1, <2>2, FailTyped, MoveTyped DEF TypeOK
<1>3. ASSUME NEW t \in Tx, CheckDuplicate(t) PROVE TypeOK'
  <2>1. \/ Fail(t)
        \/ Moves(t, "quota") /\ UNCHANGED <<queue, items, left, day, late, locks>>
    BY <1>3 DEF CheckDuplicate, Goto, Moves, db
  <2>2. Queuing(tx[t]) /\ tx[t].op = "suggest"
    BY <1>3, Standing DEF CheckDuplicate, At
  <2> QED BY <2>1, <2>2, FailTyped, MoveTyped DEF TypeOK
<1>4. ASSUME NEW t \in Tx, ConsumeQuota(t) PROVE TypeOK'
  <2>1. UNCHANGED <<queue, items, left, day, late>> /\ Queuing(tx[t]) /\ tx[t].op = "suggest"
    BY <1>4, Standing DEF ConsumeQuota, At, db
  <2>2. Release(t) \/ (Moves(t, "commit") /\ UNCHANGED locks)
    BY <1>4 DEF ConsumeQuota, Moves
  <2> QED BY <2>1, <2>2, ReleaseTyped, MoveTyped DEF TypeOK
<1>5. ASSUME NEW t \in Tx, LockQueued(t) PROVE TypeOK'
  <2>1. Fail(t) \/ (Moves(t, "commit") /\ locks' = [locks EXCEPT ![tx[t].q] = t])
    BY <1>5 DEF LockQueued, Goto, Moves
  <2>2. tx[t].op \in {"convert", "reject"}
    BY <1>5 DEF LockQueued
  <2>3. ~Fail(t) => UNCHANGED <<queue, items, left, day, late>>
    BY <1>5 DEF LockQueued, Goto, db
  <2>4. CASE Moves(t, "commit") /\ locks' = [locks EXCEPT ![tx[t].q] = t]
             /\ UNCHANGED <<queue, items, left, day, late>>
    <3>1. locks' \in [Questions \cup Items -> Tx \cup {None}]
      BY <2>4 DEF TypeOK
    <3>2. (Writing(tx[t]) /\ tx[t].op = "convert") \/ Rejecting(tx[t])
      BY <2>2, Standing
    <3> QED BY <2>4, <3>1, <3>2, MoveTyped
  <2> QED BY <2>1, <2>3, <2>4, FailTyped
<1>6. ASSUME NEW t \in Tx, NEW numbers, ConfirmImport(t, numbers) PROVE TypeOK'
  BY <1>6, FailTyped, ConfirmFields DEF OthersStay, TypeOK, db
<1>7. ASSUME NEW t \in Tx, CheckResources(t) PROVE TypeOK'
  <2>1. \/ Fail(t)
        \/ /\ Moves(t, IF tx[t].op = "create" THEN "commit" ELSE "lock")
           /\ UNCHANGED <<queue, items, left, day, late, locks>>
    BY <1>7 DEF CheckResources, Goto, Moves, db
  <2>2. Writing(tx[t]) /\ tx[t].op \in {"create", "update"}
    BY <1>7, Standing DEF CheckResources
  <2> QED BY <2>1, <2>2, FailTyped, MoveTyped DEF TypeOK
<1>8. ASSUME NEW t \in Tx, LockItem(t) PROVE TypeOK'
  <2>1. \/ Fail(t)
        \/ /\ Moves(t, "commit") /\ locks' = [locks EXCEPT ![tx[t].i] = t]
           /\ UNCHANGED <<queue, items, left, day, late>>
    BY <1>8 DEF LockItem, Goto, Moves, db
  <2>2. tx[t].op \in {"update", "delete", "publish"}
    BY <1>8 DEF LockItem
  <2>3. CASE /\ Moves(t, "commit") /\ locks' = [locks EXCEPT ![tx[t].i] = t]
             /\ UNCHANGED <<queue, items, left, day, late>>
    <3>1. locks' \in [Questions \cup Items -> Tx \cup {None}]
      BY <2>3 DEF TypeOK
    <3>2. \/ Writing(tx[t]) /\ tx[t].op = "update"
          \/ Switching(tx[t]) /\ tx[t].op \in {"delete", "publish"}
      BY <2>2, Standing
    <3> QED BY <2>3, <3>1, <3>2, MoveTyped
  <2> QED BY <2>1, <2>3, FailTyped
<1>9. ASSUME NEW t \in Tx, ReadStatus(t) PROVE TypeOK'
  <2>1. \/ Fail(t)
        \/ /\ Moves(t, IF Published(tx[t].i) THEN "write" ELSE "nothing")
           /\ UNCHANGED <<queue, items, left, day, late, locks>>
    BY <1>9 DEF ReadStatus, Goto, Moves, db
  <2>2. Switching(tx[t]) /\ tx[t].op = "unpublish"
    BY <1>9, Standing DEF ReadStatus, At
  <2> QED BY <2>1, <2>2, FailTyped, MoveTyped DEF TypeOK
<1>10. ASSUME NEW t \in Tx, WriteItem(t) PROVE TypeOK'
  <2>1. \/ Fail(t)
        \/ /\ Moves(t, "commit") /\ locks' = [locks EXCEPT ![tx[t].i] = t]
           /\ UNCHANGED <<queue, items, left, day, late>>
    BY <1>10 DEF WriteItem, Goto, Moves, db
  <2>2. Switching(tx[t]) /\ tx[t].op = "unpublish"
    BY <1>10, Standing DEF WriteItem, At
  <2> QED BY <2>1, <2>2, FailTyped, MoveTyped DEF TypeOK
<1>11. ASSUME NEW t \in Tx, CommitItem(t) PROVE TypeOK'
  BY <1>11, ReleaseTyped DEF CommitItem, End, TypeOK
<1>12. ASSUME NEW t \in Tx, CommitUnchanged(t) PROVE TypeOK'
  BY <1>12, FailTyped DEF CommitUnchanged
<1>13. ASSUME NEW t \in Tx, CommitQueued(t) PROVE TypeOK'
  BY <1>13, ReleaseTyped DEF CommitQueued, End, TypeOK
<1>14. ASSUME NEW t \in Tx, CommitImport(t) PROVE TypeOK'
  <2>1. /\ Release(t) /\ UNCHANGED <<items, left, day, late>>
        /\ queue' = [q \in Questions |-> queue'[q]]
    BY <1>14 DEF CommitImport, End
  <2> QED BY <2>1, ReleaseTyped DEF TypeOK
<1>15. ASSUME NEW t \in Tx, CommitDecision(t) PROVE TypeOK'
  BY <1>15, ReleaseTyped DEF CommitDecision, End, TypeOK
<1>16. ASSUME LastSecond \/ Midnight PROVE TypeOK'
  <2>1. UNCHANGED <<queue, items, left, tx, locks>>
    BY <1>16 DEF LastSecond, Midnight, db
  <2>2. day' \in Days /\ late' \in BOOLEAN /\ (late' => day' < LastDay)
    <3>1. day \in Nat /\ LastDay \in Nat /\ day <= LastDay /\ (late => day < LastDay)
      BY QueueAssumptions DEF TypeOK, Days
    <3>2. CASE LastSecond
      BY <3>1, <3>2 DEF LastSecond, Days
    <3>3. CASE Midnight
      <4>1. day' = day + 1 /\ late' = FALSE /\ late
        BY <3>3 DEF Midnight
      <4>2. day < LastDay
        BY <3>1, <4>1
      <4>3. day' \in 0 .. LastDay
        BY <3>1, <4>1, <4>2
      <4> QED BY <4>1, <4>3 DEF Days
    <3> QED BY <1>16, <3>2, <3>3
  <2> QED BY <2>1, <2>2 DEF TypeOK
<1>17. ASSUME UNCHANGED vars PROVE TypeOK'
  BY <1>17 DEF vars, TypeOK
<1> QED
  BY <1>1, <1>2, <1>3, <1>4, <1>5, <1>6, <1>7, <1>8, <1>9, <1>10, <1>11, <1>12, <1>13, <1>14,
     <1>15, <1>16, <1>17 DEF Next, Step

-----------------------------------------------------------------------------
(* A step of t takes no lock from another request. *)
KeepsLocks(t) ==
  \A r \in Questions \cup Items, u \in Tx \ {t} : locks[r] = u => locks'[r] = u

LEMMA ReleaseKeepsLocks ==
  ASSUME TypeOK, NEW t \in Tx, Release(t)
  PROVE  KeepsLocks(t)
BY ReleaseFields DEF KeepsLocks

LEMMA LockKeepsLocks ==
  ASSUME TypeOK, NEW t \in Tx, NEW r \in Questions \cup Items, locks[r] = None,
         locks' = [locks EXCEPT ![r] = t]
  PROVE  KeepsLocks(t) /\ locks'[r] = t
BY QueueAssumptions DEF KeepsLocks, TypeOK

(* A step of t that takes neither a lock nor a locked question from another
   request leaves the decisions of the others safe. *)
LEMMA DecisionKept ==
  ASSUME DecisionInv, TypeOK', NEW t \in Tx, OthersStay(t), KeepsLocks(t),
         \A q \in Questions : queue[q] # None /\ locks[q] \in Tx \ {t} => queue'[q] # None,
         FateTyped', OneDecision', DecisionSafe(t)'
  PROVE  DecisionInv'
<1>1. ASSUME NEW u \in Tx \ {t} PROVE DecisionSafe(u)'
  <2> SUFFICES ASSUME tx[u].op \in {"convert", "reject"}, tx[u].pc = "commit"
               PROVE  locks'[tx[u].q] = u /\ queue'[tx[u].q] # None
    BY DEF OthersStay, DecisionSafe, At
  <2>1. locks[tx[u].q] = u /\ queue[tx[u].q] # None
    BY DEF DecisionInv, DecisionSafe, At
  <2>2. tx[u].q \in Questions
    BY Standing DEF DecisionInv, Writing, Rejecting
  <2> QED BY <2>1, <2>2 DEF KeepsLocks
<1> QED BY <1>1 DEF DecisionInv

LEMMA DecisionUntouched ==
  ASSUME DecisionInv, TypeOK', NEW t \in Tx, OthersStay(t), KeepsLocks(t),
         UNCHANGED <<queue, fate>>, DecisionSafe(t)'
  PROVE  DecisionInv'
BY DecisionKept DEF DecisionInv, FateTyped, OneDecision

LEMMA FailDecision ==
  ASSUME DecisionInv, TypeOK', NEW t \in Tx, Fail(t)
  PROVE  DecisionInv'
<1>1. TypeOK /\ Release(t) /\ UNCHANGED <<queue, fate>>
  BY DEF Fail, db, DecisionInv
<1>2. DecisionSafe(t)'
  BY <1>1, ReleaseFields, IdleOK DEF DecisionSafe
<1> QED BY <1>1, <1>2, ReleaseFields, ReleaseKeepsLocks, DecisionUntouched

(* A move that is not a decision's *)
LEMMA MoveDecision ==
  ASSUME DecisionInv, TypeOK', NEW t \in Tx, NEW pc, Moves(t, pc), KeepsLocks(t),
         tx[t].op \notin {"convert", "reject"}, UNCHANGED <<queue, fate>>
  PROVE  DecisionInv'
<1>1. TypeOK
  BY DEF DecisionInv
<1>2. DecisionSafe(t)'
  BY <1>1, MoveFields DEF DecisionSafe
<1> QED BY <1>1, <1>2, MoveFields, DecisionUntouched

LEMMA SameLocks == ASSUME NEW t \in Tx, UNCHANGED locks PROVE KeepsLocks(t)
BY DEF KeepsLocks

LEMMA SecondDeed ==
  ASSUME NEW S, NEW s \in Seq(S), NEW e \in S, Len(s) = 1
  PROVE  Append(s, e) \in Seq(S) /\ Len(Append(s, e)) = 2
<1>1. Append(s, e) \in Seq(S)
  BY AppendProperties, Zenon
<1>2. Len(Append(s, e)) = Len(s) + 1
  BY AppendProperties, Zenon
<1> QED BY <1>1, <1>2

LEMMA DecisionStep == DecisionInv /\ [Next]_vars => DecisionInv'
<1> SUFFICES ASSUME DecisionInv, [Next]_vars PROVE DecisionInv'
  OBVIOUS
<1>0. TypeOK /\ TypeOK'
  BY TypeStep DEF DecisionInv
<1>1. ASSUME NEW t \in Tx, Request(t) PROVE DecisionInv'
  <2>1. PICK x : Arrives(t, x)
    BY <1>0, <1>1, RequestArrives
  <2>2. OthersStay(t) /\ tx'[t] = x /\ UNCHANGED <<locks, queue, fate>>
    BY <1>0, <2>1 DEF Arrives, OthersStay, TypeOK, db
  <2>3. DecisionSafe(t)'
    BY <2>1, <2>2 DEF Arrives, DecisionSafe, At
  <2> QED BY <1>0, <2>2, <2>3, SameLocks, DecisionUntouched
<1>2. ASSUME NEW t \in Tx, CheckSheet(t) \/ CheckDuplicate(t) \/ CheckResources(t) \/ ReadStatus(t)
      PROVE  DecisionInv'
  <2>1. Fail(t) \/ ((\E pc : Moves(t, pc)) /\ UNCHANGED <<queue, fate, locks>>)
    BY <1>2 DEF CheckSheet, CheckDuplicate, CheckResources, ReadStatus, Goto, Moves, db
  <2>2. tx[t].op \notin {"convert", "reject"}
    BY <1>0, <1>2, Standing DEF CheckSheet, CheckDuplicate, CheckResources, ReadStatus, At
  <2> QED BY <1>0, <2>1, <2>2, FailDecision, MoveDecision, SameLocks
<1>3. ASSUME NEW t \in Tx, ConsumeQuota(t) PROVE DecisionInv'
  <2>1. UNCHANGED <<queue, fate>> /\ tx[t].op = "suggest"
    BY <1>0, <1>3, Standing DEF ConsumeQuota, At, db
  <2>2. Release(t) \/ (Moves(t, "commit") /\ UNCHANGED locks)
    BY <1>3 DEF ConsumeQuota, Moves
  <2>3. CASE Release(t)
    <3>1. DecisionSafe(t)'
      BY <1>0, <2>3, ReleaseFields, IdleOK DEF DecisionSafe
    <3> QED BY <1>0, <2>1, <2>3, <3>1, ReleaseFields, ReleaseKeepsLocks, DecisionUntouched
  <2> QED BY <1>0, <2>1, <2>2, <2>3, MoveDecision, SameLocks
<1>4. ASSUME NEW t \in Tx, LockQueued(t) PROVE DecisionInv'
  <2>1. CASE Fail(t)
    BY <1>0, <2>1, FailDecision
  <2>2. CASE ~Fail(t)
    <3>1. /\ Moves(t, "commit") /\ locks' = [locks EXCEPT ![tx[t].q] = t] /\ locks[tx[t].q] = None
          /\ queue[tx[t].q] # None /\ UNCHANGED <<queue, fate>>
      BY <1>4, <2>2 DEF LockQueued, Goto, Moves, db
    <3>2. tx[t].q \in Questions
      BY <1>0, <1>4, Standing DEF LockQueued, Writing, Rejecting
    <3>3. KeepsLocks(t) /\ locks'[tx[t].q] = t
      BY <1>0, <3>1, <3>2, LockKeepsLocks
    <3>4. OthersStay(t) /\ tx'[t].q = tx[t].q
      BY <1>0, <3>1, MoveFields
    <3>5. DecisionSafe(t)'
      BY <3>1, <3>3, <3>4 DEF DecisionSafe
    <3> QED BY <1>0, <3>1, <3>3, <3>4, <3>5, DecisionUntouched
  <2> QED BY <2>1, <2>2
<1>5. ASSUME NEW t \in Tx, NEW numbers, ConfirmImport(t, numbers) PROVE DecisionInv'
  <2>1. CASE Fail(t)
    BY <1>0, <2>1, FailDecision
  <2>2. CASE ~Fail(t)
    <3>1. OthersStay(t) /\ tx'[t].op = "import" /\ UNCHANGED <<queue, fate, locks>>
      BY <1>0, <1>5, <2>2, ConfirmFields DEF db
    <3>2. DecisionSafe(t)'
      BY <3>1 DEF DecisionSafe
    <3> QED BY <1>0, <3>1, <3>2, SameLocks, DecisionUntouched
  <2> QED BY <2>1, <2>2
<1>6. ASSUME NEW t \in Tx, LockItem(t) \/ WriteItem(t) PROVE DecisionInv'
  <2>1. \/ Fail(t)
        \/ /\ Moves(t, "commit") /\ locks' = [locks EXCEPT ![tx[t].i] = t]
           /\ UNCHANGED <<queue, fate>>
    BY <1>6 DEF LockItem, WriteItem, Goto, Moves, db
  <2>2. /\ tx[t].i \in Items /\ tx[t].op \notin {"convert", "reject"}
        /\ locks[tx[t].i] = None
    BY <1>0, <1>6, Standing DEF LockItem, WriteItem, At, Writing, Switching
  <2> QED BY <1>0, <2>1, <2>2, FailDecision, MoveDecision, LockKeepsLocks
<1>7. ASSUME NEW t \in Tx, CommitItem(t) \/ CommitUnchanged(t) PROVE DecisionInv'
  <2>1. Release(t) /\ UNCHANGED <<queue, fate>>
    BY <1>7 DEF CommitItem, CommitUnchanged, End, Fail, db
  <2>2. DecisionSafe(t)'
    BY <1>0, <2>1, ReleaseFields, IdleOK DEF DecisionSafe
  <2> QED BY <1>0, <2>1, <2>2, ReleaseFields, ReleaseKeepsLocks, DecisionUntouched
<1>8. ASSUME NEW t \in Tx, CommitQueued(t) PROVE DecisionInv'
  <2>1. /\ Release(t) /\ queue' = [queue EXCEPT ![tx[t].q] = tx[t].params]
        /\ fate' = [fate EXCEPT ![tx[t].q] = <<tx[t].op>>] /\ tx[t].op \in {"suggest", "addQueued"}
    BY <1>8 DEF CommitQueued, End
  <2>2. tx[t].q \in Questions /\ tx[t].params # None
    BY <1>0, <2>1, Standing, QueueAssumptions DEF Queuing, Suggestions
  <2>3. DecisionSafe(t)'
    BY <1>0, <2>1, ReleaseFields, IdleOK DEF DecisionSafe
  <2>4. FateTyped' /\ OneDecision'
    BY <1>0, <2>1, <2>2 DEF DecisionInv, FateTyped, OneDecision, TypeOK, Deeds
  <2>5. \A q \in Questions : queue[q] # None => queue'[q] # None
    BY <1>0, <2>1, <2>2 DEF TypeOK
  <2> QED BY <1>0, <2>1, <2>3, <2>4, <2>5, ReleaseFields, ReleaseKeepsLocks, DecisionKept
<1>9. ASSUME NEW t \in Tx, CommitImport(t) PROVE DecisionInv'
  <2>1. PICK ids \in Injection(DOMAIN tx[t].rows, Questions) :
          /\ queue' = [q \in Questions |->
                         IF q \in Range(ids)
                         THEN tx[t].rows[CHOOSE k \in DOMAIN ids : ids[k] = q] ELSE queue[q]]
          /\ fate' = [q \in Questions |-> IF q \in Range(ids) THEN <<"import">> ELSE fate[q]]
    BY <1>9 DEF CommitImport
  <2>2. Release(t) /\ tx[t].op = "import" /\ tx[t].pc = "commit"
    BY <1>9 DEF CommitImport, End, At
  <2>3. \A k \in DOMAIN tx[t].rows : tx[t].rows[k] # None
    BY <1>0, <2>2, Standing DEF Importing
  <2>4. DOMAIN ids = DOMAIN tx[t].rows
    BY DEF Injection
  <2>5. ASSUME NEW q \in Range(ids) PROVE tx[t].rows[CHOOSE k \in DOMAIN ids : ids[k] = q] # None
    <3>1. \E k \in DOMAIN ids : ids[k] = q
      BY DEF Range
    <3>2. (CHOOSE k \in DOMAIN ids : ids[k] = q) \in DOMAIN ids
      BY <3>1
    <3> QED BY <2>3, <2>4, <3>2
  <2>6. \A q \in Questions : queue'[q] # None <=> (queue[q] # None \/ q \in Range(ids))
    BY <2>1, <2>5
  <2>7. FateTyped' /\ OneDecision'
    <3>1. \A q \in Questions : fate'[q] = IF q \in Range(ids) THEN <<"import">> ELSE fate[q]
      BY <2>1
    <3>2. <<"import">> \in Seq(Deeds)
          /\ Len(<<"import">>) = 1
      BY DEF Deeds
    <3>3. FateTyped'
      BY <2>1, <3>2 DEF DecisionInv, FateTyped
    <3>4. OneDecision'
      <4> SUFFICES ASSUME NEW q \in Questions
                   PROVE  Len(fate'[q]) <= 2 /\ (queue'[q] # None <=> Len(fate'[q]) = 1)
        BY DEF OneDecision
      <4>1. CASE q \in Range(ids)
        <5>1. Len(fate'[q]) = 1
          BY <3>1, <3>2, <4>1
        <5> QED BY <2>6, <4>1, <5>1
      <4>2. CASE q \notin Range(ids)
        BY <2>6, <3>1, <4>2 DEF DecisionInv, OneDecision
      <4> QED BY <4>1, <4>2
    <3> QED BY <3>3, <3>4
  <2>8. DecisionSafe(t)'
    BY <1>0, <2>2, ReleaseFields, IdleOK DEF DecisionSafe
  <2> QED BY <1>0, <2>2, <2>6, <2>7, <2>8, ReleaseFields, ReleaseKeepsLocks, DecisionKept
<1>10. ASSUME NEW t \in Tx, CommitDecision(t) PROVE DecisionInv'
  <2>1. /\ Release(t) /\ queue' = [queue EXCEPT ![tx[t].q] = None]
        /\ fate' = [fate EXCEPT ![tx[t].q] = Append(@, tx[t].op)]
        /\ tx[t].op \in {"convert", "reject"} /\ tx[t].pc = "commit"
    BY <1>10 DEF CommitDecision, End, At
  <2>2. locks[tx[t].q] = t /\ queue[tx[t].q] # None
    BY <2>1 DEF DecisionInv, DecisionSafe, At
  <2>3. tx[t].q \in Questions
    BY <1>0, <2>1, Standing DEF Writing, Rejecting
  <2>4. Len(fate[tx[t].q]) = 1 /\ fate[tx[t].q] \in Seq(Deeds)
    BY <2>2, <2>3 DEF DecisionInv, OneDecision, FateTyped
  <2>5. FateTyped' /\ OneDecision'
    <3>1. Append(fate[tx[t].q], tx[t].op) \in Seq(Deeds)
          /\ Len(Append(fate[tx[t].q], tx[t].op)) = 2
      <4>1. tx[t].op \in Deeds
        BY <2>1 DEF Deeds
      <4> QED BY <2>4, <4>1, SecondDeed, Zenon
    <3>2. fate' = [fate EXCEPT ![tx[t].q] = Append(fate[tx[t].q], tx[t].op)]
      BY <2>1
    <3>3. FateTyped'
      BY <3>1, <3>2 DEF DecisionInv, FateTyped
    <3>4. OneDecision'
      <4> SUFFICES ASSUME NEW q \in Questions
                   PROVE  Len(fate'[q]) <= 2 /\ (queue'[q] # None <=> Len(fate'[q]) = 1)
        BY DEF OneDecision
      <4>1. CASE q = tx[t].q
        <5>1. Len(fate'[q]) = 2
          BY <3>1, <3>2, <4>1 DEF DecisionInv, FateTyped
        <5>2. queue'[q] = None
          BY <1>0, <2>1, <4>1 DEF TypeOK
        <5> QED BY <5>1, <5>2
      <4>2. CASE q # tx[t].q
        <5>1. fate'[q] = fate[q] /\ queue'[q] = queue[q]
          BY <1>0, <2>1, <4>2 DEF DecisionInv, FateTyped, TypeOK
        <5> QED BY <5>1 DEF DecisionInv, OneDecision
      <4> QED BY <4>1, <4>2
    <3> QED BY <3>3, <3>4
  <2>6. \A q \in Questions : queue[q] # None /\ locks[q] \in Tx \ {t} => queue'[q] # None
    BY <1>0, <2>1, <2>2 DEF TypeOK
  <2>7. DecisionSafe(t)'
    BY <1>0, <2>1, ReleaseFields, IdleOK DEF DecisionSafe
  <2> QED BY <1>0, <2>1, <2>5, <2>6, <2>7, ReleaseFields, ReleaseKeepsLocks, DecisionKept
<1>11. ASSUME LastSecond \/ Midnight \/ UNCHANGED vars PROVE DecisionInv'
  <2>1. UNCHANGED <<queue, fate, locks, tx>>
    BY <1>11 DEF LastSecond, Midnight, vars, db
  <2> QED BY <1>0, <2>1 DEF DecisionInv, FateTyped, OneDecision, DecisionSafe, At
<1> QED
  BY <1>1, <1>2, <1>3, <1>4, <1>5, <1>6, <1>7, <1>8, <1>9, <1>10, <1>11 DEF Next, Step

-----------------------------------------------------------------------------
Creators == {"create", "convert"}
Changers == {"update", "delete", "publish", "unpublish"}

(* Matrix question i is request t's to write: it creates it, or is about to
   commit a change under its lock. *)
Owns(t, i) ==
  tx[t].i = i /\ (tx[t].op \in Creators \/ (tx[t].op \in Changers /\ At(t, "commit")))

(* A step of t that writes no question but its own, removes no resource and
   starts no creation but of a new question keeps what the others rely on. *)
LEMMA ItemsKept ==
  ASSUME ItemsInv, TypeOK', NEW t \in Tx, OthersStay(t), KeepsLocks(t),
         resources \subseteq resources',
         \A i \in Items : items'[i] = items[i] \/ Owns(t, i),
         tx'[t].op \in Creators =>
           (tx[t].op \in Creators /\ tx'[t].i = tx[t].i) \/ FreshItem(tx'[t].i),
         CreationSafe(t)', ChangeSafe(t)', ItemsTyped', LinksExist', PublishedComplete'
  PROVE  ItemsInv'
<1>1. ASSUME NEW u \in Tx \ {t} PROVE CreationSafe(u)'
  <2> SUFFICES ASSUME tx[u].op \in Creators
               PROVE  /\ items'[tx[u].i] = None
                      /\ \A v \in Tx \ {u} : tx'[v].op \in Creators => tx'[v].i # tx[u].i
                      /\ tx[u].pc = "commit" =>
                           PublicReady(tx[u].new) /\ tx[u].new.links.attach \subseteq resources'
    BY DEF OthersStay, CreationSafe, Creators, At, ResourcesExist
  <2>1. CreationSafe(u) /\ CreationSafe(t) /\ ChangeSafe(t) /\ TypeOK
    BY DEF ItemsInv
  <2>2. tx[u].i \in Items
    BY <2>1, Standing DEF Writing, Creators
  <2>3. items[tx[u].i] = None /\ \A v \in Tx \ {u} : tx[v].op \in Creators => tx[v].i # tx[u].i
    BY <2>1 DEF CreationSafe, Creators
  <2>4. ~Owns(t, tx[u].i)
    BY <2>1, <2>3 DEF Owns, ChangeSafe, Changers, At
  <2>5. items'[tx[u].i] = None
    BY <2>2, <2>3, <2>4
  <2>6. ASSUME NEW v \in Tx \ {u}, tx'[v].op \in Creators PROVE tx'[v].i # tx[u].i
    <3>1. CASE v = t
      BY <2>3, <2>6, <3>1 DEF FreshItem
    <3>2. CASE v # t
      BY <2>3, <2>6, <3>2 DEF OthersStay
    <3> QED BY <3>1, <3>2
  <2>7. tx[u].pc = "commit" => PublicReady(tx[u].new) /\ tx[u].new.links.attach \subseteq resources'
    BY <2>1 DEF CreationSafe, Creators, At, ResourcesExist
  <2> QED BY <2>5, <2>6, <2>7
<1>2. ASSUME NEW u \in Tx \ {t} PROVE ChangeSafe(u)'
  <2>1. ChangeSafe(u) /\ CreationSafe(t) /\ ChangeSafe(t) /\ TypeOK
    BY DEF ItemsInv
  <2>2. tx'[u] = tx[u]
    BY DEF OthersStay
  <2>3. ASSUME tx[u].op \in Changers, tx[u].pc = "commit"
        PROVE  locks'[tx[u].i] = u /\ items'[tx[u].i] = items[tx[u].i]
    <3>1. locks[tx[u].i] = u /\ items[tx[u].i] # None
      BY <2>1, <2>3 DEF ChangeSafe, Changers
    <3>2. tx[u].i \in Items
      BY <2>1, <2>3, Standing DEF Writing, Switching, Changers
    <3>3. ~Owns(t, tx[u].i)
      BY <2>1, <3>1 DEF Owns, ChangeSafe, CreationSafe, Changers, Creators, At
    <3> QED BY <3>1, <3>2, <3>3 DEF KeepsLocks
  <2>4. tx[u].op = "update" /\ tx[u].pc # "resources" => tx[u].new.links.attach \subseteq resources'
    BY <2>1 DEF ChangeSafe, ResourcesExist
  <2> QED BY <2>1, <2>2, <2>3, <2>4 DEF ChangeSafe, Changers, Allowed, ResourcesExist
<1> QED BY <1>1, <1>2 DEF ItemsInv

LEMMA ItemsUntouched ==
  ASSUME ItemsInv, TypeOK', NEW t \in Tx, OthersStay(t), KeepsLocks(t),
         UNCHANGED <<items, resources>>,
         tx'[t].op \in Creators =>
           (tx[t].op \in Creators /\ tx'[t].i = tx[t].i) \/ FreshItem(tx'[t].i),
         CreationSafe(t)', ChangeSafe(t)'
  PROVE  ItemsInv'
<1>1. ItemsTyped' /\ LinksExist' /\ PublishedComplete'
  BY DEF ItemsInv, ItemsTyped, LinksExist, PublishedComplete, Published
<1> QED BY <1>1, ItemsKept

LEMMA ReleaseItems ==
  ASSUME ItemsInv, TypeOK', NEW t \in Tx, Release(t), UNCHANGED <<items, resources>>
  PROVE  ItemsInv'
<1>1. TypeOK
  BY DEF ItemsInv
<1>2. CreationSafe(t)' /\ ChangeSafe(t)' /\ tx'[t].op \notin Creators
  BY <1>1, ReleaseFields, IdleOK DEF CreationSafe, ChangeSafe, Creators
<1> QED BY <1>1, <1>2, ReleaseFields, ReleaseKeepsLocks, ItemsUntouched

(* The row that a request leaves when it commits: it is complete if it is
   published, its resources exist, its first date stays, and without the
   permission to publish nothing public is touched. *)
LEMMA WrittenRow ==
  ASSUME ItemsInv, NEW t \in Tx, At(t, "commit"), tx[t].op \in Creators \cup Changers,
         NEW row, row = Written(tx[t], items[tx[t].i])
  PROVE  /\ tx[t].i \in Items /\ row \in ItemRows \cup {None}
         /\ resources \subseteq Merged(tx[t])
         /\ row # None => row.resources \subseteq Merged(tx[t])
         /\ row # None /\ row.status = "Published" => row.ready /\ row.at # None
         /\ items[tx[t].i] # None /\ items[tx[t].i].at # None /\ row # None
              => row.at = items[tx[t].i].at
         /\ ~tx[t].may => /\ row # None => row.status # "Published"
                          /\ ~Published(tx[t].i)
<1> DEFINE x == tx[t]
           old == items[x.i]
<1>0. TypeOK /\ ItemsTyped /\ LinksExist /\ PublishedComplete /\ CreationSafe(t) /\ ChangeSafe(t)
      /\ x.pc = "commit"
  BY DEF ItemsInv, At
<1>1. x.op \in {"create", "convert", "update"} => Writing(x)
  BY <1>0, Standing
<1>2. x.op \in {"delete", "publish", "unpublish"} => Switching(x)
  BY <1>0, Standing
<1>3. x.i \in Items /\ old \in ItemRows \cup {None}
  BY <1>0, <1>1, <1>2 DEF Writing, Switching, Creators, Changers, ItemsTyped
<1>4. ASSUME Writing(x) PROVE Merged(x) = resources \cup Attached(x.new)
  BY <1>4, QueueAssumptions DEF Writing, Merged
<1>5. resources \subseteq Merged(x)
  BY DEF Merged
<1>a. None \notin Nat
  BY QueueAssumptions
<1>b. old # None => old \in ItemRows
  BY <1>3
<1>6. CASE x.op \in Creators
  <2>1. Writing(x) /\ old = None /\ PublicReady(x.new) /\ (x.may \/ x.new.status # "Published")
    BY <1>0, <1>1, <1>6 DEF Creators, CreationSafe, At, Writing
  <2>2. row = [text |-> x.new.text, status |-> x.new.status, ready |-> x.new.ready,
               resources |-> Attached(x.new), at |-> FirstPublishedAt(x.new.status, None, x.at)]
    BY <1>6 DEF Creators, Written
  <2>3. row \in ItemRows \cup {None}
    BY <1>6, <2>1, WrittenTyped DEF Creators
  <2>4. row.status = x.new.status /\ row.ready = x.new.ready /\ row.resources = Attached(x.new)
        /\ row.at = FirstPublishedAt(x.new.status, None, x.at)
    BY <2>2
  <2>5. row.status = "Published" => row.at # None
    BY <1>a, <2>1, <2>4 DEF FirstPublishedAt, Writing
  <2> QED BY <1>3, <1>4, <1>5, <2>1, <2>3, <2>4, <2>5 DEF PublicReady, Published
<1>7. CASE x.op = "update"
  <2>1. Writing(x) /\ old # None /\ PublicReady(x.new) /\ Allowed(t, {old.status, x.new.status})
    BY <1>0, <1>1, <1>7 DEF ChangeSafe
  <2>2. row = [old EXCEPT !.text = x.new.text, !.status = x.new.status, !.ready = x.new.ready,
                          !.resources = Attached(x.new),
                          !.at = FirstPublishedAt(x.new.status, @, x.at)]
    BY <1>7 DEF Written
  <2>3. row \in ItemRows \cup {None}
    BY <1>b, <2>1, WrittenTyped
  <2>4. row.status = x.new.status /\ row.ready = x.new.ready /\ row.resources = Attached(x.new)
        /\ row.at = FirstPublishedAt(x.new.status, old.at, x.at)
    BY <1>b, <2>1, <2>2 DEF ItemRows
  <2>5. row.status = "Published" => row.at # None
    BY <1>a, <2>1, <2>4 DEF FirstPublishedAt, Writing
  <2>6. old.at # None => row.at = old.at
    BY <2>4 DEF FirstPublishedAt
  <2>7. ~x.may => row.status # "Published" /\ old.status # "Published"
    BY <2>1, <2>4 DEF Allowed
  <2> QED BY <1>3, <1>4, <1>5, <2>1, <2>3, <2>4, <2>5, <2>6, <2>7 DEF PublicReady, Published
<1>8. CASE x.op = "publish"
  <2>1. Switching(x) /\ old # None /\ old.ready /\ x.may /\ x.at \in Nat
    BY <1>0, <1>2, <1>8 DEF ChangeSafe, Switching
  <2>2. row = [old EXCEPT !.status = "Published", !.at = FirstPublishedAt("Published", @, x.at)]
    BY <1>8 DEF Written
  <2>3. row \in ItemRows \cup {None}
    BY <1>b, <2>1, WrittenTyped
  <2>4. row.ready = old.ready /\ row.resources = old.resources
        /\ row.at = FirstPublishedAt("Published", old.at, x.at)
    BY <1>b, <2>1, <2>2 DEF ItemRows
  <2>5. row.at # None /\ (old.at # None => row.at = old.at)
    BY <1>a, <2>1, <2>4 DEF FirstPublishedAt
  <2>6. old.resources \subseteq resources
    BY <1>0, <1>3, <2>1 DEF LinksExist
  <2> QED BY <1>3, <1>5, <2>1, <2>3, <2>4, <2>5, <2>6
<1>9. CASE x.op = "unpublish"
  <2>1. Switching(x) /\ old # None /\ x.may
    BY <1>0, <1>2, <1>9 DEF ChangeSafe, Switching
  <2>2. row = [old EXCEPT !.status = "Draft"]
    BY <1>9 DEF Written
  <2>3. row \in ItemRows \cup {None}
    BY <1>b, <2>1, WrittenTyped
  <2>4. row.status = "Draft" /\ row.resources = old.resources /\ row.at = old.at
    BY <1>b, <2>1, <2>2 DEF ItemRows
  <2>5. old.resources \subseteq resources
    BY <1>0, <1>3, <2>1 DEF LinksExist
  <2> QED BY <1>3, <1>5, <2>1, <2>3, <2>4, <2>5
<1>10. CASE x.op = "delete"
  <2>1. row = None
    BY <1>10 DEF Written
  <2>2. ~x.may => ~Published(x.i)
    BY <1>0, <1>10 DEF ChangeSafe, Allowed, Published
  <2> QED BY <1>3, <1>5, <2>1, <2>2
<1> QED BY <1>6, <1>7, <1>8, <1>9, <1>10 DEF Creators, Changers

(* create_item, update_item, delete_item, switch_item_publish_status and the
   conversion of a queued question commit one row. *)
WritesRow(t) ==
  /\ At(t, "commit") /\ tx[t].op \in Creators \cup Changers
  /\ items' = [items EXCEPT ![tx[t].i] = Written(tx[t], items[tx[t].i])]
  /\ resources' = Merged(tx[t])
  /\ Release(t)

LEMMA CommitWrites ==
  ASSUME ItemsInv, NEW t \in Tx,
         CommitItem(t) \/ (CommitDecision(t) /\ tx[t].op = "convert")
  PROVE  WritesRow(t)
<1>1. CASE CommitItem(t)
  BY <1>1 DEF CommitItem, End, WritesRow, Creators, Changers
<1>2. CASE CommitDecision(t) /\ tx[t].op = "convert"
  <2>1. items[tx[t].i] = None
    BY <1>2 DEF ItemsInv, CreationSafe
  <2> QED BY <1>2, <2>1 DEF CommitDecision, End, WritesRow, Creators
<1> QED BY <1>1, <1>2

LEMMA WritesRowItems ==
  ASSUME ItemsInv, TypeOK', NEW t \in Tx, WritesRow(t)
  PROVE  ItemsInv'
<1> DEFINE row == Written(tx[t], items[tx[t].i])
<1>1. TypeOK /\ ItemsTyped /\ LinksExist /\ PublishedComplete
  BY DEF ItemsInv
<1>2. /\ tx[t].i \in Items /\ row \in ItemRows \cup {None}
      /\ resources \subseteq resources'
      /\ row # None => row.resources \subseteq resources'
      /\ row # None /\ row.status = "Published" => row.ready /\ row.at # None
  BY WrittenRow DEF WritesRow
<1>3. /\ items' = [items EXCEPT ![tx[t].i] = row] /\ Release(t)
      /\ Owns(t, tx[t].i)
  BY DEF WritesRow, Owns
<1> HIDE DEF row
<1>4. ItemsTyped'
  BY <1>1, <1>2, <1>3 DEF ItemsTyped
<1>5. \A i \in Items : items'[i] = IF i = tx[t].i THEN row ELSE items[i]
  BY <1>1, <1>3 DEF ItemsTyped
<1>6. LinksExist'
  BY <1>1, <1>2, <1>5 DEF LinksExist
<1>7. PublishedComplete'
  BY <1>1, <1>2, <1>5, <1>6 DEF PublishedComplete, Published, LinksExist
<1>8. CreationSafe(t)' /\ ChangeSafe(t)' /\ tx'[t].op \notin Creators
  BY <1>1, <1>3, ReleaseFields, IdleOK DEF CreationSafe, ChangeSafe, Creators
<1>9. OthersStay(t) /\ KeepsLocks(t)
  BY <1>1, <1>3, ReleaseFields, ReleaseKeepsLocks
<1> QED BY <1>2, <1>3, <1>4, <1>5, <1>6, <1>7, <1>8, <1>9, ItemsKept

LEMMA FailItems ==
  ASSUME ItemsInv, TypeOK', NEW t \in Tx, Fail(t)
  PROVE  ItemsInv'
BY ReleaseItems DEF Fail, db

LEMMA ItemsStep == ItemsInv /\ [Next]_vars => ItemsInv'
<1> SUFFICES ASSUME ItemsInv, [Next]_vars PROVE ItemsInv'
  OBVIOUS
<1>0. TypeOK /\ TypeOK'
  BY TypeStep DEF ItemsInv
<1>1. ASSUME NEW t \in Tx, Request(t) PROVE ItemsInv'
  <2>1. PICK x : Arrives(t, x)
    BY <1>0, <1>1, RequestArrives
  <2>2. OthersStay(t) /\ tx'[t] = x /\ UNCHANGED <<locks, items, resources>>
    BY <1>0, <2>1 DEF Arrives, OthersStay, TypeOK, db
  <2>3. x.op \in Creators => items[x.i] = None /\ \A u \in Tx : tx[u].i # x.i
    BY <2>1 DEF Arrives, FreshItem, Creators
  <2>4. CreationSafe(t)'
    BY <2>1, <2>2, <2>3 DEF CreationSafe, Arrives, At, Creators, OthersStay
  <2>5. ChangeSafe(t)'
    BY <2>1, <2>2 DEF ChangeSafe, Arrives
  <2>6. x.op \in Creators => FreshItem(x.i)
    BY <2>3 DEF FreshItem
  <2> QED BY <1>0, <2>2, <2>4, <2>5, <2>6, SameLocks, ItemsUntouched
<1>2. ASSUME NEW t \in Tx, CheckSheet(t) \/ CheckDuplicate(t) \/ ConsumeQuota(t) \/ ReadStatus(t)
      PROVE  ItemsInv'
  <2>1. /\ UNCHANGED <<items, resources>>
        /\ \/ Release(t)
           \/ \E pc : pc # "commit" /\ Moves(t, pc) /\ UNCHANGED locks
           \/ tx[t].op = "suggest" /\ Moves(t, "commit") /\ UNCHANGED locks
    <3>1. CASE CheckSheet(t)
      BY <3>1 DEF CheckSheet, Fail, Goto, Moves, db
    <3>2. CASE CheckDuplicate(t)
      BY <3>2 DEF CheckDuplicate, Fail, Goto, Moves, db
    <3>3. CASE ConsumeQuota(t)
      BY <1>0, <3>3, Standing DEF ConsumeQuota, Moves, db, At
    <3>4. CASE ReadStatus(t)
      <4>1. \/ Release(t)
            \/ /\ Moves(t, IF Published(tx[t].i) THEN "write" ELSE "nothing")
               /\ UNCHANGED locks
        BY <3>4 DEF ReadStatus, Fail, Goto, Moves
      <4>2. UNCHANGED <<items, resources>>
        BY <3>4 DEF ReadStatus, Fail, Goto, db
      <4>3. (IF Published(tx[t].i) THEN "write" ELSE "nothing") # "commit"
        OBVIOUS
      <4> QED BY <4>1, <4>2, <4>3
    <3> QED BY <1>2, <3>1, <3>2, <3>3, <3>4
  <2>2. tx[t].op \in {"suggest", "unpublish"}
    BY <1>0, <1>2, Standing DEF CheckSheet, CheckDuplicate, ConsumeQuota, ReadStatus, At
  <2>3. CASE Release(t)
    BY <1>0, <2>1, <2>3, ReleaseItems
  <2>4. ASSUME NEW pc, Moves(t, pc), UNCHANGED locks, pc # "commit" \/ tx[t].op = "suggest"
        PROVE  ItemsInv'
    <3>1. OthersStay(t) /\ tx'[t].op = tx[t].op /\ tx'[t].pc = pc
      BY <1>0, <2>4, MoveFields
    <3>2. CreationSafe(t)' /\ ChangeSafe(t)' /\ tx'[t].op \notin Creators
      BY <2>2, <2>4, <3>1 DEF CreationSafe, ChangeSafe, Creators
    <3> QED BY <1>0, <2>1, <2>4, <3>1, <3>2, SameLocks, ItemsUntouched
  <2> QED BY <2>1, <2>3, <2>4
<1>3. ASSUME NEW t \in Tx, LockQueued(t) PROVE ItemsInv'
  <2>1. CASE Fail(t)
    BY <1>0, <2>1, FailItems
  <2>2. CASE ~Fail(t)
    <3>1. /\ Moves(t, "commit") /\ locks' = [locks EXCEPT ![tx[t].q] = t] /\ locks[tx[t].q] = None
          /\ UNCHANGED <<items, resources>>
          /\ tx[t].op \in {"convert", "reject"}
          /\ tx[t].op = "convert" => ~Unacceptable(tx[t].new)
      BY <1>3, <2>2 DEF LockQueued, Goto, Moves, db
    <3>2. tx[t].q \in Questions
      BY <1>0, <3>1, Standing DEF Writing, Rejecting
    <3>3. /\ OthersStay(t) /\ tx'[t].op = tx[t].op /\ tx'[t].i = tx[t].i /\ tx'[t].new = tx[t].new
          /\ KeepsLocks(t)
      BY <1>0, <3>1, <3>2, MoveFields, LockKeepsLocks
    <3>4. CreationSafe(t)
      BY DEF ItemsInv
    <3>5. CreationSafe(t)'
      BY <3>1, <3>3, <3>4 DEF CreationSafe, Unacceptable, OthersStay, ResourcesExist
    <3>6. ChangeSafe(t)'
      BY <3>1, <3>3 DEF ChangeSafe
    <3> QED BY <1>0, <3>1, <3>3, <3>5, <3>6, ItemsUntouched
  <2> QED BY <2>1, <2>2
<1>4. ASSUME NEW t \in Tx, NEW numbers, ConfirmImport(t, numbers) PROVE ItemsInv'
  <2>1. CASE Fail(t)
    BY <1>0, <2>1, FailItems
  <2>2. CASE ~Fail(t)
    <3>1. OthersStay(t) /\ tx'[t].op = "import" /\ UNCHANGED <<items, resources, locks>>
      BY <1>0, <1>4, <2>2, ConfirmFields DEF db
    <3>2. CreationSafe(t)' /\ ChangeSafe(t)' /\ tx'[t].op \notin Creators
      BY <3>1 DEF CreationSafe, ChangeSafe, Creators
    <3> QED BY <1>0, <3>1, <3>2, SameLocks, ItemsUntouched
  <2> QED BY <2>1, <2>2
<1>5. ASSUME NEW t \in Tx, CheckResources(t) PROVE ItemsInv'
  <2>1. CASE Fail(t)
    BY <1>0, <2>1, FailItems
  <2>2. CASE ~Fail(t)
    <3>1. /\ Moves(t, IF tx[t].op = "create" THEN "commit" ELSE "lock")
          /\ UNCHANGED <<items, resources, locks>>
          /\ ResourcesExist(tx[t].new)
          /\ tx[t].op = "create" => PublicReady(tx[t].new)
      BY <1>5, <2>2 DEF CheckResources, Goto, Moves, db
    <3>2. tx[t].op \in {"create", "update"}
      BY <1>0, <1>5, Standing DEF CheckResources
    <3>3. /\ OthersStay(t) /\ tx'[t].op = tx[t].op /\ tx'[t].i = tx[t].i /\ tx'[t].new = tx[t].new
          /\ tx'[t].pc = IF tx[t].op = "create" THEN "commit" ELSE "lock"
      BY <1>0, <3>1, MoveFields
    <3>4. CreationSafe(t)
      BY DEF ItemsInv
    <3>5. CreationSafe(t)'
      BY <3>1, <3>2, <3>3, <3>4 DEF CreationSafe, OthersStay, ResourcesExist
    <3>6. ChangeSafe(t)'
      BY <3>1, <3>2, <3>3 DEF ChangeSafe, ResourcesExist
    <3> QED BY <1>0, <3>1, <3>3, <3>5, <3>6, SameLocks, ItemsUntouched
  <2> QED BY <2>1, <2>2
<1>6. ASSUME NEW t \in Tx, LockItem(t) \/ WriteItem(t) PROVE ItemsInv'
  <2>1. CASE Fail(t)
    BY <1>0, <2>1, FailItems
  <2>2. CASE ~Fail(t)
    <3>1. /\ Moves(t, "commit") /\ locks' = [locks EXCEPT ![tx[t].i] = t] /\ locks[tx[t].i] = None
          /\ UNCHANGED <<items, resources>>
      BY <1>6, <2>2 DEF LockItem, WriteItem, Goto, Moves, db
    <3>2. /\ tx[t].i \in Items /\ tx[t].op \in Changers
          /\ tx[t].op = "update" => tx[t].pc # "resources"
      BY <1>0, <1>6, Standing DEF LockItem, WriteItem, At, Writing, Switching, Changers
    <3>3. /\ items[tx[t].i] # None
          /\ tx[t].op = "update" => /\ Allowed(t, {items[tx[t].i].status, tx[t].new.status})
                                    /\ PublicReady(tx[t].new)
          /\ tx[t].op = "delete" => Allowed(t, {items[tx[t].i].status})
          /\ tx[t].op = "publish" => items[tx[t].i].ready
      <4>1. CASE LockItem(t)
        BY <2>2, <4>1 DEF LockItem, Refused
      <4>2. CASE WriteItem(t)
        <5>1. tx[t].op = "unpublish"
          BY <1>0, <4>2, Standing DEF WriteItem, At
        <5> QED BY <2>2, <4>2, <5>1 DEF WriteItem
      <4> QED BY <1>6, <4>1, <4>2
    <3>4. /\ OthersStay(t) /\ tx'[t].op = tx[t].op /\ tx'[t].i = tx[t].i /\ tx'[t].new = tx[t].new
          /\ tx'[t].may = tx[t].may
          /\ KeepsLocks(t) /\ locks'[tx[t].i] = t
      BY <1>0, <3>1, <3>2, MoveFields, LockKeepsLocks
    <3>5. ChangeSafe(t)
      BY DEF ItemsInv
    <3>6. ChangeSafe(t)'
      BY <3>1, <3>2, <3>3, <3>4, <3>5 DEF ChangeSafe, ResourcesExist, Allowed
    <3>7. CreationSafe(t)' /\ tx'[t].op \notin Creators
      BY <3>2, <3>4 DEF CreationSafe, Creators, Changers
    <3> QED BY <1>0, <3>1, <3>4, <3>6, <3>7, ItemsUntouched
  <2> QED BY <2>1, <2>2
<1>7. ASSUME NEW t \in Tx, CommitUnchanged(t) PROVE ItemsInv'
  BY <1>0, <1>7, FailItems DEF CommitUnchanged
<1>8. ASSUME NEW t \in Tx, CommitItem(t) \/ (CommitDecision(t) /\ tx[t].op = "convert")
      PROVE  ItemsInv'
  BY <1>0, <1>8, CommitWrites, WritesRowItems
<1>9. ASSUME NEW t \in Tx,
             CommitQueued(t) \/ CommitImport(t) \/ (CommitDecision(t) /\ tx[t].op # "convert")
      PROVE  ItemsInv'
  <2>1. CASE CommitQueued(t) \/ CommitImport(t)
    BY <1>0, <2>1, ReleaseItems DEF CommitQueued, CommitImport, End
  <2>2. CASE CommitDecision(t) /\ tx[t].op # "convert"
    <3>1. tx[t].new = None
      BY <1>0, <2>2, Standing DEF CommitDecision, Rejecting
    <3> QED BY <1>0, <2>2, <3>1, ReleaseItems DEF CommitDecision, End, Merged
  <2> QED BY <1>9, <2>1, <2>2
<1>10. ASSUME LastSecond \/ Midnight \/ UNCHANGED vars PROVE ItemsInv'
  <2>1. UNCHANGED <<items, resources, locks, tx>>
    BY <1>10 DEF LastSecond, Midnight, vars, db
  <2> QED BY <1>0, <2>1 DEF ItemsInv, ItemsTyped, LinksExist, PublishedComplete, Published,
                            CreationSafe, ChangeSafe, Allowed, ResourcesExist, At
<1> QED
  BY <1>1, <1>2, <1>3, <1>4, <1>5, <1>6, <1>7, <1>8, <1>9, <1>10 DEF Next, Step

-----------------------------------------------------------------------------
LEMMA TypeInit == Init => TypeOK
<1> SUFFICES ASSUME Init PROVE TypeOK
  OBVIOUS
<1>1. tx = [t \in Tx |-> Idle]
  BY DEF Init
<1>2. tx = [t \in Tx |-> tx[t]] /\ \A t \in Tx : LocalOK(tx[t])
  BY <1>1, IdleOK
<1>3. items = [i \in Items |-> items[i]]
  <2>1. PICK i \in Items :
          items = [j \in Items |-> IF j = i THEN [text |-> StartText, status |-> "Published",
                                                  ready |-> TRUE, at |-> 0, resources |-> {}]
                                   ELSE None]
    BY DEF Init
  <2> QED BY <2>1
<1>4. left \in 0 .. MaxRequests /\ day \in Days /\ late \in BOOLEAN /\ (late => day < LastDay)
  <2>1. left = MaxRequests /\ day = 0 /\ late = FALSE
    BY DEF Init
  <2>2. LastDay \in Nat /\ MaxRequests \in Nat
    BY QueueAssumptions
  <2>3. left \in 0 .. MaxRequests /\ day \in 0 .. LastDay
    BY <2>1, <2>2
  <2> QED BY <2>1, <2>3 DEF Days
<1>5. queue = [q \in Questions |-> queue[q]] /\ locks \in [Questions \cup Items -> Tx \cup {None}]
  BY DEF Init
<1> QED BY <1>2, <1>3, <1>4, <1>5 DEF TypeOK

(* get_queued_question(lock=True): for any number of moderators deciding about
   a queued question at the same time, and whatever is imported and suggested
   meanwhile, one decision commits; the question stands in the queue exactly
   until then. *)
THEOREM OneDecisionHolds == Spec => []OneDecision
<1>1. Init => DecisionInv
  <2> SUFFICES ASSUME Init PROVE DecisionInv
    OBVIOUS
  <2>1. \A t \in Tx : tx[t].op = "none"
    BY IdleOK DEF Init
  <2>2. \A t \in Tx : DecisionSafe(t)
    BY <2>1 DEF DecisionSafe
  <2>3. FateTyped /\ OneDecision
    BY DEF Init, FateTyped, OneDecision
  <2> QED BY <2>2, <2>3, TypeInit DEF DecisionInv
<1>2. DecisionInv => OneDecision
  BY DEF DecisionInv
<1> QED BY <1>1, <1>2, DecisionStep, PTL DEF Spec

LEMMA ItemsInvariant == Spec => []ItemsInv
<1>1. Init => ItemsInv
  <2> SUFFICES ASSUME Init PROVE ItemsInv
    OBVIOUS
  <2>1. \A t \in Tx : tx[t].op = "none"
    BY IdleOK DEF Init
  <2>2. \A t \in Tx : CreationSafe(t) /\ ChangeSafe(t)
    BY <2>1 DEF CreationSafe, ChangeSafe
  <2>3. PICK i \in Items :
          items = [j \in Items |-> IF j = i THEN [text |-> StartText, status |-> "Published",
                                                  ready |-> TRUE, at |-> 0, resources |-> {}]
                                   ELSE None]
    BY DEF Init
  <2>4. ItemsTyped
    BY <2>3, QueueAssumptions DEF ItemsTyped, ItemRows
  <2>5. LinksExist /\ PublishedComplete
    BY <2>3, QueueAssumptions DEF LinksExist, PublishedComplete, Published
  <2> QED BY <2>2, <2>4, <2>5, TypeInit DEF ItemsInv
<1> QED BY <1>1, ItemsStep, PTL DEF Spec

(* ensure_public_ready and all_resources_exists_by_ids: for any number of
   concurrent creations, conversions, updates, deletions and publications, a
   published question of the matrix has its publication fields, a date and
   resources that exist. *)
THEOREM PublishedCompleteHolds == Spec => []PublishedComplete
<1>1. ItemsInv => PublishedComplete
  BY DEF ItemsInv
<1> QED BY <1>1, ItemsInvariant, PTL

(* The matrix changes by the commit of one row only. *)
LEMMA RowsChange ==
  ASSUME ItemsInv, [Next]_vars
  PROVE  UNCHANGED items \/ \E t \in Tx : WritesRow(t)
<1>1. ASSUME NEW t \in Tx, Request(t) PROVE UNCHANGED items
  <2>1. PICK x : Arrives(t, x)
    BY <1>1, RequestArrives DEF ItemsInv
  <2> QED BY <2>1 DEF Arrives, db
<1>2. ASSUME NEW t \in Tx, Step(t), ~UNCHANGED items PROVE WritesRow(t)
  <2>1. CommitItem(t) \/ (CommitDecision(t) /\ tx[t].op = "convert")
    <3>1. ~(CheckSheet(t) \/ CheckDuplicate(t) \/ ConsumeQuota(t) \/ LockQueued(t))
      BY <1>2 DEF CheckSheet, CheckDuplicate, ConsumeQuota, LockQueued, Goto, Fail, db
    <3>2. ~\E numbers \in Selections(tx[t].preview) : ConfirmImport(t, numbers)
      BY <1>2 DEF ConfirmImport, Fail, db
    <3>3. ~(CheckResources(t) \/ LockItem(t) \/ ReadStatus(t) \/ WriteItem(t) \/ CommitUnchanged(t))
      BY <1>2 DEF CheckResources, LockItem, ReadStatus, WriteItem, CommitUnchanged, Goto, Fail, db
    <3>4. ~(CommitQueued(t) \/ CommitImport(t))
      BY <1>2 DEF CommitQueued, CommitImport
    <3>5. CommitDecision(t) => tx[t].op = "convert"
      BY <1>2 DEF CommitDecision
    <3> QED BY <1>2, <3>1, <3>2, <3>3, <3>4, <3>5 DEF Step
  <2> QED BY <2>1, CommitWrites
<1>3. ASSUME LastSecond \/ Midnight \/ UNCHANGED vars PROVE UNCHANGED items
  BY <1>3 DEF LastSecond, Midnight, vars, db
<1> QED BY <1>1, <1>2, <1>3 DEF Next

(* _ensure_first_published_at: through any overlap of drafts, updates and
   publications the first date stays for as long as the question exists. *)
THEOREM FirstPublicationKeptHolds == Spec => FirstPublicationKept
<1>1. ASSUME ItemsInv, [Next]_vars
      PROVE  \A i \in Items : items[i] # None /\ items[i].at # None /\ items'[i] # None
                                => items'[i].at = items[i].at
  <2>1. ASSUME NEW t \in Tx, WritesRow(t), NEW i \in Items,
               items[i] # None, items[i].at # None, items'[i] # None
        PROVE  items'[i].at = items[i].at
    <3>1. items'[i] = IF i = tx[t].i THEN Written(tx[t], items[tx[t].i]) ELSE items[i]
      BY <1>1, <2>1 DEF WritesRow, ItemsInv, ItemsTyped
    <3>2. CASE i = tx[t].i
      BY <1>1, <2>1, <3>1, <3>2, WrittenRow DEF WritesRow
    <3> QED BY <3>1, <3>2
  <2> QED BY <1>1, <2>1, RowsChange
<1>2. ItemsInv /\ [Next]_vars =>
        [\A i \in Items : items[i] # None /\ items[i].at # None /\ items'[i] # None
                            => items'[i].at = items[i].at]_vars
  BY <1>1
<1> QED BY <1>2, ItemsInvariant, PTL DEF Spec, FirstPublicationKept

(* PublicationAccess.ensure_allowed under the row's lock: a request without
   the permission to publish leaves what the public reads as it is, whoever
   publishes the same question at the same time. *)
THEOREM RestrictedUnseenHolds == Spec => RestrictedUnseen
<1>1. ASSUME ItemsInv, [Next]_vars, NEW t \in Tx, ~At(t, "idle"), ~tx[t].may, tx'[t] = Idle
      PROVE  PublicView' = PublicView
  <2>1. CASE UNCHANGED items
    BY <2>1 DEF PublicView, PublicDetail, PublicList, Available, Published
  <2>2. ASSUME NEW u \in Tx, WritesRow(u) PROVE PublicView' = PublicView
    <3>1. TypeOK /\ ItemsTyped
      BY <1>1 DEF ItemsInv
    <3>2. t = u
      BY <1>1, <2>2, <3>1, ReleaseFields, IdleOK DEF WritesRow, OthersStay, At
    <3>3. PICK row : row = Written(tx[t], items[tx[t].i])
      OBVIOUS
    <3>4. (row # None => row.status # "Published") /\ ~Published(tx[t].i)
      BY <1>1, <2>2, <3>2, <3>3, WrittenRow DEF WritesRow
    <3>5. items' = [items EXCEPT ![tx[t].i] = row]
      BY <2>2, <3>2, <3>3 DEF WritesRow
    <3>6. \A i \in Items : i # tx[t].i => items'[i] = items[i]
      BY <3>1, <3>5 DEF ItemsTyped
    <3>7. tx[t].i \in Items => items'[tx[t].i] = row
      BY <3>1, <3>5 DEF ItemsTyped
    <3>8. PublicList' = PublicList
      BY <3>4, <3>6, <3>7 DEF PublicList, Available, Published
    <3>9. \A i \in PublicList : PublicDetail(i)' = PublicDetail(i)
      BY <3>4, <3>6 DEF PublicList, Available, PublicDetail
    <3> QED BY <3>8, <3>9 DEF PublicView
  <2> QED BY <1>1, <2>1, <2>2, RowsChange
<1>2. ItemsInv /\ [Next]_vars =>
        [\A t \in Tx : ~At(t, "idle") /\ ~tx[t].may /\ tx'[t] = Idle
                         => PublicView' = PublicView]_vars
  BY <1>1
<1> QED BY <1>2, ItemsInvariant, PTL DEF Spec, RestrictedUnseen

-----------------------------------------------------------------------------
Queuer(x) == x.op \in {"suggest", "addQueued"}

(* Rivals after a step *)
NowRivals(p, q) == p \in rivals'[q] \/ q \in rivals'[p]

(* A step of t that suggests nothing anew, takes no id that is on its way
   into the queue and, if it puts t on the way, does so with a new id *)
LEMMA RivalsKept ==
  ASSUME RivalsInv, TypeOK', RivalsTyped', NEW t \in Tx, OthersStay(t), UNCHANGED rivals,
         \A q \in Questions : Suggested(q)' => Suggested(q) /\ queue'[q] = queue[q],
         \A u \in Tx \ {t} : Queuer(tx[u]) =>
            tx'[t].q # tx[u].q /\ fate'[tx[u].q] = <<>> /\ queue'[tx[u].q] = None,
         Queuer(tx'[t]) => /\ fate'[tx'[t].q] = <<>> /\ queue'[tx'[t].q] = None
                           /\ \A u \in Tx \ {t} : tx[u].q # tx'[t].q,
         Checked(t)' => Checked(t) /\ tx'[t].q = tx[t].q /\ tx'[t].params = tx[t].params
  PROVE  RivalsInv'
<1>1. IdsNew'
  BY DEF OthersStay, IdsNew, Queuer, RivalsInv
<1>2. \A u \in Tx : Checked(u)' => Checked(u) /\ tx'[u].q = tx[u].q /\ tx'[u].params = tx[u].params
  BY DEF OthersStay, Checked
<1>3. \A p, q : NowRivals(p, q) <=> Rivals(p, q)
  BY DEF Rivals, NowRivals
<1>4. CheckedRivals'
  <2> SUFFICES ASSUME NEW v \in Tx, Checked(v)'
               PROVE  /\ \A u \in Tx \ {v} : Checked(u)' => NowRivals(tx'[v].q, tx'[u].q)
                      /\ \A q \in Questions : Suggested(q)' /\ KeyOf(queue'[q]) = KeyOf(tx'[v].params)
                                              => NowRivals(tx'[v].q, q)
    BY DEF CheckedRivals, Rivals, NowRivals
  <2> QED BY <1>2, <1>3 DEF RivalsInv, CheckedRivals
<1>5. DuplicatesNeedOverlap'
  <2> SUFFICES ASSUME NEW p \in Questions, NEW q \in Questions, p # q, Suggested(p)', Suggested(q)',
                      KeyOf(queue'[p]) = KeyOf(queue'[q])
               PROVE  NowRivals(p, q)
    BY DEF DuplicatesNeedOverlap, Suggested, Rivals, NowRivals
  <2> QED BY <1>3 DEF RivalsInv, DuplicatesNeedOverlap, Suggested, Rivals, NowRivals
<1> QED BY <1>1, <1>4, <1>5 DEF RivalsInv

(* A step of t that leaves the queue alone *)
LEMMA RivalsUntouched ==
  ASSUME RivalsInv, TypeOK', NEW t \in Tx, OthersStay(t), UNCHANGED <<queue, fate, rivals>>,
         \/ tx'[t].op = tx[t].op /\ tx'[t].q = tx[t].q /\ tx'[t].params = tx[t].params
            /\ (Checked(t)' => Checked(t))
         \/ ~Queuer(tx'[t]) /\ tx'[t].q = None
  PROVE  RivalsInv'
<1>1. RivalsTyped'
  BY DEF RivalsInv, RivalsTyped
<1>2. \A q \in Questions : Suggested(q)' => Suggested(q) /\ queue'[q] = queue[q]
  BY DEF Suggested
<1>3. \A u \in Tx \ {t} : Queuer(tx[u]) => /\ tx[t].q # tx[u].q /\ tx[u].q \in Questions
                                           /\ fate'[tx[u].q] = <<>> /\ queue'[tx[u].q] = None
  BY Standing DEF RivalsInv, IdsNew, Queuer, Queuing
<1>4. None \notin Questions
  BY QueueAssumptions
<1>5. CASE ~Queuer(tx'[t]) /\ tx'[t].q = None
  <2>1. ~Checked(t)'
    BY <1>5 DEF Queuer, Checked
  <2> QED BY <1>1, <1>2, <1>3, <1>4, <1>5, <2>1, RivalsKept
<1>6. CASE tx'[t].op = tx[t].op /\ tx'[t].q = tx[t].q /\ tx'[t].params = tx[t].params
           /\ (Checked(t)' => Checked(t))
  <2>1. Queuer(tx'[t]) => /\ fate'[tx'[t].q] = <<>> /\ queue'[tx'[t].q] = None
                          /\ \A u \in Tx \ {t} : tx[u].q # tx'[t].q
    BY <1>6 DEF RivalsInv, IdsNew, Queuer
  <2> QED BY <1>1, <1>2, <1>3, <1>6, <2>1, RivalsKept
<1> QED BY <1>5, <1>6

LEMMA ReleaseRivals ==
  ASSUME RivalsInv, TypeOK', NEW t \in Tx, Release(t), UNCHANGED <<queue, fate, rivals>>
  PROVE  RivalsInv'
<1>1. OthersStay(t) /\ ~Queuer(tx'[t]) /\ tx'[t].q = None
  BY ReleaseFields, IdleOK DEF RivalsInv, Queuer
<1> QED BY <1>1, RivalsUntouched

LEMMA MoveRivals ==
  ASSUME RivalsInv, TypeOK', NEW t \in Tx, NEW pc, Moves(t, pc), UNCHANGED <<queue, fate, rivals>>,
         tx[t].op = "suggest" => tx[t].pc = "quota" \/ pc \notin {"quota", "commit"}
  PROVE  RivalsInv'
<1>1. /\ OthersStay(t) /\ tx'[t].op = tx[t].op /\ tx'[t].q = tx[t].q /\ tx'[t].params = tx[t].params
      /\ tx'[t].pc = pc
  BY MoveFields DEF RivalsInv
<1>2. Checked(t)' => Checked(t)
  BY <1>1 DEF Checked
<1> QED BY <1>1, <1>2, RivalsUntouched

(* The duplicate check of a suggestion: its id is new, so what it records
   about its rivals overwrites nothing that counts. *)
LEMMA CheckRivals ==
  ASSUME RivalsInv, TypeOK', NEW t \in Tx, CheckDuplicate(t), ~Fail(t)
  PROVE  RivalsInv'
<1>0. TypeOK
  BY DEF RivalsInv
<1>1. /\ Moves(t, "quota") /\ UNCHANGED <<queue, fate>> /\ ~SuggestionExists(tx[t].params)
      /\ rivals' = [rivals EXCEPT ![tx[t].q] = {tx[u].q : u \in {v \in Tx \ {t} : tx[v].op = "suggest"}}]
  BY DEF CheckDuplicate, Goto, Moves, db
<1>2. tx[t].op = "suggest" /\ tx[t].q \in Questions
  BY <1>0, Standing DEF CheckDuplicate, At, Queuing
<1>3. /\ OthersStay(t) /\ tx'[t].op = tx[t].op /\ tx'[t].q = tx[t].q
      /\ tx'[t].params = tx[t].params /\ tx'[t].pc = "quota"
  BY <1>0, <1>1, MoveFields
<1>4. IdsNew' /\ RivalsTyped'
  <2>1. IdsNew'
    BY <1>1, <1>3 DEF RivalsInv, IdsNew, OthersStay
  <2>2. RivalsTyped'
    BY <1>1 DEF RivalsInv, RivalsTyped
  <2> QED BY <2>1, <2>2
<1>5. /\ \A q \in Questions : q # tx[t].q => rivals'[q] = rivals[q]
      /\ \A u \in Tx \ {t} : tx[u].op = "suggest" => tx[u].q \in rivals'[tx[t].q]
  BY <1>1, <1>2 DEF RivalsInv, RivalsTyped
<1>6. /\ queue[tx[t].q] = None
      /\ \A u \in Tx \ {t} : tx[u].q # tx[t].q
  BY <1>2 DEF RivalsInv, IdsNew
<1>7. \A p, q \in Questions : p # tx[t].q /\ q # tx[t].q /\ Rivals(p, q) => NowRivals(p, q)
  BY <1>5 DEF Rivals, NowRivals
<1>8. \A q \in Questions : Suggested(q)' <=> Suggested(q)
  BY <1>1 DEF Suggested
<1>9. \A q \in Questions : Suggested(q) => KeyOf(queue[q]) # KeyOf(tx[t].params)
  BY <1>1 DEF SuggestionExists, QueuedKeys, Suggested
<1>10. \A u \in Tx \ {t} : /\ tx'[u] = tx[u] /\ Checked(u)' = Checked(u)
                           /\ Checked(u) => tx[u].op = "suggest" /\ tx[u].q \in Questions
  BY <1>0, <1>3, Standing DEF OthersStay, Checked, Queuing
<1>11. CheckedRivals'
  <2> SUFFICES ASSUME NEW v \in Tx, Checked(v)'
               PROVE  /\ \A u \in Tx \ {v} : Checked(u)' => NowRivals(tx'[v].q, tx'[u].q)
                      /\ \A q \in Questions : Suggested(q)' /\ KeyOf(queue'[q]) = KeyOf(tx'[v].params)
                                              => NowRivals(tx'[v].q, q)
    BY DEF CheckedRivals, Rivals, NowRivals
  <2>1. CASE v = t
    BY <1>1, <1>3, <1>5, <1>8, <1>9, <1>10, <2>1 DEF Rivals, NowRivals
  <2>2. CASE v # t
    <3>1. \A u \in Tx \ {v} : Checked(u)' => NowRivals(tx'[v].q, tx'[u].q)
      <4>1. ASSUME NEW u \in Tx \ {v}, Checked(u)', u # t PROVE NowRivals(tx'[v].q, tx'[u].q)
        BY <1>6, <1>7, <1>10, <2>2, <4>1 DEF RivalsInv, CheckedRivals
      <4>2. NowRivals(tx'[v].q, tx'[t].q)
        BY <1>3, <1>5, <1>10, <2>2 DEF Rivals, NowRivals
      <4> QED BY <4>1, <4>2
    <3>2. ASSUME NEW q \in Questions, Suggested(q)', KeyOf(queue'[q]) = KeyOf(tx'[v].params)
          PROVE  NowRivals(tx'[v].q, q)
      <4>1. q # tx[t].q
        BY <1>6, <1>8, <3>2 DEF Suggested
      <4> QED BY <1>1, <1>6, <1>7, <1>8, <1>10, <2>2, <3>2, <4>1 DEF RivalsInv, CheckedRivals
    <3> QED BY <3>1, <3>2
  <2> QED BY <2>1, <2>2
<1>12. DuplicatesNeedOverlap'
  <2> SUFFICES ASSUME NEW p \in Questions, NEW q \in Questions, p # q, Suggested(p)', Suggested(q)',
                      KeyOf(queue'[p]) = KeyOf(queue'[q])
               PROVE  NowRivals(p, q)
    BY DEF DuplicatesNeedOverlap, Suggested, Rivals, NowRivals
  <2>1. p # tx[t].q /\ q # tx[t].q
    BY <1>6, <1>8 DEF Suggested
  <2>2. Rivals(p, q)
    BY <1>1, <1>8 DEF RivalsInv, DuplicatesNeedOverlap, Suggested, Rivals, NowRivals
  <2> QED BY <1>7, <2>1, <2>2
<1> QED BY <1>4, <1>11, <1>12 DEF RivalsInv

(* The INSERT of a question that was on its way *)
LEMMA QueuedRivals ==
  ASSUME RivalsInv, TypeOK', NEW t \in Tx, CommitQueued(t)
  PROVE  RivalsInv'
<1>0. TypeOK
  BY DEF RivalsInv
<1>1. /\ Release(t) /\ queue' = [queue EXCEPT ![tx[t].q] = tx[t].params]
      /\ fate' = [fate EXCEPT ![tx[t].q] = <<tx[t].op>>] /\ UNCHANGED rivals
      /\ tx[t].op \in {"suggest", "addQueued"} /\ tx[t].pc = "commit"
  BY DEF CommitQueued, End, history, At
<1>2. tx[t].q \in Questions
  BY <1>0, <1>1, Standing DEF Queuing
<1>3. OthersStay(t) /\ tx'[t].op = "none" /\ tx'[t].q = None
  BY <1>0, <1>1, ReleaseFields, IdleOK
<1>4. \A q \in Questions : /\ queue'[q] = IF q = tx[t].q THEN tx[t].params ELSE queue[q]
                           /\ fate'[q] = IF q = tx[t].q THEN <<tx[t].op>> ELSE fate[q]
  BY <1>0, <1>1 DEF TypeOK, RivalsInv, RivalsTyped
<1>5. \A u \in Tx \ {t} : Queuer(tx[u]) => /\ None # tx[u].q /\ tx[t].q # tx[u].q
                                           /\ tx[u].q \in Questions
                                           /\ fate'[tx[u].q] = <<>> /\ queue'[tx[u].q] = None
  BY <1>0, <1>1, <1>4, Standing, QueueAssumptions DEF RivalsInv, IdsNew, Queuer, Queuing
<1>6. RivalsTyped'
  BY <1>1 DEF RivalsInv, RivalsTyped
<1>7. ~Queuer(tx'[t]) /\ ~Checked(t)'
  BY <1>3 DEF Queuer, Checked
<1>8. CASE tx[t].op = "addQueued"
  <2>1. \A q \in Questions : Suggested(q)' => Suggested(q) /\ queue'[q] = queue[q]
    BY <1>4, <1>8 DEF Suggested
  <2> QED BY <1>1, <1>3, <1>5, <1>6, <1>7, <2>1, RivalsKept
<1>9. CASE tx[t].op = "suggest"
  <2>1. \A q \in Questions : q # tx[t].q /\ Suggested(q)' => Suggested(q) /\ queue'[q] = queue[q]
    BY <1>4 DEF Suggested
  <2>2. Checked(t)
    BY <1>1, <1>9 DEF Checked
  <2>3. \A p, q : NowRivals(p, q) <=> Rivals(p, q)
    BY <1>1 DEF Rivals, NowRivals
  <2>4. \A p, q : Rivals(p, q) <=> Rivals(q, p)
    BY DEF Rivals, NowRivals
  <2>5. \A u \in Tx : Checked(u)' => u # t /\ Checked(u) /\ tx'[u] = tx[u]
    BY <1>3, <1>7 DEF OthersStay, Checked
  <2>6. IdsNew'
    BY <1>3, <1>5 DEF RivalsInv, IdsNew, OthersStay, Queuer
  <2>7. CheckedRivals'
    <3> SUFFICES ASSUME NEW v \in Tx, Checked(v)'
                 PROVE  /\ \A u \in Tx \ {v} : Checked(u)' => NowRivals(tx'[v].q, tx'[u].q)
                        /\ \A q \in Questions : Suggested(q)' /\ KeyOf(queue'[q]) = KeyOf(tx'[v].params)
                                                => NowRivals(tx'[v].q, q)
      BY DEF CheckedRivals, Rivals, NowRivals
    <3>1. \A u \in Tx \ {v} : Checked(u)' => NowRivals(tx'[v].q, tx'[u].q)
      BY <2>3, <2>5 DEF RivalsInv, CheckedRivals
    <3>2. ASSUME NEW q \in Questions, Suggested(q)', KeyOf(queue'[q]) = KeyOf(tx'[v].params), q # tx[t].q
          PROVE  NowRivals(tx'[v].q, q)
      BY <2>1, <2>3, <2>5, <3>2 DEF RivalsInv, CheckedRivals
    <3>3. NowRivals(tx'[v].q, tx[t].q)
      BY <2>2, <2>3, <2>5 DEF RivalsInv, CheckedRivals
    <3> QED BY <3>1, <3>2, <3>3
  <2>8. DuplicatesNeedOverlap'
    <3> SUFFICES ASSUME NEW p \in Questions, NEW q \in Questions, p # q, Suggested(p)', Suggested(q)',
                        KeyOf(queue'[p]) = KeyOf(queue'[q])
                 PROVE  NowRivals(p, q)
      BY DEF DuplicatesNeedOverlap, Suggested, Rivals, NowRivals
    <3>1. CASE p # tx[t].q /\ q # tx[t].q
      <4>1. Suggested(p) /\ Suggested(q) /\ queue'[p] = queue[p] /\ queue'[q] = queue[q]
        BY <2>1, <3>1
      <4> QED BY <2>3, <4>1 DEF RivalsInv, DuplicatesNeedOverlap, Suggested, Rivals, NowRivals
    <3>2. CASE p = tx[t].q
      BY <1>4, <2>1, <2>2, <2>3, <3>2 DEF RivalsInv, CheckedRivals
    <3>3. CASE q = tx[t].q
      BY <1>4, <2>1, <2>2, <2>3, <2>4, <3>3 DEF RivalsInv, CheckedRivals
    <3> QED BY <3>1, <3>2, <3>3
  <2> QED BY <1>6, <2>6, <2>7, <2>8 DEF RivalsInv
<1> QED BY <1>1, <1>8, <1>9

LEMMA RivalsStep == RivalsInv /\ [Next]_vars => RivalsInv'
<1> SUFFICES ASSUME RivalsInv, [Next]_vars PROVE RivalsInv'
  OBVIOUS
<1>0. TypeOK /\ TypeOK' /\ None \notin Questions
  BY TypeStep, QueueAssumptions DEF RivalsInv
<1>1. ASSUME NEW t \in Tx, Request(t) PROVE RivalsInv'
  <2>1. PICK x : Arrives(t, x)
    BY <1>0, <1>1, RequestArrives
  <2>2. OthersStay(t) /\ tx'[t] = x /\ UNCHANGED <<queue, fate, rivals>> /\ LocalOK(x)
    BY <1>0, <2>1 DEF Arrives, OthersStay, TypeOK, db, history
  <2>3. ~Checked(t)'
    BY <2>1, <2>2 DEF Arrives, Checked
  <2>4. Queuer(x) => Fresh(x.q)
    BY <2>1 DEF Arrives, Queuer
  <2>5. x.q # None => Queuer(x) \/ fate[x.q] # <<>>
    BY <2>1, <2>2, IdleOK DEF Arrives, LocalOK, Queuer, Queuing, Importing, Writing, Switching, Rejecting
  <2>6. \A u \in Tx \ {t} : Queuer(tx[u]) => /\ tx[u].q \in Questions
                                             /\ fate[tx[u].q] = <<>> /\ queue[tx[u].q] = None
    BY <1>0, Standing DEF RivalsInv, IdsNew, Queuer, Queuing
  <2>7. \A u \in Tx \ {t} : Queuer(tx[u]) => x.q # tx[u].q
    BY <1>0, <2>4, <2>5, <2>6 DEF Fresh
  <2>8. RivalsTyped' /\ \A q \in Questions : Suggested(q)' => Suggested(q) /\ queue'[q] = queue[q]
    BY <2>2 DEF RivalsInv, RivalsTyped, Suggested
  <2>9. Queuer(tx'[t]) => /\ fate'[tx'[t].q] = <<>> /\ queue'[tx'[t].q] = None
                          /\ \A u \in Tx \ {t} : tx[u].q # tx'[t].q
    BY <2>2, <2>4 DEF Fresh
  <2> QED BY <1>0, <2>2, <2>3, <2>6, <2>7, <2>8, <2>9, RivalsKept
<1>2. ASSUME NEW t \in Tx, Fail(t) PROVE RivalsInv'
  BY <1>0, <1>2, ReleaseRivals DEF Fail, db, history
<1>3. ASSUME NEW t \in Tx, CheckSheet(t) \/ CheckResources(t) \/ ReadStatus(t) PROVE RivalsInv'
  <2>1. Fail(t) \/ \E pc : Moves(t, pc) /\ UNCHANGED <<queue, fate, rivals>>
                           /\ (tx[t].op = "suggest" => pc \notin {"quota", "commit"})
    <3>1. CASE CheckSheet(t)
      BY <3>1 DEF CheckSheet, Goto, Moves, db, history
    <3>2. CASE CheckResources(t) \/ ReadStatus(t)
      <4>1. tx[t].op # "suggest"
        BY <1>0, <3>2, Standing DEF CheckResources, ReadStatus, At
      <4> QED BY <3>2, <4>1 DEF CheckResources, ReadStatus, Goto, Moves, db, history
    <3> QED BY <1>3, <3>1, <3>2
  <2> QED BY <1>0, <1>2, <2>1, MoveRivals
<1>4. ASSUME NEW t \in Tx, CheckDuplicate(t) PROVE RivalsInv'
  BY <1>0, <1>2, <1>4, CheckRivals
<1>5. ASSUME NEW t \in Tx, ConsumeQuota(t) PROVE RivalsInv'
  <2>1. UNCHANGED <<queue, fate, rivals>> /\ tx[t].pc = "quota" /\ (Release(t) \/ Moves(t, "commit"))
    BY <1>5 DEF ConsumeQuota, db, At, Moves
  <2> QED BY <1>0, <2>1, ReleaseRivals, MoveRivals
<1>6. ASSUME NEW t \in Tx, LockQueued(t) \/ LockItem(t) \/ WriteItem(t) PROVE RivalsInv'
  <2>1. tx[t].op # "suggest"
    BY <1>0, <1>6, Standing DEF LockQueued, LockItem, WriteItem, At
  <2>2. Fail(t) \/ (Moves(t, "commit") /\ UNCHANGED <<queue, fate, rivals>>)
    BY <1>6 DEF LockQueued, LockItem, WriteItem, Goto, Moves, db, history
  <2> QED BY <1>0, <1>2, <2>1, <2>2, MoveRivals
<1>7. ASSUME NEW t \in Tx, NEW numbers, ConfirmImport(t, numbers) PROVE RivalsInv'
  <2>1. CASE ~Fail(t)
    <3>1. OthersStay(t) /\ tx'[t].op = "import" /\ UNCHANGED <<queue, fate, rivals>>
      BY <1>0, <1>7, <2>1, ConfirmFields DEF db, history
    <3>2. tx'[t].q = None
      BY <1>0, <3>1 DEF TypeOK, LocalOK, Queuing, Importing, Writing, Switching, Rejecting, Idle
    <3>3. ~Queuer(tx'[t])
      BY <3>1 DEF Queuer
    <3> QED BY <1>0, <3>1, <3>2, <3>3, RivalsUntouched
  <2> QED BY <1>2, <2>1
<1>8. ASSUME NEW t \in Tx, CommitItem(t) \/ CommitUnchanged(t) PROVE RivalsInv'
  BY <1>0, <1>8, ReleaseRivals DEF CommitItem, CommitUnchanged, End, Fail, db, history
<1>9. ASSUME NEW t \in Tx, CommitQueued(t) PROVE RivalsInv'
  BY <1>0, <1>9, QueuedRivals
<1>10. ASSUME NEW t \in Tx, CommitImport(t) PROVE RivalsInv'
  <2>1. PICK ids \in Injection(DOMAIN tx[t].rows, Questions) :
          /\ \A q \in Range(ids) : Fresh(q)
          /\ queue' = [q \in Questions |->
                         IF q \in Range(ids)
                         THEN tx[t].rows[CHOOSE k \in DOMAIN ids : ids[k] = q] ELSE queue[q]]
          /\ fate' = [q \in Questions |-> IF q \in Range(ids) THEN <<"import">> ELSE fate[q]]
    BY <1>10 DEF CommitImport
  <2>2. Release(t) /\ UNCHANGED rivals
    BY <1>10 DEF CommitImport, End, history
  <2>3. OthersStay(t) /\ tx'[t].op = "none" /\ tx'[t].q = None
    BY <1>0, <2>2, ReleaseFields, IdleOK
  <2>4. RivalsTyped' /\ \A q \in Questions : Suggested(q)' => Suggested(q) /\ queue'[q] = queue[q]
    BY <2>1, <2>2 DEF RivalsInv, RivalsTyped, Suggested
  <2>5. \A u \in Tx \ {t} : Queuer(tx[u]) =>
          tx'[t].q # tx[u].q /\ fate'[tx[u].q] = <<>> /\ queue'[tx[u].q] = None
    <3>1. ASSUME NEW u \in Tx \ {t}, Queuer(tx[u])
          PROVE  tx'[t].q # tx[u].q /\ fate'[tx[u].q] = <<>> /\ queue'[tx[u].q] = None
      <4>1. tx[u].q \in Questions /\ fate[tx[u].q] = <<>> /\ queue[tx[u].q] = None
        BY <1>0, <3>1, Standing DEF RivalsInv, IdsNew, Queuer, Queuing
      <4>2. tx[u].q \notin Range(ids)
        BY <2>1 DEF Fresh
      <4> QED BY <1>0, <2>1, <2>3, <4>1, <4>2
    <3> QED BY <3>1
  <2>6. ~Queuer(tx'[t]) /\ ~Checked(t)'
    BY <2>3 DEF Queuer, Checked
  <2> QED BY <1>0, <2>2, <2>3, <2>4, <2>5, <2>6, RivalsKept
<1>11. ASSUME NEW t \in Tx, CommitDecision(t) PROVE RivalsInv'
  <2>1. /\ Release(t) /\ UNCHANGED rivals /\ tx[t].op \in {"convert", "reject"}
        /\ queue' = [queue EXCEPT ![tx[t].q] = None]
        /\ fate' = [fate EXCEPT ![tx[t].q] = Append(@, tx[t].op)]
    BY <1>11 DEF CommitDecision, End, history
  <2>2. OthersStay(t) /\ tx'[t].op = "none" /\ tx'[t].q = None
    BY <1>0, <2>1, ReleaseFields, IdleOK
  <2>3. \A q \in Questions : /\ queue'[q] = IF q = tx[t].q THEN None ELSE queue[q]
                             /\ q # tx[t].q => fate'[q] = fate[q]
    BY <1>0, <2>1 DEF TypeOK, RivalsInv, RivalsTyped
  <2>4. \A q \in Questions : Suggested(q)' => Suggested(q) /\ queue'[q] = queue[q]
    BY <2>3 DEF Suggested
  <2>5. RivalsTyped'
    BY <2>1 DEF RivalsInv, RivalsTyped
  <2>6. \A u \in Tx \ {t} : Queuer(tx[u]) =>
          tx'[t].q # tx[u].q /\ fate'[tx[u].q] = <<>> /\ queue'[tx[u].q] = None
    <3>1. ASSUME NEW u \in Tx \ {t}, Queuer(tx[u])
          PROVE  tx'[t].q # tx[u].q /\ fate'[tx[u].q] = <<>> /\ queue'[tx[u].q] = None
      <4>1. /\ tx[u].q \in Questions /\ fate[tx[u].q] = <<>> /\ queue[tx[u].q] = None
            /\ tx[t].q # tx[u].q
        BY <1>0, <3>1, Standing DEF RivalsInv, IdsNew, Queuer, Queuing
      <4> QED BY <1>0, <2>2, <2>3, <4>1
    <3> QED BY <3>1
  <2>7. ~Queuer(tx'[t]) /\ ~Checked(t)'
    BY <2>2 DEF Queuer, Checked
  <2> QED BY <1>0, <2>1, <2>2, <2>4, <2>5, <2>6, <2>7, RivalsKept
<1>12. ASSUME LastSecond \/ Midnight \/ UNCHANGED vars PROVE RivalsInv'
  <2>1. UNCHANGED <<queue, fate, rivals, tx>>
    BY <1>12 DEF LastSecond, Midnight, vars, db, history
  <2> QED BY <1>0, <2>1 DEF RivalsInv, RivalsTyped, IdsNew, CheckedRivals, DuplicatesNeedOverlap,
                            Rivals, Checked, Suggested
<1> QED
  BY <1>1, <1>3, <1>4, <1>5, <1>6, <1>7, <1>8, <1>9, <1>10, <1>11, <1>12 DEF Next, Step

(* question_suggestion_exists is read without a lock and no constraint backs
   it: for any number of concurrent suggestions, imports and decisions, two
   public suggestions of the same question both stand in the queue only if
   one was still on its way when the other was checked. *)
THEOREM DuplicatesNeedOverlapHolds == Spec => []DuplicatesNeedOverlap
<1>1. Init => RivalsInv
  <2> SUFFICES ASSUME Init PROVE RivalsInv
    OBVIOUS
  <2>1. \A t \in Tx : tx[t].op = "none"
    BY IdleOK DEF Init
  <2>2. IdsNew /\ CheckedRivals
    BY <2>1 DEF IdsNew, CheckedRivals, Checked
  <2>3. RivalsTyped /\ DuplicatesNeedOverlap
    BY DEF Init, RivalsTyped, DuplicatesNeedOverlap
  <2> QED BY <2>2, <2>3, TypeInit DEF RivalsInv
<1>2. RivalsInv => DuplicatesNeedOverlap
  BY DEF RivalsInv
<1> QED BY <1>1, <1>2, RivalsStep, PTL DEF Spec

-----------------------------------------------------------------------------
(* A step of t that leaves counters and calendar alone *)
LEMMA QuotaUntouched ==
  ASSUME QuotaInv, TypeOK', NEW t \in Tx, OthersStay(t), UNCHANGED <<quota, accepted, day, late>>,
         tx'[t].op = "suggest" =>
           \/ tx'[t].day = day /\ tx'[t].late = late
           \/ tx[t].op = "suggest" /\ tx'[t].day = tx[t].day /\ tx'[t].late = tx[t].late
  PROVE  QuotaInv'
<1>1. QuotaTyped' /\ CounterCounts' /\ QuotaHolds'
  BY DEF QuotaInv, QuotaTyped, CounterCounts, QuotaHolds
<1>2. day \in Nat
  BY QueueAssumptions DEF QuotaInv, TypeOK, Days
<1>3. ClocksBehind'
  <2> SUFFICES ASSUME NEW u \in Tx, tx'[u].op = "suggest"
               PROVE  tx'[u].day <= day /\ (tx'[u].day = day /\ tx'[u].late => late)
    BY DEF ClocksBehind
  <2>1. CASE u # t
    BY <2>1 DEF QuotaInv, ClocksBehind, OthersStay
  <2>2. CASE u = t /\ tx'[t].day = day /\ tx'[t].late = late
    BY <1>2, <2>2
  <2>3. CASE u = t /\ tx[t].op = "suggest" /\ tx'[t].day = tx[t].day /\ tx'[t].late = tx[t].late
    BY <2>3 DEF QuotaInv, ClocksBehind
  <2> QED BY <2>1, <2>2, <2>3
<1> QED BY <1>1, <1>3 DEF QuotaInv

LEMMA ReleaseQuota ==
  ASSUME QuotaInv, TypeOK', NEW t \in Tx, Release(t), UNCHANGED <<quota, accepted, day, late>>
  PROVE  QuotaInv'
<1>1. OthersStay(t) /\ tx'[t].op # "suggest"
  BY ReleaseFields, IdleOK DEF QuotaInv
<1> QED BY <1>1, QuotaUntouched

LEMMA MoveQuota ==
  ASSUME QuotaInv, TypeOK', NEW t \in Tx, NEW pc, Moves(t, pc),
         UNCHANGED <<quota, accepted, day, late>>
  PROVE  QuotaInv'
<1>1. OthersStay(t) /\ tx'[t].op = tx[t].op /\ tx'[t].day = tx[t].day /\ tx'[t].late = tx[t].late
  BY MoveFields DEF QuotaInv
<1> QED BY <1>1, QuotaUntouched

(* The INCR of a request.  In time, the key has not expired and the request's
   own clock reading was in time too, so what it lets through it counts. *)
LEMMA ConsumeCounts ==
  ASSUME QuotaInv, TypeOK', NEW t \in Tx, ConsumeQuota(t)
  PROVE  QuotaInv'
<1> DEFINE c == tx[t].client
           d == tx[t].day
<1>0. TypeOK /\ QuotaTyped
  BY DEF QuotaInv
<1>1. tx[t].op = "suggest" /\ c \in Clients /\ d \in Days /\ tx[t].late \in BOOLEAN
  BY <1>0, Standing DEF ConsumeQuota, At, Queuing
<1>2. day \in Nat /\ d \in Nat /\ Limit \in Nat /\ late \in BOOLEAN
  BY <1>0, <1>1, QueueAssumptions DEF TypeOK, Days
<1>3. d <= day /\ (d = day /\ tx[t].late => late)
  BY <1>1 DEF QuotaInv, ClocksBehind
<1>4. PICK expired, value :
        /\ expired \in BOOLEAN /\ value = IF expired THEN 1 ELSE quota[<<c, d>>] + 1
        /\ MayExpire(d, expired)
        /\ quota' = [quota EXCEPT ![<<c, d>>] = IF value = 1 /\ tx[t].late THEN 0 ELSE value]
        /\ \/ /\ WithinLimit(value) /\ Moves(t, "commit")
              /\ accepted' = IF ~late /\ day = d THEN [accepted EXCEPT ![<<c, d>>] = @ + 1] ELSE accepted
           \/ Release(t) /\ UNCHANGED accepted
  BY DEF ConsumeQuota, Moves
<1>5. UNCHANGED <<day, late>>
  BY DEF ConsumeQuota
<1>6. quota[<<c, d>>] \in Nat /\ accepted[<<c, d>>] \in Nat /\ value \in Nat
  BY <1>0, <1>1, <1>4 DEF QuotaTyped
<1>7. ~late /\ day = d =>
        ~expired /\ ~tx[t].late /\ value = quota[<<c, d>>] + 1 /\ accepted[<<c, d>>] <= quota[<<c, d>>]
  <2> SUFFICES ASSUME ~late, day = d
               PROVE  ~expired /\ ~tx[t].late /\ value = quota[<<c, d>>] + 1
                      /\ accepted[<<c, d>>] <= quota[<<c, d>>]
    OBVIOUS
  <2>1. ~expired
    BY <1>2, <1>4 DEF MayExpire
  <2>2. accepted[<<c, d>>] <= quota[<<c, d>>]
    BY <1>1 DEF QuotaInv, CounterCounts
  <2> QED BY <1>3, <1>4, <2>1, <2>2
<1>8. QuotaTyped'
  <2>1. quota' \in [Clients \X Days -> Nat]
    BY <1>0, <1>4, <1>6 DEF QuotaTyped
  <2>2. accepted' \in [Clients \X Days -> Nat]
    BY <1>0, <1>4, <1>6 DEF QuotaTyped
  <2> QED BY <2>1, <2>2 DEF QuotaTyped
<1>9. \A e \in Clients, f \in Days : <<e, f>> # <<c, d>> =>
        quota'[<<e, f>>] = quota[<<e, f>>] /\ accepted'[<<e, f>>] = accepted[<<e, f>>]
  BY <1>0, <1>4 DEF QuotaTyped
<1>10. /\ quota'[<<c, d>>] = IF value = 1 /\ tx[t].late THEN 0 ELSE value
       /\ \/ /\ WithinLimit(value)
             /\ accepted'[<<c, d>>] = IF ~late /\ day = d THEN accepted[<<c, d>>] + 1 ELSE accepted[<<c, d>>]
          \/ accepted'[<<c, d>>] = accepted[<<c, d>>]
  BY <1>0, <1>1, <1>4 DEF QuotaTyped
<1>11. CounterCounts'
  <2> SUFFICES ASSUME NEW e \in Clients, NEW f \in Days, day < f \/ (day = f /\ ~late)
               PROVE  accepted'[<<e, f>>] <= quota'[<<e, f>>]
    BY <1>5 DEF CounterCounts
  <2>1. CASE <<e, f>> # <<c, d>>
    BY <1>9, <2>1 DEF QuotaInv, CounterCounts
  <2>2. CASE <<e, f>> = <<c, d>>
    <3>1. ~late /\ day = d
      BY <1>2, <1>3, <2>2
    <3>2. quota'[<<c, d>>] = quota[<<c, d>>] + 1
      BY <1>7, <1>10, <3>1
    <3>3. accepted'[<<c, d>>] <= accepted[<<c, d>>] + 1
      BY <1>6, <1>10
    <3>4. accepted'[<<c, d>>] <= quota'[<<c, d>>]
      BY <1>6, <1>7, <1>10, <3>1, <3>2
    <3> QED BY <2>2, <3>4
  <2> QED BY <2>1, <2>2
<1>12. QuotaHolds'
  <2> SUFFICES ASSUME NEW e \in Clients, NEW f \in Days PROVE accepted'[<<e, f>>] <= Limit
    BY DEF QuotaHolds
  <2>0. accepted[<<e, f>>] <= Limit
    BY DEF QuotaInv, QuotaHolds
  <2>1. CASE <<e, f>> # <<c, d>>
    BY <1>9, <2>0, <2>1
  <2>2. CASE <<e, f>> = <<c, d>> /\ accepted'[<<c, d>>] = accepted[<<c, d>>]
    BY <2>0, <2>2
  <2>3. CASE /\ <<e, f>> = <<c, d>> /\ WithinLimit(value) /\ ~late /\ day = d
             /\ accepted'[<<c, d>>] = accepted[<<c, d>>] + 1
    <3>1. accepted'[<<c, d>>] <= Limit
      BY <1>2, <1>6, <1>7, <2>3 DEF WithinLimit
    <3> QED BY <2>3, <3>1
  <2> QED BY <1>10, <2>1, <2>2, <2>3
<1>13. ClocksBehind'
  <2>1. \/ Release(t)
        \/ Moves(t, "commit")
    BY <1>4
  <2>2. /\ OthersStay(t)
        /\ tx'[t].op = "suggest" => tx'[t].day = tx[t].day /\ tx'[t].late = tx[t].late
    BY <1>0, <2>1, ReleaseFields, MoveFields, IdleOK
  <2> QED BY <1>1, <1>5, <2>2 DEF QuotaInv, ClocksBehind, OthersStay
<1> QED BY <1>8, <1>11, <1>12, <1>13 DEF QuotaInv

LEMMA QuotaStep == QuotaInv /\ [Next]_vars => QuotaInv'
<1> SUFFICES ASSUME QuotaInv, [Next]_vars PROVE QuotaInv'
  OBVIOUS
<1>0. TypeOK /\ TypeOK'
  BY TypeStep DEF QuotaInv
<1>1. ASSUME NEW t \in Tx, Request(t) PROVE QuotaInv'
  <2>1. PICK x : Arrives(t, x)
    BY <1>0, <1>1, RequestArrives
  <2>2. OthersStay(t) /\ tx'[t] = x /\ UNCHANGED <<quota, accepted, day, late>>
    BY <1>0, <2>1 DEF Arrives, OthersStay, TypeOK, history
  <2>3. x.op = "suggest" => x.day = day /\ x.late = late
    BY <2>1 DEF Arrives
  <2> QED BY <1>0, <2>2, <2>3, QuotaUntouched
<1>2. ASSUME NEW t \in Tx, Fail(t) \/ End(t) PROVE QuotaInv'
  BY <1>0, <1>2, ReleaseQuota DEF Fail, End, history
<1>3. ASSUME NEW t \in Tx,
             \/ CheckSheet(t) \/ CheckDuplicate(t) \/ CheckResources(t) \/ ReadStatus(t)
             \/ LockQueued(t) \/ LockItem(t) \/ WriteItem(t)
      PROVE  QuotaInv'
  <2>1. Fail(t) \/ \E pc : Moves(t, pc) /\ UNCHANGED <<quota, accepted, day, late>>
    <3>1. CASE CheckSheet(t) \/ CheckDuplicate(t)
      BY <3>1 DEF CheckSheet, CheckDuplicate, Goto, Moves, history
    <3>2. CASE CheckResources(t) \/ ReadStatus(t)
      BY <3>2 DEF CheckResources, ReadStatus, Goto, Moves, history
    <3>3. CASE LockQueued(t) \/ LockItem(t) \/ WriteItem(t)
      BY <3>3 DEF LockQueued, LockItem, WriteItem, Goto, Moves, history
    <3> QED BY <1>3, <3>1, <3>2, <3>3
  <2> QED BY <1>0, <1>2, <2>1, MoveQuota
<1>4. ASSUME NEW t \in Tx, ConsumeQuota(t) PROVE QuotaInv'
  BY <1>0, <1>4, ConsumeCounts
<1>5. ASSUME NEW t \in Tx, NEW numbers, ConfirmImport(t, numbers) PROVE QuotaInv'
  <2>1. CASE ~Fail(t)
    <3>1. OthersStay(t) /\ tx'[t].op = "import" /\ UNCHANGED <<quota, accepted, day, late>>
      BY <1>0, <1>5, <2>1, ConfirmFields DEF history
    <3> QED BY <1>0, <3>1, QuotaUntouched
  <2> QED BY <1>2, <2>1
<1>6. ASSUME NEW t \in Tx,
             \/ CommitItem(t) \/ CommitUnchanged(t) \/ CommitQueued(t) \/ CommitImport(t)
             \/ CommitDecision(t)
      PROVE  QuotaInv'
  BY <1>2, <1>6 DEF CommitItem, CommitUnchanged, CommitQueued, CommitImport, CommitDecision
<1>7. ASSUME LastSecond \/ Midnight PROVE QuotaInv'
  <2>1. UNCHANGED <<quota, accepted, tx>>
    BY <1>7 DEF LastSecond, Midnight, history
  <2>2. day \in Nat /\ Days \subseteq Nat
    BY <1>0, QueueAssumptions DEF TypeOK, Days
  <2>3. \/ day' = day /\ late' = TRUE /\ late = FALSE
        \/ day' = day + 1 /\ late' = FALSE
    BY <1>0, <1>7 DEF LastSecond, Midnight, TypeOK
  <2>4. CounterCounts'
    <3> SUFFICES ASSUME NEW c \in Clients, NEW d \in Days, day' < d \/ (day' = d /\ ~late')
                 PROVE  accepted[<<c, d>>] <= quota[<<c, d>>]
      BY <2>1 DEF CounterCounts
    <3>1. day < d
      BY <2>2, <2>3
    <3> QED BY <3>1 DEF QuotaInv, CounterCounts
  <2>5. ClocksBehind'
    <3> SUFFICES ASSUME NEW t \in Tx, tx[t].op = "suggest"
                 PROVE  tx[t].day <= day' /\ (tx[t].day = day' /\ tx[t].late => late')
      BY <2>1 DEF ClocksBehind
    <3>1. tx[t].day \in Nat /\ tx[t].day <= day
      BY <1>0, <2>2, Standing DEF Queuing, QuotaInv, ClocksBehind
    <3> QED BY <2>2, <2>3, <3>1
  <2>6. QuotaTyped' /\ QuotaHolds'
    BY <2>1 DEF QuotaInv, QuotaTyped, QuotaHolds
  <2> QED BY <1>0, <2>4, <2>5, <2>6 DEF QuotaInv
<1>8. ASSUME UNCHANGED vars PROVE QuotaInv'
  BY <1>0, <1>8 DEF vars, QuotaInv, QuotaTyped, CounterCounts, ClocksBehind, QuotaHolds
<1> QED BY <1>1, <1>3, <1>4, <1>5, <1>6, <1>7, <1>8 DEF Next, Step

(* INCR, and a time to live that ends in the day's last second: for any limit
   and any number of clients suggesting at once, whatever clock reading each
   request goes by, a client gets at most anonymous_daily_limit suggestions
   through before the last second of a day. *)
THEOREM QuotaHoldsAlways == Spec => []QuotaHolds
<1>1. Init => QuotaInv
  <2> SUFFICES ASSUME Init PROVE QuotaInv
    OBVIOUS
  <2>1. \A t \in Tx : tx[t].op = "none"
    BY IdleOK DEF Init
  <2>2. Limit \in Nat
    BY QueueAssumptions
  <2>3. QuotaTyped /\ CounterCounts /\ QuotaHolds
    BY <2>2 DEF Init, QuotaTyped, CounterCounts, QuotaHolds
  <2>4. ClocksBehind
    BY <2>1 DEF ClocksBehind
  <2> QED BY <2>3, <2>4, TypeInit DEF QuotaInv
<1>2. QuotaInv => QuotaHolds
  BY DEF QuotaInv
<1> QED BY <1>1, <1>2, QuotaStep, PTL DEF Spec

-----------------------------------------------------------------------------
(* SetToSeq lists a finite set, each member once. *)
LEMMA SetToSeqLists ==
  ASSUME NEW S, IsFiniteSet(S)
  PROVE  /\ Range(SetToSeq(S)) = S /\ IsInjective(SetToSeq(S))
         /\ S # {} => SetToSeq(S) # <<>>
<1>0. PICK n : n = Cardinality(S)
  OBVIOUS
<1>1. n \in Nat /\ ExistsBijection(1 .. n, S)
  BY <1>0, FS_CardinalityType
<1>2. \E f \in [1 .. n -> S] : IsInjective(f)
  BY <1>1 DEF ExistsBijection, Bijection, Injection
<1>3. PICK f : f = SetToSeq(S)
  OBVIOUS
<1>4. f \in [1 .. n -> S] /\ IsInjective(f)
  BY <1>0, <1>2, <1>3 DEF SetToSeq
<1>5. ASSUME NEW s \in S, s \notin Range(f) PROVE FALSE
  <2>1. f \in [1 .. n -> S \ {s}]
    BY <1>4, <1>5 DEF Range
  <2>2. IsFiniteSet(S \ {s}) /\ Cardinality(S \ {s}) = n - 1
    BY <1>0, <1>5, FS_RemoveElement
  <2>3. IsFiniteSet(1 .. n) /\ Cardinality(1 .. n) = n
    BY <1>1, FS_Interval
  <2>4. Cardinality(S \ {s}) < Cardinality(1 .. n)
    BY <1>1, <2>2, <2>3
  <2>5. \E x, y \in 1 .. n : x # y /\ f[x] = f[y]
    BY <2>1, <2>2, <2>3, <2>4, FS_PigeonHole, Zenon
  <2> QED BY <1>4, <2>5 DEF IsInjective
<1>6. Range(f) = S
  BY <1>4, <1>5 DEF Range
<1>7. S # {} => f # <<>>
  BY <1>6 DEF Range
<1> QED BY <1>3, <1>4, <1>6, <1>7

(* The rows of a preview: numbered on from the first, each with its issues. *)
LEMMA PreviewRows ==
  ASSUME NEW f \in Files, Preview(f) # Invalid
  PROVE  /\ DOMAIN Preview(f) = 1 .. Len(f.rows) /\ Len(f.rows) \in Nat
         /\ \A k \in 1 .. Len(f.rows) :
              /\ Preview(f)[k] = [number |-> FirstRowNumber(f) + k - 1,
                                  issues |-> Preview(f)[k].issues, params |-> Preview(f)[k].params]
<1>1. f.rows \in Seq(Range(f.rows))
  BY QueueAssumptions
<1>2. DOMAIN f.rows = 1 .. Len(f.rows) /\ Len(f.rows) \in Nat
  BY <1>1
<1>3. Parsed(f) # Invalid
  BY DEF Preview
<1>4. Parsed(f) = [k \in DOMAIN f.rows |->
          [number |-> FirstRowNumber(f) + k - 1, cells |-> Columns(f, f.rows[k])]]
  BY <1>3 DEF Parsed
<1>5. Preview(f) = [k \in DOMAIN f.rows |-> PreviewRow(Parsed(f)[k])]
  BY <1>3, <1>4 DEF Preview
<1>6. ASSUME NEW k \in DOMAIN f.rows
      PROVE  Preview(f)[k] = [number |-> FirstRowNumber(f) + k - 1,
                              issues |-> Preview(f)[k].issues, params |-> Preview(f)[k].params]
  <2>1. PICK row : row = Parsed(f)[k]
    OBVIOUS
  <2>2. row.number = FirstRowNumber(f) + k - 1
    BY <1>4, <2>1
  <2>3. Preview(f)[k] = PreviewRow(row)
    BY <1>5, <2>1
  <2> QED BY <2>2, <2>3 DEF PreviewRow
<1> QED BY <1>2, <1>5, <1>6

(* with_duplicate_warnings marks a row that repeats an earlier one or a
   queued question, and changes nothing else. *)
LEMMA WarnedRows ==
  ASSUME NEW preview, NEW queued, NEW k \in DOMAIN preview, NEW number,
         preview[k] = [number |-> number, issues |-> preview[k].issues, params |-> preview[k].params],
         NEW shown, shown = WithDuplicateWarnings(preview, queued)
  PROVE  /\ shown[k].number = number /\ shown[k].params = preview[k].params
         /\ preview[k].params # None /\ shown[k].issues = {} =>
              ~DuplicateInFile(preview, k) /\ KeyOf(preview[k].params) \notin queued
<1>0. preview[k].number = number
  OBVIOUS
<1>1. CASE preview[k].params = None
  BY <1>0, <1>1 DEF WithDuplicateWarnings
<1>2. CASE preview[k].params # None
  <2>1. PICK row, warnings : row = preview[k] /\ warnings = DuplicateWarnings(preview, k, queued)
    OBVIOUS
  <2>2. shown[k] = [row EXCEPT !.issues = @ \cup warnings]
    BY <1>2, <2>1 DEF WithDuplicateWarnings
  <2>3. row = [number |-> number, issues |-> row.issues, params |-> row.params]
    BY <2>1
  <2>4. /\ shown[k].number = number /\ shown[k].params = row.params
        /\ shown[k].issues = row.issues \cup warnings
    BY <2>2, <2>3
  <2>5. warnings = {} => ~DuplicateInFile(preview, k) /\ KeyOf(preview[k].params) \notin queued
    BY <2>1 DEF DuplicateWarnings
  <2>6. shown[k].issues = {} => warnings = {}
    BY <2>4
  <2> QED BY <2>1, <2>4, <2>5, <2>6
<1> QED BY <1>1, <1>2

(* What a preview selects by default is accepted when it is confirmed, and
   repeats neither itself nor the queue the preview was made for. *)
LEMMA DefaultsClean ==
  ASSUME NEW f \in Files, NEW queued, NEW shown,
         shown = WithDuplicateWarnings(Preview(f), queued), SelectedByDefault(shown) # {},
         NEW rows, rows = SelectedQuestions(Preview(f), SetToSeq(SelectedByDefault(shown)))
  PROVE  /\ rows # Invalid
         /\ \A j, k \in DOMAIN rows : j # k => KeyOf(rows[j]) # KeyOf(rows[k])
         /\ \A k \in DOMAIN rows : KeyOf(rows[k]) \notin queued
<1>1. DOMAIN shown = DOMAIN Preview(f)
  BY DEF WithDuplicateWarnings
<1>2. Preview(f) # Invalid
  BY <1>1 DEF SelectedByDefault, Invalid
<1>3. PICK P, n, first, D, numbers :
        /\ P = Preview(f) /\ n = Len(f.rows) /\ first = FirstRowNumber(f)
        /\ D = SelectedByDefault(shown) /\ numbers = SetToSeq(D)
  OBVIOUS
<1>4. /\ DOMAIN P = 1 .. n /\ n \in Nat /\ first \in Nat
      /\ \A k \in 1 .. n : P[k] = [number |-> first + k - 1, issues |-> P[k].issues,
                                   params |-> P[k].params]
  BY <1>2, <1>3, PreviewRows DEF FirstRowNumber
<1>5. \A k \in 1 .. n :
        /\ P[k].number = first + k - 1
        /\ shown[k].number = first + k - 1 /\ shown[k].params = P[k].params
        /\ P[k].params # None /\ shown[k].issues = {} =>
             ~DuplicateInFile(P, k) /\ KeyOf(P[k].params) \notin queued
  <2> SUFFICES ASSUME NEW k \in 1 .. n
               PROVE  /\ P[k].number = first + k - 1
                      /\ shown[k].number = first + k - 1 /\ shown[k].params = P[k].params
                      /\ P[k].params # None /\ shown[k].issues = {} =>
                           ~DuplicateInFile(P, k) /\ KeyOf(P[k].params) \notin queued
    OBVIOUS
  <2>1. k \in DOMAIN P
    BY <1>4
  <2>2. P[k] = [number |-> first + k - 1, issues |-> P[k].issues, params |-> P[k].params]
    BY <1>4
  <2>3. shown = WithDuplicateWarnings(P, queued)
    BY <1>3
  <2>4. P[k].number = first + k - 1
    BY <2>2
  <2>5. PICK number : number = first + k - 1
    OBVIOUS
  <2> QED BY <2>1, <2>2, <2>3, <2>4, <2>5, WarnedRows
<1>6. D = {shown[k].number : k \in {k \in 1 .. n : shown[k].params # None /\ shown[k].issues = {}}}
  BY <1>1, <1>3, <1>4 DEF SelectedByDefault
<1>7. IsFiniteSet(D)
  <2>1. \A k \in 1 .. n : first + k - 1 \in Nat /\ first + k - 1 <= first + n
    BY <1>4
  <2>2. \A d \in D : \E k \in 1 .. n : d = first + k - 1
    BY <1>5, <1>6
  <2>3. D \in SUBSET Nat /\ \A d \in D : d <= first + n
    BY <2>1, <2>2
  <2>4. PICK bound \in Nat : bound = first + n
    BY <1>4
  <2> QED BY <2>3, <2>4, FS_BoundedSetOfNaturals
<1>8. Range(numbers) = D /\ IsInjective(numbers) /\ numbers # <<>>
  BY <1>3, <1>7, SetToSeqLists
<1>9. PICK chosen : chosen = {k \in 1 .. n : P[k].number \in D /\ P[k].params # None}
  OBVIOUS
<1>10. \A d \in D : \E k \in chosen : P[k].number = d
  BY <1>5, <1>6, <1>9
<1>11. rows = [k \in chosen |-> P[k].params]
  <2>1. chosen = {k \in DOMAIN P : P[k].number \in Range(numbers) /\ P[k].params # None}
    BY <1>4, <1>8, <1>9
  <2> QED BY <1>3, <1>8, <1>10, <2>1 DEF SelectedQuestions
<1>12. \A k \in chosen : P[k].params # None /\ ~DuplicateInFile(P, k) /\ KeyOf(P[k].params) \notin queued
  <2> SUFFICES ASSUME NEW k \in chosen
               PROVE  P[k].params # None /\ ~DuplicateInFile(P, k) /\ KeyOf(P[k].params) \notin queued
    OBVIOUS
  <2>1. k \in 1 .. n /\ P[k].number \in D /\ P[k].params # None
    BY <1>9
  <2>2. PICK j \in 1 .. n : shown[j].number = P[k].number /\ shown[j].issues = {}
    BY <1>6, <2>1
  <2>3. j = k
    BY <1>4, <1>5, <2>1, <2>2
  <2> QED BY <1>5, <2>1, <2>2, <2>3
<1>13. \A j, k \in chosen : j < k => KeyOf(P[j].params) # KeyOf(P[k].params)
  <2> SUFFICES ASSUME NEW j \in chosen, NEW k \in chosen, j < k
               PROVE  KeyOf(P[j].params) # KeyOf(P[k].params)
    OBVIOUS
  <2>1. j \in 1 .. k - 1
    BY <1>4, <1>9
  <2> QED BY <1>12, <2>1 DEF DuplicateInFile
<1>14. \A j, k \in chosen : j # k => KeyOf(P[j].params) # KeyOf(P[k].params)
  <2> SUFFICES ASSUME NEW j \in chosen, NEW k \in chosen, j # k
               PROVE  KeyOf(P[j].params) # KeyOf(P[k].params)
    OBVIOUS
  <2>1. j < k \/ k < j
    BY <1>4, <1>9
  <2> QED BY <1>13, <2>1
<1>15. chosen # {}
  BY <1>3, <1>10
<1>16. rows # Invalid
  BY <1>11, <1>15 DEF Invalid
<1> QED BY <1>11, <1>12, <1>14, <1>16

(* with_duplicate_warnings, selected_by_default and selected_questions agree:
   for any file and any queue, the rows a preview selects by default can be
   imported as they are, and queue no question twice nor one that stood in
   the queue when the preview was made. *)
THEOREM DefaultSelectionCleanHolds == Spec => []DefaultSelectionClean
<1>1. TypeOK => DefaultSelectionClean
  <2> SUFFICES ASSUME TypeOK, NEW t \in Tx, At(t, "shown"), SelectedByDefault(tx[t].preview) # {},
                      NEW rows, rows = SelectedQuestions(Preview(tx[t].file),
                                         SetToSeq(SelectedByDefault(tx[t].preview)))
               PROVE  /\ rows # Invalid
                      /\ \A j, k \in DOMAIN rows : j # k => KeyOf(rows[j]) # KeyOf(rows[k])
                      /\ \A k \in DOMAIN rows : KeyOf(rows[k]) \notin tx[t].keys
    BY DEF DefaultSelectionClean
  <2>1. /\ tx[t].file \in Files
        /\ tx[t].preview = WithDuplicateWarnings(Preview(tx[t].file), tx[t].keys)
    <3>1. LocalOK(tx[t]) /\ tx[t].pc = "shown"
      BY DEF TypeOK, At
    <3> QED BY <3>1, IdleOK DEF LocalOK, Queuing, Importing, Writing, Switching, Rejecting
  <2> QED BY <2>1, DefaultsClean
<1> QED BY <1>1, TypeInit, TypeStep, PTL DEF Spec
=============================================================================
