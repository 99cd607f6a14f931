------------------------ MODULE ArticleTrafficProofs ------------------------
(***************************************************************************)
(* The promises of articles, folders and of the public's traffic for any   *)
(* number of concurrent requests, articles, folders, voters, visits and    *)
(* days.  LocalOK says what a request has in hand at each statement; the   *)
(* other parts of the invariants say what it may rely on until it commits: *)
(* a row it has locked, an id that is new, a receipt it has inserted.      *)
(***************************************************************************)
EXTENDS ArticleTraffic, CollectionTheorems

(* x has the fields of a request. *)
Shaped(x) ==
  x = [op |-> x.op, pc |-> x.pc, id |-> x.id, may |-> x.may, new |-> x.new, read |-> x.read,
       order |-> x.order, prio |-> x.prio, at |-> x.at, visit |-> x.visit, day |-> x.day]

(* Requests about articles *)
Editing(x) ==
  /\ x.id \in Articles /\ x.may \in BOOLEAN /\ x.new \in Writings /\ x.at \in Nat
  /\ \/ x.op = "create" /\ x.pc \in {"check", "write"} /\ (x.may \/ x.new.status # "Published")
        /\ x.read = None
     \/ x.op = "update" /\ x.pc \in {"lock", "check", "write"}
        /\ (x.pc # "lock" => x.read \in ArticleRows)
Removing(x) ==
  x.op = "delete" /\ x.id \in Articles /\ x.may \in BOOLEAN /\ x.pc \in {"lock", "write"}
Switching(x) ==
  /\ x.op \in {"publish", "unpublish"} /\ x.id \in Articles /\ x.may /\ x.at \in Nat
  /\ x.pc \in {"read", "write"} /\ (x.pc = "write" => x.read \in ArticleRows)

(* Requests about folders and tags *)
Filing(x) ==
  \/ /\ x.op = "createFolder" /\ x.id \in Folders /\ x.pc \in {"read", "write"}
     /\ x.pc = "write" => x.prio \in Nat \ {0}
  \/ /\ x.op = "reorderFolders" /\ x.pc \in {"read", "write"}
     /\ \E n \in Nat : x.order \in [1 .. n -> Folders]
     /\ IsInjective(x.order)
  \/ x.op = "deleteFolder" /\ x.id \in Folders /\ x.pc = "write"
Tagging(x) ==
  x.op \in {"createTag", "updateTag", "deleteTag"} /\ x.id \in Tags /\ x.pc = "write"
  /\ x.new = "new"

(* Requests of the public *)
Reacting(x) ==
  /\ x.op = "react" /\ x.id \in Articles /\ x.pc \in {"reaction", "react"}
  /\ x.new \in Voters \X (Kinds \cup {None})
Viewing(x) == x.op = "view" /\ x.id \in Articles /\ x.pc = "view"
Visiting(x) ==
  /\ x.op = "visit" /\ x.visit \in Visit /\ x.day \in 0 .. LastDay
  /\ x.pc \in {"receipt", "audience", "commit", "clean", "engage"}

(* What a request has in hand at each statement *)
LocalOK(x) ==
  /\ Shaped(x)
  /\ \/ x = Idle \/ Editing(x) \/ Removing(x) \/ Switching(x) \/ Filing(x) \/ Tagging(x)
     \/ Reacting(x) \/ Viewing(x) \/ Visiting(x)

TypeOK ==
  /\ tx = [t \in Tx |-> tx[t]] /\ \A t \in Tx : LocalOK(tx[t])
  /\ articles \in [Articles -> ArticleRows \cup {None}]
  /\ prio \in [Folders -> Nat] /\ tags = [g \in Tags |-> tags[g]]
  /\ rowLock \in [Articles -> Tx \cup {None}]
  /\ left \in 0 .. MaxRequests /\ day \in 0 .. LastDay
  /\ keys = [t \in Tx |-> keys[t]]

-----------------------------------------------------------------------------
(* The id of an article that is being created is nobody else's. *)
CreationSafe(t) ==
  tx[t].op = "create" =>
    /\ articles[tx[t].id] = None
    /\ \A u \in Tx \ {t} :
         /\ tx[u].op = "create" => tx[u].id # tx[t].id
         /\ tx[u].op \in {"update", "delete", "publish", "unpublish"} /\ tx[u].id = tx[t].id
              => tx[u].pc \in {"lock", "read"}

(* An update or a deletion that has read the article holds its lock, and what
   it read and checked still holds. *)
ChangeSafe(t) ==
  LET x == tx[t]  old == articles[x.id] IN
  x.op \in {"update", "delete"} /\ x.pc # "lock" =>
    /\ rowLock[x.id] = t /\ old # None
    /\ ~x.may => old.status # "Published" /\ (x.op = "update" => x.new.status # "Published")
    /\ x.op = "update" => x.read.at = old.at

(* A date that set-published or set-draft has seen stays a date. *)
SwitchSafe(t) ==
  tx[t].op \in {"publish", "unpublish"} /\ At(t, "write") /\ tx[t].read.at # None
    /\ articles[tx[t].id] # None => articles[tx[t].id].at # None

PublishedDated == \A a \in Articles : Available(a) => articles[a].at # None

ArticlesInv ==
  /\ TypeOK /\ PublishedDated
  /\ \A t \in Tx : CreationSafe(t) /\ ChangeSafe(t) /\ SwitchSafe(t)

-----------------------------------------------------------------------------
(* The folder and the tags of an article exist. *)
LinksExist ==
  \A a \in Articles : articles[a] # None =>
    prio[articles[a].folder] # 0 /\ \A g \in articles[a].tags : tags[g] # None

LinksInv == TypeOK /\ LinksExist

-----------------------------------------------------------------------------
(* Unless folders raced: what a request that orders folders has read still
   covers the folders there are, and nobody else creates one. *)
OrderSafe(t) ==
  OrdersFolders(t) =>
    /\ tx[t].op = "createFolder" => \A f \in Folders : prio[f] < tx[t].prio
    /\ tx[t].op = "reorderFolders" => Existing \subseteq Range(tx[t].order)
    /\ \A u \in Tx \ {t} : OrdersFolders(u) => tx[t].op # "createFolder"

FoldersInv ==
  /\ TypeOK /\ raced \in BOOLEAN /\ FolderTiesNeedRaces
  /\ ~raced => \A t \in Tx : OrderSafe(t)

-----------------------------------------------------------------------------
(* Locked reaction rows and receipts belong to one transaction. *)
KeysApart == \A t, u \in Tx : t # u => keys[t] \cap keys[u] = {}

KeysOwned == \A t \in Tx : tx[t].op \notin {"react", "visit"} => keys[t] = {}

KeysInv == TypeOK /\ KeysApart /\ KeysOwned

(* A reaction that was read is locked and still stands. *)
ReactionSafe(t) ==
  tx[t].op = "react" /\ At(t, "react") /\ tx[t].read # None =>
    Reaction(t) \in keys[t] /\ reactions[Reaction(t)] = tx[t].read

(* set_reaction: the report counts an event for every change of a reaction
   that is stored, and only then. *)
ReactionsReported == \A a \in Articles : ArticleReport(a).reactions = changes[a]

ReactionsInv ==
  /\ KeysInv /\ ReactionsReported
  /\ reactions = [r \in Articles \X Voters |-> reactions[r]]
  /\ events \in [Articles -> Nat] /\ changes \in [Articles -> Nat]
  /\ \A t \in Tx : ReactionSafe(t)

-----------------------------------------------------------------------------
ReceiptRows == [day : 0 .. LastDay, scope : Targets \cup {Audience}, token : Tokens \cup Visitors,
                source : Sources, engaged : BOOLEAN]

VisitKey(t) == Key(tx[t].day, tx[t].visit.target, tx[t].visit.token)
AudienceKey(t) == Key(tx[t].day, Audience, tx[t].visit.visitor)

(* The receipts a visit holds before it commits are its own two. *)
VisitKeys(t) ==
  tx[t].op = "visit" =>
    /\ keys[t] \subseteq {VisitKey(t), AudienceKey(t)}
    /\ tx[t].pc \in {"audience", "commit"} => VisitKey(t) \in keys[t]
    /\ tx[t].pc = "receipt" => keys[t] = {}

(* The views of a slot whose engaged event may still come *)
Pending(s) == {r \in receipts : <<r.day, r.scope, r.source>> = s /\ ~r.engaged}

EngagedCovered ==
  \A s \in Slots : s[2] \in Targets =>
    counters[s].engaged + Cardinality(Pending(s)) <= counters[s].views

CountersTyped ==
  /\ receipts \subseteq ReceiptRows /\ IsFiniteSet(receipts)
  /\ counters \in [Slots -> [views : Nat, engaged : Nat, visitors : Nat]]

EngagedInv ==
  /\ KeysInv /\ CountersTyped /\ EngagedCovered /\ EngagedWithinViews
  /\ \A t \in Tx : VisitKeys(t)

-----------------------------------------------------------------------------
(* A visit's clock reading is today's or, just after midnight, yesterday's. *)
ClocksNear ==
  \A t \in Tx : tx[t].op = "visit" => tx[t].day <= day /\ day <= tx[t].day + 1

(* A receipt that is being inserted is not there yet. *)
InsertSafe(t) == tx[t].op = "visit" => \A k \in keys[t] : ~Issued(k)

(* While a repetition may come, the receipt of a counted view is kept. *)
SeenIssued == \A s \in seen : day <= s[1] + Retention => Issued(s)

OnceInv ==
  /\ EngagedInv /\ ClocksNear /\ SeenIssued
  /\ seen \subseteq Nat \X Targets \X Tokens
  /\ \A t \in Tx : InsertSafe(t)

-----------------------------------------------------------------------------
(* Going on to another statement changes little of what a request has in hand. *)
Keeps(x, y) ==
  /\ Shaped(y) /\ y.op = x.op /\ y.id = x.id /\ y.may = x.may /\ y.new = x.new
  /\ y.order = x.order /\ y.at = x.at /\ y.visit = x.visit /\ y.day = x.day

LEMMA MoveFields ==
  ASSUME NEW x, Shaped(x), NEW pc, NEW y, y = [x EXCEPT !.pc = pc]
  PROVE  Keeps(x, y) /\ y.pc = pc /\ y.read = x.read /\ y.prio = x.prio
BY DEF Shaped, Keeps

LEMMA IdleOK ==
  LocalOK(Idle) /\ Idle.op = "none" /\ Idle.pc = "idle" /\ ~Idle.may /\ Idle.read = None
BY DEF LocalOK, Shaped, Idle

(* The other requests stay where they are. *)
OthersStay(t) == tx' = [u \in Tx |-> tx'[u]] /\ \A u \in Tx \ {t} : tx'[u] = tx[u]

LEMMA Replaced ==
  ASSUME TypeOK, NEW t \in Tx, NEW y, tx' = [tx EXCEPT ![t] = y]
  PROVE  OthersStay(t) /\ tx'[t] = y
BY DEF TypeOK, OthersStay

(* A step of t takes no article's lock from another request. *)
KeepsLocks(t) == \A a \in Articles, u \in Tx \ {t} : rowLock[a] = u => rowLock'[a] = u

LEMMA EndFields ==
  ASSUME TypeOK, NEW t \in Tx, End(t)
  PROVE  /\ OthersStay(t) /\ tx'[t] = Idle /\ KeepsLocks(t)
         /\ rowLock' \in [Articles -> Tx \cup {None}]
BY DEF TypeOK, End, OthersStay, KeepsLocks

LEMMA FoldersFinite == IsFiniteSet(Folders) /\ \A S \in SUBSET Folders : IsFiniteSet(S)
<1>1. IdOrder \in [1 .. Len(IdOrder) -> Folders] /\ Len(IdOrder) \in Nat /\ Range(IdOrder) = Folders
  BY CatalogAssumptions
<1>2. PICK n, f : n \in Nat /\ f \in [1 .. n -> Folders] /\ Range(f) = Folders
  BY <1>1
<1>3. f \in Surjection(1 .. n, Folders)
  BY <1>2 DEF Surjection, Range
<1>4. IsFiniteSet(1 .. n)
  BY <1>2, FS_Interval
<1>5. IsFiniteSet(Folders)
  BY <1>3, <1>4, FS_Surjection
<1> QED BY <1>5, FS_Subset

-----------------------------------------------------------------------------
(* What is true of a request when it arrives *)
Arrives(t, x) ==
  /\ LocalOK(x)
  /\ tx' = [tx EXCEPT ![t] = x] /\ left' = left - 1
  /\ UNCHANGED <<catalog, rowLock, raced>>
  /\ x.op = "create" => articles[x.id] = None /\ Spare(x.id)
  /\ x.op \in {"update", "delete"} => x.pc = "lock"
  /\ x.op \in {"publish", "unpublish", "createFolder", "reorderFolders"} => x.pc = "read"
  /\ x.op = "react" => x.pc = "reaction"
  /\ x.op = "visit" => x.pc \in {"receipt", "engage"} /\ x.day = day

LEMMA NowIsNat == TypeOK => Now \in Nat
BY CatalogAssumptions DEF TypeOK, Now

LEMMA CreateArrives ==
  ASSUME TypeOK, NEW t \in Tx, NEW a \in Articles, NEW new \in Writings, NEW may \in BOOLEAN,
         BeginCreate(t, a, new, may)
  PROVE  \E x : Arrives(t, x)
<1>0. Shaped(Idle) /\ Idle.read = None
  BY IdleOK DEF LocalOK
<1>1. PICK x : x = [Idle EXCEPT !.op = "create", !.pc = "check", !.id = a, !.new = new,
                             !.may = may, !.at = Now]
  OBVIOUS
<1>2. Shaped(x)
  BY <1>0, <1>1 DEF Shaped
<1>3. x.op = "create" /\ x.pc = "check" /\ x.id = a /\ x.new = new /\ x.may = may /\ x.at = Now
      /\ x.read = None /\ (may \/ new.status # "Published")
  BY <1>0, <1>1 DEF Shaped, BeginCreate
<1>4. LocalOK(x)
  BY <1>2, <1>3, NowIsNat DEF LocalOK, Editing
<1>5. Arrives(t, x)
  BY <1>1, <1>3, <1>4 DEF Arrives, BeginCreate, Begin
<1> QED BY <1>5

LEMMA UpdateArrives ==
  ASSUME TypeOK, NEW t \in Tx, NEW a \in Articles, NEW new \in Writings, NEW may \in BOOLEAN,
         BeginUpdate(t, a, new, may)
  PROVE  \E x : Arrives(t, x)
<1>0. Shaped(Idle) /\ Idle.read = None
  BY IdleOK DEF LocalOK
<1>1. PICK x : x = [Idle EXCEPT !.op = "update", !.pc = "lock", !.id = a, !.new = new,
                             !.may = may, !.at = Now]
  OBVIOUS
<1>2. Shaped(x)
  BY <1>0, <1>1 DEF Shaped
<1>3. x.op = "update" /\ x.pc = "lock" /\ x.id = a /\ x.new = new /\ x.may = may /\ x.at = Now
  BY <1>0, <1>1 DEF Shaped
<1>4. LocalOK(x)
  BY <1>2, <1>3, NowIsNat DEF LocalOK, Editing
<1>5. Arrives(t, x)
  BY <1>1, <1>3, <1>4 DEF Arrives, BeginUpdate, Begin
<1> QED BY <1>5

LEMMA DeleteArrives ==
  ASSUME TypeOK, NEW t \in Tx, NEW a \in Articles, NEW may \in BOOLEAN,
         BeginDelete(t, a, may)
  PROVE  \E x : Arrives(t, x)
<1>0. Shaped(Idle) /\ Idle.read = None
  BY IdleOK DEF LocalOK
<1>1. PICK x : x = [Idle EXCEPT !.op = "delete", !.pc = "lock", !.id = a, !.may = may]
  OBVIOUS
<1>2. Shaped(x)
  BY <1>0, <1>1 DEF Shaped
<1>3. x.op = "delete" /\ x.pc = "lock" /\ x.id = a /\ x.may = may
  BY <1>0, <1>1 DEF Shaped
<1>4. LocalOK(x)
  BY <1>2, <1>3, NowIsNat DEF LocalOK, Removing
<1>5. Arrives(t, x)
  BY <1>1, <1>3, <1>4 DEF Arrives, BeginDelete, Begin
<1> QED BY <1>5

LEMMA SwitchArrives ==
  ASSUME TypeOK, NEW t \in Tx, NEW a \in Articles, NEW op \in {"publish", "unpublish"},
         BeginSwitch(t, a, op)
  PROVE  \E x : Arrives(t, x)
<1>0. Shaped(Idle) /\ Idle.read = None
  BY IdleOK DEF LocalOK
<1>1. PICK x : x = [Idle EXCEPT !.op = op, !.pc = "read", !.id = a, !.may = TRUE, !.at = Now]
  OBVIOUS
<1>2. Shaped(x)
  BY <1>0, <1>1 DEF Shaped
<1>3. x.op = op /\ x.pc = "read" /\ x.id = a /\ x.may = TRUE /\ x.at = Now
  BY <1>0, <1>1 DEF Shaped
<1>4. LocalOK(x)
  BY <1>2, <1>3, NowIsNat DEF LocalOK, Switching
<1>5. Arrives(t, x)
  BY <1>1, <1>3, <1>4 DEF Arrives, BeginSwitch, Begin
<1> QED BY <1>5

LEMMA CreateFolderArrives ==
  ASSUME TypeOK, NEW t \in Tx, NEW f \in Folders,
         BeginCreateFolder(t, f)
  PROVE  \E x : Arrives(t, x)
<1>0. Shaped(Idle) /\ Idle.read = None
  BY IdleOK DEF LocalOK
<1>1. PICK x : x = [Idle EXCEPT !.op = "createFolder", !.pc = "read", !.id = f]
  OBVIOUS
<1>2. Shaped(x)
  BY <1>0, <1>1 DEF Shaped
<1>3. x.op = "createFolder" /\ x.pc = "read" /\ x.id = f
  BY <1>0, <1>1 DEF Shaped
<1>4. LocalOK(x)
  BY <1>2, <1>3, NowIsNat DEF LocalOK, Filing
<1>5. Arrives(t, x)
  BY <1>1, <1>3, <1>4 DEF Arrives, BeginCreateFolder, Begin
<1> QED BY <1>5

LEMMA DeleteFolderArrives ==
  ASSUME TypeOK, NEW t \in Tx, NEW f \in Folders,
         BeginDeleteFolder(t, f)
  PROVE  \E x : Arrives(t, x)
<1>0. Shaped(Idle) /\ Idle.read = None
  BY IdleOK DEF LocalOK
<1>1. PICK x : x = [Idle EXCEPT !.op = "deleteFolder", !.pc = "write", !.id = f]
  OBVIOUS
<1>2. Shaped(x)
  BY <1>0, <1>1 DEF Shaped
<1>3. x.op = "deleteFolder" /\ x.pc = "write" /\ x.id = f
  BY <1>0, <1>1 DEF Shaped
<1>4. LocalOK(x)
  BY <1>2, <1>3, NowIsNat DEF LocalOK, Filing
<1>5. Arrives(t, x)
  BY <1>1, <1>3, <1>4 DEF Arrives, BeginDeleteFolder, Begin
<1> QED BY <1>5

LEMMA TagArrives ==
  ASSUME TypeOK, NEW t \in Tx, NEW g \in Tags, NEW op \in {"createTag", "updateTag", "deleteTag"},
         BeginTag(t, g, op)
  PROVE  \E x : Arrives(t, x)
<1>0. Shaped(Idle) /\ Idle.read = None
  BY IdleOK DEF LocalOK
<1>1. PICK x : x = [Idle EXCEPT !.op = op, !.pc = "write", !.id = g, !.new = "new"]
  OBVIOUS
<1>2. Shaped(x)
  BY <1>0, <1>1 DEF Shaped
<1>3. x.op = op /\ x.pc = "write" /\ x.id = g /\ x.new = "new"
  BY <1>0, <1>1 DEF Shaped
<1>4. LocalOK(x)
  BY <1>2, <1>3, NowIsNat DEF LocalOK, Tagging
<1>5. Arrives(t, x)
  BY <1>1, <1>3, <1>4 DEF Arrives, BeginTag, Begin
<1> QED BY <1>5

LEMMA ReactArrives ==
  ASSUME TypeOK, NEW t \in Tx, NEW a \in Articles, NEW v \in Voters, NEW kind \in ReactionRequests,
         BeginReact(t, a, v, kind)
  PROVE  \E x : Arrives(t, x)
<1>0. Shaped(Idle) /\ Idle.read = None
  BY IdleOK DEF LocalOK
<1>1. PICK x : x = [Idle EXCEPT !.op = "react", !.pc = "reaction", !.id = a, !.new = <<v, kind>>]
  OBVIOUS
<1>2. Shaped(x)
  BY <1>0, <1>1 DEF Shaped
<1>3. x.op = "react" /\ x.pc = "reaction" /\ x.id = a /\ x.new = <<v, kind>>
  BY <1>0, <1>1 DEF Shaped
<1>4. LocalOK(x)
  BY <1>2, <1>3, NowIsNat DEF LocalOK, Reacting, ReactionRequests
<1>5. Arrives(t, x)
  BY <1>1, <1>3, <1>4 DEF Arrives, BeginReact, BeginTraffic, Begin
<1> QED BY <1>5

LEMMA ViewArrives ==
  ASSUME TypeOK, NEW t \in Tx, NEW a \in Articles, NEW event \in {"View", "Engaged"},
         BeginView(t, a, event)
  PROVE  \E x : Arrives(t, x)
<1>0. Shaped(Idle) /\ Idle.read = None
  BY IdleOK DEF LocalOK
<1>1. PICK x : x = [Idle EXCEPT !.op = "view", !.pc = "view", !.id = a, !.new = event]
  OBVIOUS
<1>2. Shaped(x)
  BY <1>0, <1>1 DEF Shaped
<1>3. x.op = "view" /\ x.pc = "view" /\ x.id = a
  BY <1>0, <1>1 DEF Shaped
<1>4. LocalOK(x)
  BY <1>2, <1>3, NowIsNat DEF LocalOK, Viewing
<1>5. Arrives(t, x)
  BY <1>1, <1>3, <1>4 DEF Arrives, BeginView, BeginTraffic, Begin
<1> QED BY <1>5

LEMMA VisitArrives ==
  ASSUME TypeOK, NEW t \in Tx, NEW v \in Visit,
         BeginVisit(t, v)
  PROVE  \E x : Arrives(t, x)
<1>0. Shaped(Idle) /\ Idle.read = None
  BY IdleOK DEF LocalOK
<1>1. PICK x : x = [Idle EXCEPT !.op = "visit", !.visit = v, !.day = day,
                               !.pc = IF v.event = "View" THEN "receipt" ELSE "engage"]
  OBVIOUS
<1>2. Shaped(x)
  BY <1>0, <1>1 DEF Shaped
<1>3. x.op = "visit" /\ x.visit = v /\ x.day = day /\ x.pc \in {"receipt", "engage"}
  BY <1>0, <1>1 DEF Shaped
<1>4. LocalOK(x)
  BY <1>2, <1>3, NowIsNat DEF LocalOK, Visiting, TypeOK
<1>5. Arrives(t, x)
  BY <1>1, <1>3, <1>4 DEF Arrives, BeginVisit, BeginTraffic, Begin
<1> QED BY <1>5

LEMMA ReorderArrives ==
  ASSUME TypeOK, NEW t \in Tx, NEW order \in SetToSeqs(Existing), BeginReorder(t, order)
  PROVE  \E x : Arrives(t, x)
<1>0. Shaped(Idle)
  BY IdleOK DEF LocalOK
<1>1. PICK x : x = [Idle EXCEPT !.op = "reorderFolders", !.pc = "read", !.order = order]
  OBVIOUS
<1>2. Shaped(x)
  BY <1>0, <1>1 DEF Shaped
<1>3. x.op = "reorderFolders" /\ x.pc = "read" /\ x.order = order
  BY <1>0, <1>1 DEF Shaped
<1>4. PICK n : n = Cardinality(Existing)
  OBVIOUS
<1>5. n \in Nat
  BY <1>4, FoldersFinite, FS_CardinalityType DEF Existing
<1>6. order \in [1 .. n -> Existing] /\ \A i, j \in 1 .. n : i # j => order[i] # order[j]
  BY <1>4 DEF SetToSeqs
<1>7. order \in [1 .. n -> Folders] /\ IsInjective(order)
  BY <1>6 DEF IsInjective, Existing
<1>8. LocalOK(x)
  BY <1>2, <1>3, <1>5, <1>7 DEF LocalOK, Filing
<1>9. Arrives(t, x)
  BY <1>1, <1>3, <1>8 DEF Arrives, BeginReorder, Begin
<1> QED BY <1>9

LEMMA RequestArrives ==
  ASSUME TypeOK, NEW t \in Tx, Request(t)
  PROVE  (\E x : Arrives(t, x)) /\ UNCHANGED <<traffic, keys, day, history>>
<1>1. UNCHANGED <<traffic, keys, day, history>>
  BY DEF Request, BeginReact, BeginView, BeginVisit, BeginTraffic
<1>2. ASSUME CatalogRequest(t) PROVE \E x : Arrives(t, x)
  BY <1>2, CreateArrives, UpdateArrives, DeleteArrives, SwitchArrives, CreateFolderArrives,
     DeleteFolderArrives, TagArrives, ReorderArrives DEF CatalogRequest
<1> QED BY <1>1, <1>2, ReactArrives, ViewArrives, VisitArrives DEF Request

-----------------------------------------------------------------------------
(* Where a request stands tells what it is about. *)
LEMMA Standing ==
  ASSUME TypeOK, NEW t \in Tx
  PROVE  /\ Shaped(tx[t])
         /\ At(t, "idle") => tx[t] = Idle
         /\ tx[t].op \in {"create", "update"} => Editing(tx[t])
         /\ tx[t].op = "delete" => Removing(tx[t])
         /\ tx[t].op \in {"publish", "unpublish"} => Switching(tx[t])
         /\ tx[t].op \in {"createFolder", "reorderFolders", "deleteFolder"} => Filing(tx[t])
         /\ tx[t].op \in {"createTag", "updateTag", "deleteTag"} => Tagging(tx[t])
         /\ tx[t].op = "react" => Reacting(tx[t])
         /\ tx[t].op = "view" => Viewing(tx[t])
         /\ tx[t].op = "visit" => Visiting(tx[t])
         /\ At(t, "lock") => tx[t].op \in {"update", "delete"}
         /\ At(t, "check") => tx[t].op \in {"create", "update"}
         /\ tx[t].pc \in {"reaction", "react"} => tx[t].op = "react"
         /\ At(t, "view") => tx[t].op = "view"
         /\ tx[t].pc \in {"receipt", "audience", "commit", "clean", "engage"} => tx[t].op = "visit"
<1>1. LocalOK(tx[t])
  BY DEF TypeOK
<1>2. PICK x : x = tx[t]
  OBVIOUS
<1>3. LocalOK(x) /\ (x = Idle => x.op = "none" /\ x.pc = "idle")
  BY <1>1, <1>2, IdleOK
<1> HIDE DEF Idle
<1> QED BY <1>2, <1>3 DEF LocalOK, Editing, Removing, Switching, Filing, Tagging, Reacting,
                          Viewing, Visiting, At

LEMMA LockArticleMoves ==
  ASSUME TypeOK, NEW t \in Tx, LockArticle(t), ~Fail(t)
  PROVE  /\ OthersStay(t) /\ Keeps(tx[t], tx'[t]) /\ KeepsLocks(t)
         /\ tx[t].pc = "lock" /\ tx[t].op \in {"update", "delete"} /\ tx[t].id \in Articles
         /\ tx'[t].pc = IF tx[t].op = "update" THEN "check" ELSE "write"
         /\ tx'[t].read = articles[tx[t].id] /\ articles[tx[t].id] # None /\ ~Refused(t)
         /\ rowLock' \in [Articles -> Tx \cup {None}] /\ rowLock'[tx[t].id] = t
         /\ UNCHANGED <<catalog, left, raced>>
<1>1. /\ tx[t].pc = "lock" /\ rowLock[tx[t].id] = None /\ ~Refused(t)
      /\ tx' = [tx EXCEPT ![t] = [tx[t] EXCEPT !.pc = IF tx[t].op = "update" THEN "check" ELSE "write",
                                               !.read = articles[tx[t].id]]]
      /\ rowLock' = [rowLock EXCEPT ![tx[t].id] = t]
      /\ UNCHANGED <<catalog, left, raced>>
  BY DEF LockArticle, Goto, At
<1>2. tx[t].op \in {"update", "delete"} /\ tx[t].id \in Articles /\ Shaped(tx[t])
  BY <1>1, Standing DEF At, Editing, Removing
<1>3. articles[tx[t].id] # None
  BY <1>1 DEF Refused
<1>4. KeepsLocks(t) /\ rowLock' \in [Articles -> Tx \cup {None}] /\ rowLock'[tx[t].id] = t
  BY <1>1, <1>2, CatalogAssumptions DEF KeepsLocks, TypeOK
<1>5. PICK x, pc, old, y :
        /\ x = tx[t] /\ pc = (IF tx[t].op = "update" THEN "check" ELSE "write")
        /\ old = articles[tx[t].id] /\ y = [x EXCEPT !.pc = pc, !.read = old]
  OBVIOUS
<1>6. Keeps(x, y) /\ y.pc = pc /\ y.read = old
  <2>1. Shaped(x)
    BY <1>2, <1>5
  <2> QED BY <1>5, <2>1 DEF Shaped, Keeps
<1>7. OthersStay(t) /\ tx'[t] = y
  BY <1>1, <1>5, Replaced
<1> QED BY <1>1, <1>2, <1>3, <1>4, <1>5, <1>6, <1>7

LEMMA CheckReferencesMoves ==
  ASSUME TypeOK, NEW t \in Tx, CheckReferences(t), ~Fail(t)
  PROVE  /\ OthersStay(t) /\ Keeps(tx[t], tx'[t]) /\ tx[t].pc = "check" /\ tx'[t].pc = "write"
         /\ tx[t].op \in {"create", "update"} /\ tx'[t].read = tx[t].read
         /\ UNCHANGED <<catalog, left, rowLock, raced>>
<1>1. /\ tx[t].pc = "check" /\ tx' = [tx EXCEPT ![t] = [tx[t] EXCEPT !.pc = "write"]]
      /\ UNCHANGED <<catalog, left, rowLock, raced>>
  BY DEF CheckReferences, Goto, At
<1>2. tx[t].op \in {"create", "update"} /\ Shaped(tx[t])
  BY <1>1, Standing DEF At
<1>3. PICK y : y = [tx[t] EXCEPT !.pc = "write"]
  OBVIOUS
<1>4. Keeps(tx[t], y) /\ y.pc = "write" /\ y.read = tx[t].read
  BY <1>2, <1>3, MoveFields
<1> QED BY <1>1, <1>2, <1>3, <1>4, Replaced

LEMMA ReadForSwitchMoves ==
  ASSUME TypeOK, NEW t \in Tx, tx[t].op \in {"publish", "unpublish"}, ReadForSwitch(t), ~Fail(t)
  PROVE  /\ OthersStay(t) /\ Keeps(tx[t], tx'[t]) /\ tx[t].pc = "read" /\ tx'[t].pc = "write"
         /\ tx'[t].read = articles[tx[t].id] /\ articles[tx[t].id] # None /\ tx[t].id \in Articles
         /\ UNCHANGED <<catalog, left, rowLock, raced>>
<1>1. /\ tx[t].pc = "read" /\ articles[tx[t].id] # None
      /\ tx' = [tx EXCEPT ![t] = [tx[t] EXCEPT !.pc = "write", !.read = articles[tx[t].id]]]
      /\ UNCHANGED <<catalog, left, rowLock, raced>>
  BY DEF ReadForSwitch, Goto, At
<1>2. tx[t].id \in Articles /\ Shaped(tx[t])
  BY Standing DEF Switching
<1>3. PICK x, old, y :
        x = tx[t] /\ old = articles[tx[t].id] /\ y = [x EXCEPT !.pc = "write", !.read = old]
  OBVIOUS
<1>4. Keeps(x, y) /\ y.pc = "write" /\ y.read = old
  <2>1. Shaped(x)
    BY <1>2, <1>3
  <2> QED BY <1>3, <2>1 DEF Shaped, Keeps
<1>5. OthersStay(t) /\ tx'[t] = y
  BY <1>1, <1>3, Replaced
<1> QED BY <1>1, <1>2, <1>3, <1>4, <1>5

LEMMA ReadFoldersMoves ==
  ASSUME TypeOK, NEW t \in Tx, ReadFolders(t), ~Fail(t)
  PROVE  /\ OthersStay(t) /\ Keeps(tx[t], tx'[t]) /\ tx[t].pc = "read" /\ tx'[t].pc = "write"
         /\ tx[t].op \in {"createFolder", "reorderFolders"} /\ tx'[t].prio = NextFolderPriority
         /\ tx[t].op = "reorderFolders" => Range(tx[t].order) = Existing
         /\ raced' = (raced \/ \E u \in Tx \ {t} :
                        OrdersFolders(u) /\ "createFolder" \in {tx[t].op, tx[u].op})
         /\ UNCHANGED <<catalog, left, rowLock>>
<1>1. /\ tx[t].pc = "read" /\ tx[t].op \in {"createFolder", "reorderFolders"}
      /\ tx[t].op = "reorderFolders" => Range(tx[t].order) = Existing
      /\ tx' = [tx EXCEPT ![t] = [tx[t] EXCEPT !.pc = "write", !.prio = NextFolderPriority]]
      /\ raced' = (raced \/ \E u \in Tx \ {t} :
                     OrdersFolders(u) /\ "createFolder" \in {tx[t].op, tx[u].op})
      /\ UNCHANGED <<catalog, left, rowLock>>
  BY DEF ReadFolders, Goto, At
<1>2. Shaped(tx[t])
  BY Standing
<1>3. PICK x, p, y :
        x = tx[t] /\ p = NextFolderPriority /\ y = [x EXCEPT !.pc = "write", !.prio = p]
  OBVIOUS
<1>4. Keeps(x, y) /\ y.pc = "write" /\ y.prio = p
  <2>1. Shaped(x)
    BY <1>2, <1>3
  <2> QED BY <1>3, <2>1 DEF Shaped, Keeps
<1>5. OthersStay(t) /\ tx'[t] = y
  BY <1>1, <1>3, Replaced
<1> QED BY <1>1, <1>3, <1>4, <1>5

LEMMA LockReactionMoves ==
  ASSUME TypeOK, NEW t \in Tx, LockReaction(t)
  PROVE  /\ OthersStay(t) /\ Keeps(tx[t], tx'[t]) /\ tx[t].pc = "reaction" /\ tx'[t].pc = "react"
         /\ tx[t].op = "react" /\ tx'[t].read = reactions[Reaction(t)] /\ Free(t, Reaction(t))
         /\ keys' = [keys EXCEPT ![t] = Locked(Reaction(t))]
         /\ UNCHANGED <<catalog, left, rowLock, raced, traffic, day, history>>
<1>1. /\ tx[t].pc = "reaction" /\ Free(t, Reaction(t))
      /\ tx' = [tx EXCEPT ![t] = [tx[t] EXCEPT !.pc = "react", !.read = reactions[Reaction(t)]]]
      /\ keys' = [keys EXCEPT ![t] = Locked(Reaction(t))]
      /\ UNCHANGED <<catalog, left, rowLock, raced, traffic, day, history>>
  BY DEF LockReaction, Goto, At
<1>2. tx[t].op = "react" /\ Shaped(tx[t])
  BY <1>1, Standing
<1>3. PICK x, kind, y :
        x = tx[t] /\ kind = reactions[Reaction(t)] /\ y = [x EXCEPT !.pc = "react", !.read = kind]
  OBVIOUS
<1>4. Keeps(x, y) /\ y.pc = "react" /\ y.read = kind
  <2>1. Shaped(x)
    BY <1>2, <1>3
  <2> QED BY <1>3, <2>1 DEF Shaped, Keeps
<1>5. OthersStay(t) /\ tx'[t] = y
  BY <1>1, <1>3, Replaced
<1> QED BY <1>1, <1>2, <1>3, <1>4, <1>5

LEMMA AdvanceMoves ==
  ASSUME TypeOK, NEW t \in Tx, NEW pc, NEW locked, Advance(t, pc, locked)
  PROVE  /\ OthersStay(t) /\ Keeps(tx[t], tx'[t]) /\ tx'[t].pc = pc /\ tx'[t].read = tx[t].read
         /\ keys' = [keys EXCEPT ![t] = @ \cup locked]
         /\ UNCHANGED <<catalog, left, rowLock, raced, traffic, day, history>>
<1>1. /\ tx' = [tx EXCEPT ![t] = [tx[t] EXCEPT !.pc = pc]]
      /\ keys' = [keys EXCEPT ![t] = @ \cup locked]
      /\ UNCHANGED <<catalog, left, rowLock, raced, traffic, day, history>>
  BY DEF Advance, Goto
<1>2. Shaped(tx[t])
  BY Standing
<1>3. PICK y : y = [tx[t] EXCEPT !.pc = pc]
  OBVIOUS
<1>4. Keeps(tx[t], y) /\ y.pc = pc /\ y.read = tx[t].read
  BY <1>2, <1>3, MoveFields
<1>5. OthersStay(t) /\ tx'[t] = y
  BY <1>1, <1>3, Replaced
<1> QED BY <1>1, <1>4, <1>5

-----------------------------------------------------------------------------
(* A finite set of numbers has a maximum: a smallest one without would have
   one once a member is added to what it is without that member. *)
LEMMA MaxExists ==
  ASSUME NEW S, S \subseteq Nat, IsFiniteSet(S), S # {}
  PROVE  Max(S) \in S /\ \A n \in S : n <= Max(S)
<1>1. S # {} /\ \E m \in S : \A n \in S : n <= m
  BY LargestExists
<1>2. \E m \in S : \A n \in S : m >= n
  BY <1>1
<1>3. Max(S) \in S /\ \A n \in S : Max(S) >= n
  BY <1>2 DEF Max
<1> QED BY <1>3

(* next_folder_priority exceeds the priority of every folder. *)
LEMMA NextIsNew ==
  ASSUME TypeOK
  PROVE  NextFolderPriority \in Nat \ {0} /\ \A f \in Folders : prio[f] < NextFolderPriority
<1> DEFINE taken == {prio[f] : f \in Existing}
<1>1. Existing \subseteq Folders /\ IsFiniteSet(Existing)
  BY FoldersFinite DEF Existing
<1>2. [f \in Existing |-> prio[f]] \in Surjection(Existing, taken)
  BY DEF Surjection
<1>3. IsFiniteSet(taken)
  BY <1>1, <1>2, FS_Surjection
<1>4. IsFiniteSet({0} \cup taken)
  <2>1. IsFiniteSet(taken \cup {0})
    BY <1>3, FS_AddElement
  <2>2. {0} \cup taken = taken \cup {0}
    OBVIOUS
  <2> QED BY <2>1, <2>2
<1>5. taken \subseteq Nat
  BY <1>1 DEF TypeOK
<1>6. PICK S : S = {0} \cup taken
  OBVIOUS
<1>7. Max(S) \in S /\ \A n \in S : n <= Max(S)
  <2>1. S \subseteq Nat /\ IsFiniteSet(S) /\ S # {}
    BY <1>4, <1>5, <1>6
  <2> QED BY <2>1, MaxExists
<1>8. NextFolderPriority = 1 + Max(S) /\ Max(S) \in Nat
  BY <1>5, <1>6, <1>7 DEF NextFolderPriority
<1>9. ASSUME NEW f \in Folders PROVE prio[f] \in S /\ prio[f] \in Nat
  BY <1>6 DEF Existing, TypeOK
<1>10. \A f \in Folders : prio[f] < 1 + Max(S)
  BY <1>7, <1>8, <1>9
<1>11. 1 + Max(S) \in Nat \ {0}
  BY <1>8
<1> QED BY <1>8, <1>10, <1>11

-----------------------------------------------------------------------------
(* The row that WriteArticle leaves, by operation *)
RowWritten(x, old, row) ==
  /\ row \in ArticleRows
  /\ x.op \in {"create", "update"} =>
       /\ row.status = x.new.status /\ row.folder = x.new.folder /\ prio[x.new.folder] # 0
       /\ \A g \in row.tags : tags[g] # None
  /\ x.op = "create" => row.at = CreatedAt(x.new, x.at)
  /\ x.op # "create" => old # None
  /\ x.op = "update" => row.at = UpdatedAt(x.read.at, x.new, x.at)
  /\ x.op \in {"publish", "unpublish"} =>
       /\ row.folder = old.folder /\ row.tags = old.tags
       /\ row.status \in {old.status, IF x.op = "publish" THEN "Published" ELSE "Draft"}
       /\ row.at = IF x.op = "publish" /\ x.read.at = None THEN x.at ELSE old.at

LEMMA WrittenRow ==
  ASSUME NEW new \in Writings, NEW at \in Nat \cup {None}, NEW row, row = Written(new, at)
  PROVE  /\ row \in ArticleRows /\ row.status = new.status /\ row.folder = new.folder
         /\ row.at = at /\ \A g \in row.tags : tags[g] # None
<1>1. new \in Writing
  BY CatalogAssumptions
<1> QED BY <1>1 DEF Written, Writing, ArticleRows

LEMMA SwitchedRow ==
  ASSUME NEW x, x.op \in {"publish", "unpublish"}, x.at \in Nat, x.read \in ArticleRows,
         NEW old \in ArticleRows, NEW row, row = Switched(x, old)
  PROVE  /\ row \in ArticleRows /\ row.folder = old.folder /\ row.tags = old.tags
         /\ row.status \in {old.status, IF x.op = "publish" THEN "Published" ELSE "Draft"}
         /\ row.at = IF x.op = "publish" /\ x.read.at = None THEN x.at ELSE old.at
<1>1. PICK status, at :
        /\ status = (LET s == IF x.op = "publish" THEN "Published" ELSE "Draft" IN
                     IF s = x.read.status THEN old.status ELSE s)
        /\ at = IF x.op = "publish" /\ x.read.at = None THEN x.at ELSE old.at
  OBVIOUS
<1>2. row = [old EXCEPT !.status = status, !.at = at]
  BY <1>1 DEF Switched
<1>3. status \in {"Draft", "Published"} /\ at \in Nat \cup {None}
  BY <1>1 DEF ArticleRows
<1>4. /\ row \in ArticleRows /\ row.folder = old.folder /\ row.tags = old.tags
      /\ row.status = status /\ row.at = at
  BY <1>2, <1>3 DEF ArticleRows
<1> QED BY <1>1, <1>4

LEMMA WriteArticleEffect ==
  ASSUME TypeOK, NEW t \in Tx, WriteArticle(t), ~Fail(t)
  PROVE  /\ tx[t].op \in {"create", "update", "publish", "unpublish"} /\ tx[t].pc = "write"
         /\ tx[t].id \in Articles /\ rowLock[tx[t].id] \in {None, t}
         /\ End(t) /\ UNCHANGED <<prio, tags>>
         /\ \E row : /\ RowWritten(tx[t], articles[tx[t].id], row)
                     /\ articles' = [articles EXCEPT ![tx[t].id] = row]
<1>1. PICK x, old : x = tx[t] /\ old = articles[x.id]
  OBVIOUS
<1>2. /\ x.op \in {"create", "update", "publish", "unpublish"} /\ x.pc = "write"
      /\ rowLock[x.id] \in {None, t} /\ End(t) /\ UNCHANGED <<prio, tags>>
      /\ x.op \in {"create", "update"} => ForeignKeysHold(x)
      /\ x.op # "create" => old # None
      /\ articles' = [articles EXCEPT ![x.id] =
                CASE x.op = "create" -> Written(x.new, CreatedAt(x.new, x.at))
                  [] x.op = "update" -> Written(x.new, UpdatedAt(x.read.at, x.new, x.at))
                  [] OTHER -> Switched(x, old)]
  BY <1>1 DEF WriteArticle, At
<1>3. x.id \in Articles /\ (Editing(x) \/ Switching(x))
  BY <1>1, <1>2, Standing DEF Editing, Switching
<1>4. PICK row : row = CASE x.op = "create" -> Written(x.new, CreatedAt(x.new, x.at))
                         [] x.op = "update" -> Written(x.new, UpdatedAt(x.read.at, x.new, x.at))
                         [] OTHER -> Switched(x, old)
  OBVIOUS
<1>5. RowWritten(x, old, row)
  <2>1. CASE x.op = "create"
    <3>1. x.new \in Writings /\ x.at \in Nat
      BY <1>3, <2>1 DEF Editing, Switching
    <3>2. CreatedAt(x.new, x.at) \in Nat \cup {None}
      BY <3>1 DEF CreatedAt
    <3>3. PICK new, at : new = x.new /\ at = CreatedAt(x.new, x.at)
      OBVIOUS
    <3>4. row = Written(new, at)
      BY <1>4, <2>1, <3>3
    <3>5. prio[x.new.folder] # 0
      BY <1>2, <2>1 DEF ForeignKeysHold
    <3>6. /\ row \in ArticleRows /\ row.status = new.status /\ row.folder = new.folder
          /\ row.at = at /\ \A g \in row.tags : tags[g] # None
      <4>1. new \in Writings /\ at \in Nat \cup {None}
        BY <3>1, <3>2, <3>3
      <4> QED BY <3>4, <4>1, WrittenRow
    <3> QED BY <2>1, <3>3, <3>5, <3>6 DEF RowWritten
  <2>2. CASE x.op = "update"
    <3>1. x.new \in Writings /\ x.at \in Nat /\ x.read \in ArticleRows
      BY <1>2, <1>3, <2>2 DEF Editing, Switching
    <3>2. UpdatedAt(x.read.at, x.new, x.at) \in Nat \cup {None}
      BY <3>1 DEF UpdatedAt, ArticleRows
    <3>3. PICK new, at : new = x.new /\ at = UpdatedAt(x.read.at, x.new, x.at)
      OBVIOUS
    <3>4. row = Written(new, at)
      BY <1>4, <2>2, <3>3
    <3>5. prio[x.new.folder] # 0 /\ old # None
      BY <1>2, <2>2 DEF ForeignKeysHold
    <3>6. /\ row \in ArticleRows /\ row.status = new.status /\ row.folder = new.folder
          /\ row.at = at /\ \A g \in row.tags : tags[g] # None
      <4>1. new \in Writings /\ at \in Nat \cup {None}
        BY <3>1, <3>2, <3>3
      <4> QED BY <3>4, <4>1, WrittenRow
    <3> QED BY <2>2, <3>3, <3>5, <3>6 DEF RowWritten
  <2>3. CASE x.op \in {"publish", "unpublish"}
    <3>1. x.at \in Nat /\ x.read \in ArticleRows /\ old # None
      BY <1>2, <1>3, <2>3 DEF Editing, Switching
    <3>2. old \in ArticleRows
      BY <1>1, <1>3, <3>1 DEF TypeOK
    <3>3. row = Switched(x, old)
      BY <1>4, <2>3
    <3> QED BY <2>3, <3>1, <3>2, <3>3, SwitchedRow DEF RowWritten
  <2> QED BY <1>2, <2>1, <2>2, <2>3
<1>6. articles' = [articles EXCEPT ![x.id] = row]
  BY <1>2, <1>4
<1> QED BY <1>1, <1>2, <1>3, <1>5, <1>6

(* An article that keeps its row, but perhaps loses tags *)
Alike(old, new) ==
  /\ old = None => new = None
  /\ old # None => /\ new \in ArticleRows /\ new.status = old.status /\ new.at = old.at
                   /\ new.folder = old.folder /\ new.tags \subseteq old.tags

LEMMA WriteTagEffect ==
  ASSUME TypeOK, NEW t \in Tx, WriteTag(t), ~Fail(t)
  PROVE  /\ End(t) /\ UNCHANGED prio /\ tags' = [g \in Tags |-> tags'[g]]
         /\ articles' \in [Articles -> ArticleRows \cup {None}]
         /\ \A a \in Articles : Alike(articles[a], articles'[a])
         /\ \A g \in Tags : tags[g] # None /\ tags'[g] = None =>
              \A a \in Articles : articles'[a] # None => g \notin articles'[a].tags
<1>1. /\ tx[t].op \in {"createTag", "updateTag", "deleteTag"} /\ End(t) /\ UNCHANGED prio
      /\ tags' = [tags EXCEPT ![tx[t].id] = IF tx[t].op = "deleteTag" THEN None ELSE tx[t].new]
      /\ articles' = IF tx[t].op = "deleteTag"
                     THEN [a \in Articles |-> IF articles[a] = None THEN None
                             ELSE [articles[a] EXCEPT !.tags = @ \ {tx[t].id}]]
                     ELSE articles
  BY DEF WriteTag
<1>2. tx[t].new = "new" /\ tx[t].id \in Tags
  BY <1>1, Standing DEF Tagging
<1>3. \A a \in Articles : articles[a] \in ArticleRows \cup {None}
  BY DEF TypeOK
<1>4. tags' = [g \in Tags |-> tags'[g]]
  BY <1>1 DEF TypeOK
<1>5. CASE tx[t].op # "deleteTag"
  <2>1. articles' = articles
    BY <1>1, <1>5
  <2>2. \A g \in Tags : tags[g] # None => tags'[g] # None
    BY <1>1, <1>2, <1>5, CatalogAssumptions DEF TypeOK
  <2>3. \A a \in Articles : Alike(articles[a], articles'[a])
    BY <1>3, <2>1 DEF Alike
  <2>4. articles' \in [Articles -> ArticleRows \cup {None}]
    BY <2>1 DEF TypeOK
  <2> QED BY <1>1, <1>4, <2>2, <2>3, <2>4
<1>6. CASE tx[t].op = "deleteTag"
  <2>1. articles' = [a \in Articles |-> IF articles[a] = None THEN None
                             ELSE [articles[a] EXCEPT !.tags = @ \ {tx[t].id}]]
    BY <1>1, <1>6
  <2>2. ASSUME NEW a \in Articles, articles[a] # None
        PROVE  Alike(articles[a], articles'[a]) /\ tx[t].id \notin articles'[a].tags
    <3>1. PICK old, id : old = articles[a] /\ id = tx[t].id
      OBVIOUS
    <3>2. articles'[a] = [old EXCEPT !.tags = @ \ {id}]
      BY <2>1, <2>2, <3>1
    <3>3. old \in ArticleRows
      BY <1>3, <2>2, <3>1
    <3>4. /\ articles'[a] \in ArticleRows /\ articles'[a].status = old.status
          /\ articles'[a].at = old.at /\ articles'[a].folder = old.folder
          /\ articles'[a].tags = old.tags \ {id}
      BY <3>2, <3>3 DEF ArticleRows
    <3> QED BY <2>2, <3>1, <3>4 DEF Alike
  <2>3. ASSUME NEW a \in Articles, articles[a] = None PROVE articles'[a] = None
    BY <2>1, <2>3
  <2>4. \A a \in Articles : Alike(articles[a], articles'[a])
    BY <2>2, <2>3 DEF Alike
  <2>5. \A g \in Tags : tags[g] # None /\ tags'[g] = None => g = tx[t].id
    BY <1>1, <1>6 DEF TypeOK
  <2>6. articles' \in [Articles -> ArticleRows \cup {None}]
    <3>1. \A a \in Articles : articles'[a] \in ArticleRows \cup {None}
      BY <2>2, <2>3 DEF Alike
    <3>2. articles' = [a \in Articles |-> articles'[a]]
      BY <2>1
    <3> QED BY <3>1, <3>2
  <2>7. \A a \in Articles : articles'[a] # None => tx[t].id \notin articles'[a].tags
    BY <2>2, <2>3
  <2>8. \A g \in Tags : tags[g] # None /\ tags'[g] = None =>
           \A a \in Articles : articles'[a] # None => g \notin articles'[a].tags
    <3> SUFFICES ASSUME NEW g \in Tags, tags[g] # None, tags'[g] = None,
                        NEW a \in Articles, articles'[a] # None
                 PROVE  g \notin articles'[a].tags
      OBVIOUS
    <3>1. g = tx[t].id
      BY <2>5
    <3> QED BY <2>7, <3>1
  <2> QED BY <1>1, <1>4, <2>4, <2>6, <2>8
<1> QED BY <1>5, <1>6

LEMMA WriteFoldersEffect ==
  ASSUME TypeOK, NEW t \in Tx, WriteFolders(t), ~Fail(t)
  PROVE  /\ End(t) /\ UNCHANGED <<articles, tags>> /\ tx[t].pc = "write"
         /\ prio' \in [Folders -> Nat]
         /\ \/ /\ tx[t].op = "createFolder" /\ tx[t].id \in Folders /\ tx[t].prio \in Nat \ {0}
               /\ prio' = [prio EXCEPT ![tx[t].id] = tx[t].prio]
            \/ /\ tx[t].op = "reorderFolders" /\ Filing(tx[t])
               /\ \A f \in Folders : IF prio[f] # 0 /\ f \in Range(tx[t].order)
                                     THEN /\ prio'[f] \in DOMAIN tx[t].order
                                          /\ tx[t].order[prio'[f]] = f
                                          /\ prio'[f] # 0
                                     ELSE prio'[f] = prio[f]
            \/ /\ tx[t].op = "deleteFolder" /\ tx[t].id \in Folders /\ FolderEmpty(tx[t].id)
               /\ prio' = [prio EXCEPT ![tx[t].id] = 0]
<1>1. /\ End(t) /\ UNCHANGED <<articles, tags>> /\ tx[t].pc = "write"
      /\ \/ tx[t].op = "createFolder" /\ prio' = [prio EXCEPT ![tx[t].id] = tx[t].prio]
         \/ tx[t].op = "reorderFolders" /\ prio' = Reordered(tx[t].order)
         \/ /\ tx[t].op = "deleteFolder" /\ FolderEmpty(tx[t].id)
            /\ prio' = [prio EXCEPT ![tx[t].id] = 0]
  BY DEF WriteFolders, At
<1>2. CASE tx[t].op = "createFolder"
  <2>1. tx[t].id \in Folders /\ tx[t].prio \in Nat \ {0}
    BY <1>1, <1>2, Standing DEF Filing
  <2> QED BY <1>1, <1>2, <2>1 DEF TypeOK
<1>3. CASE tx[t].op = "deleteFolder"
  <2>1. tx[t].id \in Folders
    BY <1>3, Standing DEF Filing
  <2> QED BY <1>1, <1>3, <2>1 DEF TypeOK
<1>4. CASE tx[t].op = "reorderFolders"
  <2>1. Filing(tx[t])
    BY <1>4, Standing
  <2>2. PICK n, order : n \in Nat /\ order = tx[t].order /\ order \in [1 .. n -> Folders]
    BY <1>4, <2>1 DEF Filing
  <2>3. prio' = [f \in Folders |-> IF prio[f] # 0 /\ f \in Range(order)
                                   THEN CHOOSE k \in DOMAIN order : order[k] = f ELSE prio[f]]
    BY <1>1, <1>4, <2>2 DEF Reordered
  <2>4. ASSUME NEW f \in Folders, prio[f] # 0, f \in Range(order)
        PROVE  prio'[f] \in 1 .. n /\ order[prio'[f]] = f
    <3>1. \E k \in 1 .. n : order[k] = f
      BY <2>2, <2>4 DEF Range
    <3>2. prio'[f] = CHOOSE k \in 1 .. n : order[k] = f
      BY <2>2, <2>3, <2>4
    <3> QED BY <3>1, <3>2
  <2>5. ASSUME NEW f \in Folders, ~(prio[f] # 0 /\ f \in Range(order)) PROVE prio'[f] = prio[f]
    BY <2>3, <2>5
  <2>6. \A f \in Folders : prio'[f] \in Nat
    BY <2>4, <2>5 DEF TypeOK
  <2>7. prio' = [f \in Folders |-> prio'[f]]
    BY <2>3
  <2>8. prio' \in [Folders -> Nat]
    BY <2>6, <2>7
  <2>9. \A f \in Folders : IF prio[f] # 0 /\ f \in Range(order)
                           THEN prio'[f] \in DOMAIN order /\ order[prio'[f]] = f /\ prio'[f] # 0
                           ELSE prio'[f] = prio[f]
    BY <2>2, <2>4, <2>5
  <2> QED BY <1>1, <1>4, <2>1, <2>2, <2>8, <2>9
<1> QED BY <1>1, <1>2, <1>3, <1>4

-----------------------------------------------------------------------------
(* Types *)

LEMMA EndTyped ==
  ASSUME TypeOK, NEW t \in Tx, End(t), articles' \in [Articles -> ArticleRows \cup {None}],
         prio' \in [Folders -> Nat], tags' = [g \in Tags |-> tags'[g]], day' = day,
         keys' = [u \in Tx |-> keys'[u]]
  PROVE  TypeOK'
<1>1. OthersStay(t) /\ tx'[t] = Idle /\ rowLock' \in [Articles -> Tx \cup {None}]
  BY EndFields
<1>2. \A u \in Tx : LocalOK(tx'[u])
  BY <1>1, IdleOK DEF OthersStay, TypeOK
<1>3. tx' = [u \in Tx |-> tx'[u]]
  BY <1>1 DEF OthersStay
<1>4. left' \in 0 .. MaxRequests /\ day' \in 0 .. LastDay
  BY DEF End, TypeOK
<1> QED BY <1>1, <1>2, <1>3, <1>4 DEF TypeOK

LEMMA MoveTyped ==
  ASSUME TypeOK, NEW t \in Tx, OthersStay(t), LocalOK(tx'[t]), UNCHANGED <<catalog, left, day>>,
         rowLock' \in [Articles -> Tx \cup {None}], keys' = [u \in Tx |-> keys'[u]]
  PROVE  TypeOK'
<1>1. \A u \in Tx : LocalOK(tx'[u])
  BY DEF OthersStay, TypeOK
<1>2. tx' = [u \in Tx |-> tx'[u]]
  BY DEF OthersStay
<1>3. UNCHANGED <<articles, prio, tags>>
  BY DEF catalog
<1> QED BY <1>1, <1>2, <1>3 DEF TypeOK

LEMMA FailTyped ==
  ASSUME TypeOK, NEW t \in Tx, Fail(t), day' = day, keys' = [u \in Tx |-> keys'[u]]
  PROVE  TypeOK'
<1>1. End(t) /\ UNCHANGED <<articles, prio, tags>>
  BY DEF Fail, catalog
<1> QED BY <1>1, EndTyped DEF TypeOK

LEMMA ArriveTyped ==
  ASSUME TypeOK, NEW t \in Tx, left > 0, NEW x, Arrives(t, x), UNCHANGED <<keys, day>>
  PROVE  TypeOK'
<1>1. tx' = [tx EXCEPT ![t] = x] /\ LocalOK(x) /\ left' = left - 1
      /\ UNCHANGED <<articles, prio, tags, rowLock>>
  BY DEF Arrives, catalog
<1>2. OthersStay(t) /\ tx'[t] = x
  BY <1>1, Replaced
<1>3. \A u \in Tx : LocalOK(tx'[u])
  BY <1>1, <1>2 DEF OthersStay, TypeOK
<1>4. tx' = [u \in Tx |-> tx'[u]]
  BY <1>2 DEF OthersStay
<1>5. left \in 0 .. MaxRequests /\ MaxRequests \in Nat
  BY CatalogAssumptions DEF TypeOK
<1>6. left' \in 0 .. MaxRequests
  BY <1>1, <1>5
<1> QED BY <1>1, <1>3, <1>4, <1>6 DEF TypeOK

LEMMA CatalogTyped ==
  ASSUME TypeOK, NEW t \in Tx, CatalogStep(t), UNCHANGED <<traffic, keys, day, history>>
  PROVE  TypeOK'
<1>0. day' = day /\ keys' = [u \in Tx |-> keys'[u]] /\ Shaped(tx[t])
  BY Standing DEF TypeOK
<1>1. CASE Fail(t)
  BY <1>0, <1>1, FailTyped
<1>2. CASE LockArticle(t) /\ ~Fail(t)
  <2>1. /\ OthersStay(t) /\ Keeps(tx[t], tx'[t]) /\ UNCHANGED <<catalog, left>>
        /\ tx[t].op \in {"update", "delete"} /\ articles[tx[t].id] \in ArticleRows
        /\ tx'[t].pc = (IF tx[t].op = "update" THEN "check" ELSE "write")
        /\ tx'[t].read = articles[tx[t].id] /\ rowLock' \in [Articles -> Tx \cup {None}]
    BY <1>2, LockArticleMoves DEF TypeOK
  <2>2. LocalOK(tx'[t])
    <3>1. CASE tx[t].op = "update"
      BY <2>1, <3>1, Standing DEF Keeps, Editing, LocalOK
    <3>2. CASE tx[t].op = "delete"
      BY <2>1, <3>2, Standing DEF Keeps, Removing, LocalOK
    <3> QED BY <2>1, <3>1, <3>2
  <2> QED BY <1>0, <2>1, <2>2, MoveTyped
<1>3. CASE CheckReferences(t) /\ ~Fail(t)
  <2>1. /\ OthersStay(t) /\ Keeps(tx[t], tx'[t]) /\ UNCHANGED <<catalog, left, rowLock>>
        /\ tx[t].op \in {"create", "update"} /\ tx[t].pc = "check" /\ tx'[t].pc = "write"
        /\ tx'[t].read = tx[t].read
    BY <1>3, CheckReferencesMoves
  <2>2. LocalOK(tx'[t])
    BY <2>1, Standing DEF Keeps, Editing, LocalOK
  <2> QED BY <1>0, <2>1, <2>2, MoveTyped DEF TypeOK
<1>4. CASE tx[t].op \in {"publish", "unpublish"} /\ ReadForSwitch(t) /\ ~Fail(t)
  <2>1. /\ OthersStay(t) /\ Keeps(tx[t], tx'[t]) /\ UNCHANGED <<catalog, left, rowLock>>
        /\ tx'[t].pc = "write" /\ tx'[t].read \in ArticleRows
    BY <1>4, ReadForSwitchMoves DEF TypeOK
  <2>2. LocalOK(tx'[t])
    BY <1>4, <2>1, Standing DEF Keeps, Switching, LocalOK
  <2> QED BY <1>0, <2>1, <2>2, MoveTyped DEF TypeOK
<1>5. CASE WriteArticle(t) /\ ~Fail(t)
  <2>1. tx[t].id \in Articles /\ End(t) /\ UNCHANGED <<prio, tags>>
    BY <1>5, WriteArticleEffect
  <2>2. PICK row : row \in ArticleRows /\ articles' = [articles EXCEPT ![tx[t].id] = row]
    BY <1>5, WriteArticleEffect DEF RowWritten
  <2>3. articles' \in [Articles -> ArticleRows \cup {None}]
    BY <2>1, <2>2 DEF TypeOK
  <2>4. prio' \in [Folders -> Nat] /\ tags' = [g \in Tags |-> tags'[g]]
    BY <2>1 DEF TypeOK
  <2> QED BY <1>0, <2>1, <2>3, <2>4, EndTyped
<1>6. CASE ReadFolders(t) /\ ~Fail(t)
  <2>1. /\ OthersStay(t) /\ Keeps(tx[t], tx'[t]) /\ UNCHANGED <<catalog, left, rowLock>>
        /\ tx[t].op \in {"createFolder", "reorderFolders"} /\ tx'[t].pc = "write"
        /\ tx'[t].prio \in Nat \ {0}
    BY <1>6, ReadFoldersMoves, NextIsNew
  <2>2. LocalOK(tx'[t])
    BY <2>1, Standing DEF Keeps, Filing, LocalOK
  <2> QED BY <1>0, <2>1, <2>2, MoveTyped DEF TypeOK
<1>7. CASE WriteFolders(t) /\ ~Fail(t)
  <2>1. End(t) /\ UNCHANGED <<articles, tags>> /\ prio' \in [Folders -> Nat]
    BY <1>7, WriteFoldersEffect
  <2> QED BY <1>0, <2>1, EndTyped DEF TypeOK
<1>8. CASE WriteTag(t) /\ ~Fail(t)
  <2>1. /\ End(t) /\ UNCHANGED prio /\ tags' = [g \in Tags |-> tags'[g]]
        /\ articles' \in [Articles -> ArticleRows \cup {None}]
    BY <1>8, WriteTagEffect
  <2> QED BY <1>0, <2>1, EndTyped DEF TypeOK
<1> QED BY <1>1, <1>2, <1>3, <1>4, <1>5, <1>6, <1>7, <1>8 DEF CatalogStep

(* What the public does leaves articles, folders and tags alone. *)
Quiet(t) ==
  /\ UNCHANGED <<catalog, left, raced, day>>
  /\ OthersStay(t) /\ KeepsLocks(t) /\ LocalOK(tx'[t])
  /\ tx'[t] = Idle \/ tx'[t].op = tx[t].op
  /\ tx[t].op \in {"react", "view", "visit"}
  /\ rowLock' \in [Articles -> Tx \cup {None}] /\ keys' = [u \in Tx |-> keys'[u]]

LEMMA EndQuiet ==
  ASSUME TypeOK, NEW t \in Tx, End(t), Unlock(t), UNCHANGED <<catalog, day>>,
         tx[t].op \in {"react", "view", "visit"}
  PROVE  Quiet(t)
<1>1. UNCHANGED <<left, raced>>
  BY DEF End
<1>2. keys' = [u \in Tx |-> keys'[u]]
  BY DEF Unlock, TypeOK
<1> QED BY <1>1, <1>2, EndFields, IdleOK DEF Quiet

LEMMA AdvanceQuiet ==
  ASSUME TypeOK, NEW t \in Tx, tx[t].op = "visit", NEW pc \in {"audience", "commit", "clean"},
         NEW locked, Advance(t, pc, locked)
  PROVE  Quiet(t)
<1>1. /\ OthersStay(t) /\ Keeps(tx[t], tx'[t]) /\ tx'[t].pc = pc
      /\ keys' = [keys EXCEPT ![t] = @ \cup locked]
      /\ UNCHANGED <<catalog, left, rowLock, raced, day>>
  BY AdvanceMoves
<1>2. LocalOK(tx'[t]) /\ tx'[t].op = tx[t].op
  BY <1>1, Standing DEF Keeps, Visiting, LocalOK
<1>3. keys' = [u \in Tx |-> keys'[u]]
  BY <1>1 DEF TypeOK
<1>4. rowLock' \in [Articles -> Tx \cup {None}] /\ KeepsLocks(t)
  BY <1>1 DEF TypeOK, KeepsLocks
<1> QED BY <1>1, <1>2, <1>3, <1>4 DEF Quiet

(* The steps of the public *)
PublicStep(t) ==
  \/ LockReaction(t) \/ WriteReaction(t) \/ LoseView(t) \/ CountView(t)
  \/ TakeReceipt(t) \/ TakeAudience(t) \/ CommitVisit(t) \/ CommitNothing(t) \/ Engage(t)
  \/ tx[t].op \in {"react", "visit"} /\ Rollback(t)

LEMMA PublicQuiet ==
  ASSUME TypeOK, NEW t \in Tx, PublicStep(t)
  PROVE  Quiet(t)
<1>1. CASE tx[t].op \in {"react", "view", "visit"} /\ Rollback(t)
  BY <1>1, EndQuiet DEF Rollback, Fail
<1>2. CASE LockReaction(t)
  <2>1. /\ OthersStay(t) /\ Keeps(tx[t], tx'[t]) /\ tx[t].op = "react" /\ tx'[t].pc = "react"
        /\ keys' = [keys EXCEPT ![t] = Locked(Reaction(t))]
        /\ UNCHANGED <<catalog, left, rowLock, raced, day>>
    BY <1>2, LockReactionMoves
  <2>2. LocalOK(tx'[t]) /\ tx'[t].op = tx[t].op
    BY <2>1, Standing DEF Keeps, Reacting, LocalOK
  <2>3. keys' = [u \in Tx |-> keys'[u]]
    BY <2>1 DEF TypeOK
  <2>4. rowLock' \in [Articles -> Tx \cup {None}] /\ KeepsLocks(t)
    BY <2>1 DEF TypeOK, KeepsLocks
  <2> QED BY <2>1, <2>2, <2>3, <2>4 DEF Quiet
<1>3. CASE WriteReaction(t)
  <2>1. tx[t].op = "react"
    BY <1>3, Standing DEF WriteReaction, At
  <2>2. Rollback(t) \/ (End(t) /\ Unlock(t) /\ UNCHANGED <<catalog, day>>)
    BY <1>3 DEF WriteReaction
  <2> QED BY <1>1, <2>1, <2>2, EndQuiet
<1>4. CASE LoseView(t) \/ CountView(t)
  <2>1. tx[t].op = "view"
    BY <1>4, Standing DEF LoseView, CountView, At
  <2>2. Rollback(t) \/ (End(t) /\ Unlock(t) /\ UNCHANGED <<catalog, day>>)
    BY <1>4 DEF LoseView, CountView
  <2> QED BY <1>1, <2>1, <2>2, EndQuiet
<1>5. CASE TakeReceipt(t)
  <2>1. tx[t].op = "visit"
    BY <1>5, Standing DEF TakeReceipt, At
  <2>2. \E pc \in {"audience", "commit", "clean"} : \E locked : Advance(t, pc, locked)
    BY <1>5 DEF TakeReceipt
  <2> QED BY <2>1, <2>2, AdvanceQuiet
<1>6. CASE TakeAudience(t)
  <2>1. tx[t].op = "visit"
    BY <1>6, Standing DEF TakeAudience, At
  <2>2. \E locked : Advance(t, "commit", locked)
    BY <1>6 DEF TakeAudience
  <2> QED BY <2>1, <2>2, AdvanceQuiet
<1>7. CASE CommitVisit(t) \/ CommitNothing(t) \/ Engage(t)
  <2>1. tx[t].op = "visit"
    BY <1>7, Standing DEF CommitVisit, CommitNothing, Engage, At
  <2>2. End(t) /\ Unlock(t) /\ UNCHANGED <<catalog, day>>
    BY <1>7 DEF CommitVisit, CommitNothing, Engage
  <2> QED BY <2>1, <2>2, EndQuiet
<1> QED BY <1>1, <1>2, <1>3, <1>4, <1>5, <1>6, <1>7 DEF PublicStep

LEMMA DeleteEffect ==
  ASSUME TypeOK, NEW t \in Tx, DeleteArticle(t)
  PROVE  /\ tx[t].op = "delete" /\ tx[t].pc = "write" /\ tx[t].id \in Articles
         /\ rowLock[tx[t].id] \in {None, t} /\ End(t) /\ Unlock(t)
         /\ articles' = [articles EXCEPT ![tx[t].id] = None]
         /\ articles' \in [Articles -> ArticleRows \cup {None}]
         /\ UNCHANGED <<prio, tags, raced, events, receipts, counters, day, history>>
<1>1. tx[t].op = "delete" /\ tx[t].pc = "write" /\ tx[t].id \in Articles
  BY Standing DEF DeleteArticle, At, Removing
<1>2. articles' = [articles EXCEPT ![tx[t].id] = None]
  BY DEF DeleteArticle
<1>3. articles' \in [Articles -> ArticleRows \cup {None}]
  BY <1>1, <1>2 DEF TypeOK
<1> QED BY <1>1, <1>2, <1>3 DEF DeleteArticle, End

LEMMA StepTyped ==
  ASSUME TypeOK, [Next]_vars
  PROVE  TypeOK'
<1>1. ASSUME NEW t \in Tx, Request(t) PROVE TypeOK'
  <2>1. left > 0 /\ UNCHANGED <<keys, day>>
    BY <1>1, RequestArrives DEF Request
  <2> QED BY <1>1, <2>1, RequestArrives, ArriveTyped
<1>2. ASSUME NEW t \in Tx, DeleteArticle(t) PROVE TypeOK'
  <2>1. keys' = [u \in Tx |-> keys'[u]]
    BY <1>2, DeleteEffect DEF Unlock, TypeOK
  <2>2. prio' \in [Folders -> Nat] /\ tags' = [g \in Tags |-> tags'[g]]
    BY <1>2, DeleteEffect DEF TypeOK
  <2> QED BY <1>2, <2>1, <2>2, DeleteEffect, EndTyped
<1>3. ASSUME NEW t \in Tx, PublicStep(t) PROVE TypeOK'
  <2>1. Quiet(t)
    BY <1>3, PublicQuiet
  <2> QED BY <2>1, MoveTyped DEF Quiet
<1>4. CASE Midnight
  <2>1. day' = day + 1 /\ day < LastDay /\ UNCHANGED <<articles, prio, tags, rowLock, tx, left, keys>>
    BY <1>4 DEF Midnight, catalog
  <2>2. day' \in 0 .. LastDay
    BY <2>1, TrafficAssumptions DEF TypeOK
  <2> QED BY <2>1, <2>2 DEF TypeOK
<1>5. CASE UNCHANGED vars
  BY <1>5 DEF vars, catalog, TypeOK
<1> QED BY <1>1, <1>2, <1>3, <1>4, <1>5, CatalogTyped DEF Next, Step, PublicStep

-----------------------------------------------------------------------------
(* Articles *)

ChangesArticles(x) == x.op \in {"create", "update", "delete", "publish", "unpublish"}

(* A step of t changes only the article t is about, which nobody else has
   locked. *)
Touches(t) ==
  \A a \in Articles :
    \/ Alike(articles[a], articles'[a])
    \/ /\ ChangesArticles(tx[t]) /\ tx[t].pc = "write" /\ a = tx[t].id
       /\ rowLock[a] \in {None, t}
       /\ articles[a] = None /\ articles'[a] # None => tx[t].op = "create"

DatesKept ==
  \A a \in Articles : articles[a] # None /\ articles'[a] # None /\ articles[a].at # None
                        => articles'[a].at # None

(* A step of t does not make t meet an article that is being created. *)
Enters(t) ==
  /\ tx'[t].op = "create" =>
       (tx[t].op = "create" /\ tx'[t].id = tx[t].id) \/ Spare(tx'[t].id)
  /\ tx'[t].op \in {"update", "delete", "publish", "unpublish"} /\ tx'[t].pc \notin {"lock", "read"}
       => articles[tx'[t].id] # None

LEMMA AlikeFacts ==
  ASSUME NEW old, NEW new, Alike(old, new)
  PROVE  /\ old = None <=> new = None
         /\ old # None => new.status = old.status /\ new.at = old.at /\ new.folder = old.folder
                          /\ new.tags \subseteq old.tags
BY CatalogAssumptions DEF Alike

LEMMA SameAlike ==
  ASSUME TypeOK, articles' = articles
  PROVE  (\A a \in Articles : Alike(articles[a], articles'[a])) /\ DatesKept
BY DEF Alike, TypeOK, DatesKept

LEMMA OthersSafe ==
  ASSUME ArticlesInv, NEW t \in Tx, OthersStay(t), KeepsLocks(t), Touches(t), DatesKept, Enters(t),
         NEW u \in Tx \ {t}
  PROVE  CreationSafe(u)' /\ ChangeSafe(u)' /\ SwitchSafe(u)'
<1>0. PICK x, y, z : x = tx[u] /\ y = tx[t] /\ z = tx'[t]
  OBVIOUS
<1>1. tx'[u] = x /\ u # t /\ u # None /\ TypeOK /\ CreationSafe(t) /\ CreationSafe(u)
      /\ ChangeSafe(u) /\ SwitchSafe(u)
  BY <1>0, CatalogAssumptions DEF OthersStay, ArticlesInv
<1>2. ChangesArticles(x) => x.id \in Articles
  BY <1>0, <1>1, Standing DEF ChangesArticles, Editing, Removing, Switching
<1>3. ChangesArticles(x) => \/ Alike(articles[x.id], articles'[x.id])
                            \/ /\ ChangesArticles(y) /\ y.pc = "write" /\ x.id = y.id
                               /\ rowLock[x.id] \in {None, t}
                               /\ articles[x.id] = None /\ articles'[x.id] # None => y.op = "create"
  BY <1>0, <1>2 DEF Touches
<1>4. CreationSafe(u)'
  <2> SUFFICES ASSUME x.op = "create"
               PROVE  /\ articles'[x.id] = None
                      /\ \A w \in Tx \ {u} :
                           /\ tx'[w].op = "create" => tx'[w].id # x.id
                           /\ tx'[w].op \in {"update", "delete", "publish", "unpublish"}
                                /\ tx'[w].id = x.id => tx'[w].pc \in {"lock", "read"}
    BY <1>1 DEF CreationSafe
  <2>1. /\ articles[x.id] = None
        /\ \A w \in Tx \ {u} :
             /\ tx[w].op = "create" => tx[w].id # x.id
             /\ tx[w].op \in {"update", "delete", "publish", "unpublish"} /\ tx[w].id = x.id
                  => tx[w].pc \in {"lock", "read"}
    BY <1>0, <1>1 DEF CreationSafe
  <2>2. articles'[x.id] = None
    <3>1. ChangesArticles(x)
      BY DEF ChangesArticles
    <3>2. CASE Alike(articles[x.id], articles'[x.id])
      BY <2>1, <3>2, AlikeFacts
    <3>3. CASE y.op = "create" /\ x.id = y.id
      BY <1>0, <1>1, <2>1, <3>3
    <3> QED BY <1>3, <2>1, <3>1, <3>2, <3>3
  <2>3. z.op = "create" => z.id # x.id
    <3>1. CASE y.op = "create" /\ z.id = y.id
      BY <1>0, <1>1, <2>1, <3>1
    <3>2. CASE Spare(z.id)
      BY <1>0, <3>2 DEF Spare
    <3> QED BY <1>0, <3>1, <3>2 DEF Enters
  <2>4. z.op \in {"update", "delete", "publish", "unpublish"} /\ z.id = x.id => z.pc \in {"lock", "read"}
    BY <1>0, <2>1 DEF Enters
  <2>5. \A w \in Tx \ {u} : w # t => tx'[w] = tx[w]
    BY DEF OthersStay
  <2> QED BY <1>0, <2>1, <2>2, <2>3, <2>4, <2>5
<1>5. ChangeSafe(u)'
  <2> SUFFICES ASSUME x.op \in {"update", "delete"}, x.pc # "lock"
               PROVE  /\ rowLock'[x.id] = u /\ articles'[x.id] # None
                      /\ ~x.may => /\ articles'[x.id].status # "Published"
                                   /\ x.op = "update" => x.new.status # "Published"
                      /\ x.op = "update" => x.read.at = articles'[x.id].at
    BY <1>1 DEF ChangeSafe
  <2>1. /\ rowLock[x.id] = u /\ articles[x.id] # None
        /\ ~x.may => /\ articles[x.id].status # "Published"
                     /\ x.op = "update" => x.new.status # "Published"
        /\ x.op = "update" => x.read.at = articles[x.id].at
    BY <1>0, <1>1 DEF ChangeSafe
  <2>2. ChangesArticles(x)
    BY DEF ChangesArticles
  <2>3. Alike(articles[x.id], articles'[x.id])
    BY <1>1, <1>3, <2>1, <2>2
  <2>4. rowLock'[x.id] = u
    BY <1>2, <2>1, <2>2 DEF KeepsLocks
  <2> QED BY <2>1, <2>3, <2>4, AlikeFacts
<1>6. SwitchSafe(u)'
  <2> SUFFICES ASSUME x.op \in {"publish", "unpublish"}, x.pc = "write", x.read.at # None,
                      articles'[x.id] # None
               PROVE  articles'[x.id].at # None
    BY <1>1 DEF SwitchSafe, At
  <2>1. ChangesArticles(x) /\ x.id \in Articles
    BY <1>2 DEF ChangesArticles
  <2>2. articles[x.id] # None
    <3> SUFFICES ASSUME articles[x.id] = None PROVE FALSE
      OBVIOUS
    <3>1. y.op = "create" /\ y.id = x.id
      BY <1>3, <2>1, AlikeFacts
    <3> QED BY <1>0, <1>1, <3>1 DEF CreationSafe
  <2>3. articles[x.id].at # None
    BY <1>0, <1>1, <2>2 DEF SwitchSafe, At
  <2> QED BY <2>1, <2>2, <2>3 DEF DatesKept
<1> QED BY <1>4, <1>5, <1>6

LEMMA AlikeSafe ==
  ASSUME ArticlesInv, NEW t \in Tx, \A a \in Articles : Alike(articles[a], articles'[a])
  PROVE  Touches(t) /\ DatesKept /\ PublishedDated'
<1>1. Touches(t)
  BY DEF Touches
<1>2. DatesKept
  BY AlikeFacts DEF DatesKept
<1>3. ASSUME NEW a \in Articles, articles'[a] # None, articles'[a].status = "Published"
      PROVE  articles'[a].at # None
  <2>1. articles[a] # None /\ articles[a].status = "Published" /\ articles'[a].at = articles[a].at
    BY <1>3, AlikeFacts
  <2> QED BY <2>1 DEF ArticlesInv, PublishedDated, Available
<1> QED BY <1>1, <1>2, <1>3 DEF PublishedDated, Available

LEMMA WriteSafe ==
  ASSUME ArticlesInv, NEW t \in Tx, WriteArticle(t), ~Fail(t)
  PROVE  Touches(t) /\ DatesKept /\ PublishedDated'
<1>0. TypeOK /\ CreationSafe(t) /\ ChangeSafe(t) /\ SwitchSafe(t)
  BY DEF ArticlesInv
<1>1. PICK x, old, a : x = tx[t] /\ old = articles[x.id] /\ a = x.id
  OBVIOUS
<1>2. x.op \in {"create", "update", "publish", "unpublish"} /\ x.pc = "write" /\ a \in Articles
      /\ rowLock[a] \in {None, t}
  BY <1>0, <1>1, WriteArticleEffect
<1>3. PICK row : RowWritten(x, old, row) /\ articles' = [articles EXCEPT ![a] = row]
  BY <1>0, <1>1, WriteArticleEffect
<1>4. articles'[a] = row /\ \A b \in Articles \ {a} : articles'[b] = articles[b]
  BY <1>2, <1>3, <1>0 DEF TypeOK
<1>5. \A b \in Articles \ {a} : Alike(articles[b], articles'[b])
  BY <1>0, <1>4 DEF Alike, TypeOK
<1>6. Touches(t)
  <2>1. ChangesArticles(tx[t]) /\ tx[t].pc = "write" /\ a = tx[t].id
    BY <1>1, <1>2 DEF ChangesArticles
  <2>2. articles[a] = None => tx[t].op = "create"
    BY <1>1, <1>3 DEF RowWritten
  <2> QED BY <1>2, <1>5, <2>1, <2>2 DEF Touches
<1>7. old # None /\ old.at # None => row.at # None
  <2>1. CASE x.op = "create"
    BY <1>0, <1>1, <2>1 DEF CreationSafe
  <2>2. CASE x.op = "update"
    BY <1>0, <1>1, <1>2, <1>3, <2>2 DEF RowWritten, CreatedAt, UpdatedAt, ChangeSafe
  <2>3. CASE x.op \in {"publish", "unpublish"}
    <3>1. x.at \in Nat
      BY <1>0, <1>1, <2>3, Standing DEF Switching
    <3> QED BY <1>3, <2>3, <3>1, CatalogAssumptions DEF RowWritten
  <2> QED BY <1>2, <2>1, <2>2, <2>3
<1>8. DatesKept
  BY <1>1, <1>4, <1>7 DEF DatesKept
<1>9. row.status = "Published" => row.at # None
  <2> SUFFICES ASSUME row.status = "Published" PROVE row.at # None
    OBVIOUS
  <2>1. CASE x.op = "create"
    <3>1. x.at \in Nat /\ x.new.status = "Published"
      BY <1>0, <1>1, <1>3, <2>1, Standing DEF Editing, RowWritten
    <3> QED BY <1>3, <2>1, <3>1, CatalogAssumptions DEF RowWritten, CreatedAt, UpdatedAt
  <2>2. CASE x.op = "update"
    <3>1. x.at \in Nat /\ x.new.status = "Published"
      BY <1>0, <1>1, <1>3, <2>2, Standing DEF Editing, RowWritten
    <3> QED BY <1>3, <2>2, <3>1, CatalogAssumptions DEF RowWritten, CreatedAt, UpdatedAt
  <2>3. CASE x.op = "publish"
    <3>1. x.at \in Nat /\ x.at # None
      BY <1>0, <1>1, <2>3, Standing, CatalogAssumptions DEF Switching
    <3>2. old # None /\ row.at = IF x.read.at = None THEN x.at ELSE old.at
      BY <1>3, <2>3 DEF RowWritten
    <3>3. x.read.at # None => old.at # None
      BY <1>0, <1>1, <1>2, <2>3, <3>2 DEF SwitchSafe, At
    <3> QED BY <3>1, <3>2, <3>3
  <2>4. CASE x.op = "unpublish"
    <3>1. old # None /\ row.at = old.at /\ old.status = "Published"
      BY <1>3, <2>4 DEF RowWritten
    <3> QED BY <1>1, <1>2, <3>1 DEF ArticlesInv, PublishedDated, Available
  <2> QED BY <1>2, <2>1, <2>2, <2>3, <2>4
<1>10. ASSUME NEW b \in Articles, articles'[b] # None, articles'[b].status = "Published"
       PROVE  articles'[b].at # None
  BY <1>4, <1>9, <1>10 DEF ArticlesInv, PublishedDated, Available
<1> QED BY <1>6, <1>8, <1>10 DEF PublishedDated, Available

LEMMA DeleteSafe ==
  ASSUME ArticlesInv, NEW t \in Tx, DeleteArticle(t)
  PROVE  Touches(t) /\ DatesKept /\ PublishedDated'
<1>0. TypeOK
  BY DEF ArticlesInv
<1>1. PICK a : a = tx[t].id
  OBVIOUS
<1>2. /\ tx[t].op = "delete" /\ tx[t].pc = "write" /\ a \in Articles /\ rowLock[a] \in {None, t}
      /\ articles' = [articles EXCEPT ![a] = None]
  BY <1>0, <1>1, DeleteEffect
<1>3. articles'[a] = None /\ \A b \in Articles \ {a} : articles'[b] = articles[b]
  BY <1>0, <1>2 DEF TypeOK
<1>4. \A b \in Articles \ {a} : Alike(articles[b], articles'[b])
  BY <1>0, <1>3 DEF Alike, TypeOK
<1>5. Touches(t)
  BY <1>1, <1>2, <1>3, <1>4 DEF Touches, ChangesArticles
<1>6. DatesKept
  BY <1>3 DEF DatesKept
<1>7. PublishedDated'
  BY <1>3 DEF ArticlesInv, PublishedDated, Available
<1> QED BY <1>5, <1>6, <1>7

(* A request that has ended, or is about something else, is at no risk. *)
LEMMA ElsewhereSafe ==
  ASSUME NEW t \in Tx, ~ChangesArticles(tx'[t])
  PROVE  CreationSafe(t)' /\ ChangeSafe(t)' /\ SwitchSafe(t)' /\ Enters(t)
BY DEF CreationSafe, ChangeSafe, SwitchSafe, Enters, ChangesArticles

LEMMA IdleElsewhere == ~ChangesArticles(Idle)
BY IdleOK DEF ChangesArticles

LEMMA ArticlesKept ==
  ASSUME ArticlesInv, TypeOK', NEW t \in Tx, OthersStay(t), KeepsLocks(t), Touches(t), DatesKept,
         PublishedDated', Enters(t), CreationSafe(t)', ChangeSafe(t)', SwitchSafe(t)'
  PROVE  ArticlesInv'
<1>1. \A u \in Tx : CreationSafe(u)' /\ ChangeSafe(u)' /\ SwitchSafe(u)'
  BY OthersSafe
<1> QED BY <1>1 DEF ArticlesInv

LEMMA EndArticles ==
  ASSUME ArticlesInv, TypeOK', NEW t \in Tx, End(t), Touches(t), DatesKept, PublishedDated'
  PROVE  ArticlesInv'
<1>1. OthersStay(t) /\ KeepsLocks(t) /\ tx'[t] = Idle
  BY EndFields DEF ArticlesInv
<1>2. ~ChangesArticles(tx'[t])
  BY <1>1, IdleElsewhere
<1> QED BY <1>1, <1>2, ElsewhereSafe, ArticlesKept

LEMMA QuietArticles ==
  ASSUME ArticlesInv, TypeOK', NEW t \in Tx, articles' = articles, OthersStay(t), KeepsLocks(t),
         ~ChangesArticles(tx'[t])
  PROVE  ArticlesInv'
<1>1. Touches(t) /\ DatesKept /\ PublishedDated'
  BY SameAlike, AlikeSafe DEF ArticlesInv
<1> QED BY <1>1, ElsewhereSafe, ArticlesKept

LEMMA ArriveArticles ==
  ASSUME ArticlesInv, TypeOK', NEW t \in Tx, NEW x, Arrives(t, x)
  PROVE  ArticlesInv'
<1>0. TypeOK
  BY DEF ArticlesInv
<1>1. OthersStay(t) /\ tx'[t] = x /\ UNCHANGED <<articles, rowLock>>
  BY <1>0, Replaced DEF Arrives, catalog
<1>2. KeepsLocks(t) /\ Touches(t) /\ DatesKept /\ PublishedDated'
  BY <1>0, <1>1, SameAlike, AlikeSafe DEF KeepsLocks
<1>3. Enters(t)
  BY <1>1 DEF Arrives, Enters
<1>4. CreationSafe(t)'
  <2> SUFFICES ASSUME x.op = "create"
               PROVE  /\ articles[x.id] = None
                      /\ \A u \in Tx \ {t} : tx[u].id # x.id
    BY <1>1 DEF CreationSafe, OthersStay
  <2> QED BY DEF Arrives, Spare
<1>5. ChangeSafe(t)' /\ SwitchSafe(t)'
  BY <1>1 DEF Arrives, ChangeSafe, SwitchSafe, At
<1> QED BY <1>1, <1>2, <1>3, <1>4, <1>5, ArticlesKept

LEMMA LockArticleSafe ==
  ASSUME ArticlesInv, TypeOK', NEW t \in Tx, LockArticle(t), ~Fail(t)
  PROVE  ArticlesInv'
<1>0. TypeOK
  BY DEF ArticlesInv
<1>1. PICK x, y, old : x = tx[t] /\ y = tx'[t] /\ old = articles[x.id]
  OBVIOUS
<1>2. /\ OthersStay(t) /\ KeepsLocks(t) /\ y.op = x.op /\ y.id = x.id /\ y.may = x.may
      /\ y.new = x.new /\ x.op \in {"update", "delete"} /\ y.read = old /\ old # None
      /\ ~Refused(t) /\ rowLock'[x.id] = t /\ articles' = articles
  BY <1>0, <1>1, LockArticleMoves DEF Keeps, catalog
<1>3. Touches(t) /\ DatesKept /\ PublishedDated'
  BY <1>0, <1>2, SameAlike, AlikeSafe
<1>4. Enters(t) /\ CreationSafe(t)' /\ SwitchSafe(t)'
  BY <1>1, <1>2 DEF Enters, CreationSafe, SwitchSafe
<1>5. ~x.may => old.status # "Published" /\ (x.op = "update" => x.new.status # "Published")
  BY <1>1, <1>2 DEF Refused
<1>6. ChangeSafe(t)'
  BY <1>1, <1>2, <1>5 DEF ChangeSafe
<1> QED BY <1>2, <1>3, <1>4, <1>6, ArticlesKept

LEMMA CheckReferencesSafe ==
  ASSUME ArticlesInv, TypeOK', NEW t \in Tx, CheckReferences(t), ~Fail(t)
  PROVE  ArticlesInv'
<1>0. TypeOK /\ CreationSafe(t) /\ ChangeSafe(t)
  BY DEF ArticlesInv
<1>1. PICK x, y : x = tx[t] /\ y = tx'[t]
  OBVIOUS
<1>2. /\ OthersStay(t) /\ y.op = x.op /\ y.id = x.id /\ y.may = x.may
      /\ y.new = x.new /\ x.op \in {"create", "update"} /\ y.read = x.read /\ x.pc = "check"
      /\ articles' = articles /\ rowLock' = rowLock
  BY <1>0, <1>1, CheckReferencesMoves DEF Keeps, catalog
<1>3. KeepsLocks(t) /\ Touches(t) /\ DatesKept /\ PublishedDated'
  BY <1>0, <1>2, SameAlike, AlikeSafe DEF KeepsLocks
<1>4. ChangeSafe(t)' /\ SwitchSafe(t)'
  BY <1>0, <1>1, <1>2 DEF ChangeSafe, SwitchSafe
<1>5. Enters(t)
  BY <1>0, <1>1, <1>2 DEF Enters, ChangeSafe
<1>6. CreationSafe(t)'
  BY <1>0, <1>1, <1>2 DEF CreationSafe, OthersStay
<1> QED BY <1>2, <1>3, <1>4, <1>5, <1>6, ArticlesKept

LEMMA ReadForSwitchSafe ==
  ASSUME ArticlesInv, TypeOK', NEW t \in Tx, tx[t].op \in {"publish", "unpublish"},
         ReadForSwitch(t), ~Fail(t)
  PROVE  ArticlesInv'
<1>0. TypeOK
  BY DEF ArticlesInv
<1>1. PICK x, y, old : x = tx[t] /\ y = tx'[t] /\ old = articles[x.id]
  OBVIOUS
<1>2. /\ OthersStay(t) /\ y.op = x.op /\ y.id = x.id /\ y.read = old /\ old # None
      /\ articles' = articles /\ rowLock' = rowLock
  BY <1>0, <1>1, ReadForSwitchMoves DEF Keeps, catalog
<1>3. KeepsLocks(t) /\ Touches(t) /\ DatesKept /\ PublishedDated'
  BY <1>0, <1>2, SameAlike, AlikeSafe DEF KeepsLocks
<1>4. Enters(t) /\ CreationSafe(t)' /\ ChangeSafe(t)' /\ SwitchSafe(t)'
  BY <1>1, <1>2 DEF Enters, CreationSafe, ChangeSafe, SwitchSafe
<1> QED BY <1>2, <1>3, <1>4, ArticlesKept

LEMMA CatalogArticles ==
  ASSUME ArticlesInv, TypeOK', NEW t \in Tx, CatalogStep(t)
  PROVE  ArticlesInv'
<1>0. TypeOK
  BY DEF ArticlesInv
<1>1. CASE Fail(t)
  <2>1. End(t) /\ articles' = articles
    BY <1>1 DEF Fail, catalog
  <2> QED BY <1>0, <2>1, SameAlike, AlikeSafe, EndArticles
<1>2. CASE WriteArticle(t) /\ ~Fail(t)
  BY <1>0, <1>2, WriteArticleEffect, WriteSafe, EndArticles
<1>3. CASE ReadFolders(t) /\ ~Fail(t)
  <2>1. OthersStay(t) /\ articles' = articles /\ rowLock' = rowLock /\ ~ChangesArticles(tx'[t])
    BY <1>0, <1>3, ReadFoldersMoves DEF catalog, Keeps, ChangesArticles
  <2> QED BY <2>1, QuietArticles DEF KeepsLocks
<1>4. CASE WriteFolders(t) /\ ~Fail(t)
  BY <1>0, <1>4, WriteFoldersEffect, SameAlike, AlikeSafe, EndArticles
<1>5. CASE WriteTag(t) /\ ~Fail(t)
  BY <1>0, <1>5, WriteTagEffect, AlikeSafe, EndArticles
<1> QED BY <1>1, <1>2, <1>3, <1>4, <1>5, LockArticleSafe, CheckReferencesSafe, ReadForSwitchSafe
        DEF CatalogStep

LEMMA StepArticles ==
  ASSUME ArticlesInv, [Next]_vars
  PROVE  ArticlesInv'
<1>0. TypeOK /\ TypeOK'
  BY StepTyped DEF ArticlesInv
<1>1. ASSUME NEW t \in Tx, Request(t) PROVE ArticlesInv'
  BY <1>0, <1>1, RequestArrives, ArriveArticles
<1>2. ASSUME NEW t \in Tx, DeleteArticle(t) PROVE ArticlesInv'
  BY <1>0, <1>2, DeleteEffect, DeleteSafe, EndArticles
<1>3. ASSUME NEW t \in Tx, PublicStep(t) PROVE ArticlesInv'
  <2>1. Quiet(t)
    BY <1>0, <1>3, PublicQuiet
  <2>2. articles' = articles /\ OthersStay(t) /\ KeepsLocks(t) /\ ~ChangesArticles(tx'[t])
    BY <2>1, IdleElsewhere DEF Quiet, catalog, ChangesArticles
  <2> QED BY <1>0, <2>2, QuietArticles
<1>4. CASE Midnight \/ UNCHANGED vars
  <2>1. UNCHANGED <<articles, rowLock, tx>>
    BY <1>4 DEF Midnight, vars, catalog
  <2> QED BY <1>0, <2>1 DEF ArticlesInv, PublishedDated, Available, CreationSafe, ChangeSafe,
                            SwitchSafe, At
<1> QED BY <1>0, <1>1, <1>2, <1>3, <1>4, CatalogArticles DEF Next, Step, PublicStep

LEMMA InitTyped == Init => TypeOK
<1> SUFFICES ASSUME Init PROVE TypeOK
  OBVIOUS
<1>1. \A f \in Folders : Cardinality({g \in StartFolders : Place(g) <= Place(f)}) \in Nat
  <2> SUFFICES ASSUME NEW f \in Folders
               PROVE  Cardinality({g \in StartFolders : Place(g) <= Place(f)}) \in Nat
    OBVIOUS
  <2>1. {g \in StartFolders : Place(g) <= Place(f)} \subseteq Folders
    BY CatalogAssumptions
  <2> QED BY <2>1, FoldersFinite, FS_CardinalityType
<1>2. prio \in [Folders -> Nat]
  BY <1>1 DEF Init, CatalogInit
<1>3. articles \in [Articles -> ArticleRows \cup {None}]
  BY CatalogAssumptions DEF Init, CatalogInit
<1>4. /\ rowLock \in [Articles -> Tx \cup {None}] /\ tags = [g \in Tags |-> tags[g]]
      /\ keys = [t \in Tx |-> keys[t]] /\ tx = [t \in Tx |-> tx[t]]
  BY DEF Init, CatalogInit
<1>5. left \in 0 .. MaxRequests /\ day \in 0 .. LastDay
  BY CatalogAssumptions, TrafficAssumptions DEF Init, CatalogInit
<1>6. \A t \in Tx : LocalOK(tx[t])
  BY IdleOK DEF Init, CatalogInit
<1> QED BY <1>2, <1>3, <1>4, <1>5, <1>6 DEF TypeOK

LEMMA InitArticles == Init => ArticlesInv
<1> SUFFICES ASSUME Init PROVE ArticlesInv
  OBVIOUS
<1>1. \A t \in Tx : tx[t].op = "none"
  BY IdleOK DEF Init, CatalogInit
<1>2. PublishedDated
  BY CatalogAssumptions DEF Init, CatalogInit, PublishedDated, Available
<1> QED BY <1>1, <1>2, InitTyped DEF ArticlesInv, CreationSafe, ChangeSafe, SwitchSafe

LEMMA ArticlesAlways == Spec => []ArticlesInv
BY InitArticles, StepArticles, PTL DEF Spec

(* Articles change in a step of one request, and then as Touches says. *)
LEMMA OneActs ==
  ASSUME ArticlesInv, [Next]_vars
  PROVE  \/ UNCHANGED <<articles, tx>>
         \/ \E t \in Tx : /\ OthersStay(t)
                          /\ \/ WriteArticle(t) /\ ~Fail(t)
                             \/ DeleteArticle(t)
                             \/ \A a \in Articles : Alike(articles[a], articles'[a])
                          /\ \/ WriteArticle(t) /\ ~Fail(t)
                             \/ DeleteArticle(t)
                             \/ tx[t].op \in {"createTag", "updateTag", "deleteTag"}
                             \/ articles' = articles
<1>0. TypeOK
  BY DEF ArticlesInv
<1>1. ASSUME NEW t \in Tx, Request(t) PROVE OthersStay(t) /\ articles' = articles
  BY <1>0, <1>1, RequestArrives, Replaced DEF Arrives, catalog
<1>2. ASSUME NEW t \in Tx, DeleteArticle(t) PROVE OthersStay(t)
  BY <1>0, <1>2, DeleteEffect, EndFields
<1>3. ASSUME NEW t \in Tx, PublicStep(t) PROVE OthersStay(t) /\ articles' = articles
  BY <1>0, <1>3, PublicQuiet DEF Quiet, catalog
<1>4. ASSUME NEW t \in Tx, CatalogStep(t)
      PROVE  /\ OthersStay(t)
             /\ \/ WriteArticle(t) /\ ~Fail(t)
                \/ articles' = articles
                \/ /\ \A a \in Articles : Alike(articles[a], articles'[a])
                   /\ tx[t].op \in {"createTag", "updateTag", "deleteTag"}
  <2>1. CASE Fail(t)
    BY <1>0, <2>1, EndFields DEF Fail, catalog
  <2>2. CASE LockArticle(t) /\ ~Fail(t)
    BY <1>0, <2>2, LockArticleMoves DEF catalog
  <2>3. CASE CheckReferences(t) /\ ~Fail(t)
    BY <1>0, <2>3, CheckReferencesMoves DEF catalog
  <2>4. CASE tx[t].op \in {"publish", "unpublish"} /\ ReadForSwitch(t) /\ ~Fail(t)
    BY <1>0, <2>4, ReadForSwitchMoves DEF catalog
  <2>5. CASE WriteArticle(t) /\ ~Fail(t)
    BY <1>0, <2>5, WriteArticleEffect, EndFields
  <2>6. CASE ReadFolders(t) /\ ~Fail(t)
    BY <1>0, <2>6, ReadFoldersMoves DEF catalog
  <2>7. CASE WriteFolders(t) /\ ~Fail(t)
    BY <1>0, <2>7, WriteFoldersEffect, EndFields
  <2>8. CASE WriteTag(t) /\ ~Fail(t)
    BY <1>0, <2>8, WriteTagEffect, EndFields DEF WriteTag
  <2> QED BY <1>4, <2>1, <2>2, <2>3, <2>4, <2>5, <2>6, <2>7, <2>8 DEF CatalogStep
<1>5. CASE Midnight \/ UNCHANGED vars
  BY <1>5 DEF Midnight, vars, catalog
<1>6. ASSUME articles' = articles PROVE \A a \in Articles : Alike(articles[a], articles'[a])
  BY <1>0, <1>6, SameAlike
<1> QED BY <1>1, <1>2, <1>3, <1>4, <1>5, <1>6 DEF Next, Step, PublicStep

LEMMA DatesStep ==
  ASSUME ArticlesInv, [Next]_vars, NEW a \in Articles, articles[a] # None, articles[a].at # None,
         articles'[a] # None, articles'[a].at # articles[a].at
  PROVE  \E t \in Tx : /\ tx[t].op = "publish" /\ tx[t].id = a /\ tx'[t] = Idle
                       /\ tx[t].read.at = None
<1>0. TypeOK
  BY DEF ArticlesInv
<1>1. PICK t \in Tx : \/ WriteArticle(t) /\ ~Fail(t)
                      \/ DeleteArticle(t)
                      \/ \A b \in Articles : Alike(articles[b], articles'[b])
  BY OneActs
<1>2. CASE WriteArticle(t) /\ ~Fail(t)
  <2>1. PICK x, old : x = tx[t] /\ old = articles[x.id]
    OBVIOUS
  <2>2. x.op \in {"create", "update", "publish", "unpublish"} /\ x.pc = "write" /\ x.id \in Articles
        /\ End(t)
    BY <1>0, <1>2, <2>1, WriteArticleEffect
  <2>3. PICK row : RowWritten(x, old, row) /\ articles' = [articles EXCEPT ![x.id] = row]
    BY <1>0, <1>2, <2>1, WriteArticleEffect
  <2>4. x.id = a /\ articles'[a] = row /\ old = articles[a]
    BY <1>0, <2>1, <2>2, <2>3 DEF TypeOK
  <2>5. row.at # old.at /\ old # None /\ old.at # None
    BY <2>4
  <2>6. x.op # "create"
    BY <2>1, <2>5 DEF ArticlesInv, CreationSafe
  <2>7. x.op # "update"
    <3> SUFFICES ASSUME x.op = "update" PROVE FALSE
      OBVIOUS
    <3>1. x.read.at = old.at
      BY <2>1, <2>2 DEF ArticlesInv, ChangeSafe
    <3> QED BY <2>3, <2>5, <3>1 DEF RowWritten, CreatedAt, UpdatedAt
  <2>8. x.op = "publish" /\ x.read.at = None
    BY <2>2, <2>3, <2>5, <2>6, <2>7 DEF RowWritten
  <2> QED BY <1>0, <2>1, <2>2, <2>4, <2>8, EndFields
<1>3. CASE DeleteArticle(t)
  <2>1. articles' = [articles EXCEPT ![tx[t].id] = None]
    BY <1>0, <1>3, DeleteEffect
  <2> QED BY <1>0, <2>1 DEF TypeOK
<1>4. CASE \A b \in Articles : Alike(articles[b], articles'[b])
  BY <1>4, AlikeFacts
<1> QED BY <1>1, <1>2, <1>3, <1>4

(* update_article_publish_status: a publication date moves only when a
   set-published that read the article undated is overtaken by a request
   that dates it. *)
THEOREM DatesMoveOnlyByStalePublish == Spec => DateMovesOnlyByStalePublish
<1>1. ArticlesInv /\ [Next]_vars
        => [\A a \in Articles :
              articles[a] # None /\ articles[a].at # None /\ articles'[a] # None
                /\ articles'[a].at # articles[a].at
              => \E t \in Tx : /\ tx[t].op = "publish" /\ tx[t].id = a /\ tx'[t] = Idle
                               /\ tx[t].read.at = None]_<<articles, tx>>
  BY DatesStep
<1> QED BY <1>1, ArticlesAlways, PTL DEF Spec, DateMovesOnlyByStalePublish

(* What the public reads depends on the published articles only. *)
LEMMA SameView ==
  ASSUME \A a \in Articles : Available(a)' = Available(a) /\ (Available(a) => articles'[a] = articles[a])
  PROVE  PublicView' = PublicView
BY DEF PublicView, PublicDetail

LEMMA RestrictedStep ==
  ASSUME ArticlesInv, [Next]_vars, NEW t \in Tx, tx[t].op \in {"create", "update", "delete"},
         ~tx[t].may, tx'[t] = Idle
  PROVE  PublicView' = PublicView
<1>0. TypeOK /\ ChangeSafe(t) /\ CreationSafe(t)
  BY DEF ArticlesInv
<1>1. tx'[t] # tx[t]
  BY IdleOK
<1>2. PICK u \in Tx : /\ OthersStay(u)
                      /\ \/ WriteArticle(u) /\ ~Fail(u)
                         \/ DeleteArticle(u)
                         \/ tx[u].op \in {"createTag", "updateTag", "deleteTag"}
                         \/ articles' = articles
  BY <1>1, OneActs
<1>3. u = t
  BY <1>1, <1>2 DEF OthersStay
<1>4. CASE articles' = articles
  BY <1>4, SameView DEF Available
<1>5. CASE WriteArticle(t) /\ ~Fail(t)
  <2>1. PICK x, old : x = tx[t] /\ old = articles[x.id]
    OBVIOUS
  <2>2. x.op \in {"create", "update"} /\ x.pc = "write" /\ x.id \in Articles
    BY <1>0, <1>5, <2>1, WriteArticleEffect
  <2>3. PICK row : RowWritten(x, old, row) /\ articles' = [articles EXCEPT ![x.id] = row]
    BY <1>0, <1>5, <2>1, WriteArticleEffect
  <2>4. articles'[x.id] = row /\ \A b \in Articles \ {x.id} : articles'[b] = articles[b]
    BY <1>0, <2>2, <2>3 DEF TypeOK
  <2>5. x.new.status # "Published" /\ (old # None => old.status # "Published")
    <3>1. CASE x.op = "create"
      <4>1. Editing(x)
        BY <1>0, <2>1, <3>1, Standing
      <4> QED BY <1>0, <2>1, <3>1, <4>1 DEF CreationSafe, Editing
    <3>2. CASE x.op = "update"
      BY <1>0, <2>1, <2>2, <3>2 DEF ChangeSafe
    <3> QED BY <2>2, <3>1, <3>2
  <2>6. row.status # "Published"
    BY <2>2, <2>3, <2>5 DEF RowWritten
  <2>7. \A b \in Articles : Available(b)' = Available(b) /\ (Available(b) => articles'[b] = articles[b])
    BY <2>1, <2>4, <2>5, <2>6 DEF Available
  <2> QED BY <2>7, SameView
<1>6. CASE DeleteArticle(t)
  <2>1. PICK a : a = tx[t].id
    OBVIOUS
  <2>2. /\ tx[t].op = "delete" /\ tx[t].pc = "write" /\ a \in Articles
        /\ articles' = [articles EXCEPT ![a] = None]
    BY <1>0, <1>6, <2>1, DeleteEffect
  <2>3. articles[a].status # "Published"
    BY <1>0, <2>1, <2>2 DEF ChangeSafe
  <2>4. articles'[a] = None /\ \A b \in Articles \ {a} : articles'[b] = articles[b]
    BY <1>0, <2>2 DEF TypeOK
  <2>5. \A b \in Articles : Available(b)' = Available(b) /\ (Available(b) => articles'[b] = articles[b])
    BY <2>3, <2>4 DEF Available
  <2> QED BY <2>5, SameView
<1> QED BY <1>2, <1>3, <1>4, <1>5, <1>6

(* PublicationAccess: a request without the permission to publish changes
   nothing the public sees, even if the article is published while the
   request runs. *)
THEOREM RestrictedNeverSeen == Spec => RestrictedUnseen
<1>1. ArticlesInv /\ [Next]_vars
        => [\A t \in Tx : tx[t].op \in {"create", "update", "delete"} /\ ~tx[t].may /\ tx'[t] = Idle
                            => PublicView' = PublicView]_<<articles, prio, tags, tx>>
  BY RestrictedStep
<1> QED BY <1>1, ArticlesAlways, PTL DEF Spec, RestrictedUnseen

-----------------------------------------------------------------------------
(* Links *)

LEMMA LinksKept ==
  ASSUME LinksInv, TypeOK', \A a \in Articles : Alike(articles[a], articles'[a]),
         \A f \in Folders : prio[f] # 0 => prio'[f] # 0, UNCHANGED tags
  PROVE  LinksInv'
<1>1. ASSUME NEW a \in Articles, articles'[a] # None
      PROVE  prio'[articles'[a].folder] # 0 /\ \A g \in articles'[a].tags : tags'[g] # None
  <2>1. /\ articles[a] # None /\ articles'[a].folder = articles[a].folder
        /\ articles'[a].tags \subseteq articles[a].tags
    BY <1>1, AlikeFacts
  <2>2. prio[articles[a].folder] # 0 /\ \A g \in articles[a].tags : tags[g] # None
    BY <2>1 DEF LinksInv, LinksExist
  <2>3. articles[a].folder \in Folders
    BY <2>1 DEF LinksInv, TypeOK, ArticleRows
  <2> QED BY <2>1, <2>2, <2>3
<1> QED BY <1>1 DEF LinksInv, LinksExist

LEMMA SameLinks ==
  ASSUME LinksInv, TypeOK', UNCHANGED catalog
  PROVE  LinksInv'
BY DEF LinksInv, LinksExist, catalog

LEMMA WriteLinks ==
  ASSUME LinksInv, TypeOK', NEW t \in Tx, WriteArticle(t), ~Fail(t)
  PROVE  LinksInv'
<1>0. TypeOK
  BY DEF LinksInv
<1>1. PICK x, old : x = tx[t] /\ old = articles[x.id]
  OBVIOUS
<1>2. x.op \in {"create", "update", "publish", "unpublish"} /\ x.id \in Articles
      /\ UNCHANGED <<prio, tags>>
  BY <1>0, <1>1, WriteArticleEffect
<1>3. PICK row : RowWritten(x, old, row) /\ articles' = [articles EXCEPT ![x.id] = row]
  BY <1>0, <1>1, WriteArticleEffect
<1>4. articles'[x.id] = row /\ \A b \in Articles \ {x.id} : articles'[b] = articles[b]
  BY <1>0, <1>2, <1>3 DEF TypeOK
<1>5. prio[row.folder] # 0 /\ \A g \in row.tags : tags[g] # None
  <2>1. CASE x.op \in {"create", "update"}
    BY <1>3, <2>1 DEF RowWritten
  <2>2. CASE x.op \in {"publish", "unpublish"}
    <3>1. old # None /\ row.folder = old.folder /\ row.tags = old.tags
      BY <1>3, <2>2 DEF RowWritten
    <3> QED BY <1>1, <1>2, <3>1 DEF LinksInv, LinksExist
  <2> QED BY <1>2, <2>1, <2>2
<1> QED BY <1>2, <1>4, <1>5 DEF LinksInv, LinksExist

LEMMA FolderLinks ==
  ASSUME LinksInv, TypeOK', NEW t \in Tx, WriteFolders(t), ~Fail(t)
  PROVE  LinksInv'
<1>0. TypeOK
  BY DEF LinksInv
<1>1. articles' = articles /\ tags' = tags
  BY <1>0, WriteFoldersEffect
<1>2. CASE tx[t].op = "createFolder"
  <2>1. tx[t].id \in Folders /\ tx[t].prio # 0 /\ prio' = [prio EXCEPT ![tx[t].id] = tx[t].prio]
    BY <1>0, <1>2, WriteFoldersEffect
  <2>2. \A f \in Folders : prio[f] # 0 => prio'[f] # 0
    BY <1>0, <2>1 DEF TypeOK
  <2> QED BY <1>0, <1>1, <2>2, SameAlike, LinksKept
<1>3. CASE tx[t].op = "reorderFolders"
  <2>1. \A f \in Folders : prio[f] # 0 => prio'[f] # 0
    BY <1>0, <1>3, WriteFoldersEffect
  <2> QED BY <1>0, <1>1, <2>1, SameAlike, LinksKept
<1>4. CASE tx[t].op = "deleteFolder"
  <2>1. tx[t].id \in Folders /\ FolderEmpty(tx[t].id) /\ prio' = [prio EXCEPT ![tx[t].id] = 0]
    BY <1>0, <1>4, WriteFoldersEffect
  <2>2. ASSUME NEW a \in Articles, articles[a] # None
        PROVE  prio'[articles[a].folder] # 0 /\ \A g \in articles[a].tags : tags[g] # None
    <3>1. articles[a].folder # tx[t].id
      BY <2>1, <2>2 DEF FolderEmpty
    <3>2. articles[a].folder \in Folders
      BY <1>0, <2>2 DEF TypeOK, ArticleRows
    <3>3. prio'[articles[a].folder] = prio[articles[a].folder]
      BY <1>0, <2>1, <3>1, <3>2 DEF TypeOK
    <3> QED BY <2>2, <3>3 DEF LinksInv, LinksExist
  <2> QED BY <1>1, <2>2 DEF LinksInv, LinksExist
<1> QED BY <1>0, <1>2, <1>3, <1>4, WriteFoldersEffect

LEMMA TagLinks ==
  ASSUME LinksInv, TypeOK', NEW t \in Tx, WriteTag(t), ~Fail(t)
  PROVE  LinksInv'
<1>0. TypeOK
  BY DEF LinksInv
<1>1. /\ UNCHANGED prio /\ \A a \in Articles : Alike(articles[a], articles'[a])
      /\ \A g \in Tags : tags[g] # None /\ tags'[g] = None =>
           \A a \in Articles : articles'[a] # None => g \notin articles'[a].tags
  BY <1>0, WriteTagEffect
<1>2. ASSUME NEW a \in Articles, articles'[a] # None
      PROVE  prio'[articles'[a].folder] # 0 /\ \A g \in articles'[a].tags : tags'[g] # None
  <2>1. /\ articles[a] # None /\ articles'[a].folder = articles[a].folder
        /\ articles'[a].tags \subseteq articles[a].tags /\ articles[a].tags \subseteq Tags
    BY <1>0, <1>1, <1>2, AlikeFacts DEF TypeOK, ArticleRows
  <2>2. prio[articles[a].folder] # 0 /\ \A g \in articles[a].tags : tags[g] # None
    BY <2>1 DEF LinksInv, LinksExist
  <2>3. ASSUME NEW g \in articles'[a].tags PROVE tags'[g] # None
    <3>1. g \in Tags /\ tags[g] # None
      BY <2>1, <2>2
    <3> QED BY <1>1, <1>2, <3>1
  <2> QED BY <1>1, <2>1, <2>2, <2>3
<1> QED BY <1>2 DEF LinksInv, LinksExist

LEMMA StepLinks ==
  ASSUME LinksInv, [Next]_vars
  PROVE  LinksInv'
<1>0. TypeOK /\ TypeOK'
  BY StepTyped DEF LinksInv
<1>1. ASSUME NEW t \in Tx, Request(t) PROVE LinksInv'
  BY <1>0, <1>1, RequestArrives, SameLinks DEF Arrives
<1>2. ASSUME NEW t \in Tx, DeleteArticle(t) PROVE LinksInv'
  <2>1. tx[t].id \in Articles /\ articles' = [articles EXCEPT ![tx[t].id] = None]
        /\ UNCHANGED <<prio, tags>>
    BY <1>0, <1>2, DeleteEffect
  <2>2. \A b \in Articles : articles'[b] # None => articles'[b] = articles[b]
    BY <1>0, <2>1 DEF TypeOK
  <2> QED BY <1>0, <2>1, <2>2 DEF LinksInv, LinksExist
<1>3. ASSUME NEW t \in Tx, PublicStep(t) PROVE LinksInv'
  BY <1>0, <1>3, PublicQuiet, SameLinks DEF Quiet
<1>4. ASSUME NEW t \in Tx, CatalogStep(t) PROVE LinksInv'
  <2>1. CASE Fail(t)
    BY <1>0, <2>1, SameLinks DEF Fail
  <2>2. CASE LockArticle(t) /\ ~Fail(t)
    BY <1>0, <2>2, LockArticleMoves, SameLinks
  <2>3. CASE CheckReferences(t) /\ ~Fail(t)
    BY <1>0, <2>3, CheckReferencesMoves, SameLinks
  <2>4. CASE tx[t].op \in {"publish", "unpublish"} /\ ReadForSwitch(t) /\ ~Fail(t)
    BY <1>0, <2>4, ReadForSwitchMoves, SameLinks
  <2>5. CASE ReadFolders(t) /\ ~Fail(t)
    BY <1>0, <2>5, ReadFoldersMoves, SameLinks
  <2> QED BY <1>0, <1>4, <2>1, <2>2, <2>3, <2>4, <2>5, WriteLinks, FolderLinks, TagLinks
          DEF CatalogStep
<1>5. CASE Midnight \/ UNCHANGED vars
  BY <1>0, <1>5, SameLinks DEF Midnight, vars
<1> QED BY <1>1, <1>2, <1>3, <1>4, <1>5 DEF Next, Step, PublicStep

LEMMA InitLinks == Init => LinksInv
<1> SUFFICES ASSUME Init PROVE LinksInv
  OBVIOUS
<1>0. TypeOK /\ articles = StartArticles
  BY InitTyped DEF Init, CatalogInit
<1>1. ASSUME NEW f \in StartFolders PROVE prio[f] # 0
  <2>1. PICK S : S = {g \in StartFolders : Place(g) <= Place(f)}
    OBVIOUS
  <2>2. f \in Folders /\ f \in S /\ IsFiniteSet(S)
    <3>1. f \in Folders
      BY CatalogAssumptions
    <3>2. PICK k \in DOMAIN IdOrder : IdOrder[k] = f
      BY <3>1, CatalogAssumptions DEF Range
    <3>3. Place(f) \in DOMAIN IdOrder
      BY <3>2 DEF Place
    <3>4. Place(f) \in Nat
      BY <3>3, CatalogAssumptions
    <3>5. f \in S
      BY <2>1, <3>4
    <3>6. S \subseteq Folders
      BY <2>1, CatalogAssumptions
    <3> QED BY <3>1, <3>5, <3>6, FoldersFinite
  <2>3. Cardinality(S) # 0
    BY <2>2, FS_EmptySet
  <2> QED BY <2>1, <2>2, <2>3 DEF Init, CatalogInit
<1>2. \A g \in StartTags : g \in Tags => tags[g] # None
  BY CatalogAssumptions DEF Init, CatalogInit
<1>3. ASSUME NEW a \in Articles, articles[a] # None
      PROVE  prio[articles[a].folder] # 0 /\ \A g \in articles[a].tags : tags[g] # None
  <2>1. articles[a].folder \in StartFolders /\ articles[a].tags \subseteq StartTags
    BY <1>0, <1>3, CatalogAssumptions
  <2>2. articles[a].tags \subseteq Tags
    BY <1>0, <1>3 DEF TypeOK, ArticleRows
  <2> QED BY <1>1, <1>2, <2>1, <2>2
<1> QED BY <1>0, <1>3 DEF LinksInv, LinksExist

(* delete_folder and the tags' links: a published article is dated, and the
   folder and the tags of every article exist, whatever is deleted, renamed
   or written meanwhile. *)
THEOREM PublishedInPlace == Spec => [](PublishedDated /\ LinksExist)
<1>1. Spec => []LinksInv
  BY InitLinks, StepLinks, PTL DEF Spec
<1>2. ArticlesInv /\ LinksInv => PublishedDated /\ LinksExist
  BY DEF ArticlesInv, LinksInv
<1> QED BY <1>1, <1>2, ArticlesAlways, PTL

-----------------------------------------------------------------------------
(* Folders *)

Orders(x) == x.op \in {"createFolder", "reorderFolders"} /\ x.pc = "write"

Untied(p) == \A f, g \in Folders : p[f] # 0 /\ p[g] # 0 /\ f # g => p[f] # p[g]

LEMMA UntiedFacts ==
  ASSUME raced \in BOOLEAN
  PROVE  FolderTiesNeedRaces <=> (raced \/ Untied(prio))
BY DEF FolderTiesNeedRaces, Untied, Existing

(* Another request's reading of the folders outlasts a step. *)
LEMMA OthersOrder ==
  ASSUME FoldersInv, ~raced, NEW t \in Tx, NEW u \in Tx \ {t}, OthersStay(t),
         \A f \in Folders : prio[f] \in Nat /\ prio'[f] \in Nat /\ (prio[f] = 0 => prio'[f] = 0),
         tx[u].op = "createFolder" /\ Orders(tx[u]) => \A f \in Folders : prio'[f] <= prio[f],
         Orders(tx'[t]) /\ Orders(tx[u]) => tx[u].op # "createFolder"
  PROVE  OrderSafe(u)'
<1>1. PICK x, z : x = tx[u] /\ z = tx'[t]
  OBVIOUS
<1>2. tx'[u] = x /\ \A w \in Tx \ {t} : tx'[w] = tx[w]
  BY <1>1 DEF OthersStay
<1> SUFFICES ASSUME Orders(x)
             PROVE  /\ x.op = "createFolder" => \A f \in Folders : prio'[f] < x.prio
                    /\ x.op = "reorderFolders" => \A f \in Folders : prio'[f] # 0 => f \in Range(x.order)
                    /\ \A w \in Tx \ {u} : Orders(tx'[w]) => x.op # "createFolder"
  BY <1>1, <1>2 DEF OrderSafe, OrdersFolders, Orders, At, Existing
<1>3. /\ x.op = "createFolder" => \A f \in Folders : prio[f] < x.prio
      /\ x.op = "reorderFolders" => \A f \in Folders : prio[f] # 0 => f \in Range(x.order)
      /\ \A w \in Tx \ {u} : Orders(tx[w]) => x.op # "createFolder"
  BY <1>1 DEF FoldersInv, OrderSafe, OrdersFolders, Orders, At, Existing
<1>4. x.op = "createFolder" => \A f \in Folders : prio'[f] < x.prio
  <2> SUFFICES ASSUME x.op = "createFolder", NEW f \in Folders PROVE prio'[f] < x.prio
    OBVIOUS
  <2>1. x.prio \in Nat
    BY <1>1, Standing DEF FoldersInv, Filing, Orders
  <2> QED BY <1>1, <1>3, <2>1
<1>5. \A w \in Tx \ {u} : Orders(tx'[w]) => x.op # "createFolder"
  BY <1>1, <1>2, <1>3
<1> QED BY <1>3, <1>4, <1>5

LEMMA SameFolders ==
  ASSUME FoldersInv, TypeOK', NEW t \in Tx, OthersStay(t), UNCHANGED <<prio, raced>>, ~Orders(tx'[t])
  PROVE  FoldersInv'
<1>1. raced' \in BOOLEAN /\ FolderTiesNeedRaces'
  BY DEF FoldersInv, FolderTiesNeedRaces, Existing
<1>2. ASSUME ~raced' PROVE \A u \in Tx : OrderSafe(u)'
  <2>1. OrderSafe(t)'
    BY DEF OrderSafe, OrdersFolders, Orders, At
  <2>2. \A f \in Folders : prio[f] \in Nat /\ prio'[f] \in Nat /\ prio'[f] <= prio[f]
    BY DEF FoldersInv, TypeOK
  <2>3. ASSUME NEW u \in Tx \ {t} PROVE OrderSafe(u)'
    BY <1>2, <2>2, OthersOrder
  <2> QED BY <2>1, <2>3
<1> QED BY <1>1, <1>2 DEF FoldersInv

LEMMA EndFolders ==
  ASSUME FoldersInv, TypeOK', NEW t \in Tx, End(t), UNCHANGED prio
  PROVE  FoldersInv'
<1>1. OthersStay(t) /\ tx'[t] = Idle /\ raced' = raced
  BY EndFields DEF FoldersInv, End
<1>2. ~Orders(tx'[t])
  BY <1>1, IdleOK DEF Orders
<1> QED BY <1>1, <1>2, SameFolders

LEMMA ReadFoldersSafe ==
  ASSUME FoldersInv, TypeOK', NEW t \in Tx, ReadFolders(t), ~Fail(t)
  PROVE  FoldersInv'
<1>0. TypeOK /\ raced \in BOOLEAN
  BY DEF FoldersInv
<1>1. PICK x, y : x = tx[t] /\ y = tx'[t]
  OBVIOUS
<1>2. /\ OthersStay(t) /\ y.op = x.op /\ y.order = x.order /\ y.pc = "write"
      /\ x.op \in {"createFolder", "reorderFolders"} /\ y.prio = NextFolderPriority
      /\ x.op = "reorderFolders" => Range(x.order) = Existing
      /\ raced' = (raced \/ \E u \in Tx \ {t} :
                     OrdersFolders(u) /\ "createFolder" \in {x.op, tx[u].op})
      /\ prio' = prio
  BY <1>0, <1>1, ReadFoldersMoves DEF Keeps, catalog
<1>3. raced' \in BOOLEAN /\ (raced => raced')
  BY <1>0, <1>2
<1>4. FolderTiesNeedRaces'
  BY <1>2, <1>3 DEF FoldersInv, FolderTiesNeedRaces, Existing
<1>5. ASSUME ~raced' PROVE \A u \in Tx : OrderSafe(u)'
  <2>1. ~raced /\ \A u \in Tx \ {t} : Orders(tx[u]) => x.op # "createFolder" /\ tx[u].op # "createFolder"
    BY <1>2, <1>5 DEF OrdersFolders, Orders, At
  <2>2. OrderSafe(t)'
    <3>1. x.op = "createFolder" => \A f \in Folders : prio'[f] < y.prio
      BY <1>0, <1>2, NextIsNew
    <3>2. x.op = "reorderFolders" => Existing' \subseteq Range(y.order)
      BY <1>2 DEF Existing
    <3>3. \A u \in Tx \ {t} : Orders(tx'[u]) => y.op # "createFolder"
      BY <1>2, <2>1 DEF OthersStay
    <3> QED BY <1>1, <1>2, <3>1, <3>2, <3>3 DEF OrderSafe, OrdersFolders, Orders, At
  <2>3. \A f \in Folders : prio[f] \in Nat /\ prio'[f] \in Nat /\ prio'[f] <= prio[f]
    BY <1>0, <1>2 DEF TypeOK
  <2>4. ASSUME NEW u \in Tx \ {t} PROVE OrderSafe(u)'
    BY <1>2, <2>1, <2>3, OthersOrder
  <2> QED BY <2>2, <2>4
<1> QED BY <1>3, <1>4, <1>5 DEF FoldersInv

LEMMA WriteFoldersSafe ==
  ASSUME FoldersInv, TypeOK', NEW t \in Tx, WriteFolders(t), ~Fail(t)
  PROVE  FoldersInv'
<1>0. TypeOK /\ raced \in BOOLEAN
  BY DEF FoldersInv
<1>1. PICK x : x = tx[t]
  OBVIOUS
<1>2. End(t) /\ x.pc = "write" /\ prio' \in [Folders -> Nat]
  BY <1>0, <1>1, WriteFoldersEffect
<1>3. OthersStay(t) /\ tx'[t] = Idle /\ raced' = raced /\ ~Orders(tx'[t])
  BY <1>0, <1>2, EndFields, IdleOK DEF End, Orders
<1>4. \A f \in Folders : prio[f] \in Nat /\ prio'[f] \in Nat
  BY <1>0, <1>2 DEF TypeOK
<1>5. OrderSafe(t)'
  BY <1>3 DEF OrderSafe, OrdersFolders, Orders, At
<1>6. raced => FoldersInv'
  BY <1>3, UntiedFacts DEF FoldersInv, FolderTiesNeedRaces
<1> SUFFICES ASSUME ~raced PROVE FoldersInv'
  BY <1>6
<1>7. Untied(prio)
  BY <1>0, UntiedFacts DEF FoldersInv
<1>8. ASSUME Untied(prio'), \A u \in Tx \ {t} : OrderSafe(u)' PROVE FoldersInv'
  <2>1. FolderTiesNeedRaces'
    BY <1>8 DEF FolderTiesNeedRaces, Untied, Existing
  <2> QED BY <1>0, <1>3, <1>5, <1>8, <2>1 DEF FoldersInv
<1>9. Orders(x) =>
        /\ x.op = "createFolder" => \A f \in Folders : prio[f] < x.prio
        /\ x.op = "reorderFolders" => \A f \in Folders : prio[f] # 0 => f \in Range(x.order)
        /\ \A u \in Tx \ {t} : Orders(tx[u]) => x.op # "createFolder" /\ tx[u].op # "createFolder"
  BY <1>1 DEF FoldersInv, OrderSafe, OrdersFolders, Orders, At, Existing
<1>10. CASE x.op = "createFolder"
  <2>1. x.id \in Folders /\ x.prio \in Nat \ {0} /\ prio' = [prio EXCEPT ![x.id] = x.prio]
    BY <1>0, <1>1, <1>10, WriteFoldersEffect
  <2>2. prio'[x.id] = x.prio /\ \A f \in Folders \ {x.id} : prio'[f] = prio[f] /\ prio[f] < x.prio
    BY <1>0, <1>2, <1>9, <1>10, <2>1 DEF TypeOK, Orders
  <2>3. Untied(prio')
    BY <1>4, <1>7, <2>1, <2>2 DEF Untied
  <2>4. ASSUME NEW u \in Tx \ {t} PROVE OrderSafe(u)'
    <3>1. ~Orders(tx[u])
      BY <1>2, <1>9, <1>10 DEF Orders
    <3> QED BY <1>3, <3>1 DEF OrderSafe, OrdersFolders, Orders, At, OthersStay
  <2> QED BY <1>8, <2>3, <2>4
<1>11. CASE x.op = "reorderFolders"
  <2>1. PICK order : order = x.order
    OBVIOUS
  <2>2. \A f \in Folders : IF prio[f] # 0 /\ f \in Range(order)
                           THEN order[prio'[f]] = f
                           ELSE prio'[f] = prio[f]
    BY <1>0, <1>1, <1>11, <2>1, WriteFoldersEffect
  <2>3. \A f \in Folders : prio[f] # 0 => f \in Range(order)
    BY <1>2, <1>9, <1>11, <2>1 DEF Orders
  <2>4. \A f \in Folders : (prio[f] = 0 => prio'[f] = 0) /\ (prio[f] # 0 => order[prio'[f]] = f)
    BY <2>2, <2>3
  <2>5. Untied(prio')
    BY <2>4 DEF Untied
  <2>6. ASSUME NEW u \in Tx \ {t} PROVE OrderSafe(u)'
    <3>1. Orders(tx[u]) => tx[u].op # "createFolder"
      BY <1>2, <1>9, <1>11 DEF Orders
    <3> QED BY <1>3, <1>4, <2>4, <3>1, OthersOrder
  <2> QED BY <1>8, <2>5, <2>6
<1>12. CASE x.op = "deleteFolder"
  <2>1. x.id \in Folders /\ prio' = [prio EXCEPT ![x.id] = 0]
    BY <1>0, <1>1, <1>12, WriteFoldersEffect
  <2>2. prio'[x.id] = 0 /\ \A f \in Folders \ {x.id} : prio'[f] = prio[f]
    BY <1>0, <2>1 DEF TypeOK
  <2>3. Untied(prio')
    BY <1>7, <2>2 DEF Untied
  <2>4. \A f \in Folders : (prio[f] = 0 => prio'[f] = 0) /\ prio'[f] <= prio[f]
    BY <1>4, <2>1, <2>2
  <2>5. ASSUME NEW u \in Tx \ {t} PROVE OrderSafe(u)'
    BY <1>3, <1>4, <2>4, OthersOrder
  <2> QED BY <1>8, <2>3, <2>5
<1> QED BY <1>0, <1>1, <1>10, <1>11, <1>12, WriteFoldersEffect

LEMMA StepFolders ==
  ASSUME FoldersInv, [Next]_vars
  PROVE  FoldersInv'
<1>0. TypeOK /\ TypeOK'
  BY StepTyped DEF FoldersInv
<1>1. ASSUME NEW t \in Tx, Request(t) PROVE FoldersInv'
  <2>1. PICK x : Arrives(t, x)
    BY <1>0, <1>1, RequestArrives
  <2>2. OthersStay(t) /\ tx'[t] = x /\ UNCHANGED <<prio, raced>>
    BY <1>0, <2>1, Replaced DEF Arrives, catalog
  <2>3. ~Orders(tx'[t])
    BY <2>1, <2>2 DEF Orders, Arrives
  <2> QED BY <1>0, <2>2, <2>3, SameFolders
<1>2. ASSUME NEW t \in Tx, DeleteArticle(t) PROVE FoldersInv'
  BY <1>0, <1>2, DeleteEffect, EndFolders
<1>3. ASSUME NEW t \in Tx, PublicStep(t) PROVE FoldersInv'
  <2>1. OthersStay(t) /\ UNCHANGED <<prio, raced>> /\ ~Orders(tx'[t])
    BY <1>0, <1>3, PublicQuiet, IdleOK DEF Quiet, catalog, Orders
  <2> QED BY <1>0, <2>1, SameFolders
<1>4. ASSUME NEW t \in Tx, CatalogStep(t) PROVE FoldersInv'
  <2>1. CASE Fail(t)
    BY <1>0, <2>1, EndFolders DEF Fail, catalog
  <2>2. CASE LockArticle(t) /\ ~Fail(t)
    <3>1. OthersStay(t) /\ UNCHANGED <<prio, raced>> /\ ~Orders(tx'[t])
      BY <1>0, <2>2, LockArticleMoves DEF catalog, Keeps, Orders
    <3> QED BY <1>0, <3>1, SameFolders
  <2>3. CASE CheckReferences(t) /\ ~Fail(t)
    <3>1. OthersStay(t) /\ UNCHANGED <<prio, raced>> /\ ~Orders(tx'[t])
      BY <1>0, <2>3, CheckReferencesMoves DEF catalog, Keeps, Orders
    <3> QED BY <1>0, <3>1, SameFolders
  <2>4. CASE tx[t].op \in {"publish", "unpublish"} /\ ReadForSwitch(t) /\ ~Fail(t)
    <3>1. OthersStay(t) /\ UNCHANGED <<prio, raced>> /\ ~Orders(tx'[t])
      BY <1>0, <2>4, ReadForSwitchMoves DEF catalog, Keeps, Orders
    <3> QED BY <1>0, <3>1, SameFolders
  <2>5. CASE WriteArticle(t) /\ ~Fail(t)
    BY <1>0, <2>5, WriteArticleEffect, EndFolders
  <2>6. CASE WriteTag(t) /\ ~Fail(t)
    BY <1>0, <2>6, WriteTagEffect, EndFolders
  <2> QED BY <1>0, <1>4, <2>1, <2>2, <2>3, <2>4, <2>5, <2>6, ReadFoldersSafe, WriteFoldersSafe
          DEF CatalogStep
<1>5. CASE Midnight \/ UNCHANGED vars
  <2>1. UNCHANGED <<prio, raced, tx>>
    BY <1>5 DEF Midnight, vars, catalog
  <2> QED BY <1>0, <2>1 DEF FoldersInv, FolderTiesNeedRaces, Existing, OrderSafe, OrdersFolders, At
<1> QED BY <1>1, <1>2, <1>3, <1>4, <1>5 DEF Next, Step, PublicStep

LEMMA PlaceOf ==
  ASSUME NEW f \in Folders
  PROVE  Place(f) \in Nat /\ IdOrder[Place(f)] = f
<1>1. PICK k \in DOMAIN IdOrder : IdOrder[k] = f
  BY CatalogAssumptions DEF Range
<1>2. Place(f) \in DOMAIN IdOrder /\ IdOrder[Place(f)] = f
  BY <1>1 DEF Place
<1> QED BY <1>2, CatalogAssumptions

(* The folders of the start have the priorities 1, 2, ... *)
LEMMA RanksApart ==
  ASSUME NEW f \in StartFolders, NEW g \in StartFolders, Place(f) < Place(g)
  PROVE  Cardinality({h \in StartFolders : Place(h) <= Place(f)})
           # Cardinality({h \in StartFolders : Place(h) <= Place(g)})
<1>0. StartFolders \subseteq Folders
  BY CatalogAssumptions
<1>1. PICK S, T : /\ S = {h \in StartFolders : Place(h) <= Place(f)}
                  /\ T = {h \in StartFolders : Place(h) <= Place(g)}
  OBVIOUS
<1>2. \A h \in StartFolders : Place(h) \in Nat
  BY <1>0, PlaceOf
<1>3. S \subseteq T
  BY <1>1, <1>2
<1>4. g \in T /\ g \notin S
  BY <1>1, <1>2
<1>5. IsFiniteSet(T) /\ IsFiniteSet(S)
  BY <1>0, <1>1, FoldersFinite
<1>6. Cardinality(T) = Cardinality(S) => T = S
  BY <1>3, <1>5, FS_Subset
<1> QED BY <1>1, <1>4, <1>6

LEMMA InitFolders == Init => FoldersInv
<1> SUFFICES ASSUME Init PROVE FoldersInv
  OBVIOUS
<1>1. TypeOK /\ raced = FALSE /\ \A t \in Tx : tx[t].op = "none"
  BY InitTyped, IdleOK DEF Init, CatalogInit
<1>2. \A t \in Tx : OrderSafe(t)
  BY <1>1 DEF OrderSafe, OrdersFolders
<1>3. ASSUME NEW f \in Existing, NEW g \in Existing, f # g PROVE prio[f] # prio[g]
  <2>1. f \in StartFolders /\ g \in StartFolders /\ f \in Folders /\ g \in Folders
    BY DEF Existing, Init, CatalogInit
  <2>2. /\ prio[f] = Cardinality({h \in StartFolders : Place(h) <= Place(f)})
        /\ prio[g] = Cardinality({h \in StartFolders : Place(h) <= Place(g)})
    BY <2>1 DEF Init, CatalogInit
  <2>3. Place(f) \in Nat /\ Place(g) \in Nat /\ Place(f) # Place(g)
    BY <1>3, <2>1, PlaceOf
  <2>4. CASE Place(f) < Place(g)
    BY <2>1, <2>2, <2>4, RanksApart
  <2>5. CASE Place(g) < Place(f)
    BY <2>1, <2>2, <2>5, RanksApart
  <2> QED BY <2>3, <2>4, <2>5
<1> QED BY <1>1, <1>2, <1>3 DEF FoldersInv, FolderTiesNeedRaces

(* next_folder_priority and ensure_priority_order_matches: folders get the
   same priority only if one was created while another request was ordering
   folders. *)
THEOREM FolderTiesOnlyByRaces == Spec => []FolderTiesNeedRaces
<1>1. FoldersInv => FolderTiesNeedRaces
  BY DEF FoldersInv
<1> QED BY <1>1, InitFolders, StepFolders, PTL DEF Spec

-----------------------------------------------------------------------------
(* The public tree *)

LEMMA FoldersListed ==
  ASSUME TypeOK, NEW S \in SUBSET Folders
  PROVE  IsFiniteSet(S) /\ FolderOrder(S) \in SetToSeqs(S)
<1>0. IsFiniteSet(S)
  BY FoldersFinite
<1>1. PICK R : R = {p \in Folders \X Folders : FolderBefore(p[1], p[2])}
  OBVIOUS
<1>2. \A f, g \in S : <<f, g>> \in R <=> FolderBefore(f, g)
  BY <1>1
<1>3. \A f \in S : prio[f] \in Nat /\ Place(f) \in Nat
  BY PlaceOf DEF TypeOK
<1>4. \A f \in S : <<f, f>> \notin R
  BY <1>2, <1>3 DEF FolderBefore
<1>5. \A f, g, h \in S : <<f, g>> \in R /\ <<g, h>> \in R => <<f, h>> \in R
  BY <1>2, <1>3 DEF FolderBefore
<1>6. PICK s \in SetToSeqs(S) : SortedBy(s, R)
  BY <1>0, <1>4, <1>5, SortedExists
<1>7. \A n \in DOMAIN s : s[n] \in S
  BY <1>0, ListsAll
<1>8. \A j, k \in DOMAIN s : j < k => ~FolderBefore(s[k], s[j])
  BY <1>2, <1>6, <1>7 DEF SortedBy
<1> QED BY <1>0, <1>6, <1>8 DEF FolderOrder

LEMMA ArticlesListed ==
  ASSUME TypeOK, PublishedDated, NEW f
  PROVE  IsFiniteSet(PublishedIn(f)) /\ ByDate(PublishedIn(f)) \in SetToSeqs(PublishedIn(f))
<1>0. PublishedIn(f) \in SUBSET Articles /\ \A a \in PublishedIn(f) : Available(a)
  BY DEF PublishedIn
<1>1. PICK S : S = PublishedIn(f) /\ S \in SUBSET Articles /\ \A a \in S : Available(a)
  BY <1>0
<1>2. IsFiniteSet(S)
  BY <1>1, CatalogAssumptions, FS_Subset
<1>3. \A a \in S : articles[a].at \in Nat
  <2> SUFFICES ASSUME NEW a \in S PROVE articles[a].at \in Nat
    OBVIOUS
  <2>1. a \in Articles /\ articles[a] # None /\ articles[a].at # None
    BY <1>1 DEF Available, PublishedDated
  <2>2. articles[a] \in ArticleRows
    BY <2>1 DEF TypeOK
  <2> QED BY <2>1, <2>2 DEF ArticleRows
<1>4. PICK R : R = {p \in Articles \X Articles : articles[p[2]].at < articles[p[1]].at}
  OBVIOUS
<1>5. \A a, b \in S : <<a, b>> \in R <=> articles[b].at < articles[a].at
  BY <1>1, <1>4
<1>6. \A a \in S : <<a, a>> \notin R
  BY <1>3, <1>5
<1>7. \A a, b, c \in S : <<a, b>> \in R /\ <<b, c>> \in R => <<a, c>> \in R
  BY <1>3, <1>5
<1>8. PICK s \in SetToSeqs(S) : SortedBy(s, R)
  BY <1>2, <1>6, <1>7, SortedExists
<1>9. \A n \in DOMAIN s : s[n] \in S
  BY <1>2, ListsAll
<1>10. \A j, k \in DOMAIN s : j < k => articles[s[k]].at <= articles[s[j]].at
  <2> SUFFICES ASSUME NEW j \in DOMAIN s, NEW k \in DOMAIN s, j < k
               PROVE  articles[s[k]].at <= articles[s[j]].at
    OBVIOUS
  <2>1. PICK a \in S, b \in S : a = s[j] /\ b = s[k]
    BY <1>9
  <2>2. <<b, a>> \notin R
    BY <1>8, <2>1 DEF SortedBy
  <2>3. articles[b].at <= articles[a].at
    BY <1>3, <1>5, <2>2
  <2> QED BY <2>1, <2>3
<1>11. ByDate(S) \in SetToSeqs(S)
  <2>1. \E q \in SetToSeqs(S) :
          \A j, k \in DOMAIN q : j < k => articles[q[k]].at <= articles[q[j]].at
    BY <1>8, <1>10
  <2> QED BY <2>1, Zenon DEF ByDate
<1> QED BY <1>1, <1>2, <1>11

LEMMA TreeShowsAll ==
  ASSUME TypeOK, PublishedDated, LinksExist
  PROVE  PublicTreeComplete
<1>1. PICK S : S = {f \in Existing : PublishedIn(f) # {}} /\ S \in SUBSET Folders /\ S \subseteq Existing
  BY DEF Existing
<1>2. PICK order : order = FolderOrder(S) /\ order = TreeFolders
  BY <1>1 DEF TreeFolders
<1>3. IsFiniteSet(S) /\ order \in SetToSeqs(S)
  BY <1>1, <1>2, FoldersListed
<1>4. /\ \A n \in DOMAIN order : order[n] \in S
      /\ \A m, n \in DOMAIN order : order[m] = order[n] => m = n
      /\ \A f \in S : \E n \in DOMAIN order : order[n] = f
  BY <1>3, ListsAll
<1>5. /\ DOMAIN PublicTree = DOMAIN order
      /\ \A k \in DOMAIN order : /\ PublicTree[k].folder = order[k]
                                 /\ PublicTree[k].articles = ByDate(PublishedIn(order[k]))
  BY <1>2 DEF PublicTree
<1>6. IsInjective([k \in DOMAIN PublicTree |-> PublicTree[k].folder])
  BY <1>4, <1>5 DEF IsInjective
<1>7. \A k \in DOMAIN PublicTree : PublicTree[k].folder \in Existing
  BY <1>1, <1>4, <1>5
<1>8. ASSUME NEW a \in Articles, Available(a)
      PROVE  \E k \in DOMAIN PublicTree : a \in Range(PublicTree[k].articles)
  <2>1. PICK f : f = articles[a].folder
    OBVIOUS
  <2>2. articles[a] # None /\ articles[a] \in ArticleRows
    BY <1>8 DEF Available, TypeOK
  <2>3. f \in Folders /\ prio[f] # 0
    BY <2>1, <2>2 DEF LinksExist, ArticleRows
  <2>4. a \in PublishedIn(f)
    BY <1>8, <2>1 DEF PublishedIn
  <2>5. f \in S
    BY <1>1, <2>3, <2>4 DEF Existing
  <2>6. PICK k \in DOMAIN order : order[k] = f
    BY <1>4, <2>5
  <2>7. PICK list, T : list = ByDate(T) /\ T = PublishedIn(f)
    OBVIOUS
  <2>8. IsFiniteSet(T) /\ list \in SetToSeqs(T) /\ a \in T
    BY <2>4, <2>7, ArticlesListed
  <2>9. \E n \in DOMAIN list : list[n] = a
    BY <2>8, ListsAll
  <2>10. a \in Range(list)
    BY <2>9 DEF Range
  <2>11. PublicTree[k].articles = list
    BY <1>5, <2>6, <2>7
  <2> QED BY <1>5, <2>6, <2>10, <2>11
<1>9. ASSUME NEW a \in Articles, Available(a)
      PROVE  articles[a].at # None /\ articles[a].tags \subseteq PublicTags
  <2>1. articles[a] # None /\ articles[a] \in ArticleRows
    BY <1>9 DEF Available, TypeOK
  <2>2. articles[a].tags \subseteq Tags /\ \A g \in articles[a].tags : tags[g] # None
    BY <2>1 DEF LinksExist, ArticleRows
  <2> QED BY <1>9, <2>2 DEF PublishedDated, PublicTags
<1>10. \A a \in Articles : articles[a] # None => \A g \in articles[a].tags : tags[g] # None
  BY DEF LinksExist
<1> QED BY <1>6, <1>7, <1>8, <1>9, <1>10 DEF PublicTreeComplete

(* delete_folder and the tree: every published article is in the public
   tree, once, dated, below a folder that exists, and a folder is shown once
   even when priorities are equal; the tags of an article exist, and a
   published article is found by each of its tags. *)
THEOREM PublicTreeAlwaysComplete == Spec => []PublicTreeComplete
<1>1. Spec => []LinksInv
  BY InitLinks, StepLinks, PTL DEF Spec
<1>2. ArticlesInv /\ LinksInv => PublicTreeComplete
  BY TreeShowsAll DEF ArticlesInv, LinksInv
<1> QED BY <1>1, <1>2, ArticlesAlways, PTL

-----------------------------------------------------------------------------
(* Locked reaction rows and receipts *)

LEMMA KeysReleased ==
  ASSUME KeysInv, TypeOK', NEW t \in Tx, OthersStay(t), keys' = [keys EXCEPT ![t] = {}]
  PROVE  KeysInv'
<1>1. keys'[t] = {} /\ \A u \in Tx \ {t} : keys'[u] = keys[u]
  BY DEF KeysInv, TypeOK
<1>2. KeysApart'
  BY <1>1 DEF KeysInv, KeysApart
<1>3. KeysOwned'
  BY <1>1 DEF KeysInv, KeysOwned, OthersStay
<1> QED BY <1>2, <1>3 DEF KeysInv

LEMMA KeysTaken ==
  ASSUME KeysInv, TypeOK', NEW t \in Tx, OthersStay(t), tx'[t].op \in {"react", "visit"},
         NEW locked, keys' = [keys EXCEPT ![t] = locked],
         \A k \in locked : k \in keys[t] \/ Free(t, k)
  PROVE  KeysInv'
<1>1. keys'[t] = locked /\ \A u \in Tx \ {t} : keys'[u] = keys[u]
  BY DEF KeysInv, TypeOK
<1>2. \A u \in Tx \ {t} : locked \cap keys[u] = {}
  BY DEF KeysInv, KeysApart, Free
<1>3. KeysApart'
  BY <1>1, <1>2 DEF KeysInv, KeysApart
<1>4. KeysOwned'
  BY <1>1 DEF KeysInv, KeysOwned, OthersStay
<1> QED BY <1>3, <1>4 DEF KeysInv

(* A request that holds no keys and takes none *)
LEMMA KeysKept ==
  ASSUME KeysInv, TypeOK', NEW t \in Tx, OthersStay(t), keys' = keys,
         tx[t].op \notin {"react", "visit"}
  PROVE  KeysInv'
<1>1. keys[t] = {} /\ KeysApart'
  BY DEF KeysInv, KeysOwned, KeysApart
<1>2. KeysOwned'
  BY <1>1 DEF KeysInv, KeysOwned, OthersStay
<1> QED BY <1>1, <1>2 DEF KeysInv

LEMMA CatalogKeys ==
  ASSUME TypeOK, NEW t \in Tx, CatalogStep(t)
  PROVE  OthersStay(t) /\ tx[t].op \notin {"react", "visit"} /\ tx'[t].op \in {tx[t].op, "none"}
<1>1. CASE LockArticle(t)
  <2>1. tx[t].op \in {"update", "delete"}
    BY <1>1, Standing DEF LockArticle
  <2>2. CASE Fail(t)
    BY <2>1, <2>2, EndFields, IdleOK DEF Fail
  <2> QED BY <1>1, <2>1, <2>2, LockArticleMoves DEF Keeps
<1>2. CASE CheckReferences(t)
  <2>1. tx[t].op \in {"create", "update"}
    BY <1>2, Standing DEF CheckReferences
  <2>2. CASE Fail(t)
    BY <2>1, <2>2, EndFields, IdleOK DEF Fail
  <2> QED BY <1>2, <2>1, <2>2, CheckReferencesMoves DEF Keeps
<1>3. CASE tx[t].op \in {"publish", "unpublish"} /\ ReadForSwitch(t)
  <2>1. CASE Fail(t)
    BY <1>3, <2>1, EndFields, IdleOK DEF Fail
  <2> QED BY <1>3, <2>1, ReadForSwitchMoves DEF Keeps
<1>4. CASE WriteArticle(t)
  <2>1. tx[t].op \in {"create", "update", "publish", "unpublish"} /\ End(t)
    BY <1>4 DEF WriteArticle, Fail
  <2> QED BY <2>1, EndFields, IdleOK
<1>5. CASE ReadFolders(t)
  <2>1. CASE Fail(t)
    BY <1>5, <2>1, EndFields, IdleOK DEF Fail, ReadFolders
  <2> QED BY <1>5, <2>1, ReadFoldersMoves DEF Keeps
<1>6. CASE WriteFolders(t)
  <2>1. tx[t].op \in {"createFolder", "reorderFolders", "deleteFolder"} /\ End(t)
    BY <1>6 DEF WriteFolders, Fail
  <2> QED BY <2>1, EndFields, IdleOK
<1>7. CASE WriteTag(t)
  <2>1. tx[t].op \in {"createTag", "updateTag", "deleteTag"} /\ End(t)
    BY <1>7 DEF WriteTag, Fail
  <2> QED BY <2>1, EndFields, IdleOK
<1> QED BY <1>1, <1>2, <1>3, <1>4, <1>5, <1>6, <1>7 DEF CatalogStep

LEMMA ArriveKeys ==
  ASSUME TypeOK, NEW t \in Tx, Request(t)
  PROVE  /\ OthersStay(t) /\ tx[t].op = "none" /\ UNCHANGED <<traffic, keys, day, history>>
         /\ tx'[t].op = "react" => tx'[t].pc = "reaction"
         /\ tx'[t].op = "visit" => tx'[t].pc \in {"receipt", "engage"} /\ tx'[t].day = day
<1>1. tx[t].op = "none"
  BY Standing, IdleOK DEF Request
<1>2. PICK x : Arrives(t, x)
  BY RequestArrives
<1>3. OthersStay(t) /\ tx'[t] = x
  BY <1>2, Replaced DEF Arrives
<1> QED BY <1>1, <1>2, <1>3, RequestArrives DEF Arrives

LEMMA AdvanceKeys ==
  ASSUME KeysInv, TypeOK', NEW t \in Tx, tx[t].op = "visit", NEW pc, NEW locked,
         Advance(t, pc, locked), \A k \in locked : Free(t, k)
  PROVE  KeysInv'
<1>0. TypeOK
  BY DEF KeysInv
<1>1. OthersStay(t) /\ Keeps(tx[t], tx'[t]) /\ keys' = [keys EXCEPT ![t] = keys[t] \cup locked]
  BY <1>0, AdvanceMoves DEF TypeOK
<1>2. tx'[t].op \in {"react", "visit"}
  BY <1>1 DEF Keeps
<1>3. \A k \in keys[t] \cup locked : k \in keys[t] \/ Free(t, k)
  OBVIOUS
<1> QED BY <1>1, <1>2, <1>3, KeysTaken

LEMMA ReceiptAdvances ==
  ASSUME TypeOK, NEW t \in Tx, TakeReceipt(t)
  PROVE  /\ tx[t].op = "visit" /\ tx[t].pc = "receipt"
         /\ \E pc \in {"audience", "commit", "clean"}, locked \in SUBSET {VisitKey(t)} :
              /\ Advance(t, pc, locked) /\ \A k \in locked : Free(t, k) /\ ~Issued(k)
              /\ pc # "clean" => locked = {VisitKey(t)}
BY Standing DEF TakeReceipt, At, VisitKey

LEMMA AudienceAdvances ==
  ASSUME TypeOK, NEW t \in Tx, TakeAudience(t)
  PROVE  /\ tx[t].op = "visit" /\ tx[t].pc = "audience"
         /\ \E locked \in SUBSET {AudienceKey(t)} :
              Advance(t, "commit", locked) /\ \A k \in locked : Free(t, k) /\ ~Issued(k)
BY Standing DEF TakeAudience, At, AudienceKey

LEMMA StepKeys ==
  ASSUME KeysInv, [Next]_vars
  PROVE  KeysInv'
<1>0. TypeOK /\ TypeOK'
  BY StepTyped DEF KeysInv
<1>1. ASSUME NEW t \in Tx, Request(t) PROVE KeysInv'
  BY <1>0, <1>1, ArriveKeys, KeysKept
<1>2. ASSUME NEW t \in Tx, CatalogStep(t), keys' = keys PROVE KeysInv'
  BY <1>0, <1>2, CatalogKeys, KeysKept
<1>3. ASSUME NEW t \in Tx, End(t), Unlock(t) PROVE KeysInv'
  BY <1>0, <1>3, EndFields, KeysReleased DEF Unlock
<1>4. ASSUME NEW t \in Tx, LockReaction(t) PROVE KeysInv'
  <2>1. PICK locked : locked = Locked(Reaction(t))
    OBVIOUS
  <2>2. OthersStay(t) /\ tx'[t].op = "react" /\ Free(t, Reaction(t))
        /\ keys' = [keys EXCEPT ![t] = locked]
    BY <1>0, <1>4, <2>1, LockReactionMoves DEF Keeps
  <2>3. \A k \in locked : Free(t, k)
    BY <2>1, <2>2 DEF Locked
  <2> QED BY <1>0, <2>2, <2>3, KeysTaken
<1>5. ASSUME NEW t \in Tx, TakeReceipt(t) PROVE KeysInv'
  BY <1>0, <1>5, ReceiptAdvances, AdvanceKeys
<1>6. ASSUME NEW t \in Tx, TakeAudience(t) PROVE KeysInv'
  BY <1>0, <1>6, AudienceAdvances, AdvanceKeys
<1>7. CASE Midnight \/ UNCHANGED vars
  <2>1. UNCHANGED <<keys, tx>>
    BY <1>7 DEF Midnight, vars
  <2> QED BY <1>0, <2>1 DEF KeysInv, KeysApart, KeysOwned
<1>8. ASSUME NEW t \in Tx, WriteReaction(t) \/ CountView(t) \/ CommitVisit(t) \/ CommitNothing(t)
                             \/ Engage(t) \/ Rollback(t) \/ DeleteArticle(t)
      PROVE  KeysInv'
  <2>1. End(t) /\ Unlock(t)
    BY <1>8 DEF WriteReaction, CountView, CommitVisit, CommitNothing, Engage, Rollback, Fail,
                DeleteArticle
  <2> QED BY <1>3, <2>1
<1> QED BY <1>1, <1>2, <1>4, <1>5, <1>6, <1>7, <1>8 DEF Next, Step, LoseView

LEMMA InitKeys == Init => KeysInv
BY InitTyped DEF Init, KeysInv, KeysApart, KeysOwned

-----------------------------------------------------------------------------
(* Reactions *)

LEMMA ReactionRow ==
  ASSUME TypeOK, NEW t \in Tx, tx[t].op = "react"
  PROVE  Reaction(t) \in Articles \X Voters /\ tx[t].id \in Articles /\ Reaction(t)[1] = tx[t].id
         /\ tx[t].new[2] \in Kinds \cup {None}
BY Standing DEF Reacting, Reaction

(* A step that leaves the reactions of others alone *)
LEMMA ReactionsKept ==
  ASSUME ReactionsInv, KeysInv', NEW t \in Tx, OthersStay(t),
         \A u \in Tx \ {t} : keys'[u] = keys[u],
         \A u \in Tx \ {t} : tx[u].op = "react" /\ Reaction(u) \in keys[u]
                               /\ reactions[Reaction(u)] # None
                             => reactions'[Reaction(u)] = reactions[Reaction(u)],
         reactions' = [r \in Articles \X Voters |-> reactions'[r]],
         events' \in [Articles -> Nat], changes' \in [Articles -> Nat],
         ReactionsReported', ReactionSafe(t)'
  PROVE  ReactionsInv'
<1>1. ASSUME NEW u \in Tx \ {t} PROVE ReactionSafe(u)'
  <2>1. tx'[u] = tx[u] /\ Reaction(u)' = Reaction(u) /\ keys'[u] = keys[u]
    BY DEF OthersStay, Reaction
  <2> SUFFICES ASSUME tx[u].op = "react", tx[u].pc = "react", tx[u].read # None
               PROVE  Reaction(u) \in keys[u] /\ reactions'[Reaction(u)] = tx[u].read
    BY <2>1 DEF ReactionSafe, At
  <2>2. Reaction(u) \in keys[u] /\ reactions[Reaction(u)] = tx[u].read
    BY DEF ReactionsInv, ReactionSafe, At
  <2> QED BY <2>2
<1> QED BY <1>1 DEF ReactionsInv

LEMMA SameReactions ==
  ASSUME ReactionsInv, KeysInv', NEW t \in Tx, OthersStay(t),
         \A u \in Tx \ {t} : keys'[u] = keys[u], UNCHANGED <<reactions, events, changes>>,
         ReactionSafe(t)'
  PROVE  ReactionsInv'
<1>1. ReactionsReported'
  BY DEF ReactionsInv, ReactionsReported, ArticleReport
<1> QED BY <1>1, ReactionsKept DEF ReactionsInv

(* A request that is not about to write a reaction *)
LEMMA NotReacting ==
  ASSUME NEW t \in Tx, tx'[t].op # "react" \/ tx'[t].pc # "react"
  PROVE  ReactionSafe(t)'
BY DEF ReactionSafe, At

LEMMA LockReactionSafe ==
  ASSUME ReactionsInv, KeysInv', NEW t \in Tx, LockReaction(t)
  PROVE  ReactionsInv'
<1>0. TypeOK
  BY DEF ReactionsInv, KeysInv
<1>1. PICK row : row = Reaction(t)
  OBVIOUS
<1>2. /\ OthersStay(t) /\ tx'[t].id = tx[t].id /\ tx'[t].new = tx[t].new
      /\ tx'[t].read = reactions[row] /\ keys' = [keys EXCEPT ![t] = Locked(row)]
      /\ UNCHANGED <<reactions, events, changes>>
  BY <1>0, <1>1, LockReactionMoves DEF Keeps, traffic, history
<1>3. Reaction(t)' = row
  BY <1>1, <1>2 DEF Reaction
<1>4. keys'[t] = Locked(row) /\ \A u \in Tx \ {t} : keys'[u] = keys[u]
  BY <1>0, <1>2 DEF TypeOK
<1>5. ReactionSafe(t)'
  BY <1>2, <1>3, <1>4 DEF ReactionSafe, Locked
<1> QED BY <1>2, <1>4, <1>5, SameReactions

LEMMA WriteReactionSafe ==
  ASSUME ReactionsInv, KeysInv', NEW t \in Tx, WriteReaction(t), ~Rollback(t)
  PROVE  ReactionsInv'
<1>0. TypeOK /\ ReactionSafe(t) /\ tx[t].op = "react" /\ tx[t].pc = "react"
  BY Standing DEF ReactionsInv, KeysInv, WriteReaction, At
<1>1. PICK row, kind, a, read :
        row = Reaction(t) /\ kind = tx[t].new[2] /\ a = tx[t].id /\ read = tx[t].read
  OBVIOUS
<1>2. /\ read = None /\ kind # None => reactions[row] = None
      /\ read # None => reactions[row] # None
      /\ events' = [events EXCEPT ![a] = IF kind # read THEN @ + 1 ELSE @]
      /\ reactions' = IF kind = read THEN reactions ELSE [reactions EXCEPT ![row] = kind]
      /\ changes' = [changes EXCEPT ![a] = IF reactions'[row] # reactions[row] THEN @ + 1 ELSE @]
      /\ End(t) /\ Unlock(t)
  BY <1>1 DEF WriteReaction
<1>3. row \in Articles \X Voters /\ a \in Articles
  BY <1>0, <1>1, ReactionRow
<1>4. read # None => row \in keys[t] /\ reactions[row] = read
  BY <1>0, <1>1 DEF ReactionSafe, At
<1>5. OthersStay(t) /\ tx'[t] = Idle /\ ReactionSafe(t)'
  BY <1>0, <1>2, EndFields, IdleOK, NotReacting
<1>6. \A u \in Tx \ {t} : keys'[u] = keys[u]
  BY <1>0, <1>2 DEF Unlock, TypeOK
<1>7. reactions = [r \in Articles \X Voters |-> reactions[r]]
      /\ events \in [Articles -> Nat] /\ changes \in [Articles -> Nat]
  BY DEF ReactionsInv
<1>8. (reactions'[row] # reactions[row]) <=> (kind # read)
  <2>1. CASE kind = read
    BY <1>2, <2>1
  <2>2. CASE kind # read
    <3>1. reactions'[row] = kind
      BY <1>2, <1>3, <1>7, <2>2
    <3> QED BY <1>2, <1>4, <2>2, <3>1
  <2> QED BY <2>1, <2>2
<1>9. events' \in [Articles -> Nat] /\ changes' \in [Articles -> Nat]
  BY <1>2, <1>3, <1>7
<1>10. ReactionsReported'
  <2>1. \A b \in Articles : events[b] = changes[b]
    BY DEF ReactionsInv, ReactionsReported, ArticleReport
  <2>2. \A b \in Articles : events'[b] = changes'[b]
    BY <1>2, <1>3, <1>7, <1>8, <2>1
  <2> QED BY <2>2 DEF ReactionsReported, ArticleReport
<1>11. reactions' = [r \in Articles \X Voters |-> reactions'[r]]
  BY <1>2, <1>7
<1>12. ASSUME NEW u \in Tx \ {t}, tx[u].op = "react", Reaction(u) \in keys[u],
              reactions[Reaction(u)] # None
       PROVE  reactions'[Reaction(u)] = reactions[Reaction(u)]
  <2>1. CASE kind = read
    BY <1>2, <2>1
  <2>2. CASE kind # read
    <3>1. Reaction(u) # row
      <4>1. CASE read = None
        BY <1>2, <1>12, <2>2, <4>1
      <4>2. CASE read # None
        BY <1>4, <1>12, <4>2 DEF ReactionsInv, KeysInv, KeysApart
      <4> QED BY <4>1, <4>2
    <3>2. Reaction(u) \in Articles \X Voters
      BY <1>0, <1>12, ReactionRow
    <3> QED BY <1>2, <1>7, <2>2, <3>1, <3>2
  <2> QED BY <2>1, <2>2
<1> QED BY <1>5, <1>6, <1>9, <1>10, <1>11, <1>12, ReactionsKept

LEMMA DeleteReactions ==
  ASSUME ReactionsInv, KeysInv', NEW t \in Tx, DeleteArticle(t)
  PROVE  ReactionsInv'
<1>0. TypeOK
  BY DEF ReactionsInv, KeysInv
<1>1. PICK a : a = tx[t].id
  OBVIOUS
<1>2. /\ End(t) /\ Unlock(t) /\ UNCHANGED <<events, changes>>
      /\ \A v \in Voters : Free(t, <<a, v>>)
      /\ reactions' = [r \in Articles \X Voters |-> IF r[1] = a THEN None ELSE reactions[r]]
  BY <1>1 DEF DeleteArticle, history
<1>3. OthersStay(t) /\ tx'[t] = Idle /\ ReactionSafe(t)'
  BY <1>0, <1>2, EndFields, IdleOK, NotReacting
<1>4. \A u \in Tx \ {t} : keys'[u] = keys[u]
  BY <1>0, <1>2 DEF Unlock, TypeOK
<1>5. ASSUME NEW u \in Tx \ {t}, tx[u].op = "react", Reaction(u) \in keys[u]
      PROVE  reactions'[Reaction(u)] = reactions[Reaction(u)]
  <2>1. PICK b \in Articles, v \in Voters : Reaction(u) = <<b, v>>
    BY <1>0, <1>5, ReactionRow
  <2>2. b # a
    BY <1>2, <1>5, <2>1 DEF Free
  <2> QED BY <1>2, <2>1, <2>2
<1>6. reactions' = [r \in Articles \X Voters |-> reactions'[r]]
  BY <1>2
<1>7. ReactionsReported' /\ events' \in [Articles -> Nat] /\ changes' \in [Articles -> Nat]
  BY <1>2 DEF ReactionsInv, ReactionsReported, ArticleReport
<1> QED BY <1>3, <1>4, <1>5, <1>6, <1>7, ReactionsKept

(* A step of t that keeps the reactions and the keys of others *)
LEMMA StepReactions ==
  ASSUME ReactionsInv, [Next]_vars
  PROVE  ReactionsInv'
<1>0. TypeOK /\ KeysInv /\ KeysInv'
  BY StepKeys DEF ReactionsInv, KeysInv
<1>1. ASSUME NEW t \in Tx, Request(t) PROVE ReactionsInv'
  <2>1. OthersStay(t) /\ UNCHANGED <<keys, reactions, events, changes>>
        /\ (tx'[t].op = "react" => tx'[t].pc = "reaction")
    BY <1>0, <1>1, ArriveKeys DEF traffic, history
  <2> QED BY <1>0, <2>1, NotReacting, SameReactions
<1>2. ASSUME NEW t \in Tx, CatalogStep(t), UNCHANGED <<traffic, keys, day, history>>
      PROVE  ReactionsInv'
  <2>1. UNCHANGED <<keys, reactions, events, changes>>
    BY <1>2 DEF traffic, history
  <2>2. OthersStay(t) /\ tx'[t].op # "react"
    BY <1>0, <1>2, CatalogKeys
  <2> QED BY <1>0, <2>1, <2>2, NotReacting, SameReactions
<1>3. ASSUME NEW t \in Tx, End(t), Unlock(t), UNCHANGED <<reactions, events, changes>>
      PROVE  ReactionsInv'
  <2>1. OthersStay(t) /\ tx'[t] = Idle /\ ReactionSafe(t)'
    BY <1>0, <1>3, EndFields, IdleOK, NotReacting
  <2>2. \A u \in Tx \ {t} : keys'[u] = keys[u]
    BY <1>0, <1>3 DEF Unlock, TypeOK
  <2> QED BY <1>0, <1>3, <2>1, <2>2, SameReactions
<1>4. ASSUME NEW t \in Tx, NEW pc, NEW locked, Advance(t, pc, locked), tx[t].op = "visit"
      PROVE  ReactionsInv'
  <2>1. OthersStay(t) /\ tx'[t].op = "visit" /\ UNCHANGED <<reactions, events, changes>>
        /\ keys' = [keys EXCEPT ![t] = @ \cup locked]
    BY <1>0, <1>4, AdvanceMoves DEF Keeps, traffic, history
  <2>2. \A u \in Tx \ {t} : keys'[u] = keys[u]
    BY <1>0, <2>1 DEF TypeOK
  <2> QED BY <1>0, <2>1, <2>2, NotReacting, SameReactions
<1>5. ASSUME NEW t \in Tx, TakeReceipt(t) \/ TakeAudience(t) PROVE ReactionsInv'
  BY <1>0, <1>4, <1>5, ReceiptAdvances, AudienceAdvances
<1>6. ASSUME NEW t \in Tx, CountView(t) \/ CommitVisit(t) \/ CommitNothing(t) \/ Engage(t) \/ Rollback(t)
      PROVE  ReactionsInv'
  <2>1. End(t) /\ Unlock(t) /\ UNCHANGED <<reactions, events, changes>>
    BY <1>6 DEF CountView, CommitVisit, CommitNothing, Engage, Rollback, Fail, traffic, history
  <2> QED BY <1>3, <2>1
<1>7. ASSUME NEW t \in Tx, WriteReaction(t) PROVE ReactionsInv'
  BY <1>0, <1>6, <1>7, WriteReactionSafe
<1>8. CASE Midnight \/ UNCHANGED vars
  <2>1. UNCHANGED <<keys, tx, reactions, events, changes>>
    BY <1>8 DEF Midnight, vars, traffic, history
  <2> QED BY <1>0, <2>1 DEF ReactionsInv, ReactionsReported, ArticleReport, ReactionSafe, Reaction, At
<1> QED BY <1>0, <1>1, <1>2, <1>5, <1>6, <1>7, <1>8, LockReactionSafe, DeleteReactions DEF Next, Step, LoseView

LEMMA InitReactions == Init => ReactionsInv
<1> SUFFICES ASSUME Init PROVE ReactionsInv
  OBVIOUS
<1>1. \A t \in Tx : ReactionSafe(t)
  BY IdleOK DEF Init, CatalogInit, ReactionSafe
<1>2. ReactionsReported
  BY DEF Init, ReactionsReported, ArticleReport
<1>3. /\ reactions = [r \in Articles \X Voters |-> reactions[r]]
      /\ events \in [Articles -> Nat] /\ changes \in [Articles -> Nat]
  BY DEF Init
<1> QED BY <1>1, <1>2, <1>3, InitKeys DEF ReactionsInv

-----------------------------------------------------------------------------
(* Visits *)

LEMMA VisitFacts ==
  ASSUME TypeOK, NEW t \in Tx, tx[t].op = "visit"
  PROVE  /\ tx[t].visit.target \in Targets /\ tx[t].visit.token \in Tokens
         /\ tx[t].visit.visitor \in Visitors /\ tx[t].visit.source \in Sources
         /\ tx[t].day \in 0 .. LastDay /\ tx[t].day \in Nat
         /\ tx[t].visit.target # Audience
<1>1. tx[t].visit \in Visit /\ tx[t].day \in 0 .. LastDay
  BY Standing DEF Visiting
<1> QED BY <1>1, TrafficAssumptions DEF Visit

(* The keys of a visit after one of its steps *)
LEMMA VisitKeysKept ==
  ASSUME EngagedInv, NEW t \in Tx, OthersStay(t), \A u \in Tx \ {t} : keys'[u] = keys[u],
         VisitKeys(t)'
  PROVE  \A u \in Tx : VisitKeys(u)'
<1>1. ASSUME NEW u \in Tx \ {t} PROVE VisitKeys(u)'
  <2>1. tx'[u] = tx[u] /\ keys'[u] = keys[u] /\ VisitKeys(u)
    BY DEF OthersStay, EngagedInv
  <2> QED BY <2>1 DEF VisitKeys, VisitKey, AudienceKey, Key
<1> QED BY <1>1

LEMMA NotVisiting ==
  ASSUME NEW t \in Tx, tx'[t].op # "visit"
  PROVE  VisitKeys(t)'
BY DEF VisitKeys

LEMMA SameCounters ==
  ASSUME EngagedInv, KeysInv', NEW t \in Tx, OthersStay(t), UNCHANGED <<receipts, counters>>,
         \A u \in Tx \ {t} : keys'[u] = keys[u], VisitKeys(t)'
  PROVE  EngagedInv'
<1>1. \A u \in Tx : VisitKeys(u)'
  BY VisitKeysKept
<1>2. CountersTyped' /\ EngagedCovered' /\ EngagedWithinViews'
  BY DEF EngagedInv, CountersTyped, EngagedCovered, EngagedWithinViews, Pending
<1> QED BY <1>1, <1>2 DEF EngagedInv

LEMMA SlotCovered ==
  ASSUME NEW P, NEW Q, IsFiniteSet(P), NEW e \in Nat, NEW v \in Nat, NEW e2 \in Nat, NEW v2 \in Nat,
         e + Cardinality(P) <= v,
         \/ Q \subseteq P /\ e2 = e /\ v2 = v
         \/ \E r : Q \subseteq P \cup {r} /\ e2 = e /\ v2 = v + 1
         \/ \E r \in P : Q \subseteq P \ {r} /\ e2 = e + 1 /\ v2 = v
  PROVE  e2 + Cardinality(Q) <= v2 /\ e2 <= v2
<1>1. CASE Q \subseteq P /\ e2 = e /\ v2 = v
  <2>1. Cardinality(Q) <= Cardinality(P) /\ IsFiniteSet(Q)
    BY <1>1, FS_Subset
  <2>2. Cardinality(Q) \in Nat /\ Cardinality(P) \in Nat
    BY <2>1, FS_CardinalityType
  <2> QED BY <1>1, <2>1, <2>2
<1>2. ASSUME NEW r, Q \subseteq P \cup {r}, e2 = e, v2 = v + 1
      PROVE  e2 + Cardinality(Q) <= v2 /\ e2 <= v2
  <2>1. IsFiniteSet(P \cup {r})
        /\ Cardinality(P \cup {r}) = IF r \in P THEN Cardinality(P) ELSE Cardinality(P) + 1
    BY FS_AddElement
  <2>2. Cardinality(Q) <= Cardinality(P \cup {r}) /\ IsFiniteSet(Q)
    BY <1>2, <2>1, FS_Subset
  <2>3. Cardinality(Q) \in Nat /\ Cardinality(P) \in Nat
    BY <2>2, FS_CardinalityType
  <2> QED BY <1>2, <2>1, <2>2, <2>3
<1>3. ASSUME NEW r \in P, Q \subseteq P \ {r}, e2 = e + 1, v2 = v
      PROVE  e2 + Cardinality(Q) <= v2 /\ e2 <= v2
  <2>1. IsFiniteSet(P \ {r}) /\ Cardinality(P \ {r}) = Cardinality(P) - 1
    BY FS_RemoveElement
  <2>2. Cardinality(Q) <= Cardinality(P \ {r}) /\ IsFiniteSet(Q)
    BY <1>3, <2>1, FS_Subset
  <2>3. Cardinality(Q) \in Nat /\ Cardinality(P) \in Nat
    BY <2>2, FS_CardinalityType
  <2> QED BY <1>3, <2>1, <2>2, <2>3
<1> QED BY <1>1, <1>2, <1>3

(* What a visit does to the counters and the receipts of one slot *)
SlotMoves(s) ==
  \/ /\ s[2] \in Targets
     /\ LET old == counters[s]  new == counters'[s] IN
        \/ Pending(s)' \subseteq Pending(s) /\ new.engaged = old.engaged /\ new.views = old.views
        \/ \E r : /\ Pending(s)' \subseteq Pending(s) \cup {r}
                  /\ new.engaged = old.engaged /\ new.views = old.views + 1
        \/ \E r \in Pending(s) : /\ Pending(s)' \subseteq Pending(s) \ {r}
                                 /\ new.engaged = old.engaged + 1 /\ new.views = old.views
  \/ /\ s[2] \notin Targets
     /\ counters'[s].engaged = counters[s].engaged /\ counters'[s].views = counters[s].views

LEMMA CoverKept ==
  ASSUME EngagedInv, KeysInv', CountersTyped', \A s \in Slots : SlotMoves(s),
         \A t \in Tx : VisitKeys(t)'
  PROVE  EngagedInv'
<1>1. ASSUME NEW s \in Slots
      PROVE  /\ counters[s].engaged \in Nat /\ counters[s].views \in Nat
             /\ counters'[s].engaged \in Nat /\ counters'[s].views \in Nat
  BY DEF EngagedInv, CountersTyped
<1>2. ASSUME NEW s \in Slots, s[2] \in Targets
      PROVE  /\ counters'[s].engaged + Cardinality(Pending(s)') <= counters'[s].views
             /\ counters'[s].engaged <= counters'[s].views
  <2>1. PICK P, Q, e, v, e2, v2 :
          /\ P = Pending(s) /\ Q = Pending(s)' /\ e = counters[s].engaged /\ v = counters[s].views
          /\ e2 = counters'[s].engaged /\ v2 = counters'[s].views
    OBVIOUS
  <2>2. IsFiniteSet(P)
    <3>1. P \subseteq receipts /\ IsFiniteSet(receipts)
      BY <2>1 DEF Pending, EngagedInv, CountersTyped
    <3> QED BY <3>1, FS_Subset
  <2>3. e + Cardinality(P) <= v
    BY <1>2, <2>1 DEF EngagedInv, EngagedCovered
  <2>4. e \in Nat /\ v \in Nat /\ e2 \in Nat /\ v2 \in Nat
    BY <1>1, <2>1
  <2>5. \/ Q \subseteq P /\ e2 = e /\ v2 = v
        \/ \E r : Q \subseteq P \cup {r} /\ e2 = e /\ v2 = v + 1
        \/ \E r \in P : Q \subseteq P \ {r} /\ e2 = e + 1 /\ v2 = v
    BY <1>2, <2>1 DEF SlotMoves
  <2>6. e2 + Cardinality(Q) <= v2 /\ e2 <= v2
    BY <2>2, <2>3, <2>4, <2>5, SlotCovered
  <2> QED BY <2>1, <2>6
<1>3. ASSUME NEW s \in Slots, s[2] \notin Targets PROVE counters'[s].engaged <= counters'[s].views
  BY <1>3 DEF SlotMoves, EngagedInv, EngagedWithinViews
<1>4. EngagedCovered'
  BY <1>2 DEF EngagedCovered
<1>5. EngagedWithinViews'
  BY <1>2, <1>3 DEF EngagedWithinViews
<1> QED BY <1>4, <1>5 DEF EngagedInv

LEMMA EndVisit ==
  ASSUME EngagedInv, NEW t \in Tx, End(t), Unlock(t)
  PROVE  /\ OthersStay(t) /\ tx'[t].op = "none" /\ keys'[t] = {}
         /\ \A u \in Tx \ {t} : keys'[u] = keys[u]
         /\ \A u \in Tx : VisitKeys(u)'
<1>0. TypeOK
  BY DEF EngagedInv, KeysInv
<1>1. OthersStay(t) /\ tx'[t].op = "none"
  BY <1>0, EndFields, IdleOK
<1>2. keys'[t] = {} /\ \A u \in Tx \ {t} : keys'[u] = keys[u]
  BY <1>0 DEF Unlock, TypeOK
<1> QED BY <1>1, <1>2, NotVisiting, VisitKeysKept

(* The receipts that a View inserts *)
Inserted(t) == {[day |-> k[1], scope |-> k[2], token |-> k[3],
                 source |-> tx[t].visit.source, engaged |-> FALSE] : k \in keys[t]}

LEMMA InsertedRows ==
  ASSUME EngagedInv, NEW t \in Tx, tx[t].op = "visit"
  PROVE  /\ Inserted(t) \subseteq ReceiptRows /\ IsFiniteSet(Inserted(t))
         /\ \A r \in Inserted(t) : /\ <<r.day, r.scope, r.token>> \in keys[t]
                                   /\ r.source = tx[t].visit.source
                                   /\ \/ r.scope = Audience
                                      \/ r.day = tx[t].day /\ r.scope = tx[t].visit.target
                                         /\ r.token = tx[t].visit.token
         /\ VisitKey(t) \in keys[t] => \E r \in Inserted(t) : <<r.day, r.scope, r.token>> = VisitKey(t)
<1>0. TypeOK /\ VisitKeys(t)
  BY DEF EngagedInv, KeysInv
<1>1. PICK d, g, token, visitor, source :
        /\ d = tx[t].day /\ g = tx[t].visit.target /\ token = tx[t].visit.token
        /\ visitor = tx[t].visit.visitor /\ source = tx[t].visit.source
  OBVIOUS
<1>2. d \in 0 .. LastDay /\ g \in Targets /\ token \in Tokens /\ visitor \in Visitors /\ source \in Sources
  BY <1>0, <1>1, VisitFacts
<1>3. keys[t] \subseteq {<<d, g, token>>, <<d, Audience, visitor>>}
  BY <1>0, <1>1 DEF VisitKeys, VisitKey, AudienceKey, Key
<1>4. PICK a, b :
        /\ a = [day |-> d, scope |-> g, token |-> token, source |-> source, engaged |-> FALSE]
        /\ b = [day |-> d, scope |-> Audience, token |-> visitor, source |-> source, engaged |-> FALSE]
  OBVIOUS
<1>5. a \in ReceiptRows /\ b \in ReceiptRows
  BY <1>2, <1>4 DEF ReceiptRows
<1>6. Inserted(t) = {[day |-> k[1], scope |-> k[2], token |-> k[3],
                     source |-> source, engaged |-> FALSE] : k \in keys[t]}
  BY <1>1 DEF Inserted
<1>7. \A r \in Inserted(t) : \/ r = a /\ <<d, g, token>> \in keys[t]
                             \/ r = b /\ <<d, Audience, visitor>> \in keys[t]
  BY <1>3, <1>4, <1>6
<1>8. <<d, g, token>> \in keys[t] => a \in Inserted(t)
  <2>1. PICK k : k = <<d, g, token>>
    OBVIOUS
  <2>2. k[1] = d /\ k[2] = g /\ k[3] = token
    BY <2>1
  <2>3. a = [day |-> k[1], scope |-> k[2], token |-> k[3], source |-> source, engaged |-> FALSE]
    BY <1>4, <2>2
  <2>4. k \in keys[t] => a \in Inserted(t)
    BY <1>6, <2>3
  <2> QED BY <2>1, <2>4
<1>9. /\ a.day = d /\ a.scope = g /\ a.token = token /\ a.source = source
      /\ b.day = d /\ b.scope = Audience /\ b.token = visitor /\ b.source = source
  BY <1>4
<1>10. IsFiniteSet(Inserted(t))
  <2>1. Inserted(t) \subseteq {a} \cup {b}
    BY <1>7
  <2>2. IsFiniteSet({a} \cup {b})
    BY FS_Singleton, FS_AddElement
  <2> QED BY <2>1, <2>2, FS_Subset
<1>11. Inserted(t) \subseteq ReceiptRows
  BY <1>5, <1>7
<1>12. \A r \in Inserted(t) : /\ <<r.day, r.scope, r.token>> \in keys[t]
                              /\ r.source = source
                              /\ r.scope = Audience \/ (r.day = d /\ r.scope = g /\ r.token = token)
  BY <1>7, <1>9
<1>13. VisitKey(t) = <<d, g, token>>
  BY <1>1 DEF VisitKey, Key
<1> QED BY <1>1, <1>8, <1>9, <1>10, <1>11, <1>12, <1>13

LEMMA KeptReceipts ==
  ASSUME CountersTyped, NEW t \in Tx
  PROVE  Kept(t) \subseteq receipts /\ Kept(t) \subseteq ReceiptRows /\ IsFiniteSet(Kept(t))
<1>1. Kept(t) \subseteq receipts
  BY DEF Kept
<1> QED BY <1>1, FS_Subset DEF CountersTyped

LEMMA CommitCounters ==
  ASSUME EngagedInv, NEW t \in Tx, CommitVisit(t)
  PROVE  /\ tx[t].op = "visit" /\ VisitKey(t) \in keys[t]
         /\ receipts' = Kept(t) \cup Inserted(t)
         /\ seen' = seen \cup {VisitKey(t)} /\ End(t) /\ Unlock(t) /\ day' = day
         /\ <<tx[t].day, tx[t].visit.target, tx[t].visit.source>> \in Slots
         /\ counters' \in [Slots -> [views : Nat, engaged : Nat, visitors : Nat]]
         /\ \A s \in Slots :
              /\ counters'[s].engaged = counters[s].engaged
              /\ counters'[s].views = IF s = <<tx[t].day, tx[t].visit.target, tx[t].visit.source>>
                                      THEN counters[s].views + 1 ELSE counters[s].views
<1>0. TypeOK /\ VisitKeys(t) /\ CountersTyped
  BY DEF EngagedInv, KeysInv
<1>1. tx[t].op = "visit" /\ VisitKey(t) \in keys[t]
  BY <1>0, Standing DEF CommitVisit, At, VisitKeys
<1>2. /\ receipts' = Kept(t) \cup Inserted(t) /\ seen' = seen \cup {VisitKey(t)}
      /\ End(t) /\ Unlock(t) /\ day' = day
  BY DEF CommitVisit, Inserted, VisitKey, Key
<1>3. PICK s0, aud, P : /\ s0 = <<tx[t].day, tx[t].visit.target, tx[t].visit.source>>
                        /\ aud = <<tx[t].day, Audience, tx[t].visit.source>>
                        /\ P = (\E k \in keys[t] : k[2] = Audience)
  OBVIOUS
<1>4. s0 \in Slots
  BY <1>0, <1>1, <1>3, VisitFacts DEF Slots
<1>5. counters' = [s \in Slots |->
          IF s = s0 THEN [counters[s] EXCEPT !.views = @ + 1]
          ELSE IF s = aud /\ P THEN [counters[s] EXCEPT !.visitors = @ + 1]
          ELSE counters[s]]
  BY <1>3 DEF CommitVisit
<1>6. ASSUME NEW s \in Slots
      PROVE  /\ counters'[s] \in [views : Nat, engaged : Nat, visitors : Nat]
             /\ counters'[s].engaged = counters[s].engaged
             /\ counters'[s].views = IF s = s0 THEN counters[s].views + 1 ELSE counters[s].views
  <2>1. PICK c, n : c = counters[s] /\ n = counters'[s]
    OBVIOUS
  <2>2. c \in [views : Nat, engaged : Nat, visitors : Nat]
    BY <1>0, <2>1 DEF CountersTyped
  <2>3. n = IF s = s0 THEN [c EXCEPT !.views = @ + 1]
            ELSE IF s = aud /\ P THEN [c EXCEPT !.visitors = @ + 1] ELSE c
    BY <1>5, <2>1
  <2> QED BY <2>1, <2>2, <2>3
<1>7. counters' \in [Slots -> [views : Nat, engaged : Nat, visitors : Nat]]
  BY <1>5, <1>6
<1> QED BY <1>1, <1>2, <1>3, <1>4, <1>6, <1>7

LEMMA CommitVisitSafe ==
  ASSUME EngagedInv, KeysInv', NEW t \in Tx, CommitVisit(t)
  PROVE  EngagedInv'
<1>0. TypeOK /\ CountersTyped
  BY DEF EngagedInv, KeysInv
<1>1. PICK s0 : s0 = <<tx[t].day, tx[t].visit.target, tx[t].visit.source>>
  OBVIOUS
<1>2. /\ tx[t].op = "visit" /\ VisitKey(t) \in keys[t]
      /\ receipts' = Kept(t) \cup Inserted(t) /\ End(t) /\ Unlock(t)
      /\ counters' \in [Slots -> [views : Nat, engaged : Nat, visitors : Nat]]
      /\ \A s \in Slots :
           /\ counters'[s].engaged = counters[s].engaged
           /\ counters'[s].views = IF s = s0 THEN counters[s].views + 1 ELSE counters[s].views
  BY <1>1, CommitCounters
<1>3. CountersTyped'
  <2>1. receipts' \subseteq ReceiptRows
    BY <1>0, <1>2, KeptReceipts, InsertedRows
  <2>2. IsFiniteSet(receipts')
    BY <1>0, <1>2, KeptReceipts, InsertedRows, FS_Union
  <2> QED BY <1>2, <2>1, <2>2 DEF CountersTyped
<1>4. PICK r0 : r0 = [day |-> tx[t].day, scope |-> tx[t].visit.target, token |-> tx[t].visit.token,
                      source |-> tx[t].visit.source, engaged |-> FALSE]
  OBVIOUS
<1>5. \A r \in Inserted(t) : r.scope = Audience
                             \/ (r.day = tx[t].day /\ r.scope = tx[t].visit.target
                                 /\ r.token = tx[t].visit.token /\ r.source = tx[t].visit.source)
  BY <1>2, InsertedRows
<1>6. \A r \in Inserted(t) : r.scope = Audience \/ r = r0
  BY <1>4, <1>5 DEF Inserted
<1>7. ASSUME NEW s \in Slots PROVE SlotMoves(s)
  <2>1. CASE s[2] \notin Targets
    <3>1. s # s0
      BY <1>0, <1>1, <1>2, <2>1, VisitFacts
    <3> QED BY <1>2, <2>1, <3>1 DEF SlotMoves
  <2>2. CASE s[2] \in Targets
    <3>1. s[2] # Audience
      BY <2>2, TrafficAssumptions
    <3>2. \A r \in Pending(s)' : r \in Pending(s) \/ (r \in Inserted(t) /\ <<r.day, r.scope, r.source>> = s)
      BY <1>0, <1>2, KeptReceipts DEF Pending
    <3>3. \A r \in Inserted(t) : <<r.day, r.scope, r.source>> = s => r = r0 /\ s = s0
      BY <1>1, <1>5, <1>6, <3>1
    <3>4. CASE s = s0
      <4>1. Pending(s)' \subseteq Pending(s) \cup {r0}
        BY <3>2, <3>3
      <4> QED BY <1>2, <2>2, <3>4, <4>1 DEF SlotMoves
    <3>5. CASE s # s0
      <4>1. Pending(s)' \subseteq Pending(s)
        BY <3>2, <3>3, <3>5
      <4> QED BY <1>2, <2>2, <3>5, <4>1 DEF SlotMoves
    <3> QED BY <3>4, <3>5
  <2> QED BY <2>1, <2>2
<1> QED BY <1>2, <1>3, <1>7, EndVisit, CoverKept

LEMMA CommitNothingSafe ==
  ASSUME EngagedInv, KeysInv', NEW t \in Tx, CommitNothing(t)
  PROVE  EngagedInv'
<1>0. CountersTyped
  BY DEF EngagedInv
<1>1. receipts' = Kept(t) /\ counters' = counters /\ End(t) /\ Unlock(t)
  BY DEF CommitNothing
<1>2. CountersTyped'
  BY <1>0, <1>1, KeptReceipts DEF CountersTyped
<1>3. ASSUME NEW s \in Slots PROVE SlotMoves(s)
  <2>1. Pending(s)' \subseteq Pending(s)
    BY <1>0, <1>1, KeptReceipts DEF Pending
  <2> QED BY <1>1, <2>1 DEF SlotMoves
<1> QED BY <1>1, <1>2, <1>3, EndVisit, CoverKept

(* The views of its token that an engaged event finds *)
Found(t) == {r \in Kept(t) : <<r.day, r.scope, r.token>> = VisitKey(t) /\ ~r.engaged}

LEMMA EngageEffect ==
  ASSUME EngagedInv, NEW t \in Tx, Engage(t)
  PROVE  /\ tx[t].op = "visit" /\ End(t) /\ Unlock(t) /\ UNCHANGED <<day, seen>>
         /\ receipts' \subseteq ReceiptRows /\ IsFiniteSet(receipts')
         /\ \A r \in Kept(t) : \E q \in receipts' : <<q.day, q.scope, q.token>> = <<r.day, r.scope, r.token>>
         /\ \A q \in receipts' : \/ q \in receipts \ Found(t)
                                 \/ q.engaged /\ \E r \in receipts :
                                      <<q.day, q.scope, q.token>> = <<r.day, r.scope, r.token>>
         /\ counters' \in [Slots -> [views : Nat, engaged : Nat, visitors : Nat]]
         /\ \A s \in Slots :
              /\ counters'[s].views = counters[s].views
              /\ counters'[s].engaged =
                   IF \E r \in Found(t) : s = <<tx[t].day, tx[t].visit.target, r.source>>
                   THEN counters[s].engaged + 1 ELSE counters[s].engaged
<1>0. TypeOK /\ CountersTyped
  BY DEF EngagedInv, KeysInv
<1>1. tx[t].op = "visit" /\ End(t) /\ Unlock(t) /\ UNCHANGED <<day, seen>>
  BY <1>0, Standing DEF Engage, At, history
<1>2. PICK mine, kept : mine = Found(t) /\ kept = Kept(t)
  OBVIOUS
<1>3. mine = {r \in Kept(t) : <<r.day, r.scope, r.token>> = Key(tx[t].day, tx[t].visit.target, tx[t].visit.token)
                              /\ ~r.engaged}
  BY <1>2 DEF Found, VisitKey
<1>4. /\ receipts' = (kept \ mine) \cup {[r EXCEPT !.engaged = TRUE] : r \in mine}
      /\ counters' = [s \in Slots |->
           IF \E r \in mine : s = <<tx[t].day, tx[t].visit.target, r.source>>
           THEN [counters[s] EXCEPT !.engaged = @ + 1] ELSE counters[s]]
  BY <1>2, <1>3 DEF Engage, SourceOf
<1>5. mine \subseteq kept /\ kept \subseteq receipts /\ kept \subseteq ReceiptRows /\ IsFiniteSet(kept)
  BY <1>0, <1>2, KeptReceipts DEF Found
<1>6. ASSUME NEW r \in mine, NEW q, q = [r EXCEPT !.engaged = TRUE]
      PROVE  /\ q \in ReceiptRows /\ q.engaged
             /\ <<q.day, q.scope, q.token>> = <<r.day, r.scope, r.token>>
  <2>1. r \in ReceiptRows
    BY <1>5
  <2> QED BY <1>6, <2>1 DEF ReceiptRows
<1>7. \A q \in receipts' : q \in kept \ mine \/ \E r \in mine : q = [r EXCEPT !.engaged = TRUE]
  BY <1>4
<1>8. receipts' \subseteq ReceiptRows
  BY <1>5, <1>6, <1>7
<1>9. IsFiniteSet(receipts')
  <2>1. PICK image : image = {[r EXCEPT !.engaged = TRUE] : r \in mine}
    OBVIOUS
  <2>2. [r \in mine |-> [r EXCEPT !.engaged = TRUE]] \in Surjection(mine, image)
    BY <2>1 DEF Surjection
  <2>3. IsFiniteSet(mine) /\ IsFiniteSet(kept \ mine)
    BY <1>5, FS_Subset
  <2>4. IsFiniteSet(image)
    BY <2>2, <2>3, FS_Surjection
  <2> QED BY <1>4, <2>1, <2>3, <2>4, FS_Union
<1>10. ASSUME NEW r \in kept
       PROVE  \E q \in receipts' : <<q.day, q.scope, q.token>> = <<r.day, r.scope, r.token>>
  <2>1. CASE r \in mine
    <3>1. PICK q : q = [r EXCEPT !.engaged = TRUE]
      OBVIOUS
    <3>2. q \in receipts'
      BY <1>4, <2>1, <3>1
    <3> QED BY <1>6, <2>1, <3>1, <3>2
  <2>2. CASE r \notin mine
    BY <1>4, <2>2
  <2> QED BY <2>1, <2>2
<1>11. ASSUME NEW q \in receipts'
       PROVE  \/ q \in receipts \ mine
              \/ q.engaged /\ \E r \in receipts :
                   <<q.day, q.scope, q.token>> = <<r.day, r.scope, r.token>>
  BY <1>5, <1>6, <1>7
<1>12. ASSUME NEW s \in Slots
       PROVE  /\ counters'[s] \in [views : Nat, engaged : Nat, visitors : Nat]
              /\ counters'[s].views = counters[s].views
              /\ counters'[s].engaged =
                   IF \E r \in mine : s = <<tx[t].day, tx[t].visit.target, r.source>>
                   THEN counters[s].engaged + 1 ELSE counters[s].engaged
  <2>1. PICK c, n, P : /\ c = counters[s] /\ n = counters'[s]
                       /\ P = (\E r \in mine : s = <<tx[t].day, tx[t].visit.target, r.source>>)
    OBVIOUS
  <2>2. c \in [views : Nat, engaged : Nat, visitors : Nat]
    BY <1>0, <2>1 DEF CountersTyped
  <2>3. n = IF P THEN [c EXCEPT !.engaged = @ + 1] ELSE c
    BY <1>4, <2>1
  <2>4. /\ n \in [views : Nat, engaged : Nat, visitors : Nat] /\ n.views = c.views
        /\ n.engaged = IF P THEN c.engaged + 1 ELSE c.engaged
    BY <2>2, <2>3
  <2> QED BY <2>1, <2>4
<1>13. counters' \in [Slots -> [views : Nat, engaged : Nat, visitors : Nat]]
  BY <1>4, <1>12
<1> QED BY <1>1, <1>2, <1>8, <1>9, <1>10, <1>11, <1>12, <1>13

LEMMA EngageSafe ==
  ASSUME EngagedInv, KeysInv', NEW t \in Tx, Engage(t)
  PROVE  EngagedInv'
<1>0. TypeOK /\ CountersTyped
  BY DEF EngagedInv, KeysInv
<1>1. PICK mine, d, g : mine = Found(t) /\ d = tx[t].day /\ g = tx[t].visit.target
  OBVIOUS
<1>2. /\ tx[t].op = "visit" /\ End(t) /\ Unlock(t)
      /\ receipts' \subseteq ReceiptRows /\ IsFiniteSet(receipts')
      /\ \A q \in receipts' : q \in receipts \ mine \/ q.engaged
      /\ counters' \in [Slots -> [views : Nat, engaged : Nat, visitors : Nat]]
      /\ \A s \in Slots :
           /\ counters'[s].views = counters[s].views
           /\ counters'[s].engaged = IF \E r \in mine : s = <<d, g, r.source>>
                                     THEN counters[s].engaged + 1 ELSE counters[s].engaged
  BY <1>1, EngageEffect
<1>3. CountersTyped'
  BY <1>2 DEF CountersTyped
<1>4. \A r \in mine : r \in receipts /\ r.day = d /\ r.scope = g /\ ~r.engaged
  BY <1>0, <1>1, KeptReceipts DEF Found, VisitKey, Key
<1>5. ASSUME NEW s \in Slots PROVE SlotMoves(s)
  <2>1. Pending(s)' \subseteq Pending(s) \ mine
    BY <1>2 DEF Pending
  <2>2. CASE \E r \in mine : s = <<d, g, r.source>>
    <3>1. PICK r \in mine : s = <<d, g, r.source>>
      BY <2>2
    <3>2. r \in Pending(s) /\ Pending(s)' \subseteq Pending(s) \ {r}
      BY <1>4, <2>1, <3>1 DEF Pending
    <3>3. s[2] \in Targets
      BY <1>0, <1>1, <1>2, <3>1, VisitFacts
    <3> QED BY <1>2, <2>2, <3>2, <3>3 DEF SlotMoves
  <2>3. CASE ~\E r \in mine : s = <<d, g, r.source>>
    BY <1>2, <2>1, <2>3 DEF SlotMoves
  <2> QED BY <2>2, <2>3
<1> QED BY <1>2, <1>3, <1>5, EndVisit, CoverKept

LEMMA AdvanceVisit ==
  ASSUME EngagedInv, NEW t \in Tx, NEW pc, NEW locked, Advance(t, pc, locked), tx[t].op = "visit",
         locked \subseteq {VisitKey(t), AudienceKey(t)}, pc # "receipt",
         pc \in {"audience", "commit"} => VisitKey(t) \in keys[t] \cup locked
  PROVE  /\ OthersStay(t) /\ tx'[t].op = "visit" /\ tx'[t].day = tx[t].day
         /\ keys'[t] = keys[t] \cup locked /\ \A u \in Tx \ {t} : keys'[u] = keys[u]
         /\ UNCHANGED <<receipts, counters, day, seen>> /\ VisitKeys(t)'
<1>0. TypeOK /\ VisitKeys(t)
  BY DEF EngagedInv, KeysInv
<1>1. /\ OthersStay(t) /\ Keeps(tx[t], tx'[t]) /\ tx'[t].pc = pc
      /\ keys' = [keys EXCEPT ![t] = @ \cup locked] /\ UNCHANGED <<receipts, counters, day, seen>>
  BY <1>0, AdvanceMoves DEF traffic, history
<1>2. keys'[t] = keys[t] \cup locked /\ \A u \in Tx \ {t} : keys'[u] = keys[u]
  BY <1>0, <1>1 DEF TypeOK
<1>3. /\ tx'[t].op = tx[t].op /\ tx'[t].day = tx[t].day
      /\ VisitKey(t)' = VisitKey(t) /\ AudienceKey(t)' = AudienceKey(t)
  BY <1>1 DEF Keeps, VisitKey, AudienceKey, Key
<1>4. VisitKeys(t)'
  BY <1>0, <1>1, <1>2, <1>3 DEF VisitKeys
<1> QED BY <1>1, <1>2, <1>3, <1>4

(* Where a visit may stand after it took receipts *)
LEMMA TakeAdvances ==
  ASSUME EngagedInv, NEW t \in Tx, TakeReceipt(t) \/ TakeAudience(t)
  PROVE  /\ tx[t].op = "visit"
         /\ \E pc, locked :
              /\ Advance(t, pc, locked) /\ locked \subseteq {VisitKey(t), AudienceKey(t)}
              /\ pc # "receipt" /\ \A k \in locked : ~Issued(k)
              /\ pc \in {"audience", "commit"} => VisitKey(t) \in keys[t] \cup locked
<1>0. TypeOK /\ VisitKeys(t)
  BY DEF EngagedInv, KeysInv
<1>1. CASE TakeReceipt(t)
  <2>1. tx[t].op = "visit"
    BY <1>0, <1>1, ReceiptAdvances
  <2>2. PICK pc \in {"audience", "commit", "clean"}, locked \in SUBSET {VisitKey(t)} :
          /\ Advance(t, pc, locked) /\ \A k \in locked : Free(t, k) /\ ~Issued(k)
          /\ pc # "clean" => locked = {VisitKey(t)}
    BY <1>0, <1>1, ReceiptAdvances
  <2>3. pc # "receipt" /\ (pc \in {"audience", "commit"} => VisitKey(t) \in keys[t] \cup locked)
    BY <2>2
  <2>4. locked \subseteq {VisitKey(t), AudienceKey(t)}
    BY <2>2
  <2> QED BY <2>1, <2>2, <2>3, <2>4
<1>2. CASE TakeAudience(t)
  <2>1. tx[t].op = "visit" /\ tx[t].pc = "audience"
    BY <1>0, <1>2, AudienceAdvances
  <2>2. PICK locked \in SUBSET {AudienceKey(t)} :
          Advance(t, "commit", locked) /\ \A k \in locked : Free(t, k) /\ ~Issued(k)
    BY <1>0, <1>2, AudienceAdvances
  <2>3. VisitKey(t) \in keys[t] \cup locked /\ locked \subseteq {VisitKey(t), AudienceKey(t)}
    BY <1>0, <2>1, <2>2 DEF VisitKeys
  <2> QED BY <2>1, <2>2, <2>3
<1> QED BY <1>1, <1>2

LEMMA ArriveVisit ==
  ASSUME EngagedInv, NEW t \in Tx, Request(t)
  PROVE  /\ OthersStay(t) /\ keys' = keys /\ keys[t] = {} /\ VisitKeys(t)'
         /\ UNCHANGED <<receipts, counters, day, seen>>
         /\ tx'[t].op = "visit" => tx'[t].day = day
<1>0. KeysInv /\ TypeOK
  BY DEF EngagedInv, KeysInv
<1>1. /\ OthersStay(t) /\ tx[t].op = "none" /\ UNCHANGED <<keys, receipts, counters, day, seen>>
      /\ tx'[t].op = "visit" => tx'[t].pc \in {"receipt", "engage"} /\ tx'[t].day = day
  BY <1>0, ArriveKeys DEF traffic, history
<1>2. keys[t] = {}
  BY <1>0, <1>1 DEF KeysInv, KeysOwned
<1>3. VisitKeys(t)'
  BY <1>1, <1>2 DEF VisitKeys
<1> QED BY <1>1, <1>2, <1>3

(* The steps that touch neither receipts nor counters *)
LEMMA AsideVisit ==
  ASSUME EngagedInv, NEW t \in Tx,
         \/ CatalogStep(t) /\ UNCHANGED <<traffic, keys, day, history>>
         \/ DeleteArticle(t) \/ LockReaction(t) \/ WriteReaction(t) \/ CountView(t) \/ Rollback(t)
  PROVE  /\ OthersStay(t) /\ tx'[t].op # "visit" /\ UNCHANGED <<receipts, counters, day, seen>>
         /\ \A u \in Tx \ {t} : keys'[u] = keys[u]
<1>0. KeysInv /\ TypeOK
  BY DEF EngagedInv, KeysInv
<1>1. CASE CatalogStep(t) /\ UNCHANGED <<traffic, keys, day, history>>
  <2>1. UNCHANGED <<keys, receipts, counters, day, seen>>
    BY <1>1 DEF traffic, history
  <2> QED BY <1>0, <1>1, <2>1, CatalogKeys
<1>2. CASE LockReaction(t)
  <2>1. OthersStay(t) /\ tx'[t].op = "react" /\ UNCHANGED <<receipts, counters, day, seen>>
        /\ keys' = [keys EXCEPT ![t] = Locked(Reaction(t))]
    BY <1>0, <1>2, LockReactionMoves DEF Keeps, traffic, history
  <2> QED BY <1>0, <2>1 DEF TypeOK
<1>3. CASE DeleteArticle(t) \/ WriteReaction(t) \/ CountView(t) \/ Rollback(t)
  <2>1. End(t) /\ Unlock(t) /\ UNCHANGED <<receipts, counters, day, seen>>
    BY <1>3 DEF DeleteArticle, WriteReaction, CountView, Rollback, Fail, traffic, history
  <2> QED BY <2>1, EndVisit
<1> QED BY <1>1, <1>2, <1>3

LEMMA StepEngaged ==
  ASSUME EngagedInv, [Next]_vars
  PROVE  EngagedInv'
<1>0. KeysInv'
  BY StepKeys DEF EngagedInv
<1>1. ASSUME NEW t \in Tx, Request(t) PROVE EngagedInv'
  BY <1>0, <1>1, ArriveVisit, SameCounters
<1>2. ASSUME NEW t \in Tx,
             \/ CatalogStep(t) /\ UNCHANGED <<traffic, keys, day, history>>
             \/ DeleteArticle(t) \/ LockReaction(t) \/ WriteReaction(t) \/ CountView(t) \/ Rollback(t)
      PROVE  EngagedInv'
  BY <1>0, <1>2, AsideVisit, NotVisiting, SameCounters
<1>3. ASSUME NEW t \in Tx, TakeReceipt(t) \/ TakeAudience(t) PROVE EngagedInv'
  <2>1. /\ OthersStay(t) /\ UNCHANGED <<receipts, counters>> /\ VisitKeys(t)'
        /\ \A u \in Tx \ {t} : keys'[u] = keys[u]
    BY <1>3, TakeAdvances, AdvanceVisit
  <2> QED BY <1>0, <2>1, SameCounters
<1>4. CASE Midnight \/ UNCHANGED vars
  <2>1. UNCHANGED <<keys, tx, receipts, counters>>
    BY <1>4 DEF Midnight, vars, traffic
  <2> QED BY <1>0, <2>1 DEF EngagedInv, CountersTyped, EngagedCovered, EngagedWithinViews, Pending,
                            VisitKeys, VisitKey, AudienceKey, Key
<1> QED BY <1>0, <1>1, <1>2, <1>3, <1>4, CommitVisitSafe, CommitNothingSafe, EngageSafe
           DEF Next, Step, LoseView

LEMMA InitEngaged == Init => EngagedInv
<1> SUFFICES ASSUME Init PROVE EngagedInv
  OBVIOUS
<1>1. receipts = {} /\ counters = [s \in Slots |-> Zero] /\ \A t \in Tx : tx[t].op = "none"
  BY IdleOK DEF Init, CatalogInit
<1>2. \A s \in Slots : counters[s].engaged = 0 /\ counters[s].views = 0 /\ Pending(s) = {}
  BY <1>1 DEF Zero, Pending
<1>3. EngagedCovered /\ EngagedWithinViews
  BY <1>2, FS_EmptySet DEF EngagedCovered, EngagedWithinViews
<1>4. counters \in [Slots -> [views : Nat, engaged : Nat, visitors : Nat]]
  BY <1>1 DEF Zero
<1>5. CountersTyped
  BY <1>1, <1>4, FS_EmptySet DEF CountersTyped
<1>6. \A t \in Tx : VisitKeys(t)
  BY <1>1 DEF VisitKeys
<1> QED BY <1>3, <1>5, <1>6, InitKeys DEF EngagedInv

(* record_visit: an engaged event, early, late or repeated, counts at most
   once and where its view was counted, so engaged views never outnumber the
   views of their day, target and source. *)
THEOREM EngagedAlwaysWithinViews == Spec => []EngagedWithinViews
<1>1. EngagedInv => EngagedWithinViews
  BY DEF EngagedInv
<1> QED BY <1>1, InitEngaged, StepEngaged, PTL DEF Spec

-----------------------------------------------------------------------------
(* Views are counted once *)

IssuedBy(rows, key) == \E r \in rows : <<r.day, r.scope, r.token>> = key

(* A step of t keeps what other visits rely on. *)
LEMMA OnceKept ==
  ASSUME OnceInv, EngagedInv', NEW t \in Tx, OthersStay(t), day' = day,
         \A u \in Tx \ {t} : keys'[u] = keys[u],
         \A u \in Tx \ {t} : \A k \in keys[u] : IssuedBy(receipts', k) => IssuedBy(receipts, k),
         tx'[t].op = "visit" => /\ tx'[t].day <= day /\ day <= tx'[t].day + 1
                                /\ \A k \in keys'[t] : ~IssuedBy(receipts', k),
         seen' \subseteq Nat \X Targets \X Tokens,
         \A s \in seen' : day <= s[1] + Retention => IssuedBy(receipts', s)
  PROVE  OnceInv'
<1>1. \A u \in Tx \ {t} : tx'[u] = tx[u]
  BY DEF OthersStay
<1>2. ClocksNear'
  BY <1>1 DEF OnceInv, ClocksNear
<1>3. SeenIssued'
  BY DEF SeenIssued, Issued, IssuedBy
<1>4. ASSUME NEW u \in Tx PROVE InsertSafe(u)'
  <2>1. CASE u = t
    BY <2>1 DEF InsertSafe, Issued, IssuedBy
  <2>2. CASE u # t
    <3>1. InsertSafe(u) /\ tx'[u] = tx[u] /\ keys'[u] = keys[u]
      BY <1>1, <2>2 DEF OnceInv
    <3>2. \A k \in keys[u] : IssuedBy(receipts', k) => IssuedBy(receipts, k)
      BY <2>2
    <3> QED BY <3>1, <3>2 DEF InsertSafe, Issued, IssuedBy
  <2> QED BY <2>1, <2>2
<1> QED BY <1>2, <1>3, <1>4 DEF OnceInv

LEMMA SeenStays ==
  ASSUME OnceInv
  PROVE  \A s \in seen : day <= s[1] + Retention => IssuedBy(receipts, s)
BY DEF OnceInv, SeenIssued, Issued, IssuedBy

LEMMA SameOnce ==
  ASSUME OnceInv, EngagedInv', NEW t \in Tx, OthersStay(t), UNCHANGED <<receipts, day, seen>>,
         \A u \in Tx \ {t} : keys'[u] = keys[u],
         tx'[t].op = "visit" => /\ tx'[t].day <= day /\ day <= tx'[t].day + 1
                                /\ \A k \in keys'[t] : ~IssuedBy(receipts, k)
  PROVE  OnceInv'
<1>1. \A s \in seen : day <= s[1] + Retention => IssuedBy(receipts, s)
  BY SeenStays
<1>2. seen \subseteq Nat \X Targets \X Tokens
  BY DEF OnceInv
<1> QED BY <1>1, <1>2, OnceKept

(* The receipt of a view that can still be repeated outlasts the deletion of
   old receipts. *)
LEMMA KeptCovers ==
  ASSUME OnceInv, NEW t \in Tx, tx[t].op = "visit", NEW s \in seen, day <= s[1] + Retention
  PROVE  IssuedBy(Kept(t), s)
<1>0. TypeOK /\ CountersTyped
  BY DEF OnceInv, EngagedInv, KeysInv
<1>1. PICK r \in receipts : <<r.day, r.scope, r.token>> = s
  BY SeenStays DEF IssuedBy
<1>2. r.day \in Nat /\ r.day = s[1]
  <2>1. r \in ReceiptRows
    BY <1>0 DEF CountersTyped
  <2> QED BY <1>1, <2>1, TrafficAssumptions DEF ReceiptRows
<1>3. tx[t].day \in Nat /\ tx[t].day <= day /\ day \in Nat /\ Retention \in Nat
  BY <1>0, VisitFacts, TrafficAssumptions DEF OnceInv, ClocksNear, TypeOK
<1>4. r \in Kept(t)
  BY <1>2, <1>3 DEF Kept, Outdated
<1> QED BY <1>1, <1>4 DEF IssuedBy

(* A view that is about to be counted was not counted before. *)
LEMMA CommitIsFresh ==
  ASSUME OnceInv, NEW t \in Tx, CommitVisit(t)
  PROVE  VisitKey(t) \notin seen
<1>0. TypeOK /\ EngagedInv
  BY DEF OnceInv, EngagedInv, KeysInv
<1>1. tx[t].op = "visit" /\ VisitKey(t) \in keys[t]
  BY <1>0, CommitCounters
<1>2. ~IssuedBy(receipts, VisitKey(t))
  BY <1>1 DEF OnceInv, InsertSafe, Issued, IssuedBy
<1>3. /\ tx[t].day \in Nat /\ day <= tx[t].day + 1 /\ day \in Nat
      /\ Retention \in Nat /\ Retention # 0
  BY <1>0, <1>1, VisitFacts, TrafficAssumptions DEF OnceInv, ClocksNear, TypeOK
<1>4. VisitKey(t)[1] = tx[t].day
  BY DEF VisitKey, Key
<1>5. day <= VisitKey(t)[1] + Retention
  BY <1>3, <1>4
<1> QED BY <1>2, <1>5, SeenStays

LEMMA CommitVisitOnce ==
  ASSUME OnceInv, EngagedInv', NEW t \in Tx, CommitVisit(t)
  PROVE  OnceInv'
<1>0. TypeOK /\ EngagedInv /\ CountersTyped /\ KeysApart
  BY DEF OnceInv, EngagedInv, KeysInv
<1>1. /\ tx[t].op = "visit" /\ VisitKey(t) \in keys[t] /\ receipts' = Kept(t) \cup Inserted(t)
      /\ seen' = seen \cup {VisitKey(t)} /\ End(t) /\ Unlock(t) /\ day' = day
  BY <1>0, CommitCounters
<1>2. /\ OthersStay(t) /\ tx'[t].op = "none" /\ \A u \in Tx \ {t} : keys'[u] = keys[u]
  BY <1>0, <1>1, EndVisit
<1>3. ASSUME NEW u \in Tx \ {t}, NEW k \in keys[u], IssuedBy(receipts', k) PROVE IssuedBy(receipts, k)
  <2>1. k \notin keys[t]
    BY <1>0 DEF KeysApart
  <2>2. \A r \in Inserted(t) : <<r.day, r.scope, r.token>> \in keys[t]
    BY <1>0, <1>1, InsertedRows
  <2>3. Kept(t) \subseteq receipts
    BY <1>0, KeptReceipts
  <2> QED BY <1>1, <1>3, <2>1, <2>2, <2>3 DEF IssuedBy
<1>4. seen' \subseteq Nat \X Targets \X Tokens
  <2>1. VisitKey(t) \in Nat \X Targets \X Tokens
    BY <1>0, <1>1, VisitFacts DEF VisitKey, Key
  <2> QED BY <1>1, <2>1 DEF OnceInv
<1>5. ASSUME NEW s \in seen', day <= s[1] + Retention PROVE IssuedBy(receipts', s)
  <2>1. CASE s \in seen
    <3>1. IssuedBy(Kept(t), s)
      BY <1>1, <1>5, <2>1, KeptCovers
    <3> QED BY <1>1, <3>1 DEF IssuedBy
  <2>2. CASE s = VisitKey(t)
    <3>1. PICK r \in Inserted(t) : <<r.day, r.scope, r.token>> = VisitKey(t)
      BY <1>0, <1>1, InsertedRows
    <3> QED BY <1>1, <2>2, <3>1 DEF IssuedBy
  <2> QED BY <1>1, <2>1, <2>2
<1> QED BY <1>1, <1>2, <1>3, <1>4, <1>5, OnceKept

LEMMA CleanOnce ==
  ASSUME OnceInv, EngagedInv', NEW t \in Tx, CommitNothing(t) \/ Engage(t)
  PROVE  OnceInv'
<1>0. TypeOK /\ EngagedInv /\ CountersTyped
  BY DEF OnceInv, EngagedInv, KeysInv
<1>1. tx[t].op = "visit" /\ End(t) /\ Unlock(t) /\ UNCHANGED <<day, seen>>
  BY <1>0, Standing DEF CommitNothing, Engage, At, history
<1>2. \A r \in Kept(t) : \E q \in receipts' : <<q.day, q.scope, q.token>> = <<r.day, r.scope, r.token>>
  <2>1. CASE CommitNothing(t)
    BY <2>1 DEF CommitNothing
  <2>2. CASE Engage(t)
    BY <1>0, <2>2, EngageEffect
  <2> QED BY <2>1, <2>2
<1>3. \A q \in receipts' : \E r \in receipts : <<q.day, q.scope, q.token>> = <<r.day, r.scope, r.token>>
  <2>1. CASE CommitNothing(t)
    BY <1>0, <2>1, KeptReceipts DEF CommitNothing
  <2>2. CASE Engage(t)
    BY <1>0, <2>2, EngageEffect
  <2> QED BY <2>1, <2>2
<1>4. OthersStay(t) /\ tx'[t].op = "none" /\ \A u \in Tx \ {t} : keys'[u] = keys[u]
  BY <1>0, <1>1, EndVisit
<1>5. \A k : IssuedBy(receipts', k) => IssuedBy(receipts, k)
  BY <1>3 DEF IssuedBy
<1>6. ASSUME NEW s \in seen', day <= s[1] + Retention PROVE IssuedBy(receipts', s)
  <2>1. IssuedBy(Kept(t), s)
    BY <1>1, <1>6, KeptCovers
  <2> QED BY <1>2, <2>1 DEF IssuedBy
<1>7. seen' \subseteq Nat \X Targets \X Tokens
  BY <1>1 DEF OnceInv
<1> QED BY <1>1, <1>4, <1>5, <1>6, <1>7, OnceKept

LEMMA StepOnce ==
  ASSUME OnceInv, [Next]_vars
  PROVE  OnceInv'
<1>0. EngagedInv /\ EngagedInv' /\ TypeOK
  BY StepEngaged DEF OnceInv, EngagedInv, KeysInv
<1>1. ASSUME NEW t \in Tx, Request(t) PROVE OnceInv'
  <2>1. /\ OthersStay(t) /\ keys' = keys /\ keys[t] = {} /\ UNCHANGED <<receipts, day, seen>>
        /\ tx'[t].op = "visit" => tx'[t].day = day
    BY <1>0, <1>1, ArriveVisit
  <2>2. day \in Nat
    BY <1>0, TrafficAssumptions DEF TypeOK
  <2> QED BY <1>0, <2>1, <2>2, SameOnce
<1>2. ASSUME NEW t \in Tx,
             \/ CatalogStep(t) /\ UNCHANGED <<traffic, keys, day, history>>
             \/ DeleteArticle(t) \/ LockReaction(t) \/ WriteReaction(t) \/ CountView(t) \/ Rollback(t)
      PROVE  OnceInv'
  BY <1>0, <1>2, AsideVisit, SameOnce
<1>3. ASSUME NEW t \in Tx, TakeReceipt(t) \/ TakeAudience(t) PROVE OnceInv'
  <2>1. PICK locked :
        /\ OthersStay(t) /\ tx[t].op = "visit" /\ tx'[t].day = tx[t].day
        /\ UNCHANGED <<receipts, day, seen>> /\ keys'[t] = keys[t] \cup locked
        /\ \A u \in Tx \ {t} : keys'[u] = keys[u]
        /\ \A k \in locked : ~Issued(k)
    BY <1>0, <1>3, TakeAdvances, AdvanceVisit
  <2>2. tx[t].day <= day /\ day <= tx[t].day + 1 /\ \A k \in keys[t] : ~Issued(k)
    BY <2>1 DEF OnceInv, ClocksNear, InsertSafe
  <2>3. \A k \in keys'[t] : ~IssuedBy(receipts, k)
    BY <2>1, <2>2 DEF Issued, IssuedBy
  <2> QED BY <1>0, <2>1, <2>2, <2>3, SameOnce
<1>4. CASE Midnight
  <2>1. UNCHANGED <<keys, tx, receipts, seen>> /\ day' = day + 1 /\ day \in Nat
        /\ \A t \in Tx : tx[t].op = "visit" => tx[t].day = day
    BY <1>0, <1>4, TrafficAssumptions DEF Midnight, traffic, history, TypeOK
  <2>2. ClocksNear'
    BY <2>1 DEF ClocksNear
  <2>3. SeenIssued'
    <3> SUFFICES ASSUME NEW s \in seen, day + 1 <= s[1] + Retention PROVE IssuedBy(receipts, s)
      BY <2>1 DEF SeenIssued, Issued, IssuedBy
    <3>1. s[1] \in Nat /\ Retention \in Nat
      BY TrafficAssumptions DEF OnceInv
    <3>2. day <= s[1] + Retention
      BY <2>1, <3>1
    <3> QED BY <3>2, SeenStays
  <2>4. \A t \in Tx : InsertSafe(t)'
    BY <2>1 DEF OnceInv, InsertSafe, Issued
  <2> QED BY <1>0, <2>1, <2>2, <2>3, <2>4 DEF OnceInv
<1>5. CASE UNCHANGED vars
  <2>1. UNCHANGED <<keys, tx, receipts, seen, day>>
    BY <1>5 DEF vars, traffic, history
  <2> QED BY <1>0, <2>1 DEF OnceInv, ClocksNear, SeenIssued, InsertSafe, Issued
<1> QED BY <1>0, <1>1, <1>2, <1>3, <1>4, <1>5, CommitVisitOnce, CleanOnce DEF Next, Step, LoseView

LEMMA InitOnce == Init => OnceInv
<1> SUFFICES ASSUME Init PROVE OnceInv
  OBVIOUS
<1>1. seen = {} /\ \A t \in Tx : tx[t].op = "none"
  BY IdleOK DEF Init, CatalogInit
<1> QED BY <1>1, InitEngaged DEF OnceInv, ClocksNear, SeenIssued, InsertSafe

(* A view is counted for a token that was not counted that day for that
   target, once and in one slot. *)
CountsFreshView ==
  \/ seen' = seen /\ \A s \in Slots : counters'[s].views = counters[s].views
  \/ \E s \in Slots, token \in Tokens :
       /\ <<s[1], s[2], token>> \notin seen
       /\ seen' = seen \cup {<<s[1], s[2], token>>}
       /\ \A r \in Slots : counters'[r].views = IF r = s THEN counters[r].views + 1
                                                ELSE counters[r].views

LEMMA FreshStep ==
  ASSUME OnceInv, [Next]_vars
  PROVE  CountsFreshView
<1>0. EngagedInv /\ TypeOK
  BY DEF OnceInv, EngagedInv, KeysInv
<1>1. ASSUME UNCHANGED <<seen, counters>> PROVE CountsFreshView
  BY <1>1 DEF CountsFreshView
<1>2. ASSUME NEW t \in Tx, Request(t) PROVE UNCHANGED <<seen, counters>>
  BY <1>0, <1>2, ArriveVisit
<1>3. ASSUME NEW t \in Tx,
             \/ CatalogStep(t) /\ UNCHANGED <<traffic, keys, day, history>>
             \/ DeleteArticle(t) \/ LockReaction(t) \/ WriteReaction(t) \/ CountView(t) \/ Rollback(t)
      PROVE  UNCHANGED <<seen, counters>>
  BY <1>0, <1>3, AsideVisit
<1>4. ASSUME NEW t \in Tx, TakeReceipt(t) \/ TakeAudience(t) PROVE UNCHANGED <<seen, counters>>
  BY <1>0, <1>4, TakeAdvances, AdvanceVisit
<1>5. ASSUME NEW t \in Tx, CommitNothing(t) PROVE UNCHANGED <<seen, counters>>
  BY <1>5 DEF CommitNothing, history
<1>6. ASSUME NEW t \in Tx, Engage(t) PROVE CountsFreshView
  BY <1>0, <1>6, EngageEffect DEF CountsFreshView
<1>7. ASSUME NEW t \in Tx, CommitVisit(t) PROVE CountsFreshView
  <2>1. PICK s, token : /\ s = <<tx[t].day, tx[t].visit.target, tx[t].visit.source>>
                        /\ token = tx[t].visit.token
    OBVIOUS
  <2>2. VisitKey(t) = <<s[1], s[2], token>>
    BY <2>1 DEF VisitKey, Key
  <2>3. /\ tx[t].op = "visit" /\ seen' = seen \cup {VisitKey(t)} /\ s \in Slots
        /\ \A r \in Slots : counters'[r].views = IF r = s THEN counters[r].views + 1
                                                 ELSE counters[r].views
    BY <1>0, <1>7, <2>1, CommitCounters
  <2>4. VisitKey(t) \notin seen
    BY <1>7, CommitIsFresh
  <2>5. token \in Tokens
    BY <1>0, <2>1, <2>3, VisitFacts
  <2> QED BY <2>2, <2>3, <2>4, <2>5 DEF CountsFreshView
<1>8. CASE Midnight \/ UNCHANGED vars
  BY <1>1, <1>8 DEF Midnight, vars, traffic, history
<1> QED BY <1>1, <1>2, <1>3, <1>4, <1>5, <1>6, <1>7, <1>8 DEF Next, Step, LoseView

(* record_visit: whatever is repeated, overlaps or crosses midnight, a step
   counts at most one view, in one slot, and only for a token that was not
   counted that day for that target. *)
THEOREM ViewsCountedFresh == Spec => [][CountsFreshView]_<<seen, counters>>
<1>1. OnceInv /\ [Next]_vars => [CountsFreshView]_<<seen, counters>>
  BY FreshStep
<1> QED BY <1>1, InitOnce, StepOnce, PTL DEF Spec

-----------------------------------------------------------------------------
(* The rows of a day's report *)
Line(d, g) == {d} \X {g} \X Sources
Views(c, d, g) == [s \in Line(d, g) |-> c[s].views]
VisitorsShown(c, d) == [s \in Line(d, Audience) |-> c[s].visitors]
SeenOf(z, d, g) == {s \in z : s[1] = d /\ s[2] = g}
Met(rows, d) == {w \in Visitors : IssuedBy(rows, <<d, Audience, w>>)}

(* The report shows a view for every visit token that was counted. *)
ViewsCounted ==
  /\ IsFiniteSet(seen)
  /\ \A d \in 0 .. LastDay, g \in Targets :
       SumFunctionOnSet(Views(counters, d, g), Line(d, g)) = Cardinality(SeenOf(seen, d, g))

(* It shows no more visitors than there are and, as long as visitors can be
   counted for the day, none without a receipt. *)
VisitorsCounted ==
  \A d \in 0 .. LastDay :
    /\ SumFunctionOnSet(VisitorsShown(counters, d), Line(d, Audience)) <= Cardinality(Visitors)
    /\ day <= d + Retention =>
         SumFunctionOnSet(VisitorsShown(counters, d), Line(d, Audience)) <= Cardinality(Met(receipts, d))

LEMMA LineOfSlots ==
  ASSUME NEW d \in 0 .. LastDay, NEW g \in Targets \cup {Audience}
  PROVE  /\ Line(d, g) \subseteq Slots /\ IsFiniteSet(Line(d, g))
         /\ \A s \in Slots : s \in Line(d, g) <=> s[1] = d /\ s[2] = g
<1>1. Line(d, g) \subseteq Slots /\ \A s \in Slots : s \in Line(d, g) <=> s[1] = d /\ s[2] = g
  BY DEF Line, Slots
<1>2. IsFiniteSet({d} \X ({g} \X Sources))
  BY FS_Singleton, FS_Product, TrafficAssumptions
<1>3. IsFiniteSet(Line(d, g))
  <2> DEFINE f == [p \in {d} \X ({g} \X Sources) |-> <<p[1], p[2][1], p[2][2]>>]
  <2>1. f \in Surjection({d} \X ({g} \X Sources), Line(d, g))
    <3>1. f \in [{d} \X ({g} \X Sources) -> Line(d, g)]
      BY DEF Line
    <3>2. ASSUME NEW s \in Line(d, g) PROVE \E p \in {d} \X ({g} \X Sources) : f[p] = s
      <4>1. PICK c \in Sources : s = <<d, g, c>>
        BY DEF Line
      <4>2. <<d, <<g, c>>>> \in {d} \X ({g} \X Sources) /\ f[<<d, <<g, c>>>>] = s
        BY <4>1
      <4> QED BY <4>2
    <3> QED BY <3>1, <3>2 DEF Surjection
  <2> HIDE DEF f
  <2> QED BY <1>2, <2>1, FS_Surjection
<1> QED BY <1>1, <1>3

(* A day's report has a row for each source. *)
LEMMA DayReportRows ==
  ASSUME NEW d \in 0 .. LastDay, NEW g \in Targets \cup {Audience}
  PROVE  DayReport(d, g) = [s \in Line(d, g) |-> counters[s]]
<1>1. g # None /\ Audience \notin Targets /\ Sites \subseteq Targets
  BY TrafficAssumptions
<1>2. d .. d = {d}
  BY TrafficAssumptions
<1> DEFINE scopes == IF KindOf(g) = "Site" THEN Sites \cup {Audience} ELSE Targets \ Sites
<1>3. scopes \cap {g} = {g}
  BY <1>1 DEF KindOf
<1>4. DayReport(d, g) = [s \in (d .. d) \X (scopes \cap {g}) \X Sources |-> counters[s]]
  BY <1>1 DEF DayReport, Report
<1> HIDE DEF scopes
<1> QED BY <1>2, <1>3, <1>4 DEF Line

LEMMA ViewsStep ==
  ASSUME ViewsCounted, CountersTyped, CountersTyped', CountsFreshView
  PROVE  ViewsCounted'
<1>1. CASE seen' = seen /\ \A s \in Slots : counters'[s].views = counters[s].views
  <2>1. ASSUME NEW d \in 0 .. LastDay, NEW g \in Targets
        PROVE  SumFunctionOnSet(Views(counters', d, g), Line(d, g)) = Cardinality(SeenOf(seen', d, g))
    <3>1. PICK f, h, S : f = Views(counters, d, g) /\ h = Views(counters', d, g) /\ S = Line(d, g)
      OBVIOUS
    <3>2. IsFiniteSet(S) /\ S \subseteq Slots
      BY <3>1, LineOfSlots
    <3>3. \A s \in S : f[s] \in Nat /\ h[s] = f[s]
      BY <1>1, <3>1, <3>2 DEF Views, CountersTyped
    <3>4. SumFunctionOnSet(h, S) = SumFunctionOnSet(f, S)
      BY <3>2, <3>3, SumSame
    <3> QED BY <1>1, <3>1, <3>4 DEF ViewsCounted
  <2> QED BY <1>1, <2>1 DEF ViewsCounted
<1>2. ASSUME NEW s0 \in Slots, NEW token \in Tokens,
             <<s0[1], s0[2], token>> \notin seen,
             seen' = seen \cup {<<s0[1], s0[2], token>>},
             \A r \in Slots : counters'[r].views = IF r = s0 THEN counters[r].views + 1
                                                   ELSE counters[r].views
      PROVE  ViewsCounted'
  <2>1. PICK z : z = <<s0[1], s0[2], token>>
    OBVIOUS
  <2>2. z \notin seen /\ seen' = seen \cup {z} /\ z[1] = s0[1] /\ z[2] = s0[2]
    BY <1>2, <2>1
  <2>3. IsFiniteSet(seen) /\ IsFiniteSet(seen')
    BY <2>2, FS_AddElement DEF ViewsCounted
  <2>4. ASSUME NEW d \in 0 .. LastDay, NEW g \in Targets
        PROVE  SumFunctionOnSet(Views(counters', d, g), Line(d, g)) = Cardinality(SeenOf(seen', d, g))
    <3>1. PICK f, h, S, Z, Y :
            /\ f = Views(counters, d, g) /\ h = Views(counters', d, g) /\ S = Line(d, g)
            /\ Z = SeenOf(seen, d, g) /\ Y = SeenOf(seen', d, g)
      OBVIOUS
    <3>2. /\ IsFiniteSet(S) /\ S \subseteq Slots
          /\ s0 \in S <=> s0[1] = d /\ s0[2] = g
      BY <3>1, LineOfSlots
    <3>3. \A s \in S : f[s] \in Nat /\ h[s] = IF s = s0 THEN f[s] + 1 ELSE f[s]
      BY <1>2, <3>1, <3>2 DEF Views, CountersTyped
    <3>4. SumFunctionOnSet(f, S) = Cardinality(Z)
      BY <3>1 DEF ViewsCounted
    <3>5. CASE s0 \in S
      <4>1. SumFunctionOnSet(h, S) = SumFunctionOnSet(f, S) + 1
        BY <3>2, <3>3, <3>5, SumBumped
      <4>2. Y = Z \cup {z} /\ z \notin Z
        BY <2>2, <3>1, <3>2, <3>5 DEF SeenOf
      <4>3. Z \subseteq seen
        BY <3>1 DEF SeenOf
      <4>4. Cardinality(Y) = Cardinality(Z) + 1
        BY <2>3, <4>2, <4>3, FS_Subset, FS_AddElement
      <4> QED BY <3>1, <3>4, <4>1, <4>4
    <3>6. CASE s0 \notin S
      <4>1. \A s \in S : f[s] \in Nat /\ h[s] = f[s]
        BY <3>3, <3>6
      <4>2. SumFunctionOnSet(h, S) = SumFunctionOnSet(f, S)
        BY <3>2, <4>1, SumSame
      <4>3. Y = Z
        BY <2>2, <3>1, <3>2, <3>6 DEF SeenOf
      <4> QED BY <3>1, <3>4, <4>2, <4>3
    <3> QED BY <3>5, <3>6
  <2> QED BY <2>3, <2>4 DEF ViewsCounted
<1> QED BY <1>1, <1>2 DEF CountsFreshView

(* A visitor is counted with a receipt that was not there, and the receipts
   of days for which visitors can be counted stay. *)
CountsFreshVisitor ==
  /\ \A d \in 0 .. LastDay, w \in Visitors :
       day <= d + Retention /\ IssuedBy(receipts, <<d, Audience, w>>)
         => IssuedBy(receipts', <<d, Audience, w>>)
  /\ \/ \A s \in Slots : counters'[s].visitors = counters[s].visitors
     \/ \E s \in Slots, w \in Visitors :
          /\ s[2] = Audience /\ day <= s[1] + Retention
          /\ ~IssuedBy(receipts, <<s[1], Audience, w>>) /\ IssuedBy(receipts', <<s[1], Audience, w>>)
          /\ \A r \in Slots : counters'[r].visitors = IF r = s THEN counters[r].visitors + 1
                                                      ELSE counters[r].visitors

LEMMA MetFinite ==
  ASSUME NEW rows, NEW d
  PROVE  /\ IsFiniteSet(Met(rows, d)) /\ Cardinality(Met(rows, d)) \in Nat
         /\ Cardinality(Met(rows, d)) <= Cardinality(Visitors) /\ Cardinality(Visitors) \in Nat
<1>1. Met(rows, d) \subseteq Visitors /\ IsFiniteSet(Visitors)
  BY TrafficAssumptions DEF Met
<1> QED BY <1>1, FS_Subset, FS_CardinalityType

LEMMA VisitorsStep ==
  ASSUME TypeOK, VisitorsCounted, CountersTyped, CountersTyped', CountsFreshVisitor,
         day' \in Nat, day <= day'
  PROVE  VisitorsCounted'
<1>0. day \in Nat /\ Retention \in Nat
  BY TrafficAssumptions DEF TypeOK
<1>1. ASSUME NEW d \in 0 .. LastDay
      PROVE  /\ SumFunctionOnSet(VisitorsShown(counters', d), Line(d, Audience)) <= Cardinality(Visitors)
             /\ day' <= d + Retention =>
                  SumFunctionOnSet(VisitorsShown(counters', d), Line(d, Audience))
                    <= Cardinality(Met(receipts', d))
  <2>1. PICK f, h, S, Z, Y, n :
          /\ f = VisitorsShown(counters, d) /\ h = VisitorsShown(counters', d) /\ S = Line(d, Audience)
          /\ Z = Met(receipts, d) /\ Y = Met(receipts', d) /\ n = Cardinality(Visitors)
    OBVIOUS
  <2>2. /\ IsFiniteSet(S) /\ S \subseteq Slots
        /\ \A s \in Slots : s \in S <=> s[1] = d /\ s[2] = Audience
    BY <2>1, LineOfSlots
  <2>3. /\ IsFiniteSet(Z) /\ Cardinality(Z) \in Nat /\ Cardinality(Z) <= n
        /\ IsFiniteSet(Y) /\ Cardinality(Y) \in Nat /\ Cardinality(Y) <= n /\ n \in Nat
    BY <2>1, MetFinite
  <2>4. /\ SumFunctionOnSet(f, S) <= n
        /\ day <= d + Retention => SumFunctionOnSet(f, S) <= Cardinality(Z)
    BY <2>1 DEF VisitorsCounted
  <2>5. \A s \in S : f[s] = counters[s].visitors /\ h[s] = counters'[s].visitors /\ f[s] \in Nat
    BY <2>1, <2>2 DEF VisitorsShown, CountersTyped
  <2>6. SumFunctionOnSet(f, S) \in Nat
    BY <2>2, <2>5, SumRemoves
  <2>7. day <= d + Retention => Z \subseteq Y
    BY <2>1 DEF Met, CountsFreshVisitor
  <2>8. day' <= d + Retention => day <= d + Retention
    BY <1>0
  <2>9. day <= d + Retention => Cardinality(Z) <= Cardinality(Y)
    BY <2>3, <2>7, FS_Subset
  <2>10. CASE \A s \in S : h[s] = f[s]
    <3>1. SumFunctionOnSet(h, S) = SumFunctionOnSet(f, S)
      BY <2>2, <2>5, <2>10, SumSame
    <3>2. SumFunctionOnSet(h, S) <= n
          /\ (day' <= d + Retention => SumFunctionOnSet(h, S) <= Cardinality(Y))
      BY <2>3, <2>4, <2>6, <2>8, <2>9, <3>1
    <3> QED BY <2>1, <3>2
  <2>11. ASSUME NEW s0 \in Slots, NEW w \in Visitors, s0[2] = Audience, day <= s0[1] + Retention,
                ~IssuedBy(receipts, <<s0[1], Audience, w>>), IssuedBy(receipts', <<s0[1], Audience, w>>),
                \A r \in Slots : counters'[r].visitors = IF r = s0 THEN counters[r].visitors + 1
                                                         ELSE counters[r].visitors,
                s0 \in S
         PROVE  SumFunctionOnSet(h, S) <= n /\ SumFunctionOnSet(h, S) <= Cardinality(Y)
    <3>1. s0[1] = d
      BY <2>2, <2>11
    <3>2. \A s \in S : h[s] = IF s = s0 THEN f[s] + 1 ELSE f[s]
      BY <2>2, <2>5, <2>11
    <3>3. SumFunctionOnSet(h, S) = SumFunctionOnSet(f, S) + 1
      BY <2>2, <2>5, <2>11, <3>2, SumBumped
    <3>4. w \notin Z /\ w \in Y
      BY <2>1, <2>11, <3>1 DEF Met
    <3>5. Z \cup {w} \subseteq Y
      BY <2>7, <2>11, <3>1, <3>4
    <3>6. Cardinality(Z \cup {w}) = Cardinality(Z) + 1 /\ IsFiniteSet(Z \cup {w})
      BY <2>3, <3>4, FS_AddElement
    <3>7. Cardinality(Z) + 1 <= Cardinality(Y)
      BY <2>3, <3>5, <3>6, FS_Subset
    <3>8. SumFunctionOnSet(f, S) <= Cardinality(Z)
      BY <2>4, <2>11, <3>1
    <3> QED BY <2>3, <2>6, <3>3, <3>7, <3>8
  <2>12. ASSUME NEW s0 \in Slots, NEW w \in Visitors, s0 \notin S,
                \A r \in Slots : counters'[r].visitors = IF r = s0 THEN counters[r].visitors + 1
                                                         ELSE counters[r].visitors
         PROVE  \A s \in S : h[s] = f[s]
    BY <2>2, <2>5, <2>12
  <2>13. (\A s \in Slots : counters'[s].visitors = counters[s].visitors) => \A s \in S : h[s] = f[s]
    BY <2>2, <2>5
  <2>14. \/ \A s \in S : h[s] = f[s]
         \/ SumFunctionOnSet(h, S) <= n /\ SumFunctionOnSet(h, S) <= Cardinality(Y)
    BY <2>11, <2>12, <2>13 DEF CountsFreshVisitor
  <2> QED BY <2>1, <2>10, <2>14
<1> QED BY <1>1 DEF VisitorsCounted

LEMMA LiveKept ==
  ASSUME OnceInv, NEW t \in Tx, tx[t].op = "visit", NEW d \in 0 .. LastDay, day <= d + Retention,
         NEW w, IssuedBy(receipts, <<d, Audience, w>>)
  PROVE  IssuedBy(Kept(t), <<d, Audience, w>>)
<1>0. TypeOK /\ CountersTyped
  BY DEF OnceInv, EngagedInv, KeysInv
<1>1. PICK r \in receipts : <<r.day, r.scope, r.token>> = <<d, Audience, w>>
  BY DEF IssuedBy
<1>2. r.day = d
  BY <1>1
<1>3. tx[t].day \in Nat /\ tx[t].day <= day /\ day \in Nat /\ Retention \in Nat /\ d \in Nat
  BY <1>0, VisitFacts, TrafficAssumptions DEF OnceInv, ClocksNear, TypeOK
<1>4. r \in Kept(t)
  BY <1>2, <1>3 DEF Kept, Outdated
<1> QED BY <1>1, <1>4 DEF IssuedBy

LEMMA CommitVisitors ==
  ASSUME OnceInv, NEW t \in Tx, CommitVisit(t)
  PROVE  CountsFreshVisitor
<1>0. TypeOK /\ EngagedInv /\ CountersTyped /\ VisitKeys(t)
  BY DEF OnceInv, EngagedInv, KeysInv
<1>1. tx[t].op = "visit" /\ receipts' = Kept(t) \cup Inserted(t)
  BY <1>0, CommitCounters
<1>2. PICK d, g, source, w, s0, aud, P :
        /\ d = tx[t].day /\ g = tx[t].visit.target /\ source = tx[t].visit.source
        /\ w = tx[t].visit.visitor
        /\ s0 = <<d, g, source>> /\ aud = <<d, Audience, source>>
        /\ P = (\E k \in keys[t] : k[2] = Audience)
  OBVIOUS
<1>3. /\ d \in 0 .. LastDay /\ d \in Nat /\ g \in Targets /\ g # Audience /\ source \in Sources
      /\ w \in Visitors
  BY <1>0, <1>1, <1>2, VisitFacts
<1>4. s0 \in Slots /\ aud \in Slots /\ s0 # aud /\ aud[1] = d /\ aud[2] = Audience
  BY <1>2, <1>3 DEF Slots
<1>5. counters' = [s \in Slots |->
          IF s = s0 THEN [counters[s] EXCEPT !.views = @ + 1]
          ELSE IF s = aud /\ P THEN [counters[s] EXCEPT !.visitors = @ + 1]
          ELSE counters[s]]
  BY <1>2 DEF CommitVisit
<1>6. ASSUME NEW s \in Slots
      PROVE  counters'[s].visitors = IF s = aud /\ P THEN counters[s].visitors + 1 ELSE counters[s].visitors
  <2>1. PICK c, n : c = counters[s] /\ n = counters'[s]
    OBVIOUS
  <2>2. c \in [views : Nat, engaged : Nat, visitors : Nat]
    BY <1>0, <2>1 DEF CountersTyped
  <2>3. n = IF s = s0 THEN [c EXCEPT !.views = @ + 1]
            ELSE IF s = aud /\ P THEN [c EXCEPT !.visitors = @ + 1] ELSE c
    BY <1>5, <2>1
  <2>4. s = s0 => s # aud
    BY <1>4
  <2> QED BY <2>1, <2>2, <2>3, <2>4
<1>7. ASSUME NEW e \in 0 .. LastDay, NEW x \in Visitors, day <= e + Retention,
             IssuedBy(receipts, <<e, Audience, x>>)
      PROVE  IssuedBy(receipts', <<e, Audience, x>>)
  <2>1. IssuedBy(Kept(t), <<e, Audience, x>>)
    BY <1>1, <1>7, LiveKept
  <2> QED BY <1>1, <2>1 DEF IssuedBy
<1>8. CASE ~P
  <2>1. \A s \in Slots : counters'[s].visitors = counters[s].visitors
    BY <1>6, <1>8
  <2> QED BY <1>7, <2>1 DEF CountsFreshVisitor
<1>9. CASE P
  <2>1. PICK k \in keys[t] : k[2] = Audience
    BY <1>2, <1>9
  <2>2. k = <<d, Audience, w>>
    <3>1. keys[t] \subseteq {<<d, g, tx[t].visit.token>>, <<d, Audience, w>>}
      BY <1>0, <1>1, <1>2 DEF VisitKeys, VisitKey, AudienceKey, Key
    <3> QED BY <1>3, <2>1, <3>1
  <2>3. ~IssuedBy(receipts, k)
    BY <1>1, <2>1 DEF OnceInv, InsertSafe, Issued, IssuedBy
  <2>4. IssuedBy(receipts', k)
    <3>1. PICK r : r = [day |-> k[1], scope |-> k[2], token |-> k[3],
                        source |-> tx[t].visit.source, engaged |-> FALSE]
      OBVIOUS
    <3>2. r \in Inserted(t)
      BY <2>1, <3>1 DEF Inserted
    <3>3. r.day = k[1] /\ r.scope = k[2] /\ r.token = k[3]
      BY <3>1
    <3>4. <<r.day, r.scope, r.token>> = k
      BY <2>2, <3>3
    <3> QED BY <1>1, <3>2, <3>4 DEF IssuedBy
  <2>5. day <= d + Retention
    <3>1. day <= d + 1 /\ day \in Nat /\ Retention \in Nat /\ Retention # 0
      BY <1>0, <1>1, <1>2, TrafficAssumptions DEF OnceInv, ClocksNear, TypeOK
    <3> QED BY <1>3, <3>1
  <2>6. \A s \in Slots : counters'[s].visitors = IF s = aud THEN counters[s].visitors + 1
                                                 ELSE counters[s].visitors
    BY <1>6, <1>9
  <2>7. k = <<aud[1], Audience, w>>
    BY <1>4, <2>2
  <2>8. \E s \in Slots, x \in Visitors :
          /\ s[2] = Audience /\ day <= s[1] + Retention
          /\ ~IssuedBy(receipts, <<s[1], Audience, x>>) /\ IssuedBy(receipts', <<s[1], Audience, x>>)
          /\ \A r \in Slots : counters'[r].visitors = IF r = s THEN counters[r].visitors + 1
                                                      ELSE counters[r].visitors
    BY <1>3, <1>4, <2>3, <2>4, <2>5, <2>6, <2>7
  <2> QED BY <1>7, <2>8 DEF CountsFreshVisitor
<1> QED BY <1>8, <1>9

LEMMA EngageVisitors ==
  ASSUME CountersTyped, NEW t \in Tx, Engage(t), NEW s \in Slots
  PROVE  counters'[s].visitors = counters[s].visitors
<1>1. PICK Q, c, n : /\ c = counters[s] /\ n = counters'[s]
                     /\ n = IF Q THEN [c EXCEPT !.engaged = @ + 1] ELSE c
  BY DEF Engage
<1>2. c \in [views : Nat, engaged : Nat, visitors : Nat]
  BY <1>1 DEF CountersTyped
<1> QED BY <1>1, <1>2

LEMMA FreshVisitorStep ==
  ASSUME OnceInv, [Next]_vars
  PROVE  CountsFreshVisitor /\ day <= day' /\ day' \in Nat
<1>0. EngagedInv /\ TypeOK /\ CountersTyped /\ day \in Nat
  BY TrafficAssumptions DEF OnceInv, EngagedInv, KeysInv, TypeOK
<1>1. ASSUME UNCHANGED <<receipts, counters>> PROVE CountsFreshVisitor
  BY <1>1 DEF CountsFreshVisitor
<1>2. ASSUME NEW t \in Tx, Request(t) PROVE UNCHANGED <<receipts, counters, day>>
  BY <1>0, <1>2, ArriveVisit
<1>3. ASSUME NEW t \in Tx,
             \/ CatalogStep(t) /\ UNCHANGED <<traffic, keys, day, history>>
             \/ DeleteArticle(t) \/ LockReaction(t) \/ WriteReaction(t) \/ CountView(t) \/ Rollback(t)
      PROVE  UNCHANGED <<receipts, counters, day>>
  BY <1>0, <1>3, AsideVisit
<1>4. ASSUME NEW t \in Tx, TakeReceipt(t) \/ TakeAudience(t) PROVE UNCHANGED <<receipts, counters, day>>
  BY <1>0, <1>4, TakeAdvances, AdvanceVisit
<1>5. ASSUME NEW t \in Tx, CommitNothing(t) \/ Engage(t) PROVE CountsFreshVisitor /\ day' = day
  <2>1. tx[t].op = "visit" /\ day' = day
    BY <1>0, <1>5, Standing DEF CommitNothing, Engage, At
  <2>2. \A r \in Kept(t) : \E q \in receipts' : <<q.day, q.scope, q.token>> = <<r.day, r.scope, r.token>>
    <3>1. CASE CommitNothing(t)
      BY <3>1 DEF CommitNothing
    <3>2. CASE Engage(t)
      BY <1>0, <3>2, EngageEffect
    <3> QED BY <1>5, <3>1, <3>2
  <2>3. \A s \in Slots : counters'[s].visitors = counters[s].visitors
    <3>1. CASE CommitNothing(t)
      BY <3>1 DEF CommitNothing
    <3>2. CASE Engage(t)
      BY <1>0, <3>2, EngageVisitors
    <3> QED BY <1>5, <3>1, <3>2
  <2>4. ASSUME NEW e \in 0 .. LastDay, NEW x \in Visitors, day <= e + Retention,
               IssuedBy(receipts, <<e, Audience, x>>)
        PROVE  IssuedBy(receipts', <<e, Audience, x>>)
    <3>1. IssuedBy(Kept(t), <<e, Audience, x>>)
      BY <2>1, <2>4, LiveKept
    <3> QED BY <2>2, <3>1 DEF IssuedBy
  <2> QED BY <2>1, <2>3, <2>4 DEF CountsFreshVisitor
<1>6. ASSUME NEW t \in Tx, CommitVisit(t) PROVE CountsFreshVisitor /\ day' = day
  BY <1>0, <1>6, CommitVisitors, CommitCounters
<1>7. CASE Midnight
  <2>1. UNCHANGED <<receipts, counters>> /\ day' = day + 1
    BY <1>7 DEF Midnight, traffic
  <2> QED BY <1>0, <1>1, <2>1
<1>8. CASE UNCHANGED vars
  <2>1. UNCHANGED <<receipts, counters, day>>
    BY <1>8 DEF vars, traffic
  <2> QED BY <1>0, <1>1, <2>1
<1>9. ASSUME day' = day PROVE day <= day' /\ day' \in Nat
  BY <1>0, <1>9
<1> QED BY <1>1, <1>2, <1>3, <1>4, <1>5, <1>6, <1>7, <1>8, <1>9 DEF Next, Step, LoseView

LEMMA InitCounted == Init => ViewsCounted /\ VisitorsCounted
<1> SUFFICES ASSUME Init PROVE ViewsCounted /\ VisitorsCounted
  OBVIOUS
<1>1. seen = {} /\ \A s \in Slots : counters[s].views = 0 /\ counters[s].visitors = 0
  BY DEF Init, Zero
<1>2. ASSUME NEW f, NEW S, IsFiniteSet(S), \A s \in S : f[s] = 0 PROVE SumFunctionOnSet(f, S) = 0
  <2> DEFINE P == {T \in SUBSET S : SumFunctionOnSet(f, T) = 0}
  <2>1. {} \in P
    BY SumEmpty
  <2>2. ASSUME NEW T \in SUBSET S, NEW x \in S, T \in P, x \notin T PROVE T \cup {x} \in P
    BY <1>2, <2>2, SumAdds, FS_Subset
  <2>3. S \in P
    <3> HIDE DEF P
    <3> QED BY <1>2, <2>1, <2>2, FiniteSetsReached
  <2> QED BY <2>3
<1>3. ASSUME NEW d \in 0 .. LastDay, NEW g \in Targets
      PROVE  SumFunctionOnSet(Views(counters, d, g), Line(d, g)) = Cardinality(SeenOf(seen, d, g))
  <2>1. SeenOf(seen, d, g) = {}
    BY <1>1 DEF SeenOf
  <2>2. IsFiniteSet(Line(d, g)) /\ \A s \in Line(d, g) : Views(counters, d, g)[s] = 0
    BY <1>1, LineOfSlots DEF Views
  <2>3. SumFunctionOnSet(Views(counters, d, g), Line(d, g)) = 0
    BY <1>2, <2>2
  <2> QED BY <2>1, <2>3, FS_EmptySet
<1>4. ASSUME NEW d \in 0 .. LastDay
      PROVE  SumFunctionOnSet(VisitorsShown(counters, d), Line(d, Audience)) = 0
  <2>1. IsFiniteSet(Line(d, Audience)) /\ \A s \in Line(d, Audience) : VisitorsShown(counters, d)[s] = 0
    BY <1>1, LineOfSlots DEF VisitorsShown
  <2> QED BY <1>2, <2>1
<1>5. \A d \in 0 .. LastDay : 0 <= Cardinality(Met(receipts, d)) /\ 0 <= Cardinality(Visitors)
  BY MetFinite
<1>6. IsFiniteSet(seen)
  BY <1>1, FS_EmptySet
<1> QED BY <1>3, <1>4, <1>5, <1>6 DEF ViewsCounted, VisitorsCounted

LEMMA CountedShown ==
  ASSUME ViewsCounted, VisitorsCounted
  PROVE  VisitsCountedOnce
<1>1. ASSUME NEW d \in 0 .. LastDay, NEW g \in Targets
      PROVE  LET rows == DayReport(d, g) IN
             SumFunction([s \in DOMAIN rows |-> rows[s].views])
               = Cardinality({s \in seen : s[1] = d /\ s[2] = g})
  <2>1. DayReport(d, g) = [s \in Line(d, g) |-> counters[s]]
    BY DayReportRows
  <2>2. [s \in DOMAIN DayReport(d, g) |-> DayReport(d, g)[s].views] = Views(counters, d, g)
    BY <2>1 DEF Views
  <2>3. DOMAIN Views(counters, d, g) = Line(d, g)
    BY DEF Views
  <2>4. SumFunction(Views(counters, d, g)) = Cardinality(SeenOf(seen, d, g))
    BY <2>3 DEF ViewsCounted, SumFunction
  <2> QED BY <2>2, <2>4 DEF SeenOf
<1>2. ASSUME NEW d \in 0 .. LastDay
      PROVE  LET rows == DayReport(d, Audience) IN
             SumFunction([s \in DOMAIN rows |-> rows[s].visitors]) <= Cardinality(Visitors)
  <2>1. DayReport(d, Audience) = [s \in Line(d, Audience) |-> counters[s]]
    BY DayReportRows
  <2>2. [s \in DOMAIN DayReport(d, Audience) |-> DayReport(d, Audience)[s].visitors]
          = VisitorsShown(counters, d)
    BY <2>1 DEF VisitorsShown
  <2>3. DOMAIN VisitorsShown(counters, d) = Line(d, Audience)
    BY DEF VisitorsShown
  <2>4. SumFunction(VisitorsShown(counters, d)) <= Cardinality(Visitors)
    BY <2>3 DEF VisitorsCounted, SumFunction
  <2> QED BY <2>2, <2>4
<1> QED BY <1>1, <1>2 DEF VisitsCountedOnce

(* record_visit: every visit token is counted once a day, however often its
   view is sent, at once or after midnight, and a visitor once a day: so the
   day's report shows. *)
THEOREM VisitsAlwaysCountedOnce == Spec => []VisitsCountedOnce
<1> DEFINE Inv == OnceInv /\ ViewsCounted /\ VisitorsCounted
<1>1. Init => Inv
  BY InitOnce, InitCounted
<1>2. Inv /\ [Next]_vars => Inv'
  <2> SUFFICES ASSUME Inv, [Next]_vars PROVE Inv'
    OBVIOUS
  <2>1. OnceInv'
    BY StepOnce
  <2>2. TypeOK /\ CountersTyped /\ CountersTyped'
    BY <2>1 DEF OnceInv, EngagedInv, KeysInv
  <2>3. ViewsCounted'
    BY <2>2, FreshStep, ViewsStep
  <2>4. VisitorsCounted'
    BY <2>2, FreshVisitorStep, VisitorsStep
  <2> QED BY <2>1, <2>3, <2>4
<1>3. Inv => VisitsCountedOnce
  BY CountedShown
<1> QED BY <1>1, <1>2, <1>3, PTL DEF Spec

-----------------------------------------------------------------------------
(* The voters with a reaction *)
Reacted(a) == {v \in Voters : reactions[<<a, v>>] # None}

ReactedWithinChanges ==
  \A a \in Articles : IsFiniteSet(Reacted(a)) /\ Cardinality(Reacted(a)) <= changes[a]

LEMMA ReactedKept ==
  ASSUME ReactedWithinChanges, UNCHANGED <<reactions, changes>>
  PROVE  ReactedWithinChanges'
BY DEF ReactedWithinChanges, Reacted

LEMMA WriteReacted ==
  ASSUME ReactionsInv, ReactedWithinChanges, NEW t \in Tx, WriteReaction(t), ~Rollback(t)
  PROVE  ReactedWithinChanges'
<1>0. TypeOK /\ tx[t].op = "react"
  BY Standing DEF ReactionsInv, KeysInv, WriteReaction, At
<1>1. PICK v, kind, a, read :
        v = tx[t].new[1] /\ kind = tx[t].new[2] /\ a = tx[t].id /\ read = tx[t].read
  OBVIOUS
<1>2. a \in Articles /\ v \in Voters
  BY <1>0, <1>1, Standing DEF Reacting
<1>3. /\ reactions' = IF kind = read THEN reactions ELSE [reactions EXCEPT ![<<a, v>>] = kind]
      /\ changes' = [changes EXCEPT ![a] = IF reactions'[<<a, v>>] # reactions[<<a, v>>] THEN @ + 1 ELSE @]
  BY <1>1 DEF WriteReaction, Reaction
<1>4. reactions = [r \in Articles \X Voters |-> reactions[r]] /\ changes \in [Articles -> Nat]
  BY DEF ReactionsInv
<1>5. CASE reactions' = reactions
  <2>1. changes' = changes
    BY <1>3, <1>4, <1>5
  <2> QED BY <1>5, <2>1, ReactedKept
<1>6. CASE reactions' # reactions
  <2>1. /\ \A b \in Articles, w \in Voters : <<b, w>> # <<a, v>> => reactions'[<<b, w>>] = reactions[<<b, w>>]
        /\ reactions'[<<a, v>>] # reactions[<<a, v>>]
    <3>1. reactions' = [reactions EXCEPT ![<<a, v>>] = kind]
      BY <1>3, <1>6
    <3>2. <<a, v>> \in Articles \X Voters
      BY <1>2
    <3>3. reactions'[<<a, v>>] = kind
      BY <1>4, <3>1, <3>2
    <3>4. kind # reactions[<<a, v>>]
      BY <1>4, <1>6, <3>1, <3>2
    <3> QED BY <1>4, <3>1, <3>2, <3>3, <3>4
  <2>2. changes'[a] = changes[a] + 1 /\ changes[a] \in Nat /\ \A b \in Articles \ {a} : changes'[b] = changes[b]
    BY <1>2, <1>3, <1>4, <2>1
  <2>3. ASSUME NEW b \in Articles \ {a}
        PROVE  IsFiniteSet(Reacted(b)') /\ Cardinality(Reacted(b)') <= changes'[b]
    <3>1. \A w \in Voters : reactions'[<<b, w>>] = reactions[<<b, w>>]
      BY <2>1
    <3>2. Reacted(b)' = Reacted(b)
      BY <3>1 DEF Reacted
    <3> QED BY <2>2, <3>2 DEF ReactedWithinChanges
  <2>4. IsFiniteSet(Reacted(a)') /\ Cardinality(Reacted(a)') <= changes'[a]
    <3>1. PICK P, Q : P = Reacted(a) /\ Q = Reacted(a)'
      OBVIOUS
    <3>2. Q \subseteq P \cup {v}
      BY <1>2, <2>1, <3>1 DEF Reacted
    <3>3. IsFiniteSet(P) /\ Cardinality(P) <= changes[a]
      BY <1>2, <3>1 DEF ReactedWithinChanges
    <3>4. /\ IsFiniteSet(P \cup {v})
          /\ Cardinality(P \cup {v}) = IF v \in P THEN Cardinality(P) ELSE Cardinality(P) + 1
      BY <3>3, FS_AddElement
    <3>5. IsFiniteSet(Q) /\ Cardinality(Q) <= Cardinality(P \cup {v})
      BY <3>2, <3>4, FS_Subset
    <3>6. Cardinality(Q) \in Nat /\ Cardinality(P) \in Nat
      BY <3>3, <3>5, FS_CardinalityType
    <3>7. Cardinality(Q) <= changes[a] + 1
      BY <2>2, <3>3, <3>4, <3>5, <3>6
    <3> QED BY <2>2, <3>1, <3>5, <3>7
  <2> QED BY <2>3, <2>4 DEF ReactedWithinChanges
<1> QED BY <1>5, <1>6

LEMMA DeleteReacted ==
  ASSUME ReactionsInv, ReactedWithinChanges, NEW t \in Tx, DeleteArticle(t)
  PROVE  ReactedWithinChanges'
<1>1. PICK a : a = tx[t].id
  OBVIOUS
<1>2. /\ changes' = changes
      /\ reactions' = [r \in Articles \X Voters |-> IF r[1] = a THEN None ELSE reactions[r]]
  BY <1>1 DEF DeleteArticle, history
<1>3. ASSUME NEW b \in Articles
      PROVE  IsFiniteSet(Reacted(b)') /\ Cardinality(Reacted(b)') <= changes'[b]
  <2>1. PICK P, Q : P = Reacted(b) /\ Q = Reacted(b)'
    OBVIOUS
  <2>2. Q \subseteq P
    BY <1>2, <2>1 DEF Reacted
  <2>3. IsFiniteSet(P) /\ Cardinality(P) <= changes[b] /\ changes[b] \in Nat
    BY <2>1 DEF ReactedWithinChanges, ReactionsInv
  <2>4. IsFiniteSet(Q) /\ Cardinality(Q) <= Cardinality(P)
    BY <2>2, <2>3, FS_Subset
  <2>5. Cardinality(Q) \in Nat /\ Cardinality(P) \in Nat
    BY <2>3, <2>4, FS_CardinalityType
  <2>6. Cardinality(Q) <= changes[b]
    BY <2>3, <2>4, <2>5
  <2> QED BY <1>2, <2>1, <2>4, <2>6
<1> QED BY <1>3 DEF ReactedWithinChanges

LEMMA StepReacted ==
  ASSUME ReactionsInv, ReactedWithinChanges, [Next]_vars
  PROVE  ReactedWithinChanges'
<1>0. TypeOK
  BY DEF ReactionsInv, KeysInv
<1>1. ASSUME NEW t \in Tx, Request(t) PROVE UNCHANGED <<reactions, changes>>
  BY <1>0, <1>1, RequestArrives DEF traffic, history
<1>2. ASSUME NEW t \in Tx, UNCHANGED <<traffic, keys, day, history>> PROVE UNCHANGED <<reactions, changes>>
  BY <1>2 DEF traffic, history
<1>3. ASSUME NEW t \in Tx, LockReaction(t) \/ CountView(t) \/ TakeReceipt(t) \/ TakeAudience(t)
                             \/ CommitVisit(t) \/ CommitNothing(t) \/ Engage(t) \/ Rollback(t)
      PROVE  UNCHANGED <<reactions, changes>>
  BY <1>3 DEF LockReaction, CountView, TakeReceipt, TakeAudience, Advance, CommitVisit, CommitNothing,
              Engage, Rollback, traffic, history
<1>4. CASE Midnight \/ UNCHANGED vars
  BY <1>4, ReactedKept DEF Midnight, vars, traffic, history
<1>5. ASSUME NEW t \in Tx, WriteReaction(t) PROVE ReactedWithinChanges'
  <2>1. CASE Rollback(t)
    BY <1>3, <2>1, ReactedKept
  <2> QED BY <1>5, <2>1, WriteReacted
<1> QED BY <1>1, <1>2, <1>3, <1>4, <1>5, DeleteReacted, ReactedKept DEF Next, Step, LoseView

(* An article's reactions by kind are its voters with a reaction. *)
LEMMA CountsWithinReacted ==
  ASSUME ReactionsInv, ReactedWithinChanges, NEW a \in Articles
  PROVE  ReactionTotal(ReactionCounts(a)) \in Nat /\ ReactionTotal(ReactionCounts(a)) <= changes[a]
<1>0. PICK r, f, V, part :
        /\ r = [v \in Voters |-> reactions[<<a, v>>]] /\ f = ReactionCounts(a)
        /\ V = {v \in Voters : r[v] \in Kinds} /\ part = [k \in Kinds |-> {v \in V : r[v] = k}]
  OBVIOUS
<1>1. IsFiniteSet(Reacted(a)) /\ Cardinality(Reacted(a)) <= changes[a] /\ changes[a] \in Nat
  BY DEF ReactedWithinChanges, ReactionsInv
<1>2. V \subseteq Reacted(a)
  BY <1>0, TrafficAssumptions DEF Reacted
<1>3. IsFiniteSet(V) /\ Cardinality(V) <= Cardinality(Reacted(a))
  BY <1>1, <1>2, FS_Subset
<1>4. DOMAIN f = Kinds /\ \A k \in Kinds : f[k] = Cardinality(part[k])
  <2>1. \A k \in Kinds : part[k] = {v \in Voters : reactions[<<a, v>>] = k}
    BY <1>0
  <2> QED BY <1>0, <2>1 DEF ReactionCounts
<1>5. ReactionTotal(f) = SumFunctionOnSet(f, Kinds)
  BY <1>4 DEF ReactionTotal, SumFunction
<1>6. SumFunctionOnSet(f, Kinds) = Cardinality(V)
  <2>1. \A k \in Kinds : part[k] = {v \in V : r[v] = k}
    BY <1>0
  <2>2. IsFiniteSet(Kinds) /\ \A v \in V : r[v] \in Kinds
    BY <1>0, TrafficAssumptions
  <2> QED BY <1>3, <1>4, <2>1, <2>2, SumOfParts
<1>7. Cardinality(V) \in Nat /\ Cardinality(Reacted(a)) \in Nat
  BY <1>1, <1>3, FS_CardinalityType
<1>8. ReactionTotal(f) \in Nat /\ ReactionTotal(f) <= changes[a]
  BY <1>1, <1>3, <1>5, <1>6, <1>7
<1> QED BY <1>0, <1>8

LEMMA CountedWithinChanges ==
  ASSUME ReactionsInv, ReactedWithinChanges
  PROVE  ReactionsCounted
<1> DEFINE total == [a \in StatsArticles |-> ReactionTotal(ArticleStats(a).reactions)]
<1>1. \A a \in Articles : /\ ReactionTotal(ReactionCounts(a)) \in Nat
                          /\ ReactionTotal(ReactionCounts(a)) <= changes[a]
  BY CountsWithinReacted
<1>2. \A a \in Articles : PublicStats(a).reactions = ReactionCounts(a) /\ ArticleStats(a).reactions = ReactionCounts(a)
  BY DEF PublicStats, ArticleStats
<1>3. ReactionsReported /\ changes \in [Articles -> Nat] /\ IsFiniteSet(Articles)
  BY CatalogAssumptions DEF ReactionsInv
<1>4. StatsArticles \in SUBSET Articles
  BY DEF StatsArticles
<1>5. /\ DOMAIN total = StatsArticles
      /\ \A a \in StatsArticles : total[a] \in Nat /\ total[a] <= changes[a]
  BY <1>1, <1>2, <1>4
<1>6. SumFunction(total) <= SumFunction(changes)
  <2>1. SumFunction(total) = SumFunctionOnSet(total, StatsArticles)
    BY <1>5 DEF SumFunction
  <2>2. SumFunction(changes) = SumFunctionOnSet(changes, Articles)
    BY <1>3 DEF SumFunction
  <2>3. \A a \in Articles : changes[a] \in Nat
    BY <1>3
  <2> HIDE DEF total
  <2> QED BY <1>3, <1>4, <1>5, <2>1, <2>2, <2>3, SumGrows
<1>7. StatsTotals.reactions = SumFunction(total)
  BY DEF StatsTotals
<1> QED BY <1>1, <1>2, <1>3, <1>6, <1>7 DEF ReactionsCounted, ReactionsReported

(* set_reaction: the report counts a reaction event exactly when the voter's
   stored reaction changed, whatever requests of the same voter overlap,
   fail or repeat; the public statistics and the admin's totals never show
   more reactions than that. *)
THEOREM ReactionsAlwaysCounted == Spec => []ReactionsCounted
<1> DEFINE Inv == ReactionsInv /\ ReactedWithinChanges
<1>1. Init => Inv
  <2> SUFFICES ASSUME Init PROVE ReactedWithinChanges
    BY InitReactions
  <2>1. \A a \in Articles : Reacted(a) = {} /\ changes[a] = 0
    BY DEF Init, Reacted
  <2> QED BY <2>1, FS_EmptySet DEF ReactedWithinChanges
<1>2. Inv /\ [Next]_vars => Inv'
  BY StepReactions, StepReacted
<1>3. Inv => ReactionsCounted
  BY CountedWithinChanges
<1> QED BY <1>1, <1>2, <1>3, PTL DEF Spec
=============================================================================
