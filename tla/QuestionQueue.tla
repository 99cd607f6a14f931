---------------------------- MODULE QuestionQueue ----------------------------
(***************************************************************************)
(* The questions of the competency matrix from suggestion to publication:  *)
(* the queue of suggested questions with its daily quota and its import,   *)
(* the conversion of a queued question into a question of the matrix, and  *)
(* the publication of the matrix's questions.  A request is one READ       *)
(* COMMITTED transaction, a member of Tx, advancing one statement at a     *)
(* time; the quota lives in Valkey and is not part of the transaction.     *)
(*                                                                         *)
(* All matrix questions stand in the one sheet PublicSheet: where they     *)
(* stand is the matter of MatrixStructure.  A question's eight publication *)
(* fields are one flag, `ready`.                                           *)
(***************************************************************************)
EXTENDS Naturals, FiniteSets, FiniteSetsExt, QuestionImport

CONSTANTS Tx,            \* concurrent requests
          Questions,     \* ids of queued questions
          Items,         \* ids of matrix questions
          Texts,         \* question texts
          Resources,     \* ids of external resources
          StartText,     \* the question that is published at first
          PublicSheet,   \* the key of the sheet
          Clients,       \* client identifiers of anonymous suggestions
          Limit,         \* anonymous_daily_limit
          Files,         \* the import files an instance tries
          Content,       \* the contents of matrix questions an instance tries
          Ops,           \* the operations an instance allows
          LastDay,       \* bound: the calendar stops here
          MaxRequests    \* bound: requests in a behaviour

VARIABLES queue,      \* committed: the queued questions
          items,      \* committed: the matrix questions
          resources,  \* committed: the external resources
          quota,      \* Valkey: the counter of each client and day, 0 when there is no key
          day, late,  \* the UTC day, and whether its last second has begun
          locks,      \* the holder of each row lock
          tx,         \* private state of each transaction
          left,       \* requests still to come
          counted,    \* site analytics: suggestions counted
          fate,       \* history: what committed requests did to each queued question
          rivals,     \* history: suggestions in flight when a question was checked
          accepted    \* history: suggestions of each client and day the quota let
                      \* through before the day's last second

vars == <<queue, items, resources, quota, day, late, locks, tx, left, counted, fate, rivals, accepted>>
db == <<queue, items, resources, counted, fate>>
history == <<rivals, accepted>>

Days == 0 .. LastDay
AllOps == {"suggest", "addQueued", "import", "convert", "reject",
           "create", "update", "delete", "publish", "unpublish"}

(* The external resources a written question names: the ones it attaches by
   their id, and the ones it creates *)
Attachments == [attach : SUBSET Resources, create : SUBSET Resources]

ContentType ==
  [text : Texts, status : {"Draft", "Published"}, ready : BOOLEAN, links : Attachments]

ASSUME QueueAssumptions ==
  /\ Fingerprint \in [Texts -> Texts] /\ StartText \in Texts
  /\ Limit \in Nat \ {0} /\ LastDay \in Nat /\ MaxRequests \in Nat
  /\ Ops \subseteq AllOps /\ Content \subseteq ContentType
  /\ \A f \in Files : f.rows \in Seq(Range(f.rows))
  /\ None \notin Questions \cup Items \cup Tx /\ None \notin Nat /\ None \notin Content
  /\ None \notin [text : Texts, sheet : {PublicSheet, None}]

(* No transaction *)
Idle ==
  [op |-> "none", pc |-> "idle",
   may |-> FALSE,      \* PublicationAccess.allowed
   at |-> 0,           \* the time a publication by this request is dated
   q |-> None, i |-> None,
   params |-> None,    \* the question to queue
   new |-> None,       \* the content the request writes
   file |-> None, preview |-> <<>>, keys |-> {},   \* an import, its preview and the
                                                   \* queue it was made for
   rows |-> <<>>,      \* the questions an import queues
   client |-> None, day |-> 0, late |-> FALSE]

Published(i) == items[i] # None /\ items[i].status = "Published"

(* is_available *)
Available(i) == Published(i) /\ items[i].ready

PublicList == {i \in Items : Available(i)}

(* A public question: its content and the resources it links to *)
PublicDetail(i) == [text |-> items[i].text, resources |-> items[i].resources]

(* What the public reads: list_items, get_item_by_slug and the SEO pages *)
PublicView == [i \in PublicList |-> PublicDetail(i)]

(* list_sheets: the sheets with a published question *)
PublicSheets == IF \E i \in Items : Published(i) THEN {PublicSheet} ELSE {}

QueuedKeys == {KeyOf(queue[q]) : q \in {q \in Questions : queue[q] # None}}

(* Deviation: texts are compared as they are written *)
SuggestionExistsVerbatim(params) ==
  \/ \E q \in Questions : queue[q] = params
  \/ \E i \in Items : items[i] # None /\ params = [text |-> items[i].text, sheet |-> PublicSheet]

(* question_suggestion_exists, one SELECT *)
SuggestionExists(params) ==
  \/ KeyOf(params) \in QueuedKeys
  \/ \E i \in Items : items[i] # None /\ KeyOf(params) = <<PublicSheet, Fingerprint[items[i].text]>>

Init ==
  /\ queue = [q \in Questions |-> None]
  /\ \E i \in Items : items =
       [j \in Items |-> IF j = i THEN [text |-> StartText, status |-> "Published",
                                       ready |-> TRUE, at |-> 0, resources |-> {}]
                        ELSE None]
  /\ resources = {}
  /\ quota = [k \in Clients \X Days |-> 0] /\ day = 0 /\ late = FALSE
  /\ locks = [r \in Questions \cup Items |-> None]
  /\ tx = [t \in Tx |-> Idle] /\ left = MaxRequests /\ counted = 0
  /\ fate = [q \in Questions |-> <<>>] /\ rivals = [q \in Questions |-> {}]
  /\ accepted = [k \in Clients \X Days |-> 0]

-----------------------------------------------------------------------------
(* Transactions *)

At(t, pc) == tx[t].pc = pc
Now == MaxRequests - left + 1

Begin(t, rec) ==
  /\ rec.op \in Ops
  /\ left' = left - 1
  /\ tx' = [tx EXCEPT ![t] = rec]
  /\ UNCHANGED <<db, quota, day, late, locks, history>>

Goto(t, pc) ==
  /\ tx' = [tx EXCEPT ![t].pc = pc]
  /\ UNCHANGED <<db, quota, day, late, left>>

Release(t) ==
  /\ tx' = [tx EXCEPT ![t] = Idle]
  /\ locks' = [r \in DOMAIN locks |-> IF locks[r] = t THEN None ELSE locks[r]]

Fail(t) == Release(t) /\ UNCHANGED <<db, quota, day, late, left, history>>

End(t) == Release(t) /\ UNCHANGED <<quota, day, late, left, history>>

(* A new id: neither in the database nor used by a request in flight, nor
   ever used before. *)
Fresh(q) == queue[q] = None /\ fate[q] = <<>> /\ \A t \in Tx : tx[t].q # q
FreshItem(i) == items[i] = None /\ \A t \in Tx : tx[t].i # i
FreshResources(new) ==
  /\ new.links.create \cap resources = {}
  /\ \A t \in Tx : tx[t].new # None => new.links.create \cap tx[t].new.links.create = {}

-----------------------------------------------------------------------------
(* Suggestions *)

(* A question as a form sends it *)
Suggestion(text, sheet) == [text |-> text, sheet |-> sheet]

(* What the limit counts by: the client its headers name, and the day of the
   request's own clock reading *)
LimitParams(rec, c) == [rec EXCEPT !.client = c, !.day = day, !.late = late]

(* The public form *)
BeginSuggest(t, q, x, c) ==
  /\ Fresh(q)
  /\ Begin(t, LimitParams([Idle EXCEPT !.op = "suggest", !.pc = "sheets", !.q = q,
                                       !.params = Suggestion(x, PublicSheet)], c))

(* The moderator's form: neither the sheet, nor duplicates, nor the quota
   is checked. *)
BeginAddQueued(t, q, x) ==
  /\ Fresh(q)
  /\ Begin(t, [Idle EXCEPT !.op = "addQueued", !.pc = "commit", !.q = q,
                           !.params = Suggestion(x, None)])

CheckSheet(t) ==
  /\ At(t, "sheets")
  /\ \/ tx[t].params.sheet \notin PublicSheets /\ Fail(t)
     \/ /\ tx[t].params.sheet \in PublicSheets
        /\ Goto(t, "duplicates") /\ UNCHANGED <<locks, history>>

(* No lock and no constraint keeps the answer true until the INSERT. *)
CheckDuplicate(t) ==
  /\ At(t, "duplicates")
  /\ \/ SuggestionExists(tx[t].params) /\ Fail(t)
     \/ /\ ~SuggestionExists(tx[t].params)
        /\ Goto(t, "quota")
        /\ rivals' = [rivals EXCEPT ![tx[t].q] = {tx[u].q : u \in {v \in Tx \ {t} : tx[v].op = "suggest"}}]
        /\ UNCHANGED <<locks, accepted>>

(* Deviation: the counter is compared as it was before the INCR *)
WithinLimitBefore(value) == value - 1 <= Limit

WithinLimit(value) == value <= Limit

(* The key of a day is gone some time in the day's last second. *)
MayExpire(d, expired) == (expired => late \/ day > d) /\ (day > d => expired)

(* INCR, and EXPIRE when the key is new.  The time to live is the number of
   whole seconds from the request's clock reading to midnight: in the last
   second it is 0, which deletes the key. *)
ConsumeQuota(t) ==
  /\ At(t, "quota")
  /\ \E expired \in BOOLEAN :
       LET key == <<tx[t].client, tx[t].day>>
           value == IF expired THEN 1 ELSE quota[key] + 1
           inTime == ~late /\ day = tx[t].day IN
       /\ MayExpire(tx[t].day, expired)
       /\ quota' = [quota EXCEPT ![key] = IF value = 1 /\ tx[t].late THEN 0 ELSE value]
       /\ \/ /\ WithinLimit(value)
             /\ tx' = [tx EXCEPT ![t].pc = "commit"]
             /\ accepted' = IF inTime THEN [accepted EXCEPT ![key] = @ + 1] ELSE accepted
             /\ UNCHANGED locks
          \/ /\ ~WithinLimit(value)
             /\ Release(t)
             /\ UNCHANGED accepted
  /\ UNCHANGED <<db, day, late, left, rivals>>

(* The day's last second, and midnight *)
LastSecond ==
  /\ ~late /\ day < LastDay /\ late' = TRUE
  /\ UNCHANGED <<db, quota, day, locks, tx, left, history>>

Midnight ==
  /\ late
  /\ day' = day + 1 /\ late' = FALSE
  /\ UNCHANGED <<db, quota, locks, tx, left, history>>

-----------------------------------------------------------------------------
(* Import *)

(* preview_question_queue_import marks what the file would duplicate in the
   queue.  The moderator then looks at the preview: an import is here one
   member of Tx from the preview to the end of the second request. *)
PreviewImport(t, f) ==
  /\ Preview(f) # Invalid
  /\ Begin(t, [Idle EXCEPT !.op = "import", !.pc = "shown", !.file = f, !.keys = QueuedKeys,
                           !.preview = WithDuplicateWarnings(Preview(f), QueuedKeys)])

(* The rows a confirmation may select: any of those shown, one perhaps twice *)
Selections(preview) ==
  LET numbers == {preview[k].number : k \in DOMAIN preview} IN
  {SetToSeq(S) : S \in SUBSET numbers} \cup {<<n, n>> : n \in numbers}

(* import_question_queue gets the file again and parses it again; it does
   not look at the queue again. *)
ConfirmImport(t, numbers) ==
  /\ At(t, "shown")
  /\ LET rows == SelectedQuestions(Preview(tx[t].file), numbers) IN
     \/ rows = Invalid /\ Fail(t)
     \/ /\ rows # Invalid
        /\ tx' = [tx EXCEPT ![t] = [Idle EXCEPT !.op = "import", !.pc = "commit",
                                                !.rows = rows]]
        /\ UNCHANGED <<db, quota, day, late, locks, left, history>>

-----------------------------------------------------------------------------
(* Decisions about a queued question *)

(* ensure_allowed, ensure_public_ready *)
Allowed(t, statuses) == tx[t].may \/ "Published" \notin statuses
PublicReady(new) == new.status = "Published" => new.ready

(* all_resources_exists_by_ids *)
ResourcesExist(new) == new.links.attach \subseteq resources

BeginConvert(t, q, i, new, may) ==
  /\ fate[q] # <<>> /\ FreshItem(i) /\ FreshResources(new)
  /\ may \/ new.status # "Published"
  /\ Begin(t, [Idle EXCEPT !.op = "convert", !.pc = "lock", !.q = q, !.i = i,
                           !.new = new, !.may = may, !.at = Now])

BeginReject(t, q) ==
  /\ fate[q] # <<>>
  /\ Begin(t, [Idle EXCEPT !.op = "reject", !.pc = "lock", !.q = q])

(* Deviation: get_queued_question(lock=False) *)
ReadQueued(t) ==
  /\ At(t, "lock") /\ tx[t].op \in {"convert", "reject"}
  /\ \/ queue[tx[t].q] = None /\ Fail(t)
     \/ queue[tx[t].q] # None /\ Goto(t, "commit") /\ UNCHANGED <<locks, history>>

(* create_item_from_queue refuses a question that names a resource that does
   not exist or that is to be published and not ready. *)
Unacceptable(new) == ~ResourcesExist(new) \/ ~PublicReady(new)

(* get_queued_question(lock=True), then the checks of the new question *)
LockQueued(t) ==
  /\ At(t, "lock") /\ tx[t].op \in {"convert", "reject"}
  /\ LET q == tx[t].q IN
     /\ locks[q] = None
     /\ \/ queue[q] = None /\ Fail(t)
        \/ queue[q] # None /\ tx[t].op = "convert" /\ Unacceptable(tx[t].new) /\ Fail(t)
        \/ /\ queue[q] # None /\ (tx[t].op = "convert" => ~Unacceptable(tx[t].new))
           /\ locks' = [locks EXCEPT ![q] = t]
           /\ Goto(t, "commit") /\ UNCHANGED history

-----------------------------------------------------------------------------
(* Questions of the matrix *)

BeginCreate(t, i, new, may) ==
  /\ FreshItem(i) /\ FreshResources(new)
  /\ may \/ new.status # "Published"
  /\ Begin(t, [Idle EXCEPT !.op = "create", !.pc = "resources", !.i = i, !.new = new, !.may = may, !.at = Now])

BeginUpdate(t, i, new, may) ==
  /\ FreshResources(new)
  /\ Begin(t, [Idle EXCEPT !.op = "update", !.pc = "resources", !.i = i, !.new = new, !.may = may, !.at = Now])

(* get_resources_by_ids: no lock keeps the resources.  update_item goes on
   to lock the question, create_item to check that it may be published. *)
CheckResources(t) ==
  /\ At(t, "resources")
  /\ LET refused == \/ ~ResourcesExist(tx[t].new)
                    \/ tx[t].op = "create" /\ ~PublicReady(tx[t].new) IN
     \/ refused /\ Fail(t)
     \/ /\ ~refused
        /\ Goto(t, IF tx[t].op = "create" THEN "commit" ELSE "lock")
        /\ UNCHANGED <<locks, history>>

BeginDelete(t, i, may) ==
  Begin(t, [Idle EXCEPT !.op = "delete", !.pc = "lock", !.i = i, !.may = may])

(* switch_item_publish_status needs the permission in both directions; only
   the way to PUBLISHED locks the row. *)
BeginPublish(t, i) ==
  Begin(t, [Idle EXCEPT !.op = "publish", !.pc = "lock", !.i = i, !.may = TRUE, !.at = Now])
BeginUnpublish(t, i) ==
  Begin(t, [Idle EXCEPT !.op = "unpublish", !.pc = "read", !.i = i, !.may = TRUE])

(* The checks of update_item, delete_item and switch_item_publish_status
   against the row they read *)
Refused(t) ==
  LET x == tx[t]  old == items[x.i] IN
  old # None =>
    \/ x.op = "update" /\ (~Allowed(t, {old.status, x.new.status}) \/ ~PublicReady(x.new))
    \/ x.op = "delete" /\ ~Allowed(t, {old.status})
    \/ x.op = "publish" /\ ~old.ready

(* Deviation: get_competency_matrix_item(lock=False) *)
ReadItem(t) ==
  /\ At(t, "lock") /\ tx[t].op \in {"update", "delete", "publish"}
  /\ \/ Refused(t) /\ Fail(t)
     \/ ~Refused(t) /\ Goto(t, "write") /\ UNCHANGED <<locks, history>>

(* get_competency_matrix_item(lock=True) *)
LockItem(t) ==
  /\ At(t, "lock") /\ tx[t].op \in {"update", "delete", "publish"}
  /\ locks[tx[t].i] = None
  /\ \/ Refused(t) /\ Fail(t)
     \/ /\ ~Refused(t)
        /\ locks' = [locks EXCEPT ![tx[t].i] = t]
        /\ Goto(t, "commit") /\ UNCHANGED history

(* The way to DRAFT reads the row without a lock and sends an UPDATE only
   when the status it read differs. *)
ReadStatus(t) ==
  /\ At(t, "read")
  /\ \/ items[tx[t].i] = None /\ Fail(t)
     \/ /\ items[tx[t].i] # None
        /\ Goto(t, IF Published(tx[t].i) THEN "write" ELSE "nothing")
        /\ UNCHANGED <<locks, history>>

(* The UPDATE waits for the row's lock; no row is left when it is deleted. *)
WriteItem(t) ==
  /\ At(t, "write") /\ locks[tx[t].i] = None
  /\ \/ items[tx[t].i] = None /\ Fail(t)
     \/ /\ items[tx[t].i] # None
        /\ locks' = [locks EXCEPT ![tx[t].i] = t]
        /\ Goto(t, "commit") /\ UNCHANGED history

-----------------------------------------------------------------------------
(* Deviation: every publication is dated *)
LastPublishedAt(status, at, now) == IF status = "Published" THEN now ELSE at

(* _ensure_first_published_at *)
FirstPublishedAt(status, at, now) == IF status = "Published" /\ at = None THEN now ELSE at

(* to_item: the resources of the written question *)
Attached(new) == new.links.attach \cup new.links.create

(* The row an item operation leaves.  update_from_domain_schema never
   resets published_at; the links to resources are replaced. *)
Written(x, old) ==
  CASE x.op \in {"create", "convert"} ->
         [text |-> x.new.text, status |-> x.new.status, ready |-> x.new.ready,
          resources |-> Attached(x.new), at |-> FirstPublishedAt(x.new.status, None, x.at)]
    [] x.op = "update" ->
         [old EXCEPT !.text = x.new.text, !.status = x.new.status, !.ready = x.new.ready,
                     !.resources = Attached(x.new), !.at = FirstPublishedAt(x.new.status, @, x.at)]
    [] x.op = "publish" -> [old EXCEPT !.status = "Published",
                                       !.at = FirstPublishedAt("Published", @, x.at)]
    [] x.op = "unpublish" -> [old EXCEPT !.status = "Draft"]
    [] x.op = "delete" -> None

(* _build_resource_links merges every resource of the question into its
   table: a new one is inserted, one that was read is written as it was
   read, and none is ever changed or deleted. *)
Merged(x) == IF x.new = None THEN resources ELSE resources \cup Attached(x.new)

CommitItem(t) ==
  /\ At(t, "commit") /\ tx[t].op \in {"create", "update", "delete", "publish", "unpublish"}
  /\ items' = [items EXCEPT ![tx[t].i] = Written(tx[t], @)]
  /\ resources' = Merged(tx[t])
  /\ End(t) /\ UNCHANGED <<queue, counted, fate>>

CommitUnchanged(t) == At(t, "nothing") /\ Fail(t)

(* create_queued_question also counts the suggestion in the site analytics. *)
CommitQueued(t) ==
  /\ At(t, "commit") /\ tx[t].op \in {"suggest", "addQueued"}
  /\ queue' = [queue EXCEPT ![tx[t].q] = tx[t].params]
  /\ counted' = counted + 1
  /\ fate' = [fate EXCEPT ![tx[t].q] = <<tx[t].op>>]
  /\ End(t) /\ UNCHANGED <<items, resources>>

(* All rows of an import are queued, or none. *)
CommitImport(t) ==
  /\ At(t, "commit") /\ tx[t].op = "import"
  /\ \E ids \in Injection(DOMAIN tx[t].rows, Questions) :
       /\ \A q \in Range(ids) : Fresh(q)
       /\ queue' = [q \in Questions |->
                      IF q \in Range(ids)
                      THEN tx[t].rows[CHOOSE k \in DOMAIN ids : ids[k] = q] ELSE queue[q]]
       /\ fate' = [q \in Questions |-> IF q \in Range(ids) THEN <<"import">> ELSE fate[q]]
  /\ End(t) /\ UNCHANGED <<items, resources, counted>>

CommitDecision(t) ==
  /\ At(t, "commit") /\ tx[t].op \in {"convert", "reject"}
  /\ LET x == tx[t] IN
     /\ queue' = [queue EXCEPT ![x.q] = None]
     /\ items' = IF x.op = "convert" THEN [items EXCEPT ![x.i] = Written(x, None)] ELSE items
     /\ resources' = Merged(x)
     /\ fate' = [fate EXCEPT ![x.q] = Append(@, x.op)]
  /\ End(t) /\ UNCHANGED counted

Step(t) ==
  \/ CheckSheet(t) \/ CheckDuplicate(t) \/ ConsumeQuota(t) \/ LockQueued(t)
  \/ \E numbers \in Selections(tx[t].preview) : ConfirmImport(t, numbers)
  \/ CheckResources(t) \/ LockItem(t) \/ ReadStatus(t) \/ WriteItem(t)
  \/ CommitItem(t) \/ CommitUnchanged(t) \/ CommitQueued(t) \/ CommitImport(t)
  \/ CommitDecision(t)

Request(t) ==
  /\ At(t, "idle") /\ left > 0
  /\ \/ \E q \in Questions, x \in Texts :
          BeginAddQueued(t, q, x) \/ \E c \in Clients : BeginSuggest(t, q, x, c)
     \/ \E f \in Files : PreviewImport(t, f)
     \/ \E q \in Questions : BeginReject(t, q)
     \/ \E i \in Items, new \in Content, may \in BOOLEAN :
          \/ BeginCreate(t, i, new, may) \/ BeginUpdate(t, i, new, may)
          \/ \E q \in Questions : BeginConvert(t, q, i, new, may)
     \/ \E i \in Items, may \in BOOLEAN : BeginDelete(t, i, may)
     \/ \E i \in Items : BeginPublish(t, i) \/ BeginUnpublish(t, i)

Next ==
  \/ \E t \in Tx : Request(t) \/ Step(t)
  \/ LastSecond \/ Midnight

Spec == Init /\ [][Next]_vars
-----------------------------------------------------------------------------
(* get_queued_question(lock=True): a queued question meets one decision.
   It stands in the queue until then, becomes at most one question of the
   matrix, and is never both. *)
OneDecision ==
  \A q \in Questions :
    /\ Len(fate[q]) <= 2
    /\ queue[q] # None <=> Len(fate[q]) = 1

(* question_suggestion_exists is read without a lock: two public suggestions
   of the same question stand in the queue only if one was still on its way
   when the other was checked. *)
DuplicatesNeedOverlap ==
  \A p, q \in Questions :
    /\ p # q /\ queue[p] # None /\ queue[q] # None
    /\ fate[p] = <<"suggest">> /\ fate[q] = <<"suggest">>
    /\ KeyOf(queue[p]) = KeyOf(queue[q])
    => p \in rivals[q] \/ q \in rivals[p]

(* The counter is one atomic INCR and its key lives until the day's last
   second: until then a client gets no more than the daily limit. *)
QuotaHolds == \A k \in Clients \X Days : accepted[k] <= Limit

(* ensure_public_ready under the row lock: what is published has every
   publication field and a publication date, so the sheets offered to the
   public are never empty; the resources it links to exist. *)
PublishedComplete ==
  \A i \in Items : Published(i) =>
    items[i].ready /\ items[i].at # None /\ items[i].resources \subseteq resources

(* _ensure_first_published_at: the first publication date of a question
   stays, through drafts, updates and publications that overlap. *)
FirstPublicationKept ==
  [][\A i \in Items : items[i] # None /\ items[i].at # None /\ items'[i] # None
                        => items'[i].at = items[i].at]_vars

(* PublicationAccess: a request without the permission to publish changes
   nothing the public sees, even when someone publishes the question it is
   about at the same time. *)
RestrictedUnseen ==
  [][\A t \in Tx : ~At(t, "idle") /\ ~tx[t].may /\ tx'[t] = Idle
                     => PublicView' = PublicView]_vars

(* with_duplicate_warnings: the rows a preview selects by default can be
   imported as they are, and queue no question twice nor one that was queued
   when the preview was made. *)
DefaultSelectionClean ==
  \A t \in Tx : At(t, "shown") /\ SelectedByDefault(tx[t].preview) # {} =>
    LET rows == SelectedQuestions(Preview(tx[t].file),
                                  SetToSeq(SelectedByDefault(tx[t].preview))) IN
    /\ rows # Invalid
    /\ \A j, k \in DOMAIN rows : j # k => KeyOf(rows[j]) # KeyOf(rows[k])
    /\ \A k \in DOMAIN rows : KeyOf(rows[k]) \notin tx[t].keys
=============================================================================
