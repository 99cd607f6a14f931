--------------------------- MODULE ArticleTraffic ---------------------------
(***************************************************************************)
(* The public's traffic on top of ArticleCatalog: reactions to articles,   *)
(* article views, and the visits of site pages and matrix questions that   *)
(* the site analytics deduplicates with daily receipts.  Each is a         *)
(* transaction of Tx.  A transaction's receipts and increments are private *)
(* until it commits; the rows it has inserted or incremented stay locked   *)
(* until then, so a second INSERT of the same receipt waits.               *)
(*                                                                         *)
(* Assumption: a request lasts less than a day.                            *)
(***************************************************************************)
EXTENDS ArticleCatalog

CONSTANTS Voters,      \* client tokens of reactions
          Kinds,       \* reaction kinds
          Targets,     \* site pages and matrix questions
          Sites,       \* the targets that are site pages
          Tokens,      \* visit tokens
          Visitors,    \* visitor tokens
          Sources,     \* source categories
          Retention,   \* receipt_retention_days
          LastDay      \* bound: the calendar stops here

VARIABLES reactions,   \* committed: the kind of each article and voter, or None
          daily,       \* committed: the views and engaged views of each article
          events,      \* committed: site analytics, reactions counted for each article
          receipts,    \* committed: [day, scope, token, source, engaged]
          counters,    \* committed: views, engaged and visitors by day, target and source
          keys,        \* reaction rows and receipts that a transaction has locked
          day,         \* the UTC day
          changes,     \* history: how often a committed request changed a reaction
          seen         \* history: <<day, target, token>> of the views ever counted

Audience == "_audience"
Slots == (0 .. LastDay) \X (Targets \cup {Audience}) \X Sources
Zero == [views |-> 0, engaged |-> 0, visitors |-> 0]
Visit == [target : Targets, event : {"View", "Engaged"}, source : Sources,
          visitor : Visitors, token : Tokens]

ASSUME TrafficAssumptions ==
  /\ Sites \subseteq Targets /\ Audience \notin Targets
  /\ Retention \in Nat \ {0} /\ LastDay \in Nat
  /\ None \notin Kinds \cup Targets \cup {Audience}
  /\ IsFiniteSet(Kinds) /\ IsFiniteSet(Sources) /\ IsFiniteSet(Visitors)
  /\ Ops \subseteq CatalogOps \cup {"react", "view", "visit"}

traffic == <<reactions, daily, events, receipts, counters>>
history == <<changes, seen>>
vars == <<catalog, rowLock, tx, left, raced, traffic, keys, day, history>>

Init ==
  /\ CatalogInit
  /\ reactions = [r \in Articles \X Voters |-> None]
  /\ daily = [a \in Articles |-> [views |-> 0, engaged |-> 0]]
  /\ events = [a \in Articles |-> 0]
  /\ receipts = {} /\ counters = [s \in Slots |-> Zero]
  /\ keys = [t \in Tx |-> {}] /\ day = 0
  /\ changes = [a \in Articles |-> 0] /\ seen = {}

Unlock(t) == keys' = [keys EXCEPT ![t] = {}]
Free(t, key) == \A u \in Tx \ {t} : key \notin keys[u]

BeginTraffic(t, rec) == Begin(t, rec) /\ UNCHANGED <<traffic, keys, day, history>>

(* The request raised, or the client is gone: nothing of it stays. *)
Rollback(t) == Fail(t) /\ Unlock(t) /\ UNCHANGED <<traffic, day, history>>

Advance(t, pc, locked) ==
  /\ Goto(t, [tx[t] EXCEPT !.pc = pc])
  /\ keys' = [keys EXCEPT ![t] = @ \cup locked]
  /\ UNCHANGED <<rowLock, raced, traffic, day, history>>

-----------------------------------------------------------------------------
(* Reactions *)

(* A reaction, or None to take it back *)
ReactionRequests == Kinds \cup {None}

(* _get_published_article is checked before the reaction is looked at. *)
BeginReact(t, a, v, kind) ==
  /\ Available(a)
  /\ BeginTraffic(t, [Idle EXCEPT !.op = "react", !.pc = "reaction", !.id = a,
                                  !.new = <<v, kind>>])

Reaction(t) == <<tx[t].id, tx[t].new[1]>>
Locked(row) == IF reactions[row] = None THEN {} ELSE {row}

(* Deviation: the voter's row is read without FOR UPDATE *)
ReadReaction(t) ==
  /\ At(t, "reaction")
  /\ Goto(t, [tx[t] EXCEPT !.pc = "react", !.read = reactions[Reaction(t)]])
  /\ UNCHANGED <<rowLock, raced, traffic, keys, day, history>>

(* SELECT ... FOR UPDATE of the voter's row; a row that does not exist is
   not locked. *)
LockReaction(t) ==
  /\ At(t, "reaction") /\ Free(t, Reaction(t))
  /\ Goto(t, [tx[t] EXCEPT !.pc = "react", !.read = reactions[Reaction(t)]])
  /\ keys' = [keys EXCEPT ![t] = Locked(Reaction(t))]
  /\ UNCHANGED <<rowLock, raced, traffic, day, history>>

(* The counter, then INSERT, UPDATE or DELETE.  A second first reaction of
   the voter is a unique violation; the article may be gone. *)
WriteReaction(t) ==
  /\ At(t, "react")
  /\ LET row == Reaction(t)  kind == tx[t].new[2]  a == tx[t].id IN
     /\ rowLock[a] = None \/ tx[t].read # None
     /\ \/ /\ \/ tx[t].read = None /\ kind # None /\ (reactions[row] # None \/ articles[a] = None)
              \/ tx[t].read # None /\ reactions[row] = None
           /\ Rollback(t)
        \/ /\ tx[t].read = None /\ kind # None => reactions[row] = None /\ articles[a] # None
           /\ tx[t].read # None => reactions[row] # None
           /\ events' = [events EXCEPT ![a] = IF kind # tx[t].read THEN @ + 1 ELSE @]
           /\ reactions' = IF kind = tx[t].read THEN reactions
                           ELSE [reactions EXCEPT ![row] = kind]
           /\ changes' = [changes EXCEPT ![a] = IF reactions'[row] # reactions[row] THEN @ + 1 ELSE @]
           /\ End(t) /\ Unlock(t)
           /\ UNCHANGED <<catalog, daily, receipts, counters, day, seen>>

-----------------------------------------------------------------------------
(* Article views: track_view and track_engaged_view *)

BeginView(t, a, event) ==
  /\ Available(a)
  /\ BeginTraffic(t, [Idle EXCEPT !.op = "view", !.pc = "view", !.id = a, !.new = event])

(* The article has been deleted meanwhile.  Of a tracked view the failure is
   swallowed, of an engaged one it is not: in both nothing is counted. *)
LoseView(t) == At(t, "view") /\ articles[tx[t].id] = None /\ Rollback(t)

(* One atomic upsert *)
CountView(t) ==
  /\ At(t, "view")
  /\ articles[tx[t].id] # None /\ rowLock[tx[t].id] = None
  /\ daily' = [daily EXCEPT ![tx[t].id] = IF tx[t].new = "View" THEN [@ EXCEPT !.views = @ + 1]
                                          ELSE [@ EXCEPT !.engaged = @ + 1]]
  /\ End(t) /\ Unlock(t)
  /\ UNCHANGED <<catalog, reactions, events, receipts, counters, day, history>>

(* DELETE of the article; ON DELETE CASCADE takes its reactions and its
   counters and waits for the reactions that are locked. *)
DeleteArticle(t) ==
  /\ At(t, "write") /\ tx[t].op = "delete"
  /\ LET a == tx[t].id IN
     /\ rowLock[a] \in {None, t} /\ \A v \in Voters : Free(t, <<a, v>>)
     /\ articles' = [articles EXCEPT ![a] = None]
     /\ reactions' = [r \in Articles \X Voters |-> IF r[1] = a THEN None ELSE reactions[r]]
     /\ daily' = [daily EXCEPT ![a] = [views |-> 0, engaged |-> 0]]
  /\ End(t) /\ Unlock(t)
  /\ UNCHANGED <<prio, tags, events, receipts, counters, day, history>>

-----------------------------------------------------------------------------
(* Visits *)

(* A matrix target is read first; here every target is published. *)
BeginVisit(t, v) ==
  BeginTraffic(t, [Idle EXCEPT !.op = "visit", !.visit = v, !.day = day,
                               !.pc = IF v.event = "View" THEN "receipt" ELSE "engage"])

Key(d, scope, token) == <<d, scope, token>>
Issued(key) == \E r \in receipts : <<r.day, r.scope, r.token>> = key

(* INSERT ... ON CONFLICT DO NOTHING of the visit's receipt; without a new
   receipt there is nothing to count. *)
TakeReceipt(t) ==
  /\ At(t, "receipt")
  /\ LET key == Key(tx[t].day, tx[t].visit.target, tx[t].visit.token) IN
     /\ Free(t, key)
     /\ \/ Issued(key) /\ Advance(t, "clean", {})
        \/ /\ ~Issued(key)
           /\ Advance(t, IF tx[t].visit.target \in Sites THEN "audience" ELSE "commit", {key})

(* The visitor's receipt of the day *)
TakeAudience(t) ==
  /\ At(t, "audience")
  /\ LET key == Key(tx[t].day, Audience, tx[t].visit.visitor) IN
     /\ Free(t, key)
     /\ Advance(t, "commit", IF Issued(key) THEN {} ELSE {key})

(* Deviation: yesterday's receipts are deleted too *)
OutdatedAtMidnight(d, today) == d < today

(* Receipts this old are deleted by the next visit. *)
Outdated(d, today) == d + Retention < today

Kept(t) == {r \in receipts : ~Outdated(r.day, tx[t].day)}

(* The increments of a View: views of the target, visitors of the audience *)
CommitVisit(t) ==
  /\ At(t, "commit")
  /\ LET v == tx[t].visit  d == tx[t].day  mine == keys[t] IN
     /\ receipts' = Kept(t) \cup {[day |-> k[1], scope |-> k[2], token |-> k[3],
                                   source |-> v.source, engaged |-> FALSE] : k \in mine}
     /\ counters' = [s \in Slots |->
          IF s = <<d, v.target, v.source>> THEN [counters[s] EXCEPT !.views = @ + 1]
          ELSE IF s = <<d, Audience, v.source>> /\ \E k \in mine : k[2] = Audience
               THEN [counters[s] EXCEPT !.visitors = @ + 1]
          ELSE counters[s]]
     /\ seen' = seen \cup {<<d, v.target, v.token>>}
  /\ End(t) /\ Unlock(t)
  /\ UNCHANGED <<catalog, reactions, daily, events, day, changes>>

(* A view that was counted before only deletes old receipts. *)
CommitNothing(t) ==
  /\ At(t, "clean")
  /\ receipts' = Kept(t)
  /\ End(t) /\ Unlock(t)
  /\ UNCHANGED <<catalog, reactions, daily, events, counters, day, history>>

(* Deviation: an engaged view counts for the source the event names *)
SourceOfEvent(r, v) == v.source

(* UPDATE ... RETURNING source: an engaged view counts for the source of the
   view it belongs to. *)
SourceOf(r, v) == r.source

(* An engaged event: the receipt of the same day that is not engaged yet, or
   nothing.  The UPDATE does not see, nor wait for, the receipt of a view that
   has not been committed: the event is lost. *)
Engage(t) ==
  /\ At(t, "engage")
  /\ LET v == tx[t].visit  d == tx[t].day
         mine == {r \in Kept(t) : <<r.day, r.scope, r.token>> = Key(d, v.target, v.token)
                                  /\ ~r.engaged} IN
     /\ receipts' = (Kept(t) \ mine) \cup {[r EXCEPT !.engaged = TRUE] : r \in mine}
     /\ counters' = [s \in Slots |->
          IF \E r \in mine : s = <<d, v.target, SourceOf(r, v)>>
          THEN [counters[s] EXCEPT !.engaged = @ + 1] ELSE counters[s]]
  /\ End(t) /\ Unlock(t)
  /\ UNCHANGED <<catalog, reactions, daily, events, day, history>>

Midnight ==
  /\ "visit" \in Ops /\ day < LastDay
  /\ \A t \in Tx : tx[t].op = "visit" => tx[t].day = day
  /\ day' = day + 1
  /\ UNCHANGED <<catalog, rowLock, tx, left, raced, traffic, keys, history>>

-----------------------------------------------------------------------------
(* What is shown of the traffic *)

(* get_reaction_counts *)
ReactionCounts(a) == [k \in Kinds |-> Cardinality({v \in Voters : reactions[<<a, v>>] = k})]
ReactionTotal(counts) == SumFunction(counts)

(* get_public_stats *)
PublicStats(a) == [views |-> daily[a].views, reactions |-> ReactionCounts(a)]

(* get_stats: the articles with views, and their totals.  A reaction to an
   article nobody is known to have viewed is left out. *)
StatsArticles == {a \in Articles : daily[a].views + daily[a].engaged > 0}
ArticleStats(a) ==
  [views |-> daily[a].views, engaged |-> daily[a].engaged, reactions |-> ReactionCounts(a)]
StatsTotals ==
  [views |-> SumFunction([a \in StatsArticles |-> ArticleStats(a).views]),
   engaged |-> SumFunction([a \in StatsArticles |-> ArticleStats(a).engaged]),
   reactions |-> SumFunction([a \in StatsArticles |-> ReactionTotal(ArticleStats(a).reactions)])]

(* The report on articles: the site analytics' counters united with the
   older counters of views *)
ArticleReport(a) ==
  [views |-> daily[a].views, engaged |-> daily[a].engaged, reactions |-> events[a]]

(* The report on site pages or matrix questions: the counters a filter
   selects; the audience is a row of the site's report. *)
Report(f) ==
  LET scopes == IF f.kind = "Site" THEN Sites \cup {Audience} ELSE Targets \ Sites
      Selected(filter, S) == IF filter = None THEN S ELSE S \cap {filter}
  IN [s \in (f.from .. f.to) \X Selected(f.target, scopes) \X Selected(f.source, Sources)
        |-> counters[s]]

KindOf(g) == IF g \in Sites \cup {Audience} THEN "Site" ELSE "Matrix"
DayReport(d, g) == Report([kind |-> KindOf(g), from |-> d, to |-> d, target |-> g, source |-> None])

-----------------------------------------------------------------------------
Step(t) ==
  \/ CatalogStep(t) /\ UNCHANGED <<traffic, keys, day, history>>
  \/ DeleteArticle(t) \/ LockReaction(t) \/ WriteReaction(t) \/ LoseView(t) \/ CountView(t)
  \/ TakeReceipt(t) \/ TakeAudience(t) \/ CommitVisit(t) \/ CommitNothing(t) \/ Engage(t)
  \/ tx[t].op \in {"react", "visit"} /\ Rollback(t)

Request(t) ==
  /\ At(t, "idle") /\ left > 0
  /\ \/ CatalogRequest(t) /\ UNCHANGED <<traffic, keys, day, history>>
     \/ \E a \in Articles, v \in Voters, kind \in ReactionRequests : BeginReact(t, a, v, kind)
     \/ \E a \in Articles, event \in {"View", "Engaged"} : BeginView(t, a, event)
     \/ \E v \in Visit : BeginVisit(t, v)

Next == (\E t \in Tx : Request(t) \/ Step(t)) \/ Midnight

Spec == Init /\ [][Next]_vars

-----------------------------------------------------------------------------
(* set_reaction: the report counts a reaction event exactly when the voter's
   stored reaction changed, whatever requests of the same voter overlap,
   fail or are repeated; the public statistics and the admin's totals never
   show more reactions than that. *)
ReactionsCounted ==
  /\ \A a \in Articles :
       /\ ArticleReport(a).reactions = changes[a]
       /\ ReactionTotal(PublicStats(a).reactions) <= changes[a]
  /\ StatsTotals.reactions <= SumFunction(changes)

(* record_visit: every visit token is counted once a day, however often its
   view is sent, at once or after midnight, and a visitor once a day: so the
   day's report shows. *)
VisitsCountedOnce ==
  \A d \in 0 .. LastDay :
    /\ \A g \in Targets :
         LET rows == DayReport(d, g) IN
         SumFunction([s \in DOMAIN rows |-> rows[s].views])
           = Cardinality({s \in seen : s[1] = d /\ s[2] = g})
    /\ LET rows == DayReport(d, Audience) IN
       SumFunction([s \in DOMAIN rows |-> rows[s].visitors]) <= Cardinality(Visitors)

(* record_visit: an engaged event, early, late or repeated, counts at most
   once and where its view was counted, so engaged views never outnumber the
   views of their day, target and source. *)
EngagedWithinViews ==
  \A s \in Slots : counters[s].engaged <= counters[s].views
=============================================================================
