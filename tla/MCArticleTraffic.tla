-------------------------- MODULE MCArticleTraffic --------------------------
(***************************************************************************)
(* A small instance of ArticleTraffic for TLC: a draft and a published     *)
(* article in the second of two folders, one tag, one voter, a site page   *)
(* and a matrix question.                                                  *)
(***************************************************************************)
EXTENDS ArticleTraffic, TLC

CONSTANTS t1, t2, a1, a2, f1, f2, f3, g1, p1, m1

MCIdOrder == <<f1, f2, f3>>
MCWritings == {[text |-> 1, status |-> "Draft", folder |-> f2, tags |-> {}],
               [text |-> 2, status |-> "Published", folder |-> f1, tags |-> {g1}]}
MCStartArticles ==
  [a \in Articles |-> IF a = a1 THEN [text |-> 0, status |-> "Draft", folder |-> f2,
                                      tags |-> {g1}, at |-> None]
                      ELSE [text |-> 1, status |-> "Published", folder |-> f2,
                            tags |-> {}, at |-> 0]]

Symmetry == Permutations({t1, t2})
=============================================================================
