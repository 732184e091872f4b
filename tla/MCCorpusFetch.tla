----------------------------- MODULE MCCorpusFetch -----------------------------
(***************************************************************************)
(* CorpusFetch on a small instance for TLC: two scouts, a page and another *)
(* on a second host that a redirect may lead to; a robots.txt that allows  *)
(* everything and one whose longer Disallow beats an Allow for the second. *)
(***************************************************************************)
EXTENDS CorpusFetch, TLC

CONSTANTS page, target, web, other, all, deep

MCUrls == {page, target}
MCHostOf == page :> web @@ target :> other
MCPatterns == {all, deep}
MCMatches == all :> {page, target} @@ deep :> {target}
MCLength == all :> 1 @@ deep :> 2
Open == [named |-> FALSE, token |-> {}, star |-> {}]
Narrow == [named |-> TRUE,
           token |-> {[pattern |-> all, allow |-> TRUE], [pattern |-> deep, allow |-> FALSE]},
           star |-> {}]
MCTexts == {Open, Narrow}
MCSymmetry == Permutations(Scouts)
===============================================================================
