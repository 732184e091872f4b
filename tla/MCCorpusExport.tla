----------------------------- MODULE MCCorpusExport ----------------------------
(***************************************************************************)
(* CorpusExport on a small instance for TLC: three captures that share     *)
(* identifiers as they are judged, and a split that separates them.        *)
(***************************************************************************)
EXTENDS CorpusExport, TLC

CONSTANTS s1, s2, cpp, rust

Judged(ids, use) == [ids |-> ids, use |-> use]
MCJudgments ==
  1 :> {Judged({"a"}, "ready")} @@
  2 :> {Judged({"a", "b"}, "ready"), Judged({"a", "b"}, "out"), Judged({}, "ready")} @@
  3 :> {Judged({"b"}, "held")}
MCQuoted ==
  [j \in UNION {MCJudgments[n] : n \in 1..3} |-> IF j.ids = {} THEN {1} ELSE {1, 2}]
MCSplit == 1 :> "train" @@ 2 :> "test" @@ 3 :> "test"
Symmetry == Permutations({s1, s2}) \cup Permutations({cpp, rust})
===============================================================================
