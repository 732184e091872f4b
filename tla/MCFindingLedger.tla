---------------------------- MODULE MCFindingLedger ----------------------------
(***************************************************************************)
(* FindingLedger on a small instance for TLC.                              *)
(***************************************************************************)
EXTENDS FindingLedger, TLC

CONSTANTS h1, h2, b1, c1, c2

MCHashes == {h1, h2}
MCOneHash == {h1}
MCBodies == {b1}
MCConsumers == {c1, c2}
MCOneConsumer == {c1}

(* Hashes and consumers are interchangeable. *)
Symmetry == Permutations({h1, h2}) \cup Permutations({c1, c2})
===============================================================================
