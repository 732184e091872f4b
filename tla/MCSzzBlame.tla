------------------------------ MODULE MCSzzBlame -------------------------------
(* Two fixes.  f1 changes one short file, in every way a single hunk can; f2   *)
(* has the patches with two hunks, two files, a file that is gone, a deleted   *)
(* line that begins with dashes, and a renamed file.                           *)
EXTENDS SzzBlame, SequencesExt, TLC

CONSTANTS f1, f2, c1, c2, c3, ann, bob, annHome, annWork, bobWork, a, b, c, code, auth

MCOrigin ==
  f1 :> (<<a, 1>> :> c1 @@ <<a, 2>> :> c2 @@ <<a, 3>> :> c1) @@
  f2 :> [w \in ({a} \X (1 .. 2)) \cup ({b} \X (1 .. 10)) |->
           IF w[1] = a THEN c3 ELSE IF w[2] <= 2 THEN c2 ELSE c1]

MCCategory == f1 :> auth @@ f2 :> code
MCAuthor == c1 :> ann @@ c2 :> ann @@ c3 :> bob
MCEmail == c1 :> annHome @@ c2 :> annWork @@ c3 :> bobWork
MCExposure == annHome :> 2 @@ annWork :> 5 @@ bobWork :> 1

file(name) == <<[kind |-> "file", name |-> name]>>
hunk(at) == <<[kind |-> "hunk", at |-> at]>>
body(kinds) == [i \in DOMAIN kinds |-> [kind |-> kinds[i]]]

(* The whole of a file of three lines: an insertion may follow any of them,   *)
(* and git prints what a change deletes before what it adds.                  *)
Whole ==
  {FlattenSeq([i \in 1 .. 4 |->
       (IF i = 1 THEN <<>> ELSE <<old[i - 1]>>) \o (IF i \in at THEN <<"add">> ELSE <<>>)]) :
     <<old, at>> \in {p \in [1 .. 3 -> {"ctx", "del", "note"}] \X SUBSET (1 .. 4) :
        /\ p[2] # {} \/ \E i \in 1 .. 3 : p[1][i] # "ctx"
        /\ \A i \in p[2] : i < 4 => p[1][i] = "ctx"}}

MCPatches ==
  f1 :> {file(a) \o hunk(1) \o body(kinds) : kinds \in Whole} @@
  f2 :> {file(b) \o hunk(1) \o body(<<"del", "note", "ctx", "ctx", "ctx">>)
           \o hunk(8) \o body(<<"ctx", "ctx", "ctx", "add">>),
         file(a) \o hunk(1) \o body(<<"add", "ctx", "ctx">>)
           \o file(b) \o hunk(8) \o body(<<"ctx", "ctx", "ctx", "add">>),
         <<[kind |-> "gone"]>> \o hunk(1) \o body(<<"del", "del">>)
           \o file(b) \o hunk(7) \o body(<<"ctx", "ctx", "ctx", "del">>),
         file(b) \o hunk(1) \o body(<<"dashes", "del", "ctx", "ctx", "ctx">>),
         file(c) \o hunk(1) \o body(<<"del", "ctx">>)}
===============================================================================
