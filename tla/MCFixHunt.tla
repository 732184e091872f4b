------------------------------- MODULE MCFixHunt -------------------------------
(***************************************************************************)
(* FixHunt on a small instance for TLC: a fix that modifies lines of one   *)
(* file and only adds to another, and changes a test; one out of the scope *)
(* of the selection, and one beyond the limit of a run; two versions of    *)
(* the queries, with results on the first and the last line of a range,    *)
(* beside it, and in the test; two suites on HEAD.                         *)
(***************************************************************************)
EXTENDS FixHunt, TLC

CONSTANTS m, out, past, rb, lib, spec, xss, misc

MCWorklist == <<out, m, past>>
MCSuites == <<xss, misc>>
H(old, new, ps, pl, fs, fl) ==
  [old |-> old, new |-> new, ps |-> ps, pl |-> pl, fs |-> fs, fl |-> fl]
MCHunks == m :> {H(rb, rb, 2, 2, 2, 1), H(lib, lib, 3, 0, 4, 2), H(spec, spec, 1, 1, 1, 1)}
        @@ out :> {} @@ past :> {H(rb, rb, 1, 1, 1, 1)}
R(file, start, end) == [file |-> file, start |-> start, end |-> end]
Nothing == [t \in {out, past} \X Sides |-> {}]
MCFound ==
  <<<<m, "before">> :> {R(lib, 1, 2), R(rb, 1, 1)} @@
    <<m, "after">> :> {R(lib, 5, 5), R(rb, 3, 3)} @@ Nothing @@
    xss :> {R(rb, 1, 1), R(spec, 1, 1)} @@ misc :> {R(rb, 4, 4)},
    <<m, "before">> :> {R(rb, 3, 3), R(lib, 5, 5)} @@
    <<m, "after">> :> {R(rb, 3, 3), R(lib, 6, 6), R(spec, 1, 1)} @@ Nothing @@
    xss :> {R(rb, 2, 2)} @@ misc :> {R(rb, 4, 4), R(rb, 6, 6)}>>
===============================================================================
