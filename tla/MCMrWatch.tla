------------------------------- MODULE MCMrWatch -------------------------------
(***************************************************************************)
(* MrWatch on a small instance for TLC: both watchers ask about a and b,   *)
(* two runs of the findings watcher may overlap, and an old state file of  *)
(* the pair watcher names c, which it does not ask about any more.  What   *)
(* GitLab says of b may become of no use for ever.                         *)
(***************************************************************************)
EXTENDS MrWatch, TLC

CONSTANTS a, b, c, f1, f2, p1, m

MCIids == {a, b, c}
MCIIDS == "findings" :> <<a, b>> @@ "pair" :> <<b, a>>
MCWatcherOf == f1 :> "findings" @@ f2 :> "findings" @@ p1 :> "pair"
OpenedFile(i) == i :> [last |-> "opened", merge |-> NoKey]
MCInitFiles ==
  "findings" :> {Absent} @@ "pair" :> {OpenedFile(c)}
Merged(n) == [state |-> "merged", merge |-> m, counted |-> n]
Locked == [state |-> "locked", merge |-> Null, counted |-> TRUE]
MCAnswers ==
  a :> {Merged(TRUE), Merged(FALSE)} @@ b :> {Merged(TRUE), Locked} @@ c :> {}
MCMaxEvents == a :> 1 @@ b :> 1 @@ c :> 0
===============================================================================
