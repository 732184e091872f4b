----------------------------- MODULE MCCorpusStore -----------------------------
(***************************************************************************)
(* CorpusStore on a small instance for TLC: three pages that share code    *)
(* and an identifier in a chain, and one of them off-target as another     *)
(* scout sees it.                                                          *)
(***************************************************************************)
EXTENDS CorpusStore, TLC

CONSTANTS cve, symbol

MCTokens == {"x", "y", "z", "return", "[1]", "[...]", "name(", "if", "}", "~~~"}
MCIs == <<>> :> "blank" @@ <<"x">> :> "plain" @@ <<"y">> :> "plain" @@
        <<"z">> :> "plain" @@ <<"return", "z">> :> "plain" @@ <<"[1]", "y">> :> "plain" @@
        <<"name(">> :> "definition" @@ <<"if">> :> "open" @@ <<"}">> :> "close" @@
        <<"[...]">> :> "gap" @@ <<"~~~">> :> "fence"
Text(words) == [i \in DOMAIN words |-> [indent |-> 0, word |-> words[i]]]
Block(words) == Text(words) \o <<Empty>>
Fenced(words) == Text(<<<<"~~~">>>> \o words \o <<<<"~~~">>>>)

X == <<"x">>
Y == <<"y">>
Z == <<"z">>
marked == <<X, <<"[...]">>, <<"[1]", "y">>>>
run == <<Y, X, X>>
a == Block(marked)
b == Block(run)
e == Text(<<Z>>)
MCMarkdown ==
  [c \in {1, 2, 3} |-> Fenced(marked) \o Fenced(run) \o Text(<<X, <<"~~~">>, Z>>)]
(* What the page shows has the excerpt e in the middle of its text only. *)
MCShown ==
  [c \in {1, 2, 3} |-> Text(<<X, <<"if">>, <<"return", "z">>>>) \o Block(run)]
MCSource ==
  symbol :> Text(<<X, <<"name(">>, X, <<"if">>, <<"}">>, Y, <<"}">>,
                   <<"name(">>, <<"return", "z">>, <<"}">>>>)

Judged(same, code, ids) ==
  [route |-> "target", admitted |-> TRUE, complete |-> TRUE, same |-> same,
   code |-> code, ids |-> ids]
OffTarget == [Judged(Original, NoCode, {}) EXCEPT !.route = "other", !.admitted = FALSE]

MCJudgments ==
  1 :> {Judged(Original, a, {}), Judged(Original, b, {}), Judged(Original, NoCode, {}),
        OffTarget} @@
  2 :> {Judged(Original, a, {cve}), Judged(1, b, {})} @@
  3 :> {Judged(Original, a, {}), [Judged(Original, e, {cve}) EXCEPT !.complete = FALSE]}
MCSymmetry == Permutations(Scouts)
===============================================================================
