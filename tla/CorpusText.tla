------------------------------- MODULE CorpusText ------------------------------
(***************************************************************************)
(* How corpus.py compares code that a page prints with code it finds       *)
(* elsewhere: the fenced blocks of a page's Markdown, correspond, and the  *)
(* definition of a symbol in a source file.  A text is the sequence of the *)
(* lines its newlines separate, so one that ends in a newline has an empty *)
(* line last.  A line is its indentation and the tokens after it; Is tells *)
(* what such a line does.  Work budgets and limits on the length of a line *)
(* are left out.                                                           *)
(***************************************************************************)
EXTENDS Naturals, Sequences, FiniteSetsExt

CONSTANTS
  Tokens,    \* what a line is made of
  Marker,    \* the token "[n]", with which a page points to a line
  Is,        \* what a line with these tokens does
  Indented   \* indentation is syntax in the language of the code

(* definition: it begins a definition of the symbol, with its parameters (and *)
(* its brace); call: it calls or declares the symbol; above: a decorator, or  *)
(* a return type on a line of its own; gap: "[...]", where a page leaves out. *)
Kinds == {"definition", "call", "above", "open", "close", "plain", "blank", "gap", "fence"}
Words == DOMAIN Is
Line == [indent : Nat, word : Words]
Empty == [indent |-> 0, word |-> <<>>]

ASSUME TextAssumption ==
  /\ Words \subseteq Seq(Tokens) /\ <<>> \in Words
  /\ \A w \in Words : w # <<>> => Tail(w) \in Words
  /\ Is \in [Words -> Kinds] /\ \A w \in Words : Is[w] = "blank" <=> w = <<>>
  /\ Indented \in BOOLEAN

Does(line, kind) == Is[line.word] = kind
-------------------------------------------------------------------------------
(* parse_markdown: the lines between a fence and the next one, with their     *)
(* newlines, or to the end.                                                   *)
blocks(page) ==
  LET fences == {i \in DOMAIN page : Does(page[i], "fence")}
      opener(i) == Cardinality({j \in fences : j < i}) % 2 = 0
      later(i) == {j \in fences : j > i}
      closed(i) == SubSeq(page, i + 1, Min(later(i)) - 1) \o <<Empty>>
      unclosed(i) == SubSeq(page, i + 1, Len(page)) IN
  {IF later(i) # {} THEN closed(i) ELSE unclosed(i) : i \in {j \in fences : opener(j)}}
-------------------------------------------------------------------------------
(* correspond.                                                                *)
Solid(text) == {i \in DOMAIN text : ~Does(text[i], "blank")}

(* What is left of a line when its beginning, or its end, is cut off. *)
Tails(line) ==
  {[line EXCEPT !.indent = n] : n \in 0..line.indent}
    \cup {[indent |-> 0, word |-> SubSeq(line.word, k, Len(line.word))] :
             k \in 1..(Len(line.word) + 1)}
Heads(line) ==
  {[line EXCEPT !.word = SubSeq(line.word, 1, k)] : k \in 1..Len(line.word)}
    \cup {[indent |-> n, word |-> <<>>] : n \in 0..line.indent}

(* The characters of the first line may begin, those of the last line may end, *)
(* in the middle of a line.                                                    *)
PartOf(line, whole, isFirst, isLast) ==
  \E rest \in IF isFirst THEN Tails(whole) ELSE {whole} :
    line \in IF isLast THEN Heads(rest) ELSE {rest}

(* excerpt in reference: a substring. *)
Verbatim(excerpt, reference) ==
  /\ Solid(excerpt) # {}
  /\ \E d \in 0..(Len(reference) - Len(excerpt)) :
       \A i \in DOMAIN excerpt :
         PartOf(excerpt[i], reference[i + d], i = 1, i = Len(excerpt))

(* textwrap.dedent and trimming: indentation counts, from the common one on,  *)
(* or does not count.                                                         *)
Margin(text) == IF Solid(text) = {} THEN 0 ELSE Min({text[i].indent : i \in Solid(text)})
Level(text, i) == IF Indented THEN text[i].indent - Margin(text) ELSE text[i].indent
Trimmed(indent) == IF Indented THEN indent ELSE 0
keys(text) == [i \in DOMAIN text |-> [text[i] EXCEPT !.indent = Trimmed(Level(text, i))]]

(* The key of a line of the excerpt: a marker at its beginning is dropped. *)
Marked(text, i) ==
  Level(text, i) = 0 /\ text[i].word # <<>> /\ Head(text[i].word) = Marker
sought(excerpt) ==
  [i \in DOMAIN excerpt |->
     IF Marked(excerpt, i) THEN [indent |-> 0, word |-> Tail(excerpt[i].word)]
                           ELSE keys(excerpt)[i]]
wanted(excerpt) ==
  {i \in DOMAIN excerpt :
     ~Does(sought(excerpt)[i], "blank") /\ ~Does(sought(excerpt)[i], "gap")}

(* Mutant of found: each line is sought from the beginning. *)
foundAnywhere(excerpt, reference) ==
  {i \in wanted(excerpt) :
     \E j \in DOMAIN reference : keys(reference)[j] = sought(excerpt)[i]}

(* The lines that are found, each after the one before. *)
found(excerpt, reference) ==
  LET key == sought(excerpt)
      there == keys(reference)
      after(cursor, i) == {j \in DOMAIN there : j > cursor /\ there[j] = key[i]}
      seek(at, i) ==
        IF i \notin wanted(excerpt) \/ after(at.cursor, i) = {} THEN at
        ELSE [cursor |-> Min(after(at.cursor, i)), hits |-> at.hits \cup {i}]
      at[n \in 0..Len(excerpt)] ==
        IF n = 0 THEN [cursor |-> 0, hits |-> {}] ELSE seek(at[n - 1], n) IN
  at[Len(excerpt)].hits

Verdicts == <<"exact", "normalized", "approximate", "not_found">>

correspond(excerpt, reference) ==
  LET lines == wanted(excerpt)
      hits == found(excerpt, reference) IN
  CASE Verbatim(excerpt, reference) -> "exact"
    [] ~Verbatim(excerpt, reference) /\ lines # {} /\ hits = lines -> "normalized"
    [] ~Verbatim(excerpt, reference) /\ hits # lines
         /\ 2 * Cardinality(hits) >= Cardinality(lines) -> "approximate"
    [] OTHER -> "not_found"

Matching(verdict) == verdict \in {"exact", "normalized"}
-------------------------------------------------------------------------------
(* symbol_extents: the first and the last line of each definition.            *)
Opened(source, i, j) ==
  Cardinality({k \in i..j : Does(source[k], "definition") \/ Does(source[k], "open")})
Closed(source, i, j) == Cardinality({k \in i..j : Does(source[k], "close")})

(* Where the brace that line i opens is closed; a definition that the file    *)
(* leaves open has no end.                                                    *)
balanced_end(source, i) ==
  {j \in i..Len(source) :
     /\ Opened(source, i, j) = Closed(source, i, j)
     /\ \A k \in i..(j - 1) : Opened(source, i, k) > Closed(source, i, k)}

(* The lines that are indented further, without the blank ones at the end. *)
indented_end(source, i) ==
  LET stop == Min({j \in (i + 1)..Len(source) :
                     ~Does(source[j], "blank") /\ source[j].indent <= source[i].indent}
                  \cup {Len(source) + 1}) IN
  {Max({j \in i..(stop - 1) : ~Does(source[j], "blank")})}

(* One line above belongs to it, or all its decorators. *)
start_of(source, i) ==
  LET above(k) == \A j \in k..(i - 1) : Does(source[j], "above") IN
  IF Indented THEN Min({k \in 1..i : above(k)})
  ELSE IF i > 1 /\ above(i - 1) THEN i - 1 ELSE i

symbol_extents(source) ==
  UNION {{<<start_of(source, i), j>> :
            j \in IF Indented THEN indented_end(source, i) ELSE balanced_end(source, i)} :
         i \in {k \in DOMAIN source : Does(source[k], "definition")}}

(* Its text: to the brace, or to the end of the last line, newline and all. *)
extent(source, e) ==
  IF Indented /\ e[2] < Len(source) THEN SubSeq(source, e[1], e[2]) \o <<Empty>>
  ELSE SubSeq(source, e[1], e[2])

(* cmd_recover: definitions that differ and all match are ambiguous; else the *)
(* first with the best verdict is taken, and the whole file without one.      *)
recovered(excerpt, source) ==
  LET text(e) == extent(source, e)
      verdict(e) == correspond(excerpt, text(e))
      candidates == symbol_extents(source)
      matching == {e \in candidates : Matching(verdict(e))}
      first(S) == CHOOSE e \in S : \A d \in S : e[1] <= d[1]
      best == Min({i \in DOMAIN Verdicts : \E e \in candidates : verdict(e) = Verdicts[i]}) IN
  IF \E d, e \in matching : text(d) # text(e)
  THEN [verdict |-> "ambiguous", text |-> text(first(matching))]
  ELSE IF candidates = {} THEN [verdict |-> "not_found", text |-> source]
  ELSE [verdict |-> Verdicts[best],
        text |-> text(first({e \in candidates : verdict(e) = Verdicts[best]}))]
-------------------------------------------------------------------------------
(* What the docstring of correspond calls in order, without an algorithm.     *)
InOrder(excerpt, text) ==
  \E at \in [wanted(excerpt) -> DOMAIN text] :
    /\ \A i \in wanted(excerpt) : keys(text)[at[i]] = sought(excerpt)[i]
    /\ \A i, j \in wanted(excerpt) : i < j => at[i] < at[j]

(* The most an excerpt that matches may lack: its first line may be the end,  *)
(* its last one the beginning of the line it stands for.                      *)
InOrderButCut(excerpt, text) ==
  \E at \in [wanted(excerpt) -> DOMAIN text] :
    /\ \A i \in wanted(excerpt) :
         \/ keys(text)[at[i]] = sought(excerpt)[i]
         \/ PartOf(excerpt[i], text[at[i]], i = 1, i = Len(excerpt))
    /\ \A i, j \in wanted(excerpt) : i < j => at[i] < at[j]
===============================================================================
