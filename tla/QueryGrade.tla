------------------------------- MODULE QueryGrade ------------------------------
(***************************************************************************)
(* grade_query.py: is a CodeQL query a sweep, which matches a specific     *)
(* dangerous call, or a diff query, which fires where a guard is absent?   *)
(* A query is the set of signals that the grader's expressions find in its *)
(* text.  An author edits it, one signal at a time, and grades it again.   *)
(* Scores are in half points.                                              *)
(***************************************************************************)
EXTENDS Integers

CONSTANTS
  Alphabet,     \* bound: the signals that occur
  MaxNames      \* bound: method names a query matches

(* A guard is absent: beside "not_exists", which may also be a filter.        *)
Absence ==
  {"absence_in_name", "absence_in_description", "not_exists_scope", "not_has_guard",
   "not_guard_on_selected_var", "not_is_pred_receiver", "class_is_primary_select",
   "from_with_callable_scope", "unscoped_find", "not_guard_on_block",
   "infinite_quantifier", "not_dot_method"}

(* A specific call, constant or flow is matched. *)
Sinks ==
  {"keyword_arg_match", "sink_constant", "literal_pattern", "select_method_call",
   "select_literal", "precision_high", "path_problem_flow", "dataflow_import"}

Signals == Absence \cup Sinks \cup
  {"not_exists", "select_class_or_module", "generic_finder_methods"}

ASSUME GradeAssumption == Alphabet \subseteq Signals /\ MaxNames \in Nat

VARIABLES
  signals,   \* the signals of the query
  names      \* method_name_count

query == <<signals, names>>
Has(s) == s \in signals
-------------------------------------------------------------------------------
(* extract_signals: what one signal says of another in the same text.         *)

Implied(s) ==
  CASE s \in {"not_guard_on_selected_var", "not_guard_on_block"} -> {"not_has_guard"}
    [] s = "from_with_callable_scope" -> {"select_method_call"}
    [] s = "class_is_primary_select" -> {"select_class_or_module"}
    [] OTHER -> {}

(* A query has one from clause: it begins with a class or with a call. *)
Fits(s) ==
  /\ s = "class_is_primary_select" => ~Has("select_method_call")
  /\ s \in {"select_method_call", "from_with_callable_scope"} => ~Has("class_is_primary_select")
  /\ s = "generic_finder_methods" => names > 0

class_is_secondary ==
  Has("select_class_or_module") /\ ~Has("class_is_primary_select") /\ Has("select_method_call")
-------------------------------------------------------------------------------
(* classify.                                                                  *)
Points(s, n) == IF Has(s) THEN n ELSE 0
Least(a, b) == IF a < b THEN a ELSE b

AbsenceScore ==
  Points("absence_in_name", 4) + Points("absence_in_description", 3)
  + (IF Has("not_exists_scope") THEN 8 ELSE Points("not_exists", 3))
  + Points("not_has_guard", 6) + Points("not_guard_on_selected_var", 7)
  + Points("not_is_pred_receiver", 5)
  + (IF Has("class_is_primary_select") THEN 7
     ELSE IF class_is_secondary THEN 0 ELSE Points("select_class_or_module", 3))
  + Points("from_with_callable_scope", 6) + Points("unscoped_find", 6)
  + Points("not_guard_on_block", 7) + Points("infinite_quantifier", 6)

(* not x.hasY() counts beside another sign of absence. *)
BaseScore == AbsenceScore + (IF AbsenceScore > 0 THEN Points("not_dot_method", 1) ELSE 0)

(* find and find_by are no sinks. *)
CallScore ==
  IF Has("generic_finder_methods") /\ ~Has("sink_constant") THEN Least(2 * names, 2)
  ELSE Least(3 * names, 8)

(* Mutant of FlowScore: the threshold the wrong way round. *)
FlowScoreAbove == IF BaseScore >= 6 THEN Points("dataflow_import", 4) ELSE 0

(* A flow library says sweep, unless absence dominates. *)
FlowScore == IF BaseScore < 6 THEN Points("dataflow_import", 4) ELSE 0

(* Several names and a not exists that is no guard in the scope: a filter.    *)
FilterScore ==
  IF /\ names >= 3 /\ Has("not_exists") /\ ~Has("not_exists_scope")
     /\ ~Has("not_has_guard") /\ ~Has("class_is_primary_select")
  THEN 4 ELSE 0

diff_score ==
  BaseScore
  + (IF Has("from_with_callable_scope") THEN Points("not_is_pred_receiver", 3) ELSE 0)

sweep_score ==
  CallScore + FlowScore + FilterScore
  + Points("keyword_arg_match", 4) + Points("sink_constant", 3) + Points("literal_pattern", 3)
  + Points("select_method_call", 1) + Points("select_literal", 4)
  + Points("precision_high", 1) + Points("path_problem_flow", 10)

grade ==
  IF diff_score > sweep_score THEN "diff"
  ELSE IF sweep_score > diff_score THEN "sweep"
  ELSE IF \/ Has("class_is_primary_select") \/ Has("from_with_callable_scope")
          \/ Has("absence_in_name") \/ Has("absence_in_description")
       THEN "diff" ELSE "sweep"
-------------------------------------------------------------------------------
GradeInit == signals = {} /\ names = 0

Add(s) ==
  /\ ~Has(s) /\ Fits(s)
  /\ signals' = signals \cup {s} \cup Implied(s)
  /\ UNCHANGED names

AddName == names < MaxNames /\ names' = names + 1 /\ UNCHANGED signals

(* The author takes out a signal that no other one in the text implies. *)
Remove(s) ==
  /\ Has(s) /\ \A t \in signals : s \notin Implied(t)
  /\ signals' = signals \ {s}
  /\ UNCHANGED names

RemoveName ==
  /\ names > (IF Has("generic_finder_methods") THEN 1 ELSE 0)
  /\ names' = names - 1 /\ UNCHANGED signals

GradeNext ==
  \/ \E s \in Alphabet : Add(s) \/ Remove(s)
  \/ AddName \/ RemoveName

GradeSpec == GradeInit /\ [][GradeNext]_query
-------------------------------------------------------------------------------
(* The author finds one more sign that a guard is absent.  (A plain           *)
(* "not exists" is none: it can be a filter.)                                 *)
AddsAbsence ==
  names' = names /\ \E s \in Absence \ signals : signals' = signals \cup {s} \cup Implied(s)

(* The author names one more method, or adds one more sign of a specific sink. *)
AddsSink ==
  \/ names' > names /\ signals' = signals
  \/ names' = names /\ \E s \in Sinks \ signals : signals' = signals \cup {s}

(* The grade moves with its signals: a further sign of absence never makes a  *)
(* sweep of a query that was graded diff, and a further specific match never  *)
(* makes a diff of one graded sweep, whatever bonus, threshold or tie they    *)
(* meet.                                                                      *)
GradeMovesWithItsSignals ==
  [][/\ grade = "diff" /\ AddsAbsence => grade' = "diff"
     /\ grade = "sweep" /\ AddsSink => grade' = "sweep"]_query
===============================================================================
