------------------------------ MODULE MCQueryGrade -----------------------------
(***************************************************************************)
(* QueryGrade on a small instance for TLC: the signals the special cases   *)
(* look at, and one each of the others of a kind.                          *)
(***************************************************************************)
EXTENDS QueryGrade

MCAlphabet ==
  {"absence_in_description", "not_exists_scope", "not_exists", "not_has_guard",
   "not_is_pred_receiver", "class_is_primary_select", "select_class_or_module",
   "from_with_callable_scope", "not_dot_method", "generic_finder_methods",
   "sink_constant", "select_method_call", "select_literal", "dataflow_import"}
===============================================================================
