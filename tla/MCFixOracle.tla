------------------------------ MODULE MCFixOracle ------------------------------
(***************************************************************************)
(* FixOracle on a small instance for TLC: two fixes in one batch, one of   *)
(* Ruby and front-end code and a verified one of front-end code only.      *)
(***************************************************************************)
EXTENDS FixOracle, TLC

MCHunk == 1 :> <<"ctx", "del", "add">> @@ 2 :> <<"note", "ctx", "add">>
===============================================================================
