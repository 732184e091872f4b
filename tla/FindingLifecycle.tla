--------------------------- MODULE FindingLifecycle ---------------------------
(***************************************************************************)
(* What the finding ledger of vuln-research promises, without saying how:  *)
(* every finding slot has a status and a growing set of evidence; a        *)
(* finding is recorded as candidate or unconfirmed, gathers evidence, and  *)
(* becomes confirmed exactly once, one finding at a time, and only with    *)
(* all the evidence of Required.  FindingLedger implements this            *)
(* specification when nothing writes statuses behind its verbs.            *)
(***************************************************************************)
CONSTANTS
  Slots,      \* the findings
  Required    \* the kinds of evidence a confirmation needs

VARIABLES
  status,     \* status of each slot, "absent" before the finding is recorded
  evidence    \* the evidence each finding has gathered

vars == <<status, evidence>>

Initial == {"candidate", "unconfirmed"}

TypeOK ==
  /\ status \in [Slots -> Initial \cup {"absent", "confirmed"}]
  /\ evidence \in [Slots -> SUBSET Required]

Init ==
  /\ status = [s \in Slots |-> "absent"]
  /\ evidence = [s \in Slots |-> {}]

(* A batch records any number of new findings; nothing old changes. *)
Record ==
  /\ status' \in [Slots -> Initial \cup {"absent", "confirmed"}]
  /\ \A s \in Slots :
       \/ status'[s] = status[s]
       \/ status[s] = "absent" /\ status'[s] \in Initial
  /\ UNCHANGED evidence

(* Evidence about recorded findings arrives and is never taken back. *)
Gather ==
  /\ evidence' \in [Slots -> SUBSET Required]
  /\ \A s \in Slots :
       /\ evidence[s] \subseteq evidence'[s]
       /\ status[s] = "absent" => evidence'[s] = evidence[s]
  /\ UNCHANGED status

(* The decision: a candidate with all its evidence becomes confirmed. *)
Confirm(s) ==
  /\ status[s] = "candidate"
  /\ evidence[s] = Required
  /\ status' = [status EXCEPT ![s] = "confirmed"]
  /\ UNCHANGED evidence

Next ==
  \/ Record
  \/ Gather
  \/ \E s \in Slots : Confirm(s)

Spec == Init /\ [][Next]_vars
===============================================================================
