---------------------------- MODULE UsageLedger -----------------------------
(***************************************************************************)
(* What the bookkeeping of a coupon promises, whatever the order in which  *)
(* requests read and write: every use is entered once and counted once, in *)
(* one step, and an offer that has been used stays on the books.           *)
(*                                                                         *)
(* Coupons implements this module: the refinement is stated there.         *)
(***************************************************************************)
EXTENDS Integers, FiniteSets

CONSTANTS Offers, Uses      \* ids of offers, and whatever tells two uses apart

VARIABLES
    status,     \* status[f]: "none", "open", "closed" or "gone"
    entered,    \* entered[f]: the uses entered for f
    counted     \* counted[f]: how many uses its counter shows

ledger == <<status, entered, counted>>

LedgerInit ==
    /\ status = [f \in Offers |-> "none"]
    /\ entered = [f \in Offers |-> {}]
    /\ counted = [f \in Offers |-> 0]

Open(f) ==
    /\ status[f] = "none"
    /\ status' = [status EXCEPT ![f] = "open"]
    /\ UNCHANGED <<entered, counted>>

(* A use may still come in when the offer is closed: it was granted before *)
Enter(f, u) ==
    /\ status[f] \in {"open", "closed"}
    /\ u \notin entered[f]
    /\ entered' = [entered EXCEPT ![f] = entered[f] \cup {u}]
    /\ counted' = [counted EXCEPT ![f] = counted[f] + 1]
    /\ UNCHANGED status

Close(f) ==
    /\ status[f] = "open" /\ entered[f] # {}
    /\ status' = [status EXCEPT ![f] = "closed"]
    /\ UNCHANGED <<entered, counted>>

Withdraw(f) ==
    /\ status[f] = "open" /\ entered[f] = {}
    /\ status' = [status EXCEPT ![f] = "gone"]
    /\ UNCHANGED <<entered, counted>>

LedgerNext ==
    \E f \in Offers :
        \/ Open(f) \/ Close(f) \/ Withdraw(f)
        \/ \E u \in Uses : Enter(f, u)

LedgerSpec == LedgerInit /\ [][LedgerNext]_ledger
=============================================================================
