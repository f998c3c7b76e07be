----------------------------- MODULE MCPayments -----------------------------
(* Payments for TLC: calls are interchangeable, payments and orders too.   *)
EXTENDS Payments, TLC

CONSTANTS FewProviders, FewEvents

(* One order with one payment is taken through everything.                 *)
Touched(o) ==
    \/ Busy(o) # {} \/ o \in disturbed \/ PaymentsOf(o) # {}
    \/ edited[o].status # {} \/ edited[o].paid # {}
    \/ \E p \in PaymentIds : gateway[p].order = o

OneOrder ==
    /\ Cardinality({o \in OrderIds : Touched(o)}) <= 1
    /\ Cardinality({p \in PaymentIds : gateway[p].state # "none"}) <= 1
    /\ \A c \in Calls : call[c].charge = None \/ gateway[call[c].charge].state # "none"

(* More of them without edits and keys, at fewer providers and with fewer  *)
(* events, are enough for charges to be taken for each other's.            *)
ChargesOnly ==
    /\ Cardinality(sent) <= FewEvents /\ Cardinality({e.payment : e \in sent}) <= 1
    /\ \A o \in OrderIds : edited[o].status = {} /\ edited[o].paid = {}
    /\ \A p \in PaymentIds :
          /\ gateway[p].provider \in FewProviders \cup {None}
          /\ payment[p] # None => payment[p].key = None
    /\ \A c \in Calls :
          /\ call[c].kind # "edit" /\ call[c].key = None
          /\ call[c].provider \in FewProviders \cup {None}

MCNext == Next /\ (OneOrder' \/ ChargesOnly')

MCSpec == Init /\ [][MCNext]_vars

Symmetry == Permutations(Calls) \cup Permutations(PaymentIds) \cup Permutations(OrderIds)
=============================================================================
