--------------------------- MODULE PaymentsProofs ---------------------------
(***************************************************************************)
(* Proofs about Payments, for any number of orders, payments and calls.    *)
(*                                                                         *)
(* The safety properties follow from one inductive invariant, whose parts  *)
(* say what a call in flight knows: the rows it is about exist and do not  *)
(* change hands (CallsKnowTheirRows), the intent it is about to insert is  *)
(* its own (IntentsAreFresh), and what it is going to write has a cause:   *)
(* a capture at the provider, or a payment already written (Causes).       *)
(***************************************************************************)
EXTENDS Payments, TLAPS

(* A call past its first read names existing rows, the payment being of    *)
(* the order; create, edit and the others have their own stages.           *)
CallsKnowTheirRows ==
    \A c \in Calls :
        LET q == call[c]
        IN  /\ q.pc # "idle" => q.order \in OrderIds
            /\ q.pc \in {"intent", "insert"} => q.provider \in Providers
            /\ q.pc = "insert" => q.payment \in PaymentIds
            /\ q.pc \in {"ask", "payment"} \/ (q.pc = "order" /\ q.kind # "edit") =>
                  /\ q.payment \in PaymentIds
                  /\ payment[q.payment] # None
                  /\ payment[q.payment].order = q.order
            /\ q.pc = "payment" \/ (q.pc = "order" /\ q.kind # "edit") =>
                  q.to \in PaymentStatus

(* A payment has no row before its intent exists, and an intent waiting to *)
(* be inserted belongs to one call.                                        *)
IntentsAreFresh ==
    /\ \A p \in PaymentIds : gateway[p].state = "none" => payment[p] = None
    /\ \A c \in Calls : call[c].pc = "insert" =>
          /\ gateway[call[c].payment].state # "none"
          /\ payment[call[c].payment] = None
          /\ \A d \in Calls : call[d].pc = "insert" /\ call[d].payment = call[c].payment => d = c

(* A charge that Razorpay has.                                             *)
Known(g) == g \in PaymentIds /\ gateway[g].provider = "RAZORPAY" /\ gateway[g].state # "none"

(* A row names a charge it has named before, and a row of a provider that  *)
(* asks names only what was verified: a charge of Razorpay.                *)
RowsNameTheirCharges ==
    \A p \in PaymentIds : payment[p] # None /\ payment[p].pid # None =>
        /\ payment[p].pid \in named[p]
        /\ payment[p].provider \in Asking => Known(payment[p].pid)

(* An event or a call that will write PAID or REFUNDED has its cause.      *)
Refunded(p) == \E g \in named[p] : gateway[g].state = "refunded"

Causes ==
    /\ \A p \in PaymentIds : payment[p] # None => payment[p].status \in written[p]
    /\ \A e \in sent :
          /\ e.kind = "succeeded" => gateway[e.payment].state \in {"captured", "refunded"}
          /\ e.kind = "refunded" => gateway[e.payment].state = "refunded"
    /\ \A c \in Calls :
        LET q == call[c]
        IN  /\ q.pc = "payment" /\ q.kind = "verify" /\ payment[q.payment].provider \in Asking
                  => Known(q.charge)
            /\ q.pc = "payment" /\ q.to = "PAID" /\ payment[q.payment].provider \in Asking
                  => \E g \in named[q.payment] \cup ({q.charge} \ {None}) : Captured(g)
            /\ q.pc = "order" /\ q.kind # "edit" => q.to \in written[q.payment]
            /\ q.pc \in {"ask", "payment", "order"} /\ q.kind # "edit" /\ q.status = "REFUNDED" =>
                  "PAID" \in written[q.payment] \/ Refunded(q.payment)

(* An order that nothing has disturbed has one call at a time and one      *)
(* payment, which the call writes before it writes the order.              *)
Writing(c) == call[c].pc = "order" /\ call[c].kind # "edit"

AgreesAt(o) ==
    /\ \A c, d \in Busy(o) : c = d
    /\ \A p, q \in PaymentsOf(o) : p = q
    /\ \A c \in Busy(o) : Writing(c) => payment[call[c].payment].status = call[c].to
    /\ \A p \in PaymentsOf(o) :
          payment[p].status = "PAID" /\ order[o].paid # "PAID" => \E c \in Busy(o) : Writing(c)

Undisturbed == \A o \in OrderIds \ disturbed : AgreesAt(o)

(* A call that makes a payment PAID goes on to the order, and one that     *)
(* verifies a payment found it unpaid.                                     *)
CallsKeepTheirKind ==
    \A c \in Calls :
        /\ call[c].pc = "payment" /\ call[c].to = "PAID" => WritesOrder(call[c].kind)
        /\ call[c].pc \in {"ask", "payment"} /\ call[c].kind = "verify" => call[c].seen # "PAID"

IInv ==
    /\ TypeOK
    /\ CallsKnowTheirRows
    /\ IntentsAreFresh
    /\ RowsNameTheirCharges
    /\ Causes
    /\ PaidOnlyIfCaptured
    /\ OrderPaymentBacked
    /\ NoRefundWithoutPayment
    /\ Undisturbed
    /\ CallsKeepTheirKind

-----------------------------------------------------------------------------
(* The invariant holds when no payment has been made yet.                   *)
THEOREM InitIInv == Init => IInv
  <1> SUFFICES ASSUME Init PROVE IInv
    OBVIOUS
  <1>1. TypeOK
    BY PaymentsAssumption DEF Init, TypeOK, Idle, Call, Gateway, Stage, OrderStatus, PaymentStatus
  <1>2. CallsKnowTheirRows /\ IntentsAreFresh /\ RowsNameTheirCharges /\ Causes
    BY PaymentsAssumption
       DEF Init, CallsKnowTheirRows, IntentsAreFresh, RowsNameTheirCharges, Causes, Idle
  <1>3. PaidOnlyIfCaptured /\ OrderPaymentBacked /\ NoRefundWithoutPayment
    BY PaymentsAssumption DEF Init, PaidOnlyIfCaptured, OrderPaymentBacked, NoRefundWithoutPayment
  <1>4. Undisturbed /\ CallsKeepTheirKind
    BY PaymentsAssumption DEF Init, Undisturbed, AgreesAt, CallsKeepTheirKind, Busy, PaymentsOf, Idle
  <1> QED
    BY <1>1, <1>2, <1>3, <1>4 DEF IInv

(* What a provider answers is a status, and a provider that asks its       *)
(* gateway answers of a charge it has, and PAID only of one it captured:   *)
(* Paytm's answer is read under a name it does not have, and is never a    *)
(* success.                                                                *)
LEMMA AnswersAreKnown ==
    ASSUME TypeOK, NEW p \in PaymentIds, payment[p] # None, NEW g \in PaymentIds \cup {None}
    PROVE  /\ Answers(p, g) \subseteq PaymentStatus
           /\ payment[p].provider \in Asking /\ Answers(p, g) # {} => Known(g)
           /\ payment[p].provider \in Asking /\ "PAID" \in Answers(p, g) => Captured(g)
  <1> DEFINE d == payment[p].provider
  <1>1. d \in AllProviders
    BY PaymentsAssumption DEF TypeOK, Payment
  <1>2. Answers(p, g) = Verifies(d, Held(g))
    BY DEF Answers
  <1> HIDE DEF d
  <1>3. CASE d \in {"STRIPE", "COD"}
    BY <1>2, <1>3 DEF Verifies, StripeVerifies, CodVerifies, PaymentStatus, Asking, Apps, d
  <1>4. CASE d = "RAZORPAY"
    <2>1. Answers(p, g) = RazorpayVerifies(Held(g))
      BY <1>2, <1>4 DEF Verifies, Apps
    <2>2. /\ RazorpayVerifies(Held(g)) \subseteq PaymentStatus
          /\ RazorpayVerifies(Held(g)) # {} => Held(g) \in {"captured", "authorized", "refunded"}
          /\ "PAID" \in RazorpayVerifies(Held(g)) => Held(g) = "captured"
      BY DEF RazorpayVerifies, PaymentStatus
    <2>3. Held(g) # "none" => gateway[g].provider = "RAZORPAY" /\ g \in PaymentIds
                                /\ Held(g) = gateway[g].state
      BY DEF Held
    <2> QED
      BY <2>1, <2>2, <2>3 DEF Captured, Known
  <1>5. CASE d \in Apps
    <2>1. Verifies(d, Held(g)) = UpiVerifies(d)
      BY <1>5 DEF Verifies, Apps
    <2>2. UpiVerifies(d) \subseteq {"PAID"}
      BY DEF UpiVerifies
    <2>3. d = "PAYTM" => UpiVerifies(d) = {}
      BY DEF UpiVerifies, AppAnswers
    <2> QED
      BY <1>2, <1>5, <2>1, <2>2, <2>3 DEF PaymentStatus, Asking, Apps, d
  <1> QED
    BY <1>1, <1>3, <1>4, <1>5 DEF AllProviders, d

(* Every step keeps the tables and the calls in flight well typed: a row   *)
(* that is written exists, and what is written is a status.                *)
LEMMA TypeStep == IInv /\ [Next]_vars => TypeOK'
  <1> SUFFICES ASSUME IInv, [Next]_vars PROVE TypeOK'
    OBVIOUS
  <1> USE PaymentsAssumption DEF IInv, TypeOK
  <1>1. ASSUME NEW c \in Calls, NEW o \in OrderIds, NEW d \in Providers,
               NEW k \in Keys \cup {None}, CreateRead(c, o, d, k)
        PROVE  TypeOK'
    BY <1>1 DEF CreateRead, Started, Call, Idle, Stage, Kinds
  <1>2. ASSUME NEW c \in Calls, NEW p \in PaymentIds, CreateIntent(c, p)
        PROVE  TypeOK'
    <2>1. call' \in [Calls -> Call]
      <3> DEFINE q == [call[c] EXCEPT !.pc = "insert", !.payment = p]
      <3>1. call[c] \in Call
        OBVIOUS
      <3>2. q \in Call
        BY <3>1 DEF Call, Stage
      <3> HIDE DEF q
      <3> QED
        BY <1>2, <3>2 DEF CreateIntent, q
    <2>2. call[c].provider \in Providers /\ call[c].order \in OrderIds
      BY <1>2 DEF CreateIntent, CallsKnowTheirRows
    <2>3. gateway' \in [PaymentIds -> Gateway]
      BY <1>2, <2>2 DEF CreateIntent, Gateway
    <2> QED
      BY <1>2, <2>1, <2>3 DEF CreateIntent
  <1>3. ASSUME NEW c \in Calls, CreateInsert(c)
        PROVE  TypeOK'
    <2>1. call' \in [Calls -> Call]
      BY <1>3 DEF CreateInsert, Call, Idle, Stage
    <2>2. payment' \in [PaymentIds -> Payment \cup {None}]
      BY <1>3 DEF CreateInsert, CallsKnowTheirRows, Call, Payment, FirstId, PaymentStatus
    <2>5. named' \in [PaymentIds -> SUBSET PaymentIds]
      BY <1>3 DEF CreateInsert, CallsKnowTheirRows, FirstId
    <2>3. written' \in [PaymentIds -> SUBSET PaymentStatus]
      BY <1>3 DEF CreateInsert, PaymentStatus
    <2>4. disturbed' \subseteq OrderIds
      BY <1>3 DEF CreateInsert, CallsKnowTheirRows
    <2> QED
      BY <1>3, <2>1, <2>2, <2>3, <2>4, <2>5 DEF CreateInsert
  <1>4. ASSUME NEW c \in Calls, NEW p \in PaymentIds,
               NEW g \in PaymentIds \cup {None}, VerifyRead(c, p, g)
        PROVE  TypeOK'
    <2>1. payment[p] \in Payment
      BY <1>4 DEF VerifyRead
    <2>2. call' \in [Calls -> Call]
      BY <1>4, <2>1 DEF VerifyRead, Payment, Call, Idle, Stage, Kinds
    <2> QED
      BY <1>4, <2>1, <2>2 DEF VerifyRead, Started, Payment
  <1>5. ASSUME NEW c \in Calls, VerifyAsk(c)
        PROVE  TypeOK'
    <2>1. Answers(call[c].payment, call[c].charge) \subseteq PaymentStatus
      <3>1. /\ payment[call[c].payment] \in Payment
            /\ call[c].payment \in PaymentIds /\ call[c].charge \in PaymentIds \cup {None}
        BY <1>5 DEF VerifyAsk, CallsKnowTheirRows, Call
      <3> QED
        BY <3>1, AnswersAreKnown, RowAssumption
    <2>2. call' \in [Calls -> Call]
      <3> DEFINE q(s) == [call[c] EXCEPT !.pc = "payment", !.to = s]
      <3>1. call[c] \in Call
        OBVIOUS
      <3>2. \A s \in PaymentStatus : q(s) \in Call
        BY <3>1 DEF Call, Stage
      <3>3. PICK s \in Answers(call[c].payment, call[c].charge) : call' = [call EXCEPT ![c] = q(s)]
        BY <1>5 DEF VerifyAsk
      <3> HIDE DEF q
      <3> QED
        BY <2>1, <3>2, <3>3
    <2> QED
      BY <1>5, <2>2 DEF VerifyAsk
  <1>6. ASSUME NEW c \in Calls, NEW p \in PaymentIds, RefundRead(c, p)
        PROVE  TypeOK'
    <2>1. payment[p] \in Payment
      BY <1>6 DEF RefundRead
    <2>2. call' \in [Calls -> Call]
      BY <1>6, <2>1 DEF RefundRead, Payment, Call, Idle, Stage, Kinds, PaymentStatus, OrderStatus
    <2> QED
      BY <1>6, <2>1, <2>2 DEF RefundRead, Started, Payment
  <1>7. ASSUME NEW c \in Calls, NEW e \in sent, NEW p \in PaymentIds, Deliver(c, e, p)
        PROVE  TypeOK'
    <2>1. payment[p] \in Payment /\ e.kind \in Webhooks
      BY <1>7 DEF Deliver, Finds, Event
    <2>2. /\ StatusAfter(e.kind) \in PaymentStatus
          /\ OrderStatusAfter(e.kind) \in OrderStatus \cup {None}
      BY <2>1 DEF Webhooks, StatusAfter, OrderStatusAfter, PaymentStatus, OrderStatus
    <2>3. call' \in [Calls -> Call]
      BY <1>7, <2>1, <2>2 DEF Deliver, Finds, Payment, Call, Idle, Stage, Kinds, Webhooks
    <2> QED
      BY <1>7, <2>1, <2>3 DEF Deliver, Finds, Started, Payment
  <1>8. ASSUME NEW c \in Calls, WritePayment(c)
        PROVE  TypeOK'
    <2>1. /\ call[c].payment \in PaymentIds
          /\ payment[call[c].payment] \in Payment
          /\ call[c].to \in PaymentStatus /\ call[c].charge \in PaymentIds \cup {None}
      BY <1>8 DEF WritePayment, CallsKnowTheirRows, Call
    <2>2. call' \in [Calls -> Call]
      <3> DEFINE q == [call[c] EXCEPT !.pc = "order", !.seen = None, !.charge = None]
      <3>1. call[c] \in Call /\ Idle \in Call
        BY DEF Idle, Call, Stage
      <3>2. q \in Call
        BY <3>1 DEF Call, Stage
      <3> HIDE DEF q
      <3> QED
        BY <1>8, <3>1, <3>2 DEF WritePayment, q
    <2>3. payment' \in [PaymentIds -> Payment \cup {None}]
      BY <1>8, <2>1 DEF WritePayment, Payment
    <2>4. written' \in [PaymentIds -> SUBSET PaymentStatus]
      BY <1>8, <2>1 DEF WritePayment
    <2>5. named' \in [PaymentIds -> SUBSET PaymentIds]
      BY <1>8, <2>1 DEF WritePayment
    <2> QED
      BY <1>8, <2>2, <2>3, <2>4, <2>5 DEF WritePayment
  <1>9. ASSUME NEW c \in Calls, WriteOrder(c)
        PROVE  TypeOK'
    BY <1>9 DEF WriteOrder, CallsKnowTheirRows, Call, Idle, Stage
  <1>10. ASSUME NEW c \in Calls, Abandon(c)
         PROVE  TypeOK'
    BY <1>10 DEF Abandon, CallsKnowTheirRows, Call, Idle, Stage
  <1>11. ASSUME NEW c \in Calls, NEW o \in OrderIds, NEW s \in EditStatuses \cup {None},
                NEW paid \in EditPayments \cup {None}, EditRead(c, o, s, paid)
         PROVE  TypeOK'
    BY <1>11 DEF EditRead, Started, Call, Idle, Stage, Kinds
  <1>12. ASSUME NEW c \in Calls, EditWrite(c)
         PROVE  TypeOK'
    <2>1. /\ call[c].order \in OrderIds
          /\ call[c].status \in OrderStatus \cup {None}
          /\ call[c].to \in PaymentStatus \cup {None}
      BY <1>12 DEF EditWrite, CallsKnowTheirRows, Call
    <2>2. call' \in [Calls -> Call]
      BY <1>12 DEF EditWrite, Call, Idle, Stage
    <2>3. order' \in [OrderIds -> [status : OrderStatus, paid : PaymentStatus]]
      BY <1>12, <2>1 DEF EditWrite
    <2>4. edited' \in [OrderIds -> [status : SUBSET OrderStatus, paid : SUBSET PaymentStatus]]
      BY <1>12, <2>1 DEF EditWrite
    <2> QED
      BY <1>12, <2>1, <2>2, <2>3, <2>4 DEF EditWrite
  <1>13. ASSUME NEW p \in PaymentIds, NEW m \in Moves, GatewayMoves(p, m)
         PROVE  TypeOK'
    BY <1>13 DEF GatewayMoves, Moves, Gateway, Event, Webhooks
  <1>14. CASE UNCHANGED vars
    BY <1>14 DEF vars
  <1> QED
    BY <1>1, <1>2, <1>3, <1>4, <1>5, <1>6, <1>7, <1>8, <1>9, <1>10, <1>11, <1>12, <1>13, <1>14
       DEF Next, CallStep

(* A row, once inserted, stays: no step removes it or gives it to another  *)
(* order or provider.                                                      *)
LEMMA RowsStay ==
  IInv /\ [Next]_vars =>
    \A p \in PaymentIds : payment[p] # None =>
        /\ payment'[p] # None
        /\ payment'[p].order = payment[p].order
        /\ payment'[p].provider = payment[p].provider
        /\ written[p] \subseteq written'[p] /\ named[p] \subseteq named'[p]
  <1> SUFFICES ASSUME IInv, [Next]_vars, NEW p \in PaymentIds, payment[p] # None
               PROVE  /\ payment'[p] # None
                      /\ payment'[p].order = payment[p].order
                      /\ payment'[p].provider = payment[p].provider
                      /\ written[p] \subseteq written'[p] /\ named[p] \subseteq named'[p]
    OBVIOUS
  <1>1. payment[p] \in Payment
    BY DEF IInv, TypeOK
  <1>2. ASSUME NEW c \in Calls, CreateInsert(c)
        PROVE  payment'[p] = payment[p] /\ written[p] \subseteq written'[p] /\ named[p] \subseteq named'[p]
    <2>1. call[c].payment # p
      BY <1>2 DEF CreateInsert, IInv, IntentsAreFresh
    <2> QED
      BY <1>2, <2>1 DEF CreateInsert, IInv, TypeOK
  <1>3. ASSUME NEW c \in Calls, WritePayment(c)
        PROVE  /\ payment'[p].order = payment[p].order
               /\ payment'[p].provider = payment[p].provider
               /\ written[p] \subseteq written'[p] /\ named[p] \subseteq named'[p]
               /\ payment'[p] \in Payment
    <2>1. /\ call[c].payment \in PaymentIds /\ call[c].to \in PaymentStatus
          /\ call[c].charge \in PaymentIds \cup {None}
      BY <1>3 DEF WritePayment, IInv, CallsKnowTheirRows, TypeOK, Call
    <2>2. CASE call[c].payment = p
      BY <1>1, <1>3, <2>1, <2>2 DEF WritePayment, IInv, TypeOK, Payment
    <2>3. CASE call[c].payment # p
      BY <1>1, <1>3, <2>1, <2>3 DEF WritePayment, IInv, TypeOK
    <2> QED
      BY <2>2, <2>3
  <1>4. ASSUME payment' = payment, written' = written, named' = named
        PROVE  payment'[p] = payment[p] /\ written[p] \subseteq written'[p] /\ named[p] \subseteq named'[p]
    BY <1>4
  <1> QED
    BY <1>1, <1>2, <1>3, <1>4, RowAssumption
       DEF Next, CallStep, vars, CreateRead, CreateIntent, VerifyRead, VerifyAsk, RefundRead,
           Deliver, WriteOrder, Abandon, EditRead, EditWrite, GatewayMoves

(* A gateway's charge stays what it is: captured, refunded, of Razorpay.   *)
LEMMA ChargesStay ==
  IInv /\ [Next]_vars =>
    \A g \in PaymentIds :
        /\ Captured(g) => Captured(g)'
        /\ Known(g) => Known(g)'
        /\ gateway[g].state = "refunded" => gateway'[g].state = "refunded"
        /\ gateway[g].state \in {"captured", "refunded"} =>
              gateway'[g].state \in {"captured", "refunded"}
  <1> SUFFICES ASSUME IInv, [Next]_vars, NEW g \in PaymentIds
               PROVE  /\ Captured(g) => Captured(g)'
                      /\ Known(g) => Known(g)'
                      /\ gateway[g].state = "refunded" => gateway'[g].state = "refunded"
                      /\ gateway[g].state \in {"captured", "refunded"} =>
                            gateway'[g].state \in {"captured", "refunded"}
    OBVIOUS
  <1>1. ASSUME NEW c \in Calls, NEW p \in PaymentIds, CreateIntent(c, p)
        PROVE  gateway[g].state = "none" \/ gateway'[g] = gateway[g]
    BY <1>1 DEF CreateIntent, IInv, TypeOK
  <1>2. ASSUME NEW p \in PaymentIds, NEW m \in Moves, GatewayMoves(p, m)
        PROVE  /\ gateway'[g].provider = gateway[g].provider
               /\ gateway'[g].state = gateway[g].state
                    \/ (gateway[g].state = m[1] /\ gateway'[g].state = m[2])
    BY <1>2 DEF GatewayMoves, IInv, TypeOK, Gateway
  <1>3. \A m \in Moves : /\ m[2] # "none" /\ m[1] # "refunded"
                         /\ m[1] = "captured" => m[2] \in {"captured", "refunded"}
    BY DEF Moves
  <1>4. CASE \E c \in Calls, p \in PaymentIds : CreateIntent(c, p)
    BY <1>1, <1>4 DEF Captured, Known
  <1>5. CASE \E p \in PaymentIds, m \in Moves : GatewayMoves(p, m)
    BY <1>2, <1>3, <1>5 DEF Captured, Known
  <1>6. CASE gateway' = gateway
    BY <1>6 DEF Captured, Known
  <1> QED
    BY <1>4, <1>5, <1>6
       DEF Next, CallStep, vars, CreateRead, CreateInsert, VerifyRead, VerifyAsk, RefundRead,
           Deliver, WritePayment, WriteOrder, Abandon, EditRead, EditWrite

(* Calls keep naming existing rows of the order they are about.            *)
LEMMA RowsStep == IInv /\ [Next]_vars => CallsKnowTheirRows'
  <1> SUFFICES ASSUME IInv, [Next]_vars PROVE CallsKnowTheirRows'
    OBVIOUS
  <1> USE PaymentsAssumption DEF IInv, TypeOK, CallsKnowTheirRows, IntentsAreFresh, Call, Idle, Payment, PaymentStatus
  <1>1. ASSUME NEW c \in Calls, NEW o \in OrderIds, NEW d \in Providers, NEW k \in Keys \cup {None},
                    CreateRead(c, o, d, k)
        PROVE  CallsKnowTheirRows'
    BY <1>1 DEF CreateRead
  <1>2. ASSUME NEW c \in Calls, NEW p \in PaymentIds, CreateIntent(c, p)
        PROVE  CallsKnowTheirRows'
    BY <1>2 DEF CreateIntent
  <1>3. ASSUME NEW c \in Calls, CreateInsert(c)
        PROVE  CallsKnowTheirRows'
    BY <1>3 DEF CreateInsert
  <1>4. ASSUME NEW c \in Calls, NEW p \in PaymentIds,
               NEW g \in PaymentIds \cup {None}, VerifyRead(c, p, g)
        PROVE  CallsKnowTheirRows'
    BY <1>4 DEF VerifyRead
  <1>5. ASSUME NEW c \in Calls, VerifyAsk(c)
        PROVE  CallsKnowTheirRows'
    <2>1. /\ call[c].payment \in PaymentIds
          /\ payment[call[c].payment] \in Payment /\ payment[call[c].payment] # None
          /\ call[c].charge \in PaymentIds \cup {None}
      BY <1>5, RowAssumption DEF VerifyAsk
    <2>2. \A s \in Answers(call[c].payment, call[c].charge) : s \in PaymentStatus
      BY <2>1, AnswersAreKnown
    <2> QED
      BY <1>5, <2>1, <2>2 DEF VerifyAsk
  <1>6. ASSUME NEW c \in Calls, NEW p \in PaymentIds, RefundRead(c, p)
        PROVE  CallsKnowTheirRows'
    BY <1>6 DEF RefundRead
  <1>7. ASSUME NEW c \in Calls, NEW e \in sent, NEW p \in PaymentIds, Deliver(c, e, p)
        PROVE  CallsKnowTheirRows'
    BY <1>7 DEF Deliver, Finds, StatusAfter, OrderStatusAfter, Event, Webhooks
  <1>8. ASSUME NEW c \in Calls, WritePayment(c)
        PROVE  CallsKnowTheirRows'
    <2>1. /\ call[c] \in Call /\ call[c].pc = "payment"
          /\ call' = [call EXCEPT ![c] = call'[c]]
      BY <1>8 DEF WritePayment
    <2>2. \/ call'[c] = Idle
          \/ /\ call'[c].pc = "order" /\ call'[c].order = call[c].order
             /\ call'[c].payment = call[c].payment /\ call'[c].to = call[c].to
      BY <1>8, <2>1 DEF WritePayment
    <2> QED
      BY <2>1, <2>2, RowsStay
  <1>9. ASSUME NEW c \in Calls, WriteOrder(c)
        PROVE  CallsKnowTheirRows'
    BY <1>9 DEF WriteOrder
  <1>10. ASSUME NEW c \in Calls, Abandon(c)
        PROVE  CallsKnowTheirRows'
    BY <1>10 DEF Abandon
  <1>11. ASSUME NEW c \in Calls, NEW o \in OrderIds, NEW s \in EditStatuses \cup {None},
                    NEW paid \in EditPayments \cup {None}, EditRead(c, o, s, paid)
        PROVE  CallsKnowTheirRows'
    BY <1>11 DEF EditRead
  <1>12. ASSUME NEW c \in Calls, EditWrite(c)
        PROVE  CallsKnowTheirRows'
    BY <1>12 DEF EditWrite
  <1>13. ASSUME NEW p \in PaymentIds, NEW m \in Moves, GatewayMoves(p, m)
        PROVE  CallsKnowTheirRows'
    BY <1>13 DEF GatewayMoves, Moves, Event, Webhooks
  <1>14. CASE UNCHANGED vars
    BY <1>14 DEF vars
  <1> QED
    BY <1>1, <1>2, <1>3, <1>4, <1>5, <1>6, <1>7, <1>8, <1>9, <1>10, <1>11, <1>12, <1>13, <1>14 DEF Next, CallStep

(* createPaymentIntent inserts a row no one else has inserted: intents are *)
(* made by the provider, one for each call.                                *)
LEMMA FreshStep == IInv /\ [Next]_vars => IntentsAreFresh'
  <1> SUFFICES ASSUME IInv, [Next]_vars PROVE IntentsAreFresh'
    OBVIOUS
  <1> USE PaymentsAssumption DEF IInv, TypeOK, CallsKnowTheirRows, IntentsAreFresh, Call, Idle, Payment, Gateway
  <1>1. ASSUME NEW c \in Calls, NEW o \in OrderIds, NEW d \in Providers, NEW k \in Keys \cup {None},
                    CreateRead(c, o, d, k)
        PROVE  IntentsAreFresh'
    BY <1>1 DEF CreateRead
  <1>2. ASSUME NEW c \in Calls, NEW p \in PaymentIds, CreateIntent(c, p)
        PROVE  IntentsAreFresh'
    BY <1>2 DEF CreateIntent
  <1>3. ASSUME NEW c \in Calls, CreateInsert(c)
        PROVE  IntentsAreFresh'
    BY <1>3 DEF CreateInsert
  <1>4. ASSUME NEW c \in Calls, NEW p \in PaymentIds,
               NEW g \in PaymentIds \cup {None}, VerifyRead(c, p, g)
        PROVE  IntentsAreFresh'
    BY <1>4 DEF VerifyRead
  <1>5. ASSUME NEW c \in Calls, VerifyAsk(c)
        PROVE  IntentsAreFresh'
    BY <1>5 DEF VerifyAsk
  <1>6. ASSUME NEW c \in Calls, NEW p \in PaymentIds, RefundRead(c, p)
        PROVE  IntentsAreFresh'
    BY <1>6 DEF RefundRead
  <1>7. ASSUME NEW c \in Calls, NEW e \in sent, NEW p \in PaymentIds, Deliver(c, e, p)
        PROVE  IntentsAreFresh'
    BY <1>7 DEF Deliver, Finds, StatusAfter, OrderStatusAfter, Event, Webhooks
  <1>8. ASSUME NEW c \in Calls, WritePayment(c)
        PROVE  IntentsAreFresh'
    BY <1>8 DEF WritePayment
  <1>9. ASSUME NEW c \in Calls, WriteOrder(c)
        PROVE  IntentsAreFresh'
    BY <1>9 DEF WriteOrder
  <1>10. ASSUME NEW c \in Calls, Abandon(c)
        PROVE  IntentsAreFresh'
    BY <1>10 DEF Abandon
  <1>11. ASSUME NEW c \in Calls, NEW o \in OrderIds, NEW s \in EditStatuses \cup {None},
                    NEW paid \in EditPayments \cup {None}, EditRead(c, o, s, paid)
        PROVE  IntentsAreFresh'
    BY <1>11 DEF EditRead
  <1>12. ASSUME NEW c \in Calls, EditWrite(c)
        PROVE  IntentsAreFresh'
    BY <1>12 DEF EditWrite
  <1>13. ASSUME NEW p \in PaymentIds, NEW m \in Moves, GatewayMoves(p, m)
        PROVE  IntentsAreFresh'
    BY <1>13 DEF GatewayMoves, Moves, Event, Webhooks
  <1>14. CASE UNCHANGED vars
    BY <1>14 DEF vars
  <1> QED
    BY <1>1, <1>2, <1>3, <1>4, <1>5, <1>6, <1>7, <1>8, <1>9, <1>10, <1>11, <1>12, <1>13, <1>14 DEF Next, CallStep

(* A row names what it was verified with: charges of Razorpay, where the   *)
(* provider asks.                                                          *)
LEMMA NamesStep == IInv /\ [Next]_vars => RowsNameTheirCharges'
  <1> SUFFICES ASSUME IInv, [Next]_vars, NEW p \in PaymentIds,
                      payment'[p] # None, payment'[p].pid # None
               PROVE  /\ payment'[p].pid \in named'[p]
                      /\ payment'[p].provider \in Asking => Known(payment[p].pid)'
    BY DEF RowsNameTheirCharges
  <1>1. ASSUME payment'[p] = payment[p]
        PROVE  /\ payment'[p].pid \in named'[p]
               /\ payment'[p].provider \in Asking => Known(payment[p].pid)'
    <2>1. payment[p] # None /\ named[p] \subseteq named'[p]
      BY <1>1, RowsStay
    <2>2. payment[p].pid \in named[p] /\ payment[p].pid \in PaymentIds
      BY <1>1, <2>1 DEF IInv, RowsNameTheirCharges, TypeOK
    <2>3. Known(payment[p].pid) => Known(payment[p].pid)'
      BY <1>1, <2>2, ChargesStay DEF Known
    <2> QED
      BY <1>1, <2>1, <2>2, <2>3 DEF IInv, RowsNameTheirCharges, Known
  <1>2. ASSUME NEW c \in Calls, CreateInsert(c), call[c].payment = p
        PROVE  /\ payment'[p].pid \in named'[p]
               /\ payment'[p].provider \in Asking => Known(payment[p].pid)'
    <2>1. payment'[p].pid = FirstId(call[c].provider, p) /\ payment'[p].provider = call[c].provider
      BY <1>2 DEF CreateInsert, IInv, TypeOK
    <2>2. payment'[p].pid \in named'[p]
      BY <1>2, <2>1 DEF CreateInsert, IInv, TypeOK
    <2> QED
      BY <2>1, <2>2 DEF FirstId, GatewayNamesCharge, Asking
  <1>3. ASSUME NEW c \in Calls, WritePayment(c), call[c].payment = p
        PROVE  /\ payment'[p].pid \in named'[p]
               /\ payment'[p].provider \in Asking => Known(payment[p].pid)'
    <2>1. /\ payment[p] # None /\ payment[p] \in Payment
          /\ call[c].charge \in PaymentIds \cup {None}
      BY <1>3 DEF WritePayment, IInv, CallsKnowTheirRows, TypeOK, Call
    <2>2. /\ payment'[p].pid = IF call[c].kind = "verify" THEN call[c].charge ELSE payment[p].pid
          /\ payment'[p].provider = payment[p].provider
          /\ named'[p] = named[p] \cup ({call[c].charge} \ {None})
          /\ gateway' = gateway
      BY <1>3, <2>1 DEF WritePayment, IInv, TypeOK, Payment
    <2>3. CASE call[c].kind = "verify"
      <3>1. payment[p].provider \in Asking => Known(call[c].charge)
        BY <1>3, <2>3 DEF WritePayment, IInv, Causes
      <3> QED
        BY <2>2, <2>3, <3>1 DEF Known
    <2>4. CASE call[c].kind # "verify"
      BY <2>1, <2>2, <2>4 DEF IInv, RowsNameTheirCharges, Known
    <2> QED
      BY <2>3, <2>4
  <1>4. ASSUME NEW c \in Calls, CreateInsert(c) \/ WritePayment(c), call[c].payment # p
        PROVE  payment'[p] = payment[p]
    BY <1>4 DEF CreateInsert, WritePayment, IInv, TypeOK
  <1> QED
    BY <1>1, <1>2, <1>3, <1>4
       DEF Next, CallStep, vars, CreateRead, CreateIntent, VerifyRead, VerifyAsk, RefundRead,
           Deliver, WriteOrder, Abandon, EditRead, EditWrite, GatewayMoves

(* A call that writes a payment knows why: the charge it verified was      *)
(* captured, or the row names one that was captured or refunded.           *)
PaymentCause(c) ==
    LET q == call[c]
    IN  /\ q.kind = "verify" /\ payment[q.payment].provider \in Asking => Known(q.charge)
        /\ q.to = "PAID" /\ payment[q.payment].provider \in Asking
              => \E g \in named[q.payment] \cup ({q.charge} \ {None}) : Captured(g)

RefundCause(c) ==
    call[c].status = "REFUNDED" =>
        "PAID" \in written[call[c].payment] \/ Refunded(call[c].payment)

(* A call that is left alone keeps its causes: rows keep what they named,  *)
(* and charges what they are.                                              *)
LEMMA CausesStay ==
  ASSUME IInv, [Next]_vars, NEW c \in Calls, call'[c] = call[c]
  PROVE  /\ call[c].pc = "payment" => PaymentCause(c)'
         /\ call[c].pc \in {"ask", "payment", "order"} /\ call[c].kind # "edit" => RefundCause(c)'
         /\ call[c].pc = "order" /\ call[c].kind # "edit"
               => call[c].to \in written'[call[c].payment]
  <1> SUFFICES ASSUME call[c].pc \in {"ask", "payment"} \/ (call[c].pc = "order" /\ call[c].kind # "edit")
               PROVE  /\ call[c].pc = "payment" => PaymentCause(c)'
                      /\ call[c].kind # "edit" => RefundCause(c)'
                      /\ call[c].pc = "order" /\ call[c].kind # "edit"
                            => call[c].to \in written'[call[c].payment]
    OBVIOUS
  <1> DEFINE p == call[c].payment
  <1>1. p \in PaymentIds /\ payment[p] # None /\ call[c] \in Call
    BY DEF IInv, CallsKnowTheirRows, TypeOK
  <1>2. /\ payment'[p].provider = payment[p].provider
        /\ written[p] \subseteq written'[p] /\ named[p] \subseteq named'[p]
        /\ named[p] \subseteq PaymentIds
    BY <1>1, RowsStay DEF IInv, TypeOK
  <1>3. \A g \in PaymentIds :
           /\ Captured(g) => Captured(g)'
           /\ Known(g) => Known(g)'
    BY ChargesStay
  <1>4. \A g \in PaymentIds : gateway[g].state = "refunded" => gateway'[g].state = "refunded"
    BY ChargesStay
  <1>5. call[c].charge \in PaymentIds \cup {None}
    BY <1>1 DEF Call
  <1>6. Refunded(p) => \E g \in named'[p] : gateway'[g].state = "refunded"
    BY <1>2, <1>4 DEF Refunded
  <1>7. call[c].kind # "edit" => RefundCause(c)'
    BY <1>2, <1>6 DEF IInv, Causes, RefundCause, Refunded
  <1>8. CASE call[c].pc = "payment"
    <2>1. PaymentCause(c)
      BY <1>8 DEF IInv, Causes, PaymentCause
    <2>2. Known(call[c].charge) => Known(call[c].charge)'
      BY <1>3 DEF Known
    <2>3. ASSUME \E g \in named[p] \cup ({call[c].charge} \ {None}) : Captured(g)
          PROVE  \E g \in named'[p] \cup ({call[c].charge} \ {None}) : Captured(g)'
      BY <1>2, <1>3, <1>5, <2>3
    <2> QED
      BY <1>2, <1>7, <1>8, <2>1, <2>2, <2>3 DEF PaymentCause, Known
  <1>9. CASE call[c].pc # "payment"
    BY <1>2, <1>7, <1>9 DEF IInv, Causes
  <1> QED
    BY <1>8, <1>9

(* What calls and events are going to write keeps having a cause: the      *)
(* provider's side of a payment never goes back.                           *)
LEMMA CausesStep == IInv /\ [Next]_vars => Causes'
  <1> SUFFICES ASSUME IInv, [Next]_vars PROVE Causes'
    OBVIOUS
  <1>1. \A p \in PaymentIds : payment'[p] # None => payment'[p].status \in written'[p]
    <2> SUFFICES ASSUME NEW p \in PaymentIds, payment'[p] # None
                 PROVE  payment'[p].status \in written'[p]
      OBVIOUS
    <2>1. CASE payment'[p] = payment[p]
      BY <2>1, RowsStay DEF IInv, Causes
    <2>2. ASSUME NEW c \in Calls, CreateInsert(c)
          PROVE  payment'[p] = payment[p] \/ payment'[p].status \in written'[p]
      BY <2>2 DEF CreateInsert, IInv, TypeOK
    <2>3. ASSUME NEW c \in Calls, WritePayment(c)
          PROVE  payment'[p] = payment[p] \/ payment'[p].status \in written'[p]
      <3>1. CASE call[c].payment = p
        BY <2>3, <3>1 DEF WritePayment, IInv, TypeOK, CallsKnowTheirRows, Payment
      <3>2. CASE call[c].payment # p
        BY <2>3, <3>2 DEF WritePayment, IInv, TypeOK
      <3> QED
        BY <3>1, <3>2
    <2> QED
      BY <2>1, <2>2, <2>3
         DEF Next, CallStep, vars, CreateRead, CreateIntent, VerifyRead, VerifyAsk, RefundRead,
             Deliver, WriteOrder, Abandon, EditRead, EditWrite, GatewayMoves
  <1>2. \A e \in sent' :
           /\ e.kind = "succeeded" => gateway'[e.payment].state \in {"captured", "refunded"}
           /\ e.kind = "refunded" => gateway'[e.payment].state = "refunded"
    <2>1. \A e \in sent :
             /\ e.kind = "succeeded" => gateway'[e.payment].state \in {"captured", "refunded"}
             /\ e.kind = "refunded" => gateway'[e.payment].state = "refunded"
      BY ChargesStay DEF IInv, Causes, TypeOK, Event
    <2>2. ASSUME NEW p \in PaymentIds, NEW m \in Moves, GatewayMoves(p, m), NEW e \in sent' \ sent
          PROVE  /\ e.kind = "succeeded" => gateway'[e.payment].state \in {"captured", "refunded"}
                 /\ e.kind = "refunded" => gateway'[e.payment].state = "refunded"
      BY <2>2 DEF GatewayMoves, Moves, IInv, TypeOK, Gateway
    <2>3. CASE sent' = sent
      BY <2>1, <2>3
    <2> QED
      BY <2>1, <2>2, <2>3
         DEF Next, CallStep, vars, CreateRead, CreateIntent, CreateInsert, VerifyRead, VerifyAsk,
             RefundRead, Deliver, WritePayment, WriteOrder, Abandon, EditRead, EditWrite
  <1>3. ASSUME NEW c \in Calls
        PROVE  /\ call'[c].pc = "payment" => PaymentCause(c)'
               /\ call'[c].pc = "order" /\ call'[c].kind # "edit"
                     => call'[c].to \in written'[call'[c].payment]
               /\ call'[c].pc \in {"ask", "payment", "order"} /\ call'[c].kind # "edit"
                     => RefundCause(c)'
    <2> DEFINE Goal == /\ call'[c].pc = "payment" => PaymentCause(c)'
                       /\ call'[c].pc = "order" /\ call'[c].kind # "edit"
                             => call'[c].to \in written'[call'[c].payment]
                       /\ call'[c].pc \in {"ask", "payment", "order"} /\ call'[c].kind # "edit"
                             => RefundCause(c)'
    <2>1. CASE call'[c] = call[c]
      BY <2>1, CausesStay
    <2>2. CASE call'[c] = Idle
      BY <2>2, PaymentsAssumption DEF Idle
    <2>3. ASSUME NEW o \in OrderIds, NEW d \in Providers, NEW k \in Keys \cup {None},
                 CreateRead(c, o, d, k)
          PROVE  Goal
      BY <2>3 DEF CreateRead, IInv, TypeOK, Idle
    <2>4. ASSUME NEW p \in PaymentIds, CreateIntent(c, p)
          PROVE  Goal
      BY <2>4 DEF CreateIntent, IInv, TypeOK, Call
    <2>5. ASSUME NEW p \in PaymentIds, NEW g \in PaymentIds \cup {None}, VerifyRead(c, p, g)
          PROVE  Goal
      BY <2>5, PaymentsAssumption DEF VerifyRead, IInv, TypeOK, Idle, RefundCause, OrderStatus
    <2>6. CASE VerifyAsk(c)
      <3> DEFINE p == call[c].payment
                 g == call[c].charge
      <3>1. /\ p \in PaymentIds /\ payment[p] # None /\ call[c] \in Call
            /\ g \in PaymentIds \cup {None}
            /\ call[c].pc = "ask" /\ call[c].kind = "verify"
        BY <2>6 DEF VerifyAsk, IInv, CallsKnowTheirRows, TypeOK, Call
      <3>2. PICK s \in Answers(p, g) : call'[c] = [call[c] EXCEPT !.pc = "payment", !.to = s]
        BY <2>6 DEF VerifyAsk, IInv, TypeOK
      <3>3. /\ call'[c].pc = "payment" /\ call'[c].to = s /\ call'[c].payment = p
            /\ call'[c].charge = g /\ call'[c].status = call[c].status
        BY <3>1, <3>2 DEF Call
      <3>4. UNCHANGED <<payment, gateway, written, named>>
        BY <2>6 DEF VerifyAsk
      <3>5. /\ payment[p].provider \in Asking => Known(g)
            /\ payment[p].provider \in Asking /\ s = "PAID" => Captured(g)
        BY <3>1, <3>2, AnswersAreKnown DEF IInv
      <3>6. PaymentCause(c)'
        BY <3>3, <3>4, <3>5, PaymentsAssumption DEF PaymentCause, Known, Captured
      <3>7. RefundCause(c)'
        BY <3>1, <3>3, <3>4 DEF IInv, Causes, RefundCause, Refunded
      <3> QED
        BY <3>3, <3>6, <3>7
    <2>7. ASSUME NEW p \in PaymentIds, RefundRead(c, p)
          PROVE  Goal
      <3>1. /\ call'[c].kind = "refund" /\ call'[c].pc = "payment" /\ call'[c].to = "REFUNDED"
            /\ call'[c].payment = p /\ written' = written
        BY <2>7 DEF RefundRead, IInv, TypeOK, Idle
      <3>2. "PAID" \in written[p]
        BY <2>7 DEF RefundRead, IInv, Causes
      <3> QED
        BY <3>1, <3>2 DEF PaymentCause, RefundCause
    <2>8. ASSUME NEW e \in sent, NEW p \in PaymentIds, Deliver(c, e, p)
          PROVE  Goal
      <3>1. /\ call'[c].kind = e.kind /\ call'[c].pc = "payment" /\ call'[c].payment = p
            /\ call'[c].to = StatusAfter(e.kind) /\ call'[c].status = OrderStatusAfter(e.kind)
            /\ UNCHANGED <<payment, gateway, written, named>>
        BY <2>8 DEF Deliver, IInv, TypeOK, Idle
      <3>2. /\ e.payment \in PaymentIds /\ e.kind \in Webhooks
            /\ payment[p] # None /\ payment[p].pid = e.payment
        BY <2>8 DEF Deliver, Finds, IInv, TypeOK, Event
      <3>3. /\ e.payment \in named[p]
            /\ payment[p].provider \in Asking => Known(e.payment)
        BY <3>2, PaymentsAssumption DEF IInv, RowsNameTheirCharges
      <3>4. /\ StatusAfter(e.kind) = "PAID" => e.kind = "succeeded"
            /\ OrderStatusAfter(e.kind) = "REFUNDED" => e.kind = "refunded"
            /\ e.kind # "verify"
        BY <3>2, PaymentsAssumption DEF Webhooks, StatusAfter, OrderStatusAfter, OrderStatus
      <3>5. PaymentCause(c)'
        BY <3>1, <3>3, <3>4 DEF PaymentCause, Captured, Known, IInv, Causes
      <3>6. RefundCause(c)'
        BY <3>1, <3>3, <3>4 DEF RefundCause, Refunded, IInv, Causes
      <3> QED
        BY <3>1, <3>5, <3>6
    <2>9. CASE WritePayment(c)
      <3> DEFINE p == call[c].payment
      <3>1. /\ p \in PaymentIds /\ call[c] \in Call /\ call[c].pc = "payment"
        BY <2>9 DEF WritePayment, IInv, CallsKnowTheirRows, TypeOK
      <3>2. /\ written'[p] = written[p] \cup {call[c].to}
            /\ named'[p] = named[p] \cup ({call[c].charge} \ {None})
            /\ gateway' = gateway
        BY <2>9, <3>1 DEF WritePayment, IInv, TypeOK
      <3>3. CASE call'[c].pc = "order"
        <4>1. /\ call'[c].payment = p /\ call'[c].to = call[c].to
              /\ call'[c].kind = call[c].kind /\ call'[c].status = call[c].status
          BY <2>9, <3>1, <3>3 DEF WritePayment, IInv, TypeOK, Call, Idle
        <4>2. call[c].kind # "edit" => RefundCause(c)
          BY <3>1 DEF IInv, Causes, RefundCause
        <4> QED
          BY <3>2, <3>3, <4>1, <4>2 DEF RefundCause, Refunded
      <3>4. CASE call'[c] = Idle
        BY <3>4, PaymentsAssumption DEF Idle
      <3> QED
        BY <2>9, <3>1, <3>3, <3>4 DEF WritePayment, IInv, TypeOK, Call
    <2>10. ASSUME NEW o \in OrderIds, NEW s \in EditStatuses \cup {None},
                  NEW paid \in EditPayments \cup {None}, EditRead(c, o, s, paid)
           PROVE  Goal
      BY <2>10 DEF EditRead, IInv, TypeOK, Idle
    <2>11. CASE \E d \in Calls \ {c} : CallStep(d)
      <3>1. call'[c] = call[c]
        BY <2>11 DEF IInv, TypeOK, CallStep, CreateRead, CreateIntent, CreateInsert, VerifyRead,
           VerifyAsk, RefundRead, Deliver, WritePayment, WriteOrder, Abandon, EditRead, EditWrite
      <3> QED
        BY <2>1, <3>1
    <2>12. CASE CreateInsert(c) \/ WriteOrder(c) \/ Abandon(c) \/ EditWrite(c)
      <3>1. call'[c] = Idle
        BY <2>12 DEF CreateInsert, WriteOrder, Abandon, EditWrite, IInv, TypeOK
      <3> QED
        BY <2>2, <3>1
    <2>13. CASE call' = call
      BY <2>1, <2>13
    <2>14. CASE CallStep(c)
      BY <2>3, <2>4, <2>5, <2>6, <2>7, <2>8, <2>9, <2>10, <2>12, <2>14 DEF CallStep
    <2>15. CallStep(c) \/ (\E d \in Calls \ {c} : CallStep(d)) \/ call' = call
      BY DEF Next, vars, GatewayMoves
    <2> QED
      BY <2>11, <2>13, <2>14, <2>15
  <1> QED
    BY <1>1, <1>2, <1>3 DEF Causes, PaymentCause, RefundCause

(* A step that makes a payment of an asking provider PAID finds a charge   *)
(* captured that the row names by then.                                    *)
LEMMA CapturedStep == IInv /\ [Next]_vars => PaidOnlyIfCaptured'
  <1> SUFFICES ASSUME IInv, [Next]_vars, NEW p \in PaymentIds, payment'[p] # None,
                      payment'[p].provider \in Asking, payment'[p].status = "PAID"
               PROVE  \E g \in named'[p] : Captured(g)'
    BY DEF PaidOnlyIfCaptured
  <1>1. CASE payment'[p] = payment[p]
    <2>1. named[p] \subseteq named'[p] /\ named[p] \subseteq PaymentIds
      BY <1>1, RowsStay DEF IInv, TypeOK
    <2>2. PICK g \in named[p] : Captured(g)
      BY <1>1 DEF IInv, PaidOnlyIfCaptured
    <2> QED
      BY <2>1, <2>2, ChargesStay
  <1>2. ASSUME NEW c \in Calls, WritePayment(c), call[c].payment = p
        PROVE  \E g \in named'[p] : Captured(g)'
    <2>1. payment[p] # None /\ payment[p] \in Payment
      BY <1>2 DEF WritePayment, IInv, CallsKnowTheirRows, TypeOK
    <2>2. /\ named'[p] = named[p] \cup ({call[c].charge} \ {None})
          /\ payment'[p].provider = payment[p].provider /\ payment'[p].status = call[c].to
          /\ gateway' = gateway
      BY <1>2, <2>1 DEF WritePayment, IInv, TypeOK, Payment
    <2>3. \E g \in named[p] \cup ({call[c].charge} \ {None}) : Captured(g)
      BY <1>2, <2>2 DEF WritePayment, IInv, Causes
    <2> QED
      BY <2>2, <2>3 DEF Captured
  <1>3. ASSUME NEW c \in Calls, CreateInsert(c)
        PROVE  payment'[p] = payment[p]
    BY <1>3 DEF CreateInsert, IInv, TypeOK
  <1>4. ASSUME NEW c \in Calls, WritePayment(c), call[c].payment # p
        PROVE  payment'[p] = payment[p]
    BY <1>4 DEF WritePayment, IInv, TypeOK
  <1> QED
    BY <1>1, <1>2, <1>3, <1>4
       DEF Next, CallStep, vars, CreateRead, CreateIntent, VerifyRead, VerifyAsk, RefundRead,
           Deliver, WriteOrder, Abandon, EditRead, EditWrite, GatewayMoves

(* A step that gives an order a payment status finds a payment or an edit  *)
(* that had it before.                                                     *)
LEMMA BackedStep == IInv /\ [Next]_vars => OrderPaymentBacked'
  <1> SUFFICES ASSUME IInv, [Next]_vars PROVE OrderPaymentBacked'
    OBVIOUS
  <1> USE PaymentsAssumption DEF IInv, TypeOK, CallsKnowTheirRows, IntentsAreFresh, Causes, OrderPaymentBacked, PaymentsOf, Idle, Payment
  <1>1. ASSUME NEW c \in Calls, NEW o \in OrderIds, NEW d \in Providers, NEW k \in Keys \cup {None},
                    CreateRead(c, o, d, k)
        PROVE  OrderPaymentBacked'
    BY <1>1 DEF CreateRead
  <1>2. ASSUME NEW c \in Calls, NEW p \in PaymentIds, CreateIntent(c, p)
        PROVE  OrderPaymentBacked'
    BY <1>2 DEF CreateIntent
  <1>3. ASSUME NEW c \in Calls, CreateInsert(c)
        PROVE  OrderPaymentBacked'
    <2>1. \A o \in OrderIds : PaymentsOf(o) \subseteq PaymentsOf(o)'
      BY RowsStay
    <2>2. \A o \in OrderIds : \A p \in PaymentsOf(o) : written[p] \subseteq written'[p]
      BY RowsStay
    <2>3. order' = order /\ edited' = edited
      BY <1>3 DEF CreateInsert
    <2> SUFFICES ASSUME NEW o \in OrderIds, order[o].paid \in {"PAID", "REFUNDED"},
                        order[o].paid \notin edited[o].paid
                 PROVE  \E p \in PaymentsOf(o)' : order[o].paid \in written'[p]
      BY <2>3
    <2>4. PICK p \in PaymentsOf(o) : order[o].paid \in written[p]
      OBVIOUS
    <2> QED
      BY <2>1, <2>2, <2>4
  <1>4. ASSUME NEW c \in Calls, NEW p \in PaymentIds,
               NEW g \in PaymentIds \cup {None}, VerifyRead(c, p, g)
        PROVE  OrderPaymentBacked'
    BY <1>4 DEF VerifyRead
  <1>5. ASSUME NEW c \in Calls, VerifyAsk(c)
        PROVE  OrderPaymentBacked'
    BY <1>5 DEF VerifyAsk
  <1>6. ASSUME NEW c \in Calls, NEW p \in PaymentIds, RefundRead(c, p)
        PROVE  OrderPaymentBacked'
    BY <1>6 DEF RefundRead
  <1>7. ASSUME NEW c \in Calls, NEW e \in sent, NEW p \in PaymentIds, Deliver(c, e, p)
        PROVE  OrderPaymentBacked'
    BY <1>7 DEF Deliver, Finds, StatusAfter, OrderStatusAfter, Event, Webhooks
  <1>8. ASSUME NEW c \in Calls, WritePayment(c)
        PROVE  OrderPaymentBacked'
    <2>1. \A o \in OrderIds : PaymentsOf(o) \subseteq PaymentsOf(o)'
      BY RowsStay
    <2>2. \A o \in OrderIds : \A p \in PaymentsOf(o) : written[p] \subseteq written'[p]
      BY RowsStay
    <2>3. order' = order /\ edited' = edited
      BY <1>8 DEF WritePayment
    <2> SUFFICES ASSUME NEW o \in OrderIds, order[o].paid \in {"PAID", "REFUNDED"},
                        order[o].paid \notin edited[o].paid
                 PROVE  \E p \in PaymentsOf(o)' : order[o].paid \in written'[p]
      BY <2>3
    <2>4. PICK p \in PaymentsOf(o) : order[o].paid \in written[p]
      OBVIOUS
    <2> QED
      BY <2>1, <2>2, <2>4
  <1>9. ASSUME NEW c \in Calls, WriteOrder(c)
        PROVE  OrderPaymentBacked'
    BY <1>9 DEF WriteOrder
  <1>10. ASSUME NEW c \in Calls, Abandon(c)
        PROVE  OrderPaymentBacked'
    BY <1>10 DEF Abandon
  <1>11. ASSUME NEW c \in Calls, NEW o \in OrderIds, NEW s \in EditStatuses \cup {None},
                    NEW paid \in EditPayments \cup {None}, EditRead(c, o, s, paid)
        PROVE  OrderPaymentBacked'
    BY <1>11 DEF EditRead
  <1>12. ASSUME NEW c \in Calls, EditWrite(c)
        PROVE  OrderPaymentBacked'
    BY <1>12 DEF EditWrite
  <1>13. ASSUME NEW p \in PaymentIds, NEW m \in Moves, GatewayMoves(p, m)
        PROVE  OrderPaymentBacked'
    BY <1>13 DEF GatewayMoves, Moves, Event, Webhooks
  <1>14. CASE UNCHANGED vars
    BY <1>14 DEF vars
  <1> QED
    BY <1>1, <1>2, <1>3, <1>4, <1>5, <1>6, <1>7, <1>8, <1>9, <1>10, <1>11, <1>12, <1>13, <1>14 DEF Next, CallStep

(* A step that makes an order REFUNDED finds a payment that was paid or    *)
(* that its provider refunded, or is an edit.                              *)
LEMMA RefundStep == IInv /\ [Next]_vars => NoRefundWithoutPayment'
  <1> SUFFICES ASSUME IInv, [Next]_vars, NEW o \in OrderIds, order'[o].status = "REFUNDED",
                      "REFUNDED" \notin edited'[o].status
               PROVE  \E p \in PaymentsOf(o)' :
                         "PAID" \in written'[p] \/ \E g \in named'[p] : gateway'[g].state = "refunded"
    BY DEF NoRefundWithoutPayment
  <1>1. ASSUME NEW p \in PaymentsOf(o), "PAID" \in written[p] \/ Refunded(p)
        PROVE  \E q \in PaymentsOf(o)' :
                  "PAID" \in written'[q] \/ \E g \in named'[q] : gateway'[g].state = "refunded"
    <2>1. /\ p \in PaymentsOf(o)' /\ written[p] \subseteq written'[p]
          /\ named[p] \subseteq named'[p] /\ named[p] \subseteq PaymentIds
      BY RowsStay DEF PaymentsOf, IInv, TypeOK
    <2>2. Refunded(p) => \E g \in named'[p] : gateway'[g].state = "refunded"
      BY <2>1, ChargesStay DEF Refunded
    <2> QED
      BY <1>1, <2>1, <2>2
  <1>2. CASE order'[o].status = order[o].status /\ edited[o].status \subseteq edited'[o].status
    <2>1. PICK p \in PaymentsOf(o) : "PAID" \in written[p] \/ Refunded(p)
      BY <1>2 DEF IInv, NoRefundWithoutPayment, Refunded
    <2> QED
      BY <1>1, <2>1
  <1>3. ASSUME NEW c \in Calls, WriteOrder(c)
        PROVE  order'[o].status = order[o].status
                 \/ \E p \in PaymentsOf(o) : "PAID" \in written[p] \/ Refunded(p)
    <2>1. /\ call[c].payment \in PaymentIds /\ payment[call[c].payment] # None
          /\ payment[call[c].payment].order = call[c].order
      BY <1>3 DEF WriteOrder, IInv, CallsKnowTheirRows
    <2>2. CASE call[c].order = o /\ call[c].status = "REFUNDED"
      BY <1>3, <2>1, <2>2 DEF WriteOrder, IInv, Causes, PaymentsOf
    <2>3. CASE call[c].order # o \/ call[c].status = None
      BY <1>3, <2>3 DEF WriteOrder, IInv, TypeOK
    <2>4. CASE call[c].order = o /\ call[c].status \notin {None, "REFUNDED"}
      BY <1>3, <2>4 DEF WriteOrder, IInv, TypeOK
    <2> QED
      BY <2>2, <2>3, <2>4
  <1>4. ASSUME NEW c \in Calls, EditWrite(c)
        PROVE  order'[o].status = order[o].status /\ edited[o].status \subseteq edited'[o].status
    <2>1. /\ edited'[o].status = IF call[c].order = o
               THEN edited[o].status \cup ({call[c].status} \ {None}) ELSE edited[o].status
          /\ order'[o].status = IF call[c].order = o /\ call[c].status # None
               THEN call[c].status ELSE order[o].status
      BY <1>4 DEF EditWrite, IInv, TypeOK
    <2> QED
      BY <2>1, PaymentsAssumption DEF OrderStatus
  <1>5. ASSUME NEW c \in Calls, WriteOrder(c)
        PROVE  edited[o].status \subseteq edited'[o].status
    BY <1>5 DEF WriteOrder
  <1> QED
    BY <1>1, <1>2, <1>3, <1>4, <1>5
       DEF Next, CallStep, vars, CreateRead, CreateIntent, CreateInsert, VerifyRead, VerifyAsk,
           RefundRead, Deliver, WritePayment, Abandon, EditRead, GatewayMoves

(* A call keeps its kind from its first read to its last write.            *)
LEMMA KindStep == IInv /\ [Next]_vars => CallsKeepTheirKind'
  <1> SUFFICES ASSUME IInv, [Next]_vars PROVE CallsKeepTheirKind'
    OBVIOUS
  <1> USE PaymentsAssumption DEF IInv, TypeOK, Call, CallsKeepTheirKind, Idle
  <1>1. ASSUME NEW c \in Calls, NEW o \in OrderIds, NEW d \in Providers,
               NEW k \in Keys \cup {None}, CreateRead(c, o, d, k)
        PROVE  CallsKeepTheirKind'
    BY <1>1 DEF CreateRead
  <1>2. ASSUME NEW c \in Calls, NEW p \in PaymentIds, CreateIntent(c, p)
        PROVE  CallsKeepTheirKind'
    BY <1>2 DEF CreateIntent
  <1>3. ASSUME NEW c \in Calls, CreateInsert(c)
        PROVE  CallsKeepTheirKind'
    BY <1>3 DEF CreateInsert
  <1>4. ASSUME NEW c \in Calls, NEW p \in PaymentIds,
               NEW g \in PaymentIds \cup {None}, VerifyRead(c, p, g)
        PROVE  CallsKeepTheirKind'
    BY <1>4 DEF VerifyRead
  <1>5. ASSUME NEW c \in Calls, VerifyAsk(c)
        PROVE  CallsKeepTheirKind'
    <2>1. /\ call'[c].kind = "verify" /\ call'[c].seen = call[c].seen
          /\ \A d \in Calls : d # c => call'[d] = call[d]
      BY <1>5 DEF VerifyAsk
    <2>2. call[c].pc = "ask" /\ call[c].kind = "verify"
      BY <1>5 DEF VerifyAsk
    <2> QED
      BY <2>1, <2>2 DEF WritesOrder
  <1>6. ASSUME NEW c \in Calls, NEW p \in PaymentIds, RefundRead(c, p)
        PROVE  CallsKeepTheirKind'
    BY <1>6 DEF RefundRead, WritesOrder
  <1>7. ASSUME NEW c \in Calls, NEW e \in sent, NEW p \in PaymentIds, Deliver(c, e, p)
        PROVE  CallsKeepTheirKind'
    BY <1>7 DEF Deliver, Finds, StatusAfter, OrderStatusAfter, Event, Webhooks, WritesOrder
  <1>8. ASSUME NEW c \in Calls, WritePayment(c)
        PROVE  CallsKeepTheirKind'
    BY <1>8 DEF WritePayment, WritesOrder
  <1>9. ASSUME NEW c \in Calls, WriteOrder(c)
        PROVE  CallsKeepTheirKind'
    BY <1>9 DEF WriteOrder
  <1>10. ASSUME NEW c \in Calls, Abandon(c)
        PROVE  CallsKeepTheirKind'
    BY <1>10 DEF Abandon
  <1>11. ASSUME NEW c \in Calls, NEW o \in OrderIds, NEW s \in EditStatuses \cup {None},
               NEW paid \in EditPayments \cup {None}, EditRead(c, o, s, paid)
        PROVE  CallsKeepTheirKind'
    BY <1>11 DEF EditRead
  <1>12. ASSUME NEW c \in Calls, EditWrite(c)
        PROVE  CallsKeepTheirKind'
    BY <1>12 DEF EditWrite
  <1>13. ASSUME NEW p \in PaymentIds, NEW m \in Moves, GatewayMoves(p, m)
        PROVE  CallsKeepTheirKind'
    BY <1>13 DEF GatewayMoves
  <1>14. CASE UNCHANGED vars
    BY <1>14 DEF vars, CallsKeepTheirKind
  <1> QED
    BY <1>1, <1>2, <1>3, <1>4, <1>5, <1>6, <1>7, <1>8, <1>9, <1>10, <1>11, <1>12, <1>13, <1>14
       DEF Next, CallStep

(* What a call does to its order leaves the others as they are.            *)
LEMMA Elsewhere ==
  ASSUME IInv, NEW c \in Calls, NEW x \in OrderIds \ disturbed, call[c].order # x,
         call' = [call EXCEPT ![c] = call'[c]], call'[c].order # x,
         order'[x].paid = order[x].paid, PaymentsOf(x)' = PaymentsOf(x),
         \A p \in PaymentsOf(x) : payment'[p] = payment[p]
  PROVE  AgreesAt(x)'
  <1>1. \A d \in Calls : d # c => call'[d] = call[d]
    BY DEF IInv, TypeOK
  <1>2. Busy(x)' = Busy(x) /\ c \notin Busy(x)
    BY <1>1 DEF Busy
  <1>3. \A i \in Busy(x) : call'[i] = call[i] /\ (Writing(i)' <=> Writing(i))
    BY <1>1, <1>2 DEF Busy, Writing
  <1>4. \A i \in Busy(x) : Writing(i) => call[i].payment \in PaymentsOf(x)
    BY DEF Busy, Writing, IInv, CallsKnowTheirRows, PaymentsOf
  <1> QED
    BY <1>2, <1>3, <1>4 DEF IInv, Undisturbed, AgreesAt

(* A call that starts on an order has it to itself or disturbs it.         *)
LEMMA Starts ==
  ASSUME IInv, NEW c \in Calls, NEW o \in OrderIds, call[c] = Idle,
         call' = [call EXCEPT ![c] = call'[c]], call'[c].order = o, ~Writing(c)',
         disturbed' = Started(o), UNCHANGED <<order, payment>>
  PROVE  Undisturbed'
  <1>1. \A d \in Calls : d # c => call'[d] = call[d]
    BY DEF IInv, TypeOK
  <1>2. call[c].order = None /\ ~Writing(c)
    BY DEF Idle, Writing
  <1> SUFFICES ASSUME NEW x \in OrderIds \ disturbed'
               PROVE  AgreesAt(x)'
    BY DEF Undisturbed
  <1>3. x \notin disturbed
    BY DEF Started
  <1>4. CASE x = o
    <2>1. Busy(x) = {}
      BY <1>4 DEF Started
    <2>2. Busy(x)' = {c}
      BY <1>1, <1>4, <2>1 DEF Busy
    <2>3. PaymentsOf(x)' = PaymentsOf(x)
      BY DEF PaymentsOf
    <2> QED
      BY <1>3, <2>1, <2>2, <2>3 DEF IInv, Undisturbed, AgreesAt
  <1>5. CASE x # o
    BY <1>2, <1>3, <1>5, Elsewhere, PaymentsAssumption DEF PaymentsOf
  <1> QED
    BY <1>4, <1>5

(* A call that goes on without writing a table leaves every order as it    *)
(* is: whoever was busy with it is still busy with it.                     *)
LEMMA GoesOn ==
  ASSUME IInv, NEW c \in Calls, call' = [call EXCEPT ![c] = call'[c]],
         call'[c].order = call[c].order, ~Writing(c), ~Writing(c)',
         UNCHANGED <<disturbed, order, payment>>
  PROVE  Undisturbed'
  <1>1. \A d \in Calls : d # c => call'[d] = call[d]
    BY DEF IInv, TypeOK
  <1>2. \A x : Busy(x)' = Busy(x)
    BY <1>1 DEF Busy
  <1>3. \A d \in Calls : (Writing(d)' <=> Writing(d)) /\ (Writing(d) => call'[d] = call[d])
    BY <1>1 DEF Writing
  <1>4. \A x : PaymentsOf(x)' = PaymentsOf(x)
    BY DEF PaymentsOf
  <1> QED
    BY <1>2, <1>3, <1>4 DEF IInv, Undisturbed, AgreesAt, Busy

(* An order that nothing disturbs keeps agreeing with its payment, through *)
(* the gap between the two writes of a call.                               *)
LEMMA UndisturbedStep == IInv /\ [Next]_vars => Undisturbed'
  <1> SUFFICES ASSUME IInv, [Next]_vars PROVE Undisturbed'
    OBVIOUS
  <1> USE PaymentsAssumption DEF IInv
  <1>1. ASSUME NEW c \in Calls, NEW o \in OrderIds, NEW d \in Providers,
               NEW k \in Keys \cup {None}, CreateRead(c, o, d, k)
        PROVE  Undisturbed'
    <2>1. o \in OrderIds
      OBVIOUS
    <2>2. /\ call[c] = Idle /\ call' = [call EXCEPT ![c] = call'[c]]
          /\ call'[c].order = o /\ ~Writing(c)'
          /\ disturbed' = Started(o)
          /\ UNCHANGED <<order, payment>>
      BY <1>1 DEF CreateRead, TypeOK, Idle, Writing
    <2> QED
      BY <2>1, <2>2, Starts
  <1>2. ASSUME NEW c \in Calls, NEW p \in PaymentIds, CreateIntent(c, p)
        PROVE  Undisturbed'
    <2>1. /\ call' = [call EXCEPT ![c] = call'[c]]
          /\ call'[c].order = call[c].order /\ ~Writing(c) /\ ~Writing(c)'
          /\ UNCHANGED <<disturbed, order, payment>>
      BY <1>2 DEF CreateIntent, TypeOK, Call, Writing
    <2> QED
      BY <2>1, GoesOn
  <1>3. ASSUME NEW c \in Calls, CreateInsert(c)
        PROVE  Undisturbed'
    <2>1. call' = [call EXCEPT ![c] = call'[c]] /\ disturbed \subseteq disturbed'
      BY <1>3 DEF CreateInsert, TypeOK
    <2>2. \A d \in Calls : d # c => call'[d] = call[d]
      BY <2>1 DEF TypeOK
    <2>3. call'[c].order = None
      BY <1>3 DEF CreateInsert, TypeOK, Idle
    <2>6. /\ call[c].payment \in PaymentIds /\ payment[call[c].payment] = None
          /\ payment' = [payment EXCEPT ![call[c].payment] = payment'[call[c].payment]]
          /\ payment'[call[c].payment].order = call[c].order
          /\ payment'[call[c].payment].status = "PENDING"
          /\ order' = order
      BY <1>3 DEF CreateInsert, TypeOK, CallsKnowTheirRows, IntentsAreFresh
    <2>4. ASSUME NEW x \in OrderIds \ disturbed', x # call[c].order
          PROVE  AgreesAt(x)'
      <3>1. PaymentsOf(x)' = PaymentsOf(x)
        BY <2>4, <2>6 DEF PaymentsOf, TypeOK
      <3>2. \A p \in PaymentsOf(x) : payment'[p] = payment[p]
        BY <2>6 DEF PaymentsOf, TypeOK
      <3> QED
        BY <2>1, <2>3, <2>4, <2>6, <3>1, <3>2, Elsewhere, PaymentsAssumption
    <2>5. ASSUME NEW x \in OrderIds \ disturbed', x = call[c].order
          PROVE  AgreesAt(x)'
      <3>1. x \notin disturbed /\ Busy(x) = {c}
        BY <2>1, <2>5 DEF Undisturbed, AgreesAt, Busy
      <3>2. Busy(x)' = {}
        BY <2>2, <2>3, <2>5, <3>1, PaymentsAssumption DEF Busy
      <3>3. PaymentsOf(x) = {}
        BY <1>3, <2>5 DEF CreateInsert
      <3>4. \A p \in PaymentsOf(x)' : p = call[c].payment
        BY <2>6, <3>3 DEF PaymentsOf, TypeOK
      <3> QED
        BY <2>6, <3>2, <3>4 DEF AgreesAt
    <2> QED
      BY <2>4, <2>5 DEF Undisturbed
  <1>4. ASSUME NEW c \in Calls, NEW p \in PaymentIds,
               NEW g \in PaymentIds \cup {None}, VerifyRead(c, p, g)
        PROVE  Undisturbed'
    <2>1. payment[p].order \in OrderIds
      BY <1>4 DEF VerifyRead, TypeOK, Payment
    <2>2. /\ call[c] = Idle /\ call' = [call EXCEPT ![c] = call'[c]]
          /\ call'[c].order = payment[p].order /\ ~Writing(c)'
          /\ disturbed' = Started(payment[p].order)
          /\ UNCHANGED <<order, payment>>
      BY <1>4 DEF VerifyRead, TypeOK, Idle, Writing
    <2> QED
      BY <2>1, <2>2, Starts
  <1>5. ASSUME NEW c \in Calls, VerifyAsk(c)
        PROVE  Undisturbed'
    <2>1. /\ call' = [call EXCEPT ![c] = call'[c]]
          /\ call'[c].order = call[c].order /\ ~Writing(c) /\ ~Writing(c)'
          /\ UNCHANGED <<disturbed, order, payment>>
      BY <1>5 DEF VerifyAsk, TypeOK, Call, Writing
    <2> QED
      BY <2>1, GoesOn
  <1>6. ASSUME NEW c \in Calls, NEW p \in PaymentIds, RefundRead(c, p)
        PROVE  Undisturbed'
    <2>1. payment[p].order \in OrderIds
      BY <1>6 DEF RefundRead, TypeOK, Payment
    <2>2. /\ call[c] = Idle /\ call' = [call EXCEPT ![c] = call'[c]]
          /\ call'[c].order = payment[p].order /\ ~Writing(c)'
          /\ disturbed' = Started(payment[p].order)
          /\ UNCHANGED <<order, payment>>
      BY <1>6 DEF RefundRead, TypeOK, Idle, Writing
    <2> QED
      BY <2>1, <2>2, Starts
  <1>7. ASSUME NEW c \in Calls, NEW e \in sent, NEW p \in PaymentIds, Deliver(c, e, p)
        PROVE  Undisturbed'
    <2>1. payment[p].order \in OrderIds
      BY <1>7 DEF Deliver, Finds, TypeOK, Payment, Event
    <2>2. /\ call[c] = Idle /\ call' = [call EXCEPT ![c] = call'[c]]
          /\ call'[c].order = payment[p].order /\ ~Writing(c)'
          /\ disturbed' = Started(payment[p].order)
          /\ UNCHANGED <<order, payment>>
      BY <1>7 DEF Deliver, Finds, TypeOK, Idle, Writing
    <2> QED
      BY <2>1, <2>2, Starts
  <1>8. ASSUME NEW c \in Calls, WritePayment(c)
        PROVE  Undisturbed'
    <2>1. call' = [call EXCEPT ![c] = call'[c]] /\ disturbed \subseteq disturbed'
      BY <1>8 DEF WritePayment, TypeOK
    <2>2. \A d \in Calls : d # c => call'[d] = call[d]
      BY <2>1 DEF TypeOK
    <2>3. call'[c] = IF WritesOrder(call[c].kind)
                      THEN [call[c] EXCEPT !.pc = "order", !.seen = None, !.charge = None] ELSE Idle
      BY <1>8 DEF WritePayment, TypeOK
    <2>6. /\ call[c].payment \in PaymentIds /\ payment[call[c].payment] # None
          /\ payment[call[c].payment].order = call[c].order
      BY <1>8 DEF WritePayment, CallsKnowTheirRows
    <2>7. /\ order' = order /\ payment'[call[c].payment].status = call[c].to
          /\ \A p \in PaymentIds : p # call[c].payment => payment'[p] = payment[p]
      BY <1>8, <2>6 DEF WritePayment, TypeOK, Payment
    <2>8. \A y : PaymentsOf(y)' = PaymentsOf(y)
      BY <2>6, <2>7, RowsStay DEF PaymentsOf
    <2>9. call[c] \in Call /\ call[c].pc = "payment"
      BY <1>8 DEF WritePayment, TypeOK
    <2>4. ASSUME NEW x \in OrderIds \ disturbed', x # call[c].order
          PROVE  AgreesAt(x)'
      <3>1. call'[c].order # x
        BY <2>3, <2>4, <2>9, PaymentsAssumption DEF Idle, Call
      <3>2. \A p \in PaymentsOf(x) : payment'[p] = payment[p]
        BY <2>4, <2>6, <2>7 DEF PaymentsOf
      <3> QED
        BY <2>1, <2>4, <2>7, <2>8, <3>1, <3>2, Elsewhere
    <2>5. ASSUME NEW x \in OrderIds \ disturbed', x = call[c].order
          PROVE  AgreesAt(x)'
      <3>1. x \notin disturbed /\ Busy(x) = {c}
        BY <2>1, <2>5 DEF Undisturbed, AgreesAt, Busy
      <3>2. PaymentsOf(x) = {call[c].payment}
        BY <2>5, <2>6, <3>1 DEF PaymentsOf, Undisturbed, AgreesAt
      <3>3. CASE WritesOrder(call[c].kind)
        <4>1. call'[c].order = x /\ Writing(c)' /\ call'[c].to = call[c].to
                /\ call'[c].payment = call[c].payment
          BY <2>3, <2>5, <2>9, <3>3 DEF Call, Writing, WritesOrder
        <4>2. Busy(x)' = {c}
          BY <2>2, <3>1, <4>1 DEF Busy
        <4> QED
          BY <2>7, <2>8, <3>2, <4>1, <4>2 DEF AgreesAt
      <3>4. CASE ~WritesOrder(call[c].kind)
        <4>1. Busy(x)' = {}
          BY <2>2, <2>3, <3>1, <3>4, PaymentsAssumption DEF Busy, Idle
        <4>2. call[c].to # "PAID"
          BY <2>9, <3>4 DEF CallsKeepTheirKind
        <4> QED
          BY <2>7, <2>8, <3>2, <4>1, <4>2 DEF AgreesAt
      <3> QED
        BY <3>3, <3>4
    <2> QED
      BY <2>4, <2>5 DEF Undisturbed
  <1>9. ASSUME NEW c \in Calls, WriteOrder(c)
        PROVE  Undisturbed'
    <2>1. call' = [call EXCEPT ![c] = call'[c]] /\ disturbed \subseteq disturbed'
      BY <1>9 DEF WriteOrder, TypeOK
    <2>2. \A d \in Calls : d # c => call'[d] = call[d]
      BY <2>1 DEF TypeOK
    <2>3. call'[c].order = None
      BY <1>9 DEF WriteOrder, TypeOK, Idle
    <2>6. /\ call[c].payment \in PaymentIds /\ payment[call[c].payment] # None
          /\ payment[call[c].payment].order = call[c].order
      BY <1>9 DEF WriteOrder, CallsKnowTheirRows
    <2>7. /\ payment' = payment /\ \A y : PaymentsOf(y)' = PaymentsOf(y)
          /\ \A y \in OrderIds : y # call[c].order => order'[y] = order[y]
          /\ call[c].order \in OrderIds => order'[call[c].order].paid = call[c].to
          /\ Writing(c)
      BY <1>9 DEF WriteOrder, PaymentsOf, TypeOK, Writing
    <2>4. ASSUME NEW x \in OrderIds \ disturbed', x # call[c].order
          PROVE  AgreesAt(x)'
      <3> QED
        BY <2>1, <2>3, <2>4, <2>7, Elsewhere, PaymentsAssumption
    <2>5. ASSUME NEW x \in OrderIds \ disturbed', x = call[c].order
          PROVE  AgreesAt(x)'
      <3>1. x \notin disturbed /\ Busy(x) = {c}
        BY <2>1, <2>5 DEF Undisturbed, AgreesAt, Busy
      <3>2. Busy(x)' = {}
        BY <2>2, <2>3, <2>5, <3>1, PaymentsAssumption DEF Busy
      <3>3. PaymentsOf(x) = {call[c].payment} /\ payment[call[c].payment].status = call[c].to
        BY <2>5, <2>6, <2>7, <3>1 DEF PaymentsOf, Undisturbed, AgreesAt
      <3> QED
        BY <2>5, <2>7, <3>2, <3>3 DEF AgreesAt
    <2> QED
      BY <2>4, <2>5 DEF Undisturbed
  <1>10. ASSUME NEW c \in Calls, Abandon(c)
        PROVE  Undisturbed'
    <2>1. call' = [call EXCEPT ![c] = call'[c]] /\ disturbed \subseteq disturbed'
      BY <1>10 DEF Abandon, TypeOK
    <2>2. \A d \in Calls : d # c => call'[d] = call[d]
      BY <2>1 DEF TypeOK
    <2>3. call'[c].order = None
      BY <1>10 DEF Abandon, TypeOK, Idle
    <2>7. payment' = payment /\ order' = order /\ \A y : PaymentsOf(y)' = PaymentsOf(y)
      BY <1>10 DEF Abandon, PaymentsOf
    <2>4. ASSUME NEW x \in OrderIds \ disturbed', x # call[c].order
          PROVE  AgreesAt(x)'
      <3> QED
        BY <2>1, <2>3, <2>4, <2>7, Elsewhere, PaymentsAssumption
    <2>5. ASSUME NEW x \in OrderIds \ disturbed', x = call[c].order
          PROVE  AgreesAt(x)'
      <3>1. x \notin disturbed /\ Busy(x) = {c}
        BY <2>1, <2>5 DEF Undisturbed, AgreesAt, Busy
      <3>2. Busy(x)' = {}
        BY <2>2, <2>3, <2>5, <3>1, PaymentsAssumption DEF Busy
      <3>3. ~Writing(c)
        BY <1>10, <2>5 DEF Abandon, Writing
      <3> QED
        BY <2>5, <2>7, <3>1, <3>2, <3>3 DEF Undisturbed, AgreesAt
    <2> QED
      BY <2>4, <2>5 DEF Undisturbed
  <1>11. ASSUME NEW c \in Calls, NEW o \in OrderIds, NEW s \in EditStatuses \cup {None},
               NEW paid \in EditPayments \cup {None}, EditRead(c, o, s, paid)
        PROVE  Undisturbed'
    <2>1. o \in OrderIds
      OBVIOUS
    <2>2. /\ call[c] = Idle /\ call' = [call EXCEPT ![c] = call'[c]]
          /\ call'[c].order = o /\ ~Writing(c)'
          /\ disturbed' = Started(o)
          /\ UNCHANGED <<order, payment>>
      BY <1>11 DEF EditRead, TypeOK, Idle, Writing
    <2> QED
      BY <2>1, <2>2, Starts
  <1>12. ASSUME NEW c \in Calls, EditWrite(c)
        PROVE  Undisturbed'
    <2>1. call' = [call EXCEPT ![c] = call'[c]] /\ disturbed \subseteq disturbed'
      BY <1>12 DEF EditWrite, TypeOK
    <2>2. \A d \in Calls : d # c => call'[d] = call[d]
      BY <2>1 DEF TypeOK
    <2>3. call'[c].order = None
      BY <1>12 DEF EditWrite, TypeOK, Idle
    <2>7. /\ payment' = payment /\ \A y : PaymentsOf(y)' = PaymentsOf(y)
          /\ \A y \in OrderIds \ disturbed' : order'[y].paid = order[y].paid
      BY <1>12 DEF EditWrite, PaymentsOf, TypeOK
    <2>4. ASSUME NEW x \in OrderIds \ disturbed', x # call[c].order
          PROVE  AgreesAt(x)'
      <3> QED
        BY <2>1, <2>3, <2>4, <2>7, Elsewhere, PaymentsAssumption
    <2>5. ASSUME NEW x \in OrderIds \ disturbed', x = call[c].order
          PROVE  AgreesAt(x)'
      <3>1. x \notin disturbed /\ Busy(x) = {c}
        BY <2>1, <2>5 DEF Undisturbed, AgreesAt, Busy
      <3>2. Busy(x)' = {}
        BY <2>2, <2>3, <2>5, <3>1, PaymentsAssumption DEF Busy
      <3>3. ~Writing(c)
        BY <1>12, <2>5 DEF EditWrite, Writing
      <3> QED
        BY <2>5, <2>7, <3>1, <3>2, <3>3 DEF Undisturbed, AgreesAt
    <2> QED
      BY <2>4, <2>5 DEF Undisturbed
  <1>13. ASSUME NEW p \in PaymentIds, NEW m \in Moves, GatewayMoves(p, m)
        PROVE  Undisturbed'
    BY <1>13 DEF GatewayMoves, Undisturbed, AgreesAt, Busy, PaymentsOf, Writing
  <1>14. CASE UNCHANGED vars
    BY <1>14 DEF vars, Undisturbed, AgreesAt, Busy, PaymentsOf, Writing
  <1> QED
    BY <1>1, <1>2, <1>3, <1>4, <1>5, <1>6, <1>7, <1>8, <1>9, <1>10, <1>11, <1>12, <1>13, <1>14
       DEF Next, CallStep

-----------------------------------------------------------------------------
(* The invariant holds in every reachable state.                           *)
THEOREM Invariance == Spec => []IInv
  <1>1. IInv /\ [Next]_vars => IInv'
    BY TypeStep, RowsStep, FreshStep, NamesStep, CausesStep, CapturedStep, BackedStep, RefundStep,
       KindStep, UndisturbedStep DEF IInv
  <1> QED
    BY InitIInv, <1>1, PTL DEF Spec

(* Type correctness of the payments tables and of the calls in flight.     *)
THEOREM TypeCorrect == Spec => []TypeOK
  <1>1. IInv => TypeOK
    BY DEF IInv
  <1> QED
    BY Invariance, <1>1, PTL

(* A Razorpay payment is PAID only if Razorpay captured a charge that was  *)
(* sent with its verification (verifyPayment, handlePaymentSucceeded).     *)
THEOREM NoInventedCapture == Spec => []PaidOnlyIfCaptured
  <1>1. IInv => PaidOnlyIfCaptured
    BY DEF IInv
  <1> QED
    BY Invariance, <1>1, PTL

(* The payment status of an order comes from a payment of this order, or   *)
(* from an edit of it.                                                     *)
THEOREM OrderStatusHasACause == Spec => []OrderPaymentBacked
  <1>1. IInv => OrderPaymentBacked
    BY DEF IInv
  <1> QED
    BY Invariance, <1>1, PTL

(* No order becomes REFUNDED that was never paid for, except by an edit.   *)
THEOREM RefundsFollowPayments == Spec => []NoRefundWithoutPayment
  <1>1. IInv => NoRefundWithoutPayment
    BY DEF IInv
  <1> QED
    BY Invariance, <1>1, PTL

(* A PAID payment is left by a refund, a webhook or a stale verification.  *)
THEOREM PaidIsLeftKnowingly == Spec => PaidLeftOnlyByRefundWebhookOrStaleVerify
  <1>1. IInv /\ [Next]_vars =>
          [\A p \in PaymentIds :
              payment[p] # None /\ payment[p].status = "PAID" /\ payment'[p].status # "PAID"
              => \E c \in Calls :
                    /\ call[c].pc = "payment" /\ call[c].payment = p
                    /\ call[c].kind = "verify" => call[c].seen # "PAID"]_vars
    <2> SUFFICES ASSUME IInv, [Next]_vars, NEW p \in PaymentIds, payment[p] # None,
                        payment[p].status = "PAID", payment'[p].status # "PAID"
                 PROVE  \E c \in Calls :
                            /\ call[c].pc = "payment" /\ call[c].payment = p
                            /\ call[c].kind = "verify" => call[c].seen # "PAID"
      OBVIOUS
    <2>1. CASE \E c \in Calls : WritePayment(c)
      <3>1. PICK c \in Calls : WritePayment(c)
        BY <2>1
      <3>2. call[c].payment = p
        BY <3>1 DEF WritePayment, IInv, TypeOK
      <3> QED
        BY <3>1, <3>2 DEF WritePayment, IInv, CallsKeepTheirKind
    <2>2. CASE \E c \in Calls : CreateInsert(c)
      <3>1. PICK c \in Calls : CreateInsert(c)
        BY <2>2
      <3>2. call[c].payment # p
        BY <3>1 DEF CreateInsert, IInv, IntentsAreFresh
      <3> QED
        BY <3>1, <3>2 DEF CreateInsert, IInv, TypeOK
    <2>3. CASE UNCHANGED payment
      BY <2>3
    <2> QED
      BY <2>1, <2>2, <2>3
         DEF Next, CallStep, vars, CreateRead, CreateIntent, VerifyRead, VerifyAsk, RefundRead,
             Deliver, WriteOrder, Abandon, EditRead, EditWrite, GatewayMoves
  <1> QED
    BY Invariance, <1>1, PTL DEF Spec, PaidLeftOnlyByRefundWebhookOrStaleVerify

(* Between calls, a PAID payment has a paid order, unless something        *)
(* disturbed the order.                                                    *)
THEOREM PaymentAndOrderAgree == Spec => []PaidPaymentPaidOrder
  <1>1. IInv => PaidPaymentPaidOrder
    BY DEF IInv, Undisturbed, AgreesAt, PaidPaymentPaidOrder
  <1> QED
    BY Invariance, <1>1, PTL
=============================================================================
