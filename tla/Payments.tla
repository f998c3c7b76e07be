------------------------------ MODULE Payments ------------------------------
(***************************************************************************)
(* PaymentsService (src/modules/payments/payments.service.ts) with the     *)
(* webhooks of its controller and the payment providers it calls.          *)
(*                                                                         *)
(* No operation of the service is a transaction: each one reads a row,     *)
(* asks the provider, writes the payment and then the order, in statements *)
(* of their own.  A call in flight acts on what it read; it may stop after *)
(* any statement, and a webhook handler that fails swallows the error, so  *)
(* that the provider is told the event was received.                       *)
(*                                                                         *)
(* The payment gateways are external.  gateway[p] is what the provider     *)
(* itself holds of payment p; it announces each change by an event, which  *)
(* may be delivered late, out of order, many times or never.               *)
(***************************************************************************)
EXTENDS Providers, Integers, FiniteSets

CONSTANTS
    OrderIds,       \* ids of orders
    PaymentIds,     \* ids of payments
    Providers,      \* providers in use
    Keyed,          \* providers whose keys are in the environment
    Signed,         \* providers whose webhook secret is in the environment
    Keys,           \* idempotency keys sent by clients
    Calls,          \* calls and webhook deliveries in flight together
    EditStatuses,   \* order statuses an edit of the order may ask for
    EditPayments,   \* payment statuses an edit of the order may ask for
    MaxEvents,      \* bound: different events the providers send
    None            \* SQL NULL, and the absence of a row

OrderStatus == {"PENDING", "PROCESSING", "SHIPPED", "DELIVERED",
                "CANCELLED", "RETURNED", "REFUNDED"}
PaymentStatus == {"PENDING", "PAID", "FAILED", "REFUNDED"}

ASSUME PaymentsAssumption ==
    /\ Providers \subseteq AllProviders
    /\ EditStatuses \subseteq OrderStatus
    /\ EditPayments \subseteq PaymentStatus /\ MaxEvents \in Nat
    /\ None \notin OrderIds \cup PaymentIds \cup OrderStatus \cup PaymentStatus \cup Keys

VARIABLES
    order,      \* order[o]: status and paymentStatus of the order
    payment,    \* payment[p]: the row of table payments, or None
    gateway,    \* gateway[p]: what the provider holds (external)
    sent,       \* events the providers have sent (external)
    call,       \* call[c]: the call served by c
    written,    \* history: written[p], the statuses ever written on payment p
    named,      \* history: named[p], the charges the row of p ever named
    edited,     \* history: edited[o], the payment and order statuses edits gave o
    disturbed   \* history: orders with a second payment, an edited payment
                \* status, overlapping calls, or a call stopped half way

vars == <<order, payment, gateway, sent, call, written, named, edited, disturbed>>

(* pid is the provider's id in the row, as the charge it names: None is an *)
(* id that no event has.  Two rows may name one charge.                    *)
Payment == [order : OrderIds, provider : Providers, key : Keys \cup {None},
            status : PaymentStatus, pid : PaymentIds \cup {None}]

ASSUME RowAssumption == None \notin Payment

Kinds == {"create", "verify", "refund", "edit", "succeeded", "failed", "action",
          "refunded", "partial"}
Webhooks == {"succeeded", "failed", "action", "refunded", "partial"}

Event == [payment : PaymentIds, kind : Webhooks]

Stage == {"idle", "intent", "insert", "ask", "payment", "order"}

(* payment and order are the rows the call is about; provider and key come *)
(* with a new intent; seen is the status verifyPayment read, charge the    *)
(* one the client sent with it; to and status are what will be written as  *)
(* payment status and as order status.                                     *)
Call == [pc : Stage, kind : Kinds \cup {None}, order : OrderIds \cup {None},
         payment : PaymentIds \cup {None}, provider : Providers \cup {None},
         key : Keys \cup {None}, seen : PaymentStatus \cup {None},
         charge : PaymentIds \cup {None},
         to : PaymentStatus \cup {None}, status : OrderStatus \cup {None}]

Idle == [pc |-> "idle", kind |-> None, order |-> None, payment |-> None,
         provider |-> None, key |-> None, seen |-> None, charge |-> None, to |-> None,
         status |-> None]

Gateway == [state : {"none", "created", "authorized", "captured", "failed", "refunded"},
            provider : Providers \cup {None}, order : OrderIds \cup {None}]

PaymentsOf(o) == {p \in PaymentIds : payment[p] # None /\ payment[p].order = o}

(* Calls that are about order o *)
Busy(o) == {c \in Calls : call[c].order = o}

(* A new call on o disturbs it when another one is under way *)
Started(o) == IF Busy(o) = {} THEN disturbed ELSE disturbed \cup {o}

-----------------------------------------------------------------------------
(* createPaymentIntent: the order must not be paid, and a payment that is  *)
(* pending under the same key is returned as it is.  The provider creates  *)
(* its intent, then the row is inserted.                                   *)

PendingUnder(o, k) ==
    {p \in PaymentsOf(o) : k # None /\ payment[p].key = k /\ payment[p].status = "PENDING"}

CreateRead(c, o, d, k) ==
    /\ call[c] = Idle
    /\ order[o].paid # "PAID"
    /\ PendingUnder(o, k) = {}
    /\ call' = [call EXCEPT ![c] = [Idle EXCEPT !.pc = "intent", !.kind = "create",
                    !.order = o, !.provider = d, !.key = k]]
    /\ disturbed' = Started(o)
    /\ UNCHANGED <<order, payment, gateway, sent, written, named, edited>>

CreateIntent(c, p) ==
    /\ call[c].pc = "intent"
    /\ gateway[p].state = "none"
    /\ NeedsKeys(call[c].provider) => call[c].provider \in Keyed
    /\ gateway' = [gateway EXCEPT ![p] =
          [state |-> "created", provider |-> call[c].provider, order |-> call[c].order]]
    /\ call' = [call EXCEPT ![c] = [@ EXCEPT !.pc = "insert", !.payment = p]]
    /\ UNCHANGED <<order, payment, sent, written, named, edited, disturbed>>

(* The row carries the id of the intent: that of the charge, unless the    *)
(* gateway gives the charge an id of its own.                              *)
FirstId(d, p) == IF GatewayNamesCharge(d) THEN None ELSE p

CreateInsert(c) ==
    LET q == call[c]
        pid == FirstId(q.provider, q.payment)
    IN  /\ q.pc = "insert"
        /\ payment' = [payment EXCEPT ![q.payment] =
              [order |-> q.order, provider |-> q.provider, key |-> q.key,
               status |-> "PENDING", pid |-> pid]]
        /\ disturbed' = IF PaymentsOf(q.order) = {} THEN disturbed
                        ELSE disturbed \cup {q.order}
        /\ written' = [written EXCEPT ![q.payment] = @ \cup {"PENDING"}]
        /\ named' = [named EXCEPT ![q.payment] = @ \cup ({pid} \ {None})]
        /\ call' = [call EXCEPT ![c] = Idle]
        /\ UNCHANGED <<order, gateway, sent, edited>>

-----------------------------------------------------------------------------
(* verifyPayment: a payment that is not PAID is put to the provider under  *)
(* the id the client sends, and a successful answer is written on the      *)
(* payment and then on the order.                                          *)

(* Mutant: a payment that is PAID is verified again.                       *)
VerifyAnyRead(c, p, g) ==
    /\ call[c] = Idle
    /\ payment[p] # None
    /\ call' = [call EXCEPT ![c] = [Idle EXCEPT !.pc = "ask", !.kind = "verify",
                    !.payment = p, !.order = payment[p].order,
                    !.seen = payment[p].status, !.charge = g]]
    /\ disturbed' = Started(payment[p].order)
    /\ UNCHANGED <<order, payment, gateway, sent, written, named, edited>>

VerifyRead(c, p, g) ==
    /\ call[c] = Idle
    /\ payment[p] # None /\ payment[p].status # "PAID"
    /\ call' = [call EXCEPT ![c] = [Idle EXCEPT !.pc = "ask", !.kind = "verify",
                    !.payment = p, !.order = payment[p].order,
                    !.seen = payment[p].status, !.charge = g]]
    /\ disturbed' = Started(payment[p].order)
    /\ UNCHANGED <<order, payment, gateway, sent, written, named, edited>>

(* Razorpay is asked for the charge that was sent, and knows its own only; *)
(* the signature must fit that charge and its Razorpay order.  Neither the *)
(* order nor the amount of the charge is compared with the payment's.      *)
Held(g) ==
    IF g \in PaymentIds /\ gateway[g].provider = "RAZORPAY" THEN gateway[g].state ELSE "none"

(* Mutant: an authorized payment counts as captured.                       *)
AnswersAuthorizedAsPaid(p, g) ==
    IF payment[p].provider = "RAZORPAY" /\ Held(g) = "authorized" THEN {"PAID"}
    ELSE Verifies(payment[p].provider, Held(g))

(* What the provider of payment p answers when it is asked for charge g.   *)
Answers(p, g) == Verifies(payment[p].provider, Held(g))

VerifyAsk(c) ==
    /\ call[c].pc = "ask" /\ call[c].kind = "verify"
    /\ \E s \in Answers(call[c].payment, call[c].charge) :
          call' = [call EXCEPT ![c] = [@ EXCEPT !.pc = "payment", !.to = s]]
    /\ UNCHANGED <<order, payment, gateway, sent, written, named, edited, disturbed>>

-----------------------------------------------------------------------------
(* refundPayment: only a PAID payment, and only once the provider agreed.  *)

RefundRead(c, p) ==
    /\ call[c] = Idle
    /\ payment[p] # None /\ payment[p].status = "PAID"
    /\ Refunds(payment[p].provider)
    /\ call' = [call EXCEPT ![c] = [Idle EXCEPT !.pc = "payment", !.kind = "refund",
                    !.payment = p, !.order = payment[p].order,
                    !.to = "REFUNDED", !.status = "REFUNDED"]]
    /\ disturbed' = Started(payment[p].order)
    /\ UNCHANGED <<order, payment, gateway, sent, written, named, edited>>

-----------------------------------------------------------------------------
(* The webhook handlers find the payment by the provider's id and write    *)
(* its status whatever it was; success and full refunds write the order    *)
(* too.  An event whose payment is not found is acknowledged and dropped.  *)

(* Mutant: a partial refund has a status that the column does not have.    *)
StatusWithPartial(kind) ==
    CASE kind = "succeeded" -> "PAID"
      [] kind = "failed" -> "FAILED"
      [] kind = "action" -> "PENDING"
      [] kind = "refunded" -> "REFUNDED"
      [] kind = "partial" -> "PARTIALLY_REFUNDED"

StatusAfter(kind) ==
    CASE kind = "succeeded" -> "PAID"
      [] kind = "failed" -> "FAILED"
      [] kind = "action" -> "PENDING"
      [] kind \in {"refunded", "partial"} -> "REFUNDED"

OrderStatusAfter(kind) ==
    CASE kind = "succeeded" -> "PROCESSING"
      [] kind = "refunded" -> "REFUNDED"
      [] OTHER -> None

(* The handler is called for a genuine event, and takes a payment that     *)
(* carries the charge's id; refunds are looked up by that id alone, the    *)
(* other events by the order their charge was made for as well.            *)
Finds(e, p) ==
    LET charge == gateway[e.payment]
    IN  /\ payment[p] # None /\ payment[p].pid = e.payment
        /\ e.kind \in {"succeeded", "failed", "action"} => payment[p].order = charge.order
        /\ charge.provider \in Signed /\ e.kind \in Handled(charge.provider)
        /\ ~RenamesOrder(charge.provider)

(* Mutant: a webhook writes the order without writing the payment.         *)
DeliverToOrder(c, e, p) ==
    /\ call[c] = Idle
    /\ e \in sent /\ Finds(e, p)
    /\ call' = [call EXCEPT ![c] = [Idle EXCEPT !.pc = "order", !.kind = e.kind,
                    !.payment = p, !.order = payment[p].order,
                    !.to = StatusAfter(e.kind), !.status = OrderStatusAfter(e.kind)]]
    /\ disturbed' = Started(payment[p].order)
    /\ UNCHANGED <<order, payment, gateway, sent, written, named, edited>>

Deliver(c, e, p) ==
    /\ call[c] = Idle
    /\ e \in sent /\ Finds(e, p)
    /\ call' = [call EXCEPT ![c] = [Idle EXCEPT !.pc = "payment", !.kind = e.kind,
                    !.payment = p, !.order = payment[p].order,
                    !.to = StatusAfter(e.kind), !.status = OrderStatusAfter(e.kind)]]
    /\ disturbed' = Started(payment[p].order)
    /\ UNCHANGED <<order, payment, gateway, sent, written, named, edited>>

-----------------------------------------------------------------------------
(* The two writes: first the payment, then, in most operations, the order. *)

(* Mutant: a webhook of a success leaves the order alone.                  *)
WritesOrderButForSuccess(kind) == kind \in {"verify", "refund", "refunded"}

WritesOrder(kind) == kind \in {"verify", "refund", "succeeded", "refunded"}

WritePayment(c) ==
    LET q == call[c]
    IN  /\ q.pc = "payment"
        /\ payment' = [payment EXCEPT ![q.payment].status = q.to,
              ![q.payment].pid = IF q.kind = "verify" THEN q.charge ELSE @]
        /\ written' = [written EXCEPT ![q.payment] = @ \cup {q.to}]
        /\ named' = [named EXCEPT ![q.payment] = @ \cup ({q.charge} \ {None})]
        /\ call' = [call EXCEPT ![c] =
              IF WritesOrder(q.kind) THEN [q EXCEPT !.pc = "order", !.seen = None, !.charge = None]
              ELSE Idle]
        /\ UNCHANGED <<order, gateway, sent, edited, disturbed>>

WriteOrder(c) ==
    LET q == call[c]
    IN  /\ q.pc = "order" /\ q.kind # "edit"
        /\ order' = [order EXCEPT ![q.order].paid = q.to,
                        ![q.order].status = IF q.status = None THEN @ ELSE q.status]
        /\ call' = [call EXCEPT ![c] = Idle]
        /\ UNCHANGED <<payment, gateway, sent, written, named, edited, disturbed>>

(* The server dies, a statement fails, or the provider refuses *)
Abandon(c) ==
    /\ call[c] # Idle
    /\ call' = [call EXCEPT ![c] = Idle]
    /\ disturbed' = IF call[c].pc = "order" /\ call[c].kind # "edit"
                      THEN disturbed \cup {call[c].order} ELSE disturbed
    /\ UNCHANGED <<order, payment, gateway, sent, written, named, edited>>

-----------------------------------------------------------------------------
(* OrdersService writes the same two columns: update() and cancel() refuse *)
(* an order that is delivered, cancelled or refunded when they read it.    *)

Terminal == {"DELIVERED", "CANCELLED", "REFUNDED"}

EditRead(c, o, s, paid) ==
    /\ call[c] = Idle
    /\ order[o].status \notin Terminal
    /\ s # None \/ paid # None
    /\ call' = [call EXCEPT ![c] = [Idle EXCEPT !.pc = "order", !.kind = "edit",
                    !.order = o, !.status = s, !.to = paid]]
    /\ disturbed' = Started(o)
    /\ UNCHANGED <<order, payment, gateway, sent, written, named, edited>>

EditWrite(c) ==
    LET q == call[c]
    IN  /\ q.pc = "order" /\ q.kind = "edit"
        /\ order' = [order EXCEPT
                ![q.order].status = IF q.status = None THEN @ ELSE q.status,
                ![q.order].paid = IF q.to = None THEN @ ELSE q.to]
        /\ edited' = [edited EXCEPT
                ![q.order].status = @ \cup ({q.status} \ {None}),
                ![q.order].paid = @ \cup ({q.to} \ {None})]
        /\ disturbed' = IF q.to = None THEN disturbed ELSE disturbed \cup {q.order}
        /\ call' = [call EXCEPT ![c] = Idle]
        /\ UNCHANGED <<payment, gateway, sent, written, named>>

-----------------------------------------------------------------------------
(* External: the provider's side of a payment, and its events.  Cash on    *)
(* delivery has none.                                                      *)

Moves == {<<"created", "authorized", "action">>, <<"created", "failed", "failed">>,
          <<"authorized", "failed", "failed">>, <<"created", "captured", "succeeded">>,
          <<"authorized", "captured", "succeeded">>, <<"failed", "captured", "succeeded">>,
          <<"captured", "refunded", "refunded">>, <<"captured", "captured", "partial">>}

GatewayMoves(p, m) ==
    /\ gateway[p].provider \notin {None, "COD"}
    /\ gateway[p].state = m[1]
    /\ Cardinality(sent) < MaxEvents
    /\ gateway' = [gateway EXCEPT ![p].state = m[2]]
    /\ sent' = sent \cup {[payment |-> p, kind |-> m[3]]}
    /\ UNCHANGED <<order, payment, call, written, named, edited, disturbed>>

-----------------------------------------------------------------------------
Init ==
    /\ order = [o \in OrderIds |-> [status |-> "PENDING", paid |-> "PENDING"]]
    /\ payment = [p \in PaymentIds |-> None]
    /\ gateway = [p \in PaymentIds |-> [state |-> "none", provider |-> None, order |-> None]]
    /\ sent = {}
    /\ call = [c \in Calls |-> Idle]
    /\ written = [p \in PaymentIds |-> {}]
    /\ named = [p \in PaymentIds |-> {}]
    /\ edited = [o \in OrderIds |-> [status |-> {}, paid |-> {}]]
    /\ disturbed = {}

CallStep(c) ==
    \/ \E o \in OrderIds, d \in Providers, k \in Keys \cup {None} : CreateRead(c, o, d, k)
    \/ \E p \in PaymentIds : CreateIntent(c, p)
    \/ CreateInsert(c)
    \/ \E p \in PaymentIds, g \in PaymentIds \cup {None} : VerifyRead(c, p, g)
    \/ VerifyAsk(c)
    \/ \E p \in PaymentIds : RefundRead(c, p)
    \/ \E e \in sent, p \in PaymentIds : Deliver(c, e, p)
    \/ WritePayment(c)
    \/ WriteOrder(c)
    \/ Abandon(c)
    \/ \E o \in OrderIds, s \in EditStatuses \cup {None}, paid \in EditPayments \cup {None} :
          EditRead(c, o, s, paid)
    \/ EditWrite(c)

Next ==
    \/ \E c \in Calls : CallStep(c)
    \/ \E p \in PaymentIds, m \in Moves : GatewayMoves(p, m)

Spec == Init /\ [][Next]_vars

-----------------------------------------------------------------------------
TypeOK ==
    /\ order \in [OrderIds -> [status : OrderStatus, paid : PaymentStatus]]
    /\ payment \in [PaymentIds -> Payment \cup {None}]
    /\ gateway \in [PaymentIds -> Gateway]
    /\ sent \subseteq Event
    /\ call \in [Calls -> Call]
    /\ written \in [PaymentIds -> SUBSET PaymentStatus]
    /\ named \in [PaymentIds -> SUBSET PaymentIds]
    /\ edited \in [OrderIds -> [status : SUBSET OrderStatus, paid : SUBSET PaymentStatus]]
    /\ disturbed \subseteq OrderIds

(* A payment of a provider that asks its gateway is PAID only if that      *)
(* gateway took the money of a charge which verifyPayment was given for    *)
(* this payment: neither a stale answer, an event out of order nor a       *)
(* stand-in for a gateway that cannot be reached invents a capture.  Which *)
(* payment or order the charge was made for, nothing compares.             *)
Captured(g) == gateway[g].provider = "RAZORPAY" /\ gateway[g].state \in {"captured", "refunded"}

PaidOnlyIfCaptured ==
    \A p \in PaymentIds :
        payment[p] # None /\ payment[p].provider \in Asking /\ payment[p].status = "PAID"
            => \E g \in named[p] : Captured(g)

(* An order that says PAID or REFUNDED says so because one of its payments *)
(* was at some time PAID or REFUNDED, or because an edit of the order      *)
(* (OrdersService.update) said so; however calls interleave or stop, no    *)
(* order takes the payment status of another one.                          *)
OrderPaymentBacked ==
    \A o \in OrderIds : order[o].paid \in {"PAID", "REFUNDED"} =>
        \/ order[o].paid \in edited[o].paid
        \/ \E p \in PaymentsOf(o) : order[o].paid \in written[p]

(* No order becomes REFUNDED without a payment that was PAID or that its   *)
(* provider had refunded, unless an edit of the order made it so.          *)
NoRefundWithoutPayment ==
    \A o \in OrderIds : order[o].status = "REFUNDED" =>
        \/ "REFUNDED" \in edited[o].status
        \/ \E p \in PaymentsOf(o) :
            \/ "PAID" \in written[p]
            \/ \E g \in named[p] : gateway[g].state = "refunded"

(* Payment and order say the same of a paid order, between calls: a PAID   *)
(* payment whose order is not paid takes a second payment, an edit, two    *)
(* overlapping calls, or a call that stopped between its two writes.       *)
PaidPaymentPaidOrder ==
    \A o \in OrderIds : Busy(o) = {} /\ o \notin disturbed =>
        \A p \in PaymentsOf(o) : payment[p].status = "PAID" => order[o].paid = "PAID"

(* A PAID payment loses that status only by a refund, by a webhook, or by  *)
(* a verification that read it before it was PAID.                         *)
PaidLeftOnlyByRefundWebhookOrStaleVerify ==
    [][\A p \in PaymentIds :
          payment[p] # None /\ payment[p].status = "PAID" /\ payment'[p].status # "PAID"
          => \E c \in Calls :
                /\ call[c].pc = "payment" /\ call[c].payment = p
                /\ call[c].kind = "verify" => call[c].seen # "PAID"]_vars
=============================================================================
