----------------------------- MODULE Providers -----------------------------
(***************************************************************************)
(* The payment providers (src/modules/payments/providers) and the verifier *)
(* of webhooks: what each of them makes of a payment.                      *)
(*                                                                         *)
(* A UPI payment goes through an application, metadata.upiProvider or the  *)
(* default of the environment, which selects the configuration and the     *)
(* method called; each application is a provider here, and "UPI" stands    *)
(* for every other name.  Addresses, links, QR codes and tokens are left   *)
(* out; a checksum or signature holds when both sides have the same key.   *)
(***************************************************************************)

Apps == {"PHONEPE", "GOOGLEPAY", "PAYTM", "BHARATPE", "UPI"}
AllProviders == {"STRIPE", "RAZORPAY", "COD"} \cup Apps

(* Providers that ask the gateway how a payment stands.  The others answer *)
(* without asking: "In production, you would call ... For now".            *)
Asking == {"RAZORPAY", "PAYTM"}

-----------------------------------------------------------------------------
(* createPaymentIntent: the keys a provider cannot do without.  Stripe and *)
(* Razorpay check theirs; Paytm's checksum cannot be made without the key, *)
(* neither for the call to its API nor for the stand-in used when that     *)
(* call fails.                                                             *)
StripeNeedsKeys == TRUE
RazorpayNeedsKeys == TRUE
CodNeedsKeys == FALSE
UpiNeedsKeys(app) == app = "PAYTM"

NeedsKeys(d) ==
    \/ d = "STRIPE" /\ StripeNeedsKeys
    \/ d = "RAZORPAY" /\ RazorpayNeedsKeys
    \/ d = "COD" /\ CodNeedsKeys
    \/ d \in Apps /\ UpiNeedsKeys(d)

(* The id of the intent is ours; a gateway has its own id for the charge,  *)
(* which Stripe's events do not use.  Paytm and BharatPe are told of an    *)
(* order named ORDER_ and the id of the intent.                            *)
GatewayNamesCharge(d) == d \in {"RAZORPAY", "PHONEPE", "GOOGLEPAY", "PAYTM", "BHARATPE"}
RenamesOrder(d) == d \in {"PAYTM", "BHARATPE"}

-----------------------------------------------------------------------------
(* mapUpiStatus, of the words a status contains: the words of the table    *)
(* are looked up first, then parts of words, success before failure.       *)
UpiStatus(words) ==
    IF words \cap {"SUCCESS", "COMPLETE", "PAID", "CAPTURED", "AUTHORIZED", "COLLECTED"} # {}
      THEN "PAID"
    ELSE IF words \cap {"FAIL", "DECLINE", "REJECT", "ERROR"} # {} THEN "FAILED"
    ELSE IF words \cap {"PEND", "WAIT", "PROCESS", "INITIATED"} # {} THEN "PENDING"
    ELSE IF "REFUND" \in words THEN "REFUNDED" ELSE "PENDING"

(* What an application answers under "status": none has a signature to     *)
(* fail, Paytm's answer and its stand-in have theirs under "STATUS".       *)
AppAnswers(app) ==
    CASE app = "GOOGLEPAY" -> {{"COMPLETE"}}
      [] app \in {"PHONEPE", "BHARATPE", "UPI"} -> {{"SUCCESS"}}
      [] app = "PAYTM" -> {}

(* Statuses of a successful verification.  A UPI payment is verified only  *)
(* as PAID; an answer without a status is an error, and not a success.     *)
UpiVerifies(app) == {UpiStatus(words) : words \in AppAnswers(app)} \cap {"PAID"}
StripeVerifies == {"PAID"}
CodVerifies == {"PENDING"}
RazorpayVerifies(held) ==
    CASE held = "captured" -> {"PAID"}
      [] held = "authorized" -> {"PENDING"}
      [] held = "refunded" -> {"REFUNDED"}
      [] OTHER -> {}

Verifies(d, held) ==
    CASE d = "STRIPE" -> StripeVerifies
      [] d = "COD" -> CodVerifies
      [] d = "RAZORPAY" -> RazorpayVerifies(held)
      [] d \in Apps -> UpiVerifies(d)

-----------------------------------------------------------------------------
(* processRefund: no provider fails.  Paytm asks its API and answers with  *)
(* a stand-in when that fails; an amount below the payment's is mentioned  *)
(* in the message only.                                                    *)
StripeRefunds == TRUE
RazorpayRefunds == TRUE
CodRefunds == TRUE
PaytmRefunds == TRUE
UpiRefunds(app) == app = "PAYTM" => PaytmRefunds

Refunds(d) ==
    CASE d = "STRIPE" -> StripeRefunds
      [] d = "COD" -> CodRefunds
      [] d = "RAZORPAY" -> RazorpayRefunds
      [] d \in Apps -> UpiRefunds(d)

-----------------------------------------------------------------------------
(* Webhooks: the kinds of event the controller has a case for.  Razorpay's *)
(* refunds have one, but handlePaymentRefunded looks for a payment_intent, *)
(* which only Stripe's charges name.                                       *)
StripeHandled == {"succeeded", "failed", "action", "refunded", "partial"}
RazorpayHandled == {"succeeded", "failed"}
UpiHandled == {"succeeded", "failed"}

Handled(d) ==
    CASE d = "STRIPE" -> StripeHandled
      [] d = "RAZORPAY" -> RazorpayHandled
      [] d \in Apps \ {"UPI"} -> UpiHandled
      [] OTHER -> {}
=============================================================================
