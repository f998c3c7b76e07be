SPECIFICATION MCSpec
CONSTANTS
  OrderIds = {o1, o2}
  PaymentIds = {p1, p2}
  Providers = {"STRIPE", "RAZORPAY", "PAYTM"}
  Keyed = {"STRIPE", "RAZORPAY", "PAYTM"}
  Signed = {"STRIPE", "RAZORPAY", "PAYTM"}
  Keys = {k1}
  Calls = {c1, c2}
  EditStatuses = {"DELIVERED"}
  EditPayments = {"PAID"}
  MaxEvents = 3
  FewProviders = {"RAZORPAY", "PAYTM"}
  FewEvents = 2
  None = None
SYMMETRY Symmetry
INVARIANTS
  PaidOnlyIfCaptured
  OrderPaymentBacked
  PaidPaymentPaidOrder
PROPERTIES
  PaidLeftOnlyByRefundWebhookOrStaleVerify
CHECK_DEADLOCK FALSE
