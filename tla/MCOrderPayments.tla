-------------------------- MODULE MCOrderPayments ---------------------------
EXTENDS OrderPayments, TLC

\* Payment workers are interchangeable, and so are Razorpay orders.
PaySymmetry == Permutations(PayRequests) \cup Permutations(Payments)
=============================================================================
