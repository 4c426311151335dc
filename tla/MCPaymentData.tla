--------------------------- MODULE MCPaymentData ---------------------------
(* Instances of PaymentData for TLC. *)
EXTENDS PaymentData, TLC
=============================================================================
