------------------------- MODULE MCEmbeddedPayment -------------------------
(* Instances of EmbeddedPayment, with its history, for TLC.                 *)
EXTENDS PaymentHistory

SomeKinds == {"pending", "challenge", "action"}
NoKinds == {}
=============================================================================
