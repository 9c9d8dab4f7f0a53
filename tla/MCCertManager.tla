---------------------------- MODULE MCCertManager ----------------------------
(* Instances of CertManager for TLC. *)
EXTENDS CertManager

\* A short ladder of delays whose last step the cap cuts off, as 32h is by 24h.
MCDelays == <<1, 4>>

\* The length of a delay plays no part in what is tried again.
MCOneDelay == <<1>>
==============================================================================
