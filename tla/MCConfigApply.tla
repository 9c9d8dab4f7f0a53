---------------------------- MODULE MCConfigApply ----------------------------
(* Instances of ConfigApply for TLC. *)
EXTENDS ConfigApply, TLC

\* Every relay is reached at one host and port.
MCNexthop(login) == "smtp.relay.test:587"

\* Requests differ in nothing but what they ask for, and so do the two logins.
Symmetry == Permutations(Admins) \cup Permutations(Logins)
==============================================================================
