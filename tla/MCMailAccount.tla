----------------------------- MODULE MCMailAccount -----------------------------
(* Instances of MailAccount for TLC.                                         *)
EXTENDS MailAccount, TLC

\* Requests, and passwords, are interchangeable.
Interchangeable == Permutations(Requests) \cup Permutations(Passwords)
================================================================================
