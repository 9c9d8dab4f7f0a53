----------------------------- MODULE CertLifecycle -----------------------------
(***************************************************************************)
(* What the certificate manager promises about one tracked hostname, seen  *)
(* from the certificates table alone: the status moves along               *)
(*                                                                         *)
(*     (untracked) -> pending -> issuing -> active | error                 *)
(*                                                                         *)
(* with dns_wait reachable from every tracked status (the DNS preflight    *)
(* runs first), and one host's status moving at a time.  In particular a   *)
(* certificate becomes active or error only out of "issuing": a slow       *)
(* issuance may not overwrite the verdict of one that finished meanwhile.  *)
(***************************************************************************)
CONSTANT Hosts

VARIABLE status     \* status[h]: the certificates row's status, "none" without a row

Statuses == {"none", "pending", "dns_wait", "issuing", "active", "error"}

Init == status = [h \in Hosts |-> "none"]

Becomes(h, s) == status' = [status EXCEPT ![h] = s]

\* A hostname starts to be tracked.
Track(h) == status[h] = "none" /\ Becomes(h, "pending")

\* An attempt begins, from whatever the last one left behind.
Begin(h) == status[h] # "none" /\ Becomes(h, "issuing")

\* The attempt ends with a certificate on disk.
Succeed(h) == status[h] = "issuing" /\ Becomes(h, "active")

\* The attempt ends with a reason the admin can read.
Fail(h) == status[h] = "issuing" /\ Becomes(h, "error")

\* The hostname does not point at this server: the authority is not contacted.
AwaitDNS(h) == status[h] # "none" /\ Becomes(h, "dns_wait")

\* The domain is deleted and its certificate row with it.
Drop(h) == Becomes(h, "none")

Next == \E h \in Hosts :
          \/ Track(h) \/ Begin(h) \/ Succeed(h)
          \/ Fail(h) \/ AwaitDNS(h) \/ Drop(h)

Spec == Init /\ [][Next]_status
================================================================================
