------------------------------ MODULE Submission ------------------------------
(***************************************************************************)
(* What the webmail promises of mail a user asks it to send, seen from the *)
(* user and from Postfix alone: a message is handed to Postfix once at     *)
(* most and while its user is still waiting, "ok" is said of nothing that  *)
(* Postfix has not taken on, and an answer is never taken back.  An error  *)
(* may be told of a message that has been taken on all the same, because   *)
(* the answer to it was lost: the promise is not to tell the opposite.     *)
(***************************************************************************)
CONSTANT Requests

VARIABLES
    answer,     \* answer[r]: "none" if r was not asked for, "waiting", or what it was told
    accepted    \* what Postfix has taken on, each with the request it is of

Init ==
    /\ answer = [r \in Requests |-> "none"]
    /\ accepted = {}

HandedOver(r) == \E q \in accepted : q.request = r

Told(r, from, a) ==
    /\ answer[r] = from
    /\ answer' = [answer EXCEPT ![r] = a]
    /\ UNCHANGED accepted

Ask(r) == Told(r, "none", "waiting")

\* Postfix takes the message of a request on.
Accept(r) ==
    /\ answer[r] = "waiting"
    /\ ~HandedOver(r)
    /\ \E q \in accepted' : q.request = r /\ accepted' = accepted \cup {q}
    /\ UNCHANGED answer

Confirm(r) == HandedOver(r) /\ Told(r, "waiting", "ok")

Fail(r) == Told(r, "waiting", "error")

Next == \E r \in Requests : Ask(r) \/ Accept(r) \/ Confirm(r) \/ Fail(r)

Spec == Init /\ [][Next]_<<answer, accepted>>
=============================================================================
