------------------------------ MODULE MCWebmail ------------------------------
(* An instance of Webmail for TLC. *)
EXTENDS Webmail

M(from, replyTo, to, cc, parts) ==
    [from |-> from, replyTo |-> replyTo, to |-> to, cc |-> cc, parts |-> parts]

\* A message to a list that is answered to the list, and one from outside.
MCArriving ==
    {M({"ann"}, {"list"}, {"list", Me}, {}, {"p1", "p2"})}

MCAtStart == <<"INBOX", "Trash">>

MCForms == {[to |-> {"ann"}, cc |-> {}, bcc |-> {"list"}]}

\* reply, over every message.
ASSUME ReplyReachesAll ==
    \A mail \in [from : {{"ann"}, {Me}}, replyTo : SUBSET Addresses,
                 to : SUBSET Addresses, cc : SUBSET Addresses, parts : {{}}] :
        Answerable(mail)
=============================================================================
