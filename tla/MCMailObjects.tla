---------------------------- MODULE MCMailObjects ----------------------------
(* Instances of MailObjects for TLC, and DnsCheck against what it should say. *)
EXTENDS MailObjects, TLC

\* Rows differ in nothing but their ids, and requests in what they ask for.
Symmetry ==
    Permutations(Admins) \cup Permutations(Locals)
        \cup Permutations(DomainIds) \cup Permutations(MailboxIds)

IP(h, f)   == [host |-> h, family |-> f]
Txt(t, b)  == [tag |-> t, body |-> b]
Reply(ips, mxs) ==
    [ips |-> ips, mxs |-> mxs, root |-> <<Txt("spf1", {"mx"})>>, selector |-> <<>>,
     dmarc |-> <<>>]

\* Nothing; everything in order; the wrong host, the other family, or both hosts.
MCAnswers ==
    {Reply(<<>>, <<>>),
     Reply(<<IP("there", 4), IP(Here, 4)>>, <<"there", Here>>),
     Reply(<<IP(Here, 6)>>, <<Here>>),
     Reply(<<IP(Here, 4)>>, <<"there">>),
     Reply(<<IP("there", 4)>>, <<Here>>)}

\* DnsCheck against what its comments ask of it, for short answers: the order in
\* which a resolver lists addresses and hosts does not matter, and a mechanism
\* counts only as a whole.
IPs     == [host : {"here", "there"}, family : {4, 6}]
Lists(S) == {<<>>} \cup {<<x>> : x \in S} \cup {<<x, y>> : x, y \in S}

ASSUME OrderDoesNotMatter ==
    /\ \A s \in Lists(IPs), f \in {4, 6} :
         CheckAddress(s, f, {"here"}) = CheckAddress(Reverse(s), f, {"here"})
    /\ \A s \in Lists({"here", "there"}) : CheckMX(s, "here") = CheckMX(Reverse(s), "here")

ASSUME OkMeansFound ==
    /\ \A s \in Lists(IPs), f \in {4, 6} :
         CheckAddress(s, f, {"here"}) = "ok" <=> IP("here", f) \in Range(s)
    /\ \A s \in Lists({Txt(t, b) : t \in {"spf1", "other"},
                                    b \in SUBSET {"mx", "include:mx"}}) :
         /\ CheckSPF(s, {"mx"}) = "ok" => \E i \in DOMAIN s : "mx" \in s[i].body
         /\ CheckSPF(s, {"mx"}) = "missing" <=> \A i \in DOMAIN s : s[i].tag # "spf1"

\* A certificate may be ordered for a name the check finds in order.
ASSUME CheckedPassesPreflight ==
    \A s \in Lists(IPs) :
        CheckAddress(s, 4, {"here"}) = "ok" => Preflight(s, {"here"})
=============================================================================
