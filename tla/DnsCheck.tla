------------------------------ MODULE DnsCheck ------------------------------
(***************************************************************************)
(* The records a domain needs and how the resolver's answers are judged    *)
(* (internal/dnscheck).  An answer is a sequence, in the order the         *)
(* resolver returned it; an empty one also stands for a failed lookup.     *)
(* A TXT string is a record: its version tag and what follows, a set of    *)
(* SPF mechanisms or a DKIM key.  Everything here is a pure function.      *)
(***************************************************************************)
EXTENDS Sequences, SequencesExt

Purposes == {"a", "aaaa", "mx", "spf", "dkim", "dmarc"}
Verdicts == {"ok", "missing", "mismatch"}

\* The records asked for: an A record always, AAAA, DKIM and the relay's SPF
\* include only when there is something to ask for.
RequiredRecords(in) ==
    {"a", "mx", "spf", "dmarc"}
        \cup (IF in.ipv6 # {} THEN {"aaaa"} ELSE {})
        \cup (IF in.dkim # {} THEN {"dkim"} ELSE {})

RequiredMechanisms(in) == {"mx"} \cup in.include

\* A or AAAA: one of the addresses of the record's own family is the server's.
CheckAddress(ips, family, want) ==
    LET found == {ip \in Range(ips) : ip.family = family}
    IN  IF found = {} THEN "missing"
        ELSE IF \E ip \in found : ip.host \in want THEN "ok" ELSE "mismatch"

\* MX: one of the hosts is the mail hostname, at whatever preference.
CheckMX(mxs, want) ==
    IF mxs = <<>> THEN "missing"
    ELSE IF want \in Range(mxs) THEN "ok" ELSE "mismatch"

\* checkTXTPrefix: the first string that starts with the version tag is the one
\* that is judged; the strings behind it are not looked at.
Tagged(txts, tag) == SelectSeq(txts, LAMBDA t : t.tag = tag)

CheckSPF(txts, mechanisms) ==
    LET found == Tagged(txts, "spf1")
    IN  IF found = <<>> THEN "missing"
        ELSE IF mechanisms \subseteq Head(found).body THEN "ok" ELSE "mismatch"

CheckDKIM(txts, key) ==
    LET found == Tagged(txts, "DKIM1")
    IN  IF found = <<>> THEN "missing"
        ELSE IF Head(found).body = key THEN "ok" ELSE "mismatch"

CheckDMARC(txts) == IF Tagged(txts, "DMARC1") = <<>> THEN "missing" ELSE "ok"

\* checkOne, for the whole record set: the answers to one check.
Check(in, answer) ==
    [p \in RequiredRecords(in) |->
        CASE p = "a"     -> CheckAddress(answer.ips, 4, in.ipv4)
          [] p = "aaaa"  -> CheckAddress(answer.ips, 6, in.ipv6)
          [] p = "mx"    -> CheckMX(answer.mxs, in.host)
          [] p = "spf"   -> CheckSPF(answer.root, RequiredMechanisms(in))
          [] p = "dkim"  -> CheckDKIM(answer.selector, in.dkim)
          [] p = "dmarc" -> CheckDMARC(answer.dmarc)]

\* updateDomainHealth looks at the essential records only.
HealthOf(records) ==
    IF records["a"] = "ok" /\ records["mx"] = "ok" THEN "active" ELSE "pending"

\* PreflightHostname: the name resolves, and to an address of this server.
Preflight(ips, server) == server # {} /\ \E ip \in Range(ips) : ip.host \in server
=============================================================================
