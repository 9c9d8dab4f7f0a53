---------------------------- MODULE MailObjects ----------------------------
(***************************************************************************)
(* Domains, mailboxes and aliases (internal/db/store_mail, admin/core), a  *)
(* domain's DKIM key (configgen/dkim) and DNS check, and the Postfix and   *)
(* OpenDKIM maps that configgen builds from them.  The webmail computes    *)
(* who may send as whom on its own, from the database (mailapi/send).      *)
(*                                                                         *)
(* Each SQL statement is atomic; a request is several, and requests are    *)
(* served at once.  The order in which Apply's writes and reloads meet     *)
(* those of another Apply is the subject of ConfigApply: here the maps are *)
(* written and loaded in one step, and only the queries are apart.         *)
(***************************************************************************)
EXTENDS Naturals, FiniteSets, DnsCheck

CONSTANTS
    Names,          \* domain names
    Locals,         \* local parts
    CatchAll,       \* the empty local part of a catch-all's source
    Outside,        \* an address on nobody's domain here
    DomainIds,      \* row ids (AUTOINCREMENT: used once)
    MailboxIds,
    AliasIds,
    Admins,         \* goroutines serving admin requests
    Null,           \* no row
    Here,           \* this server, as DNS answers name it
    Answers,        \* what resolvers may answer to the lookups of one check
    MaxRequests     \* bound: requests served

ASSUME LocalsAssumption == CatchAll \notin Locals
ASSUME NamesAssumption == Names # {} /\ Null \notin Names
ASSUME IdsAssumption == Null \notin DomainIds \cup MailboxIds \cup AliasIds
ASSUME BoundAssumption == MaxRequests \in Nat

VARIABLES
    domain,         \* domain[d]: the row, or NoDomain
    mailbox,        \* mailbox[m]: the row, or NoMailbox
    alias,          \* alias[x]: the row, or NoAlias
    spent,          \* ids handed out so far
    key,            \* key[n]: the DKIM key file of a name: none, torn or whole
    maps,           \* the published maps
    pc,             \* pc[w]: where request w is
    req,            \* req[w]: what request w asks for, and the row it read
    view,           \* view[w]: the Data request w has assembled
    orderly,        \* history: no request has overlapped or failed since a lone Apply
    earned,         \* history: domain ids some check found in order
    requests        \* requests so far

rows  == <<domain, mailbox, alias, spent>>
vars  == <<rows, key, maps, pc, req, view, orderly, earned, requests>>

--------------------------------------------------------------------------------
(* Data.                                                                    *)

At(l, n)  == [local |-> l, name |-> n]
Addresses == [local : Locals, name : Names]
Sources   == [local : Locals \cup {CatchAll}, name : Names]

NoDomain  == [name |-> Null, status |-> "none"]
NoMailbox == [domain |-> Null, email |-> Outside, enabled |-> FALSE]
NoAlias   == [domain |-> Null, source |-> Outside, dest |-> Outside,
              catchAll |-> FALSE, enabled |-> FALSE]

NoDomains   == [d \in DomainIds |-> NoDomain]
NoMailboxes == [m \in MailboxIds |-> NoMailbox]

Live      == {d \in DomainIds : domain[d] # NoDomain}
Mailboxes == {m \in MailboxIds : mailbox[m] # NoMailbox}
Aliases   == {x \in AliasIds : alias[x] # NoAlias}

\* What Build assembles: the lines of virtual_domains, virtual_mailboxes,
\* virtual_aliases, sender_logins and of OpenDKIM's key table.
Data(ds, ms, as, ls, ks) ==
    [domains |-> ds, mailboxes |-> ms, aliases |-> as, logins |-> ls, signed |-> ks]
Nothing == Data({}, {}, {}, {}, {})

\* buildSenderLogins: a mailbox owns its address, and an alias that is no
\* catch-all is owned by the mailboxes it forwards to.
SenderLogins(boxes, as) ==
    {[sender |-> b, owner |-> b] : b \in boxes}
        \cup {[sender |-> a.source, owner |-> a.dest] :
                 a \in {c \in as : ~ c.catchAll /\ c.dest \in boxes}}

NoRequest == [id |-> Null, name |-> Null, to |-> Outside, from |-> Outside,
              flag |-> "keep", status |-> "none"]

\* The setup wizard has created a domain and a mailbox, and has published both.
\* It goes on, too, if the DKIM key cannot be generated.
Init ==
    \E n \in Names, l \in Locals, d \in DomainIds, m \in MailboxIds, keyed \in BOOLEAN :
        /\ domain = [NoDomains EXCEPT ![d] = [name |-> n, status |-> "pending"]]
        /\ mailbox = [NoMailboxes EXCEPT ![m] =
                        [domain |-> d, email |-> At(l, n), enabled |-> TRUE]]
        /\ alias = [x \in AliasIds |-> NoAlias]
        /\ spent = {d, m}
        /\ key = [k \in Names |-> IF k = n /\ keyed THEN "whole" ELSE "none"]
        /\ maps = Data({n}, {At(l, n)}, {}, SenderLogins({At(l, n)}, {}),
                       IF keyed THEN {n} ELSE {})
        /\ pc = [w \in Admins |-> "idle"]
        /\ req = [w \in Admins |-> NoRequest]
        /\ view = [w \in Admins |-> Nothing]
        /\ orderly = TRUE
        /\ earned = {}
        /\ requests = 0

--------------------------------------------------------------------------------
(* Requests.                                                                *)

Others(w) == \A v \in Admins \ {w} : pc[v] = "idle"

Goto(w, l) == pc' = [pc EXCEPT ![w] = l]

Begin(w, l, r) ==
    /\ pc[w] = "idle"
    /\ requests < MaxRequests
    /\ requests' = requests + 1
    /\ Goto(w, l)
    /\ req' = [req EXCEPT ![w] = r]
    /\ orderly' = (orderly /\ Others(w))
    /\ UNCHANGED <<rows, key, maps, view, earned>>

\* The request ends; what it has stored stays.
End(w) ==
    /\ Goto(w, "idle")
    /\ req' = [req EXCEPT ![w] = NoRequest]
    /\ UNCHANGED <<rows, key, maps, view, orderly, earned, requests>>

StatementFrame == UNCHANGED <<key, maps, view, orderly, earned, requests>>

\* Store.CreateDomain: the name is UNIQUE, the status pending.
InsertDomain(w) ==
    /\ pc[w] = "insert domain"
    /\ \A d \in Live : domain[d].name # req[w].name
    /\ \E d \in DomainIds \ spent :
         /\ domain' = [domain EXCEPT ![d] = [name |-> req[w].name, status |-> "pending"]]
         /\ spent' = spent \cup {d}
    /\ Goto(w, "stat key")
    /\ UNCHANGED <<mailbox, alias, req>>
    /\ StatementFrame

\* EnsureDKIMKey: a file of that name is left alone, whatever is in it ...
StatKey(w) ==
    /\ pc[w] = "stat key"
    /\ Goto(w, IF key[req[w].name] # "none" THEN "apply" ELSE "open key")
    /\ UNCHANGED <<rows, req>>
    /\ StatementFrame

\* ... else a new pair is generated, and os.WriteFile truncates and writes.
OpenKey(w) ==
    /\ pc[w] = "open key"
    /\ key' = [key EXCEPT ![req[w].name] = "torn"]
    /\ Goto(w, "write key")
    /\ UNCHANGED <<rows, maps, req, view, orderly, earned, requests>>

WriteKey(w) ==
    /\ pc[w] = "write key"
    /\ key' = [key EXCEPT ![req[w].name] = "whole"]
    /\ Goto(w, "apply")
    /\ UNCHANGED <<rows, maps, req, view, orderly, earned, requests>>

\* Generating or writing the key fails: logged, and the request goes on.  What
\* was opened stays, cut short.
KeyFails(w) ==
    /\ pc[w] \in {"open key", "write key"}
    /\ Goto(w, "apply")
    /\ UNCHANGED <<rows, req>>
    /\ StatementFrame

\* ON DELETE CASCADE takes the mailboxes and aliases; the key file stays.
DeleteDomain(w) ==
    /\ pc[w] = "delete domain"
    /\ req[w].id \in Live
    /\ domain' = [domain EXCEPT ![req[w].id] = NoDomain]
    /\ mailbox' = [m \in MailboxIds |->
                     IF mailbox[m].domain = req[w].id THEN NoMailbox ELSE mailbox[m]]
    /\ alias' = [x \in AliasIds |->
                   IF alias[x].domain = req[w].id THEN NoAlias ELSE alias[x]]
    /\ Goto(w, "apply")
    /\ UNCHANGED <<spent, req>>
    /\ StatementFrame

\* CreateMailbox and CreateAlias first read the domain, for its name ...
ReadDomain(w) ==
    /\ pc[w] \in {"mailbox domain", "alias domain"}
    /\ req[w].id \in Live
    /\ req[w].from.name = domain[req[w].id].name
    /\ req[w].from # req[w].to
    /\ Goto(w, IF pc[w] = "mailbox domain" THEN "insert mailbox" ELSE "insert alias")
    /\ UNCHANGED <<rows, req>>
    /\ StatementFrame

InsertMailboxUnkeyed(w) ==  \* foreign keys are not enforced
    /\ pc[w] = "insert mailbox"
    /\ \A m \in Mailboxes : mailbox[m].email # req[w].from
    /\ \E m \in MailboxIds \ spent :
         /\ mailbox' = [mailbox EXCEPT ![m] =
                          [domain |-> req[w].id, email |-> req[w].from, enabled |-> TRUE]]
         /\ spent' = spent \cup {m}
    /\ Goto(w, "apply")
    /\ UNCHANGED <<domain, alias, req>>
    /\ StatementFrame

\* ... and insert in a second statement: domain_id is a foreign key, the
\* address UNIQUE.
InsertMailbox(w) ==
    /\ pc[w] = "insert mailbox"
    /\ req[w].id \in Live
    /\ \A m \in Mailboxes : mailbox[m].email # req[w].from
    /\ \E m \in MailboxIds \ spent :
         /\ mailbox' = [mailbox EXCEPT ![m] =
                          [domain |-> req[w].id, email |-> req[w].from, enabled |-> TRUE]]
         /\ spent' = spent \cup {m}
    /\ Goto(w, "apply")
    /\ UNCHANGED <<domain, alias, req>>
    /\ StatementFrame

InsertAlias(w) ==
    /\ pc[w] = "insert alias"
    /\ req[w].id \in Live
    /\ \A x \in Aliases : ~ (alias[x].source = req[w].from /\ alias[x].dest = req[w].to)
    /\ \E x \in AliasIds \ spent :
         /\ alias' = [alias EXCEPT ![x] =
                        [domain |-> req[w].id, source |-> req[w].from, dest |-> req[w].to,
                         catchAll |-> req[w].from.local = CatchAll, enabled |-> TRUE]]
         /\ spent' = spent \cup {x}
    /\ Goto(w, "apply")
    /\ UNCHANGED <<domain, mailbox, req>>
    /\ StatementFrame

\* Core.UpdateMailbox reads the row, fills in what the request leaves out ...
ReadMailbox(w) ==
    /\ pc[w] = "read mailbox"
    /\ req[w].id \in Mailboxes
    /\ req' = [req EXCEPT ![w].flag =
                 IF @ # "keep" THEN @ ELSE IF mailbox[req[w].id].enabled THEN "on" ELSE "off"]
    /\ Goto(w, "update mailbox")
    /\ UNCHANGED rows
    /\ StatementFrame

UpdateMailboxUpsert(w) ==   \* a row that has gone comes back
    /\ pc[w] = "update mailbox"
    /\ mailbox' = [mailbox EXCEPT ![req[w].id].enabled = (req[w].flag = "on")]
    /\ Goto(w, "apply")
    /\ UNCHANGED <<domain, alias, spent, req>>
    /\ StatementFrame

\* ... and writes it back; a row that has gone is noticed on reading it again.
UpdateMailbox(w) ==
    /\ pc[w] = "update mailbox"
    /\ req[w].id \in Mailboxes
    /\ mailbox' = [mailbox EXCEPT ![req[w].id].enabled = (req[w].flag = "on")]
    /\ Goto(w, "apply")
    /\ UNCHANGED <<domain, alias, spent, req>>
    /\ StatementFrame

DeleteMailbox(w) ==
    /\ pc[w] = "delete mailbox"
    /\ req[w].id \in Mailboxes
    /\ mailbox' = [mailbox EXCEPT ![req[w].id] = NoMailbox]
    /\ Goto(w, "apply")
    /\ UNCHANGED <<domain, alias, spent, req>>
    /\ StatementFrame

UpdateAliasQuietly(w) ==    \* saved, and the maps left as they are
    /\ pc[w] = "update alias"
    /\ req[w].id \in Aliases
    /\ alias' = [alias EXCEPT ![req[w].id].enabled = (req[w].flag = "on")]
    /\ Goto(w, "idle")
    /\ UNCHANGED <<domain, mailbox, spent, req>>
    /\ StatementFrame

UpdateAliasEnabled(w) ==
    /\ pc[w] = "update alias"
    /\ req[w].id \in Aliases
    /\ alias' = [alias EXCEPT ![req[w].id].enabled = (req[w].flag = "on")]
    /\ Goto(w, "apply")
    /\ UNCHANGED <<domain, mailbox, spent, req>>
    /\ StatementFrame

DeleteAlias(w) ==
    /\ pc[w] = "delete alias"
    /\ req[w].id \in Aliases
    /\ alias' = [alias EXCEPT ![req[w].id] = NoAlias]
    /\ Goto(w, "apply")
    /\ UNCHANGED <<domain, mailbox, spent, req>>
    /\ StatementFrame

--------------------------------------------------------------------------------
(* The DNS check of a domain.                                               *)

\* DNSRecords reads the row; its status is compared with much later.
CheckDomain(w) ==
    /\ pc[w] = "check domain"
    /\ req[w].id \in Live
    /\ req' = [req EXCEPT ![w].name = domain[req[w].id].name,
                          ![w].status = domain[req[w].id].status]
    /\ Goto(w, "look up")
    /\ UNCHANGED rows
    /\ StatementFrame

\* The key read from the file, if it can be parsed.
PublicKey(n) == IF key[n] = "whole" THEN {n} ELSE {}

\* The settings and the policy decide what is asked for: an IPv6 address may be
\* set, and the relay may need an SPF include.
Inputs(n) ==
    {[ipv4 |-> {Here}, ipv6 |-> {}, host |-> Here, dkim |-> PublicKey(n), include |-> {}],
     [ipv4 |-> {Here}, ipv6 |-> {Here}, host |-> Here, dkim |-> PublicKey(n),
      include |-> {"relay"}]}

\* The domain is in order: one of its IPv4 addresses is ours, and so is an MX.
InOrder(answer) ==
    /\ \E ip \in Range(answer.ips) : ip.host = Here /\ ip.family = 4
    /\ Here \in Range(answer.mxs)

\* The lookups; what they answer is up to the owner of the zone.
LookUp(w) ==
    /\ pc[w] = "look up"
    /\ \E in \in Inputs(req[w].name), answer \in Answers :
         LET health == HealthOf(Check(in, answer))
         IN  /\ IF health = req[w].status
                THEN Goto(w, "idle") /\ req' = [req EXCEPT ![w] = NoRequest]
                ELSE Goto(w, "update status") /\ req' = [req EXCEPT ![w].status = health]
             /\ earned' = IF InOrder(answer) THEN earned \cup {req[w].id} ELSE earned
    /\ UNCHANGED <<rows, key, maps, view, orderly, requests>>

UpdateStatusByName(w) ==    \* WHERE name = ?
    /\ pc[w] = "update status"
    /\ domain' = [d \in DomainIds |->
                    IF domain[d].name = req[w].name
                    THEN [domain[d] EXCEPT !.status = req[w].status] ELSE domain[d]]
    /\ Goto(w, "idle")
    /\ req' = [req EXCEPT ![w] = NoRequest]
    /\ UNCHANGED <<mailbox, alias, spent>>
    /\ StatementFrame

\* UpdateDomainStatus by id, which may be gone; its error is dropped.
UpdateStatus(w) ==
    /\ pc[w] = "update status"
    /\ domain' = IF req[w].id \in Live
                 THEN [domain EXCEPT ![req[w].id].status = req[w].status] ELSE domain
    /\ Goto(w, "idle")
    /\ req' = [req EXCEPT ![w] = NoRequest]
    /\ UNCHANGED <<mailbox, alias, spent>>
    /\ StatementFrame

--------------------------------------------------------------------------------
(* Build, one query at a time; then the maps are rendered and published.    *)

ListDomains(w) ==
    /\ pc[w] = "apply"
    /\ Goto(w, "list mailboxes")
    /\ req' = [req EXCEPT ![w] = NoRequest]
    /\ view' = [view EXCEPT ![w] = Data({domain[d].name : d \in Live}, {}, {}, {}, {})]
    /\ orderly' = Others(w)
    /\ UNCHANGED <<rows, key, maps, earned, requests>>

ListMailboxes(w) ==
    /\ pc[w] = "list mailboxes"
    /\ Goto(w, "list aliases")
    /\ view' = [view EXCEPT ![w].mailboxes =
                  {mailbox[m].email : m \in {k \in Mailboxes : mailbox[k].enabled}}]
    /\ UNCHANGED <<rows, key, maps, req, orderly, earned, requests>>

Enabled == {alias[x] : x \in {k \in Aliases : alias[k].enabled}}

\* The last query, and what Build computes from the three and from the key
\* files that are there, whole or not.
ListAliases(w) ==
    /\ pc[w] = "list aliases"
    /\ Goto(w, "publish")
    /\ view' = [view EXCEPT
                  ![w].aliases = {[source |-> a.source, dest |-> a.dest] : a \in Enabled},
                  ![w].logins = SenderLogins(view[w].mailboxes, Enabled),
                  ![w].signed = {n \in view[w].domains : key[n] # "none"}]
    /\ UNCHANGED <<rows, key, maps, req, orderly, earned, requests>>

Publish(w) ==
    /\ pc[w] = "publish"
    /\ Goto(w, "idle")
    /\ maps' = view[w]
    /\ view' = [view EXCEPT ![w] = Nothing]
    /\ UNCHANGED <<rows, key, req, orderly, earned, requests>>

\* A query, a write or the reload fails: the request ends with a warning, and
\* each of the maps is the old one or the new one.
ApplyFails(w) ==
    /\ pc[w] \in {"apply", "list mailboxes", "list aliases", "publish"}
    /\ Goto(w, "idle")
    /\ req' = [req EXCEPT ![w] = NoRequest]
    /\ \E new \in SUBSET DOMAIN maps :
         /\ pc[w] # "publish" => new = {}
         /\ maps' = [f \in DOMAIN maps |-> IF f \in new THEN view[w][f] ELSE maps[f]]
    /\ view' = [view EXCEPT ![w] = Nothing]
    /\ orderly' = FALSE
    /\ UNCHANGED <<rows, key, earned, requests>>

Apply(w) ==
    ListDomains(w) \/ ListMailboxes(w) \/ ListAliases(w) \/ Publish(w) \/ ApplyFails(w)

--------------------------------------------------------------------------------

Statement(w) ==
    \/ InsertDomain(w) \/ StatKey(w) \/ OpenKey(w) \/ WriteKey(w) \/ KeyFails(w)
    \/ DeleteDomain(w) \/ ReadDomain(w) \/ InsertMailbox(w) \/ InsertAlias(w)
    \/ ReadMailbox(w) \/ UpdateMailbox(w) \/ DeleteMailbox(w)
    \/ UpdateAliasEnabled(w) \/ DeleteAlias(w)
    \/ CheckDomain(w) \/ LookUp(w) \/ UpdateStatus(w)

Refusable == {"insert domain", "delete domain", "mailbox domain", "alias domain",
              "insert mailbox", "insert alias", "read mailbox", "update mailbox",
              "delete mailbox", "update alias", "delete alias", "check domain",
              "update status"}

\* A statement is refused: no such row, an address taken, a foreign key, an
\* invalid field, or a database error.
Rejected(w) == pc[w] \in Refusable /\ End(w)

Ask(id, from, to, flag) ==
    [NoRequest EXCEPT !.id = id, !.from = from, !.to = to, !.flag = flag]

\* The ids a request names are those some listing has shown.
Request(w) ==
    \/ \E n \in Names : Begin(w, "insert domain", [NoRequest EXCEPT !.name = n])
    \/ \E d \in spent \cap DomainIds :
         \/ Begin(w, "delete domain", Ask(d, Outside, Outside, "keep"))
         \/ Begin(w, "check domain", Ask(d, Outside, Outside, "keep"))
         \/ \E a \in Addresses : Begin(w, "mailbox domain", Ask(d, a, Outside, "keep"))
         \/ \E a \in Sources, b \in Addresses \cup {Outside} :
              Begin(w, "alias domain", Ask(d, a, b, "keep"))
    \/ \E m \in spent \cap MailboxIds :
         \/ \E f \in {"on", "off", "keep"} :
              Begin(w, "read mailbox", Ask(m, Outside, Outside, f))
         \/ Begin(w, "delete mailbox", Ask(m, Outside, Outside, "keep"))
    \/ \E x \in spent \cap AliasIds :
         \/ \E f \in {"on", "off"} :
              Begin(w, "update alias", Ask(x, Outside, Outside, f))
         \/ Begin(w, "delete alias", Ask(x, Outside, Outside, "keep"))

Next == \E w \in Admins : Request(w) \/ Statement(w) \/ Rejected(w) \/ Apply(w)

Spec == Init /\ [][Next]_vars

--------------------------------------------------------------------------------
(* The webmail, on its own.                                                 *)

SendersWithCatchAll(email) ==       \* the "@" prefix is not looked at
    {email} \cup {a.source : a \in {c \in Enabled : c.dest = email}}

\* allowedSenders: the mailbox's own address, and the enabled aliases that
\* forward to it and whose source is no bare domain.
AllowedSenders(email) ==
    {email} \cup {a.source : a \in {c \in Enabled : c.dest = email /\ c.source.local # CatchAll}}

--------------------------------------------------------------------------------
(* Properties.                                                              *)

Flags    == {"on", "off", "keep"}
Statuses == {"none", "pending", "active"}
PCs      == Refusable \cup {"idle", "stat key", "open key", "write key", "look up", "apply",
                            "list mailboxes", "list aliases", "publish"}
Targets  == Sources \cup {Outside}
Forwards == Addresses \cup {Outside}
Maps     == [domains : SUBSET Names, mailboxes : SUBSET Addresses,
             aliases : SUBSET [source : Sources, dest : Forwards],
             logins : SUBSET [sender : Sources, owner : Addresses],
             signed : SUBSET Names]

TypeOK ==
    /\ domain \in [DomainIds -> [name : Names, status : {"pending", "active"}] \cup {NoDomain}]
    /\ mailbox \in [MailboxIds -> [domain : DomainIds, email : Addresses, enabled : BOOLEAN]
                                    \cup {NoMailbox}]
    /\ alias \in [AliasIds -> [domain : DomainIds, source : Sources, dest : Forwards,
                               catchAll : BOOLEAN, enabled : BOOLEAN] \cup {NoAlias}]
    /\ spent \subseteq DomainIds \cup MailboxIds \cup AliasIds
    /\ key \in [Names -> {"none", "torn", "whole"}]
    /\ maps \in Maps
    /\ pc \in [Admins -> PCs]
    /\ view \in [Admins -> Maps]
    /\ req \in [Admins -> [id : DomainIds \cup MailboxIds \cup AliasIds \cup {Null},
                           name : Names \cup {Null}, to : Targets, from : Targets,
                           flag : Flags, status : Statuses]]
    /\ orderly \in BOOLEAN
    /\ earned \subseteq DomainIds
    /\ requests \in Nat

Quiet == \A w \in Admins : pc[w] = "idle"

\* A mailbox or alias belongs to a domain that is there and bears that domain's
\* name, although the domain is read in one statement and named in another, and
\* may be deleted and created anew in between.
RowsBelong ==
    /\ \A m \in Mailboxes : /\ mailbox[m].domain \in Live
                            /\ mailbox[m].email.name = domain[mailbox[m].domain].name
    /\ \A x \in Aliases : /\ alias[x].domain \in Live
                          /\ alias[x].source.name = domain[alias[x].domain].name

\* After requests served one by one, the published maps are the database's:
\* domains, enabled mailboxes and aliases, and a signing key for every domain
\* that has a key file.
MapsAreCurrent ==
    (Quiet /\ orderly) =>
        /\ maps.domains = {domain[d].name : d \in Live}
        /\ maps.mailboxes = {mailbox[m].email : m \in {k \in Mailboxes : mailbox[k].enabled}}
        /\ maps.aliases = {[source |-> a.source, dest |-> a.dest] : a \in Enabled}
        /\ maps.signed = {n \in maps.domains : key[n] # "none"}

\* The webmail and Postfix agree on who may send as whom: the addresses
\* allowedSenders grants a mailbox, read from the database, are those the
\* published sender_logins gives its login.
SendersAgree ==
    (Quiet /\ orderly) =>
        \A m \in Mailboxes : mailbox[m].enabled =>
            AllowedSenders(mailbox[m].email) =
                {l.sender : l \in {k \in maps.logins : k.owner = mailbox[m].email}}

\* A domain is active only if a DNS check of this very row has found its A and MX
\* records in order, whatever checks overlap and whichever rows bore its name.
ActiveIsEarned == \A d \in Live : domain[d].status = "active" => d \in earned
=============================================================================
