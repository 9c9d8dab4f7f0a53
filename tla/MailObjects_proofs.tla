--------------------------- MODULE MailObjects_proofs ---------------------------
(***************************************************************************)
(* Proofs about domains, mailboxes, aliases and the maps built from them,  *)
(* for any number of rows, names and concurrent requests.  A row belongs   *)
(* to its domain because ids are used once; a status is earned because the *)
(* check carries the id of the row it read; the maps are the database's as *)
(* long as requests are served one after the other.                        *)
(***************************************************************************)
EXTENDS MailObjects, TLAPS

Ids      == DomainIds \cup MailboxIds \cup AliasIds
Domains  == [name : Names, status : {"pending", "active"}]
Boxes    == [domain : DomainIds, email : Addresses, enabled : BOOLEAN]
Forwardings == [domain : DomainIds, source : Sources, dest : Forwards,
                catchAll : BOOLEAN, enabled : BOOLEAN]
Asked    == [id : Ids \cup {Null}, name : Names \cup {Null}, to : Targets, from : Targets,
             flag : Flags, status : Statuses]

RowTypes ==
    /\ domain \in [DomainIds -> Domains \cup {NoDomain}]
    /\ mailbox \in [MailboxIds -> Boxes \cup {NoMailbox}]
    /\ alias \in [AliasIds -> Forwardings \cup {NoAlias}]
    /\ spent \subseteq Ids
    /\ key \in [Names -> {"none", "torn", "whole"}]
    /\ earned \subseteq DomainIds

ControlTypes ==
    /\ pc \in [Admins -> PCs]
    /\ req \in [Admins -> Asked]
    /\ orderly \in BOOLEAN
    /\ requests \in Nat

MapTypes == maps \in Maps /\ view \in [Admins -> Maps]

LEMMA TypeParts == TypeOK <=> RowTypes /\ ControlTypes /\ MapTypes
BY DEF TypeOK, RowTypes, ControlTypes, MapTypes, Ids, Domains, Boxes, Forwardings, Asked

\* What a request at l, which is r, has learnt or been asked for by then.
Carries(l, r) ==
    /\ l \in {"insert domain", "stat key", "open key", "write key", "look up",
              "update status"} => r.name \in Names
    /\ l \in {"mailbox domain", "insert mailbox"} => r.from \in Addresses
    /\ l \in {"alias domain", "insert alias"} => r.from \in Sources /\ r.to \in Forwards
    /\ l \in {"look up", "update status"} => r.id \in DomainIds
    /\ l = "update status" => r.status \in {"pending", "active"}

Carrying == \A w \in Admins : Carries(pc[w], req[w])

--------------------------------------------------------------------------------
(* Rows.                                                                    *)

\* A row is never taken for none, nor none for a row.
LEMMA RowFacts ==
    /\ \A d \in Domains : d # NoDomain /\ d.name \in Names
    /\ \A m \in Boxes : m # NoMailbox /\ m.domain \in DomainIds /\ m.email \in Addresses
    /\ \A x \in Forwardings : /\ x # NoAlias /\ x.domain \in DomainIds /\ x.source \in Sources
                              /\ x.dest \in Forwards
    /\ NoMailbox.domain = Null /\ NoAlias.domain = Null
    /\ NoMailbox.enabled = FALSE /\ NoAlias.enabled = FALSE
BY NamesAssumption, IdsAssumption
   DEF Domains, Boxes, Forwardings, NoDomain, NoMailbox, NoAlias

LEMMA LiveFacts ==
    ASSUME RowTypes
    PROVE  /\ \A d \in DomainIds : d \in Live <=> domain[d] \in Domains
           /\ \A d \in Live : d \in DomainIds /\ domain[d].name \in Names
           /\ \A m \in MailboxIds : m \in Mailboxes <=> mailbox[m] \in Boxes
           /\ \A x \in AliasIds : x \in Aliases <=> alias[x] \in Forwardings
           /\ Mailboxes \subseteq MailboxIds /\ Aliases \subseteq AliasIds
BY RowFacts DEF RowTypes, Live, Mailboxes, Aliases

LEMMA RequestFacts ==
    /\ NoRequest \in Asked
    /\ \A id, from, to, flag :
          LET a == Ask(id, from, to, flag)
          IN  /\ a.id = id /\ a.from = from /\ a.to = to /\ a.flag = flag
              /\ a.name = Null /\ a.status = "none"
              /\ id \in Ids /\ from \in Targets /\ to \in Targets /\ flag \in Flags
                    => a \in Asked
    /\ \A n \in Names : [NoRequest EXCEPT !.name = n] \in Asked
    /\ \A n : [NoRequest EXCEPT !.name = n].name = n
<1>1. NoRequest \in Asked
  BY DEF NoRequest, Asked, Targets, Flags, Statuses
<1>2. ASSUME NEW id, NEW from, NEW to, NEW flag
      PROVE  LET a == Ask(id, from, to, flag)
             IN  /\ a.id = id /\ a.from = from /\ a.to = to /\ a.flag = flag
                 /\ a.name = Null /\ a.status = "none"
                 /\ id \in Ids /\ from \in Targets /\ to \in Targets /\ flag \in Flags
                       => a \in Asked
  BY DEF Ask, NoRequest, Asked, Statuses
<1>3. /\ \A n \in Names : [NoRequest EXCEPT !.name = n] \in Asked
      /\ \A n : [NoRequest EXCEPT !.name = n].name = n
  BY <1>1 DEF Asked, NoRequest
<1>4. QED
  BY <1>1, <1>2, <1>3

\* Addresses are sources, and both are what a request may name.
LEMMA AddressFacts == /\ Addresses \subseteq Sources /\ Sources \subseteq Targets
                      /\ Forwards \subseteq Targets /\ Outside \in Targets
                      /\ Outside \in Forwards
BY DEF Addresses, Sources, Targets, Forwards

--------------------------------------------------------------------------------
(* Where requests are, and what they carry.                                 *)

LEMMA Moved ==
    ASSUME NEW w \in Admins, ControlTypes, NEW l, Goto(w, l)
    PROVE  pc'[w] = l /\ \A v \in Admins \ {w} : pc'[v] = pc[v]
BY DEF Goto, ControlTypes

\* A request that moves takes what it carries along.
LEMMA MovedTypes ==
    ASSUME ControlTypes, Carrying, NEW w \in Admins, NEW l \in PCs, NEW r \in Asked,
           Goto(w, l), req' = [req EXCEPT ![w] = r], Carries(l, r),
           orderly' \in BOOLEAN, requests' \in Nat
    PROVE  ControlTypes' /\ Carrying'
<1>1. ControlTypes'
  BY DEF ControlTypes, Goto
<1>2. ASSUME NEW v \in Admins
      PROVE  Carries(pc'[v], req'[v])
  <2>1. CASE v = w
    BY <2>1 DEF ControlTypes, Goto
  <2>2. CASE v # w
    <3>1. pc'[v] = pc[v] /\ req'[v] = req[v]
      BY <2>2 DEF ControlTypes, Goto
    <3>2. QED
      BY <3>1 DEF Carrying
  <2>3. QED
    BY <2>1, <2>2
<1>3. QED
  BY <1>1, <1>2 DEF Carrying, Carries

\* The same when it only moves.
LEMMA MovedOn ==
    ASSUME ControlTypes, Carrying, NEW w \in Admins, NEW l \in PCs, Goto(w, l), req' = req,
           Carries(pc[w], req[w]) => Carries(l, req[w]),
           orderly' \in BOOLEAN, requests' \in Nat
    PROVE  ControlTypes' /\ Carrying'
<1>1. req' = [req EXCEPT ![w] = req[w]] /\ req[w] \in Asked /\ Carries(pc[w], req[w])
  BY DEF ControlTypes, Carrying
<1>2. QED
  BY <1>1, MovedTypes

\* And when it ends.
LEMMA MovedOut ==
    ASSUME ControlTypes, Carrying, NEW w \in Admins, Goto(w, "idle"),
           req' = [req EXCEPT ![w] = NoRequest],
           orderly' \in BOOLEAN, requests' \in Nat
    PROVE  ControlTypes' /\ Carrying'
BY MovedTypes, RequestFacts DEF Carries, PCs

LEMMA Labels ==
    /\ Refusable \subseteq PCs
    /\ {"idle", "stat key", "open key", "write key", "look up", "apply", "list mailboxes",
        "list aliases", "publish"} \subseteq PCs
    /\ {"insert mailbox", "insert alias", "update mailbox", "update status"} \subseteq PCs
BY DEF PCs, Refusable

LEMMA BegunTypes ==
    ASSUME ControlTypes, Carrying, NEW w \in Admins, NEW l \in Refusable, NEW r \in Asked,
           Begin(w, l, r), Carries(l, r)
    PROVE  ControlTypes' /\ Carrying'
<1>1. /\ Goto(w, l) /\ req' = [req EXCEPT ![w] = r]
      /\ orderly' \in BOOLEAN /\ requests' \in Nat
  BY DEF Begin, ControlTypes
<1>2. QED
  BY <1>1, Labels, MovedTypes

LEMMA RequestTypes ==
    ASSUME TypeOK, Carrying, NEW w \in Admins, Request(w)
    PROVE  ControlTypes' /\ Carrying'
<1> USE TypeParts, RequestFacts, AddressFacts
<1>1. {"insert domain", "delete domain", "check domain", "mailbox domain", "alias domain",
       "read mailbox", "delete mailbox", "update alias", "delete alias"} \subseteq Refusable
  BY DEF Refusable
<1>2. CASE \E n \in Names : Begin(w, "insert domain", [NoRequest EXCEPT !.name = n])
  <2>1. PICK n \in Names : Begin(w, "insert domain", [NoRequest EXCEPT !.name = n])
    BY <1>2
  <2>2. Carries("insert domain", [NoRequest EXCEPT !.name = n])
    BY DEF Carries
  <2>3. QED
    BY <1>1, <2>1, <2>2, BegunTypes
<1>3. ASSUME NEW i \in Ids, NEW f \in Flags,
             \E l \in {"delete domain", "check domain", "read mailbox", "delete mailbox",
                       "update alias", "delete alias"} :
                 Begin(w, l, Ask(i, Outside, Outside, f))
      PROVE  ControlTypes' /\ Carrying'
  <2>1. PICK l \in {"delete domain", "check domain", "read mailbox", "delete mailbox",
                    "update alias", "delete alias"} : Begin(w, l, Ask(i, Outside, Outside, f))
    BY <1>3
  <2>2. Ask(i, Outside, Outside, f) \in Asked
    BY <1>3
  <2>3. Carries(l, Ask(i, Outside, Outside, f))
    BY <2>1 DEF Carries
  <2>4. QED
    BY <1>1, <2>1, <2>2, <2>3, BegunTypes
<1>4. ASSUME NEW d \in DomainIds, NEW a \in Addresses,
             Begin(w, "mailbox domain", Ask(d, a, Outside, "keep"))
      PROVE  ControlTypes' /\ Carrying'
  <2>1. Ask(d, a, Outside, "keep") \in Asked
    BY DEF Ids, Flags
  <2>2. Carries("mailbox domain", Ask(d, a, Outside, "keep"))
    BY DEF Carries
  <2>3. QED
    BY <1>1, <1>4, <2>1, <2>2, BegunTypes
<1>5. ASSUME NEW d \in DomainIds, NEW a \in Sources, NEW b \in Forwards,
             Begin(w, "alias domain", Ask(d, a, b, "keep"))
      PROVE  ControlTypes' /\ Carrying'
  <2>1. Ask(d, a, b, "keep") \in Asked
    BY DEF Ids, Flags
  <2>2. Carries("alias domain", Ask(d, a, b, "keep"))
    BY DEF Carries
  <2>3. QED
    BY <1>1, <1>5, <2>1, <2>2, BegunTypes
<1>6. {"on", "off", "keep"} \subseteq Flags /\ Forwards = Addresses \cup {Outside}
  BY DEF Flags, Forwards
<1>7. QED
  BY <1>2, <1>3, <1>4, <1>5, <1>6 DEF Request, Ids

\* Fields a request fills in as it reads.
LEMMA Filled ==
    ASSUME NEW r \in Asked
    PROVE  /\ \A f \in Flags : [r EXCEPT !.flag = f] \in Asked
           /\ \A s \in Statuses : /\ [r EXCEPT !.status = s] \in Asked
                                  /\ [r EXCEPT !.status = s].status = s
                                  /\ [r EXCEPT !.status = s].name = r.name
                                  /\ [r EXCEPT !.status = s].id = r.id
           /\ \A n \in Names, s \in Statuses :
                 LET q == [r EXCEPT !.name = n, !.status = s]
                 IN  q \in Asked /\ q.name = n /\ q.status = s /\ q.id = r.id
BY DEF Asked

\* The verdict on a domain is one of two statuses.
LEMMA HealthType == ASSUME NEW c PROVE HealthOf(c) \in {"pending", "active"}
BY DEF HealthOf

LEMMA StatementTypes ==
    ASSUME TypeOK, Carrying, NEW w \in Admins, Statement(w)
    PROVE  ControlTypes' /\ Carrying'
<1> USE TypeParts, Labels
<1>1. orderly \in BOOLEAN /\ requests \in Nat /\ req[w] \in Asked /\ Carries(pc[w], req[w])
  BY DEF ControlTypes, Carrying
<1>2. CASE InsertDomain(w)
  BY <1>1, <1>2, MovedOn DEF InsertDomain, StatementFrame, Carries
<1>3. CASE StatKey(w)
  <2>1. PICK l \in {"apply", "open key"} : Goto(w, l)
    BY <1>3 DEF StatKey
  <2>2. QED
    BY <1>1, <1>3, <2>1, MovedOn DEF StatKey, StatementFrame, Carries
<1>4. CASE OpenKey(w) \/ WriteKey(w) \/ KeyFails(w)
  BY <1>1, <1>4, MovedOn DEF OpenKey, WriteKey, KeyFails, StatementFrame, Carries
<1>5. CASE DeleteDomain(w) \/ InsertMailbox(w) \/ InsertAlias(w)
  BY <1>1, <1>5, MovedOn DEF DeleteDomain, InsertMailbox, InsertAlias, StatementFrame, Carries
<1>6. CASE UpdateMailbox(w) \/ DeleteMailbox(w) \/ UpdateAliasEnabled(w) \/ DeleteAlias(w)
  BY <1>1, <1>6, MovedOn
     DEF UpdateMailbox, DeleteMailbox, UpdateAliasEnabled, DeleteAlias, StatementFrame, Carries
<1>7. CASE ReadDomain(w)
  <2>1. CASE pc[w] = "mailbox domain"
    BY <1>1, <1>7, <2>1, MovedOn DEF ReadDomain, StatementFrame, Carries
  <2>2. CASE pc[w] = "alias domain"
    BY <1>1, <1>7, <2>2, MovedOn DEF ReadDomain, StatementFrame, Carries
  <2>3. QED
    BY <1>7, <2>1, <2>2 DEF ReadDomain
<1>8. CASE ReadMailbox(w)
  <2>1. PICK f \in Flags : req' = [req EXCEPT ![w] = [req[w] EXCEPT !.flag = f]]
    BY <1>1, <1>8 DEF ReadMailbox, Asked, Flags
  <2>2. [req[w] EXCEPT !.flag = f] \in Asked
    BY <1>1, Filled
  <2>3. QED
    BY <1>1, <1>8, <2>1, <2>2, MovedTypes DEF ReadMailbox, StatementFrame, Carries
<1>9. CASE CheckDomain(w)
  <2>1. req[w].id \in DomainIds /\ domain[req[w].id] \in Domains
    BY <1>9, LiveFacts DEF CheckDomain
  <2>2. domain[req[w].id].name \in Names /\ domain[req[w].id].status \in Statuses
    BY <2>1 DEF Domains, Statuses
  <2>3. PICK n \in Names, s \in Statuses :
          req' = [req EXCEPT ![w] = [req[w] EXCEPT !.name = n, !.status = s]]
    BY <1>9, <2>2 DEF CheckDomain
  <2>4. Carries("look up", [req[w] EXCEPT !.name = n, !.status = s])
    <3>1. LET q == [req[w] EXCEPT !.name = n, !.status = s]
          IN  q.name \in Names /\ q.id \in DomainIds
      BY <1>1, <2>1 DEF Asked
    <3>2. QED
      BY <3>1 DEF Carries
  <2>5. QED
    BY <1>1, <1>9, <2>3, <2>4, MovedTypes, Filled DEF CheckDomain, StatementFrame
<1>10. CASE LookUp(w)
  <2>1. PICK in \in Inputs(req[w].name), answer \in Answers :
          IF HealthOf(Check(in, answer)) = req[w].status
          THEN Goto(w, "idle") /\ req' = [req EXCEPT ![w] = NoRequest]
          ELSE /\ Goto(w, "update status")
               /\ req' = [req EXCEPT ![w].status = HealthOf(Check(in, answer))]
    BY <1>10 DEF LookUp
  <2> DEFINE h == HealthOf(Check(in, answer))
  <2>2. h \in {"pending", "active"} /\ h \in Statuses
    BY HealthType DEF Statuses
  <2>3. pc[w] = "look up" /\ UNCHANGED <<orderly, requests>>
    BY <1>10 DEF LookUp
  <2>4. CASE Goto(w, "idle") /\ req' = [req EXCEPT ![w] = NoRequest]
    BY <1>1, <2>3, <2>4, MovedOut
  <2>5. CASE Goto(w, "update status") /\ req' = [req EXCEPT ![w].status = h]
    <3> HIDE DEF h
    <3>1. req' = [req EXCEPT ![w] = [req[w] EXCEPT !.status = h]]
      BY <2>5
    <3>2. Carries("update status", [req[w] EXCEPT !.status = h])
      BY <1>1, <2>2, <2>3, Filled DEF Carries
    <3>3. QED
      BY <1>1, <2>2, <2>3, <2>5, <3>1, <3>2, MovedTypes, Filled
  <2>6. QED
    BY <2>1, <2>4, <2>5
<1>11. CASE UpdateStatus(w)
  BY <1>1, <1>11, MovedOut DEF UpdateStatus, StatementFrame
<1>12. QED
  BY <1>2, <1>3, <1>4, <1>5, <1>6, <1>7, <1>8, <1>9, <1>10, <1>11 DEF Statement

LEMMA ControlStep ==
    ASSUME TypeOK, Carrying, [Next]_vars
    PROVE  ControlTypes' /\ Carrying'
<1> USE TypeParts, Labels
<1>1. orderly \in BOOLEAN /\ requests \in Nat
  BY DEF ControlTypes
<1>2. ASSUME NEW w \in Admins, Rejected(w)
      PROVE  ControlTypes' /\ Carrying'
  BY <1>1, <1>2, MovedOut DEF Rejected, End
<1>3. ASSUME NEW w \in Admins, ListDomains(w) \/ ApplyFails(w)
      PROVE  ControlTypes' /\ Carrying'
  <2>1. /\ req' = [req EXCEPT ![w] = NoRequest] /\ orderly' \in BOOLEAN /\ requests' \in Nat
        /\ \E l \in {"idle", "list mailboxes"} : Goto(w, l)
    <3>1. CASE ListDomains(w)
      BY <1>1, <3>1 DEF ListDomains, Others
    <3>2. CASE ApplyFails(w)
      BY <1>1, <3>2 DEF ApplyFails
    <3>3. QED
      BY <1>3, <3>1, <3>2
  <2>2. \A l \in {"idle", "list mailboxes"} : Carries(l, NoRequest)
    BY DEF Carries
  <2>3. QED
    BY <2>1, <2>2, MovedTypes, RequestFacts
<1>4. ASSUME NEW w \in Admins, ListMailboxes(w) \/ ListAliases(w) \/ Publish(w)
      PROVE  ControlTypes' /\ Carrying'
  BY <1>1, <1>4, MovedOn DEF ListMailboxes, ListAliases, Publish, Carries
<1>5. CASE UNCHANGED vars
  BY <1>5 DEF vars, ControlTypes, Carrying, Carries
<1>6. QED
  BY <1>2, <1>3, <1>4, <1>5, RequestTypes, StatementTypes DEF Next, Apply

--------------------------------------------------------------------------------
(* What the statements store.                                               *)

\* A statement has put the rows it changes as its request has them, the rest stays.
LEMMA RowStep ==
    ASSUME TypeOK, Carrying, [Next]_vars
    PROVE  RowTypes'
<1> USE TypeParts
<1>1. ASSUME NEW w \in Admins, InsertDomain(w)
      PROVE  RowTypes'
  <2>1. PICK d \in DomainIds \ spent :
          /\ domain' = [domain EXCEPT ![d] = [name |-> req[w].name, status |-> "pending"]]
          /\ spent' = spent \cup {d}
    BY <1>1 DEF InsertDomain
  <2>2. req[w].name \in Names
    BY <1>1 DEF Carrying, Carries, InsertDomain
  <2>3. [name |-> req[w].name, status |-> "pending"] \in Domains
    BY <2>2 DEF Domains
  <2>4. UNCHANGED <<mailbox, alias, key, earned>>
    BY <1>1 DEF InsertDomain, StatementFrame
  <2>5. QED
    BY <2>1, <2>3, <2>4 DEF RowTypes, Ids
<1>2. ASSUME NEW w \in Admins, OpenKey(w) \/ WriteKey(w)
      PROVE  RowTypes'
  BY <1>2 DEF OpenKey, WriteKey, RowTypes, rows
<1>3. ASSUME NEW w \in Admins, DeleteDomain(w)
      PROVE  RowTypes'
  BY <1>3 DEF DeleteDomain, StatementFrame, RowTypes
<1>4. ASSUME NEW w \in Admins, InsertMailbox(w)
      PROVE  RowTypes'
  <2>1. PICK m \in MailboxIds \ spent :
          /\ mailbox' = [mailbox EXCEPT ![m] =
                           [domain |-> req[w].id, email |-> req[w].from, enabled |-> TRUE]]
          /\ spent' = spent \cup {m}
    BY <1>4 DEF InsertMailbox
  <2>2. req[w].id \in DomainIds /\ req[w].from \in Addresses
    BY <1>4, LiveFacts DEF Carrying, Carries, InsertMailbox
  <2>3. [domain |-> req[w].id, email |-> req[w].from, enabled |-> TRUE] \in Boxes
    BY <2>2 DEF Boxes
  <2>4. UNCHANGED <<domain, alias, key, earned>>
    BY <1>4 DEF InsertMailbox, StatementFrame
  <2>5. QED
    BY <2>1, <2>3, <2>4 DEF RowTypes, Ids
<1>5. ASSUME NEW w \in Admins, InsertAlias(w)
      PROVE  RowTypes'
  <2> DEFINE x(i) == [domain |-> req[w].id, source |-> req[w].from, dest |-> req[w].to,
                      catchAll |-> req[w].from.local = CatchAll, enabled |-> TRUE]
  <2>1. PICK i \in AliasIds \ spent :
          alias' = [alias EXCEPT ![i] = x(i)] /\ spent' = spent \cup {i}
    BY <1>5 DEF InsertAlias
  <2>2. req[w].id \in DomainIds /\ req[w].from \in Sources /\ req[w].to \in Forwards
    BY <1>5, LiveFacts DEF Carrying, Carries, InsertAlias
  <2>3. x(i) \in Forwardings
    BY <2>2 DEF Forwardings
  <2>4. UNCHANGED <<domain, mailbox, key, earned>>
    BY <1>5 DEF InsertAlias, StatementFrame
  <2> HIDE DEF x
  <2>5. QED
    BY <2>1, <2>3, <2>4 DEF RowTypes, Ids
<1>6. ASSUME NEW w \in Admins, UpdateMailbox(w)
      PROVE  RowTypes'
  <2>1. req[w].id \in MailboxIds /\ mailbox[req[w].id] \in Boxes
    BY <1>6, LiveFacts DEF UpdateMailbox
  <2>2. \A b \in BOOLEAN : [mailbox[req[w].id] EXCEPT !.enabled = b] \in Boxes
    BY <2>1 DEF Boxes
  <2>3. /\ mailbox' = [mailbox EXCEPT ![req[w].id] =
                         [mailbox[req[w].id] EXCEPT !.enabled = (req[w].flag = "on")]]
        /\ UNCHANGED <<domain, alias, spent, key, earned>>
    BY <1>6 DEF UpdateMailbox, StatementFrame
  <2>4. QED
    BY <2>1, <2>2, <2>3 DEF RowTypes
<1>7. ASSUME NEW w \in Admins, UpdateAliasEnabled(w)
      PROVE  RowTypes'
  <2>1. req[w].id \in AliasIds /\ alias[req[w].id] \in Forwardings
    BY <1>7, LiveFacts DEF UpdateAliasEnabled
  <2>2. \A b \in BOOLEAN : [alias[req[w].id] EXCEPT !.enabled = b] \in Forwardings
    BY <2>1 DEF Forwardings
  <2>3. /\ alias' = [alias EXCEPT ![req[w].id] =
                       [alias[req[w].id] EXCEPT !.enabled = (req[w].flag = "on")]]
        /\ UNCHANGED <<domain, mailbox, spent, key, earned>>
    BY <1>7 DEF UpdateAliasEnabled, StatementFrame
  <2>4. QED
    BY <2>1, <2>2, <2>3 DEF RowTypes
<1>8. ASSUME NEW w \in Admins, DeleteMailbox(w) \/ DeleteAlias(w)
      PROVE  RowTypes'
  BY <1>8 DEF DeleteMailbox, DeleteAlias, StatementFrame, RowTypes
<1>9. ASSUME NEW w \in Admins, LookUp(w)
      PROVE  RowTypes'
  <2>1. req[w].id \in DomainIds
    BY <1>9 DEF LookUp, Carrying, Carries
  <2>2. earned' = earned \/ earned' = earned \cup {req[w].id}
    BY <1>9 DEF LookUp
  <2>3. UNCHANGED <<domain, mailbox, alias, spent, key>>
    BY <1>9 DEF LookUp, rows
  <2>4. QED
    BY <2>1, <2>2, <2>3 DEF RowTypes
<1>10. ASSUME NEW w \in Admins, UpdateStatus(w)
       PROVE  RowTypes'
  <2>1. req[w].status \in {"pending", "active"}
    BY <1>10 DEF UpdateStatus, Carrying, Carries
  <2>2. \A d \in Live : [domain[d] EXCEPT !.status = req[w].status] \in Domains
    <3>1. \A d \in Live : domain[d] \in Domains
      BY LiveFacts
    <3>2. QED
      BY <2>1, <3>1 DEF Domains
  <2>3. domain' = IF req[w].id \in Live
                  THEN [domain EXCEPT ![req[w].id] =
                          [domain[req[w].id] EXCEPT !.status = req[w].status]]
                  ELSE domain
    BY <1>10 DEF UpdateStatus
  <2>4. UNCHANGED <<mailbox, alias, spent, key, earned>>
    BY <1>10 DEF UpdateStatus, StatementFrame
  <2>5. QED
    BY <2>2, <2>3, <2>4, LiveFacts DEF RowTypes
<1>11. ASSUME NEW w \in Admins,
              \/ StatKey(w) \/ KeyFails(w) \/ ReadDomain(w) \/ ReadMailbox(w)
              \/ CheckDomain(w) \/ Request(w) \/ Rejected(w) \/ Apply(w)
       PROVE  RowTypes'
  <2>1. UNCHANGED <<rows, key, earned>>
    BY <1>11 DEF StatKey, KeyFails, ReadDomain, ReadMailbox, CheckDomain, StatementFrame,
                 Request, Begin, Rejected, End, Apply, ListDomains, ListMailboxes,
                 ListAliases, Publish, ApplyFails
  <2>2. QED
    BY <2>1 DEF rows, RowTypes
<1>12. CASE UNCHANGED vars
  BY <1>12 DEF vars, rows, RowTypes
<1>13. QED
  BY <1>1, <1>2, <1>3, <1>4, <1>5, <1>6, <1>7, <1>8, <1>9, <1>10, <1>11, <1>12
     DEF Next, Statement

--------------------------------------------------------------------------------
(* The maps.                                                                *)

\* What the database holds, as Build would list it.
Hosted      == {domain[d].name : d \in Live}
Emails      == {mailbox[m].email : m \in {k \in Mailboxes : mailbox[k].enabled}}
Lines       == {[source |-> a.source, dest |-> a.dest] : a \in Enabled}
Signable(S) == {n \in S : key[n] # "none"}

\* Build lists names, addresses and lines, and derives logins from them.
LEMMA ListedTypes ==
    ASSUME RowTypes
    PROVE  /\ Hosted \subseteq Names
           /\ Emails \subseteq Addresses
           /\ Lines \subseteq [source : Sources, dest : Forwards]
           /\ Enabled \subseteq Forwardings
           /\ \A bs \in SUBSET Addresses :
                 SenderLogins(bs, Enabled) \subseteq [sender : Sources, owner : Addresses]
<1>1. Hosted \subseteq Names
  BY LiveFacts DEF Hosted
<1>2. Emails \subseteq Addresses
  BY LiveFacts, RowFacts DEF Emails
<1>3. Enabled \subseteq Forwardings
  BY LiveFacts DEF Enabled
<1>4. \A a \in Enabled : a.source \in Sources /\ a.dest \in Forwards
  BY <1>3, RowFacts
<1>5. Lines \subseteq [source : Sources, dest : Forwards]
  BY <1>4 DEF Lines
<1>6. ASSUME NEW bs \in SUBSET Addresses, NEW l \in SenderLogins(bs, Enabled)
      PROVE  l \in [sender : Sources, owner : Addresses]
  <2>1. CASE \E b \in bs : l = [sender |-> b, owner |-> b]
    BY <2>1, AddressFacts
  <2>2. CASE \E a \in Enabled : a.dest \in bs /\ l = [sender |-> a.source, owner |-> a.dest]
    BY <2>2, <1>4
  <2>3. QED
    BY <2>1, <2>2 DEF SenderLogins
<1>7. QED
  BY <1>1, <1>2, <1>3, <1>5, <1>6

\* A map set with one of its maps replaced by one of the same kind.
LEMMA MapFacts ==
    /\ Nothing \in Maps
    /\ \A S \in SUBSET Names : Data(S, {}, {}, {}, {}) \in Maps
    /\ \A v \in Maps, bs \in SUBSET Addresses : [v EXCEPT !.mailboxes = bs] \in Maps
    /\ \A v \in Maps, as \in SUBSET [source : Sources, dest : Forwards],
          ls \in SUBSET [sender : Sources, owner : Addresses], ks \in SUBSET Names :
          [v EXCEPT !.aliases = as, !.logins = ls, !.signed = ks] \in Maps
    /\ \A old, v \in Maps : \A new \in SUBSET DOMAIN old :
          [f \in DOMAIN old |-> IF f \in new THEN v[f] ELSE old[f]] \in Maps
<1>1. /\ Nothing \in Maps
      /\ \A S \in SUBSET Names : Data(S, {}, {}, {}, {}) \in Maps
  BY DEF Nothing, Data, Maps
<1>2. \A v \in Maps, bs \in SUBSET Addresses : [v EXCEPT !.mailboxes = bs] \in Maps
  BY DEF Maps
<1>3. \A v \in Maps, as \in SUBSET [source : Sources, dest : Forwards],
         ls \in SUBSET [sender : Sources, owner : Addresses], ks \in SUBSET Names :
         [v EXCEPT !.aliases = as, !.logins = ls, !.signed = ks] \in Maps
  BY DEF Maps
<1>4. ASSUME NEW old \in Maps, NEW v \in Maps, NEW new \in SUBSET DOMAIN old
      PROVE  [f \in DOMAIN old |-> IF f \in new THEN v[f] ELSE old[f]] \in Maps
  <2>1. DOMAIN old = {"domains", "mailboxes", "aliases", "logins", "signed"}
    BY DEF Maps
  <2> DEFINE g == [f \in DOMAIN old |-> IF f \in new THEN v[f] ELSE old[f]]
  <2>2. /\ g.domains \in SUBSET Names /\ g.mailboxes \in SUBSET Addresses
        /\ g.aliases \in SUBSET [source : Sources, dest : Forwards]
        /\ g.logins \in SUBSET [sender : Sources, owner : Addresses]
        /\ g.signed \in SUBSET Names
    BY <2>1 DEF Maps
  <2>3. g = [domains |-> g.domains, mailboxes |-> g.mailboxes, aliases |-> g.aliases,
             logins |-> g.logins, signed |-> g.signed]
    BY <2>1
  <2> HIDE DEF g
  <2>4. QED
    BY <2>2, <2>3 DEF Maps, g
<1>5. QED
  BY <1>1, <1>2, <1>3, <1>4

LEMMA MapStep ==
    ASSUME TypeOK, [Next]_vars
    PROVE  MapTypes'
<1> USE TypeParts
<1>1. ASSUME NEW w \in Admins, ListDomains(w)
      PROVE  MapTypes'
  BY <1>1, ListedTypes, MapFacts DEF ListDomains, MapTypes, Hosted
<1>2. ASSUME NEW w \in Admins, ListMailboxes(w)
      PROVE  MapTypes'
  <2>1. view' = [view EXCEPT ![w] = [view[w] EXCEPT !.mailboxes = Emails]]
    BY <1>2 DEF ListMailboxes, Emails
  <2>2. [view[w] EXCEPT !.mailboxes = Emails] \in Maps
    BY ListedTypes, MapFacts DEF MapTypes
  <2>3. QED
    BY <1>2, <2>1, <2>2 DEF ListMailboxes, MapTypes
<1>3. ASSUME NEW w \in Admins, ListAliases(w)
      PROVE  MapTypes'
  <2> DEFINE ls == SenderLogins(view[w].mailboxes, Enabled)
             ks == Signable(view[w].domains)
             v  == [view[w] EXCEPT !.aliases = Lines, !.logins = ls, !.signed = ks]
  <2>1. view' = [view EXCEPT ![w] = v]
    BY <1>3 DEF ListAliases, Lines, Signable
  <2>2. view[w] \in Maps /\ view[w].mailboxes \in SUBSET Addresses
        /\ view[w].domains \in SUBSET Names
    BY DEF MapTypes, Maps
  <2>3. ls \in SUBSET [sender : Sources, owner : Addresses] /\ ks \in SUBSET Names
    BY <2>2, ListedTypes DEF Signable
  <2>4. v \in Maps
    <3> HIDE DEF ls, ks
    <3>1. QED
      BY <2>2, <2>3, ListedTypes, MapFacts
  <2> HIDE DEF v
  <2>5. QED
    BY <1>3, <2>1, <2>4 DEF ListAliases, MapTypes
<1>4. ASSUME NEW w \in Admins, Publish(w)
      PROVE  MapTypes'
  BY <1>4, MapFacts DEF Publish, MapTypes
<1>5. ASSUME NEW w \in Admins, ApplyFails(w)
      PROVE  MapTypes'
  <2>1. PICK new \in SUBSET DOMAIN maps :
          maps' = [f \in DOMAIN maps |-> IF f \in new THEN view[w][f] ELSE maps[f]]
    BY <1>5 DEF ApplyFails
  <2>2. view' = [view EXCEPT ![w] = Nothing]
    BY <1>5 DEF ApplyFails
  <2>3. QED
    BY <2>1, <2>2, MapFacts DEF MapTypes
<1>6. ASSUME NEW w \in Admins, Request(w) \/ Statement(w) \/ Rejected(w)
      PROVE  MapTypes'
  <2>1. UNCHANGED <<maps, view>>
    <3>1. CASE Request(w) \/ Rejected(w)
      BY <3>1 DEF Request, Begin, Rejected, End
    <3>2. CASE Statement(w)
      BY <3>2 DEF Statement, InsertDomain, StatKey, OpenKey, WriteKey, KeyFails, DeleteDomain,
                  ReadDomain, InsertMailbox, InsertAlias, ReadMailbox, UpdateMailbox,
                  DeleteMailbox, UpdateAliasEnabled, DeleteAlias, CheckDomain, LookUp,
                  UpdateStatus, StatementFrame
    <3>3. QED
      BY <1>6, <3>1, <3>2
  <2>2. QED
    BY <2>1 DEF MapTypes
<1>7. CASE UNCHANGED vars
  BY <1>7 DEF vars, MapTypes
<1>8. QED
  BY <1>1, <1>2, <1>3, <1>4, <1>5, <1>6, <1>7 DEF Next, Apply

LEMMA Start ==
    ASSUME Init
    PROVE  TypeOK /\ Carrying
<1>1. PICK n \in Names, l \in Locals, d \in DomainIds, m \in MailboxIds, keyed \in BOOLEAN :
        /\ domain = [NoDomains EXCEPT ![d] = [name |-> n, status |-> "pending"]]
        /\ mailbox = [NoMailboxes EXCEPT ![m] =
                        [domain |-> d, email |-> At(l, n), enabled |-> TRUE]]
        /\ alias = [x \in AliasIds |-> NoAlias]
        /\ spent = {d, m}
        /\ key = [k \in Names |-> IF k = n /\ keyed THEN "whole" ELSE "none"]
        /\ maps = Data({n}, {At(l, n)}, {}, SenderLogins({At(l, n)}, {}),
                       IF keyed THEN {n} ELSE {})
        /\ pc = [w \in Admins |-> "idle"]
        /\ req = [w \in Admins |-> NoRequest]
        /\ view = [w \in Admins |-> Nothing]
        /\ orderly = TRUE
        /\ earned = {}
        /\ requests = 0
  BY DEF Init
<1>2. RowTypes
  <2>1. At(l, n) \in Addresses
    BY DEF At, Addresses
  <2>2. /\ [name |-> n, status |-> "pending"] \in Domains
        /\ [domain |-> d, email |-> At(l, n), enabled |-> TRUE] \in Boxes
    BY <2>1 DEF Domains, Boxes
  <2>3. QED
    BY <1>1, <2>2 DEF RowTypes, NoDomains, NoMailboxes, Ids
<1>3. ControlTypes /\ Carrying
  BY <1>1, RequestFacts, Labels DEF ControlTypes, Carrying, Carries
<1>4. MapTypes
  <2>1. At(l, n) \in Addresses /\ At(l, n) \in Sources
    BY AddressFacts DEF At, Addresses
  <2>2. SenderLogins({At(l, n)}, {}) \in SUBSET [sender : Sources, owner : Addresses]
    BY <2>1 DEF SenderLogins
  <2>3. maps \in Maps
    BY <1>1, <2>1, <2>2 DEF Maps, Data
  <2>4. QED
    BY <1>1, <2>3, MapFacts DEF MapTypes
<1>5. QED
  BY <1>2, <1>3, <1>4, TypeParts

Typed == TypeOK /\ Carrying

LEMMA TypedStep == Typed /\ [Next]_vars => Typed'
<1>1. TypeOK' <=> RowTypes' /\ ControlTypes' /\ MapTypes'
  BY DEF TypeOK, RowTypes, ControlTypes, MapTypes, Ids, Domains, Boxes, Forwardings, Asked
<1>2. QED
  BY <1>1, ControlStep, RowStep, MapStep DEF Typed

LEMMA AlwaysTyped == Spec => []Typed
<1>1. Init => Typed
  BY Start DEF Typed
<1>2. QED
  BY <1>1, TypedStep, PTL DEF Spec

\* The type invariant: rows, requests, views and maps stay within their kinds for
\* any number of rows, names and admins, whatever statements interleave.
THEOREM TypeCorrect == Spec => []TypeOK
<1>1. Typed => TypeOK
  BY DEF Typed
<1>2. QED
  BY <1>1, AlwaysTyped, PTL

--------------------------------------------------------------------------------
(* Rows belong together.                                                    *)

Act(w) == Request(w) \/ Statement(w) \/ Rejected(w) \/ Apply(w)

Only(w) == \A v \in Admins \ {w} : pc'[v] = pc[v] /\ req'[v] = req[v] /\ view'[v] = view[v]

\* A step of w is of w's request and view, and of no other's.
LEMMA Touches ==
    ASSUME Typed, NEW w \in Admins, Act(w)
    PROVE  Only(w)
<1>1. pc \in [Admins -> PCs] /\ req \in [Admins -> Asked] /\ view \in [Admins -> Maps]
  BY TypeParts DEF Typed, ControlTypes, MapTypes
<1>2. CASE Request(w)
  BY <1>1, <1>2 DEF Request, Begin, Goto, Only
<1>3. CASE Rejected(w)
  BY <1>1, <1>3 DEF Rejected, End, Goto, Only
<1>4. CASE Apply(w)
  BY <1>1, <1>4
     DEF Apply, ListDomains, ListMailboxes, ListAliases, Publish, ApplyFails, Goto, Only
<1>5. CASE InsertDomain(w) \/ StatKey(w) \/ KeyFails(w) \/ DeleteDomain(w) \/ ReadDomain(w)
           \/ InsertMailbox(w) \/ InsertAlias(w)
  BY <1>1, <1>5 DEF InsertDomain, StatKey, KeyFails, DeleteDomain, ReadDomain, InsertMailbox,
                    InsertAlias, StatementFrame, Goto, Only
<1>6. CASE OpenKey(w) \/ WriteKey(w)
  BY <1>1, <1>6 DEF OpenKey, WriteKey, Goto, Only
<1>7. CASE UpdateMailbox(w) \/ DeleteMailbox(w) \/ UpdateAliasEnabled(w) \/ DeleteAlias(w)
  BY <1>1, <1>7 DEF UpdateMailbox, DeleteMailbox, UpdateAliasEnabled, DeleteAlias,
                    StatementFrame, Goto, Only
<1>8. CASE ReadMailbox(w) \/ CheckDomain(w) \/ UpdateStatus(w)
  BY <1>1, <1>8 DEF ReadMailbox, CheckDomain, UpdateStatus, StatementFrame, Goto, Only
<1>9. CASE LookUp(w)
  <2>1. /\ \E l : Goto(w, l)
        /\ \E r : req' = [req EXCEPT ![w] = r]
        /\ view' = view
    BY <1>9 DEF LookUp
  <2>2. QED
    BY <1>1, <2>1 DEF Goto, Only
<1>10. QED
  BY <1>2, <1>3, <1>4, <1>5, <1>6, <1>7, <1>8, <1>9 DEF Act, Statement

LEMMA Acts == Next <=> \E w \in Admins : Act(w)
BY DEF Next, Act

\* Ids are used once, a row keeps its name, and statuses are all that changes in it.
LEMMA DomainsKept ==
    ASSUME Typed, [Next]_vars
    PROVE  /\ spent \subseteq spent'
           /\ \A d \in Live' : \/ d \in Live /\ domain'[d].name = domain[d].name
                               \/ d \in spent' \ spent
<1> DEFINE Kept == /\ spent \subseteq spent'
                   /\ \A d \in Live' : \/ d \in Live /\ domain'[d].name = domain[d].name
                                       \/ d \in spent' \ spent
<1>1. RowTypes /\ Live \subseteq DomainIds
  BY TypeParts, LiveFacts DEF Typed
<1>2. ASSUME NEW w \in Admins, InsertDomain(w)
      PROVE  Kept
  <2>1. PICK d \in DomainIds \ spent :
          /\ domain' = [domain EXCEPT ![d] = [name |-> req[w].name, status |-> "pending"]]
          /\ spent' = spent \cup {d}
    BY <1>2 DEF InsertDomain
  <2>2. QED
    BY <1>1, <2>1 DEF RowTypes, Live
<1>3. ASSUME NEW w \in Admins, DeleteDomain(w)
      PROVE  Kept
  BY <1>1, <1>3 DEF DeleteDomain, RowTypes, Live
<1>4. ASSUME NEW w \in Admins, UpdateStatus(w)
      PROVE  Kept
  <2>1. spent' = spent
    BY <1>4 DEF UpdateStatus
  <2>2. CASE req[w].id \in Live
    <3>1. domain' = [domain EXCEPT ![req[w].id] =
                       [domain[req[w].id] EXCEPT !.status = req[w].status]]
      BY <1>4, <2>2 DEF UpdateStatus
    <3>2. domain[req[w].id] \in Domains
      BY <1>1, <2>2, LiveFacts
    <3>3. [domain[req[w].id] EXCEPT !.status = req[w].status].name = domain[req[w].id].name
      BY <3>2 DEF Domains
    <3>4. QED
      BY <1>1, <2>1, <2>2, <3>1, <3>3 DEF RowTypes, Live
  <2>3. CASE req[w].id \notin Live
    BY <1>4, <2>1, <2>3 DEF UpdateStatus, Live
  <2>4. QED
    BY <2>2, <2>3
<1>5. ASSUME NEW w \in Admins, InsertMailbox(w) \/ InsertAlias(w)
      PROVE  Kept
  BY <1>5 DEF InsertMailbox, InsertAlias, Live
<1>6. ASSUME UNCHANGED <<domain, spent>>
      PROVE  Kept
  BY <1>6 DEF Live
<1>7. ASSUME NEW w \in Admins,
             \/ StatKey(w) \/ OpenKey(w) \/ WriteKey(w) \/ KeyFails(w) \/ ReadDomain(w)
             \/ ReadMailbox(w) \/ UpdateMailbox(w) \/ DeleteMailbox(w)
             \/ UpdateAliasEnabled(w) \/ DeleteAlias(w) \/ CheckDomain(w) \/ LookUp(w)
      PROVE  UNCHANGED <<domain, spent>>
  BY <1>7 DEF StatKey, OpenKey, WriteKey, KeyFails, ReadDomain, ReadMailbox, UpdateMailbox,
              DeleteMailbox, UpdateAliasEnabled, DeleteAlias, CheckDomain, LookUp, rows
<1>8. ASSUME NEW w \in Admins, Request(w) \/ Rejected(w) \/ Apply(w)
      PROVE  UNCHANGED <<domain, spent>>
  BY <1>8 DEF Request, Begin, Rejected, End, Apply, ListDomains, ListMailboxes, ListAliases,
              Publish, ApplyFails, rows
<1>9. CASE UNCHANGED vars
  BY <1>6, <1>9 DEF vars, rows
<1>10. ASSUME NEW w \in Admins, Act(w)
       PROVE  Kept
  <2> HIDE DEF Kept
  <2>1. CASE Statement(w)
    BY <1>2, <1>3, <1>4, <1>5, <1>6, <1>7, <2>1 DEF Statement
  <2>2. CASE Request(w) \/ Rejected(w) \/ Apply(w)
    BY <1>6, <1>8, <2>2
  <2>3. QED
    BY <1>10, <2>1, <2>2 DEF Act
<1>11. QED
  BY <1>9, <1>10, Acts

\* A request about to insert names the domain as it was when read; should the row
\* be there still, then under the same name.
Grounded ==
    /\ Live \subseteq spent
    /\ \A w \in Admins : pc[w] \in {"insert mailbox", "insert alias"} =>
         /\ req[w].id \in spent
         /\ req[w].id \in Live => req[w].from.name = domain[req[w].id].name

LEMMA GroundedStep == Typed /\ Grounded /\ [Next]_vars => Grounded'
<1> SUFFICES ASSUME Typed, Grounded, [Next]_vars
             PROVE  Grounded'
  OBVIOUS
<1> DEFINE Inserting == {"insert mailbox", "insert alias"}
<1>1. /\ spent \subseteq spent'
      /\ \A d \in Live' : \/ d \in Live /\ domain'[d].name = domain[d].name
                          \/ d \in spent' \ spent
  BY DomainsKept
<1>2. Live' \subseteq spent'
  BY <1>1 DEF Grounded
<1>3. ASSUME NEW v \in Admins, pc'[v] \in Inserting, pc'[v] = pc[v], req'[v] = req[v]
      PROVE  /\ req'[v].id \in spent'
             /\ req'[v].id \in Live' => req'[v].from.name = domain'[req'[v].id].name
  BY <1>1, <1>3 DEF Grounded
<1>4. ASSUME NEW w \in Admins, Act(w), pc'[w] \in Inserting
      PROVE  ReadDomain(w)
  <2>1. \A l : Goto(w, l) => pc'[w] = l
    BY TypeParts, Moved DEF Typed
  <2>2. ~ Rejected(w) /\ ~ Apply(w) /\ ~ Request(w)
    BY <1>4, <2>1 DEF Rejected, End, Apply, ListDomains, ListMailboxes, ListAliases, Publish,
                      ApplyFails, Request, Begin
  <2>3. /\ ~ InsertDomain(w) /\ ~ StatKey(w) /\ ~ OpenKey(w) /\ ~ WriteKey(w)
        /\ ~ KeyFails(w) /\ ~ DeleteDomain(w) /\ ~ InsertMailbox(w) /\ ~ InsertAlias(w)
    BY <1>4, <2>1 DEF InsertDomain, StatKey, OpenKey, WriteKey, KeyFails, DeleteDomain,
                      InsertMailbox, InsertAlias
  <2>4. /\ ~ ReadMailbox(w) /\ ~ UpdateMailbox(w) /\ ~ DeleteMailbox(w)
        /\ ~ UpdateAliasEnabled(w) /\ ~ DeleteAlias(w) /\ ~ CheckDomain(w)
        /\ ~ LookUp(w) /\ ~ UpdateStatus(w)
    BY <1>4, <2>1 DEF ReadMailbox, UpdateMailbox, DeleteMailbox, UpdateAliasEnabled,
                      DeleteAlias, CheckDomain, LookUp, UpdateStatus
  <2>5. QED
    BY <1>4, <2>2, <2>3, <2>4 DEF Act, Statement
<1>5. ASSUME NEW w \in Admins, ReadDomain(w)
      PROVE  /\ req'[w].id \in spent'
             /\ req'[w].id \in Live' => req'[w].from.name = domain'[req'[w].id].name
  BY <1>5 DEF ReadDomain, Grounded, rows
<1>6. ASSUME NEW v \in Admins, pc'[v] \in Inserting
      PROVE  /\ req'[v].id \in spent'
             /\ req'[v].id \in Live' => req'[v].from.name = domain'[req'[v].id].name
  <2>1. CASE UNCHANGED vars
    BY <1>3, <1>6, <2>1 DEF vars
  <2>2. CASE \E w \in Admins : w # v /\ Act(w)
    BY <1>3, <1>6, <2>2, Touches DEF Only
  <2>3. CASE Act(v)
    BY <1>4, <1>5, <1>6, <2>3
  <2>4. QED
    BY <2>1, <2>2, <2>3, Acts
<1>7. QED
  BY <1>2, <1>6 DEF Grounded

LEMMA BelongStep == Typed /\ Grounded /\ RowsBelong /\ [Next]_vars => RowsBelong'
<1> SUFFICES ASSUME Typed, Grounded, RowsBelong, [Next]_vars
             PROVE  RowsBelong'
  OBVIOUS
<1>1. RowTypes /\ RowTypes'
  BY TypedStep, TypeParts, RowStep DEF Typed
<1>2. /\ Mailboxes \subseteq MailboxIds /\ Aliases \subseteq AliasIds
      /\ Live \subseteq DomainIds
  BY DEF Mailboxes, Aliases, Live
<1>3. \A i \in Live \cap Live' : domain'[i].name = domain[i].name
  BY DomainsKept DEF Grounded
<1>4. ASSUME \A m \in Mailboxes' : /\ m \in Mailboxes /\ mailbox'[m].domain = mailbox[m].domain
                                   /\ mailbox'[m].email = mailbox[m].email,
             \A x \in Aliases' : /\ x \in Aliases /\ alias'[x].domain = alias[x].domain
                                 /\ alias'[x].source = alias[x].source,
             Live \subseteq Live'
      PROVE  RowsBelong'
  BY <1>3, <1>4 DEF RowsBelong
<1>5. ASSUME NEW w \in Admins, InsertDomain(w)
      PROVE  RowsBelong'
  <2>1. Live \subseteq Live'
    BY <1>1, <1>5 DEF InsertDomain, RowTypes, Live, Grounded
  <2>2. UNCHANGED <<mailbox, alias>>
    BY <1>5 DEF InsertDomain
  <2>3. QED
    BY <1>4, <2>1, <2>2 DEF Mailboxes, Aliases
<1>6. ASSUME NEW w \in Admins, UpdateStatus(w)
      PROVE  RowsBelong'
  <2>1. Live \subseteq Live'
    <3>1. CASE req[w].id \in Live
      <4>1. domain' = [domain EXCEPT ![req[w].id] =
                         [domain[req[w].id] EXCEPT !.status = req[w].status]]
        BY <1>6, <3>1 DEF UpdateStatus
      <4>2. domain[req[w].id] \in Domains
        BY <1>1, <3>1, LiveFacts
      <4>3. req[w].status \in {"pending", "active"}
        BY <1>6 DEF Typed, Carrying, Carries, UpdateStatus
      <4>4. [domain[req[w].id] EXCEPT !.status = req[w].status] \in Domains
        BY <4>2, <4>3 DEF Domains
      <4>5. QED
        BY <1>1, <1>2, <4>1, <4>4, RowFacts DEF RowTypes, Live
    <3>2. CASE req[w].id \notin Live
      BY <1>6, <3>2 DEF UpdateStatus, Live
    <3>3. QED
      BY <3>1, <3>2
  <2>2. UNCHANGED <<mailbox, alias>>
    BY <1>6 DEF UpdateStatus
  <2>3. QED
    BY <1>4, <2>1, <2>2 DEF Mailboxes, Aliases
<1>7. ASSUME NEW w \in Admins, DeleteDomain(w)
      PROVE  RowsBelong'
  <2> DEFINE i == req[w].id
  <2>1. Live' = Live \ {i} /\ \A d \in Live' : domain'[d] = domain[d]
    BY <1>1, <1>7 DEF DeleteDomain, RowTypes, Live
  <2>2. \A m \in Mailboxes' :
          m \in Mailboxes /\ mailbox'[m] = mailbox[m] /\ mailbox[m].domain # i
    BY <1>1, <1>7 DEF DeleteDomain, RowTypes, Mailboxes
  <2>3. \A x \in Aliases' : x \in Aliases /\ alias'[x] = alias[x] /\ alias[x].domain # i
    BY <1>1, <1>7 DEF DeleteDomain, RowTypes, Aliases
  <2>4. QED
    BY <2>1, <2>2, <2>3 DEF RowsBelong
<1>8. ASSUME NEW w \in Admins, pc[w] \in {"insert mailbox", "insert alias"}, req[w].id \in Live
      PROVE  req[w].from.name = domain[req[w].id].name
  BY <1>8 DEF Grounded
<1>9. ASSUME NEW w \in Admins, InsertMailbox(w)
      PROVE  RowsBelong'
  <2> DEFINE b == [domain |-> req[w].id, email |-> req[w].from, enabled |-> TRUE]
  <2>1. PICK m \in MailboxIds \ spent : mailbox' = [mailbox EXCEPT ![m] = b]
    BY <1>9 DEF InsertMailbox
  <2>2. UNCHANGED <<domain, alias>>
    BY <1>9 DEF InsertMailbox
  <2>3. req[w].id \in Live /\ req[w].from.name = domain[req[w].id].name
    BY <1>8, <1>9 DEF InsertMailbox
  <2>4. b.domain = req[w].id /\ b.email = req[w].from
    OBVIOUS
  <2> HIDE DEF b
  <2>5. \A k \in Mailboxes' : k \in MailboxIds /\ (k = m \/ k \in Mailboxes)
                              /\ mailbox'[k] = IF k = m THEN b ELSE mailbox[k]
    BY <1>1, <2>1 DEF RowTypes, Mailboxes
  <2>6. QED
    BY <2>2, <2>3, <2>4, <2>5 DEF RowsBelong, Live, Aliases
<1>10. ASSUME NEW w \in Admins, InsertAlias(w)
       PROVE  RowsBelong'
  <2> DEFINE b == [domain |-> req[w].id, source |-> req[w].from, dest |-> req[w].to,
                   catchAll |-> req[w].from.local = CatchAll, enabled |-> TRUE]
  <2>1. PICK x \in AliasIds \ spent : alias' = [alias EXCEPT ![x] = b]
    BY <1>10 DEF InsertAlias
  <2>2. UNCHANGED <<domain, mailbox>>
    BY <1>10 DEF InsertAlias
  <2>3. req[w].id \in Live /\ req[w].from.name = domain[req[w].id].name
    BY <1>8, <1>10 DEF InsertAlias
  <2>4. b.domain = req[w].id /\ b.source = req[w].from
    OBVIOUS
  <2> HIDE DEF b
  <2>5. \A k \in Aliases' : k \in AliasIds /\ (k = x \/ k \in Aliases)
                            /\ alias'[k] = IF k = x THEN b ELSE alias[k]
    BY <1>1, <2>1 DEF RowTypes, Aliases
  <2>6. QED
    BY <2>2, <2>3, <2>4, <2>5 DEF RowsBelong, Live, Mailboxes
<1>11. ASSUME NEW w \in Admins, UpdateMailbox(w) \/ DeleteMailbox(w)
       PROVE  RowsBelong'
  <2>1. UNCHANGED <<domain, alias>>
    BY <1>11 DEF UpdateMailbox, DeleteMailbox
  <2>2. req[w].id \in Mailboxes
    BY <1>11 DEF UpdateMailbox, DeleteMailbox
  <2>3. mailbox[req[w].id] \in Boxes
    BY <1>1, <1>2, <2>2, LiveFacts
  <2>4. PICK b : /\ mailbox' = [mailbox EXCEPT ![req[w].id] = b]
                 /\ b = NoMailbox \/ (/\ b.domain = mailbox[req[w].id].domain
                                      /\ b.email = mailbox[req[w].id].email)
    <3>1. CASE DeleteMailbox(w)
      BY <3>1 DEF DeleteMailbox
    <3>2. CASE UpdateMailbox(w)
      <4> DEFINE c == [mailbox[req[w].id] EXCEPT !.enabled = (req[w].flag = "on")]
      <4>1. mailbox' = [mailbox EXCEPT ![req[w].id] = c]
        BY <3>2 DEF UpdateMailbox
      <4>2. c.domain = mailbox[req[w].id].domain /\ c.email = mailbox[req[w].id].email
        BY <2>3 DEF Boxes
      <4> HIDE DEF c
      <4>3. QED
        BY <4>1, <4>2
    <3>3. QED
      BY <1>11, <3>1, <3>2
  <2>5. \A m \in Mailboxes' : /\ m \in Mailboxes /\ mailbox'[m].domain = mailbox[m].domain
                              /\ mailbox'[m].email = mailbox[m].email
    BY <1>1, <2>2, <2>4 DEF RowTypes, Mailboxes
  <2>6. QED
    BY <1>4, <2>1, <2>5 DEF Live, Aliases
<1>12. ASSUME NEW w \in Admins, UpdateAliasEnabled(w) \/ DeleteAlias(w)
       PROVE  RowsBelong'
  <2>1. UNCHANGED <<domain, mailbox>>
    BY <1>12 DEF UpdateAliasEnabled, DeleteAlias
  <2>2. req[w].id \in Aliases
    BY <1>12 DEF UpdateAliasEnabled, DeleteAlias
  <2>3. alias[req[w].id] \in Forwardings
    BY <1>1, <1>2, <2>2, LiveFacts
  <2>4. PICK b : /\ alias' = [alias EXCEPT ![req[w].id] = b]
                 /\ b = NoAlias \/ (/\ b.domain = alias[req[w].id].domain
                                    /\ b.source = alias[req[w].id].source)
    <3>1. CASE DeleteAlias(w)
      BY <3>1 DEF DeleteAlias
    <3>2. CASE UpdateAliasEnabled(w)
      <4> DEFINE c == [alias[req[w].id] EXCEPT !.enabled = (req[w].flag = "on")]
      <4>1. alias' = [alias EXCEPT ![req[w].id] = c]
        BY <3>2 DEF UpdateAliasEnabled
      <4>2. c.domain = alias[req[w].id].domain /\ c.source = alias[req[w].id].source
        BY <2>3 DEF Forwardings
      <4> HIDE DEF c
      <4>3. QED
        BY <4>1, <4>2
    <3>3. QED
      BY <1>12, <3>1, <3>2
  <2>5. \A x \in Aliases' : /\ x \in Aliases /\ alias'[x].domain = alias[x].domain
                            /\ alias'[x].source = alias[x].source
    BY <1>1, <2>2, <2>4 DEF RowTypes, Aliases
  <2>6. QED
    BY <1>4, <2>1, <2>5 DEF Live, Mailboxes
<1>13. ASSUME UNCHANGED <<domain, mailbox, alias>>
       PROVE  RowsBelong'
  BY <1>4, <1>13 DEF Live, Mailboxes, Aliases
<1>14. ASSUME NEW w \in Admins,
              \/ StatKey(w) \/ OpenKey(w) \/ WriteKey(w) \/ KeyFails(w) \/ ReadDomain(w)
              \/ ReadMailbox(w) \/ CheckDomain(w) \/ LookUp(w)
              \/ Request(w) \/ Rejected(w) \/ Apply(w)
       PROVE  UNCHANGED <<domain, mailbox, alias>>
  BY <1>14 DEF StatKey, OpenKey, WriteKey, KeyFails, ReadDomain, ReadMailbox, CheckDomain,
               LookUp, Request, Begin, Rejected, End, Apply, ListDomains, ListMailboxes,
               ListAliases, Publish, ApplyFails, rows
<1>15. ASSUME NEW w \in Admins, Act(w)
       PROVE  RowsBelong'
  BY <1>5, <1>6, <1>7, <1>9, <1>10, <1>11, <1>12, <1>13, <1>14, <1>15 DEF Act, Statement
<1>16. CASE UNCHANGED vars
  BY <1>13, <1>16 DEF vars, rows
<1>17. QED
  BY <1>15, <1>16, Acts

\* No mailbox and no alias outlives its domain or bears another's name: foreign keys
\* and a name read in one statement and used in the next.
THEOREM RowsAlwaysBelong == Spec => []RowsBelong
<1>1. Init => Grounded /\ RowsBelong
  <2> SUFFICES ASSUME Init
               PROVE  Grounded /\ RowsBelong
    OBVIOUS
  <2>1. PICK n \in Names, l \in Locals, d \in DomainIds, m \in MailboxIds :
          /\ domain = [NoDomains EXCEPT ![d] = [name |-> n, status |-> "pending"]]
          /\ mailbox = [NoMailboxes EXCEPT ![m] =
                          [domain |-> d, email |-> At(l, n), enabled |-> TRUE]]
          /\ alias = [x \in AliasIds |-> NoAlias]
          /\ spent = {d, m}
          /\ pc = [w \in Admins |-> "idle"]
    BY DEF Init
  <2>2. Live = {d} /\ domain[d].name = n
    <3>1. [name |-> n, status |-> "pending"] # NoDomain
      BY NamesAssumption DEF NoDomain
    <3>2. QED
      BY <2>1, <3>1 DEF Live, NoDomains
  <2>3. /\ Mailboxes \subseteq {m} /\ Aliases = {}
        /\ mailbox[m].domain = d /\ mailbox[m].email = At(l, n)
    BY <2>1 DEF Mailboxes, Aliases, NoMailboxes
  <2>4. QED
    BY <2>1, <2>2, <2>3 DEF Grounded, RowsBelong, At
<1>2. QED
  BY <1>1, BelongStep, GroundedStep, AlwaysTyped, PTL DEF Spec

--------------------------------------------------------------------------------
(* Statuses are earned.                                                     *)

\* The verdict is active only on an A and an MX record that are this server's,
\* whichever of the two questions was asked.
LEMMA ActiveInOrder ==
    ASSUME NEW n, NEW in \in Inputs(n), NEW answer, HealthOf(Check(in, answer)) = "active"
    PROVE  InOrder(answer)
<1>1. in.ipv4 = {Here} /\ in.host = Here
  BY DEF Inputs
<1>2. "a" \in RequiredRecords(in) /\ "mx" \in RequiredRecords(in)
  BY DEF RequiredRecords
<1>3. /\ Check(in, answer)["a"] = CheckAddress(answer.ips, 4, in.ipv4)
      /\ Check(in, answer)["mx"] = CheckMX(answer.mxs, in.host)
  BY <1>2 DEF Check
<1>4. CheckAddress(answer.ips, 4, in.ipv4) = "ok" /\ CheckMX(answer.mxs, in.host) = "ok"
  BY <1>3 DEF HealthOf
<1>5. \E ip \in Range(answer.ips) : ip.host = Here /\ ip.family = 4
  BY <1>1, <1>4 DEF CheckAddress
<1>6. Here \in Range(answer.mxs)
  BY <1>1, <1>4 DEF CheckMX
<1>7. QED
  BY <1>5, <1>6 DEF InOrder

\* A name whose check makes its domain active may have its certificate ordered: the
\* preflight, which asks the resolver the same question, lets it through
\* (updateDomainHealth, PreflightHostname).
THEOREM ActivePassesPreflight ==
    \A n \in Names, answer \in Answers : \A in \in Inputs(n) :
        HealthOf(Check(in, answer)) = "active" => Preflight(answer.ips, in.ipv4)
<1> SUFFICES ASSUME NEW n \in Names, NEW answer \in Answers, NEW in \in Inputs(n),
                    HealthOf(Check(in, answer)) = "active"
             PROVE  Preflight(answer.ips, in.ipv4)
  OBVIOUS
<1>1. InOrder(answer)
  BY ActiveInOrder
<1>2. in.ipv4 = {Here}
  BY DEF Inputs
<1>3. QED
  BY <1>1, <1>2 DEF InOrder, Preflight

\* A check about to make a domain active has found that row's records in order.
Earning == \A w \in Admins :
              pc[w] = "update status" /\ req[w].status = "active" => req[w].id \in earned

LEMMA EarningStep == Typed /\ Earning /\ [Next]_vars => Earning'
<1> SUFFICES ASSUME Typed, Earning, [Next]_vars
             PROVE  Earning'
  OBVIOUS
<1>1. ControlTypes
  BY TypeParts DEF Typed
<1>2. ASSUME NEW w \in Admins, LookUp(w), pc'[w] = "update status", req'[w].status = "active"
      PROVE  req'[w].id \in earned'
  <2>1. PICK in \in Inputs(req[w].name), answer \in Answers :
          /\ IF HealthOf(Check(in, answer)) = req[w].status
             THEN Goto(w, "idle") /\ req' = [req EXCEPT ![w] = NoRequest]
             ELSE /\ Goto(w, "update status")
                  /\ req' = [req EXCEPT ![w].status = HealthOf(Check(in, answer))]
          /\ earned' = IF InOrder(answer) THEN earned \cup {req[w].id} ELSE earned
    BY <1>2 DEF LookUp
  <2> DEFINE h == HealthOf(Check(in, answer))
  <2>2. h \in Statuses
    BY HealthType DEF Statuses
  <2>3. req' = [req EXCEPT ![w] = [req[w] EXCEPT !.status = h]]
    <3>1. ~ Goto(w, "idle")
      BY <1>1, <1>2 DEF Goto, ControlTypes
    <3>2. QED
      BY <2>1, <3>1
  <2> HIDE DEF h
  <2>4. req[w] \in Asked
    BY <1>1 DEF ControlTypes
  <2>5. req'[w] = [req[w] EXCEPT !.status = h]
    BY <1>1, <2>3 DEF ControlTypes
  <2>6. h = "active" /\ req'[w].id = req[w].id
    BY <1>2, <2>4, <2>5 DEF Asked
  <2>7. InOrder(answer)
    BY <2>6, ActiveInOrder DEF h
  <2>8. QED
    BY <2>1, <2>6, <2>7
<1>3. ASSUME NEW w \in Admins, Act(w), pc'[w] = "update status"
      PROVE  LookUp(w)
  <2>1. \A l : Goto(w, l) => pc'[w] = l
    BY <1>1, Moved
  <2>2. ~ Rejected(w) /\ ~ Apply(w) /\ ~ Request(w)
    BY <1>3, <2>1 DEF Rejected, End, Apply, ListDomains, ListMailboxes, ListAliases, Publish,
                      ApplyFails, Request, Begin
  <2>3. /\ ~ InsertDomain(w) /\ ~ StatKey(w) /\ ~ OpenKey(w) /\ ~ WriteKey(w)
        /\ ~ KeyFails(w) /\ ~ DeleteDomain(w) /\ ~ InsertMailbox(w) /\ ~ InsertAlias(w)
    BY <1>3, <2>1 DEF InsertDomain, StatKey, OpenKey, WriteKey, KeyFails, DeleteDomain,
                      InsertMailbox, InsertAlias
  <2>4. /\ ~ ReadMailbox(w) /\ ~ UpdateMailbox(w) /\ ~ DeleteMailbox(w)
        /\ ~ UpdateAliasEnabled(w) /\ ~ DeleteAlias(w) /\ ~ CheckDomain(w)
        /\ ~ ReadDomain(w) /\ ~ UpdateStatus(w)
    BY <1>3, <2>1 DEF ReadMailbox, UpdateMailbox, DeleteMailbox, UpdateAliasEnabled,
                      DeleteAlias, CheckDomain, ReadDomain, UpdateStatus
  <2>5. QED
    BY <1>3, <2>2, <2>3, <2>4 DEF Act, Statement
<1>4. ASSUME NEW w \in Admins, Act(w)
      PROVE  earned \subseteq earned'
  <2>1. CASE LookUp(w)
    BY <2>1 DEF LookUp
  <2>2. CASE Request(w) \/ Rejected(w) \/ Apply(w)
    BY <2>2 DEF Request, Begin, Rejected, End, Apply, ListDomains, ListMailboxes, ListAliases,
                Publish, ApplyFails
  <2>3. CASE Statement(w) /\ ~ LookUp(w)
    BY <2>3 DEF Statement, InsertDomain, StatKey, OpenKey, WriteKey, KeyFails, DeleteDomain,
                ReadDomain, InsertMailbox, InsertAlias, ReadMailbox, UpdateMailbox,
                DeleteMailbox, UpdateAliasEnabled, DeleteAlias, CheckDomain,
                UpdateStatus, StatementFrame
  <2>4. QED
    BY <1>4, <2>1, <2>2, <2>3 DEF Act
<1>5. ASSUME NEW v \in Admins, pc'[v] = "update status", req'[v].status = "active"
      PROVE  req'[v].id \in earned'
  <2>1. CASE UNCHANGED vars
    BY <1>5, <2>1 DEF vars, Earning
  <2>2. CASE \E w \in Admins : w # v /\ Act(w)
    BY <1>4, <1>5, <2>2, Touches DEF Only, Earning
  <2>3. CASE Act(v)
    BY <1>2, <1>3, <1>5, <2>3
  <2>4. QED
    BY <2>1, <2>2, <2>3, Acts
<1>6. QED
  BY <1>5 DEF Earning

LEMMA ActiveStep == Typed /\ Earning /\ ActiveIsEarned /\ [Next]_vars => ActiveIsEarned'
<1> SUFFICES ASSUME Typed, Earning, ActiveIsEarned, [Next]_vars
             PROVE  ActiveIsEarned'
  OBVIOUS
<1>1. RowTypes /\ Live \subseteq DomainIds
  BY TypeParts DEF Typed, Live
<1>2. ASSUME NEW w \in Admins, InsertDomain(w)
      PROVE  ActiveIsEarned'
  <2>1. PICK d \in DomainIds \ spent :
          domain' = [domain EXCEPT ![d] = [name |-> req[w].name, status |-> "pending"]]
    BY <1>2 DEF InsertDomain
  <2>2. earned' = earned
    BY <1>2 DEF InsertDomain, StatementFrame
  <2>3. QED
    BY <1>1, <2>1, <2>2 DEF RowTypes, Live, ActiveIsEarned
<1>3. ASSUME NEW w \in Admins, DeleteDomain(w)
      PROVE  ActiveIsEarned'
  BY <1>1, <1>3 DEF DeleteDomain, StatementFrame, RowTypes, Live, ActiveIsEarned
<1>4. ASSUME NEW w \in Admins, UpdateStatus(w)
      PROVE  ActiveIsEarned'
  <2>1. earned' = earned
    BY <1>4 DEF UpdateStatus, StatementFrame
  <2>2. CASE req[w].id \in Live
    <3> DEFINE r == [domain[req[w].id] EXCEPT !.status = req[w].status]
    <3>1. domain' = [domain EXCEPT ![req[w].id] = r]
      BY <1>4, <2>2 DEF UpdateStatus
    <3>2. r.status = req[w].status
      BY <2>2, <1>1, LiveFacts DEF Domains
    <3>3. req[w].status = "active" => req[w].id \in earned
      BY <1>4 DEF UpdateStatus, Earning
    <3> HIDE DEF r
    <3>4. \A d \in Live' : domain'[d].status = "active" => d \in earned
      BY <1>1, <2>2, <3>1, <3>2, <3>3 DEF RowTypes, Live, ActiveIsEarned
    <3>5. QED
      BY <2>1, <3>4 DEF ActiveIsEarned
  <2>3. CASE req[w].id \notin Live
    BY <1>4, <2>1, <2>3 DEF UpdateStatus, Live, ActiveIsEarned
  <2>4. QED
    BY <2>2, <2>3
<1>5. ASSUME UNCHANGED domain, earned \subseteq earned'
      PROVE  ActiveIsEarned'
  BY <1>5 DEF Live, ActiveIsEarned
<1>6. ASSUME NEW w \in Admins, LookUp(w)
      PROVE  UNCHANGED domain /\ earned \subseteq earned'
  BY <1>6 DEF LookUp, rows
<1>7. ASSUME NEW w \in Admins,
             \/ StatKey(w) \/ OpenKey(w) \/ WriteKey(w) \/ KeyFails(w) \/ ReadDomain(w)
             \/ InsertMailbox(w) \/ InsertAlias(w)
             \/ ReadMailbox(w) \/ UpdateMailbox(w) \/ DeleteMailbox(w)
             \/ UpdateAliasEnabled(w) \/ DeleteAlias(w) \/ CheckDomain(w)
             \/ Request(w) \/ Rejected(w) \/ Apply(w)
      PROVE  UNCHANGED <<domain, earned>>
  BY <1>7 DEF StatKey, OpenKey, WriteKey, KeyFails, ReadDomain, InsertMailbox, InsertAlias,
              ReadMailbox, UpdateMailbox, DeleteMailbox, UpdateAliasEnabled, DeleteAlias,
              CheckDomain, StatementFrame, Request, Begin, Rejected, End, Apply, ListDomains,
              ListMailboxes, ListAliases, Publish, ApplyFails, rows
<1>8. ASSUME NEW w \in Admins, Act(w)
      PROVE  ActiveIsEarned'
  BY <1>2, <1>3, <1>4, <1>5, <1>6, <1>7, <1>8 DEF Act, Statement
<1>9. CASE UNCHANGED vars
  BY <1>5, <1>9 DEF vars, rows
<1>10. QED
  BY <1>8, <1>9, Acts

\* A domain is active only if a check of this row found its records in order: a
\* check of a row that was deleted, or of another row of the same name, earns it
\* nothing.
THEOREM ActiveAlwaysEarned == Spec => []ActiveIsEarned
<1>1. Init => Earning /\ ActiveIsEarned
  <2> SUFFICES ASSUME Init
               PROVE  Earning /\ ActiveIsEarned
    OBVIOUS
  <2>1. PICK n \in Names, d \in DomainIds :
          /\ domain = [NoDomains EXCEPT ![d] = [name |-> n, status |-> "pending"]]
          /\ pc = [w \in Admins |-> "idle"]
    BY DEF Init
  <2>2. \A i \in Live : domain[i].status = "pending"
    BY <2>1 DEF Live, NoDomains
  <2>3. QED
    BY <2>1, <2>2 DEF Earning, ActiveIsEarned
<1>2. QED
  BY <1>1, EarningStep, ActiveStep, AlwaysTyped, PTL DEF Spec

--------------------------------------------------------------------------------
(* The maps follow, one request after the other.                            *)

Current ==
    /\ maps.domains = Hosted
    /\ maps.mailboxes = Emails
    /\ maps.aliases = Lines
    /\ maps.logins = SenderLogins(Emails, Enabled)
    /\ maps.signed = Signable(Hosted)

\* Where a request has not changed anything yet that the maps are built from.
Untouched == Refusable \cup {"idle", "look up"}

\* What a view holds of the database, query by query.
Seen(w) ==
    /\ pc[w] \in {"list mailboxes", "list aliases", "publish"} => view[w].domains = Hosted
    /\ pc[w] \in {"list aliases", "publish"} => view[w].mailboxes = Emails
    /\ pc[w] = "publish" => /\ view[w].aliases = Lines
                            /\ view[w].logins = SenderLogins(Emails, Enabled)
                            /\ view[w].signed = Signable(Hosted)

\* Since a lone Apply: one request at a time, maps that are the database's until it
\* changes a row, and a view that is, as far as it has got.
OneByOne ==
    orderly =>
        /\ \A v, w \in Admins : pc[v] # "idle" /\ pc[w] # "idle" => v = w
        /\ (\A w \in Admins : pc[w] \in Untouched) => Current
        /\ \A w \in Admins : Seen(w)

LEMMA UntouchedFacts ==
    /\ "idle" \in Untouched /\ "look up" \in Untouched /\ Refusable \subseteq Untouched
    /\ {"list mailboxes", "list aliases", "publish", "apply", "stat key", "open key",
        "write key"} \cap Untouched = {}
BY DEF Untouched, Refusable

\* A request that is alone is all there is to look at.
LEMMA Alone ==
    ASSUME NEW w \in Admins, Others(w)', pc'[w] \in Untouched => Current', Seen(w)'
    PROVE  OneByOne'
<1>1. \A v, u \in Admins : pc'[v] # "idle" /\ pc'[u] # "idle" => v = u
  BY DEF Others
<1>2. \A v \in Admins \ {w} : Seen(v)'
  BY DEF Others, Seen
<1>3. QED
  BY <1>1, <1>2 DEF OneByOne

\* What Build would list is a matter of the rows and the key files.
LEMMA ListsKept ==
    ASSUME UNCHANGED <<domain, mailbox, alias, key>>
    PROVE  /\ UNCHANGED <<Hosted, Emails, Lines, Enabled>>
           /\ Signable(Hosted)' = Signable(Hosted)
           /\ SenderLogins(Emails, Enabled)' = SenderLogins(Emails, Enabled)
<1>1. UNCHANGED <<Hosted, Emails, Enabled>>
  BY DEF Hosted, Emails, Enabled, Live, Mailboxes, Aliases
<1>2. Lines' = Lines /\ Signable(Hosted)' = Signable(Hosted)
  BY <1>1 DEF Lines, Signable
<1>3. SenderLogins(Emails, Enabled)' = SenderLogins(Emails, Enabled)
  BY <1>1
<1>4. QED
  BY <1>1, <1>2, <1>3

LEMMA OneByOneStep == Typed /\ OneByOne /\ [Next]_vars => OneByOne'
<1> SUFFICES ASSUME Typed, OneByOne, [Next]_vars, orderly'
             PROVE  OneByOne'
  BY DEF OneByOne
<1>1. ControlTypes /\ RowTypes /\ MapTypes
  BY TypeParts DEF Typed
<1>2. CASE UNCHANGED vars
  <2>1. UNCHANGED <<domain, mailbox, alias, key, maps, pc, view, orderly>>
    BY <1>2 DEF vars, rows
  <2>2. Current => Current'
    BY <2>1, ListsKept DEF Current
  <2>3. \A w \in Admins : Seen(w) => Seen(w)'
    BY <2>1, ListsKept DEF Seen
  <2>4. QED
    BY <2>1, <2>2, <2>3 DEF OneByOne
<1>3. ASSUME NEW w \in Admins, Act(w)
      PROVE  OneByOne'
  <2>1. ASSUME Others(w), pc'[w] \in Untouched => Current', Seen(w)'
        PROVE  OneByOne'
    <3>1. Others(w)'
      BY <1>3, <2>1, Touches DEF Others, Only
    <3>2. QED
      BY <2>1, <3>1, Alone
  <2>2. ASSUME UNCHANGED <<domain, mailbox, alias, key, maps>>, Current
        PROVE  Current'
    BY <2>2, ListsKept DEF Current
  <2>3. ASSUME pc[w] # "idle", orderly
        PROVE  Others(w) /\ Seen(w) /\ (pc[w] \in Untouched => Current)
    <3>1. Others(w) /\ Seen(w)
      BY <2>3 DEF OneByOne, Others
    <3>2. QED
      BY <2>3, <3>1, UntouchedFacts DEF OneByOne, Others
  <2>4. \A l : Goto(w, l) => pc'[w] = l
    BY <1>1, Moved
  \* A step that reads, or refuses: the maps stay the database's.
  <2>5. ASSUME pc[w] \in Untouched, pc'[w] \in Untouched, Others(w), orderly,
               UNCHANGED <<domain, mailbox, alias, key, maps>>
        PROVE  OneByOne'
    <3>1. Current
      BY <2>5, UntouchedFacts DEF OneByOne, Others
    <3>2. Seen(w)'
      BY <2>5, UntouchedFacts DEF Seen
    <3>3. QED
      BY <2>1, <2>2, <2>5, <3>1, <3>2
  <2>6. CASE Request(w)
    <3>1. /\ pc[w] = "idle" /\ Others(w) /\ orderly
          /\ UNCHANGED <<domain, mailbox, alias, key, maps>>
          /\ \E l \in {"insert domain", "delete domain", "check domain", "mailbox domain",
                       "alias domain", "read mailbox", "delete mailbox", "update alias",
                       "delete alias"} : Goto(w, l)
      BY <2>6 DEF Request, Begin, rows
    <3>2. pc'[w] \in Untouched
      BY <2>4, <3>1 DEF Untouched, Refusable
    <3>3. QED
      BY <2>5, <3>1, <3>2, UntouchedFacts
  <2>7. CASE Rejected(w) \/ ReadDomain(w) \/ ReadMailbox(w) \/ CheckDomain(w)
    <3>1. /\ pc[w] \in Refusable /\ orderly
          /\ UNCHANGED <<domain, mailbox, alias, key, maps>>
          /\ \E l \in {"idle", "insert mailbox", "insert alias", "update mailbox",
                       "look up"} : Goto(w, l)
      <4>1. CASE Rejected(w)
        BY <4>1 DEF Rejected, End, rows
      <4>2. CASE ReadDomain(w)
        BY <4>2 DEF ReadDomain, StatementFrame, rows, Refusable
      <4>3. CASE ReadMailbox(w) \/ CheckDomain(w)
        BY <4>3 DEF ReadMailbox, CheckDomain, StatementFrame, rows, Refusable
      <4>4. QED
        BY <2>7, <4>1, <4>2, <4>3
    <3>2. pc'[w] \in Untouched /\ pc[w] # "idle" /\ pc[w] \in Untouched
      BY <2>4, <3>1 DEF Untouched, Refusable
    <3>3. QED
      BY <2>3, <2>5, <3>1, <3>2
  <2>8. CASE LookUp(w)
    <3>1. /\ pc[w] = "look up" /\ orderly
          /\ UNCHANGED <<domain, mailbox, alias, key, maps>>
          /\ \E l \in {"idle", "update status"} : Goto(w, l)
      BY <2>8 DEF LookUp, rows
    <3>2. pc'[w] \in Untouched
      BY <2>4, <3>1 DEF Untouched, Refusable
    <3>3. QED
      BY <2>3, <2>5, <3>1, <3>2, UntouchedFacts
  <2>9. CASE UpdateStatus(w)
    <3>1. /\ pc[w] = "update status" /\ pc'[w] = "idle" /\ orderly
          /\ UNCHANGED <<mailbox, alias, key, maps>>
      BY <2>4, <2>9 DEF UpdateStatus, StatementFrame
    <3>2. Others(w) /\ Current
      BY <2>3, <3>1 DEF Untouched, Refusable
    <3>3. Hosted' = Hosted
      <4>1. CASE req[w].id \in Live
        <5> DEFINE r == [domain[req[w].id] EXCEPT !.status = req[w].status]
        <5>1. domain' = [domain EXCEPT ![req[w].id] = r]
          BY <2>9, <4>1 DEF UpdateStatus
        <5>2. r.name = domain[req[w].id].name /\ r # NoDomain
          <6>1. domain[req[w].id] \in Domains
            BY <1>1, <4>1, LiveFacts
          <6>2. r.name = domain[req[w].id].name
            BY <6>1 DEF Domains
          <6>3. domain[req[w].id].name # NoDomain.name
            BY <6>1, NamesAssumption DEF Domains, NoDomain
          <6>4. QED
            BY <6>2, <6>3
        <5> HIDE DEF r
        <5>3. Live' = Live /\ \A d \in Live : domain'[d].name = domain[d].name
          BY <1>1, <4>1, <5>1, <5>2 DEF RowTypes, Live
        <5>4. QED
          BY <5>3 DEF Hosted
      <4>2. CASE req[w].id \notin Live
        BY <2>9, <4>2 DEF UpdateStatus, Hosted, Live
      <4>3. QED
        BY <4>1, <4>2
    <3>4. Current'
      <4>1. UNCHANGED <<Emails, Enabled>>
        BY <3>1 DEF Emails, Enabled, Mailboxes, Aliases
      <4>2. /\ Lines' = Lines /\ Signable(Hosted)' = Signable(Hosted)
            /\ SenderLogins(Emails, Enabled)' = SenderLogins(Emails, Enabled)
        BY <3>1, <3>3, <4>1 DEF Lines, Signable
      <4>3. QED
        BY <3>1, <3>2, <3>3, <4>1, <4>2 DEF Current
    <3>5. Seen(w)'
      BY <3>1 DEF Seen
    <3>6. QED
      BY <2>1, <3>2, <3>4, <3>5
  \* A step that changes a row or a key: the maps are behind, until Apply.
  <2>10. ASSUME pc[w] # "idle", orderly,
                \E l \in {"stat key", "open key", "write key", "apply"} : Goto(w, l)
         PROVE  OneByOne'
    <3>1. pc'[w] \in {"stat key", "open key", "write key", "apply"}
      BY <2>4, <2>10
    <3>2. pc'[w] \notin Untouched /\ Seen(w)'
      BY <3>1, UntouchedFacts DEF Seen
    <3>3. QED
      BY <2>1, <2>3, <2>10, <3>2
  <2>11. CASE InsertDomain(w) \/ StatKey(w) \/ OpenKey(w) \/ WriteKey(w) \/ KeyFails(w)
    BY <2>10, <2>11 DEF InsertDomain, StatKey, OpenKey, WriteKey, KeyFails, StatementFrame
  <2>12. CASE DeleteDomain(w) \/ InsertMailbox(w) \/ InsertAlias(w)
    BY <2>10, <2>12 DEF DeleteDomain, InsertMailbox, InsertAlias, StatementFrame
  <2>13. CASE UpdateMailbox(w) \/ DeleteMailbox(w) \/ UpdateAliasEnabled(w) \/ DeleteAlias(w)
    BY <2>10, <2>13 DEF UpdateMailbox, DeleteMailbox, UpdateAliasEnabled, DeleteAlias,
                        StatementFrame
  <2>14. CASE ListDomains(w)
    <3>1. /\ Others(w) /\ pc'[w] = "list mailboxes"
          /\ view' = [view EXCEPT ![w] = Data(Hosted, {}, {}, {}, {})]
          /\ UNCHANGED <<domain, mailbox, alias, key>>
      BY <2>4, <2>14 DEF ListDomains, Hosted, rows
    <3>2. view'[w].domains = Hosted /\ Hosted' = Hosted
      BY <1>1, <3>1 DEF MapTypes, Data, Hosted, Live
    <3>3. QED
      BY <2>1, <3>1, <3>2, UntouchedFacts DEF Seen
  <2>15. CASE ListMailboxes(w)
    <3>1. /\ pc[w] = "list mailboxes" /\ pc'[w] = "list aliases" /\ orderly
          /\ view' = [view EXCEPT ![w] = [view[w] EXCEPT !.mailboxes = Emails]]
          /\ UNCHANGED <<domain, mailbox, alias, key>>
      BY <2>4, <2>15 DEF ListMailboxes, Emails, rows
    <3>2. Others(w) /\ view[w].domains = Hosted
      BY <2>3, <3>1 DEF Seen
    <3>3. view'[w].domains = Hosted /\ view'[w].mailboxes = Emails
      <4>1. view'[w] = [view[w] EXCEPT !.mailboxes = Emails] /\ view[w] \in Maps
        BY <1>1, <3>1 DEF MapTypes
      <4>2. QED
        BY <3>2, <4>1 DEF Maps
    <3>4. Hosted' = Hosted /\ Emails' = Emails
      BY <3>1 DEF Hosted, Emails, Live, Mailboxes
    <3>5. QED
      BY <2>1, <3>1, <3>2, <3>3, <3>4, UntouchedFacts DEF Seen
  <2>16. CASE ListAliases(w)
    <3> DEFINE v == [view[w] EXCEPT !.aliases = Lines,
                                    !.logins = SenderLogins(view[w].mailboxes, Enabled),
                                    !.signed = Signable(view[w].domains)]
    <3>1. /\ pc[w] = "list aliases" /\ pc'[w] = "publish" /\ orderly
          /\ view' = [view EXCEPT ![w] = v]
          /\ UNCHANGED <<domain, mailbox, alias, key>>
      BY <2>4, <2>16 DEF ListAliases, Lines, Signable, rows
    <3>2. Others(w) /\ view[w].domains = Hosted /\ view[w].mailboxes = Emails
      BY <2>3, <3>1 DEF Seen
    <3>3. view'[w] = v /\ view[w] \in Maps
      BY <1>1, <3>1 DEF MapTypes
    <3>4. /\ v.domains = Hosted /\ v.mailboxes = Emails /\ v.aliases = Lines
          /\ v.logins = SenderLogins(Emails, Enabled) /\ v.signed = Signable(Hosted)
      BY <3>2, <3>3 DEF Maps
    <3> HIDE DEF v
    <3>5. QED
      BY <2>1, <3>1, <3>2, <3>3, <3>4, ListsKept, UntouchedFacts DEF Seen
  <2>17. CASE Publish(w)
    <3>1. /\ pc[w] = "publish" /\ pc'[w] = "idle" /\ orderly /\ maps' = view[w]
          /\ UNCHANGED <<domain, mailbox, alias, key>>
      BY <2>4, <2>17 DEF Publish, rows
    <3>2. Others(w) /\ Seen(w)
      BY <2>3, <3>1
    <3>3. Current'
      BY <3>1, <3>2, ListsKept DEF Current, Seen
    <3>4. Seen(w)'
      BY <3>1 DEF Seen
    <3>5. QED
      BY <2>1, <3>2, <3>3, <3>4
  <2>18. CASE ApplyFails(w)
    BY <2>18 DEF ApplyFails
  <2>19. CASE Apply(w)
    BY <2>14, <2>15, <2>16, <2>17, <2>18, <2>19 DEF Apply
  <2>20. CASE Statement(w)
    BY <2>7, <2>8, <2>9, <2>11, <2>12, <2>13, <2>20 DEF Statement
  <2>21. QED
    BY <1>3, <2>6, <2>7, <2>19, <2>20 DEF Act
<1>4. QED
  BY <1>2, <1>3, Acts

LEMMA OneByOneStart == Init => OneByOne
<1> SUFFICES ASSUME Init
             PROVE  OneByOne
  OBVIOUS
<1>1. PICK n \in Names, l \in Locals, d \in DomainIds, m \in MailboxIds, keyed \in BOOLEAN :
        /\ domain = [NoDomains EXCEPT ![d] = [name |-> n, status |-> "pending"]]
        /\ mailbox = [NoMailboxes EXCEPT ![m] =
                        [domain |-> d, email |-> At(l, n), enabled |-> TRUE]]
        /\ alias = [x \in AliasIds |-> NoAlias]
        /\ spent = {d, m}
        /\ key = [k \in Names |-> IF k = n /\ keyed THEN "whole" ELSE "none"]
        /\ maps = Data({n}, {At(l, n)}, {}, SenderLogins({At(l, n)}, {}),
                       IF keyed THEN {n} ELSE {})
        /\ pc = [w \in Admins |-> "idle"]
        /\ req = [w \in Admins |-> NoRequest]
        /\ view = [w \in Admins |-> Nothing]
        /\ orderly = TRUE
        /\ earned = {}
        /\ requests = 0
  BY DEF Init
<1>2. Hosted = {n}
  <2>1. [name |-> n, status |-> "pending"] # NoDomain
    BY NamesAssumption DEF NoDomain
  <2>2. Live = {d} /\ domain[d].name = n
    BY <1>1, <2>1 DEF Live, NoDomains
  <2>3. QED
    BY <2>2 DEF Hosted
<1>3. Emails = {At(l, n)}
  <2> DEFINE b == [domain |-> d, email |-> At(l, n), enabled |-> TRUE]
  <2>1. b \in Boxes
    BY DEF Boxes, At, Addresses
  <2>2. b # NoMailbox /\ b.enabled /\ b.email = At(l, n)
    BY <2>1, RowFacts
  <2>3. mailbox = [NoMailboxes EXCEPT ![m] = b]
    BY <1>1
  <2> HIDE DEF b
  <2>4. Mailboxes = {m} /\ mailbox[m] = b
    BY <2>2, <2>3 DEF Mailboxes, NoMailboxes
  <2>5. QED
    BY <2>2, <2>4 DEF Emails
<1>4. Enabled = {} /\ Lines = {}
  BY <1>1 DEF Enabled, Lines, Aliases
<1>5. Signable({n}) = IF keyed THEN {n} ELSE {}
  BY <1>1 DEF Signable
<1>6. Current
  BY <1>1, <1>2, <1>3, <1>4, <1>5 DEF Current, Data
<1>7. \A w \in Admins : Seen(w)
  BY <1>1 DEF Seen
<1>8. QED
  BY <1>1, <1>6, <1>7 DEF OneByOne

\* Of the rest the maps are the database's, whatever was asked for before.
THEOREM MapsAlwaysCurrent == Spec => []MapsAreCurrent
<1>1. OneByOne => MapsAreCurrent
  BY UntouchedFacts DEF OneByOne, MapsAreCurrent, Quiet, Current, Hosted, Emails, Lines,
                        Signable
<1>2. QED
  BY <1>1, OneByOneStart, OneByOneStep, AlwaysTyped, PTL DEF Spec

\* A row says of itself that it is a catch-all exactly when its source is one: Postfix's
\* map goes by the former, the webmail by the latter.
CatchAlls == \A x \in Aliases : alias[x].catchAll = (alias[x].source.local = CatchAll)

LEMMA CatchAllStep == Typed /\ CatchAlls /\ [Next]_vars => CatchAlls'
<1> SUFFICES ASSUME Typed, CatchAlls, [Next]_vars
             PROVE  CatchAlls'
  OBVIOUS
<1>1. RowTypes /\ Aliases \subseteq AliasIds
  BY TypeParts DEF Typed, Aliases
<1>2. ASSUME NEW w \in Admins, InsertAlias(w)
      PROVE  CatchAlls'
  <2> DEFINE b == [domain |-> req[w].id, source |-> req[w].from, dest |-> req[w].to,
                   catchAll |-> req[w].from.local = CatchAll, enabled |-> TRUE]
  <2>1. PICK x \in AliasIds \ spent : alias' = [alias EXCEPT ![x] = b]
    BY <1>2 DEF InsertAlias
  <2>2. b.catchAll = (b.source.local = CatchAll)
    OBVIOUS
  <2> HIDE DEF b
  <2>3. QED
    BY <1>1, <2>1, <2>2 DEF RowTypes, Aliases, CatchAlls
<1>3. ASSUME NEW w \in Admins, UpdateAliasEnabled(w)
      PROVE  CatchAlls'
  <2> DEFINE c == [alias[req[w].id] EXCEPT !.enabled = (req[w].flag = "on")]
  <2>1. req[w].id \in Aliases /\ alias' = [alias EXCEPT ![req[w].id] = c]
    BY <1>3 DEF UpdateAliasEnabled
  <2>2. alias[req[w].id] \in Forwardings
    BY <1>1, <2>1, LiveFacts
  <2>3. c.catchAll = alias[req[w].id].catchAll /\ c.source = alias[req[w].id].source
    BY <2>2 DEF Forwardings
  <2> HIDE DEF c
  <2>4. QED
    BY <1>1, <2>1, <2>3 DEF RowTypes, Aliases, CatchAlls
<1>4. ASSUME NEW w \in Admins, DeleteDomain(w) \/ DeleteAlias(w)
      PROVE  CatchAlls'
  BY <1>1, <1>4 DEF DeleteDomain, DeleteAlias, RowTypes, Aliases, CatchAlls
<1>5. ASSUME NEW w \in Admins,
             \/ InsertDomain(w) \/ StatKey(w) \/ OpenKey(w) \/ WriteKey(w) \/ KeyFails(w)
             \/ ReadDomain(w) \/ InsertMailbox(w) \/ ReadMailbox(w) \/ UpdateMailbox(w)
             \/ DeleteMailbox(w) \/ CheckDomain(w) \/ LookUp(w) \/ UpdateStatus(w)
             \/ Request(w) \/ Rejected(w) \/ Apply(w)
      PROVE  UNCHANGED alias
  BY <1>5 DEF InsertDomain, StatKey, OpenKey, WriteKey, KeyFails, ReadDomain, InsertMailbox,
              ReadMailbox, UpdateMailbox, DeleteMailbox, CheckDomain, LookUp, UpdateStatus,
              Request, Begin, Rejected, End, Apply, ListDomains, ListMailboxes, ListAliases,
              Publish, ApplyFails, rows
<1>6. ASSUME UNCHANGED alias
      PROVE  CatchAlls'
  BY <1>6 DEF CatchAlls, Aliases
<1>7. ASSUME NEW w \in Admins, Act(w)
      PROVE  CatchAlls'
  BY <1>2, <1>3, <1>4, <1>5, <1>6, <1>7 DEF Act, Statement
<1>8. CASE UNCHANGED vars
  BY <1>6, <1>8 DEF vars, rows
<1>9. QED
  BY <1>7, <1>8, Acts

\* The webmail and Postfix agree on who may send as whom, although one goes by the rows
\* and the other by maps published earlier.
THEOREM SendersAlwaysAgree == Spec => []SendersAgree
<1>1. OneByOne /\ CatchAlls /\ Typed => SendersAgree
  <2> SUFFICES ASSUME OneByOne, CatchAlls, Typed, Quiet, orderly,
                      NEW m \in Mailboxes, mailbox[m].enabled
               PROVE  AllowedSenders(mailbox[m].email) =
                        {l.sender : l \in {k \in maps.logins : k.owner = mailbox[m].email}}
    BY DEF SendersAgree
  <2> DEFINE e == mailbox[m].email
  <2>1. maps.logins = SenderLogins(Emails, Enabled) /\ e \in Emails
    BY UntouchedFacts DEF OneByOne, Quiet, Current, Emails
  <2>2. \A a \in Enabled : a.catchAll <=> a.source.local = CatchAll
    BY DEF Enabled, CatchAlls
  <2> HIDE DEF e
  <2>3. ASSUME NEW s \in AllowedSenders(e)
        PROVE  \E l \in SenderLogins(Emails, Enabled) : l.owner = e /\ l.sender = s
    <3>1. CASE s = e
      <4>1. [sender |-> e, owner |-> e] \in SenderLogins(Emails, Enabled)
        BY <2>1 DEF SenderLogins
      <4>2. QED
        BY <3>1, <4>1
    <3>2. CASE \E a \in Enabled : a.dest = e /\ a.source.local # CatchAll /\ s = a.source
      <4>1. PICK a \in Enabled : a.dest = e /\ a.source.local # CatchAll /\ s = a.source
        BY <3>2
      <4>2. a \in {c \in Enabled : ~ c.catchAll /\ c.dest \in Emails}
        BY <2>1, <2>2, <4>1
      <4>3. [sender |-> a.source, owner |-> a.dest] \in SenderLogins(Emails, Enabled)
        BY <4>2 DEF SenderLogins
      <4>4. QED
        BY <4>1, <4>3
    <3>3. QED
      BY <2>3, <3>1, <3>2 DEF AllowedSenders
  <2>4. ASSUME NEW l \in SenderLogins(Emails, Enabled), l.owner = e
        PROVE  l.sender \in AllowedSenders(e)
    <3>1. CASE \E b \in Emails : l = [sender |-> b, owner |-> b]
      BY <2>4, <3>1 DEF AllowedSenders
    <3>2. CASE \E a \in Enabled : ~ a.catchAll /\ l = [sender |-> a.source, owner |-> a.dest]
      BY <2>2, <2>4, <3>2 DEF AllowedSenders
    <3>3. QED
      BY <2>4, <3>1, <3>2 DEF SenderLogins
  <2>5. QED
    BY <2>1, <2>3, <2>4 DEF e
<1>2. Init => CatchAlls
  BY DEF Init, CatchAlls, Aliases
<1>3. QED
  BY <1>1, <1>2, OneByOneStart, OneByOneStep, CatchAllStep, AlwaysTyped, PTL DEF Spec
================================================================================
