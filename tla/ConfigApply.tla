------------------------------ MODULE ConfigApply ------------------------------
(***************************************************************************)
(* Delivery policies and the configuration generated from them             *)
(* (internal/admin/core.go, internal/delivery, internal/db/store_delivery, *)
(* internal/configgen).  Several admin requests are served at once, every  *)
(* SQL statement is atomic, nothing else is: a request checks, writes, and *)
(* then runs Generator.Apply, which reads the database query by query,     *)
(* writes the files one by one and reloads the mail server, with no lock.  *)
(***************************************************************************)
EXTENDS Naturals, FiniteSets

CONSTANTS
    Domains,        \* domain ids (AUTOINCREMENT: used once)
    Relays,         \* relay ids (AUTOINCREMENT: used once)
    Global,         \* the scope of the default policy
    Admins,         \* goroutines serving admin requests, and OnIssued
    Logins,         \* a relay's host, port and credentials, taken together
    Nexthop(_),     \* the host and port of a login: Postfix's lookup key
    Direct,         \* the route to the recipient's own servers
    Inherit,        \* no sender_transport entry: the default route applies
    Null,           \* SQL NULL
    MaxRequests,    \* bound: requests served
    MaxCrashes      \* bound: crashes of the daemon

ASSUME ScopeAssumption == Global \notin Domains
ASSUME RouteAssumption == Direct \notin Logins /\ Inherit \notin Logins /\ Direct # Inherit
ASSUME NullAssumption == Null \notin Relays \cup Logins
ASSUME BoundsAssumption == MaxRequests \in Nat /\ MaxCrashes \in Nat

VARIABLES
    live,           \* domains that have a row
    relays,         \* relays[x]: the relay's row, or NoRelay
    policy,         \* policy[s]: the policy row of a scope, or NoPolicy
    spent,          \* domain and relay ids handed out so far
    disk,           \* the generated files
    loaded,         \* the files Postfix last read
    pc,             \* pc[w]: where request w is
    req,            \* req[w]: what request w asks for
    view,           \* view[w]: the Data request w has assembled
    found,          \* found[w]: the scope Build is resolving, and the relay it looks up
    files,          \* files[w]: files Apply still has to write
    kept,           \* history: scopes in relay mode ever since w listed the domains,
                    \* but for those whose policy w's Build could not read
    late,           \* history: scopes given the relay w deletes after w counted its users
    orderly,        \* history: no request has overlapped, failed or passed over a failed
                    \* query since a lone Apply
    aborted,        \* history: an Apply has failed or died since a lone one succeeded
    requests,       \* requests so far
    crashes         \* crashes so far

database == <<live, relays, policy, spent>>
output   == <<disk, loaded>>
history  == <<kept, late, orderly, aborted>>
counters == <<requests, crashes>>
vars     == <<database, output, pc, req, view, found, files, history, counters>>

--------------------------------------------------------------------------------
(* Data.                                                                    *)

Scopes == Domains \cup {Global}
Routes == Logins \cup {Direct, Inherit}
Files  == {"main.cf", "sender_transport", "sasl_passwd"}

NoRelay  == [login |-> Null, enabled |-> FALSE]
NoPolicy == [mode |-> "none", relay |-> Null]

Rows == [login : Logins, enabled : BOOLEAN]

\* The configuration while the global policy, which the migration inserts, is all
\* there is: direct.
Data(default, route, todo) == [default |-> default, route |-> route, todo |-> todo]
Fresh == Data(Direct, [d \in Domains |-> Inherit], {})

\* The scope Build resolves, whose policy decides for it, and that policy's relay.
Resolving(scope, source, relay) == [scope |-> scope, source |-> source, relay |-> relay]

Start == Resolving(Global, "global", Null)

NoRequest == [scope |-> Global, mode |-> "none", relay |-> Null, row |-> NoRelay]

\* The scopes whose policy says relay; a deleted domain has left.
InRelayMode(policies, domains) ==
    {s \in domains \cup {Global} : policies[s].mode = "relay"}

\* An installed host, which may have domains and relays, but no policies for them.
Init ==
    /\ live \in SUBSET Domains
    /\ relays \in [Relays -> {NoRelay} \cup Rows]
    /\ policy = [s \in Scopes |-> IF s = Global THEN [mode |-> "direct", relay |-> Null]
                                                ELSE NoPolicy]
    /\ spent = live \cup {x \in Relays : relays[x] # NoRelay}
    /\ disk = [f \in Files |-> Fresh]
    /\ loaded = disk
    /\ pc = [w \in Admins |-> "idle"]
    /\ req = [w \in Admins |-> NoRequest]
    /\ view = [w \in Admins |-> Fresh]
    /\ found = [w \in Admins |-> Start]
    /\ files = [w \in Admins |-> {}]
    /\ kept = [w \in Admins |-> {}]
    /\ late = [w \in Admins |-> {}]
    /\ orderly = TRUE
    /\ aborted = FALSE
    /\ requests = 0
    /\ crashes = 0

--------------------------------------------------------------------------------
(* Requests.  Each one runs its checks and its statement, then Apply.       *)

Others(w) == \A v \in Admins \ {w} : pc[v] = "idle"

Goto(w, l) == pc' = [pc EXCEPT ![w] = l]

\* A request arrives; every one of its SQL statements comes later.
Begin(w, l, r) ==
    /\ pc[w] = "idle"
    /\ requests < MaxRequests
    /\ requests' = requests + 1
    /\ Goto(w, l)
    /\ req' = [req EXCEPT ![w] = r]
    /\ orderly' = (orderly /\ Others(w))
    /\ UNCHANGED <<database, output, view, found, files, kept, late, aborted, crashes>>

\* The request ends with an error and has changed nothing.
Refuse(w) ==
    /\ pc' = [pc EXCEPT ![w] = "idle"]
    /\ req' = [req EXCEPT ![w] = NoRequest]
    /\ late' = [late EXCEPT ![w] = {}]
    /\ UNCHANGED <<database, output, view, found, files, kept, orderly, aborted, counters>>

\* The scopes a statement gives the relay that w, who has counted its users, is
\* about to delete.
GivenLate(w) == {s \in Scopes : /\ policy[s].relay # req[w].relay
                                /\ policy'[s].relay = req[w].relay}

\* What a statement leaves alone; a changed policy ends a scope's relay mode.
StatementFrame ==
    /\ kept' = [w \in Admins |-> kept[w] \cap InRelayMode(policy', live')]
    /\ late' = [w \in Admins |->
                  IF pc[w] = "delete relay" /\ pc'[w] = "delete relay"
                  THEN late[w] \cup GivenLate(w) ELSE {}]
    /\ UNCHANGED <<req, output, view, found, files, orderly, aborted, counters>>

\* core.CreateDomain and core.DeleteDomain; scope_id is no foreign key, so the
\* policy row of a deleted domain stays.
CreateDomain(w) ==
    /\ pc[w] = "create"
    /\ \E d \in Domains \ spent :
         /\ live' = live \cup {d}
         /\ spent' = spent \cup {d}
    /\ Goto(w, "apply")
    /\ UNCHANGED <<relays, policy>>
    /\ StatementFrame

DeleteDomain(w) ==
    /\ pc[w] = "delete"
    /\ req[w].scope \in live
    /\ live' = live \ {req[w].scope}
    /\ Goto(w, "apply")
    /\ UNCHANGED <<relays, policy, spent>>
    /\ StatementFrame

\* SaveRelay with id 0: one INSERT.
CreateRelay(w) ==
    /\ pc[w] = "insert relay"
    /\ \E x \in Relays \ spent :
         /\ relays' = [relays EXCEPT ![x] = req[w].row]
         /\ spent' = spent \cup {x}
    /\ Goto(w, "apply")
    /\ UNCHANGED <<live, policy>>
    /\ StatementFrame

UpdateRelayBlank(w) ==      \* a blank password overwrites the stored one
    /\ pc[w] = "update relay"
    /\ relays[req[w].relay] # NoRelay
    /\ relays' = [relays EXCEPT ![req[w].relay] =
                     [login |-> Null, enabled |-> req[w].row.enabled]]
    /\ Goto(w, "apply")
    /\ UNCHANGED <<live, policy, spent>>
    /\ StatementFrame

\* SaveRelay of an existing relay.  Fields that the PUT omits are filled from a
\* row read earlier, so any row may be written; when the row has gone meanwhile,
\* the UPDATE changes nothing and reading it back fails.
UpdateRelay(w) ==
    /\ pc[w] = "update relay"
    /\ relays[req[w].relay] # NoRelay
    /\ relays' = [relays EXCEPT ![req[w].relay] = req[w].row]
    /\ Goto(w, "apply")
    /\ UNCHANGED <<live, policy, spent>>
    /\ StatementFrame

CountGlobal(w) ==           \* only the default policy is looked at
    /\ pc[w] = "count policies"
    /\ relays[req[w].relay] # NoRelay
    /\ policy[Global].relay # req[w].relay
    /\ Goto(w, "delete relay")
    /\ UNCHANGED database
    /\ StatementFrame

\* DeleteRelay counts the policies that use the relay ...
CountPolicies(w) ==
    /\ pc[w] = "count policies"
    /\ relays[req[w].relay] # NoRelay
    /\ \A s \in Scopes : policy[s].relay # req[w].relay
    /\ Goto(w, "delete relay")
    /\ UNCHANGED database
    /\ StatementFrame

\* ... and deletes the row in a second statement: ON DELETE SET NULL.
DeleteRelay(w) ==
    /\ pc[w] = "delete relay"
    /\ relays[req[w].relay] # NoRelay
    /\ relays' = [relays EXCEPT ![req[w].relay] = NoRelay]
    /\ policy' = [s \in Scopes |->
                    IF policy[s].relay = req[w].relay
                    THEN [mode |-> policy[s].mode, relay |-> Null] ELSE policy[s]]
    /\ Goto(w, "apply")
    /\ UNCHANGED <<live, spent>>
    /\ StatementFrame

\* upsertPolicy: the domain must exist; SetPolicy: the relay must be enabled.
CheckScope(w) ==
    /\ pc[w] = "check scope"
    /\ req[w].scope \in live \cup {Global}
    /\ Goto(w, IF req[w].mode = "relay" THEN "check relay" ELSE "upsert")
    /\ UNCHANGED database
    /\ StatementFrame

CheckRelay(w) ==
    /\ pc[w] = "check relay"
    /\ relays[req[w].relay].enabled
    /\ Goto(w, "upsert")
    /\ UNCHANGED database
    /\ StatementFrame

\* UpsertPolicy's INSERT ... ON CONFLICT: relay_id is a foreign key, scope_id
\* is none.
UpsertPolicy(w) ==
    /\ pc[w] = "upsert"
    /\ req[w].relay # Null => relays[req[w].relay] # NoRelay
    /\ policy' = [policy EXCEPT ![req[w].scope] =
                    [mode |-> req[w].mode, relay |-> req[w].relay]]
    /\ Goto(w, "apply")
    /\ UNCHANGED <<live, relays, spent>>
    /\ StatementFrame

DeletePolicyQuietly(w) ==   \* deleted, and the configuration left as it is
    /\ pc[w] = "delete policy"
    /\ policy[req[w].scope] # NoPolicy
    /\ req[w].scope # Global
    /\ policy' = [policy EXCEPT ![req[w].scope] = NoPolicy]
    /\ Goto(w, "idle")
    /\ UNCHANGED <<live, relays, spent>>
    /\ StatementFrame

\* DeletePolicy: never the global row.  The id it is given stands for a scope.
DeletePolicy(w) ==
    /\ pc[w] = "delete policy"
    /\ policy[req[w].scope] # NoPolicy
    /\ req[w].scope # Global
    /\ policy' = [policy EXCEPT ![req[w].scope] = NoPolicy]
    /\ Goto(w, "apply")
    /\ UNCHANGED <<live, relays, spent>>
    /\ StatementFrame

Statement(w) ==
    \/ CreateDomain(w) \/ DeleteDomain(w)
    \/ CreateRelay(w) \/ UpdateRelay(w) \/ CountPolicies(w) \/ DeleteRelay(w)
    \/ CheckScope(w) \/ CheckRelay(w) \/ UpsertPolicy(w) \/ DeletePolicy(w)

Statements == {"create", "delete", "insert relay", "update relay", "count policies",
               "delete relay", "check scope", "check relay", "upsert", "delete policy"}

\* The next check or statement is refused: no such row, a name already taken, a
\* foreign key, outbound port 25 closed, or a client that has gone away.
Rejected(w) == pc[w] \in Statements /\ Refuse(w)

\* The requests that reach these operations, and the regeneration that follows
\* an issued certificate.
Ask(scope, mode, relay, row) ==
    [scope |-> scope, mode |-> mode, relay |-> relay, row |-> row]

Request(w) ==
    \/ Begin(w, "create", NoRequest)
    \/ \E d \in Domains : Begin(w, "delete", Ask(d, "none", Null, NoRelay))
    \/ \E r \in Rows : Begin(w, "insert relay", Ask(Global, "none", Null, r))
    \/ \E x \in Relays, r \in Rows : Begin(w, "update relay", Ask(Global, "none", x, r))
    \/ \E x \in Relays : Begin(w, "count policies", Ask(Global, "none", x, NoRelay))
    \/ \E s \in Scopes, x \in Relays : Begin(w, "check scope", Ask(s, "relay", x, NoRelay))
    \/ \E s \in Scopes : Begin(w, "check scope", Ask(s, "direct", Null, NoRelay))
    \/ \E d \in Domains : Begin(w, "check scope", Ask(d, "inherit", Null, NoRelay))
    \/ \E s \in Scopes : Begin(w, "delete policy", Ask(s, "none", Null, NoRelay))
    \/ Begin(w, "apply", NoRequest)

--------------------------------------------------------------------------------
(* Generator.Apply: Build, one query at a time ...                          *)

\* The route a policy stands for; its relay, if any, is not looked at.
RouteOf(p) == IF p.mode = "relay" /\ p.relay # Null THEN relays[p.relay].login ELSE Direct

\* The relay logins a set of Data routes through: the lines of sasl_passwd.
LoginsOf(data) ==
    {l \in Logins : data.default = l \/ \E d \in Domains : data.route[d] = l}

CollidesNever(data, l) == FALSE     \* the last relay's credentials win

\* Two relays at one host and port with different credentials.
Collides(data, l) ==
    l \in Logins /\ \E k \in LoginsOf(data) : k # l /\ Nexthop(k) = Nexthop(l)

\* Apply returns an error: the request ends, with a warning for the admin.
Fail(w) ==
    /\ Goto(w, "idle")
    /\ req' = [req EXCEPT ![w] = NoRequest]
    /\ view' = [view EXCEPT ![w] = Fresh]
    /\ found' = [found EXCEPT ![w] = Start]
    /\ files' = [files EXCEPT ![w] = {}]
    /\ orderly' = FALSE
    /\ aborted' = TRUE
    /\ UNCHANGED <<database, output, kept, late, counters>>

\* Build lists the domains.
ListDomains(w) ==
    /\ pc[w] = "apply"
    /\ Goto(w, "global")
    /\ req' = [req EXCEPT ![w] = NoRequest]
    /\ view' = [view EXCEPT ![w] = Data(Direct, Fresh.route, live)]
    /\ kept' = [kept EXCEPT ![w] = InRelayMode(policy, live)]
    /\ found' = [found EXCEPT ![w] = Start]
    /\ orderly' = Others(w)
    /\ UNCHANGED <<database, output, files, late, aborted, counters>>

\* The decision for a scope: the default transport, a domain's own line (refused
\* when its login collides), or no line for a domain that inherits; what the
\* global policy resolves to for that domain is only checked.
Placed(data, s, source, route) ==
    IF s = Global THEN Data(route, data.route, data.todo)
    ELSE Data(data.default,
              [data.route EXCEPT ![s] = IF source = "domain" THEN route ELSE Inherit],
              data.todo \ {s})

Settle(w, s, source, route) ==
    LET refused == source = "domain" /\ Collides(view[w], route)
    IN  \/ refused /\ Fail(w)
        \/ /\ ~ refused
           /\ view' = [view EXCEPT ![w] = Placed(view[w], s, source, route)]
           /\ found' = [found EXCEPT ![w] = Start]
           /\ Goto(w, "domains")
           /\ UNCHANGED <<database, output, req, files, history, counters>>

LookUp(w, s, source, relay) ==
    /\ found' = [found EXCEPT ![w] = Resolving(s, source, relay)]
    /\ Goto(w, "relay")
    /\ UNCHANGED <<database, output, req, view, files, history, counters>>

MaterializeUnlessNull(w, s, source, p) ==   \* a policy that lost its relay: direct
    \/ (p.mode # "relay" \/ p.relay = Null) /\ Settle(w, s, source, Direct)
    \/ p.mode = "relay" /\ p.relay # Null /\ LookUp(w, s, source, p.relay)

\* materialize: a relay is selected, and looked up in a query of its own.
Materialize(w, s, source, p) ==
    \/ p.mode # "relay" /\ Settle(w, s, source, Direct)
    \/ p.mode = "relay" /\ p.relay = Null /\ Fail(w)
    \/ p.mode = "relay" /\ p.relay # Null /\ LookUp(w, s, source, p.relay)

GetRelay(w) ==
    LET f == found[w]
    IN  /\ pc[w] = "relay"
        /\ \/ ~ relays[f.relay].enabled /\ Fail(w)
           \/ /\ relays[f.relay].enabled
              /\ Settle(w, f.scope, f.source, relays[f.relay].login)

\* ResolveGlobal: first for the default transport, then once more for every
\* domain that inherits.
ResolveGlobal(w) ==
    /\ pc[w] = "global"
    /\ Materialize(w, found[w].scope, "global", policy[Global])

\* ResolveForDomain: the domain's own policy.  No row, "inherit", and any error of
\* the query all go on to the global policy.
Overrides(d) == policy[d].mode \in {"direct", "relay"}

FallThrough(w, d) ==
    /\ found' = [found EXCEPT ![w] = Resolving(d, "global", Null)]
    /\ Goto(w, "global")
    /\ UNCHANGED <<database, output, req, view, files, late, aborted, counters>>

ResolveForDomain(w, d) ==
    /\ pc[w] = "domains"
    /\ d \in view[w].todo
    /\ \/ Overrides(d) /\ Materialize(w, d, "domain", policy[d])
       \/ ~ Overrides(d) /\ FallThrough(w, d) /\ UNCHANGED <<kept, orderly>>
       \/ /\ Overrides(d)
          /\ FallThrough(w, d)
          /\ kept' = [kept EXCEPT ![w] = kept[w] \ {d}]
          /\ orderly' = FALSE

\* Another query fails (the admin's connection has gone and its context with it),
\* or a relay's password does not decrypt.
BuildFails(w) == pc[w] \in {"apply", "global", "relay", "domains"} /\ Fail(w)

\* ... then rendering in memory, then the files in no particular order ...
Render(w) ==
    /\ pc[w] = "domains"
    /\ view[w].todo = {}
    /\ Goto(w, "write")
    /\ files' = [files EXCEPT ![w] = Files]
    /\ UNCHANGED <<database, output, req, view, found, history, counters>>

Write(w, f) ==
    /\ pc[w] = "write"
    /\ f \in files[w]
    /\ disk' = [disk EXCEPT ![f] = view[w]]
    /\ files' = [files EXCEPT ![w] = files[w] \ {f}]
    /\ UNCHANGED <<database, loaded, pc, req, view, found, history, counters>>

WriteFails(w) ==
    /\ pc[w] = "write"
    /\ files[w] # {}
    /\ Fail(w)

ReloadUnlessBusy(w) ==      \* left to another request, if one is being served
    /\ pc[w] = "write"
    /\ files[w] = {}
    /\ loaded' = IF Others(w) THEN disk ELSE loaded
    /\ aborted' = (aborted /\ ~ orderly)
    /\ pc' = [pc EXCEPT ![w] = "idle"]
    /\ view' = [view EXCEPT ![w] = Fresh]
    /\ UNCHANGED <<database, disk, req, found, files, kept, late, orderly, counters>>

\* ... and the reload last.
Reload(w) ==
    /\ pc[w] = "write"
    /\ files[w] = {}
    /\ loaded' = disk
    /\ aborted' = (aborted /\ ~ orderly)
    /\ Goto(w, "idle")
    /\ view' = [view EXCEPT ![w] = Fresh]
    /\ UNCHANGED <<database, disk, req, found, files, kept, late, orderly, counters>>

\* One of the services does not reload; Postfix may have.
ReloadFails(w) ==
    /\ pc[w] = "write"
    /\ files[w] = {}
    /\ loaded' \in {loaded, disk}
    /\ Goto(w, "idle")
    /\ view' = [view EXCEPT ![w] = Fresh]
    /\ orderly' = FALSE
    /\ aborted' = TRUE
    /\ UNCHANGED <<database, disk, req, found, files, kept, late, counters>>

Apply(w) ==
    \/ ListDomains(w) \/ ResolveGlobal(w) \/ GetRelay(w)
    \/ \E d \in Domains : ResolveForDomain(w, d)
    \/ BuildFails(w) \/ Render(w)
    \/ \E f \in Files : Write(w, f)
    \/ WriteFails(w) \/ Reload(w) \/ ReloadFails(w)

\* The daemon dies: requests are lost, the database and the files stay.  It does
\* not regenerate anything when it starts again.
Crash ==
    /\ crashes < MaxCrashes
    /\ crashes' = crashes + 1
    /\ pc' = [w \in Admins |-> "idle"]
    /\ req' = [w \in Admins |-> NoRequest]
    /\ view' = [w \in Admins |-> Fresh]
    /\ found' = [w \in Admins |-> Start]
    /\ files' = [w \in Admins |-> {}]
    /\ kept' = [w \in Admins |-> {}]
    /\ late' = [w \in Admins |-> {}]
    /\ orderly' = FALSE
    /\ aborted' = TRUE
    /\ UNCHANGED <<database, output, requests>>

Next ==
    \/ \E w \in Admins : Request(w) \/ Statement(w) \/ Rejected(w) \/ Apply(w)
    \/ Crash

Spec == Init /\ [][Next]_vars

--------------------------------------------------------------------------------
(* Properties.                                                              *)

Modes    == {"none", "inherit", "direct", "relay"}
Policies == [mode : Modes, relay : Relays \cup {Null}]
Datas    == [default : Routes, route : [Domains -> Routes], todo : SUBSET Domains]
Asked    == [scope : Scopes, mode : Modes, relay : Relays \cup {Null},
             row : Rows \cup {NoRelay}]
Steps    == [scope : Scopes, source : {"domain", "global"}, relay : Relays \cup {Null}]
PCs      == Statements \cup {"idle", "apply", "global", "relay", "domains", "write"}

TypeOK ==
    /\ live \subseteq Domains
    /\ relays \in [Relays -> Rows \cup {NoRelay}]
    /\ policy \in [Scopes -> Policies]
    /\ spent \subseteq Domains \cup Relays
    /\ disk \in [Files -> Datas]
    /\ loaded \in [Files -> Datas]
    /\ pc \in [Admins -> PCs]
    /\ req \in [Admins -> Asked]
    /\ view \in [Admins -> Datas]
    /\ found \in [Admins -> Steps]
    /\ files \in [Admins -> SUBSET Files]
    /\ kept \in [Admins -> SUBSET Scopes]
    /\ late \in [Admins -> SUBSET Scopes]
    /\ orderly \in BOOLEAN
    /\ aborted \in BOOLEAN
    /\ requests \in Nat
    /\ crashes \in Nat

Quiet == \A w \in Admins : pc[w] = "idle"

\* The route of a domain in a set of files: its own line, or the default.
Routed(fs, d) ==
    IF fs["sender_transport"].route[d] # Inherit THEN fs["sender_transport"].route[d]
                                                 ELSE fs["main.cf"].default

\* The route the database asks for.
Effective(d) == IF Overrides(d) THEN RouteOf(policy[d]) ELSE RouteOf(policy[Global])

\* No policy names a relay that is gone, whatever passes between SetPolicy's
\* look at the relay and its INSERT, or between DeleteRelay's count and delete.
PoliciesNameRelays ==
    \A s \in Scopes : policy[s].relay # Null => relays[policy[s].relay] # NoRelay

\* A scope that has been in relay mode from the first query of an Apply to its
\* last, and whose policy the Apply could read, is published with a relay, never
\* as direct: a relay deleted, disabled or lost to SET NULL between any two of its
\* queries stops the Apply instead.  What happens to a policy it could not read is
\* what NeverFallsBack asks.
RelayModeIsHonoured ==
    \A w \in Admins : pc[w] = "write" =>
        /\ Global \in kept[w] => view[w].default \in Logins
        /\ \A d \in kept[w] \ {Global} : view[w].route[d] \in Logins

\* "wispbox never silently falls back from relay to direct": what an Apply that no
\* other request overlaps goes on to write sends the mail of a domain in relay
\* mode through a relay.
NeverFallsBack ==
    \A w \in Admins : pc[w] = "write" /\ Others(w) =>
        \A d \in live : policy[d].mode = "relay" => view[w].route[d] \in Logins

\* Once everything is quiet, Postfix runs on what is on disk, however the writes
\* and reloads of several Applies were interleaved, unless one failed.
LoadedIsOnDisk == (Quiet /\ ~ aborted) => loaded = disk

\* Requests served one after the other, each reading what it asked for, leave the
\* configuration the database asks for, in every file.
OrderlyIsCurrent ==
    (Quiet /\ orderly) =>
        \A d \in live : /\ Routed(disk, d) = Effective(d)
                        /\ Effective(d) \in Logins =>
                              Effective(d) \in LoginsOf(disk["sasl_passwd"])

\* DeleteRelay refuses a relay that a policy uses: however requests overlap, a
\* policy in relay mode loses its relay to SET NULL only when it was given the relay
\* after the deletion had counted the relay's users.
RelayInUseStays ==
    [][\A s \in Scopes :
          (policy[s].relay # Null /\ policy'[s] = [mode |-> "relay", relay |-> Null])
             => \E w \in Admins : /\ pc[w] = "delete relay" /\ pc'[w] # pc[w]
                                 /\ s \in late[w]]_vars

\* sasl_passwd is keyed by host and port: it never holds two logins for one, so
\* no relay is sent another relay's credentials.
Apart(data) == \A k, l \in LoginsOf(data) : Nexthop(k) = Nexthop(l) => k = l

OneLoginPerNexthop == Apart(disk["sasl_passwd"])

--------------------------------------------------------------------------------
(* Why they hold: the inductive invariant of the proofs.                    *)

\* SaveRelay only ever stores a validated row.
SavesRows == \A w \in Admins : pc[w] \in {"insert relay", "update relay"} =>
                                 req[w].row \in Rows

\* The scopes observed since Build began are still in relay mode, and those
\* already resolved have a relay's route.
KeptIsCurrent == \A w \in Admins : kept[w] \subseteq InRelayMode(policy, live)

\* Still to be decided: the scope w is in the middle of resolving.
Deciding(w, s) == pc[w] \in {"global", "relay"} /\ found[w].scope = s

Resolved(w) ==
    /\ pc[w] \in {"global", "relay", "domains", "write"} =>
         /\ Global \in kept[w] => Deciding(w, Global) \/ view[w].default \in Logins
         /\ \A d \in kept[w] \ {Global} : d \in view[w].todo \/ view[w].route[d] \in Logins
    /\ \A d \in kept[w] \ {Global} : Deciding(w, d) => found[w].source = "domain"
    /\ pc[w] = "global" => found[w].source = "global"
    /\ pc[w] = "relay" => found[w].relay \in Relays
    /\ pc[w] = "write" => view[w].todo = {}

ResolvedSoFar == \A w \in Admins : Resolved(w)

\* Between its first write and its reload an Apply is about to load the disk.
Publishing(w) == pc[w] = "write" /\ files[w] # Files

LoadedOrLoading ==
    (~ aborted /\ \A w \in Admins : ~ Publishing(w)) => loaded = disk

\* Build checks each login against those it has gathered so far.
LoginsApart ==
    /\ \A w \in Admins : /\ Apart(view[w])
                         /\ Deciding(w, Global) => view[w].route = Fresh.route
    /\ \A f \in Files : Apart(disk[f])

\* A policy that uses the relay w is about to delete got it after w's count.
UsersAreLate ==
    \A w \in Admins : pc[w] = "delete relay" =>
        \A s \in Scopes : policy[s].relay = req[w].relay => s \in late[w]
================================================================================
