--------------------------- MODULE ConfigApply_proofs ---------------------------
(***************************************************************************)
(* Proofs about the delivery policies and Generator.Apply, for any number  *)
(* of domains, relays and concurrent requests, any crashes and any bound   *)
(* on requests.                                                            *)
(***************************************************************************)
EXTENDS ConfigApply, TLAPS

--------------------------------------------------------------------------------
(* The shapes of the steps.                                                 *)

\* What a request that is over, and one not started, leave behind.
LEMMA Blank == Fresh \in Datas /\ NoRequest \in Asked /\ Start \in Steps
<1>1. Fresh \in Datas
  BY DEF Fresh, Data, Datas, Routes
<1>2. NoRequest \in Asked
  BY DEF NoRequest, Asked, Scopes, Modes
<1>3. Start \in Steps
  BY DEF Start, Resolving, Steps, Scopes
<1>4. QED
  BY <1>1, <1>2, <1>3

\* A request arrives well formed: a row to save is a validated one, a policy in
\* relay mode names a relay, and no request starts at the second statement of a
\* deletion.
Begun(w) ==
    \E l \in (Statements \cup {"apply"}) \ {"delete relay"}, r \in Asked :
        /\ l \in {"insert relay", "update relay"} => r.row \in Rows
        /\ r.mode = "relay" => r.relay # Null
        /\ Begin(w, l, r)

LEMMA Requested ==
  ASSUME NEW w \in Admins, Request(w)
  PROVE  Begun(w)
<1>1. NoRequest \in Asked /\ NoRequest.mode = "none"
  BY Blank DEF NoRequest
<1>2. CASE Begin(w, "create", NoRequest) \/ Begin(w, "apply", NoRequest)
  BY <1>1, <1>2 DEF Begun, Statements
<1>3. ASSUME NEW r \in Rows, NEW x \in Relays \cup {Null},
             NEW l \in {"insert relay", "update relay"},
             Begin(w, l, Ask(Global, "none", x, r))
      PROVE  Begun(w)
  <2>1. /\ Ask(Global, "none", x, r) \in Asked
        /\ Ask(Global, "none", x, r).row \in Rows
        /\ Ask(Global, "none", x, r).mode = "none"
    BY DEF Ask, Asked, Scopes, Modes
  <2>2. l \in (Statements \cup {"apply"}) \ {"delete relay"}
    BY DEF Statements
  <2>3. QED
    BY <1>3, <2>1, <2>2 DEF Begun
<1>4. ASSUME NEW s \in Scopes, NEW m \in Modes, NEW x \in Relays \cup {Null},
             m = "relay" => x # Null,
             NEW l \in {"delete", "count policies", "check scope", "delete policy"},
             Begin(w, l, Ask(s, m, x, NoRelay))
      PROVE  Begun(w)
  <2>1. /\ Ask(s, m, x, NoRelay) \in Asked
        /\ Ask(s, m, x, NoRelay).mode = m /\ Ask(s, m, x, NoRelay).relay = x
    BY DEF Ask, Asked
  <2>2. /\ l \in (Statements \cup {"apply"}) \ {"delete relay"}
        /\ l \notin {"insert relay", "update relay"}
    BY DEF Statements
  <2>3. QED
    BY <1>4, <2>1, <2>2 DEF Begun
<1>5. /\ \A x \in Relays : x # Null
      /\ \A d \in Domains : d \in Scopes
      /\ Global \in Scopes
      /\ {"none", "direct", "inherit", "relay"} \subseteq Modes
  BY NullAssumption DEF Scopes, Modes
<1>6. QED
  BY <1>2, <1>3, <1>4, <1>5 DEF Request

\* A statement moves only the request that executes it, to its next statement or
\* on to Apply.
LEMMA StatementShape ==
  ASSUME TypeOK, NEW w \in Admins, Statement(w)
  PROVE  /\ StatementFrame
         /\ pc[w] \in Statements /\ pc'[w] \in Statements \cup {"apply"}
         /\ \A v \in Admins \ {w} : pc'[v] = pc[v]
         /\ pc' \in [Admins -> PCs]
<1>1. CASE \/ CreateDomain(w) \/ DeleteDomain(w) \/ CreateRelay(w) \/ UpdateRelay(w)
           \/ DeleteRelay(w) \/ UpsertPolicy(w) \/ DeletePolicy(w)
  <2>1. StatementFrame /\ pc[w] \in Statements /\ pc' = [pc EXCEPT ![w] = "apply"]
    BY <1>1 DEF CreateDomain, DeleteDomain, CreateRelay, UpdateRelay, DeleteRelay,
                UpsertPolicy, DeletePolicy, Goto, Statements
  <2>2. QED
    BY <2>1 DEF TypeOK, PCs
<1>2. CASE CountPolicies(w) \/ CheckScope(w) \/ CheckRelay(w)
  <2>1. /\ StatementFrame /\ pc[w] \in Statements
        /\ \E l \in Statements : pc' = [pc EXCEPT ![w] = l]
    BY <1>2 DEF CountPolicies, CheckScope, CheckRelay, Goto, Statements
  <2>2. QED
    BY <2>1 DEF TypeOK, PCs
<1>3. QED
  BY <1>1, <1>2 DEF Statement

\* The steps that only end a request: refused, failed or reloaded.
Ends(w) == Rejected(w) \/ BuildFails(w) \/ WriteFails(w) \/ Reload(w) \/ ReloadFails(w)

LEMMA EndsShape ==
  ASSUME TypeOK, NEW w \in Admins, Ends(w) \/ Fail(w)
  PROVE  /\ pc'[w] = "idle" /\ \A v \in Admins \ {w} : pc'[v] = pc[v]
         /\ UNCHANGED <<database, disk, kept, counters>>
         /\ \A v \in Admins \ {w} : /\ view'[v] = view[v] /\ found'[v] = found[v]
                                    /\ files'[v] = files[v] /\ late'[v] = late[v]
                                    /\ req'[v] = req[v]
         /\ view'[w] \in {view[w], Fresh}
         /\ TypeOK'
<1>1. CASE Rejected(w)
  <2>1. /\ pc' = [pc EXCEPT ![w] = "idle"] /\ req' = [req EXCEPT ![w] = NoRequest]
        /\ late' = [late EXCEPT ![w] = {}] /\ pc[w] \in Statements
        /\ UNCHANGED <<database, output, view, found, files, kept, orderly, aborted, counters>>
    BY <1>1 DEF Rejected, Refuse
  <2>2. TypeOK'
    BY <2>1, Blank DEF TypeOK, PCs, database, output, counters
  <2>3. QED
    BY <2>1, <2>2 DEF TypeOK, output
<1>2. CASE Fail(w) \/ BuildFails(w) \/ WriteFails(w)
  <2>1. Fail(w)
    BY <1>2 DEF BuildFails, WriteFails
  <2>2. TypeOK'
    BY <2>1, Blank DEF Fail, Goto, TypeOK, PCs, database, output, counters
  <2>3. QED
    BY <2>1, <2>2 DEF Fail, Goto, TypeOK, output
<1>3. CASE Reload(w) \/ ReloadFails(w)
  <2>1. /\ pc' = [pc EXCEPT ![w] = "idle"] /\ view' = [view EXCEPT ![w] = Fresh]
        /\ UNCHANGED <<database, disk, req, found, files, kept, late, counters>>
    BY <1>3 DEF Reload, ReloadFails, Goto
  <2>2. loaded' \in [Files -> Datas] /\ orderly' \in BOOLEAN /\ aborted' \in BOOLEAN
    BY <1>3 DEF Reload, ReloadFails, TypeOK
  <2>3. TypeOK'
    BY <2>1, <2>2, Blank DEF TypeOK, PCs, database, counters
  <2>4. QED
    BY <2>1, <2>3 DEF TypeOK
<1>4. QED
  BY <1>1, <1>2, <1>3 DEF Ends

--------------------------------------------------------------------------------
(* The queries of Build.                                                    *)

Resolve(w) ==
    ResolveGlobal(w) \/ GetRelay(w) \/ \E d \in Domains : ResolveForDomain(w, d)

\* The scope whose policy decides for s: its own, or the default.
Decider(s, source) == IF source = "domain" THEN s ELSE Global

\* What w is resolving when it asks its next question.
Considers(w, s, source) ==
    \/ pc[w] = "global" /\ s = found[w].scope /\ source = "global"
    \/ pc[w] = "relay" /\ s = found[w].scope /\ source = found[w].source
    \/ /\ pc[w] = "domains" /\ s \in Domains /\ s \in view[w].todo
       /\ Overrides(s) /\ source = "domain"

\* A route is decided: a relay's login, or direct when the policy says no relay.
Decided(w, s, source, route) ==
    \/ pc[w] = "relay" /\ route = relays[found[w].relay].login /\ route \in Logins
    \/ pc[w] # "relay" /\ route = Direct /\ policy[Decider(s, source)].mode # "relay"

Settles(w, s, source, route) ==
    /\ ~ (source = "domain" /\ Collides(view[w], route))
    /\ view' = [view EXCEPT ![w] = Placed(view[w], s, source, route)]
    /\ found' = [found EXCEPT ![w] = Start]
    /\ Goto(w, "domains")
    /\ UNCHANGED <<database, output, req, files, history, counters>>

\* A policy whose query failed, or that leaves the decision to the global one.
Passes(w, d) ==
    /\ pc[w] = "domains" /\ d \in view[w].todo
    /\ FallThrough(w, d)
    /\ \/ ~ Overrides(d) /\ UNCHANGED <<kept, orderly>>
       \/ kept' = [kept EXCEPT ![w] = kept[w] \ {d}] /\ orderly' = FALSE

Materializes(w, s, source) ==
    LET p == policy[Decider(s, source)]
    IN  /\ p.mode = "relay" /\ p.relay \in Relays
        /\ LookUp(w, s, source, p.relay)

\* Every query of Build ends it, settles a scope, finds a relay to look up, or
\* passes on to the global policy.
LEMMA Outcomes ==
  ASSUME TypeOK, ResolvedSoFar, NEW w \in Admins, Resolve(w)
  PROVE  /\ pc[w] \in {"global", "relay", "domains"}
         /\ \/ Fail(w)
            \/ \E s \in Scopes, source \in {"domain", "global"}, route \in Logins \cup {Direct} :
                  Considers(w, s, source) /\ Decided(w, s, source, route)
                     /\ Settles(w, s, source, route)
            \/ \E s \in Scopes, source \in {"domain", "global"} :
                  Considers(w, s, source) /\ Materializes(w, s, source)
            \/ \E d \in Domains : Passes(w, d)
<1>1. /\ found[w].scope \in Scopes /\ found[w].source \in {"domain", "global"}
      /\ \A s \in Scopes : policy[s].relay \in Relays \cup {Null}
      /\ Global \in Scopes /\ \A d \in Domains : d \in Scopes
  BY DEF TypeOK, Steps, Policies, Scopes
<1>2. ASSUME NEW s \in Scopes, NEW source \in {"domain", "global"}, pc[w] # "relay",
             Considers(w, s, source), Materialize(w, s, source, policy[Decider(s, source)])
      PROVE  \/ Fail(w)
             \/ Decided(w, s, source, Direct) /\ Settles(w, s, source, Direct)
             \/ Materializes(w, s, source)
  <2>1. policy[Decider(s, source)].relay \in Relays \cup {Null}
    BY <1>1 DEF Decider
  <2>2. QED
    BY <1>2, <2>1 DEF Materialize, Settle, Settles, Decided, Materializes
<1>3. CASE ResolveGlobal(w)
  <2>1. /\ pc[w] = "global" /\ Considers(w, found[w].scope, "global")
        /\ Materialize(w, found[w].scope, "global", policy[Decider(found[w].scope, "global")])
    BY <1>3 DEF ResolveGlobal, Considers, Decider
  <2>2. QED
    BY <1>1, <1>2, <2>1
<1>4. CASE GetRelay(w)
  <2>1. pc[w] = "relay" /\ Considers(w, found[w].scope, found[w].source)
    BY <1>4 DEF GetRelay, Considers
  <2>2. CASE ~ relays[found[w].relay].enabled
    BY <1>4, <2>1, <2>2 DEF GetRelay
  <2>3. CASE relays[found[w].relay].enabled
    <3>1. found[w].relay \in Relays
      BY <2>1 DEF ResolvedSoFar, Resolved
    <3>2. relays[found[w].relay].login \in Logins
      BY <2>3, <3>1 DEF TypeOK, Rows, NoRelay
    <3>3. Settle(w, found[w].scope, found[w].source, relays[found[w].relay].login)
      BY <1>4, <2>3 DEF GetRelay
    <3>4. \/ Fail(w)
          \/ /\ Decided(w, found[w].scope, found[w].source, relays[found[w].relay].login)
             /\ Settles(w, found[w].scope, found[w].source, relays[found[w].relay].login)
      BY <2>1, <3>2, <3>3 DEF Settle, Settles, Decided
    <3>5. QED
      BY <1>1, <2>1, <3>2, <3>4
  <2>4. QED
    BY <2>2, <2>3
<1>5. ASSUME NEW d \in Domains, ResolveForDomain(w, d)
      PROVE  /\ pc[w] = "domains"
             /\ \/ Fail(w)
                \/ \E s \in Scopes, source \in {"domain", "global"}, route \in Logins \cup {Direct} :
                      Considers(w, s, source) /\ Decided(w, s, source, route)
                         /\ Settles(w, s, source, route)
                \/ \E s \in Scopes, source \in {"domain", "global"} :
                      Considers(w, s, source) /\ Materializes(w, s, source)
                \/ Passes(w, d)
  <2>1. pc[w] = "domains" /\ d \in view[w].todo
    BY <1>5 DEF ResolveForDomain
  <2>2. CASE Overrides(d) /\ Materialize(w, d, "domain", policy[d])
    <3>1. Considers(w, d, "domain") /\ Decider(d, "domain") = d
      BY <2>1, <2>2 DEF Considers, Decider
    <3>2. QED
      BY <1>1, <1>2, <2>1, <2>2, <3>1
  <2>3. CASE /\ FallThrough(w, d)
             /\ \/ ~ Overrides(d) /\ UNCHANGED <<kept, orderly>>
                \/ kept' = [kept EXCEPT ![w] = kept[w] \ {d}] /\ orderly' = FALSE
    BY <2>1, <2>3 DEF Passes
  <2>4. QED
    BY <1>5, <2>1, <2>2, <2>3 DEF ResolveForDomain
<1>6. QED
  BY <1>3, <1>4, <1>5 DEF Resolve

\* What a query leaves alone.
LEMMA ResolveShape ==
  ASSUME TypeOK, ResolvedSoFar, NEW w \in Admins, Resolve(w), ~ Fail(w)
  PROVE  /\ pc[w] \in {"global", "relay", "domains"}
         /\ pc'[w] \in {"global", "relay", "domains"}
         /\ UNCHANGED <<database, output, req, files, late, aborted, counters>>
         /\ kept'[w] \subseteq kept[w]
         /\ orderly' \in {orderly, FALSE}
         /\ \A v \in Admins \ {w} : /\ pc'[v] = pc[v] /\ view'[v] = view[v]
                                    /\ found'[v] = found[v] /\ kept'[v] = kept[v]
         /\ TypeOK'
<1>1. pc[w] \in {"global", "relay", "domains"}
  BY Outcomes
<1>2. ASSUME NEW s \in Scopes, NEW source \in {"domain", "global"},
             NEW route \in Logins \cup {Direct}, Settles(w, s, source, route)
      PROVE  /\ pc'[w] = "domains" /\ history' = history
             /\ UNCHANGED <<database, output, req, files, counters>>
             /\ \A v \in Admins \ {w} : /\ pc'[v] = pc[v] /\ view'[v] = view[v]
                                        /\ found'[v] = found[v]
             /\ TypeOK'
  <2>1. Placed(view[w], s, source, route) \in Datas
    BY DEF Placed, Data, Datas, TypeOK, Routes, Scopes
  <2>2. /\ view' = [view EXCEPT ![w] = Placed(view[w], s, source, route)]
        /\ found' = [found EXCEPT ![w] = Start] /\ pc' = [pc EXCEPT ![w] = "domains"]
        /\ UNCHANGED <<database, output, req, files, history, counters>>
    BY <1>2 DEF Settles, Goto
  <2>3. TypeOK'
    BY <2>1, <2>2, Blank DEF TypeOK, PCs, database, output, history, counters
  <2>4. QED
    BY <2>2, <2>3 DEF TypeOK
<1>3. ASSUME NEW s \in Scopes, NEW source \in {"domain", "global"}, Materializes(w, s, source)
      PROVE  /\ pc'[w] = "relay" /\ history' = history
             /\ UNCHANGED <<database, output, req, files, counters>>
             /\ \A v \in Admins \ {w} : /\ pc'[v] = pc[v] /\ view'[v] = view[v]
                                        /\ found'[v] = found[v]
             /\ TypeOK'
  <2> DEFINE x == policy[Decider(s, source)].relay
  <2>1. Resolving(s, source, x) \in Steps
    BY <1>3 DEF Resolving, Steps, Materializes
  <2>2. /\ view' = view
        /\ found' = [found EXCEPT ![w] = Resolving(s, source, x)]
        /\ pc' = [pc EXCEPT ![w] = "relay"]
        /\ UNCHANGED <<database, output, req, files, history, counters>>
    BY <1>3 DEF Materializes, LookUp, Goto
  <2>3. TypeOK'
    BY <2>1, <2>2 DEF TypeOK, PCs, database, output, history, counters
  <2>4. QED
    BY <2>2, <2>3 DEF TypeOK
<1>4. ASSUME NEW d \in Domains, Passes(w, d)
      PROVE  /\ pc'[w] = "global"
             /\ UNCHANGED <<database, output, req, files, late, aborted, counters>>
             /\ kept'[w] \subseteq kept[w] /\ orderly' \in {orderly, FALSE}
             /\ \A v \in Admins \ {w} : /\ pc'[v] = pc[v] /\ view'[v] = view[v]
                                        /\ found'[v] = found[v] /\ kept'[v] = kept[v]
             /\ TypeOK'
  <2>1. Resolving(d, "global", Null) \in Steps
    BY DEF Resolving, Steps, Scopes
  <2>2. /\ view' = view
        /\ found' = [found EXCEPT ![w] = Resolving(d, "global", Null)]
        /\ pc' = [pc EXCEPT ![w] = "global"]
        /\ UNCHANGED <<database, output, req, files, late, aborted, counters>>
    BY <1>4 DEF Passes, FallThrough, Goto
  <2>3. /\ kept' \in [Admins -> SUBSET Scopes] /\ orderly' \in BOOLEAN
        /\ kept'[w] \subseteq kept[w] /\ orderly' \in {orderly, FALSE}
        /\ \A v \in Admins \ {w} : kept'[v] = kept[v]
    BY <1>4 DEF Passes, TypeOK
  <2>4. TypeOK'
    BY <2>1, <2>2, <2>3 DEF TypeOK, PCs, database, output, counters
  <2>5. QED
    BY <2>2, <2>3, <2>4 DEF TypeOK
<1>5. QED
  BY <1>1, <1>2, <1>3, <1>4, Outcomes DEF history

--------------------------------------------------------------------------------
(* Types.                                                                   *)

\* What a statement writes into the database has the type of the database.
LEMMA DatabaseType ==
  ASSUME TypeOK, NEW w \in Admins, Statement(w)
  PROVE  /\ live' \subseteq Domains /\ relays' \in [Relays -> Rows \cup {NoRelay}]
         /\ policy' \in [Scopes -> Policies] /\ spent' \subseteq Domains \cup Relays
<1>1. req[w] \in Asked
  BY DEF TypeOK
<1>2. CASE CreateDomain(w) \/ DeleteDomain(w)
  BY <1>2 DEF CreateDomain, DeleteDomain, TypeOK
<1>3. CASE CreateRelay(w) \/ UpdateRelay(w)
  BY <1>1, <1>3 DEF CreateRelay, UpdateRelay, Asked, TypeOK
<1>4. CASE DeleteRelay(w)
  BY <1>4 DEF DeleteRelay, Policies, TypeOK
<1>5. CASE UpsertPolicy(w)
  BY <1>1, <1>5 DEF UpsertPolicy, Asked, Policies, TypeOK
<1>6. CASE DeletePolicy(w)
  BY <1>6 DEF DeletePolicy, NoPolicy, Policies, Modes, TypeOK
<1>7. CASE CountPolicies(w) \/ CheckScope(w) \/ CheckRelay(w)
  BY <1>7 DEF CountPolicies, CheckScope, CheckRelay, database, TypeOK
<1>8. QED
  BY <1>2, <1>3, <1>4, <1>5, <1>6, <1>7 DEF Statement

\* Every step keeps the types; only an enabled relay's login becomes a route.
LEMMA TypeStep ==
  ASSUME TypeOK, ResolvedSoFar, [Next]_vars
  PROVE  TypeOK'
<1>1. ASSUME NEW w \in Admins, Begun(w)
      PROVE  TypeOK'
  <2>1. PICK l \in Statements \cup {"apply"}, r \in Asked : Begin(w, l, r)
    BY <1>1 DEF Begun
  <2>2. pc' \in [Admins -> PCs] /\ req' \in [Admins -> Asked]
    BY <2>1 DEF Begin, Goto, PCs, TypeOK
  <2>3. requests' \in Nat /\ orderly' \in BOOLEAN
    BY <2>1 DEF Begin, TypeOK
  <2>4. QED
    BY <2>1, <2>2, <2>3 DEF Begin, TypeOK, database, output
<1>2. ASSUME NEW w \in Admins, Statement(w)
      PROVE  TypeOK'
  <2>1. StatementFrame /\ pc' \in [Admins -> PCs]
    BY <1>2, StatementShape
  <2>2. kept' \in [Admins -> SUBSET Scopes] /\ late' \in [Admins -> SUBSET Scopes]
    <3>1. \A v \in Admins : kept[v] \subseteq Scopes /\ late[v] \subseteq Scopes
                              /\ GivenLate(v) \subseteq Scopes
      BY DEF TypeOK, GivenLate
    <3>2. QED
      BY <2>1, <3>1 DEF StatementFrame
  <2>3. QED
    BY <1>2, <2>1, <2>2, DatabaseType DEF StatementFrame, TypeOK, output, counters
<1>3. ASSUME NEW w \in Admins, Ends(w)
      PROVE  TypeOK'
  BY <1>3, EndsShape
<1>4. ASSUME NEW w \in Admins, ListDomains(w)
      PROVE  TypeOK'
  <2>1. orderly' \in BOOLEAN
    BY <1>4 DEF ListDomains, Others
  <2>2. Data(Direct, Fresh.route, live) \in Datas
    BY Blank DEF TypeOK, Data, Datas, Routes
  <2>3. InRelayMode(policy, live) \in SUBSET Scopes
    BY DEF TypeOK, InRelayMode, Scopes
  <2>4. QED
    BY <1>4, <2>1, <2>2, <2>3, Blank
      DEF ListDomains, Goto, TypeOK, PCs, database, output, counters
<1>5. ASSUME NEW w \in Admins, Resolve(w)
      PROVE  TypeOK'
  BY <1>5, ResolveShape, EndsShape
<1>6. ASSUME NEW w \in Admins, Render(w)
      PROVE  TypeOK'
  BY <1>6 DEF Render, Goto, TypeOK, PCs, database, output, history, counters
<1>7. ASSUME NEW w \in Admins, NEW f \in Files, Write(w, f)
      PROVE  TypeOK'
  BY <1>7 DEF Write, TypeOK, database, history, counters
<1>8. CASE Crash
  <2>1. {} \in SUBSET Files /\ {} \in SUBSET Scopes
    OBVIOUS
  <2>2. /\ pc' \in [Admins -> PCs] /\ req' \in [Admins -> Asked]
        /\ view' \in [Admins -> Datas] /\ found' \in [Admins -> Steps]
        /\ files' \in [Admins -> SUBSET Files] /\ kept' \in [Admins -> SUBSET Scopes]
        /\ late' \in [Admins -> SUBSET Scopes]
    BY <1>8, <2>1, Blank DEF Crash, PCs
  <2>3. crashes' \in Nat
    <3>1. crashes' = crashes + 1
      BY <1>8 DEF Crash
    <3>2. QED
      BY <3>1 DEF TypeOK
  <2>4. QED
    BY <1>8, <2>2, <2>3 DEF Crash, TypeOK, database, output
<1>9. CASE UNCHANGED vars
  BY <1>9 DEF vars, TypeOK, database, output, history, counters
<1>10. QED
  BY <1>1, <1>2, <1>3, <1>4, <1>5, <1>6, <1>7, <1>8, <1>9, Requested
     DEF Next, Apply, Ends, Resolve

--------------------------------------------------------------------------------
(* The rows and the policies.                                               *)

\* A relay request carries the validated row it was asked to store.
LEMMA SavesRowsStep ==
  ASSUME TypeOK, ResolvedSoFar, SavesRows, [Next]_vars
  PROVE  SavesRows'
<1>1. ASSUME NEW w \in Admins, Begun(w)
      PROVE  SavesRows'
  BY <1>1 DEF Begun, Begin, Goto, TypeOK, SavesRows
<1>2. ASSUME NEW w \in Admins, Statement(w)
      PROVE  SavesRows'
  <2>1. req' = req /\ \A v \in Admins \ {w} : pc'[v] = pc[v]
    BY <1>2, StatementShape DEF StatementFrame
  <2>2. pc'[w] \notin {"insert relay", "update relay"}
    BY <1>2 DEF Statement, CreateDomain, DeleteDomain, CreateRelay, UpdateRelay,
                CountPolicies, DeleteRelay, CheckScope, CheckRelay, UpsertPolicy,
                DeletePolicy, Goto, TypeOK
  <2>3. QED
    BY <2>1, <2>2 DEF SavesRows
<1>3. ASSUME NEW w \in Admins, Ends(w) \/ Fail(w)
      PROVE  SavesRows'
  BY <1>3, EndsShape DEF SavesRows
<1>4. ASSUME NEW w \in Admins, ListDomains(w)
      PROVE  SavesRows'
  BY <1>4 DEF ListDomains, Goto, TypeOK, SavesRows
<1>5. ASSUME NEW w \in Admins, Resolve(w)
      PROVE  SavesRows'
  BY <1>3, <1>5, ResolveShape DEF SavesRows
<1>6. ASSUME NEW w \in Admins, Render(w)
      PROVE  SavesRows'
  BY <1>6 DEF Render, Goto, TypeOK, SavesRows
<1>7. ASSUME NEW w \in Admins, NEW f \in Files, Write(w, f)
      PROVE  SavesRows'
  BY <1>7 DEF Write, SavesRows
<1>8. CASE Crash
  BY <1>8 DEF Crash, SavesRows
<1>9. CASE UNCHANGED vars
  BY <1>9 DEF vars, SavesRows
<1>10. QED
  BY <1>1, <1>2, <1>3, <1>4, <1>5, <1>6, <1>7, <1>8, <1>9, Requested
     DEF Next, Apply, Ends, Resolve

\* Only the statements write to the database.
LEMMA OnlyStatements ==
  ASSUME TypeOK, ResolvedSoFar, [Next]_vars, \A w \in Admins : ~ Statement(w)
  PROVE  UNCHANGED database
<1>1. ASSUME NEW w \in Admins, Request(w) \/ Rejected(w) \/ Apply(w)
      PROVE  UNCHANGED database
  <2>1. CASE Request(w)
    BY <2>1, Requested DEF Begun, Begin
  <2>2. CASE Ends(w)
    BY <2>2, EndsShape
  <2>3. CASE Resolve(w)
    BY <2>3, ResolveShape, EndsShape
  <2>4. CASE ListDomains(w) \/ Render(w) \/ \E f \in Files : Write(w, f)
    BY <2>4 DEF ListDomains, Render, Write
  <2>5. QED
    BY <1>1, <2>1, <2>2, <2>3, <2>4 DEF Apply, Ends, Resolve
<1>2. QED
  BY <1>1 DEF Next, Crash, vars

\* The foreign key: a relay is gone only once no policy names it.
LEMMA PoliciesStep ==
  ASSUME TypeOK, ResolvedSoFar, SavesRows, PoliciesNameRelays, [Next]_vars
  PROVE  PoliciesNameRelays'
<1>1. ASSUME NEW w \in Admins, CreateRelay(w) \/ UpdateRelay(w)
      PROVE  PoliciesNameRelays'
  <2>1. req[w].row \in Rows
    BY <1>1 DEF CreateRelay, UpdateRelay, SavesRows
  <2>2. req[w].row # NoRelay
    BY <2>1, NullAssumption DEF Rows, NoRelay
  <2>3. \A x \in Relays : relays[x] # NoRelay => relays'[x] # NoRelay
    BY <1>1, <2>2 DEF CreateRelay, UpdateRelay, TypeOK
  <2>4. policy' = policy
    BY <1>1 DEF CreateRelay, UpdateRelay
  <2>5. QED
    BY <2>3, <2>4 DEF TypeOK, PoliciesNameRelays, Policies
<1>2. ASSUME NEW w \in Admins, DeleteRelay(w)
      PROVE  PoliciesNameRelays'
  BY <1>2 DEF DeleteRelay, TypeOK, PoliciesNameRelays, Policies
<1>3. ASSUME NEW w \in Admins, UpsertPolicy(w)
      PROVE  PoliciesNameRelays'
  BY <1>3 DEF UpsertPolicy, TypeOK, PoliciesNameRelays, Policies
<1>4. ASSUME NEW w \in Admins, DeletePolicy(w)
      PROVE  PoliciesNameRelays'
  BY <1>4 DEF DeletePolicy, TypeOK, PoliciesNameRelays, NoPolicy
<1>5. ASSUME NEW w \in Admins,
             \/ CreateDomain(w) \/ DeleteDomain(w)
             \/ CountPolicies(w) \/ CheckScope(w) \/ CheckRelay(w)
      PROVE  PoliciesNameRelays'
  BY <1>5 DEF CreateDomain, DeleteDomain, CountPolicies, CheckScope, CheckRelay, database,
              PoliciesNameRelays
<1>6. CASE \A w \in Admins : ~ Statement(w)
  BY <1>6, OnlyStatements DEF database, PoliciesNameRelays
<1>7. QED
  BY <1>1, <1>2, <1>3, <1>4, <1>5, <1>6 DEF Statement

--------------------------------------------------------------------------------
(* Relay mode.                                                              *)

\* A statement that ends a scope's relay mode is observed by every Apply.
LEMMA KeptStep ==
  ASSUME TypeOK, ResolvedSoFar, KeptIsCurrent, [Next]_vars
  PROVE  KeptIsCurrent'
<1>1. ASSUME NEW w \in Admins, Statement(w)
      PROVE  KeptIsCurrent'
  BY <1>1, StatementShape DEF StatementFrame, KeptIsCurrent
<1>2. CASE \A w \in Admins : ~ Statement(w)
  <2>1. InRelayMode(policy, live)' = InRelayMode(policy, live)
    BY <1>2, OnlyStatements DEF InRelayMode, database
  <2>2. ASSUME NEW w \in Admins, Request(w) \/ Rejected(w) \/ Apply(w), NEW v \in Admins
        PROVE  kept'[v] \subseteq kept[v] \cup InRelayMode(policy, live)
    <3>1. CASE Request(w)
      BY <3>1, Requested DEF Begun, Begin
    <3>2. CASE Ends(w) \/ Fail(w)
      BY <3>2, EndsShape
    <3>3. CASE Resolve(w)
      BY <3>2, <3>3, ResolveShape
    <3>4. CASE ListDomains(w)
      BY <3>4 DEF ListDomains, TypeOK
    <3>5. CASE Render(w) \/ \E f \in Files : Write(w, f)
      BY <3>5 DEF Render, Write, history
    <3>6. QED
      BY <2>2, <3>1, <3>2, <3>3, <3>4, <3>5 DEF Apply, Ends, Resolve
  <2>3. CASE Crash
    BY <2>3 DEF Crash, KeptIsCurrent
  <2>4. CASE UNCHANGED vars
    BY <2>1, <2>4 DEF vars, history, KeptIsCurrent
  <2>5. QED
    BY <1>2, <2>1, <2>2, <2>3, <2>4 DEF Next, KeptIsCurrent
<1>3. QED
  BY <1>1, <1>2

\* What a step leaves of a request whose Build it does not advance.
LEMMA ResolvedFrame ==
  ASSUME NEW v \in Admins, Resolved(v), kept'[v] \subseteq kept[v],
         \/ pc'[v] \notin {"global", "relay", "domains", "write"}
         \/ pc'[v] = pc[v] /\ view'[v] = view[v] /\ found'[v] = found[v]
  PROVE  Resolved(v)'
  BY DEF Resolved, Deciding

\* A scope still in relay mode is resolved to a relay, or the Apply fails, unless
\* its policy could not be read.
LEMMA ResolvedStep ==
  ASSUME TypeOK, KeptIsCurrent, ResolvedSoFar, [Next]_vars
  PROVE  ResolvedSoFar'
<1>1. ASSUME NEW w \in Admins, Begun(w)
      PROVE  ResolvedSoFar'
  <2>1. \A v \in Admins : /\ kept'[v] = kept[v] /\ view'[v] = view[v] /\ found'[v] = found[v]
                          /\ pc'[v] = pc[v] \/ pc'[v] \notin {"global", "relay", "domains", "write"}
    BY <1>1 DEF Begun, Begin, Goto, Statements, TypeOK
  <2>2. QED
    BY <2>1, ResolvedFrame DEF ResolvedSoFar
<1>2. ASSUME NEW w \in Admins, Statement(w)
      PROVE  ResolvedSoFar'
  <2>1. \A v \in Admins : /\ kept'[v] \subseteq kept[v] /\ view'[v] = view[v]
                          /\ found'[v] = found[v]
                          /\ pc'[v] = pc[v] \/ pc'[v] \notin {"global", "relay", "domains", "write"}
    BY <1>2, StatementShape DEF StatementFrame, Statements
  <2>2. QED
    BY <2>1, ResolvedFrame DEF ResolvedSoFar
<1>3. ASSUME NEW w \in Admins, Ends(w) \/ Fail(w)
      PROVE  ResolvedSoFar'
  <2>1. /\ kept' = kept /\ pc'[w] = "idle"
        /\ \A v \in Admins \ {w} : pc'[v] = pc[v] /\ view'[v] = view[v] /\ found'[v] = found[v]
    BY <1>3, EndsShape
  <2>2. QED
    BY <2>1, ResolvedFrame DEF ResolvedSoFar
<1>4. ASSUME NEW w \in Admins, ListDomains(w)
      PROVE  ResolvedSoFar'
  <2>1. \A v \in Admins \ {w} : /\ kept'[v] = kept[v] /\ view'[v] = view[v]
                                /\ pc'[v] = pc[v] /\ found'[v] = found[v]
    BY <1>4 DEF ListDomains, Goto, TypeOK
  <2>2. Resolved(w)'
    <3>1. /\ pc'[w] = "global" /\ kept'[w] = InRelayMode(policy, live) /\ view'[w].todo = live
          /\ found'[w].scope = Global /\ found'[w].source = "global"
      BY <1>4 DEF ListDomains, Goto, Data, Start, Resolving, TypeOK
    <3>2. QED
      BY <3>1 DEF Resolved, Deciding, InRelayMode
  <2>3. QED
    BY <2>1, <2>2, ResolvedFrame DEF ResolvedSoFar
<1>5. ASSUME NEW w \in Admins, Resolve(w), ~ Fail(w)
      PROVE  ResolvedSoFar'
  <2>1. /\ \A v \in Admins \ {w} : /\ kept'[v] = kept[v] /\ view'[v] = view[v]
                                   /\ pc'[v] = pc[v] /\ found'[v] = found[v]
        /\ kept'[w] \subseteq kept[w] /\ kept[w] \subseteq Scopes
        /\ Resolved(w) /\ kept[w] \subseteq InRelayMode(policy, live)
    BY <1>5, ResolveShape DEF TypeOK, ResolvedSoFar, KeptIsCurrent
  <2>2. ASSUME NEW s \in Scopes, NEW source \in {"domain", "global"},
               NEW route \in Logins \cup {Direct}, Considers(w, s, source),
               Decided(w, s, source, route), Settles(w, s, source, route)
        PROVE  Resolved(w)'
    <3>1. /\ pc[w] \in {"global", "relay", "domains"} /\ pc'[w] = "domains"
          /\ view'[w] = Placed(view[w], s, source, route) /\ kept'[w] = kept[w]
      BY <2>2 DEF Settles, Considers, Goto, TypeOK, history
    <3>2. Deciding(w, Global) => s = Global
      BY <2>2 DEF Deciding, Considers
    <3>3. s \in kept[w] /\ (s = Global \/ source = "domain") => route \in Logins
      BY <2>1, <2>2 DEF Decided, Decider, InRelayMode
    <3>4. s \in kept[w] \ {Global} => source = "domain"
      BY <2>1, <2>2 DEF Considers, Resolved, Deciding
    <3>5. CASE s = Global
      <4>1. /\ view'[w].default = route /\ view'[w].route = view[w].route
            /\ view'[w].todo = view[w].todo
        BY <3>1, <3>5 DEF Placed, Data
      <4>2. QED
        BY <2>1, <3>1, <3>3, <3>5, <4>1 DEF Resolved, Deciding
    <3>6. CASE s # Global
      <4>1. view[w].route \in [Domains -> Routes] /\ s \in Domains
        BY <3>6 DEF TypeOK, Datas, Scopes
      <4>2. /\ view'[w].default = view[w].default /\ view'[w].todo = view[w].todo \ {s}
            /\ view'[w].route = [view[w].route EXCEPT ![s] = IF source = "domain" THEN route
                                                                                  ELSE Inherit]
        BY <3>1, <3>6 DEF Placed, Data
      <4>3. \A d \in kept[w] \ {Global, s} : view'[w].route[d] = view[w].route[d]
        BY <2>1, <4>1, <4>2 DEF Scopes
      <4>4. s \in kept[w] => view'[w].route[s] \in Logins
        BY <3>3, <3>4, <3>6, <4>1, <4>2
      <4>5. Global \in kept[w] => view'[w].default \in Logins
        BY <2>1, <3>1, <3>2, <3>6, <4>2 DEF Resolved
      <4>6. \A d \in kept[w] \ {Global} :
               d \in view'[w].todo \/ view'[w].route[d] \in Logins
        BY <2>1, <3>1, <4>2, <4>3, <4>4 DEF Resolved
      <4>7. QED
        BY <3>1, <4>5, <4>6 DEF Resolved, Deciding
    <3>7. QED
      BY <3>5, <3>6
  <2>3. ASSUME NEW s \in Scopes, NEW source \in {"domain", "global"},
               Considers(w, s, source), Materializes(w, s, source)
        PROVE  Resolved(w)'
    <3>1. /\ pc[w] \in {"global", "relay", "domains"} /\ pc'[w] = "relay"
          /\ found'[w].scope = s /\ found'[w].source = source /\ found'[w].relay \in Relays
          /\ view'[w] = view[w] /\ kept'[w] = kept[w]
      BY <2>3 DEF Materializes, LookUp, Considers, Resolving, Goto, TypeOK, history
    <3>2. Deciding(w, Global) => s = Global
      BY <2>3 DEF Deciding, Considers
    <3>3. s \in kept[w] \ {Global} => source = "domain"
      BY <2>1, <2>3 DEF Considers, Resolved, Deciding
    <3>4. QED
      BY <2>1, <3>1, <3>2, <3>3 DEF Resolved, Deciding
  <2>4. ASSUME NEW d \in Domains, Passes(w, d)
        PROVE  Resolved(w)'
    <3>1. /\ pc[w] = "domains" /\ pc'[w] = "global" /\ found'[w].scope = d
          /\ found'[w].source = "global" /\ view'[w] = view[w]
      BY <2>4 DEF Passes, FallThrough, Resolving, Goto, TypeOK
    <3>2. d \notin kept'[w]
      BY <2>1, <2>4 DEF Passes, InRelayMode, Overrides, TypeOK
    <3>3. QED
      BY <2>1, <3>1, <3>2 DEF Resolved, Deciding
  <2>5. Resolved(w)'
    BY <1>5, <2>2, <2>3, <2>4, Outcomes
  <2>6. QED
    BY <2>1, <2>5, ResolvedFrame DEF ResolvedSoFar
<1>6. ASSUME NEW w \in Admins, Render(w)
      PROVE  ResolvedSoFar'
  <2>1. \A v \in Admins \ {w} : /\ kept'[v] = kept[v] /\ view'[v] = view[v]
                                /\ pc'[v] = pc[v] /\ found'[v] = found[v]
    BY <1>6 DEF Render, Goto, TypeOK, history
  <2>2. /\ pc[w] = "domains" /\ pc'[w] = "write" /\ view'[w] = view[w] /\ view[w].todo = {}
        /\ kept' = kept
    BY <1>6 DEF Render, Goto, TypeOK, history
  <2>3. Resolved(w)'
    BY <2>2 DEF ResolvedSoFar, Resolved, Deciding
  <2>4. QED
    BY <2>1, <2>3, ResolvedFrame DEF ResolvedSoFar
<1>7. ASSUME NEW w \in Admins, NEW f \in Files, Write(w, f)
      PROVE  ResolvedSoFar'
  BY <1>7, ResolvedFrame DEF Write, history, ResolvedSoFar
<1>8. CASE Crash
  BY <1>8 DEF Crash, ResolvedSoFar, Resolved, Deciding
<1>9. CASE UNCHANGED vars
  BY <1>9, ResolvedFrame DEF vars, history, ResolvedSoFar
<1>10. QED
  BY <1>1, <1>2, <1>3, <1>4, <1>5, <1>6, <1>7, <1>8, <1>9, Requested
     DEF Next, Apply, Ends, Resolve

--------------------------------------------------------------------------------
(* The files.                                                               *)

\* An Apply that has written a file goes on to reload, or fails.
LEMMA LoadedStep ==
  ASSUME TypeOK, ResolvedSoFar, LoadedOrLoading, [Next]_vars
  PROVE  LoadedOrLoading'
<1>1. ASSUME UNCHANGED <<disk, loaded, aborted, files>>,
             \A v \in Admins : pc'[v] = pc[v] \/ (pc[v] # "write" /\ pc'[v] # "write")
      PROVE  LoadedOrLoading'
  BY <1>1 DEF LoadedOrLoading, Publishing
<1>2. ASSUME NEW w \in Admins, Begun(w) \/ Rejected(w) \/ ListDomains(w)
      PROVE  LoadedOrLoading'
  <2>1. /\ UNCHANGED <<disk, loaded, aborted, files>>
        /\ \A v \in Admins : pc'[v] = pc[v] \/ (pc[v] # "write" /\ pc'[v] # "write")
    BY <1>2 DEF Begun, Begin, Rejected, Refuse, ListDomains, Goto, Statements, TypeOK, output
  <2>2. QED
    BY <1>1, <2>1
<1>3. ASSUME NEW w \in Admins, Statement(w)
      PROVE  LoadedOrLoading'
  BY <1>1, <1>3, StatementShape DEF StatementFrame, Statements, output
<1>4. ASSUME NEW w \in Admins, Fail(w) \/ BuildFails(w) \/ WriteFails(w) \/ ReloadFails(w)
      PROVE  LoadedOrLoading'
  BY <1>4 DEF Fail, BuildFails, WriteFails, ReloadFails, LoadedOrLoading
<1>5. ASSUME NEW w \in Admins, Resolve(w)
      PROVE  LoadedOrLoading'
  BY <1>1, <1>4, <1>5, ResolveShape DEF output
<1>6. ASSUME NEW w \in Admins, Render(w)
      PROVE  LoadedOrLoading'
  <2>1. /\ UNCHANGED <<disk, loaded, aborted>> /\ pc[w] = "domains" /\ files'[w] = Files
        /\ \A v \in Admins \ {w} : pc'[v] = pc[v] /\ files'[v] = files[v]
    BY <1>6 DEF Render, Goto, TypeOK, output, history
  <2>2. QED
    BY <2>1 DEF LoadedOrLoading, Publishing
<1>7. ASSUME NEW w \in Admins, NEW f \in Files, Write(w, f)
      PROVE  LoadedOrLoading'
  <2>1. pc'[w] = "write" /\ files'[w] # Files
    BY <1>7 DEF Write, TypeOK
  <2>2. QED
    BY <2>1 DEF LoadedOrLoading, Publishing
<1>8. ASSUME NEW w \in Admins, Reload(w)
      PROVE  LoadedOrLoading'
  BY <1>8 DEF Reload, LoadedOrLoading
<1>9. CASE Crash
  BY <1>9 DEF Crash, LoadedOrLoading
<1>10. CASE UNCHANGED vars
  BY <1>10 DEF vars, output, history, LoadedOrLoading, Publishing
<1>11. QED
  BY <1>2, <1>3, <1>4, <1>5, <1>6, <1>7, <1>8, <1>9, <1>10, Requested
     DEF Next, Apply, Resolve

\* A fresh install routes through no relay at all.
LEMMA FreshApart == Apart(Fresh)
  BY RouteAssumption DEF Apart, LoginsOf, Fresh, Data

\* The routes of a request whose Build is not advanced.
LEMMA ApartFrame ==
  ASSUME LoginsApart, UNCHANGED disk,
         \A v \in Admins :
            \/ /\ view'[v] = view[v]
               /\ \/ pc'[v] \notin {"global", "relay"}
                  \/ pc'[v] = pc[v] /\ found'[v] = found[v]
            \/ view'[v] = Fresh /\ pc'[v] \notin {"global", "relay"}
  PROVE  LoginsApart'
<1>1. ASSUME NEW v \in Admins
      PROVE  Apart(view[v])' /\ (Deciding(v, Global)' => view'[v].route = Fresh.route)
  BY <1>1, FreshApart DEF LoginsApart, Apart, LoginsOf, Deciding
<1>2. \A f \in Files : Apart(disk[f])'
  BY DEF LoginsApart, Apart, LoginsOf
<1>3. QED
  BY <1>1, <1>2 DEF LoginsApart, Fresh

\* Build refuses a second login for a host and port that already has one.
LEMMA ApartStep ==
  ASSUME TypeOK, ResolvedSoFar, LoginsApart, [Next]_vars
  PROVE  LoginsApart'
<1>1. ASSUME NEW w \in Admins, Begun(w)
      PROVE  LoginsApart'
  <2>1. /\ UNCHANGED <<disk, view, found>>
        /\ \A v \in Admins : pc'[v] = pc[v] \/ pc'[v] \notin {"global", "relay"}
    BY <1>1 DEF Begun, Begin, Goto, Statements, TypeOK, output
  <2>2. QED
    BY <2>1, ApartFrame
<1>2. ASSUME NEW w \in Admins, Statement(w)
      PROVE  LoginsApart'
  BY <1>2, StatementShape, ApartFrame DEF StatementFrame, Statements, output
<1>3. ASSUME NEW w \in Admins, Ends(w) \/ Fail(w)
      PROVE  LoginsApart'
  <2>1. /\ UNCHANGED disk /\ pc'[w] = "idle" /\ view'[w] \in {view[w], Fresh}
        /\ \A v \in Admins \ {w} : pc'[v] = pc[v] /\ view'[v] = view[v] /\ found'[v] = found[v]
    BY <1>3, EndsShape
  <2>2. QED
    BY <2>1, ApartFrame
<1>4. ASSUME NEW w \in Admins, ListDomains(w)
      PROVE  LoginsApart'
  <2>1. /\ pc'[w] = "global" /\ view'[w].route = Fresh.route
        /\ view'[w].default = Direct
    BY <1>4 DEF ListDomains, Goto, Data, TypeOK
  <2>2. Apart(view'[w])
    BY <2>1, RouteAssumption DEF Apart, LoginsOf, Fresh, Data
  <2>3. \A v \in Admins \ {w} : pc'[v] = pc[v] /\ view'[v] = view[v] /\ found'[v] = found[v]
    BY <1>4 DEF ListDomains, Goto, TypeOK
  <2>4. disk' = disk
    BY <1>4 DEF ListDomains, output
  <2>5. QED
    BY <2>1, <2>2, <2>3, <2>4 DEF LoginsApart, Apart, LoginsOf, Deciding
<1>5. ASSUME NEW w \in Admins, NEW s \in Scopes, NEW source \in {"domain", "global"},
             NEW route \in Logins \cup {Direct},
             Considers(w, s, source), Settles(w, s, source, route)
      PROVE  LoginsApart'
  <2> DEFINE n == Placed(view[w], s, source, route)
  <2>1. /\ pc'[w] = "domains" /\ view'[w] = n /\ disk' = disk
        /\ ~ (source = "domain" /\ Collides(view[w], route))
    BY <1>5 DEF Settles, Goto, TypeOK, output
  <2>2. \A v \in Admins \ {w} : pc'[v] = pc[v] /\ view'[v] = view[v] /\ found'[v] = found[v]
    BY <1>5 DEF Settles, Goto, TypeOK
  <2>3. Apart(n)
    <3>1. CASE s = Global
      <4>1. Deciding(w, Global)
        BY <1>5, <3>1, ScopeAssumption DEF Considers, Deciding
      <4>2. n.route = Fresh.route
        BY <3>1, <4>1 DEF LoginsApart, Placed, Data
      <4>3. QED
        BY <4>2, RouteAssumption DEF Apart, LoginsOf, Fresh, Data
    <3>2. CASE s # Global
      <4> DEFINE r == IF source = "domain" THEN route ELSE Inherit
      <4>1. n.default = view[w].default /\ n.route = [view[w].route EXCEPT ![s] = r]
        BY <3>2 DEF Placed, Data
      <4>2. r \in Logins =>
              \A k \in LoginsOf(view[w]) : k = r \/ Nexthop(k) # Nexthop(r)
        BY <2>1, RouteAssumption DEF Collides
      <4> HIDE DEF r, n
      <4>3. LoginsOf(n) \subseteq LoginsOf(view[w]) \cup {r}
        <5>1. view[w].route \in [Domains -> Routes]
          BY DEF TypeOK, Datas
        <5>2. QED
          BY <4>1, <5>1 DEF LoginsOf
      <4>4. Apart(view[w]) /\ LoginsOf(n) \subseteq Logins
        BY DEF LoginsApart, LoginsOf
      <4>5. QED
        BY <4>2, <4>3, <4>4 DEF Apart
    <3>3. QED
      BY <3>1, <3>2
  <2>4. Apart(view[w])'
    BY <2>1, <2>3 DEF Apart, LoginsOf
  <2>5. QED
    BY <2>1, <2>2, <2>4 DEF LoginsApart, Apart, LoginsOf, Deciding
<1>6. ASSUME NEW w \in Admins, NEW s \in Scopes, NEW source \in {"domain", "global"},
             Considers(w, s, source), Materializes(w, s, source)
      PROVE  LoginsApart'
  <2>1. /\ UNCHANGED <<disk, view>> /\ pc'[w] = "relay" /\ found'[w].scope = s
        /\ \A v \in Admins \ {w} : pc'[v] = pc[v] /\ found'[v] = found[v]
    BY <1>6 DEF Materializes, LookUp, Resolving, Goto, TypeOK, output
  <2>2. s = Global => Deciding(w, Global)
    BY <1>6, ScopeAssumption DEF Considers, Deciding
  <2>3. QED
    BY <2>1, <2>2 DEF LoginsApart, Apart, LoginsOf, Deciding
<1>7. ASSUME NEW w \in Admins, NEW d \in Domains, Passes(w, d)
      PROVE  LoginsApart'
  <2>1. /\ UNCHANGED <<disk, view>> /\ found'[w].scope = d
        /\ \A v \in Admins \ {w} : pc'[v] = pc[v] /\ found'[v] = found[v]
    BY <1>7 DEF Passes, FallThrough, Resolving, Goto, TypeOK, output
  <2>2. QED
    BY <2>1, ScopeAssumption DEF LoginsApart, Apart, LoginsOf, Deciding
<1>8. ASSUME NEW w \in Admins, Resolve(w)
      PROVE  LoginsApart'
  BY <1>3, <1>5, <1>6, <1>7, <1>8, Outcomes
<1>9. ASSUME NEW w \in Admins, Render(w)
      PROVE  LoginsApart'
  <2>1. /\ UNCHANGED <<disk, view, found>>
        /\ \A v \in Admins : pc'[v] = pc[v] \/ pc'[v] \notin {"global", "relay"}
    BY <1>9 DEF Render, Goto, TypeOK, output
  <2>2. QED
    BY <2>1, ApartFrame
<1>10. ASSUME NEW w \in Admins, NEW f \in Files, Write(w, f)
       PROVE  LoginsApart'
  <2>1. /\ UNCHANGED <<pc, view, found>>
        /\ \A g \in Files : disk'[g] = disk[g] \/ disk'[g] = view[w]
    BY <1>10 DEF Write, TypeOK
  <2>2. QED
    BY <2>1 DEF LoginsApart, Apart, LoginsOf, Deciding
<1>11. CASE Crash
  <2>1. disk' = disk /\ \A v \in Admins : pc'[v] = "idle" /\ view'[v] = Fresh
    BY <1>11 DEF Crash, output
  <2>2. QED
    BY <2>1, ApartFrame
<1>12. CASE UNCHANGED vars
  BY <1>12, ApartFrame DEF vars, output
<1>13. QED
  BY <1>1, <1>2, <1>3, <1>4, <1>8, <1>9, <1>10, <1>11, <1>12, Requested
     DEF Next, Apply, Ends, Resolve

--------------------------------------------------------------------------------
(* The users of a relay.                                                    *)

\* A policy that is being set to relay mode names a relay.
NamesARelay ==
    \A w \in Admins : pc[w] \in {"check scope", "check relay", "upsert"} =>
        (req[w].mode = "relay" => req[w].relay # Null)

LEMMA NamesStep ==
  ASSUME TypeOK, ResolvedSoFar, NamesARelay, [Next]_vars
  PROVE  NamesARelay'
<1> DEFINE Setting == {"check scope", "check relay", "upsert"}
<1>1. ASSUME NEW w \in Admins, Begun(w)
      PROVE  NamesARelay'
  BY <1>1 DEF Begun, Begin, Goto, TypeOK, NamesARelay
<1>2. ASSUME NEW w \in Admins, Statement(w)
      PROVE  NamesARelay'
  <2>1. req' = req /\ \A v \in Admins \ {w} : pc'[v] = pc[v]
    BY <1>2, StatementShape DEF StatementFrame
  <2>2. pc'[w] \in Setting => pc[w] \in Setting
    BY <1>2 DEF Statement, CreateDomain, DeleteDomain, CreateRelay, UpdateRelay,
                CountPolicies, DeleteRelay, CheckScope, CheckRelay, UpsertPolicy,
                DeletePolicy, Goto, TypeOK
  <2>3. QED
    BY <2>1, <2>2 DEF NamesARelay
<1>3. ASSUME NEW w \in Admins, Ends(w) \/ Fail(w)
      PROVE  NamesARelay'
  BY <1>3, EndsShape DEF NamesARelay
<1>4. ASSUME NEW w \in Admins, ListDomains(w)
      PROVE  NamesARelay'
  BY <1>4 DEF ListDomains, Goto, TypeOK, NamesARelay
<1>5. ASSUME NEW w \in Admins, Resolve(w)
      PROVE  NamesARelay'
  BY <1>3, <1>5, ResolveShape DEF NamesARelay
<1>6. ASSUME NEW w \in Admins, Render(w) \/ \E f \in Files : Write(w, f)
      PROVE  NamesARelay'
  BY <1>6 DEF Render, Write, Goto, TypeOK, NamesARelay
<1>7. CASE Crash \/ UNCHANGED vars
  BY <1>7 DEF Crash, vars, NamesARelay
<1>8. QED
  BY <1>1, <1>2, <1>3, <1>4, <1>5, <1>6, <1>7, Requested
     DEF Next, Apply, Ends, Resolve

\* Between the count and the deletion every new user of the relay is noted.
LEMMA UsersStep ==
  ASSUME TypeOK, ResolvedSoFar, UsersAreLate, [Next]_vars
  PROVE  UsersAreLate'
<1>1. ASSUME NEW w \in Admins, Begun(w)
      PROVE  UsersAreLate'
  BY <1>1 DEF Begun, Begin, Goto, TypeOK, UsersAreLate, database
<1>2. ASSUME NEW w \in Admins, Statement(w)
      PROVE  UsersAreLate'
  <2>1. /\ req' = req /\ \A v \in Admins \ {w} : pc'[v] = pc[v]
        /\ late' = [v \in Admins |->
                      IF pc[v] = "delete relay" /\ pc'[v] = "delete relay"
                      THEN late[v] \cup GivenLate(v) ELSE {}]
    BY <1>2, StatementShape DEF StatementFrame
  <2>2. ASSUME pc'[w] = "delete relay"
        PROVE  /\ \A s \in Scopes : policy'[s].relay # req[w].relay
    <3>1. CountPolicies(w)
      BY <1>2, <2>2 DEF Statement, CreateDomain, DeleteDomain, CreateRelay, UpdateRelay,
                  DeleteRelay, CheckScope, CheckRelay, UpsertPolicy, DeletePolicy,
                  Goto, TypeOK
    <3>2. QED
      BY <3>1 DEF CountPolicies, database
  <2>3. ASSUME NEW v \in Admins \ {w}, pc'[v] = "delete relay", NEW s \in Scopes,
               policy'[s].relay = req[v].relay
        PROVE  s \in late'[v]
    BY <2>1, <2>3 DEF UsersAreLate, GivenLate
  <2>4. QED
    BY <2>1, <2>2, <2>3 DEF UsersAreLate
<1>3. ASSUME NEW w \in Admins, Ends(w) \/ Fail(w)
      PROVE  UsersAreLate'
  BY <1>3, EndsShape DEF UsersAreLate, database
<1>4. ASSUME NEW w \in Admins, ListDomains(w)
      PROVE  UsersAreLate'
  BY <1>4 DEF ListDomains, Goto, TypeOK, UsersAreLate, database
<1>5. ASSUME NEW w \in Admins, Resolve(w)
      PROVE  UsersAreLate'
  BY <1>3, <1>5, ResolveShape DEF UsersAreLate, database
<1>6. ASSUME NEW w \in Admins, Render(w) \/ \E f \in Files : Write(w, f)
      PROVE  UsersAreLate'
  BY <1>6 DEF Render, Write, Goto, TypeOK, UsersAreLate, database, history
<1>7. CASE Crash
  BY <1>7 DEF Crash, UsersAreLate
<1>8. CASE UNCHANGED vars
  BY <1>8 DEF vars, UsersAreLate, database, history
<1>9. QED
  BY <1>1, <1>2, <1>3, <1>4, <1>5, <1>6, <1>7, <1>8, Requested
     DEF Next, Apply, Ends, Resolve

\* Only the deletion of a relay takes it from a policy in relay mode.
LEMMA LosesRelay ==
  ASSUME TypeOK, ResolvedSoFar, NamesARelay, UsersAreLate, [Next]_vars, NEW s \in Scopes,
         policy[s].relay # Null, policy'[s] = [mode |-> "relay", relay |-> Null]
  PROVE  \E w \in Admins : pc[w] = "delete relay" /\ pc'[w] # pc[w] /\ s \in late[w]
<1>1. policy'[s] # policy[s] /\ policy'[s].mode = "relay" /\ policy'[s].relay = Null
  OBVIOUS
<1>2. PICK w \in Admins : Statement(w)
  BY <1>1, OnlyStatements DEF database
<1>3. \/ DeleteRelay(w) \/ UpsertPolicy(w) \/ DeletePolicy(w)
  BY <1>1, <1>2 DEF Statement, CreateDomain, DeleteDomain, CreateRelay, UpdateRelay,
                    CountPolicies, CheckScope, CheckRelay, database
<1>4. CASE DeleteRelay(w)
  <2>1. pc[w] = "delete relay" /\ pc'[w] = "apply" /\ policy[s].relay = req[w].relay
    BY <1>1, <1>4 DEF DeleteRelay, Goto, TypeOK
  <2>2. QED
    BY <2>1 DEF UsersAreLate
<1>5. CASE UpsertPolicy(w)
  <2>1. policy'[s] = [mode |-> req[w].mode, relay |-> req[w].relay] /\ pc[w] = "upsert"
    BY <1>1, <1>5 DEF UpsertPolicy, TypeOK
  <2>2. req[w].mode = "relay" /\ req[w].relay = Null
    BY <1>1, <2>1
  <2>3. QED
    BY <2>1, <2>2 DEF NamesARelay
<1>6. CASE DeletePolicy(w)
  <2>1. policy'[s] = policy[s] \/ policy'[s] = NoPolicy
    BY <1>6 DEF DeletePolicy, TypeOK
  <2>2. NoPolicy.mode # "relay"
    BY DEF NoPolicy
  <2>3. QED
    BY <1>1, <2>1, <2>2
<1>7. QED
  BY <1>3, <1>4, <1>5, <1>6

--------------------------------------------------------------------------------
(* The inductive invariant and what follows from it.                        *)

IInv == /\ TypeOK
        /\ SavesRows
        /\ PoliciesNameRelays
        /\ KeptIsCurrent
        /\ ResolvedSoFar
        /\ LoadedOrLoading
        /\ LoginsApart
        /\ NamesARelay
        /\ UsersAreLate

\* A fresh install satisfies it: no requests, and only the seeded direct policy.
LEMMA InitIInv == Init => IInv
<1> SUFFICES ASSUME Init PROVE IInv
  OBVIOUS
<1>1. TypeOK
  <2>1. policy \in [Scopes -> Policies] /\ relays \in [Relays -> Rows \cup {NoRelay}]
    BY DEF Init, Policies, NoPolicy, Modes
  <2>2. /\ disk \in [Files -> Datas] /\ loaded \in [Files -> Datas]
        /\ view \in [Admins -> Datas] /\ req \in [Admins -> Asked]
        /\ found \in [Admins -> Steps]
    BY Blank DEF Init
  <2>3. pc \in [Admins -> PCs]
    BY DEF Init, PCs
  <2>4. QED
    BY <2>1, <2>2, <2>3 DEF Init, TypeOK
<1>2. SavesRows /\ KeptIsCurrent /\ ResolvedSoFar /\ LoadedOrLoading
  BY DEF Init, SavesRows, KeptIsCurrent, ResolvedSoFar, Resolved, Deciding, LoadedOrLoading
<1>3. PoliciesNameRelays
  BY DEF Init, PoliciesNameRelays, NoPolicy, Scopes
<1>4. LoginsApart
  BY FreshApart DEF Init, LoginsApart, Deciding
<1>5. NamesARelay /\ UsersAreLate
  BY DEF Init, NamesARelay, UsersAreLate
<1>6. QED
  BY <1>1, <1>2, <1>3, <1>4, <1>5 DEF IInv

\* Every step of the system preserves it.
LEMMA IInvStep == IInv /\ [Next]_vars => IInv'
  BY TypeStep, SavesRowsStep, PoliciesStep, KeptStep, ResolvedStep, LoadedStep,
     ApartStep, NamesStep, UsersStep
     DEF IInv

\* It therefore always holds.
LEMMA Inductive == Spec => []IInv
  BY InitIInv, IInvStep, PTL DEF Spec

\* The types hold: in particular every route written to a file is a login that a
\* relay row had, "direct", or "inherit".
THEOREM TypeCorrect == Spec => []TypeOK
<1>1. IInv => TypeOK
  BY DEF IInv
<1>2. QED
  BY <1>1, Inductive, PTL

\* store_delivery.go: no policy ever names a relay that is gone, although
\* SetPolicy looks at the relay long before its INSERT, and DeleteRelay counts
\* the policies in a statement of its own.
THEOREM NoDanglingPolicy == Spec => []PoliciesNameRelays
<1>1. IInv => PoliciesNameRelays
  BY DEF IInv
<1>2. QED
  BY <1>1, Inductive, PTL

\* A scope in relay mode during a whole Build is written with a relay's login, but
\* for one whose own policy Build could not read (delivery.go's ResolveForDomain
\* goes on to the global policy then: NeverFallsBack, which the code does violate).
THEOREM RelayModeHonoured == Spec => []RelayModeIsHonoured
<1>1. IInv => RelayModeIsHonoured
  <2> SUFFICES ASSUME IInv, NEW w \in Admins, pc[w] = "write"
               PROVE  /\ Global \in kept[w] => view[w].default \in Logins
                      /\ \A d \in kept[w] \ {Global} : view[w].route[d] \in Logins
    BY DEF RelayModeIsHonoured
  <2>1. Resolved(w)
    BY DEF IInv, ResolvedSoFar
  <2>2. QED
    BY <2>1 DEF Resolved, Deciding
<1>2. QED
  BY <1>1, Inductive, PTL

\* Apply reloads after its last write, so when nothing runs and nothing failed
\* Postfix has read exactly the files on disk, however many Applies overlapped.
THEOREM LoadedMatchesDisk == Spec => []LoadedIsOnDisk
<1>1. IInv => LoadedIsOnDisk
  BY DEF IInv, LoadedOrLoading, Publishing, LoadedIsOnDisk, Quiet
<1>2. QED
  BY <1>1, Inductive, PTL

\* Build's collision check keeps relays' credentials apart: sasl_passwd never holds
\* two logins for one host and port, whichever Apply wrote it.
THEOREM CredentialsApart == Spec => []OneLoginPerNexthop
<1>1. IInv => OneLoginPerNexthop
  BY DEF IInv, LoginsApart, OneLoginPerNexthop, Files
<1>2. QED
  BY <1>1, Inductive, PTL

\* DeleteRelay refuses a relay that a policy uses (store_delivery.go), for any
\* number of overlapping requests: a policy in relay mode loses its relay only to a
\* deletion that had counted the relay's users before the policy became one.
THEOREM RelayInUseAlwaysStays == Spec => RelayInUseStays
<1>1. IInv /\ [Next]_vars =>
        [\A s \in Scopes :
           (policy[s].relay # Null /\ policy'[s] = [mode |-> "relay", relay |-> Null])
              => \E w \in Admins : /\ pc[w] = "delete relay" /\ pc'[w] # pc[w]
                                  /\ s \in late[w]]_vars
  BY LosesRelay DEF IInv
<1>2. QED
  BY <1>1, Inductive, PTL DEF Spec, RelayInUseStays

--------------------------------------------------------------------------------
(* Requests served one after the other.                                     *)

\* The line of a domain in sender_transport, and what its own policy must stand for.
Line(d) == IF Overrides(d) THEN RouteOf(policy[d]) ELSE Inherit

Answered(w, d) ==
    view[w].route[d] = Line(d) /\ (Overrides(d) => RouteOf(policy[d]) # Inherit)

\* What a request that is alone has assembled, is looking up and has written is what
\* the database says.
Seen(w) ==
    /\ Deciding(w, Global) => view[w].todo = live
    /\ pc[w] \in {"domains", "write"} \/ (pc[w] \in {"global", "relay"} /\ ~ Deciding(w, Global)) =>
          view[w].default = RouteOf(policy[Global])
    /\ pc[w] \in {"global", "relay", "domains", "write"} =>
          \A d \in live \ view[w].todo : Answered(w, d)
    /\ pc[w] = "global" => found[w].scope = Global \/ ~ Overrides(found[w].scope)
    /\ pc[w] = "relay" =>
          LET p == policy[Decider(found[w].scope, found[w].source)]
          IN  /\ p.mode = "relay" /\ p.relay = found[w].relay /\ p.relay # Null
              /\ \/ found[w].scope = Global \/ found[w].source = "domain"
                 \/ ~ Overrides(found[w].scope)
    /\ pc[w] = "write" =>
          /\ view[w].todo = {}
          /\ \A f \in Files \ files[w] : disk[f] = view[w]

DiskIsCurrent ==
    \A d \in live : /\ Routed(disk, d) = Effective(d)
                    /\ Effective(d) \in Logins => Effective(d) \in LoginsOf(disk["sasl_passwd"])

\* Until its statement has been executed, a lone request finds the files as the one
\* before has left them.
OneByOne ==
    orderly =>
        /\ \A v, w \in Admins : pc[v] # "idle" /\ pc[w] # "idle" => v = w
        /\ \A w \in Admins : Seen(w)
        /\ (\A w \in Admins : pc[w] \in Statements \cup {"idle"}) => DiskIsCurrent

LEMMA Alone ==
  ASSUME NEW w \in Admins,
         orderly' => \A v \in Admins \ {w} : pc'[v] = "idle",
         orderly' => Seen(w)',
         orderly' /\ pc'[w] \in Statements \cup {"idle"} => DiskIsCurrent'
  PROVE  OneByOne'
<1>1. orderly' => \A v \in Admins \ {w} : Seen(v)'
  BY DEF Seen, Deciding
<1>2. QED
  BY <1>1 DEF OneByOne

\* While a request is served in order, the others are idle.
LEMMA OthersIdle ==
  ASSUME OneByOne, orderly, NEW w \in Admins, pc[w] # "idle"
  PROVE  \A v \in Admins \ {w} : pc[v] = "idle"
BY DEF OneByOne

\* The files of a request about to reload are what the database asks for.
LEMMA WrittenIsCurrent ==
  ASSUME TypeOK, NEW w \in Admins, Seen(w), pc[w] = "write", files[w] = {}
  PROVE  DiskIsCurrent
<1> SUFFICES ASSUME NEW d \in live
             PROVE  /\ Routed(disk, d) = Effective(d)
                    /\ Effective(d) \in Logins =>
                         Effective(d) \in LoginsOf(disk["sasl_passwd"])
  BY DEF DiskIsCurrent
<1>1. /\ disk["main.cf"] = view[w] /\ disk["sender_transport"] = view[w]
      /\ disk["sasl_passwd"] = view[w]
  BY DEF Seen, Files
<1>2. Answered(w, d) /\ view[w].default = RouteOf(policy[Global]) /\ d \in Domains
  BY DEF Seen, TypeOK
<1>3. CASE Overrides(d)
  <2>1. /\ Effective(d) = RouteOf(policy[d]) /\ view[w].route[d] = RouteOf(policy[d])
        /\ RouteOf(policy[d]) # Inherit
    BY <1>2, <1>3 DEF Effective, Answered, Line
  <2>2. QED
    BY <1>1, <1>2, <2>1 DEF Routed, LoginsOf
<1>4. CASE ~ Overrides(d)
  <2>1. Effective(d) = RouteOf(policy[Global]) /\ view[w].route[d] = Inherit
    BY <1>2, <1>4 DEF Effective, Answered, Line
  <2>2. QED
    BY <1>1, <1>2, <2>1 DEF Routed, LoginsOf
<1>5. QED
  BY <1>3, <1>4

\* What the database says is a matter of the database alone.
LEMMA SamePolicies ==
  ASSUME UNCHANGED database
  PROVE  /\ live' = live /\ policy' = policy
         /\ RouteOf(policy[Global])' = RouteOf(policy[Global])
         /\ \A d : (Overrides(d)' <=> Overrides(d)) /\ Line(d)' = Line(d)
                     /\ RouteOf(policy[d])' = RouteOf(policy[d])
BY DEF database, RouteOf, Overrides, Line

LEMMA StillCurrent ==
  ASSUME DiskIsCurrent, UNCHANGED <<database, disk>>
  PROVE  DiskIsCurrent'
BY DEF DiskIsCurrent, Routed, Effective, Overrides, RouteOf, LoginsOf, database

\* A lone Build that settles a scope settles it as the database says.
LEMMA SettlesSeen ==
  ASSUME TypeOK, ResolvedSoFar, NEW w \in Admins, Seen(w),
         NEW s \in Scopes, NEW source \in {"domain", "global"},
         NEW route \in Logins \cup {Direct}, Considers(w, s, source),
         Decided(w, s, source, route), Settles(w, s, source, route)
  PROVE  Seen(w)'
<1>1. /\ pc[w] \in {"global", "relay", "domains"} /\ pc'[w] = "domains"
      /\ view'[w] = Placed(view[w], s, source, route) /\ UNCHANGED database
  BY DEF Settles, Considers, Goto, TypeOK
<1>2. (Deciding(w, Global) <=> s = Global)
  BY ScopeAssumption DEF Deciding, Considers
<1>3. route # Inherit
  BY RouteAssumption
<1>4. route = RouteOf(policy[Decider(s, source)])
  <2>1. CASE pc[w] = "relay"
    BY <2>1 DEF Considers, Decided, Seen, RouteOf
  <2>2. CASE pc[w] # "relay"
    BY <2>2 DEF Decided, RouteOf
  <2>3. QED
    BY <2>1, <2>2
<1>5. CASE s = Global
  <2>1. /\ view'[w].default = route /\ view'[w].todo = view[w].todo /\ view[w].todo = live
    BY <1>1, <1>2, <1>5 DEF Placed, Data, Seen
  <2>2. Decider(s, source) = Global
    BY <1>5 DEF Decider
  <2>3. QED
    BY <1>1, <1>4, <2>1, <2>2, SamePolicies DEF Seen, Deciding
<1>6. CASE s # Global
  <2>1. view[w].route \in [Domains -> Routes] /\ s \in Domains /\ live \subseteq Domains
    BY <1>6 DEF TypeOK, Datas, Scopes
  <2>2. /\ view'[w].default = view[w].default /\ view'[w].todo = view[w].todo \ {s}
        /\ view'[w].route = [view[w].route EXCEPT ![s] = IF source = "domain" THEN route
                                                                              ELSE Inherit]
    BY <1>1, <1>6 DEF Placed, Data
  <2>3. view[w].default = RouteOf(policy[Global])
    BY <1>1, <1>2, <1>6 DEF Seen
  <2>4. IF source = "domain" THEN Overrides(s) ELSE ~ Overrides(s)
    <3>1. CASE pc[w] = "global"
      BY <1>6, <3>1 DEF Considers, Seen
    <3>2. CASE pc[w] = "relay"
      BY <1>6, <3>2 DEF Considers, Seen, Decider, Overrides
    <3>3. CASE pc[w] = "domains"
      BY <3>3 DEF Considers
    <3>4. QED
      BY <1>1, <3>1, <3>2, <3>3
  <2>5. /\ view'[w].route[s] = Line(s)
        /\ Overrides(s) => RouteOf(policy[s]) # Inherit
    BY <1>3, <1>4, <2>1, <2>2, <2>4 DEF Line, Decider
  <2>6. \A d \in live \ view'[w].todo : Answered(w, d)'
    <3>1. ASSUME NEW d \in live \ view'[w].todo, d # s
          PROVE  Answered(w, d) /\ view'[w].route[d] = view[w].route[d]
      BY <1>1, <2>1, <2>2, <3>1 DEF Seen
    <3>2. QED
      BY <1>1, <2>5, <3>1, SamePolicies DEF Answered
  <2>7. QED
    BY <1>1, <2>2, <2>3, <2>6, SamePolicies DEF Seen, Deciding
<1>7. QED
  BY <1>5, <1>6

LEMMA OrderStep ==
  ASSUME TypeOK, ResolvedSoFar, OneByOne, [Next]_vars
  PROVE  OneByOne'
<1>1. ASSUME NEW w \in Admins, Begun(w)
      PROVE  OneByOne'
  <2>1. PICK l \in Statements \cup {"apply"}, r \in Asked : Begin(w, l, r)
    BY <1>1 DEF Begun
  <2>2. /\ orderly' = (orderly /\ Others(w)) /\ pc[w] = "idle" /\ pc' = [pc EXCEPT ![w] = l]
        /\ UNCHANGED <<database, disk, view, files>>
    BY <2>1 DEF Begin, Goto, output, database
  <2>3. orderly' => /\ \A v \in Admins : pc[v] = "idle"
                    /\ \A v \in Admins \ {w} : pc'[v] = "idle"
    BY <2>2 DEF Others, TypeOK
  <2>4. orderly' => DiskIsCurrent'
    BY <2>2, <2>3, StillCurrent DEF OneByOne
  <2>5. pc'[w] \notin {"global", "relay", "domains", "write"}
    BY <2>2 DEF TypeOK, Statements
  <2>6. QED
    BY <2>3, <2>4, <2>5, Alone DEF Seen, Deciding
<1>2. ASSUME NEW w \in Admins, Statement(w)
      PROVE  OneByOne'
  <2>1. /\ pc[w] \in Statements /\ pc'[w] \in Statements \cup {"apply"} /\ orderly' = orderly
        /\ disk' = disk /\ \A v \in Admins \ {w} : pc'[v] = pc[v]
    BY <1>2, StatementShape DEF StatementFrame, output
  <2>2. orderly' => \A v \in Admins \ {w} : pc'[v] = "idle" /\ pc[v] = "idle"
    BY <2>1, OthersIdle DEF Statements
  <2>3. Seen(w)'
    BY <2>1 DEF Seen, Deciding, Statements
  <2>4. pc'[w] # "apply" => UNCHANGED database
    BY <1>2 DEF Statement, CreateDomain, DeleteDomain, CreateRelay, UpdateRelay,
                CountPolicies, DeleteRelay, CheckScope, CheckRelay, UpsertPolicy,
                DeletePolicy, Goto, TypeOK
  <2>5. orderly' /\ pc'[w] \in Statements \cup {"idle"} => DiskIsCurrent'
    BY <2>1, <2>2, <2>4, StillCurrent DEF OneByOne, Statements
  <2>6. QED
    BY <2>2, <2>3, <2>5, Alone
<1>3. ASSUME NEW w \in Admins, Rejected(w)
      PROVE  OneByOne'
  <2>1. /\ pc[w] \in Statements /\ orderly' = orderly /\ pc'[w] = "idle"
        /\ \A v \in Admins \ {w} : pc'[v] = pc[v]
        /\ UNCHANGED <<database, disk>>
    BY <1>3 DEF Rejected, Refuse, output, database, TypeOK
  <2>2. orderly' => \A v \in Admins \ {w} : pc'[v] = "idle" /\ pc[v] = "idle"
    BY <2>1, OthersIdle DEF Statements
  <2>3. orderly' => DiskIsCurrent'
    BY <2>1, <2>2, StillCurrent DEF OneByOne
  <2>4. QED
    BY <2>1, <2>2, <2>3, Alone DEF Seen, Deciding
<1>4. ASSUME NEW w \in Admins, ListDomains(w)
      PROVE  OneByOne'
  <2>1. /\ orderly' = Others(w) /\ pc' = [pc EXCEPT ![w] = "global"]
        /\ view' = [view EXCEPT ![w] = Data(Direct, Fresh.route, live)]
        /\ found' = [found EXCEPT ![w] = Start]
        /\ UNCHANGED <<database, disk>>
    BY <1>4 DEF ListDomains, Goto, output, database
  <2>2. /\ pc'[w] = "global" /\ found'[w].scope = Global
        /\ \A v \in Admins \ {w} : pc'[v] = pc[v]
    BY <2>1 DEF TypeOK, Start, Resolving
  <2>3. view'[w].todo = live'
    BY <2>1 DEF TypeOK, Data, database
  <2>4. Seen(w)'
    BY <2>2, <2>3 DEF Seen, Deciding
  <2>5. QED
    BY <2>1, <2>2, <2>4, Alone DEF Others, Statements
<1>5. ASSUME NEW w \in Admins,
             \/ Fail(w) \/ BuildFails(w) \/ WriteFails(w) \/ ReloadFails(w) \/ Crash
      PROVE  OneByOne'
  BY <1>5 DEF Fail, BuildFails, WriteFails, ReloadFails, Crash, OneByOne
<1>6. ASSUME NEW w \in Admins, Resolve(w), ~ Fail(w)
      PROVE  OneByOne'
  <2>1. /\ pc[w] \in {"global", "relay", "domains"} /\ pc'[w] \in {"global", "relay", "domains"}
        /\ \A v \in Admins \ {w} : pc'[v] = pc[v]
        /\ orderly' \in {orderly, FALSE} /\ UNCHANGED database
    BY <1>6, ResolveShape
  <2>2. orderly' => orderly /\ \A v \in Admins \ {w} : pc'[v] = "idle"
    BY <2>1, OthersIdle
  <2>3. orderly => Seen(w)
    BY DEF OneByOne
  <2>4. ASSUME orderly', NEW s \in Scopes, NEW source \in {"domain", "global"},
               Considers(w, s, source), Materializes(w, s, source)
        PROVE  Seen(w)'
    <3>1. /\ pc'[w] = "relay" /\ view'[w] = view[w] /\ found'[w].scope = s
          /\ found'[w].source = source
          /\ found'[w].relay = policy[Decider(s, source)].relay
          /\ policy[Decider(s, source)].mode = "relay"
          /\ policy[Decider(s, source)].relay # Null
      BY <2>4, NullAssumption DEF Materializes, LookUp, Resolving, Goto, TypeOK
    <3>2. (Deciding(w, Global) <=> s = Global)
      BY <2>4, ScopeAssumption DEF Deciding, Considers
    <3>3. s = Global \/ source = "domain" \/ ~ Overrides(s)
      BY <2>2, <2>3, <2>4 DEF Considers, Seen
    <3>4. Seen(w)
      BY <2>2, <2>3, <2>4
    <3>5. \A d \in live \ view[w].todo : Answered(w, d)'
      BY <2>1, <3>1, <3>4, SamePolicies DEF Seen, Answered
    <3>6. Deciding(w, Global)' => view[w].todo = live
      BY <3>1, <3>2, <3>4 DEF Seen, Deciding
    <3>7. s # Global => view[w].default = RouteOf(policy[Global])
      BY <2>1, <3>2, <3>4 DEF Seen
    <3>8. QED
      BY <2>1, <3>1, <3>3, <3>5, <3>6, <3>7, SamePolicies DEF Seen, Deciding, Decider
  <2>5. ASSUME orderly', NEW d \in Domains, Passes(w, d)
        PROVE  Seen(w)'
    <3>1. /\ pc[w] = "domains" /\ pc'[w] = "global" /\ view'[w] = view[w]
          /\ found'[w].scope = d /\ ~ Overrides(d) /\ d # Global
      BY <2>5, ScopeAssumption DEF Passes, FallThrough, Resolving, Goto, TypeOK
    <3>2. Seen(w)
      BY <2>2, <2>3, <2>5
    <3>3. \A e \in live \ view[w].todo : Answered(w, e)'
      BY <2>1, <3>1, <3>2, SamePolicies DEF Seen, Answered
    <3>4. view[w].default = RouteOf(policy[Global])
      BY <3>1, <3>2 DEF Seen
    <3>5. QED
      BY <2>1, <3>1, <3>3, <3>4, SamePolicies DEF Seen, Deciding
  <2>6. orderly' => Seen(w)'
    BY <1>6, <2>2, <2>3, <2>4, <2>5, Outcomes, SettlesSeen
  <2>7. QED
    BY <2>1, <2>2, <2>6, Alone DEF Statements
<1>7. ASSUME NEW w \in Admins, Render(w)
      PROVE  OneByOne'
  <2>1. /\ pc[w] = "domains" /\ view[w].todo = {} /\ pc' = [pc EXCEPT ![w] = "write"]
        /\ files' = [files EXCEPT ![w] = Files]
        /\ UNCHANGED <<database, disk, view, orderly>>
    BY <1>7 DEF Render, Goto, history, output, database
  <2>2. /\ pc'[w] = "write" /\ files'[w] = Files
        /\ \A v \in Admins \ {w} : pc'[v] = pc[v]
    BY <2>1 DEF TypeOK
  <2>3. orderly' => Seen(w)'
    BY <2>1, <2>2, SamePolicies DEF OneByOne, Seen, Answered, Deciding
  <2>4. orderly' => \A v \in Admins \ {w} : pc'[v] = "idle"
    BY <2>1, <2>2, OthersIdle
  <2>5. QED
    BY <2>2, <2>3, <2>4, Alone DEF Statements
<1>8. ASSUME NEW w \in Admins, NEW f \in Files, Write(w, f)
      PROVE  OneByOne'
  <2>1. /\ pc[w] = "write" /\ files' = [files EXCEPT ![w] = files[w] \ {f}]
        /\ disk' = [disk EXCEPT ![f] = view[w]]
        /\ UNCHANGED <<database, pc, view, orderly>>
    BY <1>8 DEF Write, history, output, database
  <2>2. /\ files'[w] = files[w] \ {f} /\ disk'[f] = view[w]
        /\ \A g \in Files \ {f} : disk'[g] = disk[g]
    BY <2>1 DEF TypeOK
  <2>3. orderly' => Seen(w)'
    BY <2>1, <2>2, SamePolicies DEF OneByOne, Seen, Answered, Deciding
  <2>4. orderly' => \A v \in Admins \ {w} : pc'[v] = "idle"
    BY <2>1, OthersIdle
  <2>5. QED
    BY <2>1, <2>3, <2>4, Alone DEF Statements
<1>9. ASSUME NEW w \in Admins, Reload(w)
      PROVE  OneByOne'
  <2>1. /\ pc[w] = "write" /\ files[w] = {} /\ pc' = [pc EXCEPT ![w] = "idle"]
        /\ UNCHANGED <<database, disk, orderly>>
    BY <1>9 DEF Reload, Goto, database
  <2>2. pc'[w] = "idle" /\ \A v \in Admins \ {w} : pc'[v] = pc[v]
    BY <2>1 DEF TypeOK
  <2>3. orderly' => DiskIsCurrent'
    <3>1. orderly => DiskIsCurrent
      BY <2>1, WrittenIsCurrent DEF OneByOne
    <3>2. QED
      BY <2>1, <3>1, StillCurrent
  <2>4. orderly' => \A v \in Admins \ {w} : pc'[v] = "idle"
    BY <2>1, <2>2, OthersIdle
  <2>5. QED
    BY <2>2, <2>3, <2>4, Alone DEF Seen, Deciding
<1>10. CASE UNCHANGED vars
  <2>1. UNCHANGED <<database, disk, pc, view, found, files, orderly>>
    BY <1>10 DEF vars, output, history
  <2>2. \A w \in Admins : Seen(w) => Seen(w)'
    BY <2>1, SamePolicies DEF Seen, Answered, Deciding
  <2>3. DiskIsCurrent => DiskIsCurrent'
    BY <2>1, StillCurrent
  <2>4. QED
    BY <2>1, <2>2, <2>3 DEF OneByOne
<1>11. CASE Crash
  BY <1>11 DEF Crash, OneByOne
<1>12. QED
  BY <1>1, <1>2, <1>3, <1>4, <1>5, <1>6, <1>7, <1>8, <1>9, <1>10, <1>11, Requested
     DEF Next, Apply, Resolve

LEMMA OrderInit == Init => OneByOne
<1>1. SUFFICES ASSUME Init PROVE OneByOne
  OBVIOUS
<1>2. DiskIsCurrent
  <2>1. ASSUME NEW d \in live
        PROVE  /\ Routed(disk, d) = Effective(d)
               /\ Effective(d) \in Logins => Effective(d) \in LoginsOf(disk["sasl_passwd"])
    <3>1. d \in Scopes /\ Global \in Scopes /\ d # Global
      BY <1>1, ScopeAssumption DEF Init, Scopes
    <3>2. policy[d] = NoPolicy /\ policy[Global].mode = "direct"
      BY <1>1, <3>1 DEF Init
    <3>3. Effective(d) = Direct
      BY <3>2 DEF Effective, Overrides, RouteOf, NoPolicy
    <3>4. Routed(disk, d) = Direct
      BY <1>1 DEF Init, Routed, Files, Fresh, Data
    <3>5. QED
      BY <3>3, <3>4, RouteAssumption
  <2>2. QED
    BY <2>1 DEF DiskIsCurrent
<1>3. QED
  BY <1>1, <1>2 DEF Init, OneByOne, Seen, Deciding

\* Requests served one after the other, none of which fails or passes over a policy
\* it could not read, leave in every file what the database asks for, whatever they
\* were and however many went before (Core's operations, Apply).
THEOREM OrderlyAlwaysCurrent == Spec => []OrderlyIsCurrent
<1>1. IInv /\ OneByOne /\ [Next]_vars => OneByOne'
  BY OrderStep DEF IInv
<1>2. OneByOne => OrderlyIsCurrent
  BY DEF OneByOne, OrderlyIsCurrent, Quiet, DiskIsCurrent
<1>3. QED
  BY <1>1, <1>2, OrderInit, Inductive, PTL DEF Spec
================================================================================
