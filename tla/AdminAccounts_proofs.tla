------------------------- MODULE AdminAccounts_proofs -------------------------
(***************************************************************************)
(* Proofs about AdminAccounts, for any number of administrators, requests  *)
(* and tokens.  Rows are never deleted, secrets are confirmed before they  *)
(* are stored, the first handle is written once unless two requests choose *)
(* it at the same time, and a bucket is only dropped when it is full.      *)
(***************************************************************************)
EXTENDS AdminAccounts, TLAPS

Registering == {"read", "choose", "use"}

\* A request has its number to itself: it is that of no row it has yet to insert.
Numbered ==
    /\ \A r \in Requests : pc[r] = "new" <=> r > requests
    /\ \A c \in challenges : c.id <= requests
    /\ \A p \in passkeys : p.id <= requests
    /\ \A r \in Requests : pc[r] \in Registering =>
          /\ \A c \in challenges : c.id # r
          /\ \A p \in passkeys : p.id # r

\* What a request holds where it is.
Holding ==
    /\ \A r \in Requests : pc[r] \notin {"new", "done"} => req[r].who \in Admins
    /\ \A r \in Requests : pc[r] \in Registering => req[r].kind \in {"options", "finish"}
    /\ \A r \in Requests : pc[r] \in Registering /\ req[r].kind = "finish" =>
          req[r].asked \in Requests
    /\ \A r \in Requests : pc[r] = "use" => req[r].mine \in Requests

\* A request that has got past its checks is of an account that exists.
OfAccounts ==
    /\ \A r \in Requests : pc[r] \notin {"new", "done", "insert"} => req[r].who \in Installed
    /\ \A p \in passkeys : p.owner \in Installed

\* A secret about to be stored has been confirmed.
Confirming ==
    \A r \in Requests : pc[r] = "enable" => req[r].code \in confirmed[req[r].who]

\* Until two requests choose at once, the first handle is chosen by one, while
\* there is none, and whoever has read it has read the one there is.
Handles ==
    /\ \A r \in Requests : pc[r] = "choose" /\ req[r].who \notin crowded =>
          /\ admin[req[r].who].handle = 0
          /\ \A s \in Requests : pc[s] = "choose" /\ req[s].who = req[r].who => s = r
    /\ \A r \in Requests : pc[r] = "use" /\ req[r].who \notin crowded =>
          req[r].mine = admin[req[r].who].handle

IInv == /\ TypeOK /\ Numbered /\ Holding /\ OfAccounts /\ NeverLockedOut
        /\ Confirming /\ SecretIsConfirmed /\ Handles /\ PasskeysSignIn
        /\ CleanupForgetsNothing

--------------------------------------------------------------------------------
LEMMA Begun ==
    ASSUME TypeOK, Numbered, NEW r \in Requests, NEW at, NEW what, Begin(r, at, what)
    PROVE  /\ pc[r] = "new" /\ r = requests + 1 /\ requests' = r
           /\ pc'[r] = at /\ (at # "done" => req'[r] = what)
           /\ \A s \in Requests : s # r => pc'[s] = pc[s] /\ req'[s] = req[s]
BY BoundAssumption DEF TypeOK, Numbered, Begin, Requests, Numbers

LEMMA ChallengeFacts ==
    ASSUME TypeOK, NEW c \in challenges
    PROVE  c.id \in Requests /\ c.owner \in Admins /\ c.data \in Requests
BY DEF TypeOK

\* What all that begins a request has in common.
LEMMA AskedCases ==
    ASSUME TypeOK, Numbered, NEW r \in Requests, NEW a \in Admins, Asked(r, a)
    PROVE  /\ pc[r] = "new" /\ r = requests + 1 /\ requests' = r
           /\ \A s \in Requests : s # r => pc'[s] = pc[s] /\ req'[s] = req[s]
           /\ admin' = admin /\ initialized' = initialized
           /\ sessions' = sessions /\ crowded' = crowded
           /\ passkeys' \subseteq passkeys
           /\ \A c \in challenges' : c \in challenges \/ c = Challenge(r, a, "totp", r)
           /\ pc'[r] \in {"insert", "complete", "session", "enable", "disable", "read", "done"}
           /\ pc'[r] # "done" => req'[r].who = a
           /\ pc'[r] \in {"complete", "enable", "disable", "read"} => a \in sessions
           /\ pc'[r] = "session" => admin[a].exists \/ \E p \in passkeys : p.owner = a
           /\ pc'[r] = "read" => /\ req'[r].kind \in {"options", "finish"}
                                 /\ req'[r].kind = "finish" => req'[r].asked \in Requests
           /\ pc'[r] = "enable" => req'[r].code \in confirmed'[a]
           /\ \A b \in Admins : confirmed[b] \subseteq confirmed'[b]
<1> USE DEF accounts, history
<1>1. CASE CreateAdmin(r, a)
    <2> DEFINE what == [Draft EXCEPT !.kind = "createAdmin", !.who = a]
    <2>1. PICK at \in {"insert", "done"} : Begin(r, at, what)
        BY <1>1 DEF CreateAdmin
    <2>2. what.who = a
        BY DEF Draft
    <2> HIDE DEF what
    <2>3. pc'[r] = at /\ (at # "done" => req'[r] = what)
        BY <2>1, Begun
    <2>4. UNCHANGED <<accounts, history>>
        BY <1>1 DEF CreateAdmin
    <2> QED
        BY <2>1, <2>2, <2>3, <2>4, Begun
<1>2. CASE Complete(r, a)
    <2> DEFINE at   == "complete"
               what == [[Draft EXCEPT !.kind = "complete"] EXCEPT !.who = a]
    <2>1. Begin(r, at, what) /\ a \in sessions
        BY <1>2 DEF Complete, Authed
    <2>2. at = "complete" /\ what.who = a
        BY DEF Draft
    <2> HIDE DEF at, what
    <2>3. pc'[r] = at /\ (at # "done" => req'[r] = what)
        BY <2>1, Begun
    <2>4. UNCHANGED <<accounts, history>>
        BY <1>2 DEF Complete
    <2> QED
        BY <2>1, <2>2, <2>3, <2>4, Begun
<1>3. CASE Login(r, a)
    <2>0. PICK code \in 0..requests :
            Begin(r, IF Allowed /\ admin[a].exists /\ (admin[a].enabled => code = admin[a].secret) THEN "session" ELSE "done",
                  [Draft EXCEPT !.kind = "login", !.who = a])
        BY <1>3 DEF Login
    <2> DEFINE at   == IF Allowed /\ admin[a].exists /\ (admin[a].enabled => code = admin[a].secret) THEN "session" ELSE "done"
               what == [Draft EXCEPT !.kind = "login", !.who = a]
    <2>1. Begin(r, at, what)
        BY <2>0
    <2>2. at \in {"session", "done"} /\ what.who = a /\ (at = "session" => admin[a].exists)
        BY DEF Draft
    <2> HIDE DEF at, what
    <2>3. pc'[r] = at /\ (at # "done" => req'[r] = what)
        BY <2>1, Begun
    <2>4. UNCHANGED <<accounts, history>>
        BY <1>3 DEF Login
    <2> QED
        BY <2>1, <2>2, <2>3, <2>4, Begun
<1>4. CASE PasskeyLogin(r, a)
    <2>0. PICK p \in passkeys :
            Begin(r, IF p.owner = a /\ p.handle = admin[a].handle THEN "session" ELSE "done",
                  [Draft EXCEPT !.kind = "login", !.who = a])
        BY <1>4 DEF PasskeyLogin
    <2> DEFINE at   == IF p.owner = a /\ p.handle = admin[a].handle THEN "session" ELSE "done"
               what == [Draft EXCEPT !.kind = "login", !.who = a]
    <2>1. Begin(r, at, what)
        BY <2>0
    <2>2. at \in {"session", "done"} /\ what.who = a /\ (at = "session" => p.owner = a)
        BY DEF Draft
    <2> HIDE DEF at, what
    <2>3. pc'[r] = at /\ (at # "done" => req'[r] = what)
        BY <2>1, Begun
    <2>4. UNCHANGED <<accounts, history>>
        BY <1>4 DEF PasskeyLogin
    <2> QED
        BY <2>1, <2>2, <2>3, <2>4, Begun
<1>5. CASE TotpSetup(r, a)
    BY <1>5, Begun DEF TotpSetup, Authed, Draft
<1>6. CASE TotpEnable(r, a)
    <2>0. PICK id \in 1..requests, code \in 1..requests : \E c \in ChallengeOf(id, "totp", a) :
            /\ code = c.data
            /\ Authed(r, "enable", a, [Draft EXCEPT !.kind = "enable", !.id = id, !.code = code])
            /\ confirmed' = IF code \in {d.data : d \in {e \in challenges : e.owner = a}}
                            THEN [confirmed EXCEPT ![a] = @ \cup {code}] ELSE confirmed
        BY <1>6 DEF TotpEnable
    <2>1. PICK c \in ChallengeOf(id, "totp", a) :
            /\ code = c.data
            /\ Authed(r, "enable", a, [Draft EXCEPT !.kind = "enable", !.id = id, !.code = code])
            /\ confirmed' = IF code \in {d.data : d \in {e \in challenges : e.owner = a}}
                            THEN [confirmed EXCEPT ![a] = @ \cup {code}] ELSE confirmed
        BY <2>0
    <2>2. code \in {d.data : d \in {e \in challenges : e.owner = a}}
        BY <2>1 DEF ChallengeOf
    <2>3. confirmed' = [confirmed EXCEPT ![a] = @ \cup {code}]
        BY <2>1, <2>2
    <2>4. code \in confirmed'[a] /\ \A b \in Admins : confirmed[b] \subseteq confirmed'[b]
        BY <2>3 DEF TypeOK
    <2> DEFINE what == [[Draft EXCEPT !.kind = "enable", !.id = id, !.code = code]
                          EXCEPT !.who = a]
    <2>5. a \in sessions /\ Begin(r, "enable", what)
        BY <2>1 DEF Authed
    <2>6. what.who = a /\ what.code = code
        BY DEF Draft
    <2> HIDE DEF what
    <2>7. pc'[r] = "enable" /\ req'[r] = what
        BY <2>5, Begun
    <2>8. UNCHANGED <<accounts, crowded>>
        BY <1>6 DEF TotpEnable
    <2> QED
        BY <2>4, <2>5, <2>6, <2>7, <2>8, Begun
<1>7. CASE TotpDisable(r, a)
    <2>0. PICK code \in 0..requests :
            Begin(r, IF admin[a].enabled => code = admin[a].secret THEN "disable" ELSE "done",
                  [[Draft EXCEPT !.kind = "disable"] EXCEPT !.who = a]) /\ a \in sessions
        BY <1>7 DEF TotpDisable, Authed
    <2> DEFINE at   == IF admin[a].enabled => code = admin[a].secret THEN "disable" ELSE "done"
               what == [[Draft EXCEPT !.kind = "disable"] EXCEPT !.who = a]
    <2>1. Begin(r, at, what) /\ a \in sessions
        BY <2>0
    <2>2. at \in {"disable", "done"} /\ what.who = a
        BY DEF Draft
    <2> HIDE DEF at, what
    <2>3. pc'[r] = at /\ (at # "done" => req'[r] = what)
        BY <2>1, Begun
    <2>4. UNCHANGED <<accounts, history>>
        BY <1>7 DEF TotpDisable
    <2> QED
        BY <2>1, <2>2, <2>3, <2>4, Begun
<1>8. CASE RegisterOptions(r, a)
    <2> DEFINE at   == "read"
               what == [[Draft EXCEPT !.kind = "options"] EXCEPT !.who = a]
    <2>1. Begin(r, at, what) /\ a \in sessions
        BY <1>8 DEF RegisterOptions, Authed
    <2>2. at = "read" /\ what.who = a /\ what.kind = "options"
        BY DEF Draft
    <2> HIDE DEF at, what
    <2>3. pc'[r] = at /\ (at # "done" => req'[r] = what)
        BY <2>1, Begun
    <2>4. UNCHANGED <<accounts, history>>
        BY <1>8 DEF RegisterOptions
    <2> QED
        BY <2>1, <2>2, <2>3, <2>4, Begun
<1>9. CASE RegisterFinish(r, a)
    <2>1. PICK id \in 1..requests :
            /\ ChallengeOf(id, "passkey", a) # {}
            /\ Authed(r, "read", a, [Draft EXCEPT !.kind = "finish", !.id = id,
                 !.asked = (CHOOSE c \in ChallengeOf(id, "passkey", a) : TRUE).data])
        BY <1>9 DEF RegisterFinish
    <2> DEFINE c    == CHOOSE c \in ChallengeOf(id, "passkey", a) : TRUE
               what == [[Draft EXCEPT !.kind = "finish", !.id = id, !.asked = c.data]
                          EXCEPT !.who = a]
    <2>2. c \in challenges
        BY <2>1 DEF ChallengeOf
    <2>3. c.data \in Requests
        BY <2>2, ChallengeFacts
    <2>4. a \in sessions /\ Begin(r, "read", what)
        BY <2>1 DEF Authed
    <2>5. what.who = a /\ what.kind = "finish" /\ what.asked = c.data
        BY DEF Draft
    <2> HIDE DEF what, c
    <2>6. pc'[r] = "read" /\ req'[r] = what
        BY <2>4, Begun
    <2>7. UNCHANGED <<accounts, history>>
        BY <1>9 DEF RegisterFinish
    <2> QED
        BY <2>3, <2>4, <2>5, <2>6, <2>7, Begun
<1>10. CASE PasskeyDelete(r, a)
    BY <1>10, Begun DEF PasskeyDelete, Authed, Draft
<1> QED
    BY <1>1, <1>2, <1>3, <1>4, <1>5, <1>6, <1>7, <1>8, <1>9, <1>10, Begun DEF Asked

\* What all the later steps of a request have in common.
LEMMA StepCases ==
    ASSUME TypeOK, NEW r \in Requests, Step(r)
    PROVE  /\ \A s \in Requests : s # r => pc'[s] = pc[s] /\ req'[s] = req[s]
           /\ requests' = requests /\ confirmed' = confirmed /\ crowded \subseteq crowded'
           /\ pc[r] \notin {"new", "done"} /\ pc'[r] \in {"done", "session", "spent", "choose", "use"}
           /\ pc'[r] = "session" => /\ pc[r] = "insert" /\ req'[r] = req[r]
                                    /\ req[r].who \in Admins => admin'[req[r].who].exists
           /\ pc'[r] = "spent" => req'[r] = req[r] /\ pc[r] \in {"enable", "use"}
           /\ pc'[r] = "choose" => pc[r] = "read"
           /\ pc'[r] = "use" => pc[r] \in {"read", "choose"}
           /\ pc'[r] \in {"choose", "use"} =>
                 /\ req'[r].who = req[r].who /\ req'[r].kind = req[r].kind
                 /\ req'[r].asked = req[r].asked
           /\ \A a \in Admins : admin[a].exists => admin'[a].exists
<1> USE DEF TypeOK, history
<1>1. CASE InsertAdmin(r)
    BY <1>1 DEF InsertAdmin, Done, Go, NewAdmin, Row
<1>2. CASE SetInitialized(r) \/ StoreSession(r) \/ Offer(r) \/ Spend(r)
    BY <1>2 DEF SetInitialized, StoreSession, Offer, Spend, Done
<1>3. CASE StoreSecret(r)
    BY <1>3 DEF StoreSecret, Go
<1>4. CASE ClearSecret(r)
    BY <1>4 DEF ClearSecret, Done
<1>5. CASE ReadHandle(r)
    BY <1>5 DEF ReadHandle, accounts
<1>6. CASE ChooseHandle(r)
    BY <1>6 DEF ChooseHandle
<1>7. CASE SavePasskey(r)
    BY <1>7 DEF SavePasskey, Go, Done
<1>8. CASE Fail(r)
    BY <1>8 DEF Fail, Done, accounts
<1> QED
    BY <1>1, <1>2, <1>3, <1>4, <1>5, <1>6, <1>7, <1>8 DEF Step

\* What fails ends there.
LEMMA FailEnds ==
    ASSUME TypeOK, NEW r \in Requests, Fail(r)
    PROVE  pc'[r] = "done" /\ UNCHANGED <<accounts, limiter, history>>
BY DEF Fail, Done, TypeOK

\* Where registration is asked for, no challenge is issued yet.
LEMMA AskedReads ==
    ASSUME TypeOK, Numbered, NEW r \in Requests, NEW a \in Admins, Asked(r, a), pc'[r] = "read"
    PROVE  challenges' = challenges
<1>1. CASE TotpSetup(r, a)
    BY <1>1, Begun DEF TotpSetup, Authed
<1>2. CASE ~TotpSetup(r, a)
    BY <1>2 DEF Asked, CreateAdmin, Complete, Login, PasskeyLogin, TotpEnable, TotpDisable,
                RegisterOptions, RegisterFinish, PasskeyDelete, accounts
<1> QED
    BY <1>1, <1>2

\* Numbers are given out in order.
LEMMA StepNumbered ==
    ASSUME TypeOK, Numbered, [Next]_vars PROVE Numbered'
<1> USE DEF Numbered, Registering
<1>1. ASSUME NEW r \in Requests, NEW a \in Admins, Asked(r, a) PROVE Numbered'
    <2>1. requests \in Nat /\ \A s \in Requests : s \in Nat
        BY BoundAssumption DEF TypeOK, Requests, Numbers
    <2>2. \A c \in challenges' : c \in challenges \/ c.id = r
        BY <1>1, AskedCases DEF Challenge
    <2>3. \A s \in Requests : pc'[s] \in Registering => pc[s] \in Registering \/ s = r
        BY <1>1, AskedCases
    <2>4. \A s \in Requests : pc[s] \in Registering => s <= requests
        BY <2>1
    <2>5. pc'[r] = "read" => passkeys' \subseteq passkeys /\ challenges' = challenges
        BY <1>1, AskedCases, AskedReads
    <2>6. \A c \in challenges : c.id \in Nat
        BY <2>1, ChallengeFacts
    <2>7. \A p \in passkeys : p.id \in Nat
        BY <2>1 DEF TypeOK
    <2>8. \A s \in Requests : pc'[s] = "new" <=> s > requests'
        BY <1>1, <2>1, AskedCases
    <2>9. /\ \A c \in challenges' : c.id <= requests'
          /\ \A p \in passkeys' : p.id <= requests'
        BY <1>1, <2>1, <2>2, <2>6, <2>7, AskedCases
    <2>10. ASSUME NEW s \in Requests, pc'[s] \in Registering
           PROVE  (\A c \in challenges' : c.id # s) /\ \A p \in passkeys' : p.id # s
        <3>1. CASE s = r
            BY <1>1, <2>1, <2>5, <2>6, <2>7, <2>10, <3>1, AskedCases
        <3>2. CASE s # r
            BY <1>1, <2>2, <2>3, <2>10, <3>2, AskedCases
        <3> QED
            BY <3>1, <3>2
    <2> QED
        BY <2>8, <2>9, <2>10
<1>2. ASSUME NEW r \in Requests, Step(r) PROVE Numbered'
    <2>1. CASE InsertAdmin(r)
        BY <2>1, <1>2, StepCases DEF InsertAdmin
    <2>2. CASE SetInitialized(r)
        BY <2>2, <1>2, StepCases DEF SetInitialized
    <2>3. CASE StoreSession(r)
        BY <2>3, <1>2, StepCases DEF StoreSession
    <2>4. CASE StoreSecret(r)
        BY <2>4, <1>2, StepCases DEF StoreSecret
    <2>5. CASE ClearSecret(r)
        BY <2>5, <1>2, StepCases DEF ClearSecret
    <2>6. CASE ReadHandle(r)
        BY <2>6, <1>2, StepCases DEF ReadHandle, accounts
    <2>7. CASE ChooseHandle(r)
        BY <2>7, <1>2, StepCases DEF ChooseHandle
    <2>8. CASE Offer(r)
        <3>1. pc'[r] = "done" /\ passkeys' = passkeys
            BY <2>8 DEF Offer, Done, TypeOK
        <3>2. \A c \in challenges' : c \in challenges \/ c.id = r
            BY <2>8 DEF Offer, Challenge
        <3>3. r \in Nat /\ requests \in Nat /\ r <= requests
            BY <2>8, BoundAssumption DEF Offer, TypeOK, Requests, Numbers
        <3>4. /\ \A s \in Requests : s # r => pc'[s] = pc[s]
              /\ requests' = requests /\ pc[r] # "new"
            BY <1>2, StepCases
        <3>5. \A s \in Requests : pc'[s] = "new" <=> s > requests'
            BY <3>1, <3>4
        <3>6. \A c \in challenges' : c.id <= requests'
            BY <3>2, <3>3, <3>4
        <3>7. \A s \in Requests : pc'[s] \in Registering => s # r /\ pc[s] \in Registering
            BY <3>1, <3>4
        <3> QED
            BY <3>1, <3>2, <3>4, <3>5, <3>6, <3>7
    <2>9. CASE SavePasskey(r)
        <3>1. pc'[r] \in {"spent", "done"} /\ challenges' = challenges
            BY <2>9 DEF SavePasskey, Go, Done, TypeOK
        <3>2. \A p \in passkeys' : p \in passkeys \/ p.id = r
            BY <2>9 DEF SavePasskey
        <3>3. r \in Nat /\ requests \in Nat /\ r <= requests
            BY <2>9, BoundAssumption DEF SavePasskey, TypeOK, Requests, Numbers
        <3>4. /\ \A s \in Requests : s # r => pc'[s] = pc[s]
              /\ requests' = requests /\ pc[r] # "new"
            BY <1>2, StepCases
        <3>5. \A s \in Requests : pc'[s] = "new" <=> s > requests'
            BY <3>1, <3>4
        <3>6. \A p \in passkeys' : p.id <= requests'
            BY <3>2, <3>3, <3>4
        <3>7. \A s \in Requests : pc'[s] \in Registering => s # r /\ pc[s] \in Registering
            BY <3>1, <3>4
        <3> QED
            BY <3>1, <3>2, <3>4, <3>5, <3>6, <3>7
    <2>10. CASE Spend(r)
        BY <2>10, <1>2, StepCases DEF Spend
    <2>11. CASE Fail(r)
        BY <2>11, <1>2, StepCases, FailEnds DEF accounts, limiter, history
    <2> QED
        BY <1>2, <2>1, <2>2, <2>3, <2>4, <2>5, <2>6, <2>7, <2>8, <2>9, <2>10, <2>11 DEF Step
<1>3. ASSUME NEW a \in Admins, Logout(a) PROVE Numbered'
    BY <1>3 DEF Logout, history, limiter
<1>4. CASE Tick
    BY <1>4 DEF Tick, accounts, history, limiter
<1>5. CASE Cleanup
    BY <1>5 DEF Cleanup, accounts, history, limiter
<1>6. CASE Expire
    BY <1>6 DEF Expire, accounts, history, limiter
<1>7. CASE UNCHANGED vars
    BY <1>7 DEF vars, accounts, history, limiter
<1> QED
    BY <1>1, <1>2, <1>3, <1>4, <1>5, <1>6, <1>7 DEF Next

\* What is read is what was written.
LEMMA StepHolding ==
    ASSUME TypeOK, Numbered, Holding, [Next]_vars PROVE Holding'
<1> USE DEF Holding, Registering
<1>1. ASSUME NEW r \in Requests, NEW a \in Admins, Asked(r, a) PROVE Holding'
    BY <1>1, AskedCases
<1>2. ASSUME NEW r \in Requests, Step(r) PROVE Holding'
    <2>1. CASE InsertAdmin(r)
        BY <2>1, <1>2, StepCases DEF InsertAdmin
    <2>2. CASE SetInitialized(r)
        BY <2>2, <1>2, StepCases DEF SetInitialized
    <2>3. CASE StoreSession(r)
        BY <2>3, <1>2, StepCases DEF StoreSession
    <2>4. CASE StoreSecret(r)
        BY <2>4, <1>2, StepCases DEF StoreSecret
    <2>5. CASE ClearSecret(r)
        BY <2>5, <1>2, StepCases DEF ClearSecret
    <2>6. CASE ReadHandle(r)
        <3>1. admin[req[r].who].handle # 0 => admin[req[r].who].handle \in Requests
            <4>1. req[r].who \in Admins
                BY <2>6 DEF ReadHandle
            <4>2. admin[req[r].who].handle \in Numbers
                BY <4>1 DEF TypeOK
            <4> QED
                BY <4>2, BoundAssumption DEF Requests, Numbers
        <3>2. pc'[r] = "use" => req'[r].mine \in Requests
            BY <2>6, <3>1 DEF ReadHandle, TypeOK
        <3> QED
            BY <1>2, <3>2, StepCases
    <2>7. CASE ChooseHandle(r)
        <3>1. pc'[r] = "use" => req'[r].mine \in Requests
            BY <2>7 DEF ChooseHandle, TypeOK
        <3> QED
            BY <1>2, <3>1, StepCases
    <2>8. CASE Offer(r)
        BY <2>8, <1>2, StepCases DEF Offer
    <2>9. CASE SavePasskey(r)
        BY <2>9, <1>2, StepCases DEF SavePasskey
    <2>10. CASE Spend(r)
        BY <2>10, <1>2, StepCases DEF Spend
    <2>11. CASE Fail(r)
        BY <2>11, <1>2, StepCases, FailEnds DEF accounts, limiter, history
    <2> QED
        BY <1>2, <2>1, <2>2, <2>3, <2>4, <2>5, <2>6, <2>7, <2>8, <2>9, <2>10, <2>11 DEF Step
<1>3. ASSUME NEW a \in Admins, Logout(a) PROVE Holding'
    BY <1>3 DEF Logout, history, limiter
<1>4. CASE Tick
    BY <1>4 DEF Tick, accounts, history, limiter
<1>5. CASE Cleanup
    BY <1>5 DEF Cleanup, accounts, history, limiter
<1>6. CASE Expire
    BY <1>6 DEF Expire, accounts, history, limiter
<1>7. CASE UNCHANGED vars
    BY <1>7 DEF vars, accounts, history, limiter
<1> QED
    BY <1>1, <1>2, <1>3, <1>4, <1>5, <1>6, <1>7 DEF Next

\* Accounts stay.
LEMMA StepOfAccounts ==
    ASSUME TypeOK, Numbered, Holding, OfAccounts, NeverLockedOut, [Next]_vars PROVE OfAccounts'
<1> USE DEF OfAccounts, Installed
<1>1. ASSUME NEW r \in Requests, NEW a \in Admins, Asked(r, a) PROVE OfAccounts'
    BY <1>1, AskedCases DEF NeverLockedOut
<1>2. ASSUME NEW r \in Requests, Step(r) PROVE OfAccounts'
    <2>1. CASE InsertAdmin(r)
        <3>1. pc'[r] \in {"done", "session"} /\ passkeys' = passkeys
            BY <2>1 DEF InsertAdmin, Done, Go, TypeOK
        <3>2. req[r].who \in Admins
            BY <2>1 DEF InsertAdmin, Holding
        <3> QED
            BY <1>2, <3>1, <3>2, StepCases
    <2>2. CASE SetInitialized(r)
        BY <2>2, <1>2, StepCases DEF SetInitialized
    <2>3. CASE StoreSession(r)
        BY <2>3, <1>2, StepCases DEF StoreSession
    <2>4. CASE StoreSecret(r)
        BY <2>4, <1>2, StepCases DEF StoreSecret
    <2>5. CASE ClearSecret(r)
        BY <2>5, <1>2, StepCases DEF ClearSecret
    <2>6. CASE ReadHandle(r)
        BY <2>6, <1>2, StepCases DEF ReadHandle, accounts
    <2>7. CASE ChooseHandle(r)
        BY <2>7, <1>2, StepCases DEF ChooseHandle
    <2>8. CASE Offer(r)
        BY <2>8, <1>2, StepCases DEF Offer
    <2>9. CASE SavePasskey(r)
        <3>1. \A p \in passkeys' : p \in passkeys \/ p.owner = req[r].who
            BY <2>9 DEF SavePasskey
        <3>2. req[r].who \in Installed /\ admin' = admin
            BY <2>9 DEF SavePasskey
        <3> QED
            BY <1>2, <3>1, <3>2, StepCases
    <2>10. CASE Spend(r)
        BY <2>10, <1>2, StepCases DEF Spend
    <2>11. CASE Fail(r)
        BY <2>11, <1>2, StepCases, FailEnds DEF accounts, limiter, history
    <2> QED
        BY <1>2, <2>1, <2>2, <2>3, <2>4, <2>5, <2>6, <2>7, <2>8, <2>9, <2>10, <2>11 DEF Step
<1>3. ASSUME NEW a \in Admins, Logout(a) PROVE OfAccounts'
    BY <1>3 DEF Logout, history, limiter
<1>4. CASE Tick
    BY <1>4 DEF Tick, accounts, history, limiter
<1>5. CASE Cleanup
    BY <1>5 DEF Cleanup, accounts, history, limiter
<1>6. CASE Expire
    BY <1>6 DEF Expire, accounts, history, limiter
<1>7. CASE UNCHANGED vars
    BY <1>7 DEF vars, accounts, history, limiter
<1> QED
    BY <1>1, <1>2, <1>3, <1>4, <1>5, <1>6, <1>7 DEF Next

\* Only accounts sign in, and only a signed-in account ends the setup.
LEMMA StepLockedOut ==
    ASSUME TypeOK, Numbered, Holding, OfAccounts, NeverLockedOut, [Next]_vars PROVE NeverLockedOut'
<1> USE DEF NeverLockedOut, OfAccounts, Installed
<1>1. ASSUME NEW r \in Requests, NEW a \in Admins, Asked(r, a) PROVE NeverLockedOut'
    BY <1>1, AskedCases
<1>2. ASSUME NEW r \in Requests, Step(r) PROVE NeverLockedOut'
    <2>1. CASE InsertAdmin(r)
        <3>1. sessions' = sessions /\ initialized' = initialized
            BY <2>1 DEF InsertAdmin
        <3> QED
            BY <1>2, <3>1, StepCases
    <2>2. CASE SetInitialized(r)
        BY <2>2, <1>2, StepCases DEF SetInitialized
    <2>3. CASE StoreSession(r)
        BY <2>3, <1>2, StepCases DEF StoreSession, SignIn
    <2>4. CASE StoreSecret(r)
        BY <2>4, <1>2, StepCases DEF StoreSecret
    <2>5. CASE ClearSecret(r)
        BY <2>5, <1>2, StepCases DEF ClearSecret
    <2>6. CASE ReadHandle(r)
        BY <2>6, <1>2, StepCases DEF ReadHandle, accounts
    <2>7. CASE ChooseHandle(r)
        BY <2>7, <1>2, StepCases DEF ChooseHandle
    <2>8. CASE Offer(r)
        BY <2>8, <1>2, StepCases DEF Offer
    <2>9. CASE SavePasskey(r)
        BY <2>9, <1>2, StepCases DEF SavePasskey
    <2>10. CASE Spend(r)
        BY <2>10, <1>2, StepCases DEF Spend
    <2>11. CASE Fail(r)
        BY <2>11, <1>2, StepCases, FailEnds DEF accounts, limiter, history
    <2> QED
        BY <1>2, <2>1, <2>2, <2>3, <2>4, <2>5, <2>6, <2>7, <2>8, <2>9, <2>10, <2>11 DEF Step
<1>3. ASSUME NEW a \in Admins, Logout(a) PROVE NeverLockedOut'
    BY <1>3 DEF Logout, history, limiter
<1>4. CASE Tick
    BY <1>4 DEF Tick, accounts, history, limiter
<1>5. CASE Cleanup
    BY <1>5 DEF Cleanup, accounts, history, limiter
<1>6. CASE Expire
    BY <1>6 DEF Expire, accounts, history, limiter
<1>7. CASE UNCHANGED vars
    BY <1>7 DEF vars, accounts, history, limiter
<1> QED
    BY <1>1, <1>2, <1>3, <1>4, <1>5, <1>6, <1>7 DEF Next

\* Confirmed, then stored.
LEMMA StepSecret ==
    ASSUME TypeOK, Numbered, Holding, Confirming, SecretIsConfirmed, [Next]_vars PROVE (Confirming /\ SecretIsConfirmed)'
<1> USE DEF Confirming, SecretIsConfirmed
<1>1. ASSUME NEW r \in Requests, NEW a \in Admins, Asked(r, a) PROVE (Confirming /\ SecretIsConfirmed)'
    <2>1. /\ pc'[r] = "enable" => req'[r].code \in confirmed'[req'[r].who]
          /\ \A s \in Requests : s # r => pc'[s] = pc[s] /\ req'[s] = req[s]
          /\ admin' = admin /\ \A b \in Admins : confirmed[b] \subseteq confirmed'[b]
        BY <1>1, AskedCases
    <2> QED
        BY <2>1 DEF Holding
<1>2. ASSUME NEW r \in Requests, Step(r) PROVE (Confirming /\ SecretIsConfirmed)'
    <2>1. CASE InsertAdmin(r)
        <3>1. \A a \in Admins : admin'[a] = admin[a] \/ admin'[a].enabled = FALSE
            BY <2>1 DEF InsertAdmin, NewAdmin, Row, TypeOK
        <3> QED
            BY <1>2, <3>1, StepCases
    <2>2. CASE SetInitialized(r)
        BY <2>2, <1>2, StepCases DEF SetInitialized
    <2>3. CASE StoreSession(r)
        BY <2>3, <1>2, StepCases DEF StoreSession
    <2>4. CASE StoreSecret(r)
        <3>1. req[r].who \in Admins
            BY <2>4 DEF StoreSecret, Holding
        <3>2. \A a \in Admins : a # req[r].who => admin'[a] = admin[a]
            BY <2>4 DEF StoreSecret, TypeOK
        <3>3. admin'[req[r].who].secret = req[r].code /\ req[r].code \in confirmed[req[r].who]
            BY <2>4, <3>1 DEF StoreSecret, TypeOK
        <3>4. pc'[r] # "enable"
            BY <1>2, StepCases
        <3> QED
            BY <1>2, <3>1, <3>2, <3>3, <3>4, StepCases
    <2>5. CASE ClearSecret(r)
        <3>1. req[r].who \in Admins
            BY <2>5 DEF ClearSecret, Holding
        <3>2. \A a \in Admins : a # req[r].who => admin'[a] = admin[a]
            BY <2>5 DEF ClearSecret, TypeOK
        <3>3. admin'[req[r].who].enabled = FALSE
            BY <2>5, <3>1 DEF ClearSecret, TypeOK
        <3>4. pc'[r] # "enable"
            BY <1>2, StepCases
        <3> QED
            BY <1>2, <3>1, <3>2, <3>3, <3>4, StepCases
    <2>6. CASE ReadHandle(r)
        BY <2>6, <1>2, StepCases DEF ReadHandle, accounts
    <2>7. CASE ChooseHandle(r)
        <3>1. \A a \in Admins : /\ admin'[a].enabled = admin[a].enabled
                                /\ admin'[a].secret = admin[a].secret
            BY <2>7 DEF ChooseHandle, TypeOK
        <3> QED
            BY <1>2, <3>1, StepCases
    <2>8. CASE Offer(r)
        BY <2>8, <1>2, StepCases DEF Offer
    <2>9. CASE SavePasskey(r)
        BY <2>9, <1>2, StepCases DEF SavePasskey
    <2>10. CASE Spend(r)
        BY <2>10, <1>2, StepCases DEF Spend
    <2>11. CASE Fail(r)
        BY <2>11, <1>2, StepCases, FailEnds DEF accounts, limiter, history
    <2> QED
        BY <1>2, <2>1, <2>2, <2>3, <2>4, <2>5, <2>6, <2>7, <2>8, <2>9, <2>10, <2>11 DEF Step
<1>3. ASSUME NEW a \in Admins, Logout(a) PROVE (Confirming /\ SecretIsConfirmed)'
    BY <1>3 DEF Logout, history, limiter
<1>4. CASE Tick
    BY <1>4 DEF Tick, accounts, history, limiter
<1>5. CASE Cleanup
    BY <1>5 DEF Cleanup, accounts, history, limiter
<1>6. CASE Expire
    BY <1>6 DEF Expire, accounts, history, limiter
<1>7. CASE UNCHANGED vars
    BY <1>7 DEF vars, accounts, history, limiter
<1> QED
    BY <1>1, <1>2, <1>3, <1>4, <1>5, <1>6, <1>7 DEF Next

\* A passkey carries the handle its request has read.
LEMMA SavePasskeyAdds ==
    ASSUME NEW r \in Requests, SavePasskey(r)
    PROVE  \A p \in passkeys' : \/ p \in passkeys
                                \/ /\ p.owner = req[r].who /\ p.handle = req[r].mine
                                   /\ p.id = r /\ req[r].kind = "finish" /\ pc[r] = "use"
BY DEF SavePasskey

LEMMA PasskeyOwners == ASSUME TypeOK, NEW p \in passkeys PROVE p.owner \in Admins
BY DEF TypeOK

\* The first handle is the last.
LEMMA StepHandles ==
    ASSUME TypeOK, Numbered, Holding, OfAccounts, Handles, PasskeysSignIn, [Next]_vars PROVE (Handles /\ PasskeysSignIn)'
<1> USE DEF Handles, PasskeysSignIn
<1>1. ASSUME NEW r \in Requests, NEW a \in Admins, Asked(r, a) PROVE (Handles /\ PasskeysSignIn)'
    BY <1>1, AskedCases
<1>2. ASSUME NEW r \in Requests, Step(r) PROVE (Handles /\ PasskeysSignIn)'
    <2>1. CASE InsertAdmin(r)
        <3>1. \A a \in Installed : admin'[a] = admin[a]
            BY <2>1 DEF InsertAdmin, Installed, TypeOK
        <3>2. passkeys' = passkeys /\ crowded' = crowded /\ pc'[r] \in {"done", "session"}
            BY <2>1 DEF InsertAdmin, Done, Go, history, TypeOK
        <3> QED
            BY <1>2, <3>1, <3>2, StepCases DEF OfAccounts
    <2>2. CASE SetInitialized(r)
        <3>1. /\ admin' = admin /\ crowded' = crowded /\ passkeys' = passkeys /\ pc'[r] = "done"
            BY <2>2 DEF SetInitialized, Done, history, TypeOK
        <3> QED
            BY <1>2, <3>1, StepCases
    <2>3. CASE StoreSession(r)
        <3>1. /\ admin' = admin /\ crowded' = crowded /\ passkeys' = passkeys /\ pc'[r] = "done"
            BY <2>3 DEF StoreSession, Done, history, TypeOK
        <3> QED
            BY <1>2, <3>1, StepCases
    <2>4. CASE StoreSecret(r)
        <3>1. \A a \in Admins : admin'[a].handle = admin[a].handle
            BY <2>4 DEF StoreSecret, TypeOK
        <3>2. /\ passkeys' = passkeys /\ crowded' = crowded /\ pc'[r] \in {"done", "spent"}
            BY <2>4 DEF StoreSecret, Go, Done, history, TypeOK
        <3> QED
            BY <1>2, <3>1, <3>2, StepCases, PasskeyOwners DEF Holding
    <2>5. CASE ClearSecret(r)
        <3>1. \A a \in Admins : admin'[a].handle = admin[a].handle
            BY <2>5 DEF ClearSecret, TypeOK
        <3>2. /\ passkeys' = passkeys /\ crowded' = crowded /\ pc'[r] \in {"done", "spent"}
            BY <2>5 DEF ClearSecret, Go, Done, history, TypeOK
        <3> QED
            BY <1>2, <3>1, <3>2, StepCases, PasskeyOwners DEF Holding
    <2>6. CASE ReadHandle(r)
        <3> DEFINE a == req[r].who
        <3>1. a \in Admins /\ admin' = admin /\ passkeys' = passkeys
            BY <2>6 DEF ReadHandle, Holding, accounts
        <3>2. /\ req'[r].who = a
              /\ pc'[r] = "use" => req'[r].mine = admin[a].handle
              /\ pc'[r] = "choose" =>
                    /\ admin[a].handle = 0
                    /\ a \notin crowded' => \A s \in Requests : ~ (pc[s] = "choose" /\ req[s].who = a)
            BY <2>6 DEF ReadHandle, Choosing, TypeOK
        <3>3. \A s \in Requests : s # r => pc'[s] = pc[s] /\ req'[s] = req[s]
            BY <1>2, StepCases
        <3>4. crowded \subseteq crowded'
            BY <1>2, StepCases
        <3> HIDE DEF a
        <3>5. \A s \in Requests : pc'[s] = "choose" /\ req'[s].who \notin crowded' =>
                 /\ admin'[req'[s].who].handle = 0
                 /\ \A t \in Requests : pc'[t] = "choose" /\ req'[t].who = req'[s].who => t = s
            BY <3>1, <3>2, <3>3, <3>4
        <3>6. \A s \in Requests : pc'[s] = "use" /\ req'[s].who \notin crowded' =>
                 req'[s].mine = admin'[req'[s].who].handle
            BY <3>1, <3>2, <3>3, <3>4
        <3> QED
            BY <3>1, <3>4, <3>5, <3>6
    <2>7. CASE ChooseHandle(r)
        <3> DEFINE a == req[r].who
        <3>1. /\ a \in Admins /\ pc[r] = "choose" /\ passkeys' = passkeys /\ crowded' = crowded
              /\ pc'[r] = "use" /\ req'[r].who = a /\ req'[r].mine = r
              /\ admin'[a].handle = r
              /\ \A b \in Admins : b # a => admin'[b] = admin[b]
            BY <2>7 DEF ChooseHandle, Holding, history, TypeOK
        <3>2. \A s \in Requests : s # r => pc'[s] = pc[s] /\ req'[s] = req[s]
            BY <1>2, StepCases
        <3>3. a \notin crowded => admin[a].handle = 0
            BY <3>1
        <3>4. 0 \notin Requests
            BY DEF Requests
        <3>5. a \notin crowded => \A s \in Requests :
                 /\ ~ (pc[s] = "use" /\ req[s].who = a)
                 /\ pc[s] = "choose" /\ req[s].who = a => s = r
            BY <3>1, <3>3, <3>4 DEF Holding
        <3>6. a \notin crowded => \A p \in passkeys : p.owner # a
            BY <3>3, <3>4 DEF TypeOK
        <3>7. \A s \in Requests : pc[s] \in {"choose", "use"} => req[s].who \in Admins
            BY DEF Holding
        <3> HIDE DEF a
        <3>8. \A s \in Requests : pc'[s] = "choose" /\ req'[s].who \notin crowded' =>
                 /\ admin'[req'[s].who].handle = 0
                 /\ \A t \in Requests : pc'[t] = "choose" /\ req'[t].who = req'[s].who => t = s
            BY <3>1, <3>2, <3>5, <3>7
        <3>9. \A s \in Requests : pc'[s] = "use" /\ req'[s].who \notin crowded' =>
                 req'[s].mine = admin'[req'[s].who].handle
            BY <3>1, <3>2, <3>5, <3>7
        <3>10. \A p \in passkeys' : p.owner \notin crowded' => p.handle = admin'[p.owner].handle
            BY <3>1, <3>6, PasskeyOwners
        <3> QED
            BY <3>8, <3>9, <3>10
    <2>8. CASE Offer(r)
        <3>1. /\ admin' = admin /\ crowded' = crowded /\ passkeys' = passkeys /\ pc'[r] = "done"
            BY <2>8 DEF Offer, Done, history, TypeOK
        <3> QED
            BY <1>2, <3>1, StepCases
    <2>9. CASE SavePasskey(r)
        <3>1. /\ admin' = admin /\ crowded' = crowded /\ pc'[r] \in {"spent", "done"}
              /\ pc[r] = "use"
            BY <2>9 DEF SavePasskey, Go, Done, history, TypeOK
        <3>2. \A p \in passkeys' : \/ p \in passkeys
                                   \/ p.owner = req[r].who /\ p.handle = req[r].mine
            BY <1>2, <2>9, SavePasskeyAdds
        <3> QED
            BY <1>2, <3>1, <3>2, StepCases
    <2>10. CASE Spend(r)
        <3>1. /\ admin' = admin /\ crowded' = crowded /\ passkeys' = passkeys /\ pc'[r] = "done"
            BY <2>10 DEF Spend, Done, history, TypeOK
        <3> QED
            BY <1>2, <3>1, StepCases
    <2>11. CASE Fail(r)
        BY <2>11, <1>2, StepCases, FailEnds DEF accounts, limiter, history
    <2> QED
        BY <1>2, <2>1, <2>2, <2>3, <2>4, <2>5, <2>6, <2>7, <2>8, <2>9, <2>10, <2>11 DEF Step
<1>3. ASSUME NEW a \in Admins, Logout(a) PROVE (Handles /\ PasskeysSignIn)'
    BY <1>3 DEF Logout, history, limiter
<1>4. CASE Tick
    BY <1>4 DEF Tick, accounts, history, limiter
<1>5. CASE Cleanup
    BY <1>5 DEF Cleanup, accounts, history, limiter
<1>6. CASE Expire
    BY <1>6 DEF Expire, accounts, history, limiter
<1>7. CASE UNCHANGED vars
    BY <1>7 DEF vars, accounts, history, limiter
<1> QED
    BY <1>1, <1>2, <1>3, <1>4, <1>5, <1>6, <1>7 DEF Next

--------------------------------------------------------------------------------
(* Types.                                                                   *)

Places == {"new", "insert", "complete", "session", "enable", "disable", "read", "choose",
           "use", "spent", "done"}

Held == [kind : {"none", "createAdmin", "complete", "login", "enable", "disable",
                 "options", "finish"},
         who : Admins \cup {Nobody}, id : Numbers, code : Numbers,
         asked : Numbers, mine : Numbers]

\* Where requests are, and what they hold.
ReqTypes == /\ pc \in [Requests -> Places] /\ req \in [Requests -> Held]
            /\ requests \in Numbers

RowTypes ==
    /\ initialized \in BOOLEAN
    /\ admin \in [Admins -> [exists : BOOLEAN, enabled : BOOLEAN,
                             secret : Numbers, handle : Numbers]]
    /\ sessions \subseteq Admins
    /\ confirmed \in [Admins -> SUBSET Requests]
    /\ crowded \subseteq Admins

ChallengeTypes ==
    /\ challenges \subseteq [id : Requests, owner : Admins, kind : {"totp", "passkey"},
                             data : Requests]
    /\ \A c, d \in challenges : c.id = d.id => c = d

PasskeyTypes ==
    /\ passkeys \subseteq [id : Requests, owner : Admins, handle : Requests]
    /\ \A p, q \in passkeys : p.id = q.id => p = q

LimiterTypes ==
    /\ bucket \in [there : BOOLEAN, tokens : 0..Burst, idle : 0..(IdleTicks + 1)]
    /\ ideal \in 0..Burst

LEMMA TypeParts ==
    TypeOK <=> ReqTypes /\ RowTypes /\ ChallengeTypes /\ PasskeyTypes /\ LimiterTypes
BY DEF TypeOK, ReqTypes, RowTypes, ChallengeTypes, PasskeyTypes, LimiterTypes, Places, Held

LEMMA NumbersFacts == 0 \in Numbers /\ Requests \subseteq Numbers /\ Numbers \subseteq Nat
BY BoundAssumption DEF Numbers, Requests

LEMMA BegunTypes ==
    ASSUME ReqTypes, NEW r \in Requests, NEW at \in Places, NEW what \in Held,
           Begin(r, at, what)
    PROVE  ReqTypes'
<1>1. Draft \in Held
    BY NumbersFacts DEF Draft, Held
<1> QED
    BY <1>1, NumbersFacts DEF ReqTypes, Begin

\* What a request starts with is of the right kind.
LEMMA AskedReqTypes ==
    ASSUME TypeOK, NEW r \in Requests, NEW a \in Admins, Asked(r, a)
    PROVE  ReqTypes'
<1>0. ReqTypes
    BY TypeParts
<1>1. Draft \in Held
    BY NumbersFacts DEF Draft, Held
<1>2. CASE CreateAdmin(r, a)
    <2> DEFINE what == [Draft EXCEPT !.kind = "createAdmin", !.who = a]
    <2>1. PICK at \in {"insert", "done"} : Begin(r, at, what)
        BY <1>2 DEF CreateAdmin
    <2>2. at \in Places /\ what \in Held
        BY <1>1 DEF Held, Places
    <2> HIDE DEF what
    <2> QED
        BY <1>0, <2>1, <2>2, BegunTypes
<1>3. CASE Complete(r, a)
    <2> DEFINE what == [[Draft EXCEPT !.kind = "complete"] EXCEPT !.who = a]
    <2>1. Begin(r, "complete", what)
        BY <1>3 DEF Complete, Authed
    <2>2. what \in Held
        BY <1>1 DEF Held
    <2> HIDE DEF what
    <2> QED
        BY <1>0, <2>1, <2>2, BegunTypes DEF Places
<1>4. CASE Login(r, a) \/ PasskeyLogin(r, a)
    <2> DEFINE what == [Draft EXCEPT !.kind = "login", !.who = a]
    <2>1. Begin(r, "session", what) \/ Begin(r, "done", what)
        BY <1>4 DEF Login, PasskeyLogin
    <2>2. what \in Held
        BY <1>1 DEF Held
    <2> HIDE DEF what
    <2> QED
        BY <1>0, <2>1, <2>2, BegunTypes DEF Places
<1>5. CASE TotpSetup(r, a) \/ PasskeyDelete(r, a)
    <2> DEFINE what == [Draft EXCEPT !.who = a]
    <2>1. Begin(r, "done", what)
        BY <1>5 DEF TotpSetup, PasskeyDelete, Authed
    <2>2. what \in Held
        BY <1>1 DEF Held
    <2> HIDE DEF what
    <2> QED
        BY <1>0, <2>1, <2>2, BegunTypes DEF Places
<1>6. CASE TotpEnable(r, a)
    <2>0. PICK id \in 1..requests, code \in 1..requests :
            Authed(r, "enable", a, [Draft EXCEPT !.kind = "enable", !.id = id, !.code = code])
        BY <1>6 DEF TotpEnable
    <2> DEFINE what == [[Draft EXCEPT !.kind = "enable", !.id = id, !.code = code]
                          EXCEPT !.who = a]
    <2>1. Begin(r, "enable", what)
        BY <2>0 DEF Authed
    <2>2. id \in Numbers /\ code \in Numbers
        BY <1>0, BoundAssumption DEF ReqTypes, Numbers
    <2>3. what \in Held
        BY <1>1, <2>2 DEF Held
    <2> HIDE DEF what
    <2> QED
        BY <1>0, <2>1, <2>3, BegunTypes DEF Places
<1>7. CASE TotpDisable(r, a)
    <2> DEFINE what == [[Draft EXCEPT !.kind = "disable"] EXCEPT !.who = a]
    <2>1. Begin(r, "disable", what) \/ Begin(r, "done", what)
        BY <1>7 DEF TotpDisable, Authed
    <2>2. what \in Held
        BY <1>1 DEF Held
    <2> HIDE DEF what
    <2> QED
        BY <1>0, <2>1, <2>2, BegunTypes DEF Places
<1>8. CASE RegisterOptions(r, a)
    <2> DEFINE what == [[Draft EXCEPT !.kind = "options"] EXCEPT !.who = a]
    <2>1. Begin(r, "read", what)
        BY <1>8 DEF RegisterOptions, Authed
    <2>2. what \in Held
        BY <1>1 DEF Held
    <2> HIDE DEF what
    <2> QED
        BY <1>0, <2>1, <2>2, BegunTypes DEF Places
<1>9. CASE RegisterFinish(r, a)
    <2>0. PICK id \in 1..requests :
            /\ ChallengeOf(id, "passkey", a) # {}
            /\ Authed(r, "read", a, [Draft EXCEPT !.kind = "finish", !.id = id,
                 !.asked = (CHOOSE c \in ChallengeOf(id, "passkey", a) : TRUE).data])
        BY <1>9 DEF RegisterFinish
    <2> DEFINE c    == CHOOSE c \in ChallengeOf(id, "passkey", a) : TRUE
               what == [[Draft EXCEPT !.kind = "finish", !.id = id, !.asked = c.data]
                          EXCEPT !.who = a]
    <2>1. Begin(r, "read", what)
        BY <2>0 DEF Authed
    <2>2. c \in challenges
        BY <2>0 DEF ChallengeOf
    <2>3. id \in Numbers /\ c.data \in Numbers
        <3>1. id \in Numbers
            BY <1>0, BoundAssumption DEF ReqTypes, Numbers
        <3>2. c.data \in Requests
            BY <2>2, ChallengeFacts
        <3> QED
            BY <3>1, <3>2, NumbersFacts
    <2> HIDE DEF c
    <2>4. what \in Held
        BY <1>1, <2>3 DEF Held
    <2> HIDE DEF what
    <2> QED
        BY <1>0, <2>1, <2>4, BegunTypes DEF Places
<1> QED
    BY <1>2, <1>3, <1>4, <1>5, <1>6, <1>7, <1>8, <1>9 DEF Asked

\* A bucket holds what it can hold.
LEMMA RefilledType ==
    ASSUME LimiterTypes PROVE Refilled(bucket) \in 0..Burst
<1>1. bucket.tokens \in Nat /\ bucket.idle \in Nat
    BY RateAssumption DEF LimiterTypes
<1>2. bucket.idle * Rate \in Nat
    BY <1>1, RateAssumption
<1> HIDE DEF LimiterTypes
<1> QED
    BY <1>1, <1>2, RateAssumption DEF Refilled, Least

LEMMA AllowTypes ==
    ASSUME LimiterTypes, Allow PROVE LimiterTypes'
<1>1. Refilled(bucket) \in 0..Burst
    BY RefilledType
<1>2. Refilled(bucket) - (IF Allowed THEN 1 ELSE 0) \in 0..Burst
    BY <1>1, RateAssumption DEF Allowed
<1>3. bucket' = [there |-> TRUE, idle |-> 0,
                 tokens |-> Refilled(bucket) - (IF Allowed THEN 1 ELSE 0)]
    BY DEF Allow
<1>4. bucket' \in [there : BOOLEAN, tokens : 0..Burst, idle : 0..(IdleTicks + 1)]
    BY <1>2, <1>3, RateAssumption
<1>5. ideal' \in 0..Burst
    BY RateAssumption DEF LimiterTypes, Allow
<1> QED
    BY <1>4, <1>5 DEF LimiterTypes

LEMMA AskedTypes ==
    ASSUME TypeOK, Numbered, NEW r \in Requests, NEW a \in Admins, Asked(r, a)
    PROVE  TypeOK'
<1>0. RowTypes /\ ChallengeTypes /\ PasskeyTypes /\ LimiterTypes /\ ReqTypes
    BY TypeParts
<1>1. ReqTypes'
    BY AskedReqTypes
<1>2. LimiterTypes'
    <2>1. Allow \/ UNCHANGED limiter
        BY DEF Asked, CreateAdmin, Login, Complete, PasskeyLogin, TotpSetup, TotpEnable,
               TotpDisable, RegisterOptions, RegisterFinish, PasskeyDelete
    <2> QED
        BY <1>0, <2>1, AllowTypes DEF limiter, LimiterTypes
<1>3. RowTypes'
    <2>1. confirmed' \in [Admins -> SUBSET Requests]
        <3>1. CASE TotpEnable(r, a)
            <4>1. PICK code \in 1..requests :
                    confirmed' = confirmed \/ confirmed' = [confirmed EXCEPT ![a] = @ \cup {code}]
                BY <3>1 DEF TotpEnable
            <4>2. code \in Requests
                BY <1>0, BoundAssumption DEF ReqTypes, Numbers, Requests
            <4> QED
                BY <1>0, <4>1, <4>2 DEF RowTypes
        <3>2. CASE ~TotpEnable(r, a)
            BY <1>0, <3>2 DEF Asked, CreateAdmin, Complete, Login, PasskeyLogin, TotpSetup,
                TotpDisable, RegisterOptions, RegisterFinish, PasskeyDelete, history, RowTypes
        <3> QED
            BY <3>1, <3>2
    <2> QED
        BY <1>0, <2>1, AskedCases DEF RowTypes
<1>4. ChallengeTypes'
    <2>1. \A c \in challenges' : c \in challenges \/ c = Challenge(r, a, "totp", r)
        BY AskedCases
    <2>2. Challenge(r, a, "totp", r) \in [id : Requests, owner : Admins,
                                          kind : {"totp", "passkey"}, data : Requests]
        BY DEF Challenge
    <2>3. \A c \in challenges : c.id # r
        BY AskedCases, ChallengeFacts, NumbersFacts DEF Numbered, TypeOK
    <2>4. Challenge(r, a, "totp", r).id = r
        BY DEF Challenge
    <2>5. challenges' \subseteq [id : Requests, owner : Admins, kind : {"totp", "passkey"},
                                 data : Requests]
        BY <1>0, <2>1, <2>2 DEF ChallengeTypes
    <2>6. \A c, d \in challenges' : c.id = d.id => c = d
        BY <1>0, <2>1, <2>3, <2>4 DEF ChallengeTypes
    <2> QED
        BY <2>5, <2>6 DEF ChallengeTypes
<1>5. PasskeyTypes'
    BY <1>0, AskedCases DEF PasskeyTypes
<1> QED
    BY <1>1, <1>2, <1>3, <1>4, <1>5, TypeParts, PTL

LEMMA DoneTypes ==
    ASSUME ReqTypes, NEW r \in Requests, Done(r) PROVE ReqTypes'
<1>1. Draft \in Held
    BY NumbersFacts DEF Draft, Held
<1> QED
    BY <1>1 DEF ReqTypes, Done, Places

LEMMA GoTypes ==
    ASSUME ReqTypes, NEW r \in Requests, NEW at \in Places, Go(r, at) PROVE ReqTypes'
BY DEF ReqTypes, Go

LEMMA ReqIsHeld ==
    ASSUME ReqTypes, NEW r \in Requests
    PROVE  /\ req[r].id \in Numbers /\ req[r].code \in Numbers
           /\ req[r].asked \in Numbers /\ req[r].mine \in Numbers
BY DEF ReqTypes, Held

LEMMA StepTypes ==
    ASSUME TypeOK, Numbered, Holding, NEW r \in Requests, Step(r)
    PROVE  TypeOK'
<1>0. ReqTypes /\ RowTypes /\ ChallengeTypes /\ PasskeyTypes /\ LimiterTypes
    BY TypeParts
<1>1. LimiterTypes'
    <2>1. UNCHANGED limiter
        BY DEF Step, InsertAdmin, SetInitialized, StoreSession, StoreSecret, ClearSecret,
               ReadHandle, ChooseHandle, Offer, SavePasskey, Spend, Fail
    <2> QED
        BY <1>0, <2>1 DEF LimiterTypes, limiter
<1>2. ReqTypes'
    <2>1. CASE Done(r)
        BY <1>0, <2>1, DoneTypes
    <2>2. CASE Go(r, "spent") \/ Go(r, "session")
        BY <1>0, <2>2, GoTypes DEF Places
    <2>3. CASE ReadHandle(r)
        <3>1. req[r].who \in Admins
            BY <2>3 DEF ReadHandle, Holding
        <3>2. admin[req[r].who].handle \in Numbers
            BY <1>0, <3>1 DEF RowTypes
        <3>3. [req[r] EXCEPT !.mine = admin[req[r].who].handle] \in Held
            BY <1>0, <3>2 DEF ReqTypes, Held
        <3>4. req' = [req EXCEPT ![r] = [req[r] EXCEPT !.mine = admin[req[r].who].handle]]
            BY <1>0, <2>3 DEF ReadHandle, ReqTypes
        <3>5. req' \in [Requests -> Held]
            BY <1>0, <3>3, <3>4 DEF ReqTypes
        <3> QED
            BY <1>0, <2>3, <3>5 DEF ReadHandle, ReqTypes, Places
    <2>4. CASE ChooseHandle(r)
        <3>1. [req[r] EXCEPT !.mine = r] \in Held
            BY <1>0, NumbersFacts DEF ReqTypes, Held
        <3>2. req' = [req EXCEPT ![r] = [req[r] EXCEPT !.mine = r]]
            BY <1>0, <2>4 DEF ChooseHandle, ReqTypes
        <3>3. req' \in [Requests -> Held]
            BY <1>0, <3>1, <3>2 DEF ReqTypes
        <3> QED
            BY <1>0, <2>4, <3>3 DEF ChooseHandle, ReqTypes, Places
    <2> QED
        BY <2>1, <2>2, <2>3, <2>4 DEF Step, InsertAdmin, SetInitialized, StoreSession,
               StoreSecret, ClearSecret, Offer, SavePasskey, Spend, Fail
<1>3. RowTypes'
    <2> DEFINE a == req[r].who
               Rows == [exists : BOOLEAN, enabled : BOOLEAN, secret : Numbers,
                        handle : Numbers]
    <2>1. confirmed' = confirmed
        BY StepCases
    <2>2. pc[r] \notin {"new", "done"} /\ a \in Admins
        BY StepCases DEF Holding
    <2>3. crowded' \subseteq Admins
        <3>1. crowded' = crowded \/ crowded' = crowded \cup {a}
            BY DEF Step, InsertAdmin, SetInitialized, StoreSession, StoreSecret, ClearSecret,
                   ReadHandle, ChooseHandle, Offer, SavePasskey, Spend, Fail, history
        <3> QED
            BY <1>0, <2>2, <3>1 DEF RowTypes
    <2>4. sessions' \subseteq Admins
        <3>1. sessions' = sessions \/ sessions' = sessions \cup {a}
            BY DEF Step, InsertAdmin, SetInitialized, StoreSession, StoreSecret, ClearSecret,
                   ReadHandle, ChooseHandle, Offer, SavePasskey, Spend, Fail, SignIn, accounts
        <3> QED
            BY <1>0, <2>2, <3>1 DEF RowTypes
    <2>5. initialized' \in BOOLEAN
        <3>1. initialized' = initialized \/ initialized' = TRUE
            BY DEF Step, InsertAdmin, SetInitialized, StoreSession, StoreSecret, ClearSecret,
                   ReadHandle, ChooseHandle, Offer, SavePasskey, Spend, Fail, accounts
        <3> QED
            BY <1>0, <3>1 DEF RowTypes
    <2>6. admin' \in [Admins -> Rows]
        <3>1. CASE InsertAdmin(r)
            <4>1. NewAdmin \in Rows
                BY NumbersFacts DEF NewAdmin, Row
            <4>2. admin' = admin \/ admin' = [admin EXCEPT ![a] = NewAdmin]
                BY <3>1 DEF InsertAdmin
            <4> HIDE DEF a
            <4> QED
                BY <1>0, <4>1, <4>2 DEF RowTypes
        <3>2. CASE StoreSecret(r)
            <4>1. admin' = [admin EXCEPT ![a] = [[admin[a] EXCEPT !.enabled = TRUE]
                                                   EXCEPT !.secret = req[r].code]]
                BY <1>0, <2>2, <3>2 DEF StoreSecret, RowTypes
            <4>2. req[r].code \in Numbers
                BY <1>0, ReqIsHeld
            <4> HIDE DEF a
            <4>3. [[admin[a] EXCEPT !.enabled = TRUE] EXCEPT !.secret = req[r].code] \in Rows
                BY <1>0, <2>2, <4>2 DEF RowTypes
            <4> QED
                BY <1>0, <4>1, <4>3 DEF RowTypes
        <3>3. CASE ClearSecret(r)
            <4>1. admin' = [admin EXCEPT ![a] = [[admin[a] EXCEPT !.enabled = FALSE]
                                                   EXCEPT !.secret = 0]]
                BY <1>0, <2>2, <3>3 DEF ClearSecret, RowTypes
            <4> HIDE DEF a
            <4>2. [[admin[a] EXCEPT !.enabled = FALSE] EXCEPT !.secret = 0] \in Rows
                BY <1>0, <2>2, NumbersFacts DEF RowTypes
            <4> QED
                BY <1>0, <4>1, <4>2 DEF RowTypes
        <3>4. CASE ChooseHandle(r)
            <4>1. admin' = [admin EXCEPT ![a] = [admin[a] EXCEPT !.handle = r]]
                BY <1>0, <2>2, <3>4 DEF ChooseHandle, RowTypes
            <4> HIDE DEF a
            <4>2. [admin[a] EXCEPT !.handle = r] \in Rows
                BY <1>0, <2>2, NumbersFacts DEF RowTypes
            <4> QED
                BY <1>0, <4>1, <4>2 DEF RowTypes
        <3>5. CASE admin' = admin
            BY <1>0, <3>5 DEF RowTypes
        <3> QED
            BY <3>1, <3>2, <3>3, <3>4, <3>5 DEF Step, SetInitialized, StoreSession,
                   ReadHandle, Offer, SavePasskey, Spend, Fail, accounts
    <2> QED
        BY <1>0, <2>1, <2>3, <2>4, <2>5, <2>6 DEF RowTypes
<1>4. ChallengeTypes'
    <2>1. CASE Offer(r)
        <3> DEFINE c0 == Challenge(r, req[r].who, "passkey", req[r].mine)
        <3>1. challenges' = challenges \cup {c0}
            BY <2>1 DEF Offer
        <3>2. c0 \in [id : Requests, owner : Admins, kind : {"totp", "passkey"},
                      data : Requests]
            BY <2>1 DEF Offer, Holding, Challenge
        <3>3. c0.id = r
            BY DEF Challenge
        <3>4. \A c \in challenges : c.id # r
            BY <2>1 DEF Offer, Numbered, Registering
        <3> HIDE DEF c0
        <3>5. challenges' \subseteq [id : Requests, owner : Admins, kind : {"totp", "passkey"},
                                     data : Requests]
            BY <1>0, <3>1, <3>2 DEF ChallengeTypes
        <3>6. \A c, d \in challenges' : c.id = d.id => c = d
            BY <1>0, <3>1, <3>3, <3>4 DEF ChallengeTypes
        <3> QED
            BY <3>5, <3>6 DEF ChallengeTypes
    <2>2. CASE ~Offer(r)
        <3>1. challenges' \subseteq challenges
            BY <2>2 DEF Step, InsertAdmin, SetInitialized, StoreSession, StoreSecret,
                   ClearSecret, ReadHandle, ChooseHandle, SavePasskey, Spend, Fail, accounts
        <3> QED
            BY <1>0, <3>1 DEF ChallengeTypes
    <2> QED
        BY <2>1, <2>2
<1>5. PasskeyTypes'
    <2>1. CASE SavePasskey(r)
        <3> DEFINE p0 == [id |-> r, owner |-> req[r].who, handle |-> req[r].asked]
        <3>1. passkeys' = passkeys \/ passkeys' = passkeys \cup {p0}
            BY <2>1 DEF SavePasskey
        <3>2. p0 \in [id : Requests, owner : Admins, handle : Requests]
            BY <2>1 DEF SavePasskey, Holding, Registering
        <3>3. \A p \in passkeys : p.id # r
            BY <2>1 DEF SavePasskey, Numbered, Registering
        <3>4. p0.id = r
            OBVIOUS
        <3> HIDE DEF p0
        <3>5. passkeys' \subseteq [id : Requests, owner : Admins, handle : Requests]
            BY <1>0, <3>1, <3>2 DEF PasskeyTypes
        <3>6. \A p, q \in passkeys' : p.id = q.id => p = q
            BY <1>0, <3>1, <3>3, <3>4 DEF PasskeyTypes
        <3> QED
            BY <3>5, <3>6 DEF PasskeyTypes
    <2>2. CASE ~SavePasskey(r)
        <3>1. passkeys' = passkeys
            BY <2>2 DEF Step, InsertAdmin, SetInitialized, StoreSession, StoreSecret,
                   ClearSecret, ReadHandle, ChooseHandle, Offer, Spend, Fail, accounts
        <3> QED
            BY <1>0, <3>1 DEF PasskeyTypes
    <2> QED
        BY <2>1, <2>2
<1> QED
    BY <1>1, <1>2, <1>3, <1>4, <1>5, TypeParts, PTL

\* Time passes for the limiter and for challenges only.
LEMMA NextTypes ==
    ASSUME TypeOK, Numbered, Holding, [Next]_vars PROVE TypeOK'
<1>0. ReqTypes /\ RowTypes /\ ChallengeTypes /\ PasskeyTypes /\ LimiterTypes
    BY TypeParts
<1>1. ASSUME NEW r \in Requests, NEW a \in Admins, Asked(r, a) PROVE TypeOK'
    BY <1>1, AskedTypes
<1>2. ASSUME NEW r \in Requests, Step(r) PROVE TypeOK'
    BY <1>2, StepTypes
<1>3. CASE UNCHANGED vars \/ \E a \in Admins : Logout(a)
    BY <1>3 DEF vars, Logout, accounts, limiter, history, TypeOK
<1>4. CASE Tick
    <2>1. LimiterTypes'
        <3>1. \A b \in 0..(IdleTicks + 1) : Least(IdleTicks + 1, b + 1) \in 0..(IdleTicks + 1)
            BY RateAssumption DEF Least
        <3>2. \A n \in 0..Burst : Least(Burst, n + Rate) \in 0..Burst
            BY RateAssumption DEF Least
        <3>3. ideal' \in 0..Burst
            BY <1>0, <1>4, <3>2 DEF Tick, LimiterTypes
        <3>4. bucket' = [bucket EXCEPT !.idle = Least(IdleTicks + 1, bucket.idle + 1)]
            BY <1>0, <1>4 DEF Tick, LimiterTypes
        <3> QED
            BY <1>0, <3>1, <3>3, <3>4 DEF LimiterTypes
    <2>2. (ReqTypes /\ RowTypes /\ ChallengeTypes /\ PasskeyTypes)'
        BY <1>0, <1>4 DEF Tick, accounts, history, ReqTypes, RowTypes, ChallengeTypes, PasskeyTypes
    <2> QED
        BY <2>1, <2>2, TypeParts, PTL
<1>5. CASE Cleanup
    <2>1. LimiterTypes'
        BY <1>0, <1>5, RateAssumption DEF Cleanup, LimiterTypes, NoBucket
    <2>2. (ReqTypes /\ RowTypes /\ ChallengeTypes /\ PasskeyTypes)'
        BY <1>0, <1>5 DEF Cleanup, accounts, history, ReqTypes, RowTypes, ChallengeTypes, PasskeyTypes
    <2> QED
        BY <2>1, <2>2, TypeParts, PTL
<1>6. CASE Expire
    <2>1. challenges' \subseteq challenges /\ UNCHANGED <<initialized, admin, sessions, passkeys, limiter, pc, req, history, requests>>
        BY <1>6 DEF Expire
    <2> QED
        BY <2>1 DEF limiter, history, TypeOK
<1> QED
    BY <1>1, <1>2, <1>3, <1>4, <1>5, <1>6 DEF Next

--------------------------------------------------------------------------------
\* Buckets are dropped when they are full.
LEMMA StepLimiter ==
    ASSUME TypeOK, CleanupForgetsNothing, [Next]_vars PROVE CleanupForgetsNothing'
<1>0. /\ bucket \in [there : BOOLEAN, tokens : 0..Burst, idle : 0..(IdleTicks + 1)]
      /\ LimiterTypes /\ Refilled(bucket) = ideal /\ ideal \in 0..Burst
    BY TypeParts DEF CleanupForgetsNothing, LimiterTypes
<1>1. CASE Allow
    <2>1. bucket' = [there |-> TRUE, idle |-> 0,
                     tokens |-> ideal - (IF ideal >= 1 THEN 1 ELSE 0)]
        BY <1>0, <1>1 DEF Allow, Allowed
    <2>2. ideal - (IF ideal >= 1 THEN 1 ELSE 0) \in 0..Burst
        BY <1>0, RateAssumption
    <2>3. 0 * Rate = 0
        BY RateAssumption
    <2>4. Refilled(bucket') = ideal - (IF ideal >= 1 THEN 1 ELSE 0)
        BY <2>1, <2>2, <2>3, RateAssumption DEF Refilled, Least
    <2> QED
        BY <1>1, <2>4 DEF Allow, CleanupForgetsNothing
<1>2. CASE UNCHANGED limiter
    BY <1>0, <1>2 DEF limiter, CleanupForgetsNothing
<1>3. CASE Tick
    <2> DEFINE i == bucket.idle
               t == bucket.tokens
    <2>1. i \in 0..(IdleTicks + 1) /\ t \in 0..Burst /\ bucket.there
        BY <1>0, <1>3 DEF Tick
    <2>2. /\ bucket'.there = bucket.there /\ bucket'.tokens = t
          /\ bucket'.idle = Least(IdleTicks + 1, i + 1)
          /\ ideal' = Least(Burst, ideal + Rate)
        BY <1>0, <1>3 DEF Tick
    <2>3. ideal = Least(Burst, t + i * Rate)
        BY <1>0, <2>1 DEF Refilled
    <2>4. Refilled(bucket') = Least(Burst, t + Least(IdleTicks + 1, i + 1) * Rate)
        BY <2>1, <2>2 DEF Refilled
    <2> HIDE DEF i, t
    <2>5. i * Rate \in Nat /\ (i + 1) * Rate = i * Rate + Rate
        BY <2>1, RateAssumption
    <2>6. CASE i < IdleTicks + 1
        <3>1. Least(IdleTicks + 1, i + 1) = i + 1
            BY <2>1, <2>6, RateAssumption DEF Least
        <3>2. Refilled(bucket') = Least(Burst, t + (i * Rate + Rate))
            BY <2>4, <2>5, <3>1
        <3> QED
            BY <2>1, <2>2, <2>3, <2>5, <3>2, RateAssumption DEF Least, CleanupForgetsNothing
    <2>7. CASE i = IdleTicks + 1
        <3>1. Least(IdleTicks + 1, i + 1) = i
            BY <2>1, <2>7, RateAssumption DEF Least
        <3>2. Burst <= i * Rate
            BY <2>7, IdleAssumption
        <3>3. Refilled(bucket') = Burst /\ ideal = Burst
            BY <2>1, <2>3, <2>4, <2>5, <3>1, <3>2, RateAssumption DEF Least
        <3> QED
            BY <2>2, <3>3, RateAssumption DEF Least, CleanupForgetsNothing
    <2> QED
        BY <2>1, <2>6, <2>7, RateAssumption
<1>4. CASE Cleanup
    <2>1. bucket.idle = IdleTicks + 1 /\ bucket.there /\ bucket.tokens \in 0..Burst
        BY <1>0, <1>4, RateAssumption DEF Cleanup
    <2>2. Burst <= bucket.idle * Rate /\ bucket.idle * Rate \in Nat
        BY <2>1, IdleAssumption, RateAssumption
    <2>3. Refilled(bucket) = Burst
        BY <2>1, <2>2, RateAssumption DEF Refilled, Least
    <2> QED
        BY <1>0, <1>4, <2>3 DEF Cleanup, NoBucket, Refilled, CleanupForgetsNothing
<1>5. Allow \/ UNCHANGED limiter \/ Tick \/ Cleanup
    BY DEF Next, Asked, CreateAdmin, Login, Complete, PasskeyLogin, TotpSetup, TotpEnable,
           TotpDisable, RegisterOptions, RegisterFinish, PasskeyDelete, Step, InsertAdmin,
           SetInitialized, StoreSession, StoreSecret, ClearSecret, ReadHandle, ChooseHandle,
           Offer, SavePasskey, Spend, Fail, Logout, Expire, vars
<1> QED
    BY <1>1, <1>2, <1>3, <1>4, <1>5

--------------------------------------------------------------------------------
LEMMA InitHolds == Init => IInv
<1> SUFFICES ASSUME Init PROVE IInv
    OBVIOUS
<1>1. requests = 0 /\ challenges = {} /\ passkeys = {} /\ \A r \in Requests : pc[r] = "new"
    BY DEF Init
<1>2. \A r \in Requests : r > 0
    BY BoundAssumption DEF Requests
<1>3. TypeOK
    <2>1. Draft \in Held /\ NewAdmin \in [exists : BOOLEAN, enabled : BOOLEAN, secret : Numbers, handle : Numbers]
          /\ NoAdmin \in [exists : BOOLEAN, enabled : BOOLEAN, secret : Numbers, handle : Numbers]
        BY NumbersFacts DEF Draft, Held, NewAdmin, NoAdmin, Row
    <2>2. ReqTypes
        BY <2>1, NumbersFacts DEF Init, ReqTypes, Places
    <2>3. RowTypes
        BY <2>1 DEF Init, RowTypes
    <2>4. ChallengeTypes /\ PasskeyTypes
        BY <1>1 DEF ChallengeTypes, PasskeyTypes
    <2>5. LimiterTypes
        BY RateAssumption DEF Init, LimiterTypes, NoBucket
    <2> QED
        BY <2>2, <2>3, <2>4, <2>5, TypeParts
<1>4. Numbered /\ Holding /\ OfAccounts /\ Confirming /\ Handles /\ PasskeysSignIn
    BY <1>1, <1>2 DEF Numbered, Holding, OfAccounts, Confirming, Handles, PasskeysSignIn, Registering
<1>5. SecretIsConfirmed
    BY DEF Init, SecretIsConfirmed, NewAdmin, NoAdmin, Row
<1>6. NeverLockedOut
    BY AdminsAssumption DEF Init, NeverLockedOut, Installed, NewAdmin, Row
<1>7. CleanupForgetsNothing
    BY DEF Init, CleanupForgetsNothing, NoBucket, Refilled
<1> QED
    BY <1>3, <1>4, <1>5, <1>6, <1>7 DEF IInv

LEMMA Inductive == IInv /\ [Next]_vars => IInv'
BY NextTypes, StepNumbered, StepHolding, StepOfAccounts, StepLockedOut, StepSecret,
   StepHandles, StepLimiter DEF IInv

LEMMA Always == Spec => []IInv
BY InitHolds, Inductive, PTL DEF Spec

\* Every variable holds what the code can hold, and ids name one row each.
THEOREM TypeCorrect == Spec => []TypeOK
<1>1. IInv => TypeOK
    BY DEF IInv
<1> QED
    BY <1>1, Always, PTL

\* However requests overlap, whoever is signed in has an account and the wizard never
\* closes without an administrator (gate, createAdmin, complete).
THEOREM NobodyIsLockedOut == Spec => []NeverLockedOut
<1>1. IInv => NeverLockedOut
    BY DEF IInv
<1> QED
    BY <1>1, Always, PTL

\* A second factor that is asked for is one its administrator has confirmed
\* (totpEnable, totpDisable).
THEOREM FactorIsConfirmed == Spec => []SecretIsConfirmed
<1>1. IInv => SecretIsConfirmed
    BY DEF IInv
<1> QED
    BY <1>1, Always, PTL

\* Passkeys sign in, for every administrator whose first handle was not chosen by two
\* requests at once (EnsureWebAuthnHandle).
THEOREM PasskeysKeepTheirHandle == Spec => []PasskeysSignIn
<1>1. IInv => PasskeysSignIn
    BY DEF IInv
<1> QED
    BY <1>1, Always, PTL

\* Dropping idle buckets gives no attempts away, for any burst and rate with which a
\* bucket fills before it is idle long enough to go (Allow).
THEOREM LimiterForgetsNothing == Spec => []CleanupForgetsNothing
<1>1. IInv => CleanupForgetsNothing
    BY DEF IInv
<1> QED
    BY <1>1, Always, PTL

===============================================================================
