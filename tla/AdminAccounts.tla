---------------------------- MODULE AdminAccounts ----------------------------
(***************************************************************************)
(* Administrators: the setup wizard that makes the first one (setup), the  *)
(* second factor and passkeys of their accounts (admin/handlers_account,   *)
(* db/store_admins, db/store_security), and the sign-in with its rate      *)
(* limit (admin/handlers, security/ratelimit).                             *)
(*                                                                         *)
(* A statement is atomic and a request is several, each of which may fail; *)
(* the row a request holds is the one it read at its start (authed).  A    *)
(* TOTP code is the secret it was made from, and passwords are right: a    *)
(* wrong one changes nothing.                                              *)
(***************************************************************************)
EXTENDS Naturals, FiniteSets

CONSTANTS
    Admins,         \* user names
    Nobody,         \* not one of them
    Burst,          \* attempts a full bucket holds
    Rate,           \* tokens a bucket regains in a tick
    IdleTicks,      \* ticks after which the cleanup may drop a bucket
    MaxRequests     \* bound: requests served

Requests == 1..MaxRequests

ASSUME NobodyAssumption == Nobody \notin Admins
ASSUME AdminsAssumption == Admins # {}
ASSUME BoundAssumption == MaxRequests \in Nat
ASSUME RateAssumption  == Burst \in Nat /\ Rate \in Nat /\ IdleTicks \in Nat
\* app.go: 5 tokens, one every 5 s, dropped after 10 minutes.
ASSUME IdleAssumption  == Burst <= (IdleTicks + 1) * Rate

VARIABLES
    initialized,    \* the setting the wizard ends with
    admin,          \* admin[a]: the row of a, or NoAdmin
    sessions,       \* the administrators signed in
    challenges,     \* the rows of auth_challenges
    passkeys,       \* the rows of passkeys
    bucket,         \* the limiter's bucket of one key, a client that signs in, or NoBucket
    ideal,          \* history: the tokens of a bucket that is never dropped
    pc,             \* pc[r]: where request r is
    req,            \* req[r]: what it asks for and has read
    confirmed,      \* history: the secrets each administrator has proved to hold
    crowded,        \* history: who had two requests choosing a handle at once
    requests        \* requests so far

accounts == <<initialized, admin, sessions, challenges, passkeys>>
limiter  == <<bucket, ideal>>
history  == <<confirmed, crowded>>
vars     == <<accounts, limiter, pc, req, history, requests>>

--------------------------------------------------------------------------------
(* Rows.  Secrets and handles are drawn at random: the number of the        *)
(* request that draws one stands for it, 0 for none.                        *)

Row(exists, enabled, secret, handle) ==
    [exists |-> exists, enabled |-> enabled, secret |-> secret, handle |-> handle]
NoAdmin  == Row(FALSE, FALSE, 0, 0)
NewAdmin == Row(TRUE, FALSE, 0, 0)

Installed == {a \in Admins : admin[a].exists}

NoBucket == [there |-> FALSE, tokens |-> 0, idle |-> 0]

Challenge(id, owner, kind, data) ==
    [id |-> id, owner |-> owner, kind |-> kind, data |-> data]

ChallengeOfAny(id, kind, a) ==      \* whose it is not asked
    {c \in challenges : c.id = id /\ c.kind = kind}

\* GetAuthChallenge, with the test the handlers make of what it returns.
ChallengeOf(id, kind, a) ==
    {c \in challenges : c.id = id /\ c.kind = kind /\ c.owner = a}

Draft == [kind |-> "none", who |-> Nobody, id |-> 0, code |-> 0, asked |-> 0, mine |-> 0]

Init ==
    /\ initialized \in BOOLEAN
    /\ admin = [a \in Admins |-> IF initialized THEN NewAdmin ELSE NoAdmin]
    /\ sessions = IF initialized THEN Admins ELSE {}
    /\ challenges = {}
    /\ passkeys = {}
    /\ bucket = NoBucket
    /\ ideal = Burst
    /\ pc = [r \in Requests |-> "new"]
    /\ req = [r \in Requests |-> Draft]
    /\ confirmed = [a \in Admins |-> {}]
    /\ crowded = {}
    /\ requests = 0

--------------------------------------------------------------------------------
(* The rate limiter.  A tick is the time in which Rate tokens come back;    *)
(* a bucket is refilled when it is used.                                    *)

Least(m, n) == IF m < n THEN m ELSE n
Refilled(b) == IF b.there THEN Least(Burst, b.tokens + b.idle * Rate) ELSE Burst

\* Allow
Allowed == Refilled(bucket) >= 1
Allow ==
    /\ bucket' = [there |-> TRUE, idle |-> 0,
                  tokens |-> Refilled(bucket) - (IF Allowed THEN 1 ELSE 0)]
    /\ ideal' = ideal - (IF ideal >= 1 THEN 1 ELSE 0)

Tick ==
    /\ bucket.there
    /\ bucket' = [bucket EXCEPT !.idle = Least(IdleTicks + 1, @ + 1)]
    /\ ideal' = Least(Burst, ideal + Rate)
    /\ UNCHANGED <<accounts, pc, req, history, requests>>

CleanupAtOnce ==                    \* the time a bucket has been idle is not asked
    /\ bucket' = NoBucket
    /\ UNCHANGED <<accounts, ideal, pc, req, history, requests>>

\* Another client's first attempt finds more than 10,000 buckets and drops the idle.
Cleanup ==
    /\ bucket.there
    /\ bucket.idle > IdleTicks
    /\ bucket' = NoBucket
    /\ UNCHANGED <<accounts, ideal, pc, req, history, requests>>

--------------------------------------------------------------------------------
(* Requests.                                                                *)

\* A request that is turned away at once leaves nothing to remember.
Begin(r, at, what) ==
    /\ r = requests + 1
    /\ requests' = r
    /\ pc' = [pc EXCEPT ![r] = at]
    /\ req' = [req EXCEPT ![r] = IF at = "done" THEN Draft ELSE what]

\* authed: a session, and its administrator's row, whose fields the guards below take.
Authed(r, at, a, what) ==
    /\ a \in sessions
    /\ Begin(r, at, [what EXCEPT !.who = a])

Done(r) ==
    /\ pc' = [pc EXCEPT ![r] = "done"]
    /\ req' = [req EXCEPT ![r] = Draft]
    /\ UNCHANGED requests

Go(r, at) ==
    /\ pc' = [pc EXCEPT ![r] = at]
    /\ UNCHANGED <<req, requests>>

\* Sessions.Login; the cookie is of no interest here.
SignIn(a) == sessions' = sessions \cup {a}

--------------------------------------------------------------------------------
(* Setup.  The gate asks once, when a request comes in.                     *)

\* A query that fails answers as if nothing were there.
IsInitialized(fails) == initialized /\ ~fails
CountAdmins(fails)   == IF fails THEN 0 ELSE Cardinality(Installed)

\* createAdmin: attempts are counted, under a key of the wizard's own (its bucket is not
\* modelled: it may be empty at any time), and no administrator may exist ...
CreateAdmin(r, a) ==
    /\ \E gate, count, limited \in BOOLEAN :
         /\ ~IsInitialized(gate)
         /\ Begin(r, IF ~limited /\ CountAdmins(count) = 0 THEN "insert" ELSE "done",
                  [Draft EXCEPT !.kind = "createAdmin", !.who = a])
    /\ UNCHANGED <<accounts, limiter, history>>

\* ... when the row is inserted, after the password has been hashed.  Names are UNIQUE.
InsertAdmin(r) ==
    /\ pc[r] = "insert"
    /\ LET a == req[r].who
       IN  IF admin[a].exists THEN Done(r) /\ UNCHANGED admin
           ELSE Go(r, "session") /\ admin' = [admin EXCEPT ![a] = NewAdmin]
    /\ UNCHANGED <<initialized, sessions, challenges, passkeys, limiter, history>>

CompleteUnasked(r, a) ==            \* the gate lets anybody complete the setup
    /\ \E gate \in BOOLEAN : ~IsInitialized(gate)
    /\ Begin(r, "complete", [Draft EXCEPT !.kind = "complete"])
    /\ UNCHANGED <<accounts, limiter, history>>

\* complete
Complete(r, a) ==
    /\ \E gate \in BOOLEAN : ~IsInitialized(gate)
    /\ Authed(r, "complete", a, [Draft EXCEPT !.kind = "complete"])
    /\ UNCHANGED <<accounts, limiter, history>>

SetInitialized(r) ==
    /\ pc[r] = "complete"
    /\ initialized' = TRUE
    /\ Done(r)
    /\ UNCHANGED <<admin, sessions, challenges, passkeys, limiter, history>>

--------------------------------------------------------------------------------
(* Signing in, and out.                                                     *)

\* login: the limiter, the row, the password, and with a second factor the code.
Login(r, a) ==
    /\ Allow
    /\ \E code \in 0..requests :
         Begin(r, IF Allowed /\ admin[a].exists
                        /\ (admin[a].enabled => code = admin[a].secret)
                  THEN "session" ELSE "done",
               [Draft EXCEPT !.kind = "login", !.who = a])
    /\ UNCHANGED <<accounts, history>>

\* passkeyLoginFinish: the loader takes the account from the passkey, and wants the
\* handle the browser keeps with it to be the account's.
PasskeyLogin(r, a) ==
    /\ \E p \in passkeys :
         Begin(r, IF p.owner = a /\ p.handle = admin[a].handle THEN "session" ELSE "done",
               [Draft EXCEPT !.kind = "login", !.who = a])
    /\ UNCHANGED <<accounts, limiter, history>>

StoreSession(r) ==
    /\ pc[r] = "session"
    /\ SignIn(req[r].who)
    /\ Done(r)
    /\ UNCHANGED <<initialized, admin, challenges, passkeys, limiter, history>>

Logout(a) ==
    /\ a \in sessions
    /\ sessions' = sessions \ {a}
    /\ UNCHANGED <<initialized, admin, challenges, passkeys, limiter, pc, req, history,
                   requests>>

--------------------------------------------------------------------------------
(* Second factor.                                                           *)

\* totpSetup: a new secret, kept in a challenge until it is confirmed.
TotpSetup(r, a) ==
    /\ Authed(r, "done", a, Draft)
    /\ challenges' = challenges \cup {Challenge(r, a, "totp", r)}
    /\ UNCHANGED <<initialized, admin, sessions, passkeys, limiter, history>>

\* totpEnable: the challenge is read and the code checked ...
TotpEnable(r, a) ==
    /\ \E id \in 1..requests, code \in 1..requests :
         \E c \in ChallengeOf(id, "totp", a) :
            /\ code = c.data
            /\ Authed(r, "enable", a, [Draft EXCEPT !.kind = "enable", !.id = id, !.code = code])
            /\ confirmed' = IF code \in {d.data : d \in {e \in challenges : e.owner = a}}
                            THEN [confirmed EXCEPT ![a] = @ \cup {code}] ELSE confirmed
    /\ UNCHANGED <<accounts, limiter, crowded>>

\* ... then the row updated, and then the challenge deleted.
StoreSecret(r) ==
    /\ pc[r] = "enable"
    /\ admin' = [admin EXCEPT ![req[r].who].enabled = TRUE,
                              ![req[r].who].secret = req[r].code]
    /\ Go(r, "spent")
    /\ UNCHANGED <<initialized, sessions, challenges, passkeys, limiter, history>>

\* totpDisable: the code is checked against the row the request came with.
TotpDisable(r, a) ==
    /\ \E code \in 0..requests :
         Authed(r, IF admin[a].enabled => code = admin[a].secret THEN "disable" ELSE "done",
                a, [Draft EXCEPT !.kind = "disable"])
    /\ UNCHANGED <<accounts, limiter, history>>

ClearSecret(r) ==
    /\ pc[r] = "disable"
    /\ admin' = [admin EXCEPT ![req[r].who].enabled = FALSE, ![req[r].who].secret = 0]
    /\ Done(r)
    /\ UNCHANGED <<initialized, sessions, challenges, passkeys, limiter, history>>

--------------------------------------------------------------------------------
(* Passkeys.                                                                *)

\* passkeyRegisterOptions and, with the challenge to answer, passkeyRegisterFinish:
\* both begin with EnsureWebAuthnHandle.
RegisterOptions(r, a) ==
    /\ Authed(r, "read", a, [Draft EXCEPT !.kind = "options"])
    /\ UNCHANGED <<accounts, limiter, history>>

RegisterFinish(r, a) ==
    /\ \E id \in 1..requests :
         /\ ChallengeOf(id, "passkey", a) # {}
         /\ Authed(r, "read", a, [Draft EXCEPT !.kind = "finish", !.id = id,
                                    !.asked = (CHOOSE c \in ChallengeOf(id, "passkey", a) : TRUE).data])
    /\ UNCHANGED <<accounts, limiter, history>>

\* EnsureWebAuthnHandle reads the handle ...
Choosing(a) == {r \in Requests : pc[r] = "choose" /\ req[r].who = a}

ReadHandleOrRenew(r) ==             \* a new handle for every registration
    /\ pc[r] = "read"
    /\ pc' = [pc EXCEPT ![r] = IF req[r].kind = "options" THEN "choose" ELSE "use"]
    /\ req' = [req EXCEPT ![r].mine = admin[req[r].who].handle]
    /\ UNCHANGED <<accounts, limiter, history, requests>>

ReadHandleOnly(r) ==                \* no handle is chosen where there was none
    /\ pc[r] = "read"
    /\ pc' = [pc EXCEPT ![r] = "use"]
    /\ req' = [req EXCEPT ![r].mine = admin[req[r].who].handle]
    /\ UNCHANGED <<accounts, limiter, history, requests>>

ReadHandle(r) ==
    LET a == req[r].who
    IN  /\ pc[r] = "read"
        /\ req' = [req EXCEPT ![r].mine = admin[a].handle]
        /\ pc' = [pc EXCEPT ![r] = IF admin[a].handle = 0 THEN "choose" ELSE "use"]
        /\ crowded' = IF admin[a].handle = 0 /\ Choosing(a) # {}
                      THEN crowded \cup {a} ELSE crowded
        /\ UNCHANGED <<accounts, limiter, confirmed, requests>>

\* ... and writes one where there was none.
ChooseHandle(r) ==
    /\ pc[r] = "choose"
    /\ admin' = [admin EXCEPT ![req[r].who].handle = r]
    /\ req' = [req EXCEPT ![r].mine = r]
    /\ pc' = [pc EXCEPT ![r] = "use"]
    /\ UNCHANGED <<initialized, sessions, challenges, passkeys, limiter, history, requests>>

\* BeginRegistration puts the handle into the challenge and into the authenticator.
Offer(r) ==
    /\ pc[r] = "use"
    /\ req[r].kind = "options"
    /\ challenges' = challenges \cup {Challenge(r, req[r].who, "passkey", req[r].mine)}
    /\ Done(r)
    /\ UNCHANGED <<initialized, admin, sessions, passkeys, limiter, history>>

\* FinishRegistration wants the challenge's handle to be the account's.
SavePasskey(r) ==
    /\ pc[r] = "use"
    /\ req[r].kind = "finish"
    /\ IF req[r].asked = req[r].mine
       THEN /\ passkeys' = passkeys \cup {[id |-> r, owner |-> req[r].who,
                                            handle |-> req[r].asked]}
            /\ Go(r, "spent")
       ELSE Done(r) /\ UNCHANGED passkeys
    /\ UNCHANGED <<initialized, admin, sessions, challenges, limiter, history>>

\* DeleteAuthChallenge, once it has served.
Spend(r) ==
    /\ pc[r] = "spent"
    /\ challenges' = {c \in challenges : c.id # req[r].id}
    /\ Done(r)
    /\ UNCHANGED <<initialized, admin, sessions, passkeys, limiter, history>>

PasskeyDelete(r, a) ==
    /\ Authed(r, "done", a, Draft)
    /\ \E p \in passkeys : p.owner = a /\ passkeys' = passkeys \ {p}
    /\ UNCHANGED <<initialized, admin, sessions, challenges, limiter, history>>

\* Five minutes pass: whoever presents the challenge now finds none.
Expire ==
    /\ \E c \in challenges : challenges' = challenges \ {c}
    /\ UNCHANGED <<initialized, admin, sessions, passkeys, limiter, pc, req, history,
                   requests>>

\* A statement fails: the request ends there, with an error if anybody is told.
Fail(r) ==
    /\ pc[r] \notin {"new", "done"}
    /\ Done(r)
    /\ UNCHANGED <<accounts, limiter, history>>

--------------------------------------------------------------------------------

Asked(r, a) ==
    \/ CreateAdmin(r, a) \/ Complete(r, a) \/ Login(r, a) \/ PasskeyLogin(r, a)
    \/ TotpSetup(r, a) \/ TotpEnable(r, a) \/ TotpDisable(r, a)
    \/ RegisterOptions(r, a) \/ RegisterFinish(r, a) \/ PasskeyDelete(r, a)

Step(r) ==
    \/ InsertAdmin(r) \/ SetInitialized(r) \/ StoreSession(r)
    \/ StoreSecret(r) \/ ClearSecret(r)
    \/ ReadHandle(r) \/ ChooseHandle(r) \/ Offer(r) \/ SavePasskey(r) \/ Spend(r)
    \/ Fail(r)

Next ==
    \/ \E r \in Requests : Step(r) \/ \E a \in Admins : Asked(r, a)
    \/ \E a \in Admins : Logout(a)
    \/ Tick \/ Cleanup \/ Expire

Spec == Init /\ [][Next]_vars

--------------------------------------------------------------------------------
(* Properties.                                                              *)

Numbers == 0..MaxRequests

\* Every variable holds what the code can hold, and an id of auth_challenges or
\* passkeys names one row.
TypeOK ==
    /\ initialized \in BOOLEAN
    /\ admin \in [Admins -> [exists : BOOLEAN, enabled : BOOLEAN,
                             secret : Numbers, handle : Numbers]]
    /\ sessions \subseteq Admins
    /\ challenges \subseteq [id : Requests, owner : Admins, kind : {"totp", "passkey"},
                             data : Requests]
    /\ passkeys \subseteq [id : Requests, owner : Admins, handle : Requests]
    /\ \A c, d \in challenges : c.id = d.id => c = d
    /\ \A p, q \in passkeys : p.id = q.id => p = q
    /\ bucket \in [there : BOOLEAN, tokens : 0..Burst, idle : 0..(IdleTicks + 1)]
    /\ ideal \in 0..Burst
    /\ pc \in [Requests -> {"new", "insert", "complete", "session", "enable", "disable",
                            "read", "choose", "use", "spent", "done"}]
    /\ req \in [Requests -> [kind : {"none", "createAdmin", "complete", "login", "enable",
                                     "disable", "options", "finish"},
                             who : Admins \cup {Nobody}, id : Numbers, code : Numbers,
                             asked : Numbers, mine : Numbers]]
    /\ confirmed \in [Admins -> SUBSET Requests]
    /\ crowded \subseteq Admins
    /\ requests \in Numbers

\* Whoever is signed in has an account, and the wizard never ends without one: it is
\* closed for good once initialized is set, whatever requests overlap (gate, complete).
NeverLockedOut ==
    /\ sessions \subseteq Installed
    /\ initialized => Installed # {}

\* A second factor that is asked for is one its administrator has set up and confirmed:
\* enabled and disabled at the same time, by requests that hold challenges and rows
\* read earlier, the flag never stands without a secret, nor with another's
\* (totpEnable, totpDisable).
SecretIsConfirmed ==
    \A a \in Admins : admin[a].enabled => admin[a].secret \in confirmed[a]

\* Every passkey of an administrator signs in: the handle its authenticator keeps is
\* the account's, unless two requests have chosen the first handle at the same time
\* (EnsureWebAuthnHandle, passkeyRegisterFinish).
PasskeysSignIn ==
    \A p \in passkeys : p.owner \notin crowded => p.handle = admin[p.owner].handle

\* To drop a bucket is to forget nothing: attempts are allowed exactly when they would
\* be by a bucket that has been kept and refilled all along (Allow).
CleanupForgetsNothing == Refilled(bucket) = ideal

=============================================================================
