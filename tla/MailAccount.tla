------------------------------ MODULE MailAccount ------------------------------
(***************************************************************************)
(* The password and the passkeys of a mailbox                              *)
(* (internal/mailapi/handlers_account.go, internal/db/store_security.go,   *)
(* internal/admin/core.go).  A passkey signs in without a password, but    *)
(* the webmail has to log in to Dovecot with one: the mailbox row keeps an *)
(* encrypted copy of it beside its hash.                                   *)
(*                                                                         *)
(* One address, whose mailbox may be deleted and created anew.  Every SQL  *)
(* statement is a step and requests overlap freely.  Sessions (see there)  *)
(* appear as the passwords they hold.                                      *)
(***************************************************************************)
EXTENDS Naturals

CONSTANTS
    Passwords,      \* passwords in use
    Requests,       \* goroutines serving webmail requests
    Null,           \* no password
    MaxRandoms,     \* bound: random handles, challenge ids and key ids drawn
    MaxMailboxes    \* bound: mailbox rows ever created

ASSUME PasswordAssumption == Null \notin Passwords
ASSUME BoundsAssumption == MaxRandoms \in Nat /\ MaxMailboxes \in Nat

VARIABLES
    mailbox,        \* the row of the address, or NoMailbox
    nextId,         \* the next AUTOINCREMENT id of a mailbox
    challenges,     \* rows of auth_challenges that have not expired
    passkeys,       \* registered passkeys
    drawn,          \* random values drawn so far: the n-th one is n, 0 is none
    held,           \* passwords that sessions of this address hold
    pc,             \* pc[w]: where request w is
    local           \* local[w]: what request w has read

vars == <<mailbox, nextId, challenges, passkeys, drawn, held, pc, local>>

--------------------------------------------------------------------------------
(* Data.                                                                    *)

NoMailbox   == [id |-> 0, password |-> Null, copy |-> Null, enabled |-> FALSE, handle |-> 0]
NoChallenge == [id |-> 0, kind |-> "none", owner |-> 0, handle |-> 0]
NoPasskey   == [key |-> 0, owner |-> 0, handle |-> 0]

\* owner: the mailbox id; password: the session's; hash: the one it read.
Blank == [owner |-> 0, password |-> Null, hash |-> Null, handle |-> 0,
          challenge |-> NoChallenge, passkey |-> NoPasskey]

\* WHERE id = o finds a row.
Exists(o) == o # 0 /\ mailbox.id = o

\* UpdateMailboxPasswordAndPasskeySecret: one statement, which finds the row or
\* changes nothing.
SetPassword(o, hash, copy) ==
    mailbox' = IF Exists(o) THEN [mailbox EXCEPT !.password = hash, !.copy = copy] ELSE mailbox

Init ==
    /\ mailbox = NoMailbox
    /\ nextId = 1
    /\ challenges = {}
    /\ passkeys = {}
    /\ drawn = 0
    /\ held = {}
    /\ pc = [w \in Requests |-> "idle"]
    /\ local = [w \in Requests |-> Blank]

Goto(w, l, mine) ==
    /\ pc' = [pc EXCEPT ![w] = l]
    /\ local' = [local EXCEPT ![w] = IF l = "idle" THEN Blank ELSE mine]

Draw == drawn < MaxRandoms /\ drawn' = drawn + 1

--------------------------------------------------------------------------------
(* Sessions of this address.                                                *)

\* login with the right password, while the mailbox is enabled.
SignIn ==
    /\ mailbox.id # 0 /\ mailbox.enabled
    /\ held' = held \cup {mailbox.password}
    /\ UNCHANGED <<mailbox, nextId, challenges, passkeys, drawn, pc, local>>

\* The last session that holds p logs out or expires.
SignOut(p) ==
    /\ held' = held \ {p}
    /\ UNCHANGED <<mailbox, nextId, challenges, passkeys, drawn, pc, local>>

Handlers == {"change", "register options", "register finish", "delete passkey"}

\* authed takes the session's password ...
CredentialsFor(w, p) ==
    /\ pc[w] = "idle"
    /\ p \in held
    /\ Goto(w, "load mailbox", [Blank EXCEPT !.password = p])
    /\ UNCHANGED <<mailbox, nextId, challenges, passkeys, drawn, held>>

\* ... and reads the mailbox with this address, for the handler to work with.
LoadMailbox(w) ==
    /\ pc[w] = "load mailbox"
    /\ mailbox.id # 0 /\ mailbox.enabled
    /\ \E h \in Handlers :
         Goto(w, h, [local[w] EXCEPT !.owner = mailbox.id, !.hash = mailbox.password])
    /\ UNCHANGED <<mailbox, nextId, challenges, passkeys, drawn, held>>

--------------------------------------------------------------------------------
(* changePassword.                                                          *)

ChangePassword(w, p) ==
    /\ pc[w] = "change"
    /\ SetPassword(local[w].owner, p, p)
    /\ Goto(w, "set credentials", [local[w] EXCEPT !.password = p])
    /\ UNCHANGED <<nextId, challenges, passkeys, drawn, held>>

SetCredentials(w) ==
    /\ pc[w] = "set credentials"
    /\ held' = held \cup {local[w].password}
    /\ Goto(w, "idle", Blank)
    /\ UNCHANGED <<mailbox, nextId, challenges, passkeys, drawn>>

--------------------------------------------------------------------------------
(* Registering a passkey.                                                   *)

\* passkeyRegisterOptions: when the session's password opens the mailbox as it
\* was read, a copy of it is stored, together with the hash that was read.
RegisterOptions(w) ==
    /\ pc[w] = "register options"
    /\ local[w].password = local[w].hash
    /\ SetPassword(local[w].owner, local[w].hash, local[w].password)
    /\ Goto(w, "handle", local[w])
    /\ UNCHANGED <<nextId, challenges, passkeys, drawn, held>>

AfterHandle(w) == IF local[w].challenge = NoChallenge THEN "insert challenge" ELSE "save"

\* EnsureWebAuthnHandle: the handle of the row ...
ReadHandle(w) ==
    /\ pc[w] = "handle"
    /\ Exists(local[w].owner)
    /\ mailbox.handle # 0
    /\ Goto(w, AfterHandle(w), [local[w] EXCEPT !.handle = mailbox.handle])
    /\ UNCHANGED <<mailbox, nextId, challenges, passkeys, drawn, held>>

\* ... or, when it has none, a new one ...
DrawHandle(w) ==
    /\ pc[w] = "handle"
    /\ Exists(local[w].owner)
    /\ mailbox.handle = 0
    /\ Draw
    /\ Goto(w, "write handle", [local[w] EXCEPT !.handle = drawn + 1])
    /\ UNCHANGED <<mailbox, nextId, challenges, passkeys, held>>

\* ... that is written whether or not there is one by now.
WriteHandle(w) ==
    /\ pc[w] = "write handle"
    /\ mailbox' = IF Exists(local[w].owner) THEN [mailbox EXCEPT !.handle = local[w].handle]
                                            ELSE mailbox
    /\ Goto(w, AfterHandle(w), local[w])
    /\ UNCHANGED <<nextId, challenges, passkeys, drawn, held>>

InsertChallenge(w) ==
    /\ pc[w] = "insert challenge"
    /\ Draw
    /\ challenges' = challenges \cup
         {[id |-> drawn + 1, kind |-> "register", owner |-> local[w].owner,
           handle |-> local[w].handle]}
    /\ Goto(w, "idle", Blank)
    /\ UNCHANGED <<mailbox, nextId, passkeys, held>>

\* passkeyRegisterFinish: a challenge of this mailbox ...
ReadRegisterChallenge(w, c) ==
    /\ pc[w] = "register finish"
    /\ c.kind = "register"
    /\ c.owner = local[w].owner
    /\ Goto(w, "handle", [local[w] EXCEPT !.challenge = c])
    /\ UNCHANGED <<mailbox, nextId, challenges, passkeys, drawn, held>>

\* ... that was made for the handle the mailbox has now.  The key is the one that
\* answered the challenge, and is registered once.
SavePasskey(w) ==
    LET c == local[w].challenge
    IN  /\ pc[w] = "save"
        /\ c.handle = local[w].handle
        /\ \A k \in passkeys : k.key # c.id
        /\ passkeys' = passkeys \cup
             {[key |-> c.id, owner |-> local[w].owner, handle |-> local[w].handle]}
        /\ Goto(w, "drop challenge", local[w])
        /\ UNCHANGED <<mailbox, nextId, challenges, drawn, held>>

DropChallenge(w) ==
    /\ pc[w] = "drop challenge"
    /\ challenges' = challenges \ {local[w].challenge}
    /\ Goto(w, "idle", Blank)
    /\ UNCHANGED <<mailbox, nextId, passkeys, drawn, held>>

DeletePasskey(w, k) ==
    /\ pc[w] = "delete passkey"
    /\ k.owner = local[w].owner
    /\ passkeys' = passkeys \ {k}
    /\ Goto(w, "idle", Blank)
    /\ UNCHANGED <<mailbox, nextId, challenges, drawn, held>>

--------------------------------------------------------------------------------
(* Signing in with a passkey.                                               *)

OfferLogin ==
    /\ Draw
    /\ challenges' = challenges \cup
         {[id |-> drawn + 1, kind |-> "login", owner |-> 0, handle |-> 0]}
    /\ UNCHANGED <<mailbox, nextId, passkeys, held, pc, local>>

\* passkeyLoginFinish reads the challenge, the passkey that answers it ...
ReadLoginChallenge(w, c) ==
    /\ pc[w] = "idle"
    /\ c.kind = "login"
    /\ Goto(w, "find passkey", [Blank EXCEPT !.challenge = c])
    /\ UNCHANGED <<mailbox, nextId, challenges, passkeys, drawn, held>>

FindPasskey(w, k) ==
    /\ pc[w] = "find passkey"
    /\ Goto(w, "check owner", [local[w] EXCEPT !.passkey = k, !.owner = k.owner])
    /\ UNCHANGED <<mailbox, nextId, challenges, passkeys, drawn, held>>

\* ... its mailbox, with the handle the passkey was made for ...
CheckOwner(w) ==
    /\ pc[w] = "check owner"
    /\ Exists(local[w].owner) /\ mailbox.enabled
    /\ mailbox.handle = local[w].passkey.handle
    /\ Goto(w, "list passkeys", local[w])
    /\ UNCHANGED <<mailbox, nextId, challenges, passkeys, drawn, held>>

\* ... the passkeys of the mailbox ...
ListPasskeys(w) ==
    /\ pc[w] = "list passkeys"
    /\ local[w].passkey \in passkeys
    /\ Goto(w, "read copy", local[w])
    /\ UNCHANGED <<mailbox, nextId, challenges, passkeys, drawn, held>>

\* ... and the mailbox once more, for the copy of its password ...
ReadCopy(w) ==
    /\ pc[w] = "read copy"
    /\ Exists(local[w].owner) /\ mailbox.enabled
    /\ mailbox.copy # Null
    /\ Goto(w, "login", [local[w] EXCEPT !.password = mailbox.copy])
    /\ UNCHANGED <<mailbox, nextId, challenges, passkeys, drawn, held>>

\* ... which the new session holds.
PasskeyLogin(w) ==
    /\ pc[w] = "login"
    /\ held' = held \cup {local[w].password}
    /\ Goto(w, "drop challenge", local[w])
    /\ UNCHANGED <<mailbox, nextId, challenges, passkeys, drawn>>

--------------------------------------------------------------------------------
(* The admin's side, time, failures and restarts.                           *)

CreateReusingId(p) ==       \* a key without AUTOINCREMENT
    /\ mailbox = NoMailbox
    /\ nextId <= MaxMailboxes
    /\ mailbox' = [id |-> nextId, password |-> p, copy |-> Null, enabled |-> TRUE, handle |-> 0]
    /\ UNCHANGED <<nextId, challenges, passkeys, drawn, held, pc, local>>

CreateMailbox(p) ==
    /\ mailbox = NoMailbox
    /\ nextId <= MaxMailboxes
    /\ mailbox' = [id |-> nextId, password |-> p, copy |-> Null, enabled |-> TRUE, handle |-> 0]
    /\ nextId' = nextId + 1
    /\ UNCHANGED <<challenges, passkeys, drawn, held, pc, local>>

\* A request for another quota writes back the flag it has read, so any value may
\* be written at any time.
UpdateMailbox(on) ==
    /\ mailbox.id # 0
    /\ mailbox' = [mailbox EXCEPT !.enabled = on]
    /\ UNCHANGED <<nextId, challenges, passkeys, drawn, held, pc, local>>

ResetHashOnly(p) ==         \* UpdateMailboxPassword in its place
    /\ mailbox.id # 0
    /\ mailbox' = [mailbox EXCEPT !.password = p]
    /\ UNCHANGED <<nextId, challenges, passkeys, drawn, held, pc, local>>

\* ResetMailboxPassword knows of no session.
ResetMailboxPassword(p) ==
    /\ mailbox.id # 0
    /\ SetPassword(mailbox.id, p, p)
    /\ UNCHANGED <<nextId, challenges, passkeys, drawn, held, pc, local>>

\* Passkeys, challenges and sessions refer to a mailbox by no foreign key and stay.
DeleteMailbox ==
    /\ mailbox.id # 0
    /\ mailbox' = NoMailbox
    /\ UNCHANGED <<nextId, challenges, passkeys, drawn, held, pc, local>>

\* A challenge lives for five minutes.
ExpireChallenge(c) ==
    /\ challenges' = challenges \ {c}
    /\ UNCHANGED <<mailbox, nextId, passkeys, drawn, held, pc, local>>

\* A check or a statement fails, or the client has gone and its context with it.
Abandon(w) ==
    /\ pc[w] \notin {"idle", "set credentials"}
    /\ Goto(w, "idle", Blank)
    /\ UNCHANGED <<mailbox, nextId, challenges, passkeys, drawn, held>>

\* The passwords of sessions were only in memory.
Restart ==
    /\ held' = {}
    /\ pc' = [w \in Requests |-> "idle"]
    /\ local' = [w \in Requests |-> Blank]
    /\ UNCHANGED <<mailbox, nextId, challenges, passkeys, drawn>>

Request(w) ==
    \/ \E p \in held : CredentialsFor(w, p)
    \/ LoadMailbox(w)
    \/ \E p \in Passwords : ChangePassword(w, p)
    \/ SetCredentials(w)
    \/ RegisterOptions(w) \/ ReadHandle(w) \/ DrawHandle(w) \/ WriteHandle(w)
    \/ InsertChallenge(w)
    \/ \E c \in challenges : ReadRegisterChallenge(w, c) \/ ReadLoginChallenge(w, c)
    \/ SavePasskey(w) \/ DropChallenge(w)
    \/ \E k \in passkeys : FindPasskey(w, k) \/ DeletePasskey(w, k)
    \/ CheckOwner(w) \/ ListPasskeys(w) \/ ReadCopy(w) \/ PasskeyLogin(w)
    \/ Abandon(w)

Administer ==
    \/ \E p \in Passwords : CreateMailbox(p) \/ ResetMailboxPassword(p)
    \/ \E on \in BOOLEAN : UpdateMailbox(on)
    \/ DeleteMailbox

Next ==
    \/ \E w \in Requests : Request(w)
    \/ SignIn \/ (\E p \in held : SignOut(p))
    \/ OfferLogin \/ (\E c \in challenges : ExpireChallenge(c))
    \/ Administer
    \/ Restart

Spec == Init /\ [][Next]_vars

--------------------------------------------------------------------------------
(* Properties.                                                              *)

Copies     == Passwords \cup {Null}
Mailboxes  == [id : Nat, password : Copies, copy : Copies, enabled : BOOLEAN, handle : Nat]
Challenges == [id : Nat, kind : {"none", "register", "login"}, owner : Nat, handle : Nat]
Passkeys   == [key : Nat, owner : Nat, handle : Nat]
Locals     == [owner : Nat, password : Copies, hash : Copies, handle : Nat,
               challenge : Challenges, passkey : Passkeys]
PCs        == Handlers \cup
              {"idle", "load mailbox", "set credentials", "handle", "write handle",
               "insert challenge", "save", "drop challenge", "find passkey", "check owner",
               "list passkeys", "read copy", "login"}

TypeOK ==
    /\ mailbox \in Mailboxes
    /\ mailbox.id < nextId
    /\ nextId \in Nat \ {0}
    /\ challenges \subseteq Challenges
    /\ passkeys \subseteq Passkeys
    /\ drawn \in 0 .. MaxRandoms
    /\ held \subseteq Passwords
    /\ pc \in [Requests -> PCs]
    /\ local \in [Requests -> Locals]

\* A passkey never loses its way in: as long as its mailbox exists there is a copy
\* of the password, and it is the current one, however password changes, resets,
\* registrations and a new mailbox at the address overlap.
PasskeysOpen ==
    \A k \in passkeys : Exists(k.owner) => mailbox.copy = mailbox.password /\ mailbox.copy # Null
================================================================================
