-------------------------------- MODULE Sessions --------------------------------
(***************************************************************************)
(* Cookie sessions (internal/auth/session.go, internal/db/store.go).  A    *)
(* session is a row in the database.  For a mailbox session the password   *)
(* that logs in to Dovecot is kept as well, in memory only, in a map with  *)
(* a mutex; a sweeper forgets the passwords of sessions that are over.     *)
(*                                                                         *)
(* Row and password are two pieces of state that no transaction joins:     *)
(* every SQL statement is a step and so is every visit to the map.  What   *)
(* the password is does not matter here, only whether there is one.        *)
(***************************************************************************)
EXTENDS Naturals

CONSTANTS
    Requests,       \* goroutines serving HTTP requests
    MaxTokens       \* bound: session tokens ever drawn

ASSUME TokensAssumption == MaxTokens \in Nat

VARIABLES
    session,        \* session[t]: the row of the session with token t, or NoRow
    drawn,          \* tokens drawn so far; a token is never drawn twice
    creds,          \* tokens with a password in Sessions.creds
    pc,             \* pc[w]: where request w is
    token,          \* token[w]: the session it is about
    sweep,          \* where the sweeper is; it holds the mutex in "drop"
    listed,         \* the sessions it has listed
    cut             \* history: the listing it works from broke off early

request == <<pc, token>>
sweeper == <<sweep, listed, cut>>
vars    == <<session, drawn, creds, request, sweeper>>

--------------------------------------------------------------------------------

Tokens    == 1 .. MaxTokens
UserTypes == {"admin", "mailbox"}
Rows      == [userType : UserTypes, expired : BOOLEAN]
NoRow     == [userType |-> "none", expired |-> TRUE]

IsLive(t)  == ~session[t].expired
IsOver(t)  == t <= drawn /\ session[t].expired
MutexFree  == sweep # "drop"
Mailboxes  == {t \in Tokens : session[t].userType = "mailbox"}
Unexpired  == [t \in Tokens |-> IF session[t].expired THEN NoRow ELSE session[t]]

Init ==
    /\ session = [t \in Tokens |-> NoRow]
    /\ drawn = 0
    /\ creds = {}
    /\ pc = [w \in Requests |-> "idle"]
    /\ token = [w \in Requests |-> 0]
    /\ sweep = "idle"
    /\ listed = {}
    /\ cut = FALSE

Goto(w, l, t) ==
    /\ pc' = [pc EXCEPT ![w] = l]
    /\ token' = [token EXCEPT ![w] = IF l = "idle" THEN 0 ELSE t]

--------------------------------------------------------------------------------
(* Login.                                                                   *)

DrawAgain(w, u) ==      \* the generator repeats itself
    /\ pc[w] = "idle"
    /\ drawn < MaxTokens
    /\ session' = [session EXCEPT ![drawn + 1] = [userType |-> u, expired |-> FALSE]]
    /\ Goto(w, IF u = "mailbox" THEN "store" ELSE "idle", drawn + 1)
    /\ UNCHANGED <<drawn, creds, sweeper>>

\* CreateSession inserts the row ...
CreateSession(w, u) ==
    /\ pc[w] = "idle"
    /\ drawn < MaxTokens
    /\ drawn' = drawn + 1
    /\ session' = [session EXCEPT ![drawn + 1] = [userType |-> u, expired |-> FALSE]]
    /\ Goto(w, IF u = "mailbox" THEN "store" ELSE "idle", drawn + 1)
    /\ UNCHANGED <<creds, sweeper>>

StoreUnlocked(w) ==     \* the map written without its mutex
    /\ pc[w] = "store"
    /\ creds' = creds \cup {token[w]}
    /\ Goto(w, "idle", 0)
    /\ UNCHANGED <<session, drawn, sweeper>>

\* ... and the password of a mailbox goes into the map.  A password change ends
\* the same way, with SetCredentials.
StoreCredentials(w) ==
    /\ pc[w] = "store"
    /\ MutexFree
    /\ creds' = creds \cup {token[w]}
    /\ Goto(w, "idle", 0)
    /\ UNCHANGED <<session, drawn, sweeper>>

--------------------------------------------------------------------------------
(* A signed-in request.                                                     *)

\* LookupSession finds the row, and is done with an admin's; one that has
\* expired it goes on to delete.
LookupSession(w, t) ==
    /\ pc[w] = "idle"
    /\ session[t] # NoRow
    /\ \/ IsLive(t) /\ session[t].userType = "mailbox" /\ Goto(w, "credentials", t)
       \/ ~IsLive(t) /\ Goto(w, "delete", t)
    /\ UNCHANGED <<session, drawn, creds, sweeper>>

\* A restart since the login has left no password: sign in again.
CredentialsFor(w) ==
    /\ pc[w] = "credentials"
    /\ MutexFree
    /\ Goto(w, IF token[w] \in creds THEN "serve" ELSE "idle", token[w])
    /\ UNCHANGED <<session, drawn, creds, sweeper>>

\* The handler: changePassword goes on to replace the password, when its statement
\* succeeds; the others do not.
Serve(w) ==
    /\ pc[w] = "serve"
    /\ Goto(w, "store", token[w]) \/ Goto(w, "idle", 0)
    /\ UNCHANGED <<session, drawn, creds, sweeper>>

--------------------------------------------------------------------------------
(* The end of a session.                                                    *)

\* Logout needs only the cookie.  It forgets the password ...
Logout(w, t) ==
    /\ pc[w] = "idle"
    /\ MutexFree
    /\ creds' = creds \ {t}
    /\ Goto(w, "delete", t)
    /\ UNCHANGED <<session, drawn, sweeper>>

\* ... and then deletes the row, and does not ask whether it did.
DeleteSession(w) ==
    /\ pc[w] = "delete"
    /\ \/ session' = [session EXCEPT ![token[w]] = NoRow]
       \/ UNCHANGED session
    /\ Goto(w, "idle", 0)
    /\ UNCHANGED <<drawn, creds, sweeper>>

Expire(t) ==
    /\ IsLive(t)
    /\ session' = [session EXCEPT ![t] = [userType |-> session[t].userType, expired |-> TRUE]]
    /\ UNCHANGED <<drawn, creds, request, sweeper>>

\* Sweep prunes the expired rows, or fails to and goes on all the same ...
PruneSessions ==
    /\ sweep = "idle"
    /\ sweep' = "list"
    /\ session' = Unexpired
    /\ UNCHANGED <<drawn, creds, request, listed, cut>>

PruneFails ==
    /\ sweep = "idle"
    /\ sweep' = "list"
    /\ UNCHANGED <<session, drawn, creds, request, listed, cut>>

\* ... takes the mutex and lists the mailbox sessions that are left ...
ListSessions ==
    /\ sweep = "list"
    /\ sweep' = "drop"
    /\ listed' = Mailboxes
    /\ cut' = FALSE
    /\ UNCHANGED <<session, drawn, creds, request>>

\* ... or some of them: a row that does not scan is passed over, and nobody asks
\* whether the rows ended or broke off ...
ListSome ==
    /\ sweep = "list"
    /\ sweep' = "drop"
    /\ listed' \in SUBSET Mailboxes
    /\ cut' = TRUE
    /\ UNCHANGED <<session, drawn, creds, request>>

ListFails ==
    /\ sweep = "list"
    /\ sweep' = "idle"
    /\ UNCHANGED <<session, drawn, creds, request, listed, cut>>

PruneOnly ==            \* the passwords stay
    /\ sweep = "drop"
    /\ sweep' = "idle"
    /\ listed' = {}
    /\ cut' = FALSE
    /\ UNCHANGED <<session, drawn, creds, request>>

\* ... and forgets the password of every other session before it lets go.
DropCredentials ==
    /\ sweep = "drop"
    /\ sweep' = "idle"
    /\ listed' = {}
    /\ cut' = FALSE
    /\ creds' = creds \cap listed
    /\ UNCHANGED <<session, drawn, request>>

\* The daemon dies and starts again; the rows are what is left.
Restart ==
    /\ creds' = {}
    /\ pc' = [w \in Requests |-> "idle"]
    /\ token' = [w \in Requests |-> 0]
    /\ sweep' = "idle"
    /\ listed' = {}
    /\ cut' = FALSE
    /\ UNCHANGED <<session, drawn>>

Request(w) ==
    \/ \E u \in UserTypes : CreateSession(w, u)
    \/ StoreCredentials(w)
    \/ \E t \in 1 .. drawn : LookupSession(w, t) \/ Logout(w, t)
    \/ CredentialsFor(w) \/ Serve(w) \/ DeleteSession(w)

Sweep == PruneSessions \/ PruneFails \/ ListSessions \/ ListSome \/ ListFails \/ DropCredentials

Next ==
    \/ \E w \in Requests : Request(w)
    \/ \E t \in 1 .. drawn : Expire(t)
    \/ Sweep
    \/ Restart

\* The ticker fires every 15 minutes, a statement tried that often succeeds in
\* the end, and the sweeper waits for nobody once it holds the mutex.
Fairness == SF_vars(PruneSessions) /\ SF_vars(ListSessions) /\ WF_vars(DropCredentials)

Spec == Init /\ [][Next]_vars /\ Fairness

--------------------------------------------------------------------------------
(* Properties.                                                              *)

PCs == {"idle", "store", "credentials", "serve", "delete"}

TypeOK ==
    /\ session \in [Tokens -> Rows \cup {NoRow}]
    /\ drawn \in 0 .. MaxTokens
    /\ creds \subseteq 1 .. drawn
    /\ pc \in [Requests -> PCs]
    /\ token \in [Requests -> 0 .. drawn]
    /\ sweep \in {"idle", "list", "drop"}
    /\ listed \subseteq Tokens
    /\ cut \in BOOLEAN

\* A live session loses its password to its own logout, to a restart, or to a
\* sweeper whose listing broke off, and to nobody else: the sweeper that has the
\* whole list spares the session that signs in while it is at work.
SweepSparesLive ==
    [][\A t \in creds \ creds' :
         IsLive(t) => cut \/ Restart \/ \E w \in Requests : Logout(w, t)]_vars

\* The password of a session that is over leaves memory, whichever of logout,
\* expiry, the end of a sign-in or a late password change came last.
EndedIsForgotten ==
    \A t \in Tokens : IsOver(t) ~> t \notin creds
=================================================================================
