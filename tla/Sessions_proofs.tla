---------------------------- MODULE Sessions_proofs ----------------------------
(***************************************************************************)
(* Proofs about Sessions, for any number of requests and of tokens.  The   *)
(* sweeper forgets a password when the session was not in its list, and    *)
(* the list is older than that moment; that it holds the mutex since is    *)
(* what keeps the list good enough, and ListCovers says how.               *)
(***************************************************************************)
EXTENDS Sessions, TLAPS

\* The sessions a request stores, reads or uses a password for are mailbox
\* sessions, or over.
OwnsMailbox(t) == session[t] \in {NoRow} \cup [userType : {"mailbox"}, expired : BOOLEAN]

PasswordsAreMailboxes ==
    /\ \A t \in creds : OwnsMailbox(t)
    /\ \A w \in Requests :
         pc[w] \in {"store", "credentials", "serve"} => token[w] # 0 /\ OwnsMailbox(token[w])
    /\ \A w \in Requests : pc[w] = "delete" => token[w] # 0

\* While the sweeper holds the mutex, every live session with a password is listed,
\* unless the listing broke off.
ListCovers ==
    sweep = "drop" /\ ~ cut => \A t \in creds : IsLive(t) => t \in listed

IInv == TypeOK /\ PasswordsAreMailboxes /\ ListCovers

--------------------------------------------------------------------------------

LEMMA InitIInv == Init => IInv
  <1>1. Init => TypeOK
    <2> SUFFICES ASSUME Init PROVE TypeOK
      OBVIOUS
    <2>1. session \in [Tokens -> Rows \cup {NoRow}] /\ pc \in [Requests -> PCs]
      BY DEF Init, PCs
    <2>2. drawn = 0 /\ drawn \in 0 .. MaxTokens /\ token \in [Requests -> 0 .. 0]
      BY TokensAssumption DEF Init
    <2> QED
      BY <2>1, <2>2 DEF Init, TypeOK
  <1>2. Init => PasswordsAreMailboxes /\ ListCovers
    BY DEF Init, PasswordsAreMailboxes, ListCovers
  <1> QED
    BY <1>1, <1>2 DEF IInv

\* A request that only moves on, on the same session or none.
LEMMA GotoType ==
    ASSUME NEW w \in Requests, NEW l \in PCs, NEW t \in 0 .. drawn, TypeOK, Goto(w, l, t)
    PROVE  /\ pc' \in [Requests -> PCs]
           /\ token' \in [Requests -> 0 .. drawn]
           /\ pc'[w] = l /\ token'[w] = IF l = "idle" THEN 0 ELSE t
           /\ \A v \in Requests \ {w} : pc'[v] = pc[v] /\ token'[v] = token[v]
  <1>1. 0 \in 0 .. drawn
    BY TokensAssumption DEF TypeOK
  <1> QED
    BY <1>1 DEF TypeOK, Goto

LEMMA CreateSessionStep ==
    ASSUME NEW w \in Requests, NEW u \in UserTypes, IInv, CreateSession(w, u)
    PROVE  IInv'
  <1> DEFINE n == drawn + 1
  <1> DEFINE row == [userType |-> u, expired |-> FALSE]
  <1>1. n \in Tokens /\ n \in 0 .. n /\ 0 \in 0 .. n /\ drawn' = n /\ n # 0
    BY TokensAssumption DEF IInv, TypeOK, CreateSession, Tokens
  <1>2. \A i \in 0 .. drawn : i \in 0 .. n /\ i # n
    BY TokensAssumption DEF IInv, TypeOK
  <1>3. creds \subseteq 1 .. n /\ n \notin creds /\ creds \subseteq Tokens
    BY TokensAssumption DEF IInv, TypeOK, Tokens
  <1>4. session' \in [Tokens -> Rows \cup {NoRow}] /\ session'[n] = row
    BY <1>1 DEF IInv, TypeOK, CreateSession, Rows
  <1>5. \A t \in Tokens \ {n} : session'[t] = session[t]
    BY DEF IInv, TypeOK, CreateSession
  <1>6. /\ pc' \in [Requests -> PCs] /\ token' \in [Requests -> 0 .. n]
        /\ \A v \in Requests \ {w} : pc'[v] = pc[v] /\ token'[v] = token[v]
        /\ \/ u = "mailbox" /\ pc'[w] = "store" /\ token'[w] = n
           \/ pc'[w] = "idle"
    <2>1. token \in [Requests -> 0 .. n]
      BY <1>2 DEF IInv, TypeOK
    <2> QED
      BY <2>1, <1>1 DEF IInv, TypeOK, CreateSession, Goto, PCs
  <1>7. TypeOK'
    BY <1>1, <1>3, <1>4, <1>6 DEF IInv, TypeOK, CreateSession, sweeper, Tokens
  <1>8. \A t \in Tokens \ {n} : OwnsMailbox(t) => OwnsMailbox(t)'
    BY <1>5 DEF OwnsMailbox
  <1>9. u = "mailbox" => session'[n] \in [userType : {"mailbox"}, expired : BOOLEAN]
    BY <1>4
  <1>10. PasswordsAreMailboxes'
    <2>1. \A t \in creds' : OwnsMailbox(t)'
      BY <1>3, <1>8 DEF IInv, PasswordsAreMailboxes, CreateSession
    <2>2. ASSUME NEW v \in Requests \ {w}, pc'[v] \in {"store", "credentials", "serve"}
          PROVE  token'[v] # 0 /\ OwnsMailbox(token[v])'
      <3>1. token[v] # 0 /\ OwnsMailbox(token[v])
        BY <1>6, <2>2 DEF IInv, PasswordsAreMailboxes
      <3>2. token[v] \in Tokens \ {n}
        BY <3>1, <1>2, TokensAssumption DEF IInv, TypeOK, Tokens
      <3> QED
        BY <3>1, <3>2, <1>6, <1>8
    <2>3. pc'[w] = "store" => token'[w] # 0 /\ OwnsMailbox(token[w])'
      BY <1>1, <1>6, <1>9 DEF OwnsMailbox
    <2>4. ASSUME NEW v \in Requests, pc'[v] = "delete" PROVE token'[v] # 0
      BY <1>6, <2>4 DEF IInv, PasswordsAreMailboxes
    <2> QED
      BY <2>1, <2>2, <2>3, <2>4, <1>6 DEF PasswordsAreMailboxes
  <1>11. ListCovers'
    BY <1>3, <1>5 DEF IInv, ListCovers, IsLive, CreateSession, sweeper
  <1> QED
    BY <1>7, <1>10, <1>11 DEF IInv

\* A request that leaves the rows alone and takes its session along.
LEMMA RequestStep ==
    ASSUME NEW w \in Requests, IInv,
           \/ StoreCredentials(w)
           \/ \E t \in 1 .. drawn : LookupSession(w, t) \/ Logout(w, t)
           \/ CredentialsFor(w) \/ Serve(w)
    PROVE  IInv'
  <1>0. \A i \in 1 .. drawn : i \in 0 .. drawn /\ i # 0 /\ i \in Tokens
    BY TokensAssumption DEF IInv, TypeOK, Tokens
  <1>1. token[w] \in 0 .. drawn /\ 0 \in 0 .. drawn
    BY TokensAssumption DEF IInv, TypeOK
  <1>2. UNCHANGED <<session, drawn, sweep, listed, cut>>
    BY DEF StoreCredentials, LookupSession, Logout, CredentialsFor, Serve, sweeper
  <1>3. \A t : OwnsMailbox(t)' <=> OwnsMailbox(t)
    BY <1>2 DEF OwnsMailbox
  <1>4. \A t : IsLive(t)' <=> IsLive(t)
    BY <1>2 DEF IsLive
  <1>5. CASE StoreCredentials(w)
    <2>1. token[w] # 0 /\ OwnsMailbox(token[w])
      BY <1>5 DEF IInv, PasswordsAreMailboxes, StoreCredentials
    <2>2. token[w] \in 1 .. drawn /\ creds' = creds \cup {token[w]} /\ sweep # "drop"
      BY <1>1, <1>5, <2>1, TokensAssumption DEF IInv, TypeOK, StoreCredentials, MutexFree
    <2>3. "idle" \in PCs /\ Goto(w, "idle", 0)
      BY <1>5 DEF StoreCredentials, PCs
    <2>4. /\ pc' \in [Requests -> PCs]
          /\ token' \in [Requests -> 0 .. drawn]
          /\ pc'[w] = "idle"
          /\ \A v \in Requests \ {w} : pc'[v] = pc[v] /\ token'[v] = token[v]
      BY <2>3, <1>1, GotoType DEF IInv
    <2> QED
      BY <1>2, <1>3, <2>1, <2>2, <2>4
      DEF IInv, TypeOK, PasswordsAreMailboxes, ListCovers
  <1>6. ASSUME NEW t \in 1 .. drawn, LookupSession(w, t) PROVE IInv'
    <2>1. t \in 0 .. drawn /\ t # 0 /\ t \in Tokens
      BY <1>0
    <2>2. \/ session[t].userType = "mailbox" /\ Goto(w, "credentials", t)
          \/ Goto(w, "delete", t)
      BY <1>6 DEF LookupSession
    <2>3. {"credentials", "delete"} \subseteq PCs /\ creds' = creds
      BY <1>6 DEF PCs, LookupSession
    <2>4. session[t].userType = "mailbox" => OwnsMailbox(t)
      BY <2>1 DEF IInv, TypeOK, OwnsMailbox, Rows
    <2>5. ASSUME NEW l \in {"credentials", "delete"}, Goto(w, l, t)
          PROVE  /\ pc' \in [Requests -> PCs]
                 /\ token' \in [Requests -> 0 .. drawn]
                 /\ pc'[w] = l /\ token'[w] = t
                 /\ \A v \in Requests \ {w} : pc'[v] = pc[v] /\ token'[v] = token[v]
      BY <2>1, <2>3, <2>5, GotoType DEF IInv
    <2>6. TypeOK'
      BY <1>2, <2>2, <2>3, <2>5 DEF IInv, TypeOK
    <2>7. PasswordsAreMailboxes'
      BY <1>3, <2>1, <2>2, <2>3, <2>4, <2>5 DEF IInv, PasswordsAreMailboxes
    <2>8. ListCovers'
      BY <1>2, <1>4, <2>3 DEF IInv, ListCovers
    <2> QED
      BY <2>6, <2>7, <2>8 DEF IInv
  <1>7. ASSUME NEW t \in 1 .. drawn, Logout(w, t) PROVE IInv'
    <2>1. t \in 0 .. drawn /\ t # 0
      BY <1>0
    <2>2. creds' \subseteq creds /\ "delete" \in PCs /\ Goto(w, "delete", t)
      BY <1>7 DEF Logout, PCs
    <2>3. /\ pc' \in [Requests -> PCs]
          /\ token' \in [Requests -> 0 .. drawn]
          /\ pc'[w] = "delete" /\ token'[w] = t
          /\ \A v \in Requests \ {w} : pc'[v] = pc[v] /\ token'[v] = token[v]
      BY <2>1, <2>2, GotoType DEF IInv
    <2> QED
      BY <1>2, <1>3, <1>4, <2>1, <2>2, <2>3
      DEF IInv, TypeOK, PasswordsAreMailboxes, ListCovers
  <1>8. CASE CredentialsFor(w) \/ Serve(w)
    <2>1. creds' = creds /\ pc[w] \in {"credentials", "serve"}
      BY <1>8 DEF CredentialsFor, Serve
    <2>2. token[w] # 0 /\ OwnsMailbox(token[w])
      BY <2>1 DEF IInv, PasswordsAreMailboxes
    <2>3. PICK l \in {"serve", "store", "idle"}, t \in {0, token[w]} :
            Goto(w, l, t) /\ (l # "idle" => t = token[w])
      BY <1>8 DEF CredentialsFor, Serve
    <2>4. l \in PCs /\ t \in 0 .. drawn
      BY <1>1 DEF PCs
    <2>5. /\ pc' \in [Requests -> PCs]
          /\ token' \in [Requests -> 0 .. drawn]
          /\ pc'[w] = l /\ (l # "idle" => token'[w] = token[w])
          /\ \A v \in Requests \ {w} : pc'[v] = pc[v] /\ token'[v] = token[v]
      BY <2>3, <2>4, GotoType DEF IInv
    <2>6. TypeOK'
      BY <1>2, <2>1, <2>5 DEF IInv, TypeOK
    <2>7. PasswordsAreMailboxes'
      BY <1>3, <2>1, <2>2, <2>5 DEF IInv, PasswordsAreMailboxes
    <2>8. ListCovers'
      BY <1>2, <1>4, <2>1 DEF IInv, ListCovers
    <2> QED
      BY <2>6, <2>7, <2>8 DEF IInv
  <1> QED
    BY <1>5, <1>6, <1>7, <1>8

\* Rows that end or expire: nothing becomes live, nobody else's row appears.
LEMMA RowsEnd ==
    ASSUME IInv,
           session' \in [Tokens -> Rows \cup {NoRow}],
           \A t \in Tokens :
             \/ session'[t] = session[t]
             \/ session'[t] = NoRow
             \/ session'[t] = [userType |-> session[t].userType, expired |-> TRUE]
    PROVE  /\ \A t \in Tokens : OwnsMailbox(t) => OwnsMailbox(t)'
           /\ \A t \in Tokens : IsLive(t)' => IsLive(t)
           /\ creds \subseteq Tokens
           /\ \A w \in Requests : token[w] # 0 => token[w] \in Tokens
  <1>1. ASSUME NEW t \in Tokens, OwnsMailbox(t) PROVE OwnsMailbox(t)'
    <2>1. CASE session'[t] = [userType |-> session[t].userType, expired |-> TRUE]
      <3>1. CASE session[t] = NoRow
        BY <2>1, <3>1 DEF OwnsMailbox, NoRow
      <3>2. CASE session[t] \in [userType : {"mailbox"}, expired : BOOLEAN]
        BY <2>1, <3>2 DEF OwnsMailbox
      <3> QED
        BY <1>1, <3>1, <3>2 DEF OwnsMailbox
    <2> QED
      BY <1>1, <2>1 DEF OwnsMailbox
  <1>2. \A t \in Tokens : IsLive(t)' => IsLive(t)
    BY DEF IsLive, NoRow
  <1>3. creds \subseteq Tokens
    BY TokensAssumption DEF IInv, TypeOK, Tokens
  <1>4. \A w \in Requests : token[w] # 0 => token[w] \in Tokens
    BY TokensAssumption DEF IInv, TypeOK, Tokens
  <1> QED
    BY <1>1, <1>2, <1>3, <1>4

LEMMA DeleteSessionStep ==
    ASSUME NEW w \in Requests, IInv, DeleteSession(w)
    PROVE  IInv'
  <1>1. 0 \in 0 .. drawn /\ "idle" \in PCs
    BY TokensAssumption DEF IInv, TypeOK, PCs
  <1>2. /\ pc' \in [Requests -> PCs]
        /\ token' \in [Requests -> 0 .. drawn]
        /\ pc'[w] = "idle"
        /\ \A v \in Requests \ {w} : pc'[v] = pc[v] /\ token'[v] = token[v]
    BY <1>1, GotoType DEF IInv, DeleteSession
  <1>3. /\ session' \in [Tokens -> Rows \cup {NoRow}]
        /\ \A t \in Tokens : session'[t] = session[t] \/ session'[t] = NoRow
        /\ UNCHANGED <<drawn, creds, sweep, listed, cut>>
    BY DEF IInv, TypeOK, DeleteSession, sweeper
  <1>4. /\ \A t \in Tokens : OwnsMailbox(t) => OwnsMailbox(t)'
        /\ \A t \in Tokens : IsLive(t)' => IsLive(t)
        /\ creds \subseteq Tokens
        /\ \A v \in Requests : token[v] # 0 => token[v] \in Tokens
    BY <1>3, RowsEnd
  <1>5. TypeOK'
    BY <1>2, <1>3 DEF IInv, TypeOK
  <1>6. PasswordsAreMailboxes'
    <2>2. ASSUME NEW v \in Requests \ {w}, pc[v] \in {"store", "credentials", "serve"}
          PROVE  token'[v] # 0 /\ OwnsMailbox(token[v])'
      <3>1. token[v] \in Tokens /\ OwnsMailbox(token[v]) /\ token'[v] = token[v]
        BY <1>2, <1>4, <2>2 DEF IInv, PasswordsAreMailboxes
      <3>2. session'[token[v]] \in {NoRow} \cup [userType : {"mailbox"}, expired : BOOLEAN]
        BY <3>1, <1>3 DEF OwnsMailbox
      <3> QED
        BY <3>1, <3>2, <2>2 DEF OwnsMailbox, IInv, PasswordsAreMailboxes
    <2> QED
      BY <1>2, <1>3, <1>4, <2>2 DEF IInv, PasswordsAreMailboxes
  <1>7. ListCovers'
    BY <1>3, <1>4 DEF IInv, ListCovers
  <1> QED
    BY <1>5, <1>6, <1>7 DEF IInv

\* Steps that no request takes.
LEMMA OtherStep ==
    ASSUME IInv, (\E t \in 1 .. drawn : Expire(t)) \/ Sweep
    PROVE  IInv'
  <1> USE DEF request
  <1>1. /\ session' \in [Tokens -> Rows \cup {NoRow}]
        /\ \A t \in Tokens :
             \/ session'[t] = session[t]
             \/ session'[t] = NoRow
             \/ session'[t] = [userType |-> session[t].userType, expired |-> TRUE]
        /\ UNCHANGED <<drawn, pc, token>>
    <2>1. ASSUME NEW t \in 1 .. drawn, Expire(t)
          PROVE  /\ session' \in [Tokens -> Rows \cup {NoRow}]
                 /\ session'[t] = [userType |-> session[t].userType, expired |-> TRUE]
                 /\ \A s \in Tokens \ {t} : session'[s] = session[s]
                 /\ UNCHANGED <<drawn, pc, token>>
      <3>1. t \in Tokens
        BY TokensAssumption DEF IInv, TypeOK, Tokens
      <3>2. session[t] \in Rows
        BY <2>1, <3>1 DEF IInv, TypeOK, Expire, IsLive, NoRow
      <3>3. [userType |-> session[t].userType, expired |-> TRUE] \in Rows
        BY <3>2 DEF Rows
      <3> QED
        BY <2>1, <3>1, <3>3 DEF IInv, TypeOK, Expire
    <2>2. CASE PruneSessions
      BY <2>2 DEF IInv, TypeOK, PruneSessions, Unexpired
    <2>3. CASE PruneFails \/ ListSessions \/ ListSome \/ ListFails \/ DropCredentials
      BY <2>3 DEF IInv, TypeOK, PruneFails, ListSessions, ListSome, ListFails, DropCredentials
    <2> QED
      BY <2>1, <2>2, <2>3 DEF Sweep
  <1>2. creds' \subseteq creds
    BY DEF Expire, Sweep, PruneSessions, PruneFails, ListSessions, ListSome, ListFails, DropCredentials
  <1>3. sweep' \in {"idle", "list", "drop"} /\ listed' \subseteq Tokens /\ cut' \in BOOLEAN
    BY DEF IInv, TypeOK, Expire, sweeper, Sweep, PruneSessions, PruneFails, ListSessions,
           ListSome, ListFails, DropCredentials, Mailboxes
  <1>4. TypeOK'
    BY <1>1, <1>2, <1>3 DEF IInv, TypeOK
  <1>5. /\ \A t \in Tokens : OwnsMailbox(t) => OwnsMailbox(t)'
        /\ \A t \in Tokens : IsLive(t)' => IsLive(t)
        /\ creds \subseteq Tokens
        /\ \A w \in Requests : token[w] # 0 => token[w] \in Tokens
    BY <1>1, RowsEnd
  <1>6. PasswordsAreMailboxes'
    <2>1. \A w \in Requests : OwnsMailbox(token[w]) => token[w] = 0 \/ OwnsMailbox(token[w])'
      <3>1. ASSUME NEW w \in Requests, OwnsMailbox(token[w]), token[w] # 0
            PROVE  OwnsMailbox(token[w])'
        <4>1. token[w] \in Tokens /\ token'[w] = token[w]
          BY <1>1, <1>5, <3>1
        <4> QED
          BY <4>1, <1>5, <3>1 DEF OwnsMailbox
      <3> QED
        BY <3>1
    <2> QED
      BY <1>1, <1>2, <1>5, <2>1 DEF IInv, PasswordsAreMailboxes
  <1>7. ListCovers'
    <2>1. CASE ListSessions
      <3>1. /\ creds' = creds /\ session' = session
            /\ listed' = {t \in Tokens : session[t].userType = "mailbox"}
        BY <2>1 DEF ListSessions, Mailboxes
      <3>2. ASSUME NEW t \in creds, IsLive(t)' PROVE t \in listed'
        <4>1. IsLive(t) /\ t \in Tokens
          BY <3>2, <3>1, <1>5
        <4>2. session[t] \in [userType : {"mailbox"}, expired : BOOLEAN]
          BY <4>1 DEF IInv, PasswordsAreMailboxes, OwnsMailbox, IsLive, NoRow
        <4> QED
          BY <3>1, <4>1, <4>2
      <3> QED
        BY <3>1, <3>2 DEF ListCovers
    <2>2. CASE PruneSessions \/ PruneFails \/ ListSome \/ ListFails \/ DropCredentials
      BY <2>2 DEF ListCovers, PruneSessions, PruneFails, ListSome, ListFails, DropCredentials
    <2>3. ASSUME NEW t \in 1 .. drawn, Expire(t) PROVE ListCovers'
      BY <1>5, <2>3 DEF IInv, ListCovers, Expire, sweeper
    <2> QED
      BY <2>1, <2>2, <2>3 DEF Sweep
  <1> QED
    BY <1>4, <1>6, <1>7 DEF IInv

LEMMA RestartStep ==
    ASSUME IInv, Restart
    PROVE  IInv'
  <1>1. 0 \in 0 .. drawn
    BY TokensAssumption DEF IInv, TypeOK
  <1> QED
    BY <1>1 DEF IInv, TypeOK, PasswordsAreMailboxes, ListCovers, Restart, PCs

LEMMA NextIInv == IInv /\ [Next]_vars => IInv'
  <1>1. ASSUME IInv, NEW w \in Requests, Request(w) PROVE IInv'
    BY <1>1, CreateSessionStep, RequestStep, DeleteSessionStep DEF Request
  <1>2. ASSUME IInv, UNCHANGED vars PROVE IInv'
    BY <1>2 DEF IInv, TypeOK, PasswordsAreMailboxes, ListCovers, OwnsMailbox, IsLive,
                vars, request, sweeper
  <1> QED
    BY <1>1, <1>2, OtherStep, RestartStep DEF Next

\* IInv holds in every reachable state.
THEOREM Inductive == Spec => []IInv
  BY InitIInv, NextIInv, PTL DEF Spec

\* Every variable of Sessions keeps its type, and passwords belong to drawn tokens.
THEOREM TypeCorrect == Spec => []TypeOK
  <1>1. IInv => TypeOK
    BY DEF IInv
  <1> QED
    BY <1>1, Inductive, PTL

\* Sessions.Sweep, when its query lists every row, never takes the password of a live
\* session, whatever signs in or changes its password while it lists and drops
\* (session.go:183-206); one that breaks off does, and Sweep does not notice.
THEOREM SweepSpares == Spec => SweepSparesLive
  <1> DEFINE Spared ==
        \A t \in creds \ creds' :
          IsLive(t) => cut \/ Restart \/ \E w \in Requests : Logout(w, t)
  <1>1. IInv /\ [Next]_vars => [Spared]_vars
    <2>1. ASSUME IInv, Next, NEW t \in creds \ creds', IsLive(t)
          PROVE  cut \/ Restart \/ \E w \in Requests : Logout(w, t)
      <3>1. CASE \E w \in Requests : Request(w)
        <4>1. PICK w \in Requests : Request(w)
          BY <3>1
        <4>2. ASSUME NEW s \in 1 .. drawn, Logout(w, s) PROVE Logout(w, t)
          BY <4>2, <2>1 DEF Logout
        <4> QED
          BY <2>1, <4>1, <4>2
          DEF Request, CreateSession, StoreCredentials, LookupSession, CredentialsFor,
              Serve, DeleteSession
      <3>2. CASE \E s \in 1 .. drawn : Expire(s)
        BY <2>1, <3>2 DEF Expire
      <3>3. CASE Sweep
        BY <2>1, <3>3
        DEF Sweep, PruneSessions, PruneFails, ListSessions, ListSome, ListFails, DropCredentials,
            IInv, ListCovers
      <3> QED
        BY <2>1, <3>1, <3>2, <3>3 DEF Next
    <2> QED
      BY <2>1
  <1> QED
    BY <1>1, Inductive, PTL DEF Spec, SweepSparesLive
================================================================================
