-------------------------- MODULE MailAccount_proofs --------------------------
(***************************************************************************)
(* Proofs about MailAccount, for any number of requests, passwords and     *)
(* mailboxes.  A passkey opens its mailbox because whoever comes near one  *)
(* (a registered key, a challenge, a request on its way to register) knows *)
(* that the row has its copy already, and no step ever takes the copy away *)
(* or sets the hash without it.  Fits says so of each of them.             *)
(***************************************************************************)
EXTENDS MailAccount, TLAPS

\* The copy in this row opens mailbox o, if the row is that of o.
Opens(row, o) == o # 0 /\ row.id = o => row.copy = row.password /\ row.copy # Null

Registering == {"handle", "write handle", "insert challenge", "save"}

\* A request at l that has read this much, a challenge and a passkey, each beside a
\* mailbox row and the next id.
RequestFits(l, mine, row, next) ==
    /\ mine.owner < next
    /\ l \in Registering => Opens(row, mine.owner)
    /\ l = "register options" => mine.hash \in Passwords
    /\ l \in {"set credentials", "login"} => mine.password \in Passwords

ChallengeFits(c, row, next) ==
    c.owner < next /\ (c.kind = "register" => Opens(row, c.owner))

PasskeyFits(k, row, next) == k.owner < next /\ Opens(row, k.owner)

IInv ==
    /\ TypeOK
    /\ mailbox.id # 0 => mailbox.password \in Passwords
    /\ \A w \in Requests : RequestFits(pc[w], local[w], mailbox, nextId)
    /\ \A c \in challenges : ChallengeFits(c, mailbox, nextId)
    /\ \A k \in passkeys : PasskeyFits(k, mailbox, nextId)

\* What every step does to the row: it never closes a mailbox it has opened.
RowMoves ==
    /\ mailbox' \in Mailboxes
    /\ nextId' \in Nat \ {0}
    /\ mailbox'.id < nextId'
    /\ nextId <= nextId'
    /\ mailbox'.id # 0 => mailbox'.password \in Passwords
    /\ \A o \in Nat : o < nextId /\ Opens(mailbox, o) => Opens(mailbox', o)

RequestsMove ==
    /\ pc' \in [Requests -> PCs]
    /\ local' \in [Requests -> Locals]
    /\ \A w \in Requests : RequestFits(pc'[w], local'[w], mailbox', nextId')

TablesMove ==
    /\ \A c \in challenges' :
         c \in challenges \/ (c \in Challenges /\ ChallengeFits(c, mailbox', nextId'))
    /\ \A k \in passkeys' :
         k \in passkeys \/ (k \in Passkeys /\ PasskeyFits(k, mailbox', nextId'))
    /\ drawn' \in 0 .. MaxRandoms
    /\ held' \subseteq Passwords

--------------------------------------------------------------------------------
(* The frame: what fits goes on fitting, whatever the step does to the row.   *)

LEMMA BlankType == Blank \in Locals /\ NoMailbox \in Mailboxes
  BY DEF Blank, Locals, Copies, NoChallenge, Challenges, NoPasskey, Passkeys,
         NoMailbox, Mailboxes

LEMMA StillFits ==
    ASSUME IInv, RowMoves
    PROVE  /\ \A l, mine : mine \in Locals /\ RequestFits(l, mine, mailbox, nextId)
                             => RequestFits(l, mine, mailbox', nextId')
           /\ \A c \in Challenges : ChallengeFits(c, mailbox, nextId)
                                      => ChallengeFits(c, mailbox', nextId')
           /\ \A k \in Passkeys : PasskeyFits(k, mailbox, nextId)
                                    => PasskeyFits(k, mailbox', nextId')
  <1>1. \A o \in Nat : o < nextId => o < nextId'
    BY DEF IInv, TypeOK, RowMoves
  <1>2. /\ \A mine \in Locals : mine.owner \in Nat
        /\ \A c \in Challenges : c.owner \in Nat
        /\ \A k \in Passkeys : k.owner \in Nat
    BY DEF Locals, Challenges, Passkeys
  <1> QED
    BY <1>1, <1>2 DEF RowMoves, RequestFits, ChallengeFits, PasskeyFits

LEMMA Assemble ==
    ASSUME IInv, RowMoves, RequestsMove, TablesMove
    PROVE  IInv'
  <1>1. challenges \subseteq Challenges /\ passkeys \subseteq Passkeys
    BY DEF IInv, TypeOK
  <1>2. /\ \A c \in challenges' : c \in Challenges /\ ChallengeFits(c, mailbox', nextId')
        /\ \A k \in passkeys' : k \in Passkeys /\ PasskeyFits(k, mailbox', nextId')
    BY <1>1, StillFits DEF IInv, TablesMove
  <1>3. TypeOK'
    BY <1>2 DEF TypeOK, RowMoves, RequestsMove, TablesMove
  <1> QED
    BY <1>2, <1>3 DEF IInv, RowMoves, RequestsMove

\* One request moves on with what it has read; the others stay.
LEMMA OneMoves ==
    ASSUME IInv, RowMoves, NEW w \in Requests, NEW l \in PCs, NEW mine \in Locals,
           Goto(w, l, mine),
           l = "idle" \/ RequestFits(l, mine, mailbox', nextId')
    PROVE  RequestsMove
  <1> DEFINE m == IF l = "idle" THEN Blank ELSE mine
  <1>1. m \in Locals /\ pc' = [pc EXCEPT ![w] = l] /\ local' = [local EXCEPT ![w] = m]
    BY BlankType DEF Goto
  <1>2. pc' \in [Requests -> PCs] /\ local' \in [Requests -> Locals]
    BY <1>1 DEF IInv, TypeOK
  <1>3. RequestFits(l, m, mailbox', nextId')
    <2>1. CASE l = "idle"
      <3>1. m.owner = 0 /\ 0 < nextId'
        BY <2>1 DEF Blank, RowMoves
      <3> QED
        BY <2>1, <3>1 DEF RequestFits, Registering
    <2> QED
      BY <2>1
  <1>4. pc'[w] = l /\ local'[w] = m
    BY <1>1 DEF IInv, TypeOK
  <1>5. ASSUME NEW v \in Requests \ {w}
        PROVE  RequestFits(pc'[v], local'[v], mailbox', nextId')
    <2>1. pc'[v] = pc[v] /\ local'[v] = local[v] /\ local[v] \in Locals
      BY <1>1 DEF IInv, TypeOK
    <2> QED
      BY <2>1, StillFits DEF IInv
  <1> QED
    BY <1>2, <1>3, <1>4, <1>5 DEF RequestsMove

LEMMA NoneMoves ==
    ASSUME IInv, RowMoves, UNCHANGED <<pc, local>>
    PROVE  RequestsMove
  <1>1. pc' \in [Requests -> PCs] /\ local' \in [Requests -> Locals]
    BY DEF IInv, TypeOK
  <1> QED
    BY <1>1, StillFits DEF IInv, TypeOK, RequestsMove

LEMMA NextIdPositive == IInv => 0 < nextId
  BY DEF IInv, TypeOK

\* Whoever knows of no mailbox fits anywhere that does not need one.
LEMMA NobodyFits ==
    ASSUME IInv, NEW mine, mine.owner = 0,
           NEW l, l \notin Registering \cup {"register options", "set credentials", "login"}
    PROVE  RequestFits(l, mine, mailbox, nextId)
  BY NextIdPositive DEF RequestFits

\* A random value more, within the bound.
LEMMA DrawType ==
    ASSUME IInv, Draw
    PROVE  drawn + 1 \in Nat /\ drawn' \in 0 .. MaxRandoms
  <1>1. drawn \in 0 .. MaxRandoms
    BY DEF IInv, TypeOK
  <1> QED
    BY <1>1, BoundsAssumption DEF Draw

LEMMA RowStays ==
    ASSUME IInv, UNCHANGED <<mailbox, nextId>>
    PROVE  RowMoves
  BY DEF IInv, TypeOK, RowMoves

\* A password and its copy written in one statement open every mailbox they reach.
LEMMA RowSet ==
    ASSUME IInv, NEW o \in Nat, NEW p \in Passwords, SetPassword(o, p, p), nextId' = nextId
    PROVE  RowMoves /\ Opens(mailbox', o)
  <1>1. p \in Copies /\ p # Null
    BY PasswordAssumption DEF Copies
  <1>2. CASE Exists(o)
    <2>1. mailbox' = [mailbox EXCEPT !.password = p, !.copy = p] /\ mailbox \in Mailboxes
      BY <1>2 DEF SetPassword, IInv, TypeOK
    <2>2. /\ mailbox' \in Mailboxes /\ mailbox'.id = mailbox.id
          /\ mailbox'.password = p /\ mailbox'.copy = p
      BY <2>1, <1>1 DEF Mailboxes
    <2> QED
      BY <1>1, <2>2 DEF IInv, TypeOK, RowMoves, Opens
  <1>3. CASE ~Exists(o)
    <2>1. mailbox' = mailbox
      BY <1>3 DEF SetPassword
    <2> QED
      BY <1>3, <2>1, RowStays DEF Exists, Opens
  <1> QED
    BY <1>2, <1>3

\* Another handle or flag changes nothing about the password.
LEMMA RowKeepsPassword ==
    ASSUME IInv, mailbox' \in Mailboxes, mailbox'.id = mailbox.id,
           mailbox'.password = mailbox.password, mailbox'.copy = mailbox.copy,
           nextId' = nextId
    PROVE  RowMoves
  BY DEF IInv, TypeOK, RowMoves, Opens

LEMMA TablesStay ==
    ASSUME IInv, UNCHANGED <<challenges, passkeys, drawn, held>>
    PROVE  TablesMove
  BY DEF IInv, TypeOK, TablesMove

--------------------------------------------------------------------------------
(* The steps of a request.                                                   *)

LEMMA InitIInv == Init => IInv
  <1> SUFFICES ASSUME Init PROVE IInv
    OBVIOUS
  <1>1. TypeOK
    BY BlankType, BoundsAssumption DEF Init, TypeOK, PCs, NoMailbox
  <1>2. ASSUME NEW w \in Requests PROVE RequestFits(pc[w], local[w], mailbox, nextId)
    BY DEF Init, RequestFits, Blank, Registering
  <1>3. mailbox.id = 0 /\ challenges = {} /\ passkeys = {}
    BY DEF Init, NoMailbox
  <1> QED
    BY <1>1, <1>2, <1>3 DEF IInv

\* Steps that read, and move on with what they have read.
LEMMA ReadStep ==
    ASSUME IInv, NEW w \in Requests,
           \/ \E p \in held : CredentialsFor(w, p)
           \/ LoadMailbox(w)
           \/ ReadHandle(w)
           \/ \E c \in challenges : ReadRegisterChallenge(w, c) \/ ReadLoginChallenge(w, c)
           \/ \E k \in passkeys : FindPasskey(w, k)
           \/ CheckOwner(w) \/ ListPasskeys(w) \/ ReadCopy(w) \/ Abandon(w)
    PROVE  IInv'
  <1> USE DEF PCs, Handlers
  <1>0. UNCHANGED <<mailbox, nextId, challenges, passkeys, drawn, held>>
    BY DEF CredentialsFor, LoadMailbox, ReadHandle, ReadRegisterChallenge,
           ReadLoginChallenge, FindPasskey, CheckOwner, ListPasskeys, ReadCopy, Abandon
  <1>1. RowMoves /\ TablesMove
    BY <1>0, RowStays, TablesStay
  <1>2. /\ local[w] \in Locals /\ mailbox \in Mailboxes /\ nextId \in Nat \ {0}
        /\ RequestFits(pc[w], local[w], mailbox, nextId)
        /\ Blank \in Locals /\ Blank.owner = 0
    BY BlankType DEF IInv, TypeOK, Blank
  <1>3. SUFFICES \E l \in PCs, mine \in Locals :
                   Goto(w, l, mine) /\ (l = "idle" \/ RequestFits(l, mine, mailbox, nextId))
    BY <1>0, <1>1, OneMoves, Assemble
  <1>4. ASSUME NEW p \in held, CredentialsFor(w, p)
        PROVE  <1>3!1
    <2> DEFINE mine == [Blank EXCEPT !.password = p]
    <2>1. p \in Copies
      BY DEF IInv, TypeOK, Copies
    <2>2. mine \in Locals /\ mine.owner = 0
      BY <1>2, <2>1 DEF Locals
    <2>3. RequestFits("load mailbox", mine, mailbox, nextId)
      BY <2>2, NobodyFits DEF Registering
    <2> QED
      BY <1>4, <2>2, <2>3 DEF CredentialsFor
  <1>5. CASE LoadMailbox(w)
    <2> DEFINE mine == [local[w] EXCEPT !.owner = mailbox.id, !.hash = mailbox.password]
    <2>1. mailbox.id \in Nat /\ mailbox.password \in Copies /\ mailbox.id < nextId
      BY <1>2 DEF Mailboxes, IInv, TypeOK
    <2>2. mine \in Locals /\ mine.owner = mailbox.id /\ mine.hash = mailbox.password
      BY <1>2, <2>1 DEF Locals
    <2>3. mailbox.password \in Passwords
      BY <1>5 DEF IInv, LoadMailbox
    <2>4. \A h \in Handlers : RequestFits(h, mine, mailbox, nextId)
      BY <2>1, <2>2, <2>3 DEF RequestFits, Registering
    <2> QED
      BY <1>5, <2>2, <2>4 DEF LoadMailbox
  <1>6. CASE ReadHandle(w)
    <2> DEFINE mine == [local[w] EXCEPT !.handle = mailbox.handle]
    <2>1. mailbox.handle \in Nat
      BY <1>2 DEF Mailboxes
    <2>2. mine \in Locals /\ mine.owner = local[w].owner
      BY <1>2, <2>1 DEF Locals
    <2>3. pc[w] = "handle" /\ Goto(w, AfterHandle(w), mine)
      BY <1>6 DEF ReadHandle
    <2>4. AfterHandle(w) \in {"insert challenge", "save"}
      BY DEF AfterHandle
    <2>5. \A l \in {"insert challenge", "save"} : RequestFits(l, mine, mailbox, nextId)
      BY <1>2, <2>2, <2>3 DEF RequestFits, Registering
    <2> QED
      BY <2>2, <2>3, <2>4, <2>5
  <1>7. ASSUME NEW c \in challenges, ReadRegisterChallenge(w, c)
        PROVE  <1>3!1
    <2> DEFINE mine == [local[w] EXCEPT !.challenge = c]
    <2>1. c \in Challenges /\ ChallengeFits(c, mailbox, nextId)
      BY DEF IInv, TypeOK
    <2>2. mine \in Locals /\ mine.owner = local[w].owner
      BY <1>2, <2>1 DEF Locals
    <2>3. c.kind = "register" /\ c.owner = local[w].owner /\ Goto(w, "handle", mine)
      BY <1>7 DEF ReadRegisterChallenge
    <2>4. RequestFits("handle", mine, mailbox, nextId)
      BY <2>1, <2>2, <2>3 DEF RequestFits, ChallengeFits
    <2> QED
      BY <2>2, <2>3, <2>4
  <1>8. ASSUME NEW c \in challenges, ReadLoginChallenge(w, c)
        PROVE  <1>3!1
    <2> DEFINE mine == [Blank EXCEPT !.challenge = c]
    <2>1. c \in Challenges
      BY DEF IInv, TypeOK
    <2>2. mine \in Locals /\ mine.owner = 0
      BY <1>2, <2>1 DEF Locals
    <2>3. RequestFits("find passkey", mine, mailbox, nextId)
      BY <2>2, NobodyFits DEF Registering
    <2> QED
      BY <1>8, <2>2, <2>3 DEF ReadLoginChallenge
  <1>9. ASSUME NEW k \in passkeys, FindPasskey(w, k)
        PROVE  <1>3!1
    <2> DEFINE mine == [local[w] EXCEPT !.passkey = k, !.owner = k.owner]
    <2>1. k \in Passkeys /\ k.owner < nextId /\ k.owner \in Nat
      BY DEF IInv, TypeOK, PasskeyFits, Passkeys
    <2>2. mine \in Locals /\ mine.owner = k.owner
      BY <1>2, <2>1 DEF Locals
    <2>3. RequestFits("check owner", mine, mailbox, nextId)
      BY <2>1, <2>2 DEF RequestFits, Registering
    <2> QED
      BY <1>9, <2>2, <2>3 DEF FindPasskey
  <1>10. CASE CheckOwner(w) \/ ListPasskeys(w)
    <2>1. PICK l \in {"list passkeys", "read copy"} : Goto(w, l, local[w])
      BY <1>10 DEF CheckOwner, ListPasskeys
    <2>2. RequestFits(l, local[w], mailbox, nextId)
      BY <1>2, <2>1 DEF RequestFits, Registering
    <2> QED
      BY <1>2, <2>1, <2>2
  <1>11. CASE ReadCopy(w)
    <2> DEFINE mine == [local[w] EXCEPT !.password = mailbox.copy]
    <2>1. mailbox.copy \in Passwords /\ mailbox.copy \in Copies
      BY <1>2, <1>11 DEF ReadCopy, Mailboxes, Copies
    <2>2. mine \in Locals /\ mine.owner = local[w].owner /\ mine.password = mailbox.copy
      BY <1>2, <2>1 DEF Locals
    <2>3. RequestFits("login", mine, mailbox, nextId)
      BY <1>2, <2>1, <2>2 DEF RequestFits, Registering
    <2> QED
      BY <1>11, <2>2, <2>3 DEF ReadCopy
  <1>12. CASE Abandon(w)
    BY <1>2, <1>12 DEF Abandon
  <1> QED
    BY <1>4, <1>5, <1>6, <1>7, <1>8, <1>9, <1>10, <1>11, <1>12

\* Steps that write a password, its copy beside it.
LEMMA PasswordStep ==
    ASSUME IInv, NEW w \in Requests,
           (\E p \in Passwords : ChangePassword(w, p)) \/ RegisterOptions(w)
    PROVE  IInv'
  <1> USE DEF PCs, Handlers
  <1>1. /\ local[w] \in Locals /\ local[w].owner \in Nat /\ nextId' = nextId
        /\ RequestFits(pc[w], local[w], mailbox, nextId)
    BY DEF IInv, TypeOK, Locals, ChangePassword, RegisterOptions
  <1>2. TablesMove
    BY TablesStay DEF ChangePassword, RegisterOptions
  <1>3. ASSUME NEW p \in Passwords, ChangePassword(w, p) PROVE IInv'
    <2> DEFINE mine == [local[w] EXCEPT !.password = p]
    <2>1. RowMoves
      BY <1>1, <1>3, RowSet DEF ChangePassword
    <2>2. mine \in Locals /\ mine.owner = local[w].owner /\ mine.password = p
      BY <1>1 DEF Locals, Copies
    <2>3. RequestFits("set credentials", mine, mailbox', nextId')
      BY <1>1, <2>2 DEF RequestFits, Registering
    <2>4. Goto(w, "set credentials", mine)
      BY <1>3 DEF ChangePassword
    <2> QED
      BY <1>2, <2>1, <2>2, <2>3, <2>4, OneMoves, Assemble
  <1>4. CASE RegisterOptions(w)
    <2>1. local[w].hash \in Passwords /\ local[w].password = local[w].hash
      BY <1>1, <1>4 DEF RequestFits, RegisterOptions
    <2>2. RowMoves /\ Opens(mailbox', local[w].owner)
      BY <1>1, <1>4, <2>1, RowSet DEF RegisterOptions
    <2>3. RequestFits("handle", local[w], mailbox', nextId')
      BY <1>1, <2>2 DEF RequestFits
    <2>4. Goto(w, "handle", local[w])
      BY <1>4 DEF RegisterOptions
    <2> QED
      BY <1>1, <1>2, <2>2, <2>3, <2>4, OneMoves, Assemble
  <1> QED
    BY <1>3, <1>4

LEMMA HandleStep ==
    ASSUME IInv, NEW w \in Requests, DrawHandle(w) \/ WriteHandle(w)
    PROVE  IInv'
  <1> USE DEF PCs
  <1>1. /\ local[w] \in Locals /\ nextId' = nextId /\ drawn \in 0 .. MaxRandoms
        /\ RequestFits(pc[w], local[w], mailbox, nextId)
        /\ pc[w] \in {"handle", "write handle"}
    BY DEF IInv, TypeOK, DrawHandle, WriteHandle
  <1>2. CASE DrawHandle(w)
    <2> DEFINE mine == [local[w] EXCEPT !.handle = drawn + 1]
    <2>1. drawn + 1 \in Nat /\ drawn' \in 0 .. MaxRandoms
      BY <1>2, DrawType DEF DrawHandle
    <2>2. mine \in Locals /\ mine.owner = local[w].owner
      BY <1>1, <2>1 DEF Locals
    <2>3. RowMoves /\ TablesMove
      BY <1>2, <2>1, RowStays DEF DrawHandle, IInv, TypeOK, TablesMove
    <2>4. RequestFits("write handle", mine, mailbox', nextId')
      BY <1>1, <1>2, <2>2 DEF RequestFits, Registering, DrawHandle
    <2>5. Goto(w, "write handle", mine)
      BY <1>2 DEF DrawHandle
    <2> QED
      BY <2>2, <2>3, <2>4, <2>5, OneMoves, Assemble
  <1>3. CASE WriteHandle(w)
    <2>1. /\ mailbox' \in Mailboxes /\ mailbox'.id = mailbox.id
          /\ mailbox'.password = mailbox.password /\ mailbox'.copy = mailbox.copy
      BY <1>1, <1>3 DEF WriteHandle, IInv, TypeOK, Mailboxes, Locals
    <2>2. RowMoves /\ TablesMove
      BY <1>1, <1>3, <2>1, RowKeepsPassword, TablesStay DEF WriteHandle
    <2>3. Goto(w, AfterHandle(w), local[w]) /\ AfterHandle(w) \in {"insert challenge", "save"}
      BY <1>3 DEF WriteHandle, AfterHandle
    <2>4. \A l \in {"insert challenge", "save"} : RequestFits(l, local[w], mailbox', nextId')
      BY <1>1, <2>1 DEF RequestFits, Registering, Opens
    <2> QED
      BY <1>1, <2>2, <2>3, <2>4, OneMoves, Assemble
  <1> QED
    BY <1>2, <1>3

\* Steps that write the other tables: challenges, passkeys, sessions.
LEMMA TableStep ==
    ASSUME IInv, NEW w \in Requests,
           \/ SetCredentials(w) \/ InsertChallenge(w) \/ SavePasskey(w) \/ DropChallenge(w)
           \/ \E k \in passkeys : DeletePasskey(w, k)
           \/ PasskeyLogin(w)
    PROVE  IInv'
  <1> USE DEF PCs
  <1>1. /\ UNCHANGED <<mailbox, nextId>> /\ RowMoves
        /\ local[w] \in Locals
        /\ RequestFits(pc[w], local[w], mailbox, nextId)
        /\ Blank \in Locals
    <2>1. UNCHANGED <<mailbox, nextId>>
      BY DEF SetCredentials, InsertChallenge, SavePasskey, DropChallenge, DeletePasskey,
             PasskeyLogin
    <2> QED
      BY <2>1, RowStays, BlankType DEF IInv, TypeOK
  <1>2. RequestsMove
    <2>1. CASE SavePasskey(w) \/ PasskeyLogin(w)
      <3>1. Goto(w, "drop challenge", local[w])
        BY <2>1 DEF SavePasskey, PasskeyLogin
      <3>2. RequestFits("drop challenge", local[w], mailbox', nextId')
        BY <1>1 DEF RequestFits, Registering
      <3> QED
        BY <1>1, <3>1, <3>2, OneMoves
    <2>2. CASE SetCredentials(w) \/ InsertChallenge(w) \/ DropChallenge(w)
               \/ \E k \in passkeys : DeletePasskey(w, k)
      <3>1. Goto(w, "idle", Blank)
        BY <2>2 DEF SetCredentials, InsertChallenge, DropChallenge, DeletePasskey
      <3> QED
        BY <1>1, <3>1, OneMoves
    <2> QED
      BY <2>1, <2>2
  <1>3. TablesMove
    <2>1. CASE SetCredentials(w) \/ PasskeyLogin(w)
      <3>1. local[w].password \in Passwords
        BY <1>1, <2>1 DEF RequestFits, SetCredentials, PasskeyLogin
      <3> QED
        BY <2>1, <3>1 DEF SetCredentials, PasskeyLogin, IInv, TypeOK, TablesMove
    <2>2. CASE InsertChallenge(w)
      <3> DEFINE c == [id |-> drawn + 1, kind |-> "register", owner |-> local[w].owner,
                       handle |-> local[w].handle]
      <3>1. drawn + 1 \in Nat /\ drawn' \in 0 .. MaxRandoms
        BY <2>2, DrawType DEF InsertChallenge
      <3>2. c \in Challenges
        BY <1>1, <3>1 DEF Challenges, Locals
      <3>3. ChallengeFits(c, mailbox', nextId')
        BY <1>1, <2>2 DEF ChallengeFits, RequestFits, Registering, InsertChallenge
      <3> QED
        BY <2>2, <3>1, <3>2, <3>3 DEF InsertChallenge, IInv, TypeOK, TablesMove
    <2>3. CASE SavePasskey(w)
      <3> DEFINE k == [key |-> local[w].challenge.id, owner |-> local[w].owner,
                       handle |-> local[w].handle]
      <3>1. k \in Passkeys
        BY <1>1 DEF Passkeys, Locals, Challenges
      <3>2. PasskeyFits(k, mailbox', nextId')
        BY <1>1, <2>3 DEF PasskeyFits, RequestFits, Registering, SavePasskey
      <3> QED
        BY <2>3, <3>1, <3>2 DEF SavePasskey, IInv, TypeOK, TablesMove
    <2>4. CASE DropChallenge(w) \/ \E k \in passkeys : DeletePasskey(w, k)
      BY <2>4 DEF DropChallenge, DeletePasskey, IInv, TypeOK, TablesMove
    <2> QED
      BY <2>1, <2>2, <2>3, <2>4
  <1> QED
    BY <1>1, <1>2, <1>3, Assemble

--------------------------------------------------------------------------------
(* The other steps.                                                          *)

LEMMA AdminStep ==
    ASSUME IInv, Administer
    PROVE  IInv'
  <1>1. UNCHANGED <<challenges, passkeys, drawn, held, pc, local>>
    BY DEF Administer, CreateMailbox, ResetMailboxPassword, UpdateMailbox, DeleteMailbox
  <1>2. mailbox \in Mailboxes /\ nextId \in Nat \ {0} /\ mailbox.id < nextId
    BY DEF IInv, TypeOK
  <1>3. ASSUME NEW p \in Passwords, CreateMailbox(p) PROVE RowMoves
    <2>1. mailbox' \in Mailboxes /\ mailbox'.id = nextId /\ mailbox'.password = p
      BY <1>2, <1>3 DEF CreateMailbox, Mailboxes, Copies
    <2>2. nextId' = nextId + 1
      BY <1>3 DEF CreateMailbox
    <2>3. \A o \in Nat : o < nextId => Opens(mailbox', o)
      BY <1>2, <2>1 DEF Opens
    <2> QED
      BY <1>2, <2>1, <2>2, <2>3 DEF RowMoves
  <1>4. ASSUME NEW p \in Passwords, ResetMailboxPassword(p) PROVE RowMoves
    <2>1. mailbox.id \in Nat
      BY <1>2 DEF Mailboxes
    <2> QED
      BY <1>4, <2>1, RowSet DEF ResetMailboxPassword
  <1>5. ASSUME NEW on \in BOOLEAN, UpdateMailbox(on) PROVE RowMoves
    <2>1. /\ mailbox' \in Mailboxes /\ mailbox'.id = mailbox.id
          /\ mailbox'.password = mailbox.password /\ mailbox'.copy = mailbox.copy
      BY <1>2, <1>5 DEF UpdateMailbox, Mailboxes
    <2> QED
      BY <1>5, <2>1, RowKeepsPassword DEF UpdateMailbox
  <1>6. ASSUME DeleteMailbox PROVE RowMoves
    <2>1. mailbox'.id = 0 /\ mailbox' \in Mailboxes /\ nextId' = nextId
      BY <1>6, BlankType DEF DeleteMailbox, NoMailbox
    <2> QED
      BY <1>2, <2>1 DEF RowMoves, Opens
  <1> QED
    BY <1>1, <1>3, <1>4, <1>5, <1>6, TablesStay, NoneMoves, Assemble DEF Administer

LEMMA WorldStep ==
    ASSUME IInv,
           \/ SignIn \/ \E p \in held : SignOut(p)
           \/ OfferLogin \/ \E c \in challenges : ExpireChallenge(c)
           \/ Restart
    PROVE  IInv'
  <1>1. UNCHANGED <<mailbox, nextId>> /\ RowMoves
    <2>1. UNCHANGED <<mailbox, nextId>>
      BY DEF SignIn, SignOut, OfferLogin, ExpireChallenge, Restart
    <2> QED
      BY <2>1, RowStays
  <1>2. CASE SignIn \/ \E p \in held : SignOut(p)
    <2>1. UNCHANGED <<pc, local>> /\ TablesMove
      BY <1>2 DEF SignIn, SignOut, IInv, TypeOK, TablesMove
    <2> QED
      BY <1>1, <2>1, NoneMoves, Assemble
  <1>3. CASE OfferLogin
    <2> DEFINE c == [id |-> drawn + 1, kind |-> "login", owner |-> 0, handle |-> 0]
    <2>1. drawn + 1 \in Nat /\ drawn' \in 0 .. MaxRandoms
      BY <1>3, DrawType DEF OfferLogin
    <2>2. c \in Challenges
      BY <2>1 DEF Challenges
    <2>3. ChallengeFits(c, mailbox', nextId')
      BY <1>1 DEF ChallengeFits, IInv, TypeOK
    <2>4. UNCHANGED <<pc, local>> /\ TablesMove
      BY <1>3, <2>1, <2>2, <2>3 DEF OfferLogin, IInv, TypeOK, TablesMove
    <2> QED
      BY <1>1, <2>4, NoneMoves, Assemble
  <1>4. CASE \E c \in challenges : ExpireChallenge(c)
    <2>1. UNCHANGED <<pc, local>> /\ TablesMove
      BY <1>4 DEF ExpireChallenge, IInv, TypeOK, TablesMove
    <2> QED
      BY <1>1, <2>1, NoneMoves, Assemble
  <1>5. CASE Restart
    <2>1. TablesMove
      BY <1>5 DEF Restart, IInv, TypeOK, TablesMove
    <2>2. /\ pc' \in [Requests -> PCs] /\ local' \in [Requests -> Locals]
          /\ \A w \in Requests : pc'[w] = "idle" /\ local'[w] = Blank
      BY <1>5, BlankType DEF Restart, PCs
    <2>3. RequestFits("idle", Blank, mailbox', nextId')
      BY <1>1, NobodyFits DEF Blank, Registering
    <2>4. RequestsMove
      BY <2>2, <2>3 DEF RequestsMove
    <2> QED
      BY <1>1, <2>1, <2>4, Assemble
  <1> QED
    BY <1>2, <1>3, <1>4, <1>5

LEMMA NextIInv == IInv /\ [Next]_vars => IInv'
  <1>1. ASSUME IInv, NEW w \in Requests, Request(w) PROVE IInv'
    BY <1>1, ReadStep, PasswordStep, HandleStep, TableStep DEF Request
  <1>2. ASSUME IInv, UNCHANGED vars PROVE IInv'
    <2>1. UNCHANGED <<mailbox, nextId>> /\ UNCHANGED <<pc, local>>
          /\ UNCHANGED <<challenges, passkeys, drawn, held>>
      BY <1>2 DEF vars
    <2> QED
      BY <1>2, <2>1, RowStays, NoneMoves, TablesStay, Assemble
  <1> QED
    BY <1>1, <1>2, AdminStep, WorldStep DEF Next

\* IInv holds in every reachable state.
THEOREM Inductive == Spec => []IInv
  BY InitIInv, NextIInv, PTL DEF Spec

\* Every variable of MailAccount keeps its type, and mailbox ids are never used twice.
THEOREM TypeCorrect == Spec => []TypeOK
  <1>1. IInv => TypeOK
    BY DEF IInv
  <1> QED
    BY <1>1, Inductive, PTL

\* A registered passkey always finds the current password of its mailbox
\* (handlers_account.go:312-317 decrypts what UpdateMailboxPasswordAndPasskeySecret
\* stored), whatever changes, resets and registrations run at the same time.
THEOREM PasskeysAlwaysOpen == Spec => []PasskeysOpen
  <1>1. IInv => PasskeysOpen
    BY DEF IInv, PasskeyFits, Opens, PasskeysOpen, Exists
  <1> QED
    BY <1>1, Inductive, PTL
================================================================================
