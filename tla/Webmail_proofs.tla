----------------------------- MODULE Webmail_proofs -----------------------------
(***************************************************************************)
(* Proofs about the webmail, for any number of requests, messages and      *)
(* addresses, and whatever other clients do meanwhile.  A message is sent  *)
(* as asked because one loop empties what is left before the next stage    *)
(* begins; a message disappears only when asked for because an id names    *)
(* one message for good; paging misses nothing because the place of a      *)
(* message, counted from the newest, only grows while none is taken out.   *)
(* What a user is told of a letter goes with the queue because an answer   *)
(* ends every stage, and the only "ok" is said past DATA.                  *)
(***************************************************************************)
EXTENDS Webmail, FiniteSetTheorems, TLAPS

Stages  == {"new", "get", "fetch", "deliver", "rcpt", "data", "quit",
            "append", "move", "flag", "expunge", "expunge all", "ok", "error"}
Outs    == [to : SUBSET Addresses, cc : SUBSET Addresses, bcc : SUBSET Addresses,
            parts : SUBSET Parts]
Stored  == [folder : Folders, uid : Nat, born : Nat, by : Nat,
            deleted : BOOLEAN, mail : Mail]
Entries == [request : Requests, asked : Form, parts : SUBSET Parts,
            mail : Mail, to : SUBSET Addresses]
Listing == [shown : SUBSET Nat, cursor : Nat, start : SUBSET Nat, calm : BOOLEAN]

\* What the folders hold; no two messages share a UID or a birth, and both were
\* numbers before next.
FolderTypes ==
    /\ messages \subseteq Stored
    /\ \A m, n \in messages : m.uid = n.uid \/ m.born = n.born => m = n
    /\ \A m \in messages : m.uid < next /\ m.born < next
    /\ next \in Nat

WorkTypes == pc \in [Requests -> Stages] /\ req \in [Requests -> Work]

RestTypes ==
    /\ queue \subseteq Entries
    /\ list \in Listing
    /\ requests \in 0..MaxRequests
    /\ outside \in 0..MaxOutside

LEMMA TypeParts == FolderTypes /\ WorkTypes /\ RestTypes => TypeOK
BY DEF TypeOK, FolderTypes, WorkTypes, RestTypes, Stages, Stored, Entries, Listing

\* What a request at a stage has gathered, and what of it is left to do.
Stage(l, w) ==
    /\ l = "get" => w.out = NoLetter
    /\ l = "fetch" => /\ w.left # {} /\ w.left \subseteq Parts
                      /\ w.out.parts \cup w.left = w.parts
    /\ l \in {"deliver", "rcpt", "data", "quit", "append"} => w.out = Letter(w.form, w.parts)
    /\ l = "rcpt" => w.left # {}
    /\ l = "data" => w.left = {}
    /\ l \in {"flag", "expunge", "expunge all"} => w.at.folder = "Trash"

Staged == \A r \in Requests : Stage(pc[r], req[r])

--------------------------------------------------------------------------------
(* What requests work on.                                                   *)

LEMMA WorkFacts ==
    /\ Blank \in Form
    /\ NoLetter \in Outs
    /\ Nothing \in Work
    /\ Nothing.out = NoLetter
    /\ \A w \in Work : [Nothing EXCEPT !.kind = w.kind] \in Work
    /\ \A form \in Form, parts \in SUBSET Parts :
          /\ Letter(form, parts) \in Outs
          /\ Letters(form, parts) \in Work
          /\ Letters(form, parts).out = Letter(form, parts)
          /\ Letters(form, parts).form = form
          /\ Letters(form, parts).parts = parts
<1>1. Blank \in Form
  BY DEF Blank, Form
<1>2. \A form \in Form, parts \in SUBSET Parts : Letter(form, parts) \in Outs
  BY DEF Letter, Outs, Form
<1>3. NoLetter \in Outs
  BY <1>1, <1>2 DEF NoLetter
<1>4. Nothing \in Work /\ Nothing.out = NoLetter
  BY <1>1, <1>3 DEF Nothing, Work, Outs, Folders
<1>5. ASSUME NEW form \in Form, NEW parts \in SUBSET Parts
      PROVE  /\ Letters(form, parts) \in Work
             /\ Letters(form, parts).out = Letter(form, parts)
             /\ Letters(form, parts).form = form
             /\ Letters(form, parts).parts = parts
  BY <1>2, <1>4 DEF Letters, Work, Outs
<1>6. \A w \in Work : [Nothing EXCEPT !.kind = w.kind] \in Work
  BY <1>4 DEF Work
<1>7. QED
  BY <1>1, <1>2, <1>3, <1>4, <1>5, <1>6

\* The stages a request may be moved to without having gathered anything.
LEMMA FreeStages ==
    \A w : \A l \in {"new", "move", "ok", "error"} : Stage(l, w)
BY DEF Stage

\* A request moves, the others stay.
LEMMA MovedTypes ==
    ASSUME WorkTypes, Staged, NEW r \in Requests, NEW l \in Stages, NEW w \in Work,
           pc' = [pc EXCEPT ![r] = l], req' = [req EXCEPT ![r] = w], Stage(l, w)
    PROVE  WorkTypes' /\ Staged'
<1>1. WorkTypes'
  BY DEF WorkTypes
<1>2. ASSUME NEW s \in Requests
      PROVE  Stage(pc'[s], req'[s])
  <2>1. CASE s = r
    BY <2>1 DEF WorkTypes
  <2>2. CASE s # r
    <3>1. pc'[s] = pc[s] /\ req'[s] = req[s]
      BY <2>2 DEF WorkTypes
    <3>2. QED
      BY <3>1 DEF Staged
  <2>3. QED
    BY <2>1, <2>2
<1>3. QED
  BY <1>1, <1>2 DEF Staged, Stage

\* An action of r: where it takes the request, and with what.
Moves(r) == \E l \in Stages, w \in Work :
                /\ pc' = [pc EXCEPT ![r] = l]
                /\ req' = [req EXCEPT ![r] = w]
                /\ Stage(l, w)

LEMMA AskedMoves ==
    ASSUME FolderTypes, WorkTypes, NEW r \in Requests, Asked(r)
    PROVE  Moves(r)
<1>1. ASSUME NEW l \in Stages, NEW w \in Work, Stage(l, w), Begin(r, l, w)
      PROVE  Moves(r)
  BY <1>1 DEF Begin, Moves
<1>2. \A m \in messages : At(m) \in [folder : Folders, uid : Nat] /\ At(m).folder = m.folder
  BY DEF FolderTypes, Stored, At
<1>3. Forms \subseteq Form /\ {"deliver", "get", "flag", "move"} \subseteq Stages
  BY MailAssumption DEF Stages
<1>4. CASE Send(r)
  <2>1. PICK form \in Forms, parts \in {{}, Parts} : Begin(r, "deliver", Letters(form, parts))
    BY <1>4 DEF Send
  <2>2. form \in Form /\ parts \in SUBSET Parts
    BY <1>3
  <2>3. Stage("deliver", Letters(form, parts)) /\ Letters(form, parts) \in Work
    BY <2>2, WorkFacts DEF Stage
  <2>4. QED
    BY <1>1, <1>3, <2>1, <2>3
<1>5. ASSUME NEW m \in messages, NEW all \in BOOLEAN
      PROVE  LET w == [Nothing EXCEPT !.kind = "reply", !.at = At(m), !.all = all]
             IN  w \in Work /\ Stage("get", w)
  <2> DEFINE w == [Nothing EXCEPT !.kind = "reply", !.at = At(m), !.all = all]
  <2>1. w \in Work /\ w.out = NoLetter
    BY <1>2, WorkFacts DEF Work
  <2> HIDE DEF w
  <2>2. Stage("get", w)
    BY <2>1 DEF Stage
  <2>3. QED
    BY <2>1, <2>2 DEF w
<1>6. CASE Reply(r)
  BY <1>1, <1>3, <1>5, <1>6 DEF Reply
<1>7. ASSUME NEW m \in messages, NEW form \in Form
      PROVE  LET w == [Nothing EXCEPT !.kind = "forward", !.at = At(m), !.form = form]
             IN  w \in Work /\ Stage("get", w)
  <2> DEFINE w == [Nothing EXCEPT !.kind = "forward", !.at = At(m), !.form = form]
  <2>1. w \in Work /\ w.out = NoLetter
    BY <1>2, WorkFacts DEF Work
  <2> HIDE DEF w
  <2>2. Stage("get", w)
    BY <2>1 DEF Stage
  <2>3. QED
    BY <2>1, <2>2 DEF w
<1>8. CASE Forward(r)
  BY <1>1, <1>3, <1>7, <1>8 DEF Forward
<1>9. ASSUME NEW m \in messages, m.folder = "Trash"
      PROVE  LET w == [Nothing EXCEPT !.kind = "delete", !.at = At(m)]
             IN  w \in Work /\ Stage("flag", w)
  <2> DEFINE w == [Nothing EXCEPT !.kind = "delete", !.at = At(m)]
  <2>1. w \in Work /\ w.at.folder = "Trash"
    BY <1>2, <1>9, WorkFacts DEF Work
  <2> HIDE DEF w
  <2>2. Stage("flag", w)
    BY <2>1 DEF Stage
  <2>3. QED
    BY <2>1, <2>2 DEF w
<1>10. ASSUME NEW m \in messages, NEW f \in Folders
       PROVE  LET w == [Nothing EXCEPT !.kind = "move", !.at = At(m), !.dest = f]
              IN  w \in Work /\ Stage("move", w)
  BY <1>2, WorkFacts, FreeStages DEF Work
<1>11. CASE Delete(r)
  <2>1. "Trash" \in Folders
    BY DEF Folders
  <2>2. QED
    BY <1>1, <1>3, <1>9, <1>10, <1>11, <2>1 DEF Delete, IsTrash
<1>12. CASE MoveTo(r)
  BY <1>1, <1>3, <1>10, <1>12 DEF MoveTo
<1>13. QED
  BY <1>4, <1>6, <1>8, <1>11, <1>12 DEF Asked

\* What a request is answered.
LEMMA AnswerMoves ==
    ASSUME WorkTypes, NEW r \in Requests, NEW a \in {"ok", "error"}, Answer(r, a)
    PROVE  Moves(r)
<1>1. [Nothing EXCEPT !.kind = req[r].kind] \in Work
  BY WorkFacts DEF WorkTypes
<1>2. QED
  BY <1>1, FreeStages DEF Answer, Moves, Stages

LEMMA CollectMoves ==
    ASSUME NEW r \in Requests, NEW w \in Work, Collect(r, w), w.left \subseteq Parts,
           w.out.parts \cup w.left = w.parts
    PROVE  Moves(r)
<1>1. CASE w.left # {}
  <2>1. Stage("fetch", w) /\ Go(r, "fetch", w)
    BY <1>1 DEF Stage, Collect
  <2>2. QED
    BY <2>1 DEF Go, Moves, Stages
<1>2. CASE w.left = {}
  <2> DEFINE v == [Letters(w.form, w.out.parts) EXCEPT !.parts = w.parts]
  <2>1. w.form \in Form /\ w.out.parts \in SUBSET Parts /\ w.out.parts = w.parts
    BY <1>2 DEF Work
  <2>2. /\ Letters(w.form, w.parts) \in Work
        /\ Letters(w.form, w.parts).parts = w.parts
        /\ Stage("deliver", Letters(w.form, w.parts))
    BY <2>1, WorkFacts DEF Stage
  <2>3. v = Letters(w.form, w.parts)
    BY <2>1, <2>2 DEF Work
  <2>4. Go(r, "deliver", v)
    BY <1>2 DEF Collect
  <2> HIDE DEF v
  <2>5. QED
    BY <2>2, <2>3, <2>4 DEF Go, Moves, Stages
<1>3. QED
  BY <1>1, <1>2

LEMMA GetMoves ==
    ASSUME FolderTypes, WorkTypes, Staged, NEW r \in Requests, Get(r)
    PROVE  Moves(r)
<1>1. PICK m \in Find(req[r].at) :
        IF req[r].kind = "forward"
        THEN Collect(r, [req[r] EXCEPT !.parts = m.mail.parts, !.left = m.mail.parts])
        ELSE \E form \in {ReplyForm(m.mail, req[r].all)} \cup Forms :
               Go(r, "deliver", Letters(form, {}))
  BY DEF Get
<1>2. req[r] \in Work /\ req[r].out = NoLetter
  BY DEF Get, WorkTypes, Staged, Stage
<1>3. m.mail \in Mail
  BY DEF Find, FolderTypes, Stored
<1>4. CASE req[r].kind = "forward"
  <2> DEFINE w == [req[r] EXCEPT !.parts = m.mail.parts, !.left = m.mail.parts]
  <2>1. m.mail.parts \in SUBSET Parts
    BY <1>3 DEF Mail
  <2>2. w \in Work /\ w.left = m.mail.parts /\ w.parts = m.mail.parts /\ w.out = NoLetter
    BY <1>2, <2>1 DEF Work
  <2>3. NoLetter.parts = {}
    BY DEF NoLetter, Letter
  <2>4. Collect(r, w)
    BY <1>1, <1>4
  <2> HIDE DEF w
  <2>5. w.left \subseteq Parts /\ w.out.parts \cup w.left = w.parts
    BY <2>1, <2>2, <2>3
  <2>6. QED
    BY <2>2, <2>4, <2>5, CollectMoves
<1>5. CASE req[r].kind # "forward"
  <2>1. PICK form \in {ReplyForm(m.mail, req[r].all)} \cup Forms :
          Go(r, "deliver", Letters(form, {}))
    BY <1>1, <1>5
  <2>2. ReplyForm(m.mail, req[r].all) \in Form
    BY <1>3 DEF ReplyForm, ReplyTo, Mail, Form
  <2>3. form \in Form
    BY <2>2, MailAssumption
  <2>4. Letters(form, {}) \in Work /\ Stage("deliver", Letters(form, {}))
    BY <2>3, WorkFacts DEF Stage
  <2>5. QED
    BY <2>1, <2>4 DEF Go, Moves, Stages
<1>6. QED
  BY <1>4, <1>5

LEMMA FetchMoves ==
    ASSUME WorkTypes, Staged, NEW r \in Requests, Fetch(r)
    PROVE  Moves(r)
<1> DEFINE part == First(req[r].left)
           w == [req[r] EXCEPT !.left = @ \ {part}, !.out.parts = @ \cup {part}]
<1>1. /\ req[r] \in Work /\ req[r].left # {} /\ req[r].left \subseteq Parts
      /\ req[r].out.parts \cup req[r].left = req[r].parts
  BY DEF Fetch, WorkTypes, Staged, Stage
<1>2. part \in req[r].left
  BY <1>1 DEF First
<1>3. Collect(r, w)
  BY DEF Fetch
<1> HIDE DEF part
<1>4. /\ w \in Work /\ w.left = req[r].left \ {part} /\ w.parts = req[r].parts
      /\ w.out.parts = req[r].out.parts \cup {part}
  <2>1. req[r].out \in Outs /\ part \in Parts
    BY <1>1, <1>2 DEF Work, Outs
  <2>2. [req[r].out EXCEPT !.parts = @ \cup {part}] \in Outs
    BY <2>1 DEF Outs
  <2>3. QED
    BY <1>1, <2>1, <2>2 DEF Work, Outs
<1> HIDE DEF w
<1>5. w.left \subseteq Parts /\ w.out.parts \cup w.left = w.parts
  BY <1>1, <1>2, <1>4
<1>6. QED
  BY <1>3, <1>4, <1>5, CollectMoves

\* deliver and the session with Postfix.
LEMMA SendingMoves ==
    ASSUME WorkTypes, Staged, NEW r \in Requests,
           Deliver(r) \/ Recipient(r) \/ Data(r) \/ Quit(r)
    PROVE  Moves(r)
<1>1. /\ req[r] \in Work
      /\ pc[r] \in {"deliver", "rcpt", "data", "quit"} =>
            req[r].out = Letter(req[r].form, req[r].parts)
  BY DEF WorkTypes, Staged, Stage
<1>2. CASE Deliver(r)
  <2> DEFINE w == [req[r] EXCEPT !.left = Envelope(req[r].out)]
  <2>1. Envelope(req[r].out) \subseteq Addresses
    BY <1>1 DEF Work, Envelope
  <2>2. /\ w \in Work /\ w.left = Envelope(req[r].out) /\ w.out = req[r].out
        /\ w.form = req[r].form /\ w.parts = req[r].parts
    BY <1>1, <2>1 DEF Work
  <2>3. Go(r, "rcpt", w) /\ pc[r] = "deliver" /\ Envelope(req[r].out) # {}
    BY <1>2 DEF Deliver
  <2> HIDE DEF w
  <2>4. Stage("rcpt", w)
    BY <1>1, <2>2, <2>3 DEF Stage
  <2>5. QED
    BY <2>2, <2>3, <2>4 DEF Go, Moves, Stages
<1>3. CASE Recipient(r)
  <2> DEFINE a == First(req[r].left)
             w == [req[r] EXCEPT !.left = @ \ {a}]
             l == IF req[r].left = {a} THEN "data" ELSE "rcpt"
  <2>1. pc[r] = "rcpt" /\ Go(r, l, w)
    BY <1>3 DEF Recipient
  <2>2. req[r].left # {}
    BY <2>1 DEF Staged, Stage
  <2> HIDE DEF a
  <2>3. /\ w \in Work /\ w.left = req[r].left \ {a} /\ w.out = req[r].out
        /\ w.form = req[r].form /\ w.parts = req[r].parts
    BY <1>1 DEF Work
  <2> HIDE DEF w
  <2>4. Stage(l, w)
    BY <1>1, <2>1, <2>2, <2>3 DEF Stage
  <2>5. QED
    BY <2>1, <2>3, <2>4 DEF Go, Moves, Stages
<1>4. CASE Data(r)
  BY <1>1, <1>4 DEF Data, Go, Moves, Stages, Stage
<1>5. CASE Quit(r)
  BY <1>1, <1>5 DEF Quit, Go, Moves, Stages, Stage
<1>6. QED
  BY <1>2, <1>3, <1>4, <1>5

LEMMA ExpungeMoves ==
    ASSUME WorkTypes, Staged, NEW r \in Requests, pc[r] \in {"flag", "expunge"},
           NEW l \in {"expunge", "expunge all"}, pc' = [pc EXCEPT ![r] = l], req' = req
    PROVE  Moves(r)
<1>1. /\ req' = [req EXCEPT ![r] = req[r]]
      /\ req[r] \in Work /\ req[r].at.folder = "Trash"
  BY DEF WorkTypes, Staged, Stage
<1>2. QED
  BY <1>1 DEF Moves, Stages, Stage

LEMMA FolderMoves ==
    ASSUME WorkTypes, Staged, NEW r \in Requests,
           \/ Save(r) \/ Move(r) \/ Flag(r) \/ Expunge(r) \/ ExpungeFails(r)
           \/ ExpungeAll(r) \/ Unfit(r) \/ GiveUp(r)
    PROVE  Moves(r)
<1>1. CASE Flag(r) \/ (pc[r] = "expunge" /\ ExpungeOn(r))
  BY <1>1, ExpungeMoves DEF Flag, ExpungeOn
<1>2. CASE \E a \in {"ok", "error"} : Answer(r, a)
  BY <1>2, AnswerMoves
<1>3. QED
  BY <1>1, <1>2 DEF Save, Move, Expunge, ExpungeFails, ExpungeAll, Unfit, GiveUp

Act(r) == Asked(r) \/ Own(r) \/ Remote(r)
Others == FirstPage \/ MorePages \/ Arrive \/ OtherFlags \/ OtherExpunges

LEMMA Acts == Next <=> (\E r \in Requests : Act(r)) \/ Others
BY DEF Next, Act, Others

LEMMA ActMoves ==
    ASSUME FolderTypes, WorkTypes, Staged, NEW r \in Requests, Act(r)
    PROVE  Moves(r)
BY AskedMoves, GetMoves, FetchMoves, SendingMoves, FolderMoves DEF Act, Own, Remote

LEMMA OthersStay == Others => UNCHANGED <<pc, req, queue, requests>>
BY DEF Others, FirstPage, MorePages, Arrive, OtherFlags, OtherExpunges, Other

LEMMA WorkStep ==
    ASSUME FolderTypes, WorkTypes, Staged, [Next]_vars
    PROVE  WorkTypes' /\ Staged'
<1>1. CASE UNCHANGED <<pc, req>>
  BY <1>1 DEF WorkTypes, Staged, Stage
<1>2. ASSUME NEW r \in Requests, Act(r)
      PROVE  WorkTypes' /\ Staged'
  <2>1. PICK l \in Stages, w \in Work :
          pc' = [pc EXCEPT ![r] = l] /\ req' = [req EXCEPT ![r] = w] /\ Stage(l, w)
    BY <1>2, ActMoves DEF Moves
  <2>2. QED
    BY <2>1, MovedTypes
<1>3. QED
  BY <1>1, <1>2, Acts, OthersStay DEF vars

--------------------------------------------------------------------------------
(* What folders hold.                                                       *)

\* A message is put in place of another, the same mail in another folder or marked.
Put(m, n) == /\ m \in messages /\ n \in Stored
             /\ n.born = m.born /\ n.by = m.by /\ n.mail = m.mail
             /\ messages' = (messages \ {m}) \cup {n}

Marks(at)    == \/ messages' = messages
                \/ \E m \in Find(at), d \in BOOLEAN : Put(m, [m EXCEPT !.deleted = d])
Carries(at, dest) ==
    \/ messages' = messages
    \/ \E m \in Find(at) : Put(m, Message(dest, next, m.born, m.by, m.deleted, m.mail))
Adds(f, by, mail) ==
    messages' = messages \cup {Message(f, next, next, by, FALSE, mail)}

\* An id names one message.
LEMMA FindOne ==
    ASSUME FolderTypes, NEW at, Find(at) # {}
    PROVE  \E m \in messages : /\ Find(at) = {m} /\ At(m) = at
                               /\ {n \in messages : At(n) # at} = messages \ {m}
<1>1. PICK m \in messages : At(m) = at
  BY DEF Find
<1>2. \A n \in messages : At(n) = at => n = m
  <2>1. ASSUME NEW n \in messages, At(n) = at
        PROVE  n.uid = m.uid
    BY <1>1, <2>1 DEF At
  <2>2. QED
    BY <2>1 DEF FolderTypes
<1>3. QED
  BY <1>1, <1>2 DEF Find

LEMMA FindNone ==
    ASSUME NEW at, Find(at) = {}
    PROVE  {n \in messages : At(n) # at} = messages
BY DEF Find

LEMMA MarkedFacts ==
    ASSUME NEW m \in Stored, NEW d \in BOOLEAN
    PROVE  LET n == [m EXCEPT !.deleted = d]
           IN  /\ n \in Stored /\ n.born = m.born /\ n.by = m.by /\ n.mail = m.mail
               /\ n.uid = m.uid /\ n.folder = m.folder
BY DEF Stored

LEMMA FlagMarks == ASSUME FolderTypes, NEW r \in Requests, Flag(r) PROVE Marks(req[r].at)
<1> DEFINE at == req[r].at
<1>1. messages' = {m \in messages : At(m) # at} \cup {[m EXCEPT !.deleted = TRUE] : m \in Find(at)}
  BY DEF Flag
<1> HIDE DEF at
<1>2. CASE Find(at) = {}
  BY <1>1, <1>2, FindNone DEF Marks, at
<1>3. CASE Find(at) # {}
  <2>1. PICK m \in messages : /\ Find(at) = {m} /\ At(m) = at
                              /\ {n \in messages : At(n) # at} = messages \ {m}
    BY <1>3, FindOne
  <2> DEFINE n == [m EXCEPT !.deleted = TRUE]
  <2>2. messages' = (messages \ {m}) \cup {n}
    BY <1>1, <2>1
  <2>3. n \in Stored /\ n.born = m.born /\ n.by = m.by /\ n.mail = m.mail
    BY MarkedFacts DEF FolderTypes
  <2> HIDE DEF n
  <2>4. Put(m, n)
    BY <2>2, <2>3 DEF Put
  <2>5. QED
    BY <2>1, <2>4 DEF Marks, n, at
<1>4. QED
  BY <1>2, <1>3

LEMMA OtherFlagsMarks ==
    ASSUME FolderTypes, OtherFlags
    PROVE  \E at : Marks(at)
<1>1. PICK m \in messages : messages' = (messages \ {m}) \cup {[m EXCEPT !.deleted = ~@]}
  BY DEF OtherFlags
<1>2. m \in Stored /\ m.deleted \in BOOLEAN
  BY DEF FolderTypes, Stored
<1> DEFINE d == ~ m.deleted
           n == [m EXCEPT !.deleted = d]
<1>3. messages' = (messages \ {m}) \cup {n} /\ d \in BOOLEAN
  BY <1>1, <1>2
<1> HIDE DEF d
<1>4. n \in Stored /\ n.born = m.born /\ n.by = m.by /\ n.mail = m.mail
  BY <1>2, <1>3, MarkedFacts
<1>5. Put(m, n)
  BY <1>3, <1>4 DEF Put
<1>6. m \in Find(At(m))
  BY DEF Find
<1>7. QED
  BY <1>3, <1>5, <1>6 DEF Marks

LEMMA MoveCarries ==
    ASSUME FolderTypes, WorkTypes, NEW r \in Requests, Move(r)
    PROVE  Carries(req[r].at, req[r].dest) /\ next' = next + 1
<1> DEFINE at == req[r].at
           dest == req[r].dest
           n(m) == Message(dest, next, m.born, m.by, m.deleted, m.mail)
<1>1. messages' = {m \in messages : At(m) # at} \cup {n(m) : m \in Find(at)} /\ next' = next + 1
  BY DEF Move, Moved, Become
<1>2. dest \in Folders
  BY DEF WorkTypes, Work
<1> HIDE DEF at, dest
<1>3. CASE Find(at) = {}
  BY <1>1, <1>3, FindNone DEF Carries, at
<1>4. CASE Find(at) # {}
  <2>1. PICK m \in messages : /\ Find(at) = {m} /\ At(m) = at
                              /\ {k \in messages : At(k) # at} = messages \ {m}
    BY <1>4, FindOne
  <2>2. n(m) \in Stored /\ n(m).born = m.born /\ n(m).by = m.by /\ n(m).mail = m.mail
    BY <1>2 DEF FolderTypes, Stored, Message
  <2>3. messages' = (messages \ {m}) \cup {n(m)}
    BY <1>1, <2>1
  <2>4. Put(m, n(m))
    <3> HIDE DEF n
    <3>1. QED
      BY <2>2, <2>3 DEF Put
  <2>5. QED
    BY <1>1, <2>1, <2>4 DEF Carries, at, dest
<1>5. QED
  BY <1>3, <1>4

LEMMA AddedTypes ==
    ASSUME FolderTypes, NEW f \in Folders, NEW by \in Nat, NEW mail \in Mail, Adds(f, by, mail),
           next' = next + 1
    PROVE  FolderTypes'
<1> DEFINE n == Message(f, next, next, by, FALSE, mail)
<1>1. n \in Stored /\ n.uid = next /\ n.born = next
  BY DEF Message, Stored, FolderTypes
<1>2. messages' = messages \cup {n}
  BY DEF Adds
<1> HIDE DEF n
<1>3. \A m \in messages : m \in Stored /\ m.uid \in Nat /\ m.born \in Nat
  BY DEF FolderTypes, Stored
<1>4. QED
  BY <1>1, <1>2, <1>3 DEF FolderTypes

\* Marked or moved: the same birth, and the same UID or a new one.
LEMMA PutTypes ==
    ASSUME FolderTypes, NEW m, NEW n, Put(m, n),
           (n.uid = m.uid /\ next' = next) \/ (n.uid = next /\ next' = next + 1)
    PROVE  FolderTypes'
<1>1. \A k \in messages \cup {n} : k \in Stored /\ k.uid \in Nat /\ k.born \in Nat
  BY DEF FolderTypes, Stored, Put
<1>2. \A k \in messages \ {m} : k.born # n.born /\ k.uid # n.uid
  BY <1>1 DEF FolderTypes, Put
<1>3. n.uid < next' /\ n.born < next' /\ next' \in Nat /\ next <= next'
  BY <1>1 DEF FolderTypes, Put
<1>4. \A k \in messages' : k = n \/ k \in messages \ {m}
  BY DEF Put
<1>5. QED
  BY <1>1, <1>2, <1>3, <1>4 DEF FolderTypes

LEMMA MarksTypes == ASSUME FolderTypes, NEW at, Marks(at), next' = next PROVE FolderTypes'
<1>1. CASE messages' = messages
  BY <1>1 DEF FolderTypes
<1>2. ASSUME NEW m \in Find(at), NEW d \in BOOLEAN, Put(m, [m EXCEPT !.deleted = d])
      PROVE  FolderTypes'
  <2> DEFINE n == [m EXCEPT !.deleted = d]
  <2>1. n.uid = m.uid /\ Put(m, n)
    BY <1>2, MarkedFacts DEF Find, FolderTypes
  <2> HIDE DEF n
  <2>2. QED
    BY <2>1, PutTypes
<1>3. QED
  BY <1>1, <1>2 DEF Marks

LEMMA CarriesTypes ==
    ASSUME FolderTypes, NEW at, NEW dest, Carries(at, dest), next' = next + 1
    PROVE  FolderTypes'
<1>1. CASE messages' = messages
  <2>1. \A m \in messages : m.uid \in Nat /\ m.born \in Nat
    BY DEF FolderTypes, Stored
  <2>2. QED
    BY <1>1, <2>1 DEF FolderTypes
<1>2. ASSUME NEW m \in Find(at), Put(m, Message(dest, next, m.born, m.by, m.deleted, m.mail))
      PROVE  FolderTypes'
  <2>1. Message(dest, next, m.born, m.by, m.deleted, m.mail).uid = next
    BY DEF Message
  <2>2. QED
    BY <1>2, <2>1, PutTypes
<1>3. QED
  BY <1>1, <1>2 DEF Carries

LEMMA RemovedTypes ==
    ASSUME FolderTypes, messages' \subseteq messages, next' = next
    PROVE  FolderTypes'
BY DEF FolderTypes

LEMMA RenderedMail == ASSUME WorkTypes, NEW r \in Requests PROVE Rendered(req[r].out) \in Mail
<1>1. req[r].out \in Outs
  BY DEF WorkTypes, Work, Outs
<1>2. QED
  BY <1>1, AddressAssumption DEF Outs, Rendered, Mail

\* What a request does to the folders.
LEMMA ActFolders ==
    ASSUME FolderTypes, WorkTypes, NEW r \in Requests, Act(r)
    PROVE  \/ UNCHANGED <<messages, next>>
           \/ /\ Save(r) /\ Adds("Sent", r, Rendered(req[r].out)) /\ next' = next + 1
           \/ Move(r) /\ Carries(req[r].at, req[r].dest) /\ next' = next + 1
           \/ Flag(r) /\ Marks(req[r].at) /\ next' = next
           \/ /\ Expunge(r) /\ next' = next
              /\ messages' = messages \ {m \in Find(req[r].at) : m.deleted}
           \/ /\ ExpungeAll(r) /\ next' = next
              /\ messages' = {m \in messages : ~(m.folder = req[r].at.folder /\ m.deleted)}
<1>1. CASE Asked(r)
  BY <1>1 DEF Asked, Send, Reply, Forward, MoveTo, Delete, Begin
<1>2. CASE Own(r)
  BY <1>2 DEF Own, Deliver, Unfit, ExpungeFails, GiveUp, Go
<1>3. CASE Get(r) \/ Fetch(r)
  BY <1>3 DEF Get, Fetch, Collect, Go
<1>4. CASE Recipient(r) \/ Data(r) \/ Quit(r)
  BY <1>4 DEF Recipient, Data, Quit, Go
<1>5. CASE Save(r)
  BY <1>5 DEF Save, Become, Adds
<1>6. CASE Move(r)
  BY <1>6, MoveCarries
<1>7. CASE Flag(r)
  BY <1>7, FlagMarks DEF Flag
<1>8. CASE Expunge(r) \/ ExpungeAll(r)
  BY <1>8 DEF Expunge, ExpungeAll, Become
<1>9. QED
  BY <1>1, <1>2, <1>3, <1>4, <1>5, <1>6, <1>7, <1>8 DEF Act, Remote

\* What others do to them.
LEMMA OthersFolders ==
    ASSUME FolderTypes, Others
    PROVE  \/ UNCHANGED <<messages, next>>
           \/ Arrive /\ (\E mail \in Arriving : Adds("INBOX", 0, mail)) /\ next' = next + 1
           \/ OtherFlags /\ (\E at : Marks(at)) /\ next' = next
           \/ /\ OtherExpunges /\ next' = next
              /\ messages' \subseteq messages
              /\ \A m \in messages \ messages' : m.deleted
<1>1. CASE FirstPage \/ MorePages
  BY <1>1 DEF FirstPage, MorePages
<1>2. CASE Arrive
  BY <1>2 DEF Arrive, Become, Adds
<1>3. CASE OtherFlags
  BY <1>3, OtherFlagsMarks DEF OtherFlags
<1>4. CASE OtherExpunges
  BY <1>4 DEF OtherExpunges, Become
<1>5. QED
  BY <1>1, <1>2, <1>3, <1>4 DEF Others

LEMMA FolderStep ==
    ASSUME FolderTypes, WorkTypes, [Next]_vars
    PROVE  FolderTypes'
<1>1. CASE UNCHANGED <<messages, next>>
  BY <1>1 DEF FolderTypes
<1>2. {"Sent", "INBOX"} \subseteq Folders /\ Arriving \subseteq Mail /\ Requests \subseteq Nat
  BY MailAssumption, BoundAssumption DEF Folders, Requests
<1>3. ASSUME NEW r \in Requests, Act(r)
      PROVE  FolderTypes'
  BY <1>1, <1>2, <1>3, ActFolders, AddedTypes, CarriesTypes, MarksTypes, RemovedTypes,
     RenderedMail
<1>4. CASE Others
  BY <1>1, <1>2, <1>4, OthersFolders, AddedTypes, MarksTypes, RemovedTypes
<1>5. QED
  BY <1>1, <1>3, <1>4, Acts DEF vars

LEMMA UIDTypes == ASSUME FolderTypes PROVE \A S \in SUBSET messages : UIDs(S) \subseteq Nat
BY DEF FolderTypes, Stored, UIDs

LEMMA CursorType == ASSUME NEW o \in Nat PROVE Cursor(o) \in Nat
BY BoundAssumption DEF Cursor

\* Taking messages out, or putting some in, is all that changes a listing from outside.
Watched == \E b \in BOOLEAN : list' = [list EXCEPT !.calm = b]

LEMMA BecomeWatched == ASSUME list \in Listing, NEW S, Become(S) PROVE Watched
<1>1. list' = [list EXCEPT !.calm =
                 list.calm /\ UIDs(In("INBOX")) \subseteq UIDs({m \in S : m.folder = "INBOX"})]
  BY DEF Become
<1>2. list.calm \in BOOLEAN
  BY DEF Listing
<1>3. QED
  BY <1>1, <1>2 DEF Watched

LEMMA ListStep ==
    ASSUME FolderTypes, list \in Listing, [Next]_vars
    PROVE  list' \in Listing
<1>1. CASE Watched \/ UNCHANGED list
  BY <1>1 DEF Watched, Listing
<1>2. \A o : Page(o) \in SUBSET messages
  BY DEF Page, In
<1>3. CASE FirstPage
  <2>1. list' = [shown |-> UIDs(Page(0)), cursor |-> Cursor(0),
                 start |-> UIDs(In("INBOX")), calm |-> TRUE]
    BY <1>3 DEF FirstPage
  <2>2. UIDs(Page(0)) \in SUBSET Nat /\ UIDs(In("INBOX")) \in SUBSET Nat /\ Cursor(0) \in Nat
    BY <1>2, UIDTypes, CursorType DEF In
  <2>3. QED
    BY <2>1, <2>2 DEF Listing
<1>4. CASE MorePages
  <2>1. list' = [list EXCEPT !.shown = list.shown \cup UIDs(Page(list.cursor)),
                             !.cursor = Cursor(list.cursor)]
    BY <1>4 DEF MorePages
  <2>2. UIDs(Page(list.cursor)) \in SUBSET Nat /\ Cursor(list.cursor) \in Nat
    BY <1>2, UIDTypes, CursorType DEF Listing
  <2>3. QED
    BY <2>1, <2>2 DEF Listing
<1>5. CASE Arrive \/ OtherFlags \/ OtherExpunges
  <2>1. Watched \/ UNCHANGED list
    BY <1>5, BecomeWatched DEF Arrive, OtherFlags, OtherExpunges
  <2>2. QED
    BY <1>1, <2>1
<1>6. ASSUME NEW r \in Requests, Act(r)
      PROVE  Watched \/ UNCHANGED list
  <2>1. CASE Asked(r)
    BY <2>1 DEF Asked, Send, Reply, Forward, MoveTo, Delete, Begin
  <2>2. CASE Own(r)
    BY <2>2 DEF Own, Deliver, Unfit, ExpungeFails, GiveUp, Go
  <2>3. CASE Get(r) \/ Fetch(r)
    BY <2>3 DEF Get, Fetch, Collect, Go
  <2>4. CASE Recipient(r) \/ Data(r) \/ Quit(r)
    BY <2>4 DEF Recipient, Data, Quit, Go
  <2>5. CASE Save(r) \/ Move(r) \/ Expunge(r) \/ ExpungeAll(r)
    BY <2>5, BecomeWatched DEF Save, Move, Expunge, ExpungeAll
  <2>6. CASE Flag(r)
    BY <2>6 DEF Flag
  <2>7. QED
    BY <1>6, <2>1, <2>2, <2>3, <2>4, <2>5, <2>6 DEF Act, Remote
<1>7. QED
  BY <1>1, <1>3, <1>4, <1>5, <1>6, Acts DEF vars, Others

--------------------------------------------------------------------------------
(* What Postfix has accepted.                                               *)

\* The entry that DATA of r leaves.
Accepted(r) == [request |-> r, asked |-> req[r].form, parts |-> req[r].parts,
                mail |-> Rendered(req[r].out), to |-> Envelope(req[r].out) \ req[r].left]

LEMMA ActQueue ==
    ASSUME NEW r \in Requests, Act(r)
    PROVE  UNCHANGED queue \/ (Data(r) /\ queue' = queue \cup {Accepted(r)})
<1>1. CASE Asked(r)
  BY <1>1 DEF Asked, Send, Reply, Forward, MoveTo, Delete, Begin
<1>2. CASE Own(r)
  BY <1>2 DEF Own, Deliver, Unfit, ExpungeFails, GiveUp, Go
<1>3. CASE Get(r) \/ Fetch(r) \/ Recipient(r) \/ Quit(r) \/ Save(r) \/ Move(r) \/ Flag(r)
           \/ Expunge(r) \/ ExpungeAll(r)
  BY <1>3 DEF Get, Fetch, Recipient, Quit, Save, Move, Flag, Expunge, ExpungeAll
<1>4. CASE Data(r)
  BY <1>4 DEF Data, Accepted
<1>5. QED
  BY <1>1, <1>2, <1>3, <1>4 DEF Act, Remote

LEMMA AcceptedType ==
    ASSUME WorkTypes, NEW r \in Requests
    PROVE  Accepted(r) \in Entries
<1>1. req[r] \in Work /\ req[r].out \in Outs
  BY DEF WorkTypes, Work, Outs
<1>2. Rendered(req[r].out) \in Mail
  BY RenderedMail
<1>3. req[r].form \in Form /\ req[r].parts \in SUBSET Parts
  BY <1>1 DEF Work
<1>4. Envelope(req[r].out) \ req[r].left \in SUBSET Addresses
  BY <1>1 DEF Outs, Envelope
<1>5. QED
  BY <1>2, <1>3, <1>4 DEF Accepted, Entries

LEMMA QueueStep ==
    ASSUME WorkTypes, queue \subseteq Entries, [Next]_vars
    PROVE  queue' \subseteq Entries
<1>1. CASE UNCHANGED queue
  BY <1>1
<1>2. ASSUME NEW r \in Requests, Act(r)
      PROVE  queue' \subseteq Entries
  BY <1>2, ActQueue, AcceptedType
<1>3. QED
  BY <1>1, <1>2, Acts, OthersStay DEF vars

LEMMA ActRequests ==
    ASSUME NEW r \in Requests, Act(r)
    PROVE  /\ UNCHANGED outside
           /\ \/ Asked(r) /\ r = requests + 1 /\ requests' = r
              \/ UNCHANGED requests
<1>1. CASE Asked(r)
  BY <1>1 DEF Asked, Send, Reply, Forward, MoveTo, Delete, Begin
<1>2. CASE Own(r)
  BY <1>2 DEF Own, Deliver, Unfit, ExpungeFails, GiveUp, Go
<1>3. CASE Get(r) \/ Fetch(r)
  BY <1>3 DEF Get, Fetch, Collect, Go
<1>4. CASE Recipient(r) \/ Data(r) \/ Quit(r)
  BY <1>4 DEF Recipient, Data, Quit, Go
<1>5. CASE Save(r) \/ Move(r) \/ Flag(r) \/ Expunge(r) \/ ExpungeAll(r)
  BY <1>5 DEF Save, Move, Flag, Expunge, ExpungeAll
<1>6. QED
  BY <1>1, <1>2, <1>3, <1>4, <1>5 DEF Act, Remote

LEMMA CountStep ==
    ASSUME requests \in 0..MaxRequests, outside \in 0..MaxOutside, [Next]_vars
    PROVE  requests' \in 0..MaxRequests /\ outside' \in 0..MaxOutside
<1>1. MaxRequests \in Nat /\ MaxOutside \in Nat
  BY BoundAssumption
<1>2. ASSUME NEW r \in Requests, Act(r)
      PROVE  requests' \in 0..MaxRequests /\ outside' \in 0..MaxOutside
  BY <1>1, <1>2, ActRequests DEF Requests
<1>3. CASE Others
  <2>1. CASE FirstPage \/ MorePages
    BY <2>1 DEF FirstPage, MorePages
  <2>2. CASE Other
    BY <1>1, <2>2 DEF Other
  <2>3. QED
    BY <1>3, <2>1, <2>2 DEF Others, Arrive, OtherFlags, OtherExpunges
<1>4. CASE UNCHANGED vars
  BY <1>4 DEF vars
<1>5. QED
  BY <1>2, <1>3, <1>4, Acts

Typed == FolderTypes /\ WorkTypes /\ RestTypes /\ Staged

LEMMA TypedStep == Typed /\ [Next]_vars => Typed'
BY FolderStep, WorkStep, ListStep, QueueStep, CountStep DEF Typed, RestTypes

LEMMA Start == Init => Typed
<1> SUFFICES ASSUME Init
             PROVE  Typed
  OBVIOUS
<1>1. PICK mail \in [DOMAIN AtStart -> Arriving] :
        messages = {Message(AtStart[i], i, i, 0, FALSE, mail[i]) : i \in DOMAIN AtStart}
  BY DEF Init
<1>2. /\ DOMAIN AtStart = 1..Len(AtStart) /\ Len(AtStart) \in Nat
      /\ \A i \in DOMAIN AtStart : AtStart[i] \in Folders
  BY BoundAssumption
<1>3. \A i \in DOMAIN AtStart :
        LET m == Message(AtStart[i], i, i, 0, FALSE, mail[i])
        IN  m \in Stored /\ m.uid = i /\ m.born = i /\ i < Len(AtStart) + 1
  <2>1. ASSUME NEW i \in DOMAIN AtStart
        PROVE  /\ mail[i] \in Mail /\ AtStart[i] \in Folders /\ i \in Nat
               /\ i < Len(AtStart) + 1
    BY <1>2, MailAssumption
  <2>2. QED
    BY <2>1 DEF Message, Stored
<1>4. FolderTypes
  <2>1. next = Len(AtStart) + 1
    BY DEF Init
  <2>2. messages \subseteq Stored
    BY <1>1, <1>3
  <2>3. \A m \in messages : m.uid < next /\ m.born < next
    BY <1>1, <1>3, <2>1
  <2>4. ASSUME NEW m \in messages, NEW n \in messages, m.uid = n.uid \/ m.born = n.born
        PROVE  m = n
    <3>1. PICK i \in DOMAIN AtStart : m = Message(AtStart[i], i, i, 0, FALSE, mail[i])
      BY <1>1
    <3>2. PICK j \in DOMAIN AtStart : n = Message(AtStart[j], j, j, 0, FALSE, mail[j])
      BY <1>1
    <3>3. i = j
      BY <1>3, <2>4, <3>1, <3>2
    <3>4. QED
      BY <3>1, <3>2, <3>3
  <2>5. QED
    BY <1>2, <2>1, <2>2, <2>3, <2>4 DEF FolderTypes
<1>5. WorkTypes /\ Staged
  BY WorkFacts, FreeStages DEF Init, WorkTypes, Staged, Stages
<1>6. RestTypes
  BY BoundAssumption DEF Init, RestTypes, Listing
<1>7. QED
  BY <1>4, <1>5, <1>6 DEF Typed

LEMMA AlwaysTyped == Spec => []Typed
BY Start, TypedStep, PTL DEF Spec

\* The type invariant, with the uniqueness of UIDs that a message id rests on: whatever
\* is moved, marked and expunged, by this server and by other clients.
THEOREM TypeCorrect == Spec => []TypeOK
<1>1. Typed => TypeOK
  BY TypeParts DEF Typed
<1>2. QED
  BY <1>1, AlwaysTyped, PTL

--------------------------------------------------------------------------------
(* Sending.                                                                 *)

LEMMA AskedStep == Typed /\ QueuedAsAsked /\ [Next]_vars => QueuedAsAsked'
<1> SUFFICES ASSUME Typed, QueuedAsAsked, [Next]_vars
             PROVE  QueuedAsAsked'
  OBVIOUS
<1>1. CASE UNCHANGED queue
  BY <1>1 DEF QueuedAsAsked
<1>2. ASSUME NEW r \in Requests, Data(r)
      PROVE  LET q == Accepted(r)
             IN  /\ q.to = Envelope(q.asked)
                 /\ q.mail.to = q.asked.to /\ q.mail.cc = q.asked.cc
                 /\ q.mail.parts = q.parts
  <2>1. req[r].out = Letter(req[r].form, req[r].parts) /\ req[r].left = {}
    BY <1>2 DEF Data, Typed, Staged, Stage
  <2>2. Envelope(req[r].out) = Envelope(req[r].form)
    BY <2>1 DEF Letter, Envelope
  <2>3. QED
    BY <2>1, <2>2 DEF Accepted, Rendered, Letter
<1>3. ASSUME NEW r \in Requests, Act(r)
      PROVE  QueuedAsAsked'
  <2>1. CASE Data(r) /\ queue' = queue \cup {Accepted(r)}
    <3> DEFINE q == Accepted(r)
    <3>1. /\ q.to = Envelope(q.asked)
          /\ q.mail.to = q.asked.to /\ q.mail.cc = q.asked.cc
          /\ q.mail.parts = q.parts
      BY <1>2, <2>1
    <3> HIDE DEF q
    <3>2. queue' = queue \cup {q}
      BY <2>1 DEF q
    <3>3. QED
      BY <3>1, <3>2 DEF QueuedAsAsked, Envelope
  <2>2. QED
    BY <1>1, <1>3, <2>1, ActQueue
<1>4. QED
  BY <1>1, <1>3, Acts, OthersStay DEF vars

\* What Postfix accepts is for everyone asked for, names no Bcc and carries every
\* attachment, for any number of addressees and attachments.
THEOREM AlwaysQueuedAsAsked == Spec => []QueuedAsAsked
<1>1. Init => QueuedAsAsked
  BY DEF Init, QueuedAsAsked
<1>2. QED
  BY <1>1, AskedStep, AlwaysTyped, PTL DEF Spec

\* Requests are numbered as they come, and one past DATA has its entry in the queue.
Answering ==
    /\ \A r \in Requests : pc[r] # "new" => r <= requests
    /\ \A r \in Requests : pc[r] \in {"quit", "append"} =>
         \E q \in queue : q.request = r /\ q.mail = Rendered(req[r].out)

\* Only Data and Quit lead past DATA.
LEMMA PastData ==
    ASSUME Typed, NEW r \in Requests, Act(r), pc'[r] \in {"quit", "append"}
    PROVE  Data(r) \/ Quit(r)
<1>1. \A l : pc' = [pc EXCEPT ![r] = l] => pc'[r] = l
  BY DEF Typed, WorkTypes
<1>2. ~ Asked(r)
  BY <1>1 DEF Asked, Send, Reply, Forward, MoveTo, Delete, Begin
<1>3. ~ Unfit(r) /\ ~ ExpungeFails(r) /\ ~ GiveUp(r) /\ ~ Deliver(r)
  BY <1>1 DEF Unfit, ExpungeFails, ExpungeOn, GiveUp, Deliver, Answer, Go
<1>4. ~ Get(r) /\ ~ Fetch(r) /\ ~ Recipient(r)
  BY <1>1 DEF Get, Fetch, Recipient, Collect, Go
<1>5. ~ Save(r) /\ ~ Move(r) /\ ~ Flag(r) /\ ~ Expunge(r) /\ ~ ExpungeAll(r)
  BY <1>1 DEF Save, Move, Flag, Expunge, ExpungeOn, ExpungeAll, Answer
<1>6. QED
  BY <1>2, <1>3, <1>4, <1>5 DEF Act, Own, Remote

\* A step of r is of no other request.
LEMMA Touches ==
    ASSUME Typed, NEW r \in Requests, Act(r)
    PROVE  \A s \in Requests \ {r} : pc'[s] = pc[s] /\ req'[s] = req[s]
<1>1. PICK l \in Stages, w \in Work :
        pc' = [pc EXCEPT ![r] = l] /\ req' = [req EXCEPT ![r] = w]
  BY ActMoves DEF Typed, Moves
<1>2. QED
  BY <1>1 DEF Typed, WorkTypes

LEMMA AnsweringStep == Typed /\ Answering /\ [Next]_vars => Answering'
<1> SUFFICES ASSUME Typed, Answering, [Next]_vars
             PROVE  Answering'
  OBVIOUS
<1>1. CASE UNCHANGED <<pc, req, queue, requests>>
  BY <1>1 DEF Answering, Rendered
<1>2. ASSUME NEW r \in Requests, Act(r)
      PROVE  Answering'
  <2>1. queue \subseteq queue' /\ requests <= requests' /\ requests' \in Nat
    <3>1. requests \in Nat /\ r \in Nat
      BY BoundAssumption DEF Typed, RestTypes, Requests
    <3>2. QED
      BY <1>2, <3>1, ActQueue, ActRequests
  <2>2. pc[r] = "new" => r <= requests'
    <3>1. ASSUME pc[r] = "new"
          PROVE  Asked(r)
      BY <1>2, <3>1 DEF Act, Own, Remote, Deliver, Unfit, ExpungeFails, GiveUp, Get, Fetch,
                        Recipient, Data, Quit, Save, Move, Flag, Expunge, ExpungeAll
    <3>2. Asked(r) => requests' = r
      BY DEF Asked, Send, Reply, Forward, MoveTo, Delete, Begin
    <3>3. QED
      BY <2>1, <3>1, <3>2
  <2>3. r <= requests'
    <3>1. requests \in Nat /\ r \in Nat
      BY BoundAssumption DEF Typed, RestTypes, Requests
    <3>2. QED
      BY <2>1, <2>2, <3>1 DEF Answering
  <2>4. \A s \in Requests \ {r} : pc'[s] = pc[s] /\ req'[s] = req[s]
    BY <1>2, Touches
  <2>5. \A s \in Requests : pc'[s] # "new" => s <= requests'
    <3>1. requests \in Nat /\ Requests \subseteq Nat
      BY BoundAssumption DEF Typed, RestTypes, Requests
    <3>2. QED
      BY <2>1, <2>3, <2>4, <3>1 DEF Answering
  <2>6. ASSUME pc'[r] \in {"quit", "append"}
        PROVE  \E q \in queue' : q.request = r /\ q.mail = Rendered(req'[r].out)
    <3>1. req'[r] = req[r] /\ req[r] \in Work
      BY <1>2, <2>6, PastData DEF Data, Quit, Go, Typed, WorkTypes
    <3>2. CASE Data(r)
      <4>1. Accepted(r) \in queue' /\ Accepted(r).request = r
            /\ Accepted(r).mail = Rendered(req[r].out)
        BY <3>2 DEF Data, Accepted
      <4>2. QED
        BY <3>1, <4>1
    <3>3. CASE Quit(r)
      BY <2>1, <3>1, <3>3 DEF Quit, Answering
    <3>4. QED
      BY <1>2, <2>6, <3>2, <3>3, PastData
  <2>7. \A s \in Requests : pc'[s] \in {"quit", "append"} =>
           \E q \in queue' : q.request = s /\ q.mail = Rendered(req'[s].out)
    BY <2>1, <2>4, <2>6 DEF Answering
  <2>8. QED
    BY <2>5, <2>7 DEF Answering, Rendered
<1>3. QED
  BY <1>1, <1>2, Acts, OthersStay DEF vars

\* Accepted from one request, which was told so.
Done(by, mail) == \E q \in queue : q.request = by /\ q.mail = mail /\ pc[by] = "ok"

\* Every message is one there was before, maybe elsewhere or marked.
Kept == \A k \in messages' : \E j \in messages : k.by = j.by /\ k.mail = j.mail

LEMMA PutKept == ASSUME NEW m, NEW n, Put(m, n) PROVE Kept
BY DEF Put, Kept

LEMMA MarksKept == ASSUME NEW at, Marks(at) PROVE Kept
BY PutKept DEF Marks, Kept

LEMMA CarriesKept == ASSUME NEW at, NEW dest, Carries(at, dest) PROVE Kept
BY PutKept DEF Carries, Kept

LEMMA SentStep == Typed /\ Answering /\ SentIsQueued /\ [Next]_vars => SentIsQueued'
<1> SUFFICES ASSUME Typed, Answering, SentIsQueued, [Next]_vars
             PROVE  SentIsQueued'
  OBVIOUS
<1>1. Answering' /\ Typed'
  BY AnsweringStep, TypedStep
<1>2. \A r \in Requests : pc'[r] \in {"quit", "append"} => \E q \in queue' : q.request = r
  BY <1>1 DEF Answering
<1>3. \A m \in messages : m.by # 0 => Done(m.by, m.mail)
  BY DEF SentIsQueued, Done
\* An answered request stays answered, and the queue grows.
<1>4. \A by, mail : Done(by, mail) => Done(by, mail)'
  <2>1. CASE UNCHANGED <<pc, queue>>
    BY <2>1 DEF Done
  <2>2. ASSUME NEW r \in Requests, Act(r)
        PROVE  \A by, mail : Done(by, mail) => Done(by, mail)'
    <3>1. queue \subseteq queue'
      BY <2>2, ActQueue
    <3>2. pc[r] # "ok"
      <4>1. CASE Asked(r)
        <5>1. r = requests + 1 /\ requests \in Nat
          <6>1. requests \in Nat
            BY BoundAssumption DEF Typed, RestTypes
          <6>2. r = requests + 1
            BY <4>1 DEF Asked, Send, Reply, Forward, MoveTo, Delete, Begin
          <6>3. QED
            BY <6>1, <6>2
        <5>2. ~ (r <= requests)
          BY <5>1
        <5>3. QED
          BY <5>2 DEF Answering
      <4>2. CASE Own(r) \/ Remote(r)
        BY <4>2 DEF Own, Remote, Deliver, Unfit, ExpungeFails, GiveUp, Get, Fetch,
                    Recipient, Data, Quit, Save, Move, Flag, Expunge, ExpungeAll
      <4>3. QED
        BY <2>2, <4>1, <4>2 DEF Act
    <3>3. \A s \in Requests \ {r} : pc'[s] = pc[s]
      BY <2>2, Touches
    <3>4. \A q \in queue : q.request \in Requests
      BY DEF Typed, RestTypes, Entries
    <3>5. QED
      BY <3>1, <3>2, <3>3, <3>4 DEF Done
  <2>3. QED
    BY <2>1, <2>2, Acts, OthersStay DEF vars
<1>5. ASSUME \A k \in messages' : k.by # 0 => Done(k.by, k.mail)'
      PROVE  SentIsQueued'
  BY <1>2, <1>5 DEF SentIsQueued, Done
<1>6. CASE Kept
  <2>1. \A k \in messages' : k.by # 0 => Done(k.by, k.mail)'
    BY <1>3, <1>4, <1>6 DEF Kept
  <2>2. QED
    BY <1>5, <2>1
<1>7. ASSUME NEW r \in Requests, Save(r), Adds("Sent", r, Rendered(req[r].out))
      PROVE  SentIsQueued'
  <2>1. PICK q : q \in queue /\ q.request = r /\ q.mail = Rendered(req[r].out)
    BY <1>7 DEF Save, Answering
  <2>2. pc'[r] = "ok" /\ queue' = queue
    BY <1>7 DEF Save, Answer, Typed, WorkTypes
  <2>3. Done(r, q.mail)'
    BY <2>1, <2>2 DEF Done
  <2>4. \A k \in messages' : k \in messages \/ (k.by = r /\ k.mail = q.mail)
    BY <1>7, <2>1 DEF Adds, Message
  <2>5. \A k \in messages' : k.by # 0 => Done(k.by, k.mail)'
    BY <1>3, <1>4, <2>3, <2>4
  <2>6. QED
    BY <1>5, <2>5
<1>8. ASSUME NEW mail, Adds("INBOX", 0, mail)
      PROVE  SentIsQueued'
  <2>1. \A k \in messages' : k \in messages \/ k.by = 0
    BY <1>8 DEF Adds, Message
  <2>2. \A k \in messages' : k.by # 0 => Done(k.by, k.mail)'
    BY <1>3, <1>4, <2>1
  <2>3. QED
    BY <1>5, <2>2
<1>9. CASE messages' \subseteq messages
  BY <1>6, <1>9 DEF Kept
<1>10. FolderTypes /\ WorkTypes
  BY DEF Typed
<1>11. ASSUME NEW r \in Requests, Act(r)
       PROVE  SentIsQueued'
  BY <1>6, <1>7, <1>9, <1>10, <1>11, ActFolders, MarksKept, CarriesKept
<1>12. CASE Others
  BY <1>6, <1>8, <1>9, <1>10, <1>12, OthersFolders, MarksKept
<1>13. CASE UNCHANGED vars
  BY <1>9, <1>13 DEF vars
<1>14. QED
  BY <1>11, <1>12, <1>13, Acts

\* No copy that the webmail saved is of a message that Postfix did not accept or of which
\* the user was not told "ok", though the copy is made in a step of its own, and whatever is
\* moved into Sent or out of it, or deleted, by whomever.
THEOREM SentAlwaysQueued == Spec => []SentIsQueued
<1>1. Init => Answering /\ SentIsQueued
  <2> SUFFICES ASSUME Init
               PROVE  Answering /\ SentIsQueued
    OBVIOUS
  <2>1. \A m \in messages : m.by = 0
    BY DEF Init, Message
  <2>2. QED
    BY <2>1 DEF Init, Answering, SentIsQueued
<1>2. QED
  BY <1>1, AnsweringStep, SentStep, AlwaysTyped, PTL DEF Spec

--------------------------------------------------------------------------------
(* Deleting.                                                                *)

\* A message is gone when none of its birth is left.
LEMMA PutKeeps ==
    ASSUME NEW m, NEW n, Put(m, n), NEW k \in messages
    PROVE  k.born \in Born(messages')
<1>1. CASE k = m
  BY <1>1 DEF Put, Born
<1>2. CASE k # m
  BY <1>2 DEF Put, Born
<1>3. QED
  BY <1>1, <1>2

LEMMA MarksKeep ==
    ASSUME NEW at, Marks(at), NEW k \in messages
    PROVE  k.born \in Born(messages')
<1>1. CASE messages' = messages
  BY <1>1 DEF Born
<1>2. ASSUME NEW m \in Find(at), NEW d \in BOOLEAN, Put(m, [m EXCEPT !.deleted = d])
      PROVE  k.born \in Born(messages')
  <2> DEFINE n == [m EXCEPT !.deleted = d]
  <2>1. Put(m, n)
    BY <1>2
  <2> HIDE DEF n
  <2>2. QED
    BY <2>1, PutKeeps
<1>3. QED
  BY <1>1, <1>2 DEF Marks

LEMMA CarriesKeep ==
    ASSUME NEW at, NEW dest, Carries(at, dest), NEW k \in messages
    PROVE  k.born \in Born(messages')
<1>1. CASE messages' = messages
  BY <1>1 DEF Born
<1>2. ASSUME NEW m \in Find(at), Put(m, Message(dest, next, m.born, m.by, m.deleted, m.mail))
      PROVE  k.born \in Born(messages')
  <2> DEFINE n == Message(dest, next, m.born, m.by, m.deleted, m.mail)
  <2>1. Put(m, n)
    BY <1>2
  <2> HIDE DEF n
  <2>2. QED
    BY <2>1, PutKeeps
<1>3. QED
  BY <1>1, <1>2 DEF Carries

LEMMA RemovalStep ==
    ASSUME Typed, Next, NEW m \in messages, m.born \notin Born(messages')
    PROVE  /\ m.deleted
           /\ \/ pc' = pc
              \/ /\ m.folder = "Trash"
                 /\ \E r \in Requests : \/ pc[r] = "expunge" /\ req[r].at = At(m)
                                        \/ pc[r] = "expunge all"
<1>1. messages' # messages /\ m \notin messages'
  BY DEF Born
<1>2. FolderTypes /\ WorkTypes
  BY DEF Typed
<1>3. \A f, by, mail : ~ Adds(f, by, mail)
  BY <1>1 DEF Adds
<1>4. CASE Others
  BY <1>1, <1>2, <1>3, <1>4, OthersFolders, OthersStay, MarksKeep
<1>5. ASSUME NEW r \in Requests, Expunge(r),
             messages' = messages \ {n \in Find(req[r].at) : n.deleted}
      PROVE  m.deleted /\ m.folder = "Trash" /\ pc[r] = "expunge" /\ req[r].at = At(m)
  <2>1. m \in Find(req[r].at) /\ m.deleted
    BY <1>1, <1>5
  <2>2. pc[r] = "expunge" /\ req[r].at = At(m)
    BY <1>5, <2>1 DEF Expunge, Find
  <2>3. req[r].at.folder = "Trash"
    BY <2>2 DEF Typed, Staged, Stage
  <2>4. QED
    BY <2>1, <2>2, <2>3 DEF At
<1>6. ASSUME NEW r \in Requests, ExpungeAll(r),
             messages' = {n \in messages : ~(n.folder = req[r].at.folder /\ n.deleted)}
      PROVE  m.deleted /\ m.folder = "Trash" /\ pc[r] = "expunge all"
  <2>1. m.folder = req[r].at.folder /\ m.deleted
    BY <1>1, <1>6
  <2>2. pc[r] = "expunge all"
    BY <1>6 DEF ExpungeAll
  <2>3. QED
    BY <2>1, <2>2 DEF Typed, Staged, Stage
<1>7. ASSUME NEW r \in Requests, Act(r)
      PROVE  /\ m.deleted /\ m.folder = "Trash"
             /\ \/ pc[r] = "expunge" /\ req[r].at = At(m)
                \/ pc[r] = "expunge all"
  BY <1>1, <1>2, <1>3, <1>5, <1>6, <1>7, ActFolders, MarksKeep, CarriesKeep
<1>8. QED
  BY <1>4, <1>7, Acts

\* A message is removed for good only when it is marked, and by another client, by the
\* expunge of this very message in Trash, or by the plain EXPUNGE of Trash that follows one
\* that failed: an id is a folder and a UID, and a UID is used once.
THEOREM AlwaysOnlyAskedRemoved == Spec => OnlyAskedRemoved
<1>1. Typed /\ [Next]_vars =>
        [\A m \in messages :
           m.born \notin Born(messages') =>
               /\ m.deleted
               /\ \/ pc' = pc
                  \/ /\ m.folder = "Trash"
                     /\ \E r \in Requests : \/ pc[r] = "expunge" /\ req[r].at = At(m)
                                            \/ pc[r] = "expunge all"]_vars
  BY RemovalStep
<1>2. QED
  BY <1>1, AlwaysTyped, PTL DEF Spec, OnlyAskedRemoved

--------------------------------------------------------------------------------
(* Paging.                                                                  *)

Inbox     == UIDs(In("INBOX"))
Behind(u) == {v \in Inbox : v > u}

\* Messages are as many as their UIDs, and those are finitely many.
LEMMA CountByUID ==
    ASSUME FolderTypes, NEW T \in SUBSET messages
    PROVE  /\ IsFiniteSet(T) /\ IsFiniteSet(UIDs(T))
           /\ Cardinality(T) = Cardinality(UIDs(T))
<1>1. UIDs(T) \in SUBSET Nat /\ next \in Nat /\ \A u \in UIDs(T) : u <= next
  BY DEF FolderTypes, Stored, UIDs
<1>2. IsFiniteSet(UIDs(T))
  BY <1>1, FS_BoundedSetOfNaturals
<1> DEFINE f == [m \in T |-> m.uid]
<1>3. f \in [T -> UIDs(T)]
  BY DEF UIDs
<1>4. \A m, n \in T : f[m] = f[n] => m = n
  BY DEF FolderTypes
<1>5. \A u \in UIDs(T) : \E m \in T : f[m] = u
  BY DEF UIDs
<1> HIDE DEF f
<1>6. f \in Injection(T, UIDs(T)) /\ f \in Surjection(T, UIDs(T))
  BY <1>3, <1>4, <1>5 DEF Injection, IsInjective, Surjection
<1>7. QED
  BY <1>2, <1>6, FS_Injection

\* How many are newer: fewer than there are, and counted by UID.
LEMMA Place ==
    ASSUME FolderTypes, NEW m \in In("INBOX")
    PROVE  /\ Newer(m) = Cardinality(Behind(m.uid))
           /\ Newer(m) \in Nat /\ Cardinality(In("INBOX")) \in Nat
           /\ Newer(m) < Cardinality(In("INBOX"))
<1> DEFINE T == {n \in In("INBOX") : n.uid > m.uid}
<1>1. T \in SUBSET messages /\ T \in SUBSET In("INBOX") /\ In("INBOX") \in SUBSET messages
  BY DEF In
<1>2. UIDs(T) = Behind(m.uid)
  BY DEF UIDs, Behind, Inbox
<1>3. Newer(m) = Cardinality(T)
  BY DEF Newer, In
<1>4. m \in In("INBOX") /\ m \notin T
  <2>1. m.uid \in Nat
    BY <1>1 DEF FolderTypes, Stored
  <2>2. QED
    BY <2>1
<1> HIDE DEF T
<1>5. IsFiniteSet(In("INBOX")) /\ Cardinality(T) = Cardinality(UIDs(T))
  BY <1>1, CountByUID
<1>6. /\ Cardinality(T) \in Nat /\ Cardinality(In("INBOX")) \in Nat
      /\ Cardinality(T) <= Cardinality(In("INBOX"))
      /\ Cardinality(T) # Cardinality(In("INBOX"))
  <2>1. /\ IsFiniteSet(T) /\ Cardinality(T) <= Cardinality(In("INBOX"))
        /\ Cardinality(In("INBOX")) = Cardinality(T) => In("INBOX") = T
    BY <1>1, <1>5, FS_Subset
  <2>2. Cardinality(T) \in Nat /\ Cardinality(In("INBOX")) \in Nat
    BY <1>5, <2>1, FS_CardinalityType
  <2>3. QED
    BY <1>4, <2>1, <2>2
<1>7. QED
  BY <1>2, <1>3, <1>5, <1>6

\* What a page that begins at o or earlier leaves out lies behind the next cursor.
LEMMA NextPage ==
    ASSUME FolderTypes, NEW o \in Nat, NEW u \in Inbox, Cardinality(Behind(u)) >= o,
           u \notin UIDs(Page(o))
    PROVE  Cursor(o) # 0 /\ Cardinality(Behind(u)) >= Cursor(o)
<1>1. PICK m \in In("INBOX") : m.uid = u
  BY DEF Inbox, UIDs
<1>2. m \notin Page(o)
  BY <1>1 DEF UIDs
<1>3. Newer(m) \notin o..(o + PageSize - 1)
  BY <1>2 DEF Page
<1>4. /\ Newer(m) = Cardinality(Behind(u)) /\ Newer(m) \in Nat
      /\ Cardinality(In("INBOX")) \in Nat /\ Newer(m) < Cardinality(In("INBOX"))
  BY <1>1, Place
<1>5. PageSize \in Nat \ {0}
  BY BoundAssumption
<1>6. Newer(m) >= o + PageSize
  BY <1>3, <1>4, <1>5
<1>7. Cursor(o) = o + PageSize
  BY <1>4, <1>5, <1>6 DEF Cursor
<1>8. QED
  BY <1>4, <1>5, <1>6, <1>7

\* While it is calm, a listing has shown what it began with, but for what is as far from
\* the newest as its cursor.
Paged ==
    list.calm =>
        /\ list.start \subseteq Inbox
        /\ \A u \in list.start \ list.shown :
              list.cursor # 0 /\ Cardinality(Behind(u)) >= list.cursor

\* Nothing has left INBOX that a calm listing could miss.
Undisturbed ==
    /\ list'.start = list.start /\ list'.shown = list.shown /\ list'.cursor = list.cursor
    /\ list'.calm => list.calm /\ Inbox \subseteq Inbox'

LEMMA BecomeUndisturbed == ASSUME Typed, NEW S, Become(S) PROVE Undisturbed
<1>1. messages' = S
  BY DEF Become
<1> DEFINE c == list.calm /\ Inbox \subseteq UIDs({m \in S : m.folder = "INBOX"})
<1>2. list' = [list EXCEPT !.calm = c] /\ list \in Listing
  BY DEF Become, Typed, RestTypes, Inbox
<1>3. /\ list'.start = list.start /\ list'.shown = list.shown /\ list'.cursor = list.cursor
      /\ list'.calm = c
  BY <1>2 DEF Listing
<1>4. Inbox' = UIDs({m \in S : m.folder = "INBOX"})
  BY <1>1 DEF Inbox, In, UIDs
<1>5. QED
  BY <1>3, <1>4 DEF Undisturbed

\* A mark moves nothing.
LEMMA MarksUndisturbed ==
    ASSUME Typed, NEW at, Marks(at), list' = list
    PROVE  Undisturbed
<1>1. Inbox \subseteq Inbox'
  <2>1. CASE messages' = messages
    BY <2>1 DEF Inbox, In, UIDs
  <2>2. ASSUME NEW m \in Find(at), NEW d \in BOOLEAN, Put(m, [m EXCEPT !.deleted = d])
        PROVE  Inbox \subseteq Inbox'
    <3> DEFINE n == [m EXCEPT !.deleted = d]
    <3>1. m \in Stored /\ m \in messages
      BY DEF Find, Typed, FolderTypes
    <3>2. n.folder = m.folder /\ n.uid = m.uid /\ messages' = (messages \ {m}) \cup {n}
      BY <2>2, <3>1, MarkedFacts DEF Put
    <3> HIDE DEF n
    <3>3. ASSUME NEW k \in messages, k.folder = "INBOX"
          PROVE  k.uid \in Inbox'
      <4>1. CASE k = m
        BY <3>2, <3>3, <4>1 DEF Inbox, In, UIDs
      <4>2. CASE k # m
        BY <3>2, <3>3, <4>2 DEF Inbox, In, UIDs
      <4>3. QED
        BY <4>1, <4>2
    <3>4. QED
      BY <3>3 DEF Inbox, In, UIDs
  <2>3. QED
    BY <2>1, <2>2 DEF Marks
<1>2. QED
  BY <1>1 DEF Undisturbed

LEMMA PagedStep == Typed /\ Paged /\ [Next]_vars => Paged'
<1> SUFFICES ASSUME Typed, Paged, [Next]_vars
             PROVE  Paged'
  OBVIOUS
<1>1. FolderTypes /\ FolderTypes' /\ list \in Listing
  BY TypedStep DEF Typed, RestTypes
<1>2. CASE FirstPage
  <2>1. /\ list'.shown = UIDs(Page(0)) /\ list'.cursor = Cursor(0) /\ list'.start = Inbox
        /\ messages' = messages
    BY <1>2 DEF FirstPage, Inbox
  <2>2. Inbox' = Inbox /\ \A u : Behind(u)' = Behind(u)
    BY <2>1 DEF Inbox, Behind, In, UIDs
  <2>3. \A u \in Inbox : Cardinality(Behind(u)) >= 0
    <3>1. ASSUME NEW u \in Inbox
          PROVE  Cardinality(Behind(u)) \in Nat
      <4>1. PICK m \in In("INBOX") : m.uid = u
        BY DEF Inbox, UIDs
      <4>2. QED
        BY <1>1, <4>1, Place
    <3>2. QED
      BY <3>1
  <2>4. \A u \in Inbox \ UIDs(Page(0)) :
          Cursor(0) # 0 /\ Cardinality(Behind(u)) >= Cursor(0)
    BY <1>1, <2>3, NextPage
  <2>5. QED
    BY <2>1, <2>2, <2>4 DEF Paged
<1>3. CASE MorePages
  <2>1. list' = [list EXCEPT !.shown = list.shown \cup UIDs(Page(list.cursor)),
                             !.cursor = Cursor(list.cursor)]
    BY <1>3 DEF MorePages
  <2>2. /\ list'.shown = list.shown \cup UIDs(Page(list.cursor))
        /\ list'.cursor = Cursor(list.cursor)
        /\ list'.start = list.start /\ list'.calm = list.calm /\ list.cursor \in Nat
    BY <1>1, <2>1 DEF Listing
  <2>3. Inbox' = Inbox /\ \A u : Behind(u)' = Behind(u)
    BY <1>3 DEF MorePages, Inbox, Behind, In, UIDs
  <2>4. ASSUME list.calm, NEW u \in list.start \ list'.shown
        PROVE  Cursor(list.cursor) # 0 /\ Cardinality(Behind(u)) >= Cursor(list.cursor)
    <3>1. /\ u \in Inbox /\ Cardinality(Behind(u)) >= list.cursor
          /\ u \notin UIDs(Page(list.cursor))
      BY <2>2, <2>4 DEF Paged
    <3>2. QED
      BY <1>1, <2>2, <3>1, NextPage
  <2>5. QED
    BY <2>2, <2>3, <2>4 DEF Paged
<1>4. CASE Undisturbed
  <2>1. SUFFICES ASSUME list'.calm
                 PROVE  /\ list.start \subseteq Inbox'
                        /\ \A u \in list.start \ list.shown :
                              list.cursor # 0 /\ Cardinality(Behind(u)') >= list.cursor
    BY <1>4 DEF Paged, Undisturbed
  <2>2. list.calm /\ Inbox \subseteq Inbox'
    BY <1>4, <2>1 DEF Undisturbed
  <2>3. \A u : Behind(u)' \in SUBSET Inbox' /\ Behind(u) \in SUBSET (Behind(u)')
    BY <2>2 DEF Behind
  <2>4. IsFiniteSet(Inbox')
    <3>1. In("INBOX")' \in SUBSET messages'
      BY DEF In
    <3>2. UIDs(In("INBOX"))' \in SUBSET Nat /\ next' \in Nat
          /\ \A u \in UIDs(In("INBOX"))' : u <= next'
      BY <1>1, <3>1 DEF FolderTypes, Stored, UIDs
    <3>3. QED
      BY <3>2, FS_BoundedSetOfNaturals DEF Inbox
  <2>5. \A u : /\ IsFiniteSet(Behind(u)') /\ Cardinality(Behind(u)') \in Nat
               /\ Cardinality(Behind(u)) <= Cardinality(Behind(u)')
               /\ Cardinality(Behind(u)) \in Nat
    <3>1. ASSUME NEW u
          PROVE  /\ IsFiniteSet(Behind(u)') /\ Cardinality(Behind(u)') \in Nat
                 /\ Cardinality(Behind(u)) <= Cardinality(Behind(u)')
                 /\ Cardinality(Behind(u)) \in Nat
      <4>1. IsFiniteSet(Behind(u)')
        BY <2>3, <2>4, FS_Subset
      <4>2. IsFiniteSet(Behind(u)) /\ Cardinality(Behind(u)) <= Cardinality(Behind(u)')
        BY <2>3, <4>1, FS_Subset
      <4>3. QED
        BY <4>1, <4>2, FS_CardinalityType
    <3>2. QED
      BY <3>1
  <2>6. ASSUME NEW u \in list.start \ list.shown
        PROVE  list.cursor # 0 /\ Cardinality(Behind(u)') >= list.cursor
    <3>1. /\ list.cursor # 0 /\ Cardinality(Behind(u)) >= list.cursor
          /\ list.cursor \in Nat
      BY <1>1, <2>2 DEF Paged, Listing
    <3>2. QED
      BY <2>5, <3>1
  <2>7. QED
    BY <2>2, <2>6 DEF Paged
<1>5. CASE UNCHANGED <<messages, list>>
  <2>1. Undisturbed
    BY <1>5 DEF Undisturbed, Inbox, In, UIDs
  <2>2. QED
    BY <1>4, <2>1
<1>6. CASE Arrive \/ OtherExpunges
  <2>1. Undisturbed
    BY <1>6, BecomeUndisturbed DEF Arrive, OtherExpunges
  <2>2. QED
    BY <1>4, <2>1
<1>7. CASE OtherFlags
  <2>1. Undisturbed
    BY <1>1, <1>7, OtherFlagsMarks, MarksUndisturbed DEF OtherFlags
  <2>2. QED
    BY <1>4, <2>1
<1>8. ASSUME NEW r \in Requests, Act(r)
      PROVE  Paged'
  <2>1. CASE Asked(r)
    BY <1>5, <2>1 DEF Asked, Send, Reply, Forward, MoveTo, Delete, Begin
  <2>2. CASE Own(r)
    BY <1>5, <2>2 DEF Own, Deliver, Unfit, ExpungeFails, GiveUp, Go
  <2>3. CASE Get(r) \/ Fetch(r)
    BY <1>5, <2>3 DEF Get, Fetch, Collect, Go
  <2>4. CASE Recipient(r) \/ Data(r) \/ Quit(r)
    BY <1>5, <2>4 DEF Recipient, Data, Quit, Go
  <2>5. CASE Save(r) \/ Move(r) \/ Expunge(r) \/ ExpungeAll(r)
    <3>1. Undisturbed
      BY <2>5, BecomeUndisturbed DEF Save, Move, Expunge, ExpungeAll
    <3>2. QED
      BY <1>4, <3>1
  <2>6. CASE Flag(r)
    <3>1. Undisturbed
      BY <1>1, <2>6, FlagMarks, MarksUndisturbed DEF Flag
    <3>2. QED
      BY <1>4, <3>1
  <2>7. QED
    BY <1>8, <2>1, <2>2, <2>3, <2>4, <2>5, <2>6 DEF Act, Remote
<1>9. QED
  BY <1>2, <1>3, <1>5, <1>6, <1>7, <1>8, Acts DEF vars, Others

\* Paging to the end shows all there was at the beginning, for any size of page and any
\* number of messages, whatever arrives between two pages.
THEOREM PagesAlwaysMissNothing == Spec => []PagesMissNothing
<1>1. Init => Paged
  BY DEF Init, Paged
<1>2. Paged => PagesMissNothing
  BY DEF Paged, PagesMissNothing
<1>3. QED
  BY <1>1, <1>2, PagedStep, AlwaysTyped, PTL DEF Spec

--------------------------------------------------------------------------------
(* Sending is a Submission.                                                 *)

SendStages  == {"get", "fetch", "deliver", "rcpt", "data", "quit", "append"}
OtherStages == {"move", "flag", "expunge", "expunge all"}

\* Letters alone are sent, and what is in the queue is of a letter past DATA.
Lettered ==
    /\ \A r \in Requests : /\ pc[r] \in SendStages => IsLetter(req[r])
                           /\ pc[r] \in OtherStages \cup {"new"} => ~IsLetter(req[r])
    /\ \A q \in queue : /\ pc[q.request] \in {"quit", "append", "ok", "error"}
                        /\ IsLetter(req[q.request])

\* A step of r, as far as sending goes: it begins, gets on, hands the letter over, or
\* answers; or it is about another kind of request.
Begins(r) ==
    /\ pc[r] = "new" /\ UNCHANGED queue
    /\ \/ pc'[r] \in SendStages \ {"quit", "append"} /\ IsLetter(req'[r])
       \/ pc'[r] \in OtherStages /\ ~IsLetter(req'[r])
GetsOn(r) ==
    /\ pc[r] \in SendStages /\ UNCHANGED queue
    /\ pc'[r] \in SendStages /\ IsLetter(req'[r])
    /\ pc[r] \in {"quit", "append"} <=> pc'[r] \in {"quit", "append"}
HandsOver(r) ==
    /\ pc[r] = "data" /\ queue' = queue \cup {Accepted(r)}
    /\ pc'[r] = "quit" /\ req'[r] = req[r]
Marking(r) ==
    /\ pc[r] \in OtherStages /\ UNCHANGED queue
    /\ pc'[r] \in OtherStages /\ req'[r] = req[r]
Answers(r) ==
    /\ pc[r] \in SendStages \cup OtherStages /\ UNCHANGED queue
    /\ pc'[r] \in {"ok", "error"} /\ IsLetter(req'[r]) = IsLetter(req[r])
    /\ pc[r] \in SendStages /\ pc'[r] = "ok" => pc[r] = "append"

\* The kind of a request stays, or becomes that of a message to deliver.
LEMMA KindFacts ==
    /\ ~IsLetter(Nothing) /\ Nothing \in Work
    /\ \A form \in Form, parts \in SUBSET Parts :
         /\ Letters(form, parts) \in Work /\ Letters(form, parts).kind = "deliver"
    /\ \A w \in Work : [Nothing EXCEPT !.kind = w.kind].kind = w.kind
<1>1. Nothing \in Work
  BY WorkFacts
<1>2. Nothing.kind = "none"
  BY DEF Nothing
<1>3. \A form \in Form, parts \in SUBSET Parts :
         /\ Letters(form, parts) \in Work /\ Letters(form, parts).kind = "deliver"
  <2>1. \A form \in Form, parts \in SUBSET Parts : Letters(form, parts) \in Work
    BY WorkFacts
  <2>2. \A form, parts : Letters(form, parts).kind = "deliver"
    BY <1>1 DEF Letters, Work
  <2>3. QED
    BY <2>1, <2>2
<1>4. \A w \in Work : [Nothing EXCEPT !.kind = w.kind].kind = w.kind
  BY <1>1 DEF Work
<1>5. QED
  BY <1>1, <1>2, <1>3, <1>4 DEF IsLetter

\* Where a step leads.
LEMMA Leads ==
    ASSUME Typed, NEW r \in Requests
    PROVE  /\ \A l, w : Go(r, l, w) => pc'[r] = l /\ req'[r] = w
           /\ \A l, w : Begin(r, l, w) => pc'[r] = l /\ req'[r] = w /\ UNCHANGED queue
           /\ \A a : Answer(r, a) => pc'[r] = a /\ req'[r].kind = req[r].kind
<1>1. pc \in [Requests -> Stages] /\ req \in [Requests -> Work]
  BY DEF Typed, WorkTypes
<1>2. \A l : pc' = [pc EXCEPT ![r] = l] => pc'[r] = l
  BY <1>1
<1>3. \A w : req' = [req EXCEPT ![r] = w] => req'[r] = w
  BY <1>1
<1>4. [Nothing EXCEPT !.kind = req[r].kind].kind = req[r].kind
  BY <1>1, KindFacts
<1>5. \A a : Answer(r, a) => pc'[r] = a /\ req'[r].kind = req[r].kind
  BY <1>2, <1>3, <1>4 DEF Answer
<1>6. QED
  BY <1>2, <1>3, <1>5 DEF Go, Begin

LEMMA AskedBegins ==
    ASSUME Typed, Answering, NEW r \in Requests, Asked(r)
    PROVE  Begins(r)
<1>1. pc[r] = "new"
  <2>1. r = requests + 1
    BY DEF Asked, Send, Reply, Forward, MoveTo, Delete, Begin
  <2>2. requests \in Nat
    BY BoundAssumption DEF Typed, RestTypes
  <2>3. ~ (r <= requests)
    BY <2>1, <2>2
  <2>4. QED
    BY <2>3 DEF Answering
<1>2. CASE Send(r)
  <2>1. PICK form \in Forms, parts \in {{}, Parts} : Begin(r, "deliver", Letters(form, parts))
    BY <1>2 DEF Send
  <2>2. Letters(form, parts).kind = "deliver"
    BY <2>1, KindFacts, MailAssumption
  <2>3. QED
    BY <1>1, <2>1, <2>2, Leads DEF Begins, IsLetter, SendStages
<1>3. CASE Reply(r)
  <2>1. PICK m \in messages, all \in BOOLEAN :
          Begin(r, "get", [Nothing EXCEPT !.kind = "reply", !.at = At(m), !.all = all])
    BY <1>3 DEF Reply
  <2> DEFINE w == [Nothing EXCEPT !.kind = "reply", !.at = At(m), !.all = all]
  <2>2. w.kind = "reply"
    BY DEF Nothing
  <2>3. Begin(r, "get", w)
    BY <2>1
  <2> HIDE DEF w
  <2>4. pc'[r] = "get" /\ req'[r].kind = "reply" /\ UNCHANGED queue
    BY <2>2, <2>3, Leads
  <2>5. QED
    BY <1>1, <2>4 DEF Begins, IsLetter, SendStages
<1>4. CASE Forward(r)
  <2>1. PICK m \in messages, form \in Forms :
          Begin(r, "get", [Nothing EXCEPT !.kind = "forward", !.at = At(m), !.form = form])
    BY <1>4 DEF Forward
  <2> DEFINE w == [Nothing EXCEPT !.kind = "forward", !.at = At(m), !.form = form]
  <2>2. w.kind = "forward"
    BY DEF Nothing
  <2>3. Begin(r, "get", w)
    BY <2>1
  <2> HIDE DEF w
  <2>4. pc'[r] = "get" /\ req'[r].kind = "forward" /\ UNCHANGED queue
    BY <2>2, <2>3, Leads
  <2>5. QED
    BY <1>1, <2>4 DEF Begins, IsLetter, SendStages
<1>5. ASSUME NEW l \in {"flag", "move"}, NEW w, w.kind \in {"move", "delete"}, Begin(r, l, w)
      PROVE  Begins(r)
  <2>1. pc'[r] = l /\ req'[r].kind \in {"move", "delete"} /\ UNCHANGED queue
    BY <1>5, Leads
  <2>2. QED
    BY <1>1, <2>1 DEF Begins, IsLetter, OtherStages
<1>6. ASSUME NEW at, Begin(r, "flag", [Nothing EXCEPT !.kind = "delete", !.at = at])
      PROVE  Begins(r)
  <2> DEFINE w == [Nothing EXCEPT !.kind = "delete", !.at = at]
  <2>1. w.kind = "delete" /\ Begin(r, "flag", w)
    BY <1>6 DEF Nothing
  <2> HIDE DEF w
  <2>2. QED
    BY <1>5, <2>1
<1>7. ASSUME NEW at, NEW f,
             Begin(r, "move", [Nothing EXCEPT !.kind = "move", !.at = at, !.dest = f])
      PROVE  Begins(r)
  <2> DEFINE w == [Nothing EXCEPT !.kind = "move", !.at = at, !.dest = f]
  <2>1. w.kind = "move" /\ Begin(r, "move", w)
    BY <1>7 DEF Nothing
  <2> HIDE DEF w
  <2>2. QED
    BY <1>5, <2>1
<1>8. CASE Delete(r) \/ MoveTo(r)
  BY <1>6, <1>7, <1>8 DEF Delete, MoveTo
<1>9. QED
  BY <1>2, <1>3, <1>4, <1>8 DEF Asked

LEMMA CollectGetsOn ==
    ASSUME Typed, NEW r \in Requests, NEW w \in Work, Collect(r, w), IsLetter(w)
    PROVE  pc'[r] \in {"fetch", "deliver"} /\ IsLetter(req'[r])
<1>1. CASE w.left # {}
  BY <1>1, Leads DEF Collect
<1>2. CASE w.left = {}
  <2> DEFINE v == [Letters(w.form, w.out.parts) EXCEPT !.parts = w.parts]
  <2>1. pc'[r] = "deliver" /\ req'[r] = v
    BY <1>2, Leads DEF Collect
  <2>2. w.form \in Form /\ w.out.parts \in SUBSET Parts
    BY DEF Work
  <2>3. Letters(w.form, w.out.parts) \in Work /\ Letters(w.form, w.out.parts).kind = "deliver"
    BY <2>2, KindFacts
  <2>4. v.kind = "deliver"
    BY <2>3 DEF Work
  <2>5. QED
    BY <2>1, <2>4 DEF IsLetter
<1>3. QED
  BY <1>1, <1>2

LEMMA GatheringGetsOn ==
    ASSUME Typed, Lettered, NEW r \in Requests, Get(r) \/ Fetch(r)
    PROVE  GetsOn(r)
<1>1. /\ pc[r] \in {"get", "fetch"} /\ UNCHANGED queue
      /\ req[r] \in Work /\ IsLetter(req[r])
  BY DEF Get, Fetch, Typed, WorkTypes, Lettered, SendStages
<1>2. pc'[r] \in {"fetch", "deliver"} /\ IsLetter(req'[r])
  <2>1. ASSUME NEW m \in messages,
               Collect(r, [req[r] EXCEPT !.parts = m.mail.parts, !.left = m.mail.parts])
        PROVE  pc'[r] \in {"fetch", "deliver"} /\ IsLetter(req'[r])
    <3> DEFINE w == [req[r] EXCEPT !.parts = m.mail.parts, !.left = m.mail.parts]
    <3>1. m.mail.parts \in SUBSET Parts
      BY DEF Typed, FolderTypes, Stored, Mail
    <3>2. w \in Work /\ w.kind = req[r].kind
      BY <1>1, <3>1 DEF Work
    <3>3. Collect(r, w)
      BY <2>1
    <3> HIDE DEF w
    <3>4. QED
      BY <1>1, <3>2, <3>3, CollectGetsOn DEF IsLetter
  <2>2. ASSUME NEW m \in messages, NEW form \in {ReplyForm(m.mail, req[r].all)} \cup Forms,
               Go(r, "deliver", Letters(form, {}))
        PROVE  pc'[r] \in {"fetch", "deliver"} /\ IsLetter(req'[r])
    <3>1. m.mail \in Mail
      BY DEF Typed, FolderTypes, Stored
    <3>2. ReplyForm(m.mail, req[r].all) \in Form
      BY <3>1 DEF ReplyForm, ReplyTo, Mail, Form
    <3>3. Letters(form, {}).kind = "deliver"
      BY <3>2, KindFacts, MailAssumption
    <3>4. QED
      BY <2>2, <3>3, Leads DEF IsLetter
  <2>3. CASE Get(r)
    BY <2>1, <2>2, <2>3 DEF Get, Find
  <2>4. CASE Fetch(r)
    <3> DEFINE part == First(req[r].left)
               w == [req[r] EXCEPT !.left = @ \ {part}, !.out.parts = @ \cup {part}]
    <3>1. req[r].left # {} /\ req[r].left \subseteq Parts
      BY <2>4 DEF Fetch, Typed, Staged, Stage
    <3>2. part \in Parts
      BY <3>1 DEF First
    <3>3. Collect(r, w)
      BY <2>4 DEF Fetch
    <3> HIDE DEF part
    <3>4. req[r].out \in Outs
      BY <1>1 DEF Work, Outs
    <3>5. [req[r].out EXCEPT !.parts = @ \cup {part}] \in Outs
      BY <3>2, <3>4 DEF Outs
    <3>6. w \in Work /\ w.kind = req[r].kind
      BY <1>1, <3>2, <3>5 DEF Work, Outs
    <3> HIDE DEF w
    <3>7. QED
      BY <1>1, <3>3, <3>6, CollectGetsOn DEF IsLetter
  <2>5. QED
    BY <2>3, <2>4
<1>3. QED
  BY <1>1, <1>2 DEF GetsOn, SendStages

LEMMA SessionCourse ==
    ASSUME Typed, Lettered, NEW r \in Requests,
           Deliver(r) \/ Recipient(r) \/ Data(r) \/ Quit(r) \/ Flag(r)
           \/ (pc[r] = "expunge" /\ ExpungeOn(r) /\ UNCHANGED queue)
    PROVE  GetsOn(r) \/ HandsOver(r) \/ Marking(r)
<1>1. req[r] \in Work /\ (pc[r] \in SendStages => IsLetter(req[r]))
  BY DEF Typed, WorkTypes, Lettered
<1>2. \A left : [req[r] EXCEPT !.left = left].kind = req[r].kind
  BY <1>1 DEF Work
<1>3. CASE Deliver(r)
  <2> DEFINE w == [req[r] EXCEPT !.left = Envelope(req[r].out)]
  <2>1. Go(r, "rcpt", w) /\ pc[r] = "deliver" /\ UNCHANGED queue
    BY <1>3 DEF Deliver
  <2>2. w.kind = req[r].kind
    BY <1>2
  <2> HIDE DEF w
  <2>3. pc'[r] = "rcpt" /\ req'[r].kind = req[r].kind
    BY <2>1, <2>2, Leads
  <2>4. QED
    BY <1>1, <2>1, <2>3 DEF GetsOn, SendStages, IsLetter
<1>4. CASE Recipient(r)
  <2> DEFINE a == First(req[r].left)
             w == [req[r] EXCEPT !.left = @ \ {a}]
             l == IF req[r].left = {a} THEN "data" ELSE "rcpt"
  <2>1. Go(r, l, w) /\ pc[r] = "rcpt" /\ UNCHANGED queue
    BY <1>4 DEF Recipient
  <2>2. w.kind = req[r].kind
    BY <1>2
  <2> HIDE DEF w
  <2>3. pc'[r] \in {"rcpt", "data"} /\ req'[r].kind = req[r].kind
    BY <2>1, <2>2, Leads
  <2>4. QED
    BY <1>1, <2>1, <2>3 DEF GetsOn, SendStages, IsLetter
<1>5. CASE Data(r)
  BY <1>5, Leads DEF Data, HandsOver, Accepted
<1>6. CASE Quit(r)
  BY <1>1, <1>6, Leads DEF Quit, GetsOn, SendStages
<1>7. CASE Flag(r) \/ (pc[r] = "expunge" /\ ExpungeOn(r) /\ UNCHANGED queue)
  <2>1. /\ pc[r] \in {"flag", "expunge"} /\ pc'[r] \in {"expunge", "expunge all"}
        /\ UNCHANGED <<queue, req>>
    BY <1>7 DEF Flag, ExpungeOn, Typed, WorkTypes
  <2>2. QED
    BY <2>1 DEF Marking, OtherStages
<1>8. QED
  BY <1>3, <1>4, <1>5, <1>6, <1>7

LEMMA AnswerCourse ==
    ASSUME Typed, NEW r \in Requests,
           \/ Unfit(r) \/ GiveUp(r) \/ Save(r) \/ Move(r) \/ ExpungeAll(r)
           \/ Expunge(r) /\ ~ ExpungeOn(r)
    PROVE  Answers(r)
<1>1. pc[r] \in Stages
  BY DEF Typed, WorkTypes
<1>2. PICK a \in {"ok", "error"} :
        /\ Answer(r, a)
        /\ UNCHANGED queue
        /\ pc[r] \notin {"new", "ok", "error"}
        /\ pc[r] \in SendStages /\ a = "ok" => pc[r] = "append"
  BY DEF Unfit, GiveUp, Save, Move, Expunge, ExpungeAll, SendStages
<1>3. pc'[r] = a /\ req'[r].kind = req[r].kind
  BY <1>2, Leads
<1>4. QED
  BY <1>1, <1>2, <1>3 DEF Answers, IsLetter, Stages, SendStages, OtherStages

LEMMA Courses ==
    ASSUME Typed, Answering, Lettered, NEW r \in Requests, Act(r)
    PROVE  Begins(r) \/ GetsOn(r) \/ HandsOver(r) \/ Marking(r) \/ Answers(r)
<1>1. CASE Expunge(r) \/ ExpungeFails(r)
  BY <1>1, SessionCourse, AnswerCourse DEF Expunge, ExpungeFails
<1>2. QED
  BY <1>1, AskedBegins, GatheringGetsOn, SessionCourse, AnswerCourse DEF Act, Own, Remote

LEMMA LetteredStep == Typed /\ Answering /\ Lettered /\ [Next]_vars => Lettered'
<1> SUFFICES ASSUME Typed, Answering, Lettered, [Next]_vars
             PROVE  Lettered'
  OBVIOUS
<1>1. CASE UNCHANGED <<pc, req, queue>>
  BY <1>1 DEF Lettered, IsLetter
<1>2. ASSUME NEW r \in Requests, Act(r)
      PROVE  Lettered'
  <2>1. \A s \in Requests \ {r} : pc'[s] = pc[s] /\ req'[s] = req[s]
    BY <1>2, Touches
  <2>2. \A q \in queue : q.request \in Requests
    BY DEF Typed, RestTypes, Entries
  <2>3. Begins(r) \/ GetsOn(r) \/ HandsOver(r) \/ Marking(r) \/ Answers(r)
    BY <1>2, Courses
  <2>4. /\ pc'[r] \in SendStages => IsLetter(req'[r])
        /\ pc'[r] \in OtherStages \cup {"new"} => ~IsLetter(req'[r])
    BY <2>3 DEF Begins, GetsOn, HandsOver, Marking, Answers, Lettered, SendStages, OtherStages
  <2>5. \A s \in Requests : /\ pc'[s] \in SendStages => IsLetter(req'[s])
                            /\ pc'[s] \in OtherStages \cup {"new"} => ~IsLetter(req'[s])
    BY <2>1, <2>4 DEF Lettered
  <2>6. ASSUME NEW q \in queue
        PROVE  pc'[q.request] \in {"quit", "append", "ok", "error"} /\ IsLetter(req'[q.request])
    <3>1. pc[q.request] \in {"quit", "append", "ok", "error"} /\ IsLetter(req[q.request])
      BY DEF Lettered
    <3>2. CASE q.request # r
      BY <2>1, <2>2, <3>1, <3>2
    <3>3. CASE q.request = r
      BY <2>3, <3>1, <3>3 DEF Begins, GetsOn, HandsOver, Marking, Answers, SendStages, OtherStages
    <3>4. QED
      BY <3>2, <3>3
  <2>7. CASE UNCHANGED queue
    BY <2>5, <2>6, <2>7 DEF Lettered, IsLetter
  <2>8. CASE HandsOver(r)
    <3>1. Accepted(r).request = r /\ pc'[r] = "quit" /\ IsLetter(req'[r])
      BY <2>8 DEF Accepted, HandsOver, Lettered, SendStages
    <3>2. \A q \in queue' : /\ pc'[q.request] \in {"quit", "append", "ok", "error"}
                            /\ IsLetter(req'[q.request])
      BY <2>6, <2>8, <3>1 DEF HandsOver
    <3>3. QED
      BY <2>5, <3>2 DEF Lettered, IsLetter
  <2>9. QED
    BY <2>3, <2>7, <2>8 DEF Begins, GetsOn, Marking, Answers
<1>3. QED
  BY <1>1, <1>2, Acts, OthersStay DEF vars

\* A step that leaves the other requests alone changes what r is told, if anything.
LEMMA ToldBy ==
    ASSUME Typed, NEW r \in Requests, Act(r)
    PROVE  [s \in Requests |-> Told(s)]' = [[s \in Requests |-> Told(s)] EXCEPT ![r] = Told(r)']
<1>1. \A s \in Requests \ {r} : Told(s)' = Told(s)
  BY Touches DEF Told, IsLetter
<1>2. QED
  BY <1>1

LEMMA SubmissionStep ==
    ASSUME Typed, Answering, Lettered, [Next]_vars
    PROVE  [Sending!Next]_<<[r \in Requests |-> Told(r)], queue>>
<1> DEFINE answer == [r \in Requests |-> Told(r)]
<1>1. CASE UNCHANGED <<pc, req, queue>>
  <2>1. \A r \in Requests : Told(r)' = Told(r)
    BY <1>1 DEF Told, IsLetter
  <2>2. answer' = answer
    BY <2>1
  <2>3. QED
    BY <1>1, <2>2
<1>2. ASSUME NEW r \in Requests, Act(r)
      PROVE  Sending!Next \/ UNCHANGED <<answer, queue>>
  <2>1. answer' = [answer EXCEPT ![r] = Told(r)'] /\ answer[r] = Told(r)
    BY <1>2, ToldBy
  <2>2. Told(r)' = Told(r) => answer' = answer
    BY <2>1
  <2>3. CASE Begins(r)
    <3>1. Told(r) = "none" /\ Told(r)' \in {"none", "waiting"}
      BY <2>3 DEF Begins, Told, Lettered, SendStages, OtherStages
    <3>2. Told(r)' = "waiting" => Sending!Ask(r)
      BY <2>1, <2>3, <3>1 DEF Sending!Ask, Sending!Told, Begins
    <3>3. QED
      BY <2>2, <2>3, <3>1, <3>2 DEF Sending!Next, Begins
  <2>4. CASE GetsOn(r) \/ Marking(r)
    <3>1. Told(r)' = Told(r) /\ UNCHANGED queue
      BY <2>4 DEF GetsOn, Marking, Told, Lettered, SendStages, OtherStages
    <3>2. QED
      BY <2>2, <3>1
  <2>5. CASE HandsOver(r)
    <3>1. Told(r) = "waiting" /\ Told(r)' = "waiting"
      BY <2>5 DEF HandsOver, Told, Lettered, SendStages
    <3>2. \A q \in queue : q.request # r
      BY <2>5 DEF HandsOver, Lettered
    <3>3. /\ Accepted(r) \in queue' /\ Accepted(r).request = r
          /\ queue' = queue \cup {Accepted(r)}
      BY <2>5 DEF HandsOver, Accepted
    <3>4. Sending!Accept(r)
      BY <2>1, <2>2, <3>1, <3>2, <3>3 DEF Sending!Accept, Sending!HandedOver
    <3>5. QED
      BY <3>4 DEF Sending!Next
  <2>6. CASE Answers(r)
    <3>1. CASE ~IsLetter(req[r])
      <4>1. Told(r)' = Told(r) /\ UNCHANGED queue
        BY <2>6, <3>1 DEF Answers, Told
      <4>2. QED
        BY <2>2, <4>1
    <3>2. CASE IsLetter(req[r])
      <4>1. pc[r] \in SendStages /\ Told(r) = "waiting" /\ Told(r)' = pc'[r] /\ UNCHANGED queue
        BY <2>6, <3>2 DEF Answers, Told, Lettered, SendStages, OtherStages
      <4>2. CASE pc'[r] = "error"
        BY <2>1, <4>1, <4>2 DEF Sending!Fail, Sending!Told, Sending!Next
      <4>3. CASE pc'[r] = "ok"
        <5>1. \E q \in queue : q.request = r
          BY <2>6, <4>1, <4>3 DEF Answers, Answering
        <5>2. QED
          BY <2>1, <4>1, <4>3, <5>1
             DEF Sending!Confirm, Sending!HandedOver, Sending!Told, Sending!Next
      <4>4. QED
        BY <2>6, <4>2, <4>3 DEF Answers
    <3>3. QED
      BY <3>1, <3>2
  <2>7. QED
    BY <1>2, <2>3, <2>4, <2>5, <2>6, Courses
<1>3. QED
  BY <1>1, <1>2, Acts, OthersStay DEF vars

\* Webmail implements Submission: a letter is handed over once and while its user waits,
\* "ok" is said of nothing that Postfix does not have, for any number of requests and
\* wherever a session breaks off.
THEOREM ImplementsSubmission == Spec => FollowsSubmission
<1>1. Init => Answering /\ Lettered
  BY KindFacts DEF Init, Answering, Lettered, SendStages
<1>2. Init => Sending!Init
  BY KindFacts DEF Init, Sending!Init, Told
<1>3. QED
  BY <1>1, <1>2, AlwaysTyped, AnsweringStep, LetteredStep, SubmissionStep, PTL
     DEF Spec, FollowsSubmission, Sending!Spec

--------------------------------------------------------------------------------
(* Replying.                                                                *)

\* A reply to all reaches everyone on the message but the mailbox itself, and nobody
\* twice, whoever sent it and wherever it asks to be answered (reply).
THEOREM RepliesReachAll ==
    \A mail \in Mail : mail.from \cup mail.replyTo # {} => Answerable(mail)
<1> SUFFICES ASSUME NEW mail \in Mail, mail.from \cup mail.replyTo # {}
             PROVE  Answerable(mail)
  OBVIOUS
<1> DEFINE one == ReplyForm(mail, FALSE)
           all == ReplyForm(mail, TRUE)
<1>1. /\ one.to = ReplyTo(mail) /\ one.cc = {} /\ one.bcc = {}
      /\ all.to = ReplyTo(mail) /\ all.bcc = {}
      /\ all.cc = (mail.to \cup mail.cc) \ (ReplyTo(mail) \cup {Me})
  BY DEF ReplyForm
<1> HIDE DEF one, all
<1>2. Envelope(one) = ReplyTo(mail) /\ Envelope(all) = ReplyTo(mail) \cup all.cc
  BY <1>1 DEF Envelope
<1>3. ReplyTo(mail) # {} /\ (mail.replyTo = {} => ReplyTo(mail) = mail.from)
  BY DEF ReplyTo
<1>4. /\ one.to # {} /\ Envelope(one) = all.to /\ all.to \cap all.cc = {}
      /\ Me \notin all.cc
      /\ (mail.to \cup mail.cc) \ {Me} \subseteq Envelope(all)
      /\ mail.replyTo = {} => mail.from \subseteq Envelope(all)
  BY <1>1, <1>2, <1>3
<1>5. QED
  BY <1>4 DEF Answerable, one, all
================================================================================
