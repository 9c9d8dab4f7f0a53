------------------------------- MODULE Webmail -------------------------------
(***************************************************************************)
(* What the webmail does with mail: sending, replying and forwarding       *)
(* (mailapi/send, compose, smtpclient), and listing, moving and deleting   *)
(* (mailapi, imapclient/dovecot).  Postfix and Dovecot are outside: they   *)
(* answer when they like, refuse what they like, and hang.  Other IMAP     *)
(* clients work on the same folders, and mail arrives.                     *)
(*                                                                         *)
(* Addresses are compared in lower case, as the code does.  A message is   *)
(* whom it names and what is attached; text and sizes are left out.        *)
(***************************************************************************)
EXTENDS Naturals, Sequences, FiniteSets

CONSTANTS
    Addresses,      \* mail addresses
    Me,             \* the address of this mailbox
    Parts,          \* attachments
    Arriving,       \* mail that arrives
    Forms,          \* what a user may fill in
    PageSize,       \* messages in a page
    AtStart,        \* the folders of the messages there are at the start
    MaxRequests,    \* bound: requests served
    MaxOutside      \* bound: steps of others

Folders == {"INBOX", "Sent", "Trash"}
Mail    == [from : SUBSET Addresses, replyTo : SUBSET Addresses,
            to : SUBSET Addresses, cc : SUBSET Addresses, parts : SUBSET Parts]
Form    == [to : SUBSET Addresses, cc : SUBSET Addresses, bcc : SUBSET Addresses]

Requests == 1..MaxRequests

ASSUME AddressAssumption == Me \in Addresses
ASSUME MailAssumption == Arriving \subseteq Mail /\ Forms \subseteq Form
ASSUME BoundAssumption ==
    /\ PageSize \in Nat \ {0} /\ AtStart \in Seq(Folders)
    /\ MaxRequests \in Nat /\ MaxOutside \in Nat

VARIABLES
    messages,       \* what the folders hold
    next,           \* the number the next message, or the next copy of one, gets
    queue,          \* what Postfix has accepted from the webmail
    pc,             \* pc[r]: where the goroutine of request r is, or its answer
    req,            \* req[r]: what it works on
    list,           \* the INBOX listing a browser pages through
    requests,       \* requests so far
    outside         \* steps of others so far

vars == <<messages, next, queue, pc, req, list, requests, outside>>

--------------------------------------------------------------------------------
(* Folders.  A message id is a folder and a UID (encodeMessageID); a moved  *)
(* message gets a new UID and stays, for the properties, the one born as it *)
(* was, and saved by the request that saved it: 0 is nobody's.              *)

At(m)    == [folder |-> m.folder, uid |-> m.uid]
In(f)    == {m \in messages : m.folder = f}
Find(at) == {m \in messages : At(m) = at}
Born(S)  == {m.born : m \in S}
UIDs(S)  == {m.uid : m \in S}

Message(f, uid, born, by, deleted, mail) ==
    [folder |-> f, uid |-> uid, born |-> born, by |-> by, deleted |-> deleted,
     mail |-> mail]

\* The listing is calm while nothing it started from, or that came since, has left.
Become(S) ==
    /\ messages' = S
    /\ list' = [list EXCEPT !.calm =
                  @ /\ UIDs(In("INBOX")) \subseteq UIDs({m \in S : m.folder = "INBOX"})]

IsTrash(f)        == f = "Trash"    \* RoleForFolderName

--------------------------------------------------------------------------------
(* Messages.                                                                *)

Letter(form, parts) == [to |-> form.to, cc |-> form.cc, bcc |-> form.bcc, parts |-> parts]
Blank    == [to |-> {}, cc |-> {}, bcc |-> {}]
NoLetter == Letter(Blank, {})

\* AllRecipients
Envelope(out) == out.to \cup out.cc \cup out.bcc

\* WriteMIME: what whoever opens the message is told.
Rendered(out) ==
    [from |-> {Me}, replyTo |-> {}, to |-> out.to, cc |-> out.cc, parts |-> out.parts]

\* reply: to whom an answer goes when the user edits nothing.
ReplyTo(orig) == IF orig.replyTo # {} THEN orig.replyTo ELSE orig.from
ReplyForm(orig, all) ==
    [to  |-> ReplyTo(orig),
     cc  |-> IF all THEN (orig.to \cup orig.cc) \ (ReplyTo(orig) \cup {Me}) ELSE {},
     bcc |-> {}]

--------------------------------------------------------------------------------
(* Requests.                                                                *)

Nothing == [kind |-> "none", at |-> [folder |-> "INBOX", uid |-> 0],
            dest |-> "INBOX", all |-> FALSE, form |-> Blank, parts |-> {},
            out |-> NoLetter, left |-> {}]

\* What deliver is called with.
Letters(form, parts) ==
    [Nothing EXCEPT !.kind = "deliver", !.form = form, !.parts = parts,
                    !.out = Letter(form, parts)]

Init ==
    /\ \E mail \in [DOMAIN AtStart -> Arriving] :
         messages = {Message(AtStart[i], i, i, 0, FALSE, mail[i]) : i \in DOMAIN AtStart}
    /\ next = Len(AtStart) + 1
    /\ queue = {}
    /\ pc = [r \in Requests |-> "new"]
    /\ req = [r \in Requests |-> Nothing]
    /\ list = [shown |-> {}, cursor |-> 0, start |-> {}, calm |-> TRUE]
    /\ requests = 0
    /\ outside = 0

Begin(r, at, what) ==
    /\ r = requests + 1
    /\ requests' = r
    /\ req' = [req EXCEPT ![r] = what]
    /\ pc' = [pc EXCEPT ![r] = at]
    /\ UNCHANGED <<messages, next, queue, list, outside>>

\* The code goes through addressees and attachments in the order of a list.
First(S) == CHOOSE x \in S : TRUE

\* The client names messages it has listed, which others may take away meanwhile.
Send(r) ==
    \E form \in Forms, parts \in {{}, Parts} :
        Begin(r, "deliver", Letters(form, parts))
Reply(r) ==
    \E m \in messages, all \in BOOLEAN :
        Begin(r, "get", [Nothing EXCEPT !.kind = "reply", !.at = At(m), !.all = all])

Forward(r) ==
    \E m \in messages, form \in Forms :
        Begin(r, "get", [Nothing EXCEPT !.kind = "forward", !.at = At(m), !.form = form])

\* move: from any folder to any folder.
MoveTo(r) ==
    \E m \in messages, f \in Folders :
        Begin(r, "move", [Nothing EXCEPT !.kind = "move", !.at = At(m), !.dest = f])

\* delete: to Trash, or out of it for good.
Delete(r) ==
    \E m \in messages :
        IF IsTrash(m.folder)
        THEN Begin(r, "flag", [Nothing EXCEPT !.kind = "delete", !.at = At(m)])
        ELSE Begin(r, "move", [Nothing EXCEPT !.kind = "move", !.at = At(m), !.dest = "Trash"])

\* Of an answered request its kind alone matters any more.
Answer(r, a) ==
    /\ pc' = [pc EXCEPT ![r] = a]
    /\ req' = [req EXCEPT ![r] = [Nothing EXCEPT !.kind = req[r].kind]]

Go(r, at, what) ==
    /\ pc' = [pc EXCEPT ![r] = at]
    /\ req' = [req EXCEPT ![r] = what]
    /\ UNCHANGED <<messages, next, list, requests, outside>>

\* forward fetches what is left, one attachment over one connection, then delivers.
Collect(r, what) ==
    IF what.left # {} THEN Go(r, "fetch", what)
    ELSE Go(r, "deliver", [Letters(what.form, what.out.parts) EXCEPT !.parts = what.parts])

\* Get, for reply and forward.  A user who edits a reply may address it to anyone.
Get(r) ==
    /\ pc[r] = "get"
    /\ \E m \in Find(req[r].at) :
         IF req[r].kind = "forward"
         THEN Collect(r, [req[r] EXCEPT !.parts = m.mail.parts, !.left = m.mail.parts])
         ELSE \E form \in {ReplyForm(m.mail, req[r].all)} \cup Forms :
                Go(r, "deliver", Letters(form, {}))
    /\ UNCHANGED queue

Fetch(r) ==
    /\ pc[r] = "fetch"
    /\ Find(req[r].at) # {}
    /\ LET part == First(req[r].left)
       IN  Collect(r, [req[r] EXCEPT !.left = @ \ {part}, !.out.parts = @ \cup {part}])
    /\ UNCHANGED queue

CopyFirst(r) ==                     \* the copy is saved before the message is sent
    /\ pc[r] = "deliver"
    /\ Envelope(req[r].out) # {}
    /\ messages' = messages \cup
              {Message("Sent", next, next, r, FALSE, Rendered(req[r].out))}
    /\ next' = next + 1
    /\ pc' = [pc EXCEPT ![r] = "rcpt"]
    /\ req' = [req EXCEPT ![r].left = Envelope(req[r].out)]
    /\ UNCHANGED <<queue, list, requests, outside>>

\* deliver: the checks, and the message in a temporary file.
Deliver(r) ==
    /\ pc[r] = "deliver"
    /\ Envelope(req[r].out) # {}
    /\ Go(r, "rcpt", [req[r] EXCEPT !.left = Envelope(req[r].out)])
    /\ UNCHANGED queue

\* No addressee, or a message that cannot be built or is too large.
Unfit(r) ==
    /\ pc[r] = "deliver"
    /\ Answer(r, "error")
    /\ UNCHANGED <<messages, next, queue, list, requests, outside>>

--------------------------------------------------------------------------------
(* SendReader: one session with Postfix.                                    *)

RecipientOrSkip(r) ==               \* a refused recipient is left out
    /\ pc[r] = "rcpt"
    /\ LET a == First(req[r].left) IN
         \/ Go(r, IF req[r].left = {a} THEN "data" ELSE "rcpt",
               [req[r] EXCEPT !.left = @ \ {a}])
         \/ Go(r, "data", req[r])
    /\ UNCHANGED queue

\* Connection, AUTH, MAIL and one RCPT: any refusal ends it (see GiveUp).
Recipient(r) ==
    /\ pc[r] = "rcpt"
    /\ LET a == First(req[r].left) IN
         Go(r, IF req[r].left = {a} THEN "data" ELSE "rcpt",
            [req[r] EXCEPT !.left = @ \ {a}])
    /\ UNCHANGED queue

\* Postfix has the whole message and takes it on; its answer is still to come.
Data(r) ==
    /\ pc[r] = "data"
    /\ Go(r, "quit", req[r])
    /\ queue' = queue \cup {[request |-> r, asked |-> req[r].form,
                             parts |-> req[r].parts, mail |-> Rendered(req[r].out),
                             to |-> Envelope(req[r].out) \ req[r].left]}

\* The answer to the message, and QUIT's.
Quit(r) ==
    /\ pc[r] = "quit"
    /\ Go(r, "append", req[r])
    /\ UNCHANGED queue

\* The copy in Sent.
Save(r) ==
    /\ pc[r] = "append"
    /\ Become(messages \cup
              {Message("Sent", next, next, r, FALSE, Rendered(req[r].out))})
    /\ next' = next + 1
    /\ Answer(r, "ok")
    /\ UNCHANGED <<queue, requests, outside>>

--------------------------------------------------------------------------------
(* Move and Delete.  Dovecot answers OK when the UID is gone; its answer    *)
(* may be lost.                                                             *)

Moved(r) ==
    {Message(req[r].dest, next, m.born, m.by, m.deleted, m.mail) : m \in Find(req[r].at)}

MoveByCopy(r) ==                    \* the original stays behind
    /\ pc[r] = "move"
    /\ Become(messages \cup Moved(r))
    /\ next' = next + 1
    /\ \E a \in {"ok", "error"} : Answer(r, a)
    /\ UNCHANGED <<queue, requests, outside>>

Move(r) ==
    /\ pc[r] = "move"
    /\ Become({m \in messages : At(m) # req[r].at} \cup Moved(r))
    /\ next' = next + 1
    /\ \E a \in {"ok", "error"} : Answer(r, a)
    /\ UNCHANGED <<queue, requests, outside>>

\* STORE +FLAGS \Deleted
Flag(r) ==
    /\ pc[r] = "flag"
    /\ messages' = {m \in messages : At(m) # req[r].at}
                     \cup {[m EXCEPT !.deleted = TRUE] : m \in Find(req[r].at)}
    /\ pc' = [pc EXCEPT ![r] = "expunge"]
    /\ UNCHANGED <<next, queue, req, list, requests, outside>>

ExpungeFolder(r) ==                 \* UID EXPUNGE without the UID
    /\ pc[r] = "expunge"
    /\ Become({m \in messages : ~(m.folder = req[r].at.folder /\ m.deleted)})
    /\ \E a \in {"ok", "error"} : Answer(r, a)
    /\ UNCHANGED <<next, queue, requests, outside>>

ExpungeOn(r) ==
    /\ pc' = [pc EXCEPT ![r] = "expunge all"]
    /\ UNCHANGED req

\* UID EXPUNGE, whose answer may be lost ...
Expunge(r) ==
    /\ pc[r] = "expunge"
    /\ Become(messages \ {m \in Find(req[r].at) : m.deleted})
    /\ Answer(r, "ok") \/ ExpungeOn(r)
    /\ UNCHANGED <<next, queue, requests, outside>>

\* ... or that fails, for whatever reason: then a plain EXPUNGE follows, which
\* removes all that is marked in the folder.
ExpungeFails(r) ==
    /\ pc[r] = "expunge"
    /\ ExpungeOn(r)
    /\ UNCHANGED <<messages, next, queue, list, requests, outside>>

ExpungeAll(r) ==
    /\ pc[r] = "expunge all"
    /\ Become({m \in messages : ~(m.folder = req[r].at.folder /\ m.deleted)})
    /\ \E a \in {"ok", "error"} : Answer(r, a)
    /\ UNCHANGED <<next, queue, requests, outside>>

GiveUpQuietly(r) ==                 \* SendReader's error goes unnoticed as the copy's does
    /\ pc[r] \notin {"new", "deliver", "expunge", "ok", "error"}
    /\ Answer(r, IF pc[r] \in {"rcpt", "data", "quit", "append"} THEN "ok" ELSE "error")
    /\ UNCHANGED <<messages, next, queue, list, requests, outside>>

GiveUpOnDovecot(r) ==               \* no deadline on the SMTP connection
    /\ pc[r] \in {"get", "fetch", "append", "move", "flag", "expunge all"}
    /\ Answer(r, IF pc[r] = "append" THEN "ok" ELSE "error")
    /\ UNCHANGED <<messages, next, queue, list, requests, outside>>

\* A server refuses, the connection breaks, or the deadline set on it passes.
\* What was sent stays sent: only the copy in Sent may fail unnoticed.
GiveUp(r) ==
    /\ pc[r] \notin {"new", "deliver", "expunge", "ok", "error"}
    /\ Answer(r, IF pc[r] = "append" THEN "ok" ELSE "error")
    /\ UNCHANGED <<messages, next, queue, list, requests, outside>>

--------------------------------------------------------------------------------
(* List: a window of the newest messages, counted from the end.             *)

Newer(m)      == Cardinality({n \in In(m.folder) : n.uid > m.uid})
Page(offset)  == {m \in In("INBOX") : Newer(m) \in offset..(offset + PageSize - 1)}
CursorAfterLast(offset) ==          \* the next page starts one too late
    IF offset + PageSize < Cardinality(In("INBOX")) THEN offset + PageSize + 1 ELSE 0

Cursor(offset) ==
    IF offset + PageSize < Cardinality(In("INBOX")) THEN offset + PageSize ELSE 0

FirstPage ==
    /\ list.start = {}              \* bound: one listing
    /\ list' = [shown |-> UIDs(Page(0)), cursor |-> Cursor(0),
                start |-> UIDs(In("INBOX")), calm |-> TRUE]
    /\ UNCHANGED <<messages, next, queue, pc, req, requests, outside>>

MorePages ==
    /\ list.cursor # 0
    /\ list' = [list EXCEPT !.shown = @ \cup UIDs(Page(list.cursor)),
                            !.cursor = Cursor(list.cursor)]
    /\ UNCHANGED <<messages, next, queue, pc, req, requests, outside>>

--------------------------------------------------------------------------------
(* Others.                                                                  *)

Other ==
    /\ outside < MaxOutside
    /\ outside' = outside + 1
    /\ UNCHANGED <<queue, pc, req, requests>>

Arrive ==
    /\ Other
    /\ \E mail \in Arriving : Become(messages \cup {Message("INBOX", next, next, 0, FALSE, mail)})
    /\ next' = next + 1

\* Another client marks a message, or expunges a folder.
OtherFlags ==
    /\ Other
    /\ \E m \in messages :
         messages' = (messages \ {m}) \cup {[m EXCEPT !.deleted = ~@]}
    /\ UNCHANGED <<next, list>>

OtherExpunges ==
    /\ Other
    /\ \E f \in Folders : Become({m \in messages : ~(m.folder = f /\ m.deleted)})
    /\ UNCHANGED next

--------------------------------------------------------------------------------
(* What the server does on its own, and what takes an answer from Postfix   *)
(* or Dovecot.                                                              *)

Own(r)    == Deliver(r) \/ Unfit(r) \/ ExpungeFails(r) \/ GiveUp(r)
Remote(r) == \/ Get(r) \/ Fetch(r) \/ Recipient(r) \/ Data(r) \/ Quit(r) \/ Save(r)
             \/ Move(r) \/ Flag(r) \/ Expunge(r) \/ ExpungeAll(r)
Asked(r)  == Send(r) \/ Reply(r) \/ Forward(r) \/ MoveTo(r) \/ Delete(r)

Next ==
    \/ \E r \in Requests : Asked(r) \/ Own(r) \/ Remote(r)
    \/ FirstPage \/ MorePages \/ Arrive \/ OtherFlags \/ OtherExpunges

\* Every connection has a deadline and everything else is local, so a request gets
\* on; that Postfix or Dovecot ever answers is not assumed.
Spec == Init /\ [][Next]_vars /\ \A r \in Requests : WF_vars(Own(r))

--------------------------------------------------------------------------------
(* Properties.                                                              *)

Work ==
    [kind : {"none", "deliver", "reply", "forward", "move", "delete"},
     at : [folder : Folders, uid : Nat], dest : Folders, all : BOOLEAN,
     form : Form, parts : SUBSET Parts,
     out : [to : SUBSET Addresses, cc : SUBSET Addresses, bcc : SUBSET Addresses,
            parts : SUBSET Parts],
     left : SUBSET (Addresses \cup Parts)]

\* Every variable holds what the code can hold; two messages of a folder differ in
\* their UIDs, so an id names one.
TypeOK ==
    /\ messages \subseteq [folder : Folders, uid : Nat, born : Nat, by : Nat,
                           deleted : BOOLEAN, mail : Mail]
    /\ \A m, n \in messages : m.uid = n.uid \/ m.born = n.born => m = n
    /\ \A m \in messages : m.uid < next
    /\ next \in Nat
    /\ queue \subseteq [request : Requests, asked : Form, parts : SUBSET Parts,
                        mail : Mail, to : SUBSET Addresses]
    /\ pc \in [Requests -> {"new", "get", "fetch", "deliver", "rcpt", "data", "quit",
                            "append", "move", "flag", "expunge", "expunge all", "ok", "error"}]
    /\ req \in [Requests -> Work]
    /\ list \in [shown : SUBSET Nat, cursor : Nat, start : SUBSET Nat, calm : BOOLEAN]
    /\ requests \in 0..MaxRequests
    /\ outside \in 0..MaxOutside

\* What Postfix accepts is for every addressee of the form, it names those in To and
\* Cc and nobody in Bcc, and a forwarded message carries every attachment of the
\* original, though addressees are given and attachments fetched one at a time and
\* each may fail (deliver, forward, SendReader).
QueuedAsAsked ==
    \A q \in queue :
        /\ q.to = Envelope(q.asked)
        /\ q.mail.to = q.asked.to /\ q.mail.cc = q.asked.cc
        /\ q.mail.parts = q.parts

\* A copy that the webmail saved, wherever it has been moved since, is of a message
\* that Postfix accepted from the same request, which answered "ok"; and a request
\* past DATA has its message in the queue.  A message that was accepted may all the
\* same be answered with an error, or miss in Sent (deliver, SendReader).
SentIsQueued ==
    /\ \A m \in messages : m.by # 0 =>
         \E q \in queue : q.request = m.by /\ q.mail = m.mail /\ pc[m.by] = "ok"
    /\ \A r \in Requests : pc[r] \in {"quit", "append"} =>
         \E q \in queue : q.request = r

\* A message disappears only when it is marked deleted, and then by another client's
\* expunge, by the webmail's delete of this very message in Trash, or by a delete
\* whose UID EXPUNGE failed (Delete, delete).
OnlyAskedRemoved ==
    [][\A m \in messages :
         m.born \notin Born(messages') =>
             /\ m.deleted
             /\ \/ pc' = pc
                \/ /\ m.folder = "Trash"
                   /\ \E r \in Requests : \/ pc[r] = "expunge" /\ req[r].at = At(m)
                                          \/ pc[r] = "expunge all"]_vars

\* Paging through INBOX to the end shows all that was there when it began, whatever
\* arrives meanwhile, unless something is taken out of it (List).
PagesMissNothing ==
    list.calm /\ list.cursor = 0 => list.start \subseteq list.shown

\* reply: it answers to Reply-To, to all means everyone else on the message, and never
\* the mailbox itself.
Answerable(mail) ==
    LET one == ReplyForm(mail, FALSE)
        all == ReplyForm(mail, TRUE)
    IN  /\ one.to # {} /\ Envelope(one) = all.to
        /\ all.to \cap all.cc = {}
        /\ Me \notin all.cc
        /\ (mail.to \cup mail.cc) \ {Me} \subseteq Envelope(all)
        /\ mail.replyTo = {} => mail.from \subseteq Envelope(all)

\* Sending is a Submission: what the user has been told of a letter goes with what
\* Postfix has of it, wherever the session with Postfix, or the copy to Sent, breaks off
\* (deliver, SendReader).
IsLetter(w) == w.kind \in {"deliver", "reply", "forward"}
Told(r)     == IF ~IsLetter(req[r]) THEN "none"
               ELSE IF pc[r] \in {"ok", "error"} THEN pc[r] ELSE "waiting"

Sending == INSTANCE Submission WITH answer <- [r \in Requests |-> Told(r)], accepted <- queue

FollowsSubmission == Sending!Spec

\* Every request is answered, even if Postfix and Dovecot hang.
EveryRequestAnswered ==
    \A r \in Requests : pc[r] # "new" ~> pc[r] \in {"ok", "error"}

=============================================================================
