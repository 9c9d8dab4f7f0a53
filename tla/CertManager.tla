------------------------------ MODULE CertManager ------------------------------
(***************************************************************************)
(* The certificate manager (internal/certs/manager.go): issuance by the    *)
(* renewal loop and by request goroutines, the two PEM files per hostname, *)
(* the certificates table, the in-memory cache behind the TLS handshake,   *)
(* and the SNI entries of the generated mail configuration.                *)
(*                                                                         *)
(* One action per statement that another goroutine or a crash can observe. *)
(* The certificates table, the PEM files and the generated configuration   *)
(* survive a crash; everything else is process memory.                     *)
(***************************************************************************)
EXTENDS Naturals, Sequences

CONSTANTS
    Hosts,          \* hostnames that may be tracked
    Requests,       \* goroutines started by the admin UI and the setup wizard
    Loop,           \* the renewal loop's goroutine
    Nobody,         \* the holder of a free per-host mutex
    Handshakes,     \* concurrent TLS handshakes
    Lifetime,       \* hours a new certificate is valid
    renewBefore,    \* hours before expiry a certificate becomes due: 30 * 24
    Delays,         \* hours to wait after a failure: <<1, 2, 4, 8, 16, 32>>
    maxBackoff,     \* cap on that wait: 24
    MaxRows,        \* bound: certificate rows ever created
    MaxSerial,      \* bound: certificates the authority ever hands out
    MaxCrashes      \* bound: crashes of the daemon

Workers == Requests \cup {Loop}

ASSUME HostsAssumption == Hosts # {}
ASSUME LoopAssumption == Loop \notin Requests
ASSUME NobodyAssumption == Nobody \notin Workers
ASSUME ScheduleAssumption ==
    /\ Lifetime \in Nat /\ Lifetime > 1
    /\ renewBefore \in Nat
    /\ Delays \in Seq(Nat \ {0}) /\ Len(Delays) > 0
    /\ maxBackoff \in Nat \ {0}
ASSUME BoundsAssumption == MaxRows \in Nat /\ MaxSerial \in Nat /\ MaxCrashes \in Nat

VARIABLES
    row,        \* row[h]: the certificates row of the hostname, or NoRow
    nextId,     \* next AUTOINCREMENT id of the certificates table
    certFile,   \* certFile[h]: the issuance fullchain.pem comes from
    keyFile,    \* keyFile[h]: the issuance privkey.pem comes from
    sni,        \* hostnames in the generated Postfix/Dovecot SNI maps
    serial,     \* certificates handed out by the authority so far
    crashes,    \* crashes so far
    lock,       \* lock[h]: holder of the per-host mutex in Manager.issuing
    failures,   \* failures[h]: Manager.failures, saturated at MaxCounted
    cache,      \* cache[h]: Manager.cache, the loaded pair, or NoPair
    due,        \* certificates RenewDue has listed and not yet tried
    pc,         \* pc[w]: where worker w is inside IssueNow
    job,        \* job[w]: the hostname and row id worker w works on
    issued,     \* issued[w]: the certificate worker w was handed
    verdict,    \* verdict[w]: the status worker w is about to fail with
    expired,    \* requests whose 5-minute context has ended
    hs,         \* hs[r]: a handshake inside GetCertificate
    promised    \* history, promised[h]: the last issuance evicted from the cache
                \* while no handshake held an older certificate of h

durable == <<row, nextId, certFile, keyFile, sni>>
memory  == <<lock, failures, cache, due, pc, job, issued, verdict, expired, hs>>
vars    == <<durable, memory, serial, crashes, promised>>

--------------------------------------------------------------------------------
(* Data.  A certificate is known by the row it was issued for and a serial;  *)
(* the two PEM halves match when they come from the same issuance.           *)

NoCert == [id |-> 0, serial |-> 0]
Certs  == [id : Nat, serial : Nat]
NoPair == [cert |-> NoCert, key |-> NoCert]

\* The delay until renew_after, in hours; 0 once it has passed or was never set.
\* The n-th failure in a row waits twice as long as the one before, up to the
\* last of Delays, and never longer than maxBackoff.
MaxCounted == Len(Delays)

BackoffUncapped(n) ==   \* the cap forgotten
    Delays[IF n < MaxCounted THEN n ELSE MaxCounted]

Backoff(n) ==
    LET delay == Delays[IF n < MaxCounted THEN n ELSE MaxCounted]
    IN  IF delay > maxBackoff THEN maxBackoff ELSE delay

\* renew_after of a fresh certificate: renewBefore ahead of its expiry, or two
\* thirds into a lifetime shorter than that.
RenewWait == IF Lifetime > renewBefore THEN Lifetime - renewBefore
                                       ELSE (2 * Lifetime) \div 3

NoRow == [id |-> 0, status |-> "none", wait |-> 0]
Statuses == {"none", "pending", "dns_wait", "issuing", "active", "error"}
Waits == (0 .. maxBackoff) \cup {RenewWait}

\* A status and a delay for a row that keeps its id.
With(r, status, wait) == [id |-> r.id, status |-> status, wait |-> wait]

Idle == [host |-> CHOOSE h \in Hosts : TRUE, id |-> 0]

\* A handshake: where it is in GetCertificate and the halves it has read.
Reading(p, h, c, k) == [pc |-> p, host |-> h, cert |-> c, key |-> k]

Asleep == [pc |-> "idle", host |-> CHOOSE h \in Hosts : TRUE,
           cert |-> NoCert, key |-> NoCert]

\* The row id of hostname h, as WHERE id = ? finds it: gone after the domain is
\* deleted, even when the hostname is tracked again under a new id.
RowOf(h, id) == row[h].id = id

Init ==
    /\ row = [h \in Hosts |-> NoRow]
    /\ nextId = 1
    /\ certFile = [h \in Hosts |-> NoCert]
    /\ keyFile = [h \in Hosts |-> NoCert]
    /\ sni = {}
    /\ serial = 0
    /\ crashes = 0
    /\ lock = [h \in Hosts |-> Nobody]
    /\ failures = [h \in Hosts |-> 0]
    /\ cache = [h \in Hosts |-> NoPair]
    /\ due = {}
    /\ pc = [w \in Workers |-> "idle"]
    /\ job = [w \in Workers |-> Idle]
    /\ issued = [w \in Workers |-> NoCert]
    /\ verdict = [w \in Workers |-> "error"]
    /\ expired = {}
    /\ hs = [r \in Handshakes |-> Asleep]
    /\ promised = [h \in Hosts |-> 0]

--------------------------------------------------------------------------------
(* The generated configuration and the domains the admin edits.             *)

\* buildTLS: rows that are active and whose two files exist.
Published(rows) == {h \in Hosts : /\ rows[h].status = "active"
                                  /\ certFile[h] # NoCert
                                  /\ keyFile[h] # NoCert}

\* Generator.Apply: publishes what the table says, or fails and leaves the
\* previous generated files in place.
Regenerate(rows) == sni' \in {sni, Published(rows)}

\* EnsureTracked, from CreateDomain, the setup wizard or the admin hostname.
Track(h) ==
    /\ row[h] = NoRow
    /\ nextId <= MaxRows
    /\ row' = [row EXCEPT ![h] = [id |-> nextId, status |-> "pending", wait |-> 0]]
    /\ nextId' = nextId + 1
    /\ Regenerate(row')
    /\ UNCHANGED <<certFile, keyFile, serial, crashes, memory, promised>>

\* DeleteDomain cascades to the certificate row; files, cache and mutex stay.
Drop(h) ==
    /\ row[h] # NoRow
    /\ row' = [row EXCEPT ![h] = NoRow]
    /\ Regenerate(row')
    /\ UNCHANGED <<nextId, certFile, keyFile, serial, crashes, memory, promised>>

\* Any other admin change that regenerates the configuration.
AdminRegenerates ==
    /\ sni' = Published(row)
    /\ UNCHANGED <<row, nextId, certFile, keyFile, serial, crashes, memory, promised>>

\* renew_after passes, or `wispboxctl cert renew` sets it to now.
BecomeDue(h) ==
    /\ row[h] # NoRow
    /\ row[h].wait > 0
    /\ row' = [row EXCEPT ![h] = With(row[h], row[h].status, 0)]
    /\ UNCHANGED <<nextId, certFile, keyFile, sni, serial, crashes, memory, promised>>

--------------------------------------------------------------------------------
(* Starting IssueNow: the row is read before the mutex is taken.            *)

Start(w, h, id) ==
    /\ pc' = [pc EXCEPT ![w] = "lock"]
    /\ job' = [job EXCEPT ![w] = [host |-> h, id |-> id]]
    /\ UNCHANGED <<issued, verdict>>

DueUnlessIssuing(h) ==   \* "an attempt is under way" taken from the table
    row[h].status \notin {"none", "issuing"} /\ row[h].wait = 0

DueNeverIssued(h) ==     \* only rows whose renew_after was never set
    row[h].status = "pending" /\ row[h].wait = 0

\* CertificatesDueForRenewal: the status is not looked at.
DueForRenewal(h) == row[h] # NoRow /\ row[h].wait = 0

\* RenewDue lists every certificate that is due now.  A scan the database refuses
\* changes nothing, and so does a request whose certificate cannot be read.
Scan ==
    LET listed == {[host |-> h, id |-> row[h].id] : h \in {x \in Hosts : DueForRenewal(x)}}
    IN  /\ pc[Loop] = "idle"
        /\ due = {}
        /\ listed # {}
        /\ due' = listed
        /\ UNCHANGED <<durable, serial, crashes, lock, failures, cache, pc, job,
                       issued, verdict, expired, hs, promised>>

\* The loop takes the next listed certificate, however old the list is; it goes
\* on to the one after it when the row is gone or cannot be read.
TakeDue ==
    /\ pc[Loop] = "idle"
    /\ \E c \in due :
         /\ due' = due \ {c}
         /\ \/ RowOf(c.host, c.id) /\ Start(Loop, c.host, c.id)
            \/ UNCHANGED <<pc, job, issued, verdict>>
    /\ UNCHANGED <<durable, serial, crashes, lock, failures, cache, expired, hs, promised>>

\* renewCertificate, issueAdminCertificate and the wizard's issueCertificate.
Request(w, h) ==
    /\ w \in Requests
    /\ pc[w] = "idle"
    /\ row[h] # NoRow
    /\ Start(w, h, row[h].id)
    /\ UNCHANGED <<durable, serial, crashes, lock, failures, cache, due, expired, hs, promised>>

\* The request's context.WithTimeout(5 min) ends, wherever IssueNow is.
Expire(w) ==
    /\ w \in Requests \ expired
    /\ pc[w] # "idle"
    /\ expired' = expired \cup {w}
    /\ UNCHANGED <<durable, serial, crashes, lock, failures, cache, due, pc, job,
                   issued, verdict, hs, promised>>

--------------------------------------------------------------------------------
(* IssueNow under the per-host mutex.                                       *)

Goto(w, l) ==
    /\ pc' = [pc EXCEPT ![w] = l]
    /\ UNCHANGED <<lock, job, issued, verdict, expired>>

\* return: the deferred Unlock runs and the request's context is cancelled.
Return(w) ==
    /\ pc' = [pc EXCEPT ![w] = "idle"]
    /\ lock' = [lock EXCEPT ![job[w].host] = Nobody]
    /\ job' = [job EXCEPT ![w] = Idle]
    /\ issued' = [issued EXCEPT ![w] = NoCert]
    /\ verdict' = [verdict EXCEPT ![w] = "error"]
    /\ expired' = expired \ {w}

\* return fail(status, cause): the in-memory count first, then the table.
Failing(w, status) ==
    /\ pc' = [pc EXCEPT ![w] = "failing"]
    /\ verdict' = [verdict EXCEPT ![w] = status]
    /\ failures' = [failures EXCEPT ![job[w].host] =
                      IF @ < MaxCounted THEN @ + 1 ELSE @]
    /\ UNCHANGED <<lock, job, issued, expired>>

UpdateByHostname(w, status, wait) ==   \* the statement keyed by hostname
    row' = IF row[job[w].host] # NoRow
           THEN [row EXCEPT ![job[w].host] = With(@, status, wait)] ELSE row

\* An UPDATE of the row this issuance began with.
Update(w, status, wait) ==
    row' = IF RowOf(job[w].host, job[w].id)
           THEN [row EXCEPT ![job[w].host] = With(@, status, wait)] ELSE row

LockUnchecked(w) ==     \* issuance not serialized
    /\ pc[w] = "lock"
    /\ lock' = [lock EXCEPT ![job[w].host] = w]
    /\ pc' = [pc EXCEPT ![w] = "preflight"]
    /\ UNCHANGED <<durable, serial, crashes, failures, cache, due, job,
                   issued, verdict, expired, hs, promised>>

\* lock.Lock() does not look at the context.
Lock(w) ==
    /\ pc[w] = "lock"
    /\ lock[job[w].host] = Nobody
    /\ lock' = [lock EXCEPT ![job[w].host] = w]
    /\ pc' = [pc EXCEPT ![w] = "preflight"]
    /\ UNCHANGED <<durable, serial, crashes, failures, cache, due, job,
                   issued, verdict, expired, hs, promised>>

PreflightFails(w) ==
    /\ pc[w] = "preflight"
    /\ Failing(w, "dns_wait")
    /\ UNCHANGED <<durable, serial, crashes, cache, due, hs, promised>>

BeginUnmarked(w) ==     \* the status update forgotten
    /\ pc[w] = "preflight"
    /\ Goto(w, "issue")
    /\ UNCHANGED <<durable, serial, crashes, failures, cache, due, hs, promised>>

\* The preflight passes; the row is marked issuing, or the update fails (the
\* context has ended, the database is locked) and IssueNow returns as it is.
Begin(w) ==
    /\ pc[w] = "preflight"
    /\ \/ /\ w \notin expired
          /\ Update(w, "issuing", row[job[w].host].wait)
          /\ Goto(w, "issue")
       \/ Return(w) /\ UNCHANGED row
    /\ UNCHANGED <<nextId, certFile, keyFile, sni, serial, crashes,
                   failures, cache, due, hs, promised>>

IssueFails(w) ==
    /\ pc[w] = "issue"
    /\ Failing(w, "error")
    /\ UNCHANGED <<durable, serial, crashes, cache, due, hs, promised>>

Issue(w) ==
    /\ pc[w] = "issue"
    /\ w \notin expired
    /\ serial < MaxSerial
    /\ serial' = serial + 1
    /\ issued' = [issued EXCEPT ![w] = [id |-> job[w].id, serial |-> serial + 1]]
    /\ pc' = [pc EXCEPT ![w] = "cert"]
    /\ UNCHANGED <<durable, crashes, lock, failures, cache, due, job, verdict,
                   expired, hs, promised>>

\* writePEMPair renames fullchain.pem, then privkey.pem.
WriteCert(w) ==
    /\ pc[w] = "cert"
    /\ certFile' = [certFile EXCEPT ![job[w].host] = issued[w]]
    /\ Goto(w, "key")
    /\ UNCHANGED <<row, nextId, keyFile, sni, serial, crashes, failures, cache, due, hs, promised>>

WriteKey(w) ==
    /\ pc[w] = "key"
    /\ keyFile' = [keyFile EXCEPT ![job[w].host] = issued[w]]
    /\ Goto(w, "record")
    /\ UNCHANGED <<row, nextId, certFile, sni, serial, crashes, failures, cache, due, hs, promised>>

\* Either write can fail; nothing is rolled back.
WriteFails(w) ==
    /\ pc[w] \in {"cert", "key"}
    /\ Failing(w, "error")
    /\ UNCHANGED <<durable, serial, crashes, cache, due, hs, promised>>

\* MarkCertificateIssued, or its error returned without going through fail.
Record(w) ==
    /\ pc[w] = "record"
    /\ \/ /\ w \notin expired
          /\ Update(w, "active", RenewWait)
          /\ Goto(w, "evict")
       \/ Return(w) /\ UNCHANGED row
    /\ UNCHANGED <<nextId, certFile, keyFile, sni, serial, crashes,
                   failures, cache, due, hs, promised>>

\* The worker is the first to tell the cache of its certificate.
NobodyHoldsOlder(w) ==
    \A r \in Handshakes :
        hs[r].host = job[w].host /\ hs[r].pc \in {"key", "store"} => hs[r].cert = issued[w]

Promise(w) ==
    promised' = IF NobodyHoldsOlder(w)
                THEN [promised EXCEPT ![job[w].host] = issued[w].serial] ELSE promised

EvictNothing(w) ==      \* the failure count reset, the cached pair kept
    /\ pc[w] = "evict"
    /\ failures' = [failures EXCEPT ![job[w].host] = 0]
    /\ Promise(w)
    /\ Goto(w, "publish")
    /\ UNCHANGED <<durable, serial, crashes, cache, due, hs>>

\* The failure count and the cached pair are dropped.
Evict(w) ==
    /\ pc[w] = "evict"
    /\ failures' = [failures EXCEPT ![job[w].host] = 0]
    /\ cache' = [cache EXCEPT ![job[w].host] = NoPair]
    /\ Promise(w)
    /\ Goto(w, "publish")
    /\ UNCHANGED <<durable, serial, crashes, due, hs>>

\* OnIssued: a regeneration that fails is only logged.
Publish(w) ==
    /\ pc[w] = "publish"
    /\ \/ w \notin expired /\ Regenerate(row)
       \/ w \in expired /\ UNCHANGED sni
    /\ Return(w)
    /\ UNCHANGED <<row, nextId, certFile, keyFile, serial, crashes,
                   failures, cache, due, hs, promised>>

\* fail's two updates discard their errors, whatever they are.
FailRecord(w) ==
    /\ pc[w] = "failing"
    /\ \/ /\ w \notin expired
          /\ Update(w, verdict[w], row[job[w].host].wait)
       \/ UNCHANGED row
    /\ Goto(w, "backoff")
    /\ UNCHANGED <<nextId, certFile, keyFile, sni, serial, crashes,
                   failures, cache, due, hs, promised>>

FailBackoff(w) ==
    /\ pc[w] = "backoff"
    /\ \/ /\ w \notin expired
          /\ Update(w, row[job[w].host].status, Backoff(failures[job[w].host]))
       \/ UNCHANGED row
    /\ Return(w)
    /\ UNCHANGED <<nextId, certFile, keyFile, sni, serial, crashes,
                   failures, cache, due, hs, promised>>

UnderLock(w) ==
    \/ PreflightFails(w) \/ Begin(w) \/ IssueFails(w) \/ Issue(w)
    \/ WriteCert(w) \/ WriteKey(w) \/ WriteFails(w)
    \/ Record(w) \/ Evict(w) \/ Publish(w)
    \/ FailRecord(w) \/ FailBackoff(w)

--------------------------------------------------------------------------------
(* GetCertificate, called by every TLS handshake.                           *)

\* A miss in the cache: go to the disk without the mutex.  A hit returns the
\* cached pair and changes nothing.
Miss(r, h) ==
    /\ hs[r].pc = "idle"
    /\ cache[h] = NoPair
    /\ hs' = [hs EXCEPT ![r] = Reading("cert", h, NoCert, NoCert)]
    /\ UNCHANGED <<durable, serial, crashes, lock, failures, cache, due, pc, job,
                   issued, verdict, expired, promised>>

\* tls.LoadX509KeyPair reads fullchain.pem, then privkey.pem; a missing file
\* means the fallback certificate is served and nothing is cached.
ReadCert(r) ==
    /\ hs[r].pc = "cert"
    /\ hs' = [hs EXCEPT ![r] =
                IF certFile[hs[r].host] = NoCert THEN Asleep
                ELSE Reading("key", hs[r].host, certFile[hs[r].host], NoCert)]
    /\ UNCHANGED <<durable, serial, crashes, lock, failures, cache, due, pc, job,
                   issued, verdict, expired, promised>>

\* ... and refuses a key that is not the certificate's.
ReadKey(r) ==
    /\ hs[r].pc = "key"
    /\ hs' = [hs EXCEPT ![r] =
                IF keyFile[hs[r].host] # hs[r].cert THEN Asleep
                ELSE Reading("store", hs[r].host, hs[r].cert, keyFile[hs[r].host])]
    /\ UNCHANGED <<durable, serial, crashes, lock, failures, cache, due, pc, job,
                   issued, verdict, expired, promised>>

\* The loaded pair goes into the cache, whatever happened since it was read.
Store(r) ==
    /\ hs[r].pc = "store"
    /\ cache' = [cache EXCEPT ![hs[r].host] = [cert |-> hs[r].cert, key |-> hs[r].key]]
    /\ hs' = [hs EXCEPT ![r] = Asleep]
    /\ UNCHANGED <<durable, serial, crashes, lock, failures, due, pc, job, issued, verdict,
                   expired, promised>>

--------------------------------------------------------------------------------
\* The daemon dies anywhere and starts again: memory is gone, the rest stays.
Crash ==
    /\ crashes < MaxCrashes
    /\ crashes' = crashes + 1
    /\ lock' = [h \in Hosts |-> Nobody]
    /\ failures' = [h \in Hosts |-> 0]
    /\ cache' = [h \in Hosts |-> NoPair]
    /\ due' = {}
    /\ pc' = [w \in Workers |-> "idle"]
    /\ job' = [w \in Workers |-> Idle]
    /\ issued' = [w \in Workers |-> NoCert]
    /\ verdict' = [w \in Workers |-> "error"]
    /\ expired' = {}
    /\ hs' = [r \in Handshakes |-> Asleep]
    /\ UNCHANGED <<durable, serial, promised>>

Handshake(r) == (\E h \in Hosts : Miss(r, h)) \/ ReadCert(r) \/ ReadKey(r) \/ Store(r)

Next ==
    \/ \E h \in Hosts : Track(h) \/ Drop(h) \/ BecomeDue(h)
    \/ AdminRegenerates
    \/ Scan \/ TakeDue
    \/ \E w \in Workers, h \in Hosts : Request(w, h)
    \/ \E w \in Workers : Expire(w) \/ Lock(w) \/ UnderLock(w)
    \/ \E r \in Handshakes : Handshake(r)
    \/ Crash

(***************************************************************************)
(* Fairness.  The loop's ticker and its list: the goroutine is scheduled.  *)
(* Every step under the mutex returns: the ACME order has its own 4-minute *)
(* timeout.  The mutex: sync.Mutex hands itself to a waiter that starves.  *)
(* BecomeDue: time passes.  Any statement may fail, any number of times;   *)
(* but one that is tried again and again before any deadline succeeds in   *)
(* the end, so its successful branch is fair: the loop's statements, and   *)
(* the recording of a failure, which a request may leave undone and then   *)
(* push renew_after ahead of the loop.  Requests, handshakes, admin        *)
(* changes, deadlines and crashes are never owed, nor is a certificate.    *)
(***************************************************************************)
Starts(h)  == TakeDue /\ pc'[Loop] = "lock" /\ job'[Loop].host = h
Begins(h)  == Begin(Loop) /\ pc'[Loop] = "issue" /\ job[Loop].host = h
Records(h) == Record(Loop) /\ pc'[Loop] = "evict" /\ job[Loop].host = h
RecordsError(w, h) ==
    FailRecord(w) /\ job[w].host = h /\ Update(w, verdict[w], row[h].wait)
BacksOff(h) == /\ FailBackoff(Loop) /\ job[Loop].host = h
               /\ Update(Loop, row[h].status, Backoff(failures[h]))

StatementsSucceed(h) ==
    /\ SF_vars(Starts(h)) /\ SF_vars(Begins(h)) /\ SF_vars(Records(h))
    /\ SF_vars(BacksOff(h))
    /\ \A w \in Workers : SF_vars(w \notin expired /\ RecordsError(w, h))

Fairness ==
    /\ WF_vars(Scan) /\ WF_vars(TakeDue) /\ SF_vars(Lock(Loop))
    /\ \A w \in Workers : WF_vars(UnderLock(w))
    /\ \A h \in Hosts : WF_vars(BecomeDue(h)) /\ StatementsSucceed(h)

Spec == Init /\ [][Next]_vars /\ Fairness

--------------------------------------------------------------------------------
(* Properties.                                                              *)

PCs == {"idle", "lock", "preflight", "issue", "cert", "key", "record", "evict",
        "publish", "failing", "backoff"}

Rows  == [id : Nat, status : Statuses, wait : Waits]
Jobs  == [host : Hosts, id : Nat]
Pairs == [cert : Certs, key : Certs]
Reads == [pc : {"idle", "cert", "key", "store"}, host : Hosts, cert : Certs, key : Certs]

\* Types, and the numeric edge of the schedule: whatever the failure count, the
\* manager never pushes renew_after further than a day, or to the renewal date.
TypeOK ==
    /\ row \in [Hosts -> Rows]
    /\ nextId \in Nat \ {0}
    /\ certFile \in [Hosts -> Certs]
    /\ keyFile \in [Hosts -> Certs]
    /\ sni \subseteq Hosts
    /\ serial \in Nat
    /\ crashes \in Nat
    /\ lock \in [Hosts -> Workers \cup {Nobody}]
    /\ failures \in [Hosts -> 0 .. MaxCounted]
    /\ cache \in [Hosts -> Pairs]
    /\ due \subseteq Jobs
    /\ pc \in [Workers -> PCs]
    /\ job \in [Workers -> Jobs]
    /\ issued \in [Workers -> Certs]
    /\ verdict \in [Workers -> {"dns_wait", "error"}]
    /\ expired \subseteq Requests
    /\ hs \in [Handshakes -> Reads]
    /\ promised \in [Hosts -> Nat]

\* A row the manager calls active has both PEM files on disk, and unless an
\* issuance for a since-deleted row of the same hostname is what wrote the
\* certificate last, they are the two halves of one issuance.  This must
\* survive crashes between the two renames, failed writes and ended contexts:
\* buildTLS hands the files of every active row to Postfix and Dovecot.
ActivePairMatches ==
    \A h \in Hosts : row[h].status = "active" =>
        /\ certFile[h] # NoCert
        /\ keyFile[h] # NoCert
        /\ certFile[h].id = row[h].id => certFile[h] = keyFile[h]

\* The cache never serves a certificate older than the last one that was
\* recorded while no handshake was between reading the old files and storing
\* them, however many handshakes and issuances overlapped before or since.  The
\* handshake in between may store its old pair after the eviction
\* (manager.go:145), and it is served until the next issuance.
ServedIsCurrent ==
    \A h \in Hosts : cache[h] # NoPair => cache[h].cert.serial >= promised[h]

\* An earlier issuance never overwrites a later one, whichever goroutines ran
\* them: the per-host mutex spans the order and both renames.
FilesNeverRegress ==
    [][\A h \in Hosts : /\ certFile[h].serial <= certFile'[h].serial
                        /\ keyFile[h].serial <= keyFile'[h].serial]_vars

Lifecycle == INSTANCE CertLifecycle WITH status <- [h \in Hosts |-> row[h].status]

\* The table's status moves as the lifecycle promises: concurrent issuances,
\* requests past their deadline, deleted and re-created rows and restarts
\* never make a certificate active or failed outside an attempt.
FollowsLifecycle == Lifecycle!Spec

\* A row left at "issuing" (by a crash, a request whose context ended, or an
\* update the database refused) is picked up again once its renew_after has
\* passed, and gets a verdict in the end.
IssuingIsLeft ==
    \A h \in Hosts : row[h].status = "issuing" ~> row[h].status # "issuing"

\* A due certificate is tried by the loop until an attempt reschedules it, also
\* when scans, reads and updates fail on the way.
DueIsTried ==
    \A h \in Hosts, i \in 1 .. MaxRows :
        (row[h].id = i /\ row[h].wait = 0) ~> (row[h].id # i \/ row[h].wait > 0)

--------------------------------------------------------------------------------
(* Why the safety properties hold: the inductive invariant of the proofs.   *)

Inside(w) == pc[w] \notin {"idle", "lock"}

\* Past lock.Lock() a worker holds its host's mutex, so two of them never work
\* on one hostname.
HoldsMutex == \A w \in Workers : Inside(w) => lock[job[w].host] = w

\* A worker in fail has counted its failure, and nobody has reset the count.
FailureCounted ==
    \A w \in Workers : pc[w] \in {"failing", "backoff"} => failures[job[w].host] > 0

\* Row ids are never reused ...
RowIds ==
    \A h \in Hosts : /\ row[h].id < nextId
                     /\ row[h].id = 0 => row[h] = NoRow
                     /\ row[h].status = "none" => row[h] = NoRow

\* ... so a job started for a deleted row stays orphaned.
JobIds ==
    /\ \A c \in due : c.id > 0 /\ c.id < nextId
    /\ \A w \in Workers : job[w].id < nextId /\ (pc[w] # "idle" => job[w].id > 0)

\* From the moment an attempt contacts the authority until it records a
\* verdict, its row says issuing.
IssuingWhileTrying ==
    \A w \in Workers :
        (/\ \/ pc[w] \in {"issue", "cert", "key", "record"}
            \/ pc[w] = "failing" /\ verdict[w] = "error"
         /\ RowOf(job[w].host, job[w].id))
            => row[job[w].host].status = "issuing"

\* How much of the new pair is on disk at each step of writePEMPair.
HalvesWritten ==
    \A w \in Workers :
        /\ pc[w] \in {"cert", "key", "record"} =>
              issued[w].id = job[w].id
        /\ pc[w] \in {"key", "record", "evict"} => certFile[job[w].host] = issued[w]
        /\ pc[w] = "record" => keyFile[job[w].host] = issued[w]

\* Serials on disk never run ahead of the issuance being written.
SerialsInOrder ==
    /\ \A h \in Hosts : certFile[h].serial <= serial /\ keyFile[h].serial <= serial
    /\ \A w \in Workers :
         /\ issued[w].serial <= serial
         /\ pc[w] = "cert" => certFile[job[w].host].serial <= issued[w].serial
         /\ pc[w] \in {"cert", "key"} =>
               keyFile[job[w].host].serial <= issued[w].serial

\* What was promised is on disk or later, and whoever has read a file since holds
\* nothing older.
PromisesKept ==
    \A h \in Hosts :
        /\ promised[h] <= certFile[h].serial
        /\ \A r \in Handshakes :
             hs[r].host = h /\ hs[r].pc \in {"key", "store"}
                => promised[h] <= hs[r].cert.serial
================================================================================
