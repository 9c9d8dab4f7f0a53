--------------------------- MODULE CertManager_proofs ---------------------------
(***************************************************************************)
(* Proofs about the certificate manager, for every set of hosts, requests  *)
(* and handshakes, every schedule of delays and every bound.               *)
(***************************************************************************)
EXTENDS CertManager, TLAPS

(* The values the actions put together.                                     *)

\* A worker with nothing to do, a handshake not started, and nothing at all.
LEMMA Nothing == /\ NoCert \in Certs
                 /\ NoPair \in Pairs
                 /\ NoRow \in Rows
                 /\ Idle \in Jobs
                 /\ Asleep \in Reads
<1>1. (CHOOSE h \in Hosts : TRUE) \in Hosts
  BY HostsAssumption
<1>2. NoCert \in Certs
  BY DEF NoCert, Certs
<1>3. NoRow \in Rows
  BY ScheduleAssumption DEF NoRow, Rows, Statuses, Waits
<1>4. QED
  BY <1>1, <1>2, <1>3 DEF Idle, Asleep, Jobs, Reads, NoPair, Pairs

LEMMA CountRange == MaxCounted \in Nat /\ MaxCounted > 0
  BY ScheduleAssumption DEF MaxCounted

\* The delay after a failure never exceeds maxBackoff.
LEMMA BackoffRange ==
  ASSUME NEW n \in Nat, n > 0
  PROVE  Backoff(n) \in Waits
<1>1. PICK k \in 1 .. Len(Delays) : k = (IF n < MaxCounted THEN n ELSE MaxCounted)
  BY ScheduleAssumption DEF MaxCounted
<1>2. Delays[k] \in Nat \ {0}
  BY ScheduleAssumption, <1>1
<1>3. QED
  BY <1>1, <1>2, ScheduleAssumption DEF Backoff, MaxCounted, Waits

LEMMA WaitValues == 0 \in Waits /\ RenewWait \in Waits
  BY ScheduleAssumption DEF Waits

\* An UPDATE of the certificates table leaves rows in it.
LEMMA UpdateType ==
  ASSUME TypeOK, NEW w \in Workers, NEW s \in Statuses, NEW t \in Waits, Update(w, s, t)
  PROVE  row' \in [Hosts -> Rows]
<1>1. job[w].host \in Hosts
  BY DEF TypeOK, Jobs
<1>2. With(row[job[w].host], s, t) \in Rows
  BY <1>1 DEF TypeOK, With, Rows
<1>3. QED
  BY <1>1, <1>2 DEF Update, TypeOK

\* The row a worker works on, when it is still there.
LEMMA OwnRowType ==
  ASSUME TypeOK, NEW w \in Workers
  PROVE  /\ job[w].host \in Hosts
         /\ row[job[w].host].status \in Statuses
         /\ row[job[w].host].wait \in Waits
  BY DEF TypeOK, Jobs, Rows

\* What Goto and Return leave in the workers' variables.
Control ==
    /\ lock \in [Hosts -> Workers \cup {Nobody}]
    /\ pc \in [Workers -> PCs]
    /\ job \in [Workers -> Jobs]
    /\ issued \in [Workers -> Certs]
    /\ verdict \in [Workers -> {"dns_wait", "error"}]
    /\ expired \subseteq Requests

LEMMA ReturnType ==
  ASSUME TypeOK, NEW w \in Workers, Return(w)
  PROVE  Control'
  BY Nothing DEF Return, TypeOK, Control, PCs, Jobs

LEMMA GotoType ==
  ASSUME TypeOK, NEW w \in Workers, NEW l \in PCs, Goto(w, l)
  PROVE  Control'
  BY DEF Goto, TypeOK, Control

LEMMA FailingType ==
  ASSUME TypeOK, NEW w \in Workers, NEW s \in {"dns_wait", "error"}, Failing(w, s)
  PROVE  Control' /\ failures' \in [Hosts -> 0 .. MaxCounted]
  BY CountRange DEF Failing, TypeOK, Control, PCs, Jobs

--------------------------------------------------------------------------------
(* Types.                                                                   *)

\* Every step keeps the types; fail's delay needs the count it has just raised.
LEMMA TypeStep ==
  ASSUME TypeOK, FailureCounted, [Next]_vars
  PROVE  TypeOK'
<1>1. ASSUME NEW h \in Hosts, Track(h)
        PROVE  TypeOK'
  BY <1>1, WaitValues
    DEF Track, Regenerate, Published, Rows, Statuses, TypeOK, durable, memory
<1>2. ASSUME NEW h \in Hosts, Drop(h)
        PROVE  TypeOK'
  BY <1>2, Nothing DEF Drop, Regenerate, Published, TypeOK, durable, memory
<1>3. ASSUME NEW h \in Hosts, BecomeDue(h)
        PROVE  TypeOK'
  BY <1>3, WaitValues DEF BecomeDue, With, Rows, TypeOK, durable, memory
<1>4. CASE AdminRegenerates
  BY <1>4 DEF AdminRegenerates, Published, TypeOK, durable, memory
<1>5. CASE Scan
  BY <1>5 DEF Scan, DueForRenewal, Jobs, Rows, TypeOK, durable, memory
<1>6. CASE TakeDue
  BY <1>6 DEF TakeDue, Start, Jobs, PCs, Workers, TypeOK, durable, memory
<1>7. ASSUME NEW w \in Workers, NEW h \in Hosts, Request(w, h)
        PROVE  TypeOK'
  BY <1>7 DEF Request, Start, Jobs, Rows, PCs, TypeOK, durable, memory
<1>8. ASSUME NEW w \in Workers, Expire(w)
        PROVE  TypeOK'
  BY <1>8 DEF Expire, TypeOK, durable, memory
<1>9. ASSUME NEW w \in Workers, Lock(w)
        PROVE  TypeOK'
  BY <1>9 DEF Lock, Jobs, PCs, TypeOK, durable, memory
<1>10. ASSUME NEW w \in Workers, PreflightFails(w)
        PROVE  TypeOK'
  BY <1>10, FailingType DEF PreflightFails, Control, TypeOK, durable, memory
<1>11. ASSUME NEW w \in Workers, Begin(w)
        PROVE  TypeOK'
  <2>1. row' \in [Hosts -> Rows]
    <3>1. CASE Update(w, "issuing", row[job[w].host].wait)
      BY <3>1, OwnRowType, UpdateType DEF Statuses
    <3>2. CASE UNCHANGED row
      BY <3>2 DEF TypeOK
    <3>3. QED
      BY <1>11, <3>1, <3>2 DEF Begin
  <2>2. Control'
    BY <1>11, GotoType, ReturnType DEF Begin, PCs
  <2>3. QED
    BY <1>11, <2>1, <2>2 DEF Begin, Control, TypeOK
<1>12. ASSUME NEW w \in Workers, IssueFails(w)
        PROVE  TypeOK'
  BY <1>12, FailingType DEF IssueFails, Control, TypeOK, durable, memory
<1>13. ASSUME NEW w \in Workers, Issue(w)
        PROVE  TypeOK'
  BY <1>13 DEF Issue, Certs, Jobs, PCs, TypeOK, durable, memory
<1>14. ASSUME NEW w \in Workers, WriteCert(w)
        PROVE  TypeOK'
  BY <1>14 DEF WriteCert, Goto, Jobs, PCs, TypeOK, durable, memory
<1>15. ASSUME NEW w \in Workers, WriteKey(w)
        PROVE  TypeOK'
  BY <1>15 DEF WriteKey, Goto, Jobs, PCs, TypeOK, durable, memory
<1>16. ASSUME NEW w \in Workers, WriteFails(w)
        PROVE  TypeOK'
  BY <1>16, FailingType DEF WriteFails, Control, TypeOK, durable, memory
<1>17. ASSUME NEW w \in Workers, Record(w)
        PROVE  TypeOK'
  <2>1. row' \in [Hosts -> Rows]
    <3>1. CASE Update(w, "active", RenewWait)
      BY <3>1, WaitValues, UpdateType DEF Statuses
    <3>2. CASE UNCHANGED row
      BY <3>2 DEF TypeOK
    <3>3. QED
      BY <1>17, <3>1, <3>2 DEF Record
  <2>2. Control'
    BY <1>17, GotoType, ReturnType DEF Record, PCs
  <2>3. QED
    BY <1>17, <2>1, <2>2 DEF Record, Control, TypeOK
<1>18. ASSUME NEW w \in Workers, Evict(w)
        PROVE  TypeOK'
  <2>1. promised' \in [Hosts -> Nat]
    BY <1>18 DEF Evict, Promise, Certs, TypeOK
  <2>2. Control'
    BY <1>18, GotoType DEF Evict, PCs
  <2>3. failures' \in [Hosts -> 0 .. MaxCounted] /\ cache' \in [Hosts -> Pairs]
    <3>1. 0 \in 0 .. MaxCounted /\ NoPair \in Pairs
      BY Nothing, CountRange
    <3>2. /\ failures' = [failures EXCEPT ![job[w].host] = 0]
          /\ cache' = [cache EXCEPT ![job[w].host] = NoPair]
      BY <1>18 DEF Evict
    <3>3. QED
      BY <3>1, <3>2 DEF TypeOK
  <2>4. QED
    BY <1>18, <2>1, <2>2, <2>3 DEF Evict, Control, TypeOK, durable
<1>19. ASSUME NEW w \in Workers, Publish(w)
        PROVE  TypeOK'
  BY <1>19, ReturnType
    DEF Publish, Regenerate, Published, Control, TypeOK, durable, memory
<1>20. ASSUME NEW w \in Workers, FailRecord(w)
        PROVE  TypeOK'
  <2>1. row' \in [Hosts -> Rows]
    <3>1. CASE Update(w, verdict[w], row[job[w].host].wait)
      <4>1. verdict[w] \in Statuses
        BY DEF TypeOK, Statuses
      <4>2. QED
        BY <3>1, <4>1, OwnRowType, UpdateType
    <3>2. CASE UNCHANGED row
      BY <3>2 DEF TypeOK
    <3>3. QED
      BY <1>20, <3>1, <3>2 DEF FailRecord
  <2>2. Control'
    BY <1>20, GotoType DEF FailRecord, PCs
  <2>3. QED
    BY <1>20, <2>1, <2>2 DEF FailRecord, Control, TypeOK
<1>21. ASSUME NEW w \in Workers, FailBackoff(w)
        PROVE  TypeOK'
  <2>1. row' \in [Hosts -> Rows]
    <3> DEFINE wait == Backoff(failures[job[w].host])
    <3>1. wait \in Waits
      BY <1>21, OwnRowType, CountRange, BackoffRange
        DEF FailBackoff, FailureCounted, TypeOK
    <3>2. CASE Update(w, row[job[w].host].status, wait)
      BY <3>1, <3>2, OwnRowType, UpdateType
    <3>3. CASE UNCHANGED row
      BY <3>3 DEF TypeOK
    <3>4. QED
      BY <1>21, <3>2, <3>3 DEF FailBackoff
  <2>2. Control'
    BY <1>21, ReturnType DEF FailBackoff
  <2>3. QED
    BY <1>21, <2>1, <2>2 DEF FailBackoff, Control, TypeOK
<1>22. ASSUME NEW r \in Handshakes, Handshake(r)
        PROVE  TypeOK'
  <2>1. hs' \in [Handshakes -> Reads] /\ cache' \in [Hosts -> Pairs]
    <3>1. ASSUME NEW h \in Hosts, Miss(r, h)
          PROVE  hs' \in [Handshakes -> Reads] /\ cache' \in [Hosts -> Pairs]
      BY <3>1, Nothing DEF Miss, Reading, TypeOK, Reads
    <3>2. CASE ReadCert(r)
      BY <3>2, Nothing DEF ReadCert, Reading, TypeOK, Reads
    <3>3. CASE ReadKey(r)
      BY <3>3, Nothing DEF ReadKey, Reading, TypeOK, Reads
    <3>4. CASE Store(r)
      BY <3>4, Nothing DEF Store, TypeOK, Reads, Pairs
    <3>5. QED
      BY <1>22, <3>1, <3>2, <3>3, <3>4 DEF Handshake
  <2>2. UNCHANGED <<durable, serial, crashes, lock, failures, due, pc, job, issued,
                    verdict, expired, promised>>
    BY <1>22 DEF Handshake, Miss, ReadCert, ReadKey, Store
  <2>3. QED
    BY <2>1, <2>2 DEF TypeOK, durable
<1>23. CASE Crash
  BY <1>23, Nothing, CountRange DEF Crash, PCs, TypeOK, durable, memory
<1>24. CASE UNCHANGED vars
  BY <1>24 DEF vars, TypeOK, durable, memory
<1>25. QED
  BY <1>1, <1>2, <1>3, <1>4, <1>5, <1>6, <1>7, <1>8, <1>9, <1>10, <1>11,
     <1>12, <1>13, <1>14, <1>15, <1>16, <1>17, <1>18, <1>19, <1>20, <1>21,
     <1>22, <1>23, <1>24
     DEF Next, UnderLock

--------------------------------------------------------------------------------
(* Mutual exclusion.                                                        *)

\* Two workers under a mutex work on different hostnames.
LEMMA Apart ==
  ASSUME HoldsMutex, NEW v \in Workers, NEW w \in Workers, v # w, Inside(v), Inside(w)
  PROVE  job[v].host # job[w].host
  BY DEF HoldsMutex

LEMMA GotoMutex ==
  ASSUME TypeOK, HoldsMutex, NEW w \in Workers, Inside(w), NEW l, Goto(w, l)
  PROVE  HoldsMutex'
  BY DEF Goto, HoldsMutex, Inside, TypeOK

LEMMA ReturnMutex ==
  ASSUME TypeOK, HoldsMutex, NEW w \in Workers, Inside(w), Return(w)
  PROVE  HoldsMutex'
  BY Apart DEF Return, HoldsMutex, Inside, TypeOK, Jobs

\* The mutex is taken when free and given back by its holder.
LEMMA MutexStep ==
  ASSUME TypeOK, HoldsMutex, [Next]_vars
  PROVE  HoldsMutex'
<1>1. ASSUME NEW h \in Hosts, Track(h)
        PROVE  HoldsMutex'
  BY <1>1 DEF Track, Regenerate, Published, HoldsMutex, Inside, TypeOK, memory
<1>2. ASSUME NEW h \in Hosts, Drop(h)
        PROVE  HoldsMutex'
  BY <1>2 DEF Drop, Regenerate, Published, HoldsMutex, Inside, TypeOK, memory
<1>3. ASSUME NEW h \in Hosts, BecomeDue(h)
        PROVE  HoldsMutex'
  BY <1>3 DEF BecomeDue, HoldsMutex, Inside, TypeOK, memory
<1>4. CASE AdminRegenerates
  BY <1>4 DEF AdminRegenerates, Published, HoldsMutex, Inside, TypeOK, memory
<1>5. CASE Scan
  BY <1>5 DEF Scan, DueForRenewal, HoldsMutex, Inside, TypeOK, memory
<1>6. CASE TakeDue
  BY <1>6 DEF TakeDue, Start, RowOf, HoldsMutex, Inside, TypeOK, memory
<1>7. ASSUME NEW w \in Workers, NEW h \in Hosts, Request(w, h)
        PROVE  HoldsMutex'
  BY <1>7 DEF Request, Start, HoldsMutex, Inside, TypeOK, memory
<1>8. ASSUME NEW w \in Workers, Expire(w)
        PROVE  HoldsMutex'
  BY <1>8 DEF Expire, HoldsMutex, Inside, TypeOK, memory
<1>9. ASSUME NEW w \in Workers, Lock(w)
        PROVE  HoldsMutex'
  BY <1>9, NobodyAssumption DEF Lock, HoldsMutex, Inside, TypeOK, Jobs
<1>10. ASSUME NEW w \in Workers, PreflightFails(w)
        PROVE  HoldsMutex'
  BY <1>10 DEF PreflightFails, Failing, HoldsMutex, Inside, TypeOK, memory
<1>11. ASSUME NEW w \in Workers, Begin(w)
        PROVE  HoldsMutex'
  BY <1>11, GotoMutex, ReturnMutex DEF Begin, Inside
<1>12. ASSUME NEW w \in Workers, IssueFails(w)
        PROVE  HoldsMutex'
  BY <1>12 DEF IssueFails, Failing, HoldsMutex, Inside, TypeOK, memory
<1>13. ASSUME NEW w \in Workers, Issue(w)
        PROVE  HoldsMutex'
  BY <1>13 DEF Issue, HoldsMutex, Inside, TypeOK, memory
<1>14. ASSUME NEW w \in Workers, WriteCert(w)
        PROVE  HoldsMutex'
  BY <1>14 DEF WriteCert, Goto, HoldsMutex, Inside, TypeOK, memory
<1>15. ASSUME NEW w \in Workers, WriteKey(w)
        PROVE  HoldsMutex'
  BY <1>15 DEF WriteKey, Goto, HoldsMutex, Inside, TypeOK, memory
<1>16. ASSUME NEW w \in Workers, WriteFails(w)
        PROVE  HoldsMutex'
  BY <1>16 DEF WriteFails, Failing, HoldsMutex, Inside, TypeOK, memory
<1>17. ASSUME NEW w \in Workers, Record(w)
        PROVE  HoldsMutex'
  BY <1>17, GotoMutex, ReturnMutex DEF Record, Inside
<1>18. ASSUME NEW w \in Workers, Evict(w)
        PROVE  HoldsMutex'
  BY <1>18 DEF Evict, Goto, HoldsMutex, Inside, TypeOK, memory
<1>19. ASSUME NEW w \in Workers, Publish(w)
        PROVE  HoldsMutex'
  BY <1>19
    DEF Publish, Return, Regenerate, Published, HoldsMutex, Inside, TypeOK, memory
<1>20. ASSUME NEW w \in Workers, FailRecord(w)
        PROVE  HoldsMutex'
  BY <1>20 DEF FailRecord, Update, RowOf, Goto, HoldsMutex, Inside, TypeOK, memory
<1>21. ASSUME NEW w \in Workers, FailBackoff(w)
        PROVE  HoldsMutex'
  BY <1>21
    DEF FailBackoff, Update, RowOf, Return, HoldsMutex, Inside, TypeOK, memory
<1>22. ASSUME NEW r \in Handshakes, Handshake(r)
        PROVE  HoldsMutex'
  BY <1>22
    DEF Handshake, Miss, ReadCert, ReadKey, Store, HoldsMutex, Inside, TypeOK,
        memory
<1>23. CASE Crash
  BY <1>23 DEF Crash, HoldsMutex, Inside, TypeOK, memory
<1>24. CASE UNCHANGED vars
  BY <1>24 DEF vars, memory, HoldsMutex, Inside
<1>25. QED
  BY <1>1, <1>2, <1>3, <1>4, <1>5, <1>6, <1>7, <1>8, <1>9, <1>10, <1>11,
     <1>12, <1>13, <1>14, <1>15, <1>16, <1>17, <1>18, <1>19, <1>20, <1>21,
     <1>22, <1>23, <1>24
     DEF Next, UnderLock

LEMMA FailingCounted ==
  ASSUME TypeOK, HoldsMutex, FailureCounted, NEW w \in Workers, NEW s, Failing(w, s)
  PROVE  FailureCounted'
<1> SUFFICES ASSUME NEW v \in Workers, pc'[v] \in {"failing", "backoff"}
             PROVE  failures'[job'[v].host] > 0
  BY DEF FailureCounted
<1>1. job'[v] = job[v] /\ job[v].host \in Hosts /\ job[w].host \in Hosts
  BY DEF Failing, TypeOK, Jobs
<1>2. CASE job[v].host = job[w].host
  BY <1>1, <1>2, CountRange DEF Failing, TypeOK
<1>3. CASE job[v].host # job[w].host
  BY <1>1, <1>3 DEF Failing, FailureCounted, TypeOK
<1>4. QED
  BY <1>2, <1>3

\* Only the holder of the mutex resets a count.
LEMMA CountedStep ==
  ASSUME TypeOK, HoldsMutex, FailureCounted, [Next]_vars
  PROVE  FailureCounted'
<1>1. ASSUME NEW h \in Hosts, Track(h)
        PROVE  FailureCounted'
  BY <1>1, Apart
    DEF Track, Regenerate, Published, FailureCounted, HoldsMutex, Inside, TypeOK,
        memory
<1>2. ASSUME NEW h \in Hosts, Drop(h)
        PROVE  FailureCounted'
  BY <1>2, Apart
    DEF Drop, Regenerate, Published, FailureCounted, HoldsMutex, Inside, TypeOK,
        memory
<1>3. ASSUME NEW h \in Hosts, BecomeDue(h)
        PROVE  FailureCounted'
  BY <1>3, Apart DEF BecomeDue, FailureCounted, HoldsMutex, Inside, TypeOK, memory
<1>4. CASE AdminRegenerates
  BY <1>4, Apart
    DEF AdminRegenerates, Published, FailureCounted, HoldsMutex, Inside, TypeOK,
        memory
<1>5. CASE Scan
  BY <1>5, Apart
    DEF Scan, DueForRenewal, FailureCounted, HoldsMutex, Inside, TypeOK, memory
<1>6. CASE TakeDue
  BY <1>6, Apart
    DEF TakeDue, Start, RowOf, FailureCounted, HoldsMutex, Inside, TypeOK, memory
<1>7. ASSUME NEW w \in Workers, NEW h \in Hosts, Request(w, h)
        PROVE  FailureCounted'
  BY <1>7, Apart
    DEF Request, Start, FailureCounted, HoldsMutex, Inside, TypeOK, memory
<1>8. ASSUME NEW w \in Workers, Expire(w)
        PROVE  FailureCounted'
  BY <1>8, Apart DEF Expire, FailureCounted, HoldsMutex, Inside, TypeOK, memory
<1>9. ASSUME NEW w \in Workers, Lock(w)
        PROVE  FailureCounted'
  BY <1>9, Apart DEF Lock, FailureCounted, HoldsMutex, Inside, TypeOK, memory
<1>10. ASSUME NEW w \in Workers, PreflightFails(w)
        PROVE  FailureCounted'
  BY <1>10, FailingCounted DEF PreflightFails, Inside
<1>11. ASSUME NEW w \in Workers, Begin(w)
        PROVE  FailureCounted'
  BY <1>11, Apart
    DEF Begin, Update, RowOf, Goto, Return, FailureCounted, HoldsMutex, Inside,
        TypeOK, memory
<1>12. ASSUME NEW w \in Workers, IssueFails(w)
        PROVE  FailureCounted'
  BY <1>12, FailingCounted DEF IssueFails, Inside
<1>13. ASSUME NEW w \in Workers, Issue(w)
        PROVE  FailureCounted'
  BY <1>13, Apart DEF Issue, FailureCounted, HoldsMutex, Inside, TypeOK, memory
<1>14. ASSUME NEW w \in Workers, WriteCert(w)
        PROVE  FailureCounted'
  BY <1>14, Apart
    DEF WriteCert, Goto, FailureCounted, HoldsMutex, Inside, TypeOK, memory
<1>15. ASSUME NEW w \in Workers, WriteKey(w)
        PROVE  FailureCounted'
  BY <1>15, Apart
    DEF WriteKey, Goto, FailureCounted, HoldsMutex, Inside, TypeOK, memory
<1>16. ASSUME NEW w \in Workers, WriteFails(w)
        PROVE  FailureCounted'
  BY <1>16, FailingCounted DEF WriteFails, Inside
<1>17. ASSUME NEW w \in Workers, Record(w)
        PROVE  FailureCounted'
  BY <1>17, Apart
    DEF Record, Update, RowOf, Goto, Return, FailureCounted, HoldsMutex, Inside,
        TypeOK, memory
<1>18. ASSUME NEW w \in Workers, Evict(w)
        PROVE  FailureCounted'
  BY <1>18, Apart
    DEF Evict, Goto, FailureCounted, HoldsMutex, Inside, TypeOK, memory
<1>19. ASSUME NEW w \in Workers, Publish(w)
        PROVE  FailureCounted'
  BY <1>19, Apart
    DEF Publish, Return, Regenerate, Published, FailureCounted, HoldsMutex, Inside,
        TypeOK, memory
<1>20. ASSUME NEW w \in Workers, FailRecord(w)
        PROVE  FailureCounted'
  BY <1>20, Apart
    DEF FailRecord, Update, RowOf, Goto, FailureCounted, HoldsMutex, Inside, TypeOK,
        memory
<1>21. ASSUME NEW w \in Workers, FailBackoff(w)
        PROVE  FailureCounted'
  BY <1>21, Apart
    DEF FailBackoff, Update, RowOf, Return, FailureCounted, HoldsMutex, Inside,
        TypeOK, memory
<1>22. ASSUME NEW r \in Handshakes, Handshake(r)
        PROVE  FailureCounted'
  BY <1>22, Apart
    DEF Handshake, Miss, ReadCert, ReadKey, Store, FailureCounted, HoldsMutex,
        Inside, TypeOK, memory
<1>23. CASE Crash
  BY <1>23, Apart DEF Crash, FailureCounted, HoldsMutex, Inside, TypeOK, memory
<1>24. CASE UNCHANGED vars
  BY <1>24 DEF vars, memory, FailureCounted
<1>25. QED
  BY <1>1, <1>2, <1>3, <1>4, <1>5, <1>6, <1>7, <1>8, <1>9, <1>10, <1>11,
     <1>12, <1>13, <1>14, <1>15, <1>16, <1>17, <1>18, <1>19, <1>20, <1>21,
     <1>22, <1>23, <1>24
     DEF Next, UnderLock

--------------------------------------------------------------------------------
\* Types hold in every state; the mutex and the count they need come along.
Grounded == TypeOK /\ HoldsMutex /\ FailureCounted

LEMMA GroundedAlways == Spec => []Grounded
<1>1. Init => Grounded
  BY Nothing, CountRange
     DEF Init, Grounded, TypeOK, HoldsMutex, Inside, FailureCounted, PCs
<1>2. Grounded /\ [Next]_vars => Grounded'
  BY TypeStep, MutexStep, CountedStep DEF Grounded
<1>3. QED
  BY <1>1, <1>2, PTL DEF Spec

\* TypeOK for every instance: also renew_after is never pushed further than a
\* day by a failure, whatever the schedule of delays.
THEOREM TypeCorrect == Spec => []TypeOK
<1>1. Grounded => TypeOK
  BY DEF Grounded
<1>2. QED
  BY <1>1, GroundedAlways, PTL

\* An issuance past lock.Lock() holds its hostname's mutex.
THEOREM MutualExclusion == Spec => []HoldsMutex
<1>1. Grounded => HoldsMutex
  BY DEF Grounded
<1>2. QED
  BY <1>1, GroundedAlways, PTL


--------------------------------------------------------------------------------
(* The PEM files: the pair of an active certificate, and the order in which *)
(* issuances reach the disk.                                                *)

(* Row ids.                                                                 *)

\* An UPDATE keeps the ids of the rows, and never makes a row look absent.
LEMMA UpdateRowIds ==
  ASSUME TypeOK, RowIds, NEW w \in Workers, NEW s, NEW t,
         job[w].id > 0, RowOf(job[w].host, job[w].id) => s # "none",
         Update(w, s, t), UNCHANGED nextId
  PROVE  RowIds'
<1>1. CASE RowOf(job[w].host, job[w].id)
  <2>1. row' = [row EXCEPT ![job[w].host] = With(row[job[w].host], s, t)]
    BY <1>1 DEF Update
  <2>2. With(row[job[w].host], s, t).id = job[w].id /\ With(row[job[w].host], s, t).status = s
    BY <1>1 DEF With, RowOf
  <2>3. ASSUME NEW h \in Hosts
        PROVE  IF h = job[w].host THEN row'[h].id = job[w].id /\ row'[h].status = s
                                  ELSE row'[h] = row[h]
    BY <2>1, <2>2 DEF TypeOK, Jobs
  <2>4. row[job[w].host].id = job[w].id /\ job[w].host \in Hosts
    BY <1>1 DEF RowOf, TypeOK, Jobs
  <2>5. QED
    BY <1>1, <2>3, <2>4 DEF RowIds
<1>2. CASE ~ RowOf(job[w].host, job[w].id)
  BY <1>2 DEF Update, RowIds
<1>3. QED
  BY <1>1, <1>2

\* Ids are handed out upwards, and updates keep them.
LEMMA RowIdsStep ==
  ASSUME TypeOK, RowIds, JobIds, [Next]_vars
  PROVE  RowIds'
<1>1. ASSUME NEW h \in Hosts, Track(h)
        PROVE  RowIds'
  BY <1>1 DEF Track, With, NoRow, Rows, RowIds, TypeOK
<1>2. ASSUME NEW h \in Hosts, Drop(h)
        PROVE  RowIds'
  BY <1>2 DEF Drop, With, NoRow, Rows, RowIds, TypeOK
<1>3. ASSUME NEW h \in Hosts, BecomeDue(h)
        PROVE  RowIds'
  BY <1>3 DEF BecomeDue, With, NoRow, Rows, RowIds, TypeOK
<1>4. CASE AdminRegenerates
  BY <1>4 DEF AdminRegenerates, Published, RowIds, durable
<1>5. CASE Scan
  BY <1>5 DEF Scan, DueForRenewal, RowIds, durable
<1>6. CASE TakeDue
  BY <1>6 DEF TakeDue, Start, RowOf, RowIds, durable
<1>7. ASSUME NEW w \in Workers, NEW h \in Hosts, Request(w, h)
        PROVE  RowIds'
  BY <1>7 DEF Request, Start, RowIds, durable
<1>8. ASSUME NEW w \in Workers, Expire(w)
        PROVE  RowIds'
  BY <1>8 DEF Expire, RowIds, durable
<1>9. ASSUME NEW w \in Workers, Lock(w)
        PROVE  RowIds'
  BY <1>9 DEF Lock, RowIds, durable
<1>10. ASSUME NEW w \in Workers, PreflightFails(w)
        PROVE  RowIds'
  BY <1>10 DEF PreflightFails, Failing, RowIds, durable
<1>11. ASSUME NEW w \in Workers, Begin(w)
        PROVE  RowIds'
  <2>1. CASE Update(w, "issuing", row[job[w].host].wait)
    BY <1>11, <2>1, UpdateRowIds DEF Begin, TypeOK, RowIds, JobIds, RowOf
  <2>2. CASE UNCHANGED row
    BY <1>11, <2>2 DEF Begin, RowIds
  <2>3. QED
    BY <1>11, <2>1, <2>2 DEF Begin
<1>12. ASSUME NEW w \in Workers, IssueFails(w)
        PROVE  RowIds'
  BY <1>12 DEF IssueFails, Failing, RowIds, durable
<1>13. ASSUME NEW w \in Workers, Issue(w)
        PROVE  RowIds'
  BY <1>13 DEF Issue, RowIds, durable
<1>14. ASSUME NEW w \in Workers, WriteCert(w)
        PROVE  RowIds'
  BY <1>14 DEF WriteCert, Goto, RowIds, durable
<1>15. ASSUME NEW w \in Workers, WriteKey(w)
        PROVE  RowIds'
  BY <1>15 DEF WriteKey, Goto, RowIds, durable
<1>16. ASSUME NEW w \in Workers, WriteFails(w)
        PROVE  RowIds'
  BY <1>16 DEF WriteFails, Failing, RowIds, durable
<1>17. ASSUME NEW w \in Workers, Record(w)
        PROVE  RowIds'
  <2>1. CASE Update(w, "active", RenewWait)
    BY <1>17, <2>1, UpdateRowIds DEF Record, TypeOK, RowIds, JobIds, RowOf
  <2>2. CASE UNCHANGED row
    BY <1>17, <2>2 DEF Record, RowIds
  <2>3. QED
    BY <1>17, <2>1, <2>2 DEF Record
<1>18. ASSUME NEW w \in Workers, Evict(w)
        PROVE  RowIds'
  BY <1>18 DEF Evict, Goto, RowIds, durable
<1>19. ASSUME NEW w \in Workers, Publish(w)
        PROVE  RowIds'
  BY <1>19 DEF Publish, Return, Regenerate, Published, RowIds, durable
<1>20. ASSUME NEW w \in Workers, FailRecord(w)
        PROVE  RowIds'
  <2>1. CASE Update(w, verdict[w], row[job[w].host].wait)
    BY <1>20, <2>1, UpdateRowIds DEF FailRecord, TypeOK, RowIds, JobIds, RowOf
  <2>2. CASE UNCHANGED row
    BY <1>20, <2>2 DEF FailRecord, RowIds
  <2>3. QED
    BY <1>20, <2>1, <2>2 DEF FailRecord
<1>21. ASSUME NEW w \in Workers, FailBackoff(w)
        PROVE  RowIds'
  <2>1. CASE Update(w, row[job[w].host].status, Backoff(failures[job[w].host]))
    BY <1>21, <2>1, UpdateRowIds
      DEF FailBackoff, TypeOK, RowIds, JobIds, RowOf, NoRow, Jobs
  <2>2. CASE UNCHANGED row
    BY <1>21, <2>2 DEF FailBackoff, RowIds
  <2>3. QED
    BY <1>21, <2>1, <2>2 DEF FailBackoff
<1>22. ASSUME NEW r \in Handshakes, Handshake(r)
        PROVE  RowIds'
  BY <1>22 DEF Handshake, Miss, ReadCert, ReadKey, Store, RowIds, durable
<1>23. CASE Crash
  BY <1>23 DEF Crash, RowIds, durable
<1>24. CASE UNCHANGED vars
  BY <1>24 DEF vars, durable, RowIds
<1>25. QED
  BY <1>1, <1>2, <1>3, <1>4, <1>5, <1>6, <1>7, <1>8, <1>9, <1>10, <1>11,
     <1>12, <1>13, <1>14, <1>15, <1>16, <1>17, <1>18, <1>19, <1>20, <1>21,
     <1>22, <1>23, <1>24
     DEF Next, UnderLock

\* Jobs are started with the id of a row that exists.
LEMMA JobIdsStep ==
  ASSUME TypeOK, RowIds, JobIds, [Next]_vars
  PROVE  JobIds'
<1>1. ASSUME NEW h \in Hosts, Track(h)
        PROVE  JobIds'
  BY <1>1 DEF Track, TypeOK, Jobs, JobIds, durable, memory
<1>2. ASSUME NEW h \in Hosts, Drop(h)
        PROVE  JobIds'
  BY <1>2 DEF Drop, JobIds, durable, memory
<1>3. ASSUME NEW h \in Hosts, BecomeDue(h)
        PROVE  JobIds'
  BY <1>3 DEF BecomeDue, JobIds, durable, memory
<1>4. CASE AdminRegenerates
  BY <1>4 DEF AdminRegenerates, Published, JobIds, durable, memory
<1>5. CASE Scan
  BY <1>5 DEF Scan, DueForRenewal, RowIds, TypeOK, Rows, JobIds, durable, memory
<1>6. CASE TakeDue
  BY <1>6 DEF TakeDue, Start, RowOf, TypeOK, Jobs, Workers, JobIds, durable, memory
<1>7. ASSUME NEW w \in Workers, NEW h \in Hosts, Request(w, h)
        PROVE  JobIds'
  BY <1>7 DEF Request, Start, RowIds, TypeOK, Rows, JobIds, durable, memory
<1>8. ASSUME NEW w \in Workers, Expire(w)
        PROVE  JobIds'
  BY <1>8 DEF Expire, JobIds, durable, memory
<1>9. ASSUME NEW w \in Workers, Lock(w)
        PROVE  JobIds'
  BY <1>9 DEF Lock, TypeOK, Idle, JobIds, durable, memory
<1>10. ASSUME NEW w \in Workers, PreflightFails(w)
        PROVE  JobIds'
  BY <1>10 DEF PreflightFails, Failing, TypeOK, Idle, JobIds, durable, memory
<1>11. ASSUME NEW w \in Workers, Begin(w)
        PROVE  JobIds'
  BY <1>11 DEF Begin, Goto, Return, TypeOK, Idle, JobIds, durable, memory
<1>12. ASSUME NEW w \in Workers, IssueFails(w)
        PROVE  JobIds'
  BY <1>12 DEF IssueFails, Failing, TypeOK, Idle, JobIds, durable, memory
<1>13. ASSUME NEW w \in Workers, Issue(w)
        PROVE  JobIds'
  BY <1>13 DEF Issue, TypeOK, Idle, JobIds, durable, memory
<1>14. ASSUME NEW w \in Workers, WriteCert(w)
        PROVE  JobIds'
  BY <1>14 DEF WriteCert, Goto, TypeOK, Idle, JobIds, durable, memory
<1>15. ASSUME NEW w \in Workers, WriteKey(w)
        PROVE  JobIds'
  BY <1>15 DEF WriteKey, Goto, TypeOK, Idle, JobIds, durable, memory
<1>16. ASSUME NEW w \in Workers, WriteFails(w)
        PROVE  JobIds'
  BY <1>16 DEF WriteFails, Failing, TypeOK, Idle, JobIds, durable, memory
<1>17. ASSUME NEW w \in Workers, Record(w)
        PROVE  JobIds'
  BY <1>17 DEF Record, Goto, Return, TypeOK, Idle, JobIds, durable, memory
<1>18. ASSUME NEW w \in Workers, Evict(w)
        PROVE  JobIds'
  BY <1>18 DEF Evict, Goto, TypeOK, Idle, JobIds, durable, memory
<1>19. ASSUME NEW w \in Workers, Publish(w)
        PROVE  JobIds'
  BY <1>19 DEF Publish, Return, TypeOK, Idle, JobIds, durable, memory
<1>20. ASSUME NEW w \in Workers, FailRecord(w)
        PROVE  JobIds'
  BY <1>20 DEF FailRecord, Goto, TypeOK, Idle, JobIds, durable, memory
<1>21. ASSUME NEW w \in Workers, FailBackoff(w)
        PROVE  JobIds'
  BY <1>21 DEF FailBackoff, Return, TypeOK, Idle, JobIds, durable, memory
<1>22. ASSUME NEW r \in Handshakes, Handshake(r)
        PROVE  JobIds'
  BY <1>22 DEF Handshake, Miss, ReadCert, ReadKey, Store, JobIds, durable, memory
<1>23. CASE Crash
  BY <1>23 DEF Crash, TypeOK, Idle, JobIds, durable, memory
<1>24. CASE UNCHANGED vars
  BY <1>24 DEF vars, durable, memory, JobIds
<1>25. QED
  BY <1>1, <1>2, <1>3, <1>4, <1>5, <1>6, <1>7, <1>8, <1>9, <1>10, <1>11,
     <1>12, <1>13, <1>14, <1>15, <1>16, <1>17, <1>18, <1>19, <1>20, <1>21,
     <1>22, <1>23, <1>24
     DEF Next, UnderLock

--------------------------------------------------------------------------------
(* The row of an attempt.                                                   *)

\* Where an attempt has contacted the authority and not recorded a verdict.
Trying(w) ==
    \/ pc[w] \in {"issue", "cert", "key", "record"}
    \/ pc[w] = "failing" /\ verdict[w] = "error"

\* An update by one worker leaves the row of every other attempt alone.
LEMMA UpdateElsewhere ==
  ASSUME TypeOK, NEW w \in Workers, NEW s, NEW t, Update(w, s, t),
         NEW h \in Hosts, h # job[w].host
  PROVE  row'[h] = row[h]
  BY DEF Update, TypeOK

\* It leaves no other trace than the status and the delay of its own row.
LEMMA UpdateOwn ==
  ASSUME TypeOK, NEW w \in Workers, NEW s, NEW t, Update(w, s, t)
  PROVE  /\ row'[job[w].host].id = row[job[w].host].id
         /\ RowOf(job[w].host, job[w].id) => row'[job[w].host].status = s
         /\ ~ RowOf(job[w].host, job[w].id) => row'[job[w].host] = row[job[w].host]
<1>1. job[w].host \in Hosts
  BY OwnRowType
<1>2. CASE RowOf(job[w].host, job[w].id)
  <2>1. row'[job[w].host] = With(row[job[w].host], s, t)
    BY <1>1, <1>2 DEF Update, TypeOK
  <2>2. QED
    BY <1>2, <2>1 DEF With
<1>3. CASE ~ RowOf(job[w].host, job[w].id)
  BY <1>3 DEF Update
<1>4. QED
  BY <1>2, <1>3

\* A row an attempt works on keeps saying issuing: a re-created row has a new id,
\* and no other attempt is on the same hostname.
LEMMA TryingStep ==
  ASSUME TypeOK, HoldsMutex, JobIds, IssuingWhileTrying, [Next]_vars
  PROVE  IssuingWhileTrying'
<1>1. ASSUME NEW h \in Hosts, Track(h)
        PROVE  IssuingWhileTrying'
  BY <1>1
    DEF Track, TypeOK, Jobs, Rows, JobIds, IssuingWhileTrying, RowOf, durable,
        memory
<1>2. ASSUME NEW h \in Hosts, Drop(h)
        PROVE  IssuingWhileTrying'
  BY <1>2
    DEF Drop, TypeOK, Jobs, JobIds, NoRow, IssuingWhileTrying, RowOf, durable,
        memory
<1>3. ASSUME NEW h \in Hosts, BecomeDue(h)
        PROVE  IssuingWhileTrying'
  BY <1>3
    DEF BecomeDue, With, TypeOK, Jobs, IssuingWhileTrying, RowOf, durable, memory
<1>4. CASE AdminRegenerates
  BY <1>4
    DEF AdminRegenerates, Published, TypeOK, IssuingWhileTrying, RowOf, durable,
        memory
<1>5. CASE Scan
  BY <1>5
    DEF Scan, DueForRenewal, TypeOK, IssuingWhileTrying, RowOf, durable, memory
<1>6. CASE TakeDue
  BY <1>6 DEF TakeDue, Start, TypeOK, IssuingWhileTrying, RowOf, durable, memory
<1>7. ASSUME NEW w \in Workers, NEW h \in Hosts, Request(w, h)
        PROVE  IssuingWhileTrying'
  BY <1>7 DEF Request, Start, TypeOK, IssuingWhileTrying, RowOf, durable, memory
<1>8. ASSUME NEW w \in Workers, Expire(w)
        PROVE  IssuingWhileTrying'
  BY <1>8 DEF Expire, TypeOK, IssuingWhileTrying, RowOf, durable, memory
<1>9. ASSUME NEW w \in Workers, Lock(w)
        PROVE  IssuingWhileTrying'
  BY <1>9 DEF Lock, TypeOK, IssuingWhileTrying, RowOf, durable, memory
<1>10. ASSUME NEW w \in Workers, PreflightFails(w)
        PROVE  IssuingWhileTrying'
  BY <1>10 DEF PreflightFails, Failing, IssuingWhileTrying, TypeOK, RowOf, durable
<1>11. ASSUME NEW w \in Workers, Begin(w)
        PROVE  IssuingWhileTrying'
  <2> SUFFICES ASSUME NEW v \in Workers, Trying(v)', RowOf(job[v].host, job[v].id)'
               PROVE  row'[job'[v].host].status = "issuing"
    BY DEF Trying, IssuingWhileTrying
  <2>1. CASE v = w
    <3>1. Update(w, "issuing", row[job[w].host].wait) /\ job'[w] = job[w]
      BY <1>11, <2>1 DEF Begin, Goto, Return, Trying, TypeOK, PCs
    <3>2. QED
      BY <2>1, <3>1, UpdateOwn DEF RowOf
  <2>2. CASE v # w
    <3>1. Trying(v) /\ job'[v] = job[v] /\ job[v].host \in Hosts
      BY <1>11, <2>2, OwnRowType DEF Begin, Goto, Return, Trying, TypeOK
    <3>2. job[v].host # job[w].host
      BY <1>11, <2>2, <3>1, Apart DEF Begin, Trying, Inside
    <3>3. row'[job[v].host] = row[job[v].host]
      BY <1>11, <3>1, <3>2, UpdateElsewhere DEF Begin
    <3>4. QED
      BY <3>1, <3>3 DEF Trying, IssuingWhileTrying, RowOf
  <2>3. QED
    BY <2>1, <2>2
<1>12. ASSUME NEW w \in Workers, IssueFails(w)
        PROVE  IssuingWhileTrying'
  BY <1>12 DEF IssueFails, Failing, IssuingWhileTrying, TypeOK, RowOf, durable
<1>13. ASSUME NEW w \in Workers, Issue(w)
        PROVE  IssuingWhileTrying'
  BY <1>13 DEF Issue, TypeOK, IssuingWhileTrying, RowOf, durable, memory
<1>14. ASSUME NEW w \in Workers, WriteCert(w)
        PROVE  IssuingWhileTrying'
  BY <1>14 DEF WriteCert, Goto, TypeOK, IssuingWhileTrying, RowOf, durable, memory
<1>15. ASSUME NEW w \in Workers, WriteKey(w)
        PROVE  IssuingWhileTrying'
  BY <1>15 DEF WriteKey, Goto, TypeOK, IssuingWhileTrying, RowOf, durable, memory
<1>16. ASSUME NEW w \in Workers, WriteFails(w)
        PROVE  IssuingWhileTrying'
  BY <1>16 DEF WriteFails, Failing, IssuingWhileTrying, TypeOK, RowOf, durable
<1>17. ASSUME NEW w \in Workers, Record(w)
        PROVE  IssuingWhileTrying'
  <2> SUFFICES ASSUME NEW v \in Workers, Trying(v)', RowOf(job[v].host, job[v].id)'
               PROVE  row'[job'[v].host].status = "issuing"
    BY DEF Trying, IssuingWhileTrying
  <2>1. CASE v = w
    BY <1>17, <2>1 DEF Record, Goto, Return, Trying, TypeOK, PCs
  <2>2. CASE v # w
    <3>1. Trying(v) /\ job'[v] = job[v] /\ job[v].host \in Hosts
      BY <1>17, <2>2, OwnRowType DEF Record, Goto, Return, Trying, TypeOK
    <3>2. job[v].host # job[w].host
      BY <1>17, <2>2, <3>1, Apart DEF Record, Trying, Inside
    <3>3. row'[job[v].host] = row[job[v].host]
      BY <1>17, <3>1, <3>2, UpdateElsewhere DEF Record
    <3>4. QED
      BY <3>1, <3>3 DEF Trying, IssuingWhileTrying, RowOf
  <2>3. QED
    BY <2>1, <2>2
<1>18. ASSUME NEW w \in Workers, Evict(w)
        PROVE  IssuingWhileTrying'
  BY <1>18 DEF Evict, Goto, TypeOK, IssuingWhileTrying, RowOf, durable, memory
<1>19. ASSUME NEW w \in Workers, Publish(w)
        PROVE  IssuingWhileTrying'
  BY <1>19 DEF Publish, Return, TypeOK, IssuingWhileTrying, RowOf, durable, memory
<1>20. ASSUME NEW w \in Workers, FailRecord(w)
        PROVE  IssuingWhileTrying'
  <2> SUFFICES ASSUME NEW v \in Workers, Trying(v)', RowOf(job[v].host, job[v].id)'
               PROVE  row'[job'[v].host].status = "issuing"
    BY DEF Trying, IssuingWhileTrying
  <2>1. CASE v = w
    BY <1>20, <2>1 DEF FailRecord, Goto, Return, Trying, TypeOK, PCs
  <2>2. CASE v # w
    <3>1. Trying(v) /\ job'[v] = job[v] /\ job[v].host \in Hosts
      BY <1>20, <2>2, OwnRowType DEF FailRecord, Goto, Return, Trying, TypeOK
    <3>2. job[v].host # job[w].host
      BY <1>20, <2>2, <3>1, Apart DEF FailRecord, Trying, Inside
    <3>3. row'[job[v].host] = row[job[v].host]
      BY <1>20, <3>1, <3>2, UpdateElsewhere DEF FailRecord
    <3>4. QED
      BY <3>1, <3>3 DEF Trying, IssuingWhileTrying, RowOf
  <2>3. QED
    BY <2>1, <2>2
<1>21. ASSUME NEW w \in Workers, FailBackoff(w)
        PROVE  IssuingWhileTrying'
  <2> SUFFICES ASSUME NEW v \in Workers, Trying(v)', RowOf(job[v].host, job[v].id)'
               PROVE  row'[job'[v].host].status = "issuing"
    BY DEF Trying, IssuingWhileTrying
  <2>1. CASE v = w
    BY <1>21, <2>1 DEF FailBackoff, Goto, Return, Trying, TypeOK, PCs
  <2>2. CASE v # w
    <3>1. Trying(v) /\ job'[v] = job[v] /\ job[v].host \in Hosts
      BY <1>21, <2>2, OwnRowType DEF FailBackoff, Goto, Return, Trying, TypeOK
    <3>2. job[v].host # job[w].host
      BY <1>21, <2>2, <3>1, Apart DEF FailBackoff, Trying, Inside
    <3>3. row'[job[v].host] = row[job[v].host]
      BY <1>21, <3>1, <3>2, UpdateElsewhere DEF FailBackoff
    <3>4. QED
      BY <3>1, <3>3 DEF Trying, IssuingWhileTrying, RowOf
  <2>3. QED
    BY <2>1, <2>2
<1>22. ASSUME NEW r \in Handshakes, Handshake(r)
        PROVE  IssuingWhileTrying'
  BY <1>22
    DEF Handshake, Miss, ReadCert, ReadKey, Store, TypeOK, IssuingWhileTrying,
        RowOf, durable, memory
<1>23. CASE Crash
  BY <1>23 DEF Crash, TypeOK, IssuingWhileTrying, RowOf, durable, memory
<1>24. CASE UNCHANGED vars
  BY <1>24 DEF vars, durable, memory, IssuingWhileTrying, RowOf
<1>25. QED
  BY <1>1, <1>2, <1>3, <1>4, <1>5, <1>6, <1>7, <1>8, <1>9, <1>10, <1>11,
     <1>12, <1>13, <1>14, <1>15, <1>16, <1>17, <1>18, <1>19, <1>20, <1>21,
     <1>22, <1>23, <1>24
     DEF Next, UnderLock

--------------------------------------------------------------------------------
(* The two halves.                                                          *)

\* Nobody else writes the files of a hostname under its mutex.
LEMMA HalvesStep ==
  ASSUME TypeOK, HoldsMutex, HalvesWritten, [Next]_vars
  PROVE  HalvesWritten'
<1>1. ASSUME NEW h \in Hosts, Track(h)
        PROVE  HalvesWritten'
  BY <1>1 DEF Track, TypeOK, HalvesWritten, durable, memory
<1>2. ASSUME NEW h \in Hosts, Drop(h)
        PROVE  HalvesWritten'
  BY <1>2 DEF Drop, TypeOK, HalvesWritten, durable, memory
<1>3. ASSUME NEW h \in Hosts, BecomeDue(h)
        PROVE  HalvesWritten'
  BY <1>3 DEF BecomeDue, TypeOK, HalvesWritten, durable, memory
<1>4. CASE AdminRegenerates
  BY <1>4 DEF AdminRegenerates, Published, TypeOK, HalvesWritten, durable, memory
<1>5. CASE Scan
  BY <1>5 DEF Scan, DueForRenewal, TypeOK, HalvesWritten, durable, memory
<1>6. CASE TakeDue
  BY <1>6 DEF TakeDue, Start, TypeOK, HalvesWritten, durable, memory
<1>7. ASSUME NEW w \in Workers, NEW h \in Hosts, Request(w, h)
        PROVE  HalvesWritten'
  BY <1>7 DEF Request, Start, TypeOK, HalvesWritten, durable, memory
<1>8. ASSUME NEW w \in Workers, Expire(w)
        PROVE  HalvesWritten'
  BY <1>8 DEF Expire, TypeOK, HalvesWritten, durable, memory
<1>9. ASSUME NEW w \in Workers, Lock(w)
        PROVE  HalvesWritten'
  BY <1>9 DEF Lock, TypeOK, HalvesWritten, durable, memory
<1>10. ASSUME NEW w \in Workers, PreflightFails(w)
        PROVE  HalvesWritten'
  BY <1>10 DEF PreflightFails, Failing, TypeOK, HalvesWritten, durable, memory
<1>11. ASSUME NEW w \in Workers, Begin(w)
        PROVE  HalvesWritten'
  BY <1>11 DEF Begin, Goto, Return, TypeOK, HalvesWritten, durable, memory
<1>12. ASSUME NEW w \in Workers, IssueFails(w)
        PROVE  HalvesWritten'
  BY <1>12 DEF IssueFails, Failing, TypeOK, HalvesWritten, durable, memory
<1>13. ASSUME NEW w \in Workers, Issue(w)
        PROVE  HalvesWritten'
  BY <1>13 DEF Issue, TypeOK, HalvesWritten, durable, memory
<1>14. ASSUME NEW w \in Workers, WriteCert(w)
        PROVE  HalvesWritten'
  BY <1>14, Apart
    DEF WriteCert, Goto, Inside, Jobs, TypeOK, HalvesWritten, durable, memory
<1>15. ASSUME NEW w \in Workers, WriteKey(w)
        PROVE  HalvesWritten'
  BY <1>15, Apart
    DEF WriteKey, Goto, Inside, Jobs, TypeOK, HalvesWritten, durable, memory
<1>16. ASSUME NEW w \in Workers, WriteFails(w)
        PROVE  HalvesWritten'
  BY <1>16 DEF WriteFails, Failing, TypeOK, HalvesWritten, durable, memory
<1>17. ASSUME NEW w \in Workers, Record(w)
        PROVE  HalvesWritten'
  BY <1>17 DEF Record, Goto, Return, TypeOK, HalvesWritten, durable, memory
<1>18. ASSUME NEW w \in Workers, Evict(w)
        PROVE  HalvesWritten'
  BY <1>18, Apart DEF Evict, Goto, Inside, Jobs, TypeOK, HalvesWritten, durable, memory
<1>19. ASSUME NEW w \in Workers, Publish(w)
        PROVE  HalvesWritten'
  BY <1>19 DEF Publish, Return, TypeOK, HalvesWritten, durable, memory
<1>20. ASSUME NEW w \in Workers, FailRecord(w)
        PROVE  HalvesWritten'
  BY <1>20 DEF FailRecord, Goto, TypeOK, HalvesWritten, durable, memory
<1>21. ASSUME NEW w \in Workers, FailBackoff(w)
        PROVE  HalvesWritten'
  BY <1>21 DEF FailBackoff, Return, TypeOK, HalvesWritten, durable, memory
<1>22. ASSUME NEW r \in Handshakes, Handshake(r)
        PROVE  HalvesWritten'
  BY <1>22
    DEF Handshake, Miss, ReadCert, ReadKey, Store, TypeOK, HalvesWritten, durable,
        memory
<1>23. CASE Crash
  BY <1>23 DEF Crash, TypeOK, HalvesWritten, durable, memory
<1>24. CASE UNCHANGED vars
  BY <1>24 DEF vars, durable, memory, HalvesWritten
<1>25. QED
  BY <1>1, <1>2, <1>3, <1>4, <1>5, <1>6, <1>7, <1>8, <1>9, <1>10, <1>11,
     <1>12, <1>13, <1>14, <1>15, <1>16, <1>17, <1>18, <1>19, <1>20, <1>21,
     <1>22, <1>23, <1>24
     DEF Next, UnderLock

\* The serial an issuance is handed is newer than anything on disk.
LEMMA SerialsStep ==
  ASSUME TypeOK, HoldsMutex, HalvesWritten, SerialsInOrder, [Next]_vars
  PROVE  SerialsInOrder'
<1>1. ASSUME NEW h \in Hosts, Track(h)
        PROVE  SerialsInOrder'
  BY <1>1 DEF Track, TypeOK, SerialsInOrder, durable, memory
<1>2. ASSUME NEW h \in Hosts, Drop(h)
        PROVE  SerialsInOrder'
  BY <1>2 DEF Drop, TypeOK, SerialsInOrder, durable, memory
<1>3. ASSUME NEW h \in Hosts, BecomeDue(h)
        PROVE  SerialsInOrder'
  BY <1>3 DEF BecomeDue, TypeOK, SerialsInOrder, durable, memory
<1>4. CASE AdminRegenerates
  BY <1>4 DEF AdminRegenerates, Published, TypeOK, SerialsInOrder, durable, memory
<1>5. CASE Scan
  BY <1>5 DEF Scan, DueForRenewal, TypeOK, SerialsInOrder, durable, memory
<1>6. CASE TakeDue
  BY <1>6 DEF TakeDue, Start, TypeOK, SerialsInOrder, durable, memory
<1>7. ASSUME NEW w \in Workers, NEW h \in Hosts, Request(w, h)
        PROVE  SerialsInOrder'
  BY <1>7 DEF Request, Start, TypeOK, SerialsInOrder, durable, memory
<1>8. ASSUME NEW w \in Workers, Expire(w)
        PROVE  SerialsInOrder'
  BY <1>8 DEF Expire, TypeOK, SerialsInOrder, durable, memory
<1>9. ASSUME NEW w \in Workers, Lock(w)
        PROVE  SerialsInOrder'
  BY <1>9 DEF Lock, TypeOK, SerialsInOrder, durable, memory
<1>10. ASSUME NEW w \in Workers, PreflightFails(w)
        PROVE  SerialsInOrder'
  BY <1>10 DEF PreflightFails, Failing, TypeOK, SerialsInOrder, durable, memory
<1>11. ASSUME NEW w \in Workers, Begin(w)
        PROVE  SerialsInOrder'
  BY <1>11 DEF Begin, Goto, Return, NoCert, TypeOK, SerialsInOrder, durable, memory
<1>12. ASSUME NEW w \in Workers, IssueFails(w)
        PROVE  SerialsInOrder'
  BY <1>12 DEF IssueFails, Failing, TypeOK, SerialsInOrder, durable, memory
<1>13. ASSUME NEW w \in Workers, Issue(w)
        PROVE  SerialsInOrder'
  BY <1>13 DEF Issue, Jobs, Certs, TypeOK, SerialsInOrder, durable, memory
<1>14. ASSUME NEW w \in Workers, WriteCert(w)
        PROVE  SerialsInOrder'
  BY <1>14, Apart
    DEF WriteCert, Goto, Inside, Jobs, Certs, TypeOK, SerialsInOrder, durable,
        memory
<1>15. ASSUME NEW w \in Workers, WriteKey(w)
        PROVE  SerialsInOrder'
  BY <1>15, Apart
    DEF WriteKey, Goto, Inside, Jobs, Certs, TypeOK, SerialsInOrder, durable, memory
<1>16. ASSUME NEW w \in Workers, WriteFails(w)
        PROVE  SerialsInOrder'
  BY <1>16 DEF WriteFails, Failing, TypeOK, SerialsInOrder, durable, memory
<1>17. ASSUME NEW w \in Workers, Record(w)
        PROVE  SerialsInOrder'
  <2>1. CASE Goto(w, "evict")
    BY <1>17, <2>1 DEF Record, Goto, SerialsInOrder, TypeOK
  <2>2. CASE Return(w)
    BY <1>17, <2>2 DEF Record, Return, NoCert, SerialsInOrder, TypeOK
  <2>3. QED
    BY <1>17, <2>1, <2>2 DEF Record
<1>18. ASSUME NEW w \in Workers, Evict(w)
        PROVE  SerialsInOrder'
  BY <1>18 DEF Evict, Goto, TypeOK, SerialsInOrder, durable, memory
<1>19. ASSUME NEW w \in Workers, Publish(w)
        PROVE  SerialsInOrder'
  BY <1>19 DEF Publish, Return, NoCert, TypeOK, SerialsInOrder, durable, memory
<1>20. ASSUME NEW w \in Workers, FailRecord(w)
        PROVE  SerialsInOrder'
  BY <1>20 DEF FailRecord, Goto, TypeOK, SerialsInOrder, durable, memory
<1>21. ASSUME NEW w \in Workers, FailBackoff(w)
        PROVE  SerialsInOrder'
  BY <1>21 DEF FailBackoff, Return, NoCert, TypeOK, SerialsInOrder, durable, memory
<1>22. ASSUME NEW r \in Handshakes, Handshake(r)
        PROVE  SerialsInOrder'
  BY <1>22
    DEF Handshake, Miss, ReadCert, ReadKey, Store, TypeOK, SerialsInOrder, durable,
        memory
<1>23. CASE Crash
  BY <1>23 DEF Crash, NoCert, TypeOK, SerialsInOrder, durable, memory
<1>24. CASE UNCHANGED vars
  BY <1>24 DEF vars, durable, memory, SerialsInOrder
<1>25. QED
  BY <1>1, <1>2, <1>3, <1>4, <1>5, <1>6, <1>7, <1>8, <1>9, <1>10, <1>11,
     <1>12, <1>13, <1>14, <1>15, <1>16, <1>17, <1>18, <1>19, <1>20, <1>21,
     <1>22, <1>23, <1>24
     DEF Next, UnderLock

--------------------------------------------------------------------------------
(* An active row has its pair on disk.                                      *)

\* Only Record makes a row active, and only an attempt that has marked the row
\* issuing, or one whose row is gone, writes the files.
LEMMA PairStep ==
  ASSUME TypeOK, HoldsMutex, JobIds, IssuingWhileTrying, HalvesWritten,
         ActivePairMatches, [Next]_vars
  PROVE  ActivePairMatches'
<1>1. ASSUME NEW h \in Hosts, Track(h)
        PROVE  ActivePairMatches'
  BY <1>1 DEF Track, TypeOK, ActivePairMatches, durable
<1>2. ASSUME NEW h \in Hosts, Drop(h)
        PROVE  ActivePairMatches'
  BY <1>2 DEF Drop, NoRow, TypeOK, ActivePairMatches, durable
<1>3. ASSUME NEW h \in Hosts, BecomeDue(h)
        PROVE  ActivePairMatches'
  BY <1>3 DEF BecomeDue, With, TypeOK, ActivePairMatches, durable
<1>4. CASE AdminRegenerates
  BY <1>4 DEF AdminRegenerates, Published, ActivePairMatches, durable
<1>5. CASE Scan
  BY <1>5 DEF Scan, DueForRenewal, ActivePairMatches, durable
<1>6. CASE TakeDue
  BY <1>6 DEF TakeDue, Start, ActivePairMatches, durable
<1>7. ASSUME NEW w \in Workers, NEW h \in Hosts, Request(w, h)
        PROVE  ActivePairMatches'
  BY <1>7 DEF Request, Start, ActivePairMatches, durable
<1>8. ASSUME NEW w \in Workers, Expire(w)
        PROVE  ActivePairMatches'
  BY <1>8 DEF Expire, ActivePairMatches, durable
<1>9. ASSUME NEW w \in Workers, Lock(w)
        PROVE  ActivePairMatches'
  BY <1>9 DEF Lock, ActivePairMatches, durable
<1>10. ASSUME NEW w \in Workers, PreflightFails(w)
        PROVE  ActivePairMatches'
  BY <1>10 DEF PreflightFails, Failing, ActivePairMatches, durable
<1>11. ASSUME NEW w \in Workers, Begin(w)
        PROVE  ActivePairMatches'
  <2>1. CASE Update(w, "issuing", row[job[w].host].wait)
    <3>1. ASSUME NEW h \in Hosts, row'[h].status = "active"
          PROVE  row[h].status = "active" /\ row'[h].id = row[h].id
      <4>1. CASE h # job[w].host
        BY <2>1, <3>1, <4>1, UpdateElsewhere
      <4>2. CASE h = job[w].host
        BY <2>1, <3>1, <4>2, UpdateOwn DEF RowOf
      <4>3. QED
        BY <4>1, <4>2
    <3>2. QED
      BY <1>11, <3>1 DEF Begin, ActivePairMatches
  <2>2. CASE UNCHANGED row
    BY <1>11, <2>2 DEF Begin, ActivePairMatches
  <2>3. QED
    BY <1>11, <2>1, <2>2 DEF Begin
<1>12. ASSUME NEW w \in Workers, IssueFails(w)
        PROVE  ActivePairMatches'
  BY <1>12 DEF IssueFails, Failing, ActivePairMatches, durable
<1>13. ASSUME NEW w \in Workers, Issue(w)
        PROVE  ActivePairMatches'
  BY <1>13 DEF Issue, ActivePairMatches, durable
<1>14. ASSUME NEW w \in Workers, WriteCert(w)
        PROVE  ActivePairMatches'
  <2>1. issued[w].id = job[w].id /\ job[w].id > 0 /\ job[w].host \in Hosts
    BY <1>14, OwnRowType DEF WriteCert, HalvesWritten, JobIds
  <2>2. issued[w] # NoCert
    BY <2>1 DEF NoCert
  <2>3. row[job[w].host].status = "active" => row[job[w].host].id # job[w].id
    BY <1>14 DEF WriteCert, IssuingWhileTrying, RowOf
  <2>4. QED
    BY <1>14, <2>1, <2>2, <2>3 DEF WriteCert, ActivePairMatches, TypeOK
<1>15. ASSUME NEW w \in Workers, WriteKey(w)
        PROVE  ActivePairMatches'
  <2>1. /\ issued[w].id = job[w].id /\ job[w].id > 0 /\ job[w].host \in Hosts
        /\ certFile[job[w].host] = issued[w]
    BY <1>15, OwnRowType DEF WriteKey, HalvesWritten, JobIds
  <2>2. issued[w] # NoCert
    BY <2>1 DEF NoCert
  <2>3. QED
    BY <1>15, <2>1, <2>2 DEF WriteKey, ActivePairMatches, TypeOK
<1>16. ASSUME NEW w \in Workers, WriteFails(w)
        PROVE  ActivePairMatches'
  BY <1>16 DEF WriteFails, Failing, ActivePairMatches, durable
<1>17. ASSUME NEW w \in Workers, Record(w)
        PROVE  ActivePairMatches'
  <2>1. CASE Update(w, "active", RenewWait)
    <3>1. /\ certFile[job[w].host] = issued[w] /\ keyFile[job[w].host] = issued[w]
          /\ issued[w].id = job[w].id /\ job[w].id > 0
      BY <1>17 DEF Record, HalvesWritten, JobIds
    <3>2. ASSUME NEW h \in Hosts, row'[h].status = "active"
          PROVE  \/ h = job[w].host /\ RowOf(h, job[w].id)
                 \/ row[h].status = "active" /\ row'[h].id = row[h].id
      <4>1. CASE h # job[w].host
        BY <2>1, <3>2, <4>1, UpdateElsewhere
      <4>2. CASE h = job[w].host
        BY <2>1, <3>2, <4>2, UpdateOwn DEF RowOf
      <4>3. QED
        BY <4>1, <4>2
    <3>3. issued[w] # NoCert
      BY <3>1 DEF NoCert
    <3>4. QED
      BY <1>17, <3>1, <3>2, <3>3 DEF Record, ActivePairMatches
  <2>2. CASE UNCHANGED row
    BY <1>17, <2>2 DEF Record, ActivePairMatches
  <2>3. QED
    BY <1>17, <2>1, <2>2 DEF Record
<1>18. ASSUME NEW w \in Workers, Evict(w)
        PROVE  ActivePairMatches'
  BY <1>18 DEF Evict, Goto, ActivePairMatches, durable
<1>19. ASSUME NEW w \in Workers, Publish(w)
        PROVE  ActivePairMatches'
  BY <1>19 DEF Publish, Return, ActivePairMatches, durable
<1>20. ASSUME NEW w \in Workers, FailRecord(w)
        PROVE  ActivePairMatches'
  <2>1. CASE Update(w, verdict[w], row[job[w].host].wait)
    <3>1. ASSUME NEW h \in Hosts, row'[h].status = "active"
          PROVE  row[h].status = "active" /\ row'[h].id = row[h].id
      <4>1. CASE h # job[w].host
        BY <2>1, <3>1, <4>1, UpdateElsewhere
      <4>2. CASE h = job[w].host
        BY <2>1, <3>1, <4>2, UpdateOwn DEF RowOf, TypeOK
      <4>3. QED
        BY <4>1, <4>2
    <3>2. QED
      BY <1>20, <3>1 DEF FailRecord, ActivePairMatches
  <2>2. CASE UNCHANGED row
    BY <1>20, <2>2 DEF FailRecord, ActivePairMatches
  <2>3. QED
    BY <1>20, <2>1, <2>2 DEF FailRecord
<1>21. ASSUME NEW w \in Workers, FailBackoff(w)
        PROVE  ActivePairMatches'
  <2>1. CASE Update(w, row[job[w].host].status, Backoff(failures[job[w].host]))
    <3>1. ASSUME NEW h \in Hosts, row'[h].status = "active"
          PROVE  row[h].status = "active" /\ row'[h].id = row[h].id
      <4>1. CASE h # job[w].host
        BY <2>1, <3>1, <4>1, UpdateElsewhere
      <4>2. CASE h = job[w].host
        BY <2>1, <3>1, <4>2, UpdateOwn DEF RowOf
      <4>3. QED
        BY <4>1, <4>2
    <3>2. QED
      BY <1>21, <3>1 DEF FailBackoff, ActivePairMatches
  <2>2. CASE UNCHANGED row
    BY <1>21, <2>2 DEF FailBackoff, ActivePairMatches
  <2>3. QED
    BY <1>21, <2>1, <2>2 DEF FailBackoff
<1>22. ASSUME NEW r \in Handshakes, Handshake(r)
        PROVE  ActivePairMatches'
  BY <1>22 DEF Handshake, Miss, ReadCert, ReadKey, Store, ActivePairMatches, durable
<1>23. CASE Crash
  BY <1>23 DEF Crash, ActivePairMatches, durable
<1>24. CASE UNCHANGED vars
  BY <1>24 DEF vars, durable, ActivePairMatches
<1>25. QED
  BY <1>1, <1>2, <1>3, <1>4, <1>5, <1>6, <1>7, <1>8, <1>9, <1>10, <1>11,
     <1>12, <1>13, <1>14, <1>15, <1>16, <1>17, <1>18, <1>19, <1>20, <1>21,
     <1>22, <1>23, <1>24
     DEF Next, UnderLock

--------------------------------------------------------------------------------
(* The inductive invariant, and what it gives.                              *)

IInv ==
    /\ Grounded
    /\ RowIds /\ JobIds
    /\ IssuingWhileTrying
    /\ HalvesWritten
    /\ SerialsInOrder
    /\ ActivePairMatches

LEMMA IInvAlways == Spec => []IInv
<1>1. Init => Grounded
  BY Nothing, CountRange
     DEF Init, Grounded, TypeOK, HoldsMutex, Inside, FailureCounted, PCs
<1>2. Init => IInv
  <2>1. /\ NoRow.id = 0 /\ NoRow.status = "none"
        /\ NoCert.serial = 0
        /\ Idle.id = 0
    BY DEF NoRow, NoCert, Idle
  <2>2. Init => RowIds /\ JobIds
    BY <2>1 DEF Init, RowIds, JobIds
  <2>3. Init => IssuingWhileTrying /\ HalvesWritten /\ ActivePairMatches
    BY <2>1 DEF Init, IssuingWhileTrying, HalvesWritten, ActivePairMatches
  <2>4. Init => SerialsInOrder
    BY <2>1 DEF Init, SerialsInOrder
  <2>5. QED
    BY <1>1, <2>2, <2>3, <2>4 DEF IInv
<1>3. IInv /\ [Next]_vars => IInv'
  BY TypeStep, MutexStep, CountedStep, RowIdsStep, JobIdsStep, TryingStep,
     HalvesStep, SerialsStep, PairStep
     DEF IInv, Grounded
<1>4. QED
  BY <1>2, <1>3, PTL DEF Spec

\* A row the manager calls active always has both files on disk, from one
\* issuance unless an orphaned one wrote the certificate: for any number of
\* concurrent requests, crashes and failed writes.
THEOREM ActivePairAlwaysMatches == Spec => []ActivePairMatches
<1>1. IInv => ActivePairMatches
  BY DEF IInv
<1>2. QED
  BY <1>1, IInvAlways, PTL

\* No step puts an older certificate or key over a newer one.
THEOREM FilesGoForward == Spec => FilesNeverRegress
<1>1. ASSUME IInv, [Next]_vars
      PROVE  [\A h \in Hosts : /\ certFile[h].serial <= certFile'[h].serial
                               /\ keyFile[h].serial <= keyFile'[h].serial]_vars
  <2> SUFFICES ASSUME NEW h \in Hosts
               PROVE  /\ certFile[h].serial <= certFile'[h].serial
                      /\ keyFile[h].serial <= keyFile'[h].serial
    OBVIOUS
  <2>1. certFile[h].serial \in Nat /\ keyFile[h].serial \in Nat
    BY <1>1 DEF IInv, Grounded, TypeOK, Certs
  <2>2. CASE UNCHANGED <<certFile, keyFile>>
    BY <2>1, <2>2
  <2>3. ASSUME NEW w \in Workers, WriteCert(w)
        PROVE  /\ certFile[h].serial <= certFile'[h].serial
               /\ keyFile[h].serial <= keyFile'[h].serial
    BY <1>1, <2>1, <2>3 DEF WriteCert, IInv, Grounded, TypeOK, SerialsInOrder
  <2>4. ASSUME NEW w \in Workers, WriteKey(w)
        PROVE  /\ certFile[h].serial <= certFile'[h].serial
               /\ keyFile[h].serial <= keyFile'[h].serial
    BY <1>1, <2>1, <2>4 DEF WriteKey, IInv, Grounded, TypeOK, SerialsInOrder
  <2>5. QED
    <3>1. ASSUME NEW w \in Workers, UnderLock(w), ~ WriteCert(w), ~ WriteKey(w)
          PROVE  UNCHANGED <<certFile, keyFile>>
      BY <3>1
        DEF UnderLock, PreflightFails, Begin, IssueFails, Issue, WriteFails, Record,
                  Evict, Publish, FailRecord, FailBackoff, durable
    <3>2. ASSUME NEW r \in Handshakes, Handshake(r)
          PROVE  UNCHANGED <<certFile, keyFile>>
      BY <3>2 DEF Handshake, Miss, ReadCert, ReadKey, Store, durable
    <3>3. ASSUME NEW g \in Hosts, Track(g) \/ Drop(g) \/ BecomeDue(g)
          PROVE  UNCHANGED <<certFile, keyFile>>
      BY <3>3 DEF Track, Drop, BecomeDue
    <3>4. ASSUME AdminRegenerates \/ Scan \/ TakeDue \/ Crash \/ UNCHANGED vars
          PROVE  UNCHANGED <<certFile, keyFile>>
      BY <3>4 DEF AdminRegenerates, Scan, TakeDue, Crash, durable, vars
    <3>5. ASSUME NEW w \in Workers, NEW g \in Hosts,
                 Request(w, g) \/ Expire(w) \/ Lock(w)
          PROVE  UNCHANGED <<certFile, keyFile>>
      BY <3>5 DEF Request, Expire, Lock, durable
    <3>6. QED
      BY <1>1, <2>2, <2>3, <2>4, <3>1, <3>2, <3>3, <3>4, <3>5 DEF Next
<1>2. QED
  BY <1>1, IInvAlways, PTL DEF Spec, FilesNeverRegress

--------------------------------------------------------------------------------
(* The handshake's cache.                                                   *)

CacheInv == IInv /\ PromisesKept /\ ServedIsCurrent

\* Only Evict makes a promise, and it finds its own certificate on disk.
LEMMA CacheStep ==
  ASSUME CacheInv, [Next]_vars
  PROVE  PromisesKept' /\ ServedIsCurrent'
<1> USE DEF CacheInv, IInv, Grounded
<1>1. CASE UNCHANGED <<certFile, cache, hs, promised>>
  BY <1>1 DEF PromisesKept, ServedIsCurrent
<1>2. ASSUME NEW w \in Workers, WriteCert(w)
      PROVE  PromisesKept' /\ ServedIsCurrent'
  <2>1. UNCHANGED <<cache, hs, promised>>
    BY <1>2 DEF WriteCert
  <2>2. ASSUME NEW h \in Hosts
        PROVE  promised[h] <= certFile'[h].serial
    <3>1. /\ promised[h] \in Nat /\ promised[h] <= certFile[h].serial
          /\ certFile[h].serial \in Nat /\ issued[w].serial \in Nat
      BY DEF PromisesKept, TypeOK, Certs
    <3>2. \/ certFile'[h] = certFile[h]
          \/ certFile'[h] = issued[w] /\ certFile[h].serial <= issued[w].serial
      BY <1>2 DEF WriteCert, SerialsInOrder, TypeOK
    <3>3. QED
      BY <3>1, <3>2
  <2>3. QED
    BY <2>1, <2>2 DEF PromisesKept, ServedIsCurrent
<1>3. ASSUME NEW w \in Workers, Evict(w)
      PROVE  PromisesKept' /\ ServedIsCurrent'
  <2>1. /\ certFile[job[w].host] = issued[w] /\ job[w].host \in Hosts
        /\ issued[w].serial \in Nat
    BY <1>3, OwnRowType DEF Evict, HalvesWritten, TypeOK, Certs
  <2>2. UNCHANGED <<certFile, hs>>
    BY <1>3 DEF Evict, durable
  <2>3. ASSUME NEW h \in Hosts
        PROVE  /\ promised'[h] <= certFile[h].serial
               /\ \A r \in Handshakes :
                    hs[r].host = h /\ hs[r].pc \in {"key", "store"}
                       => promised'[h] <= hs[r].cert.serial
    <3>1. CASE promised'[h] = promised[h]
      BY <3>1 DEF PromisesKept
    <3>2. CASE promised'[h] # promised[h]
      <4>1. h = job[w].host /\ NobodyHoldsOlder(w) /\ promised'[h] = issued[w].serial
        BY <1>3, <3>2 DEF Evict, Promise, TypeOK
      <4>2. QED
        BY <2>1, <4>1 DEF NobodyHoldsOlder
    <3>3. QED
      BY <3>1, <3>2
  <2>4. ASSUME NEW h \in Hosts, cache'[h] # NoPair
        PROVE  cache'[h].cert.serial >= promised'[h]
    <3>1. h # job[w].host /\ cache'[h] = cache[h]
      BY <1>3, <2>1, <2>4 DEF Evict, TypeOK
    <3>2. promised'[h] = promised[h]
      BY <1>3, <3>1 DEF Evict, Promise, TypeOK
    <3>3. QED
      BY <2>4, <3>1, <3>2 DEF ServedIsCurrent
  <2>5. QED
    BY <2>2, <2>3, <2>4 DEF PromisesKept, ServedIsCurrent
<1>4. ASSUME NEW r \in Handshakes, Handshake(r)
      PROVE  PromisesKept' /\ ServedIsCurrent'
  <2>0. UNCHANGED <<certFile, promised>>
    BY <1>4 DEF Handshake, Miss, ReadCert, ReadKey, Store, durable
  <2>1. ASSUME NEW h \in Hosts, Miss(r, h)
        PROVE  PromisesKept' /\ ServedIsCurrent'
    BY <2>0, <2>1 DEF Miss, Reading, PromisesKept, ServedIsCurrent, TypeOK
  <2>2. CASE ReadCert(r)
    BY <2>0, <2>2
      DEF ReadCert, Reading, Asleep, PromisesKept, ServedIsCurrent, TypeOK
  <2>3. CASE ReadKey(r)
    BY <2>0, <2>3
      DEF ReadKey, Reading, Asleep, PromisesKept, ServedIsCurrent, TypeOK
  <2>4. CASE Store(r)
    <3>1. /\ hs[r].host \in Hosts /\ hs[r].cert.serial \in Nat
          /\ promised[hs[r].host] <= hs[r].cert.serial
      BY <2>4 DEF Store, PromisesKept, TypeOK, Reads, Certs
    <3>2. ServedIsCurrent'
      BY <2>0, <2>4, <3>1 DEF Store, ServedIsCurrent, TypeOK
    <3>3. PromisesKept'
      BY <2>0, <2>4 DEF Store, Asleep, PromisesKept, TypeOK
    <3>4. QED
      BY <3>2, <3>3
  <2>5. QED
    BY <1>4, <2>1, <2>2, <2>3, <2>4 DEF Handshake
<1>5. CASE Crash
  BY <1>5 DEF Crash, Asleep, PromisesKept, ServedIsCurrent, durable
<1>6. ASSUME NEW w \in Workers, UnderLock(w), ~ WriteCert(w), ~ Evict(w)
      PROVE  UNCHANGED <<certFile, cache, hs, promised>>
  BY <1>6
    DEF UnderLock, PreflightFails, Begin, IssueFails, Issue, WriteKey, WriteFails,
        Record, Publish, FailRecord, FailBackoff, durable
<1>7. ASSUME NEW h \in Hosts, Track(h) \/ Drop(h) \/ BecomeDue(h)
      PROVE  UNCHANGED <<certFile, cache, hs, promised>>
  BY <1>7 DEF Track, Drop, BecomeDue, memory
<1>8. ASSUME AdminRegenerates \/ Scan \/ TakeDue \/ UNCHANGED vars
      PROVE  UNCHANGED <<certFile, cache, hs, promised>>
  BY <1>8 DEF AdminRegenerates, Scan, TakeDue, durable, memory, vars
<1>9. ASSUME NEW w \in Workers, NEW h \in Hosts, Request(w, h)
      PROVE  UNCHANGED <<certFile, cache, hs, promised>>
  BY <1>9 DEF Request, durable
<1>10. ASSUME NEW w \in Workers, Expire(w) \/ Lock(w)
       PROVE  UNCHANGED <<certFile, cache, hs, promised>>
  BY <1>10 DEF Expire, Lock, durable
<1>11. QED
  BY <1>1, <1>2, <1>3, <1>4, <1>5, <1>6, <1>7, <1>8, <1>9, <1>10 DEF Next

\* The cache serves nothing older than the last certificate recorded while no
\* handshake held an older one: for any number of handshakes and issuances in
\* any order, with failed writes, failed statements and crashes.
THEOREM CacheAlwaysCurrent == Spec => []ServedIsCurrent
<1>1. Init => PromisesKept /\ ServedIsCurrent
  <2>1. Asleep.pc = "idle" /\ NoCert.serial = 0
    BY DEF Asleep, NoCert
  <2>2. QED
    BY <2>1 DEF Init, PromisesKept, ServedIsCurrent
<1>2. CacheInv => ServedIsCurrent
  BY DEF CacheInv
<1>3. IInv /\ PromisesKept /\ ServedIsCurrent => CacheInv
  BY DEF CacheInv
<1>4. QED
  BY <1>1, <1>2, <1>3, CacheStep, IInvAlways, PTL DEF Spec

--------------------------------------------------------------------------------
(* The manager implements CertLifecycle.                                    *)

LEMMA StatusMoves ==
  ASSUME NEW h \in Hosts, NEW s,
         \A g \in Hosts : row'[g].status = IF g = h THEN s ELSE row[g].status
  PROVE  Lifecycle!Becomes(h, s)
  BY DEF Lifecycle!Becomes

LEMMA StatusStays ==
  ASSUME \A g \in Hosts : row'[g].status = row[g].status
  PROVE  UNCHANGED [h \in Hosts |-> row[h].status]
  BY Zenon

\* An update of an existing row moves its status alone.
LEMMA UpdateMoves ==
  ASSUME TypeOK, JobIds, RowIds, NEW w \in Workers, pc[w] # "idle", NEW s, NEW t,
         Update(w, s, t), RowOf(job[w].host, job[w].id)
  PROVE  /\ job[w].host \in Hosts
         /\ row[job[w].host].status # "none"
         /\ Lifecycle!Becomes(job[w].host, s)
<1>1. job[w].host \in Hosts
  BY OwnRowType
<1>2. \A g \in Hosts : row'[g].status = IF g = job[w].host THEN s ELSE row[g].status
  BY <1>1, UpdateElsewhere, UpdateOwn
<1>3. row[job[w].host].status # "none"
  BY <1>1 DEF JobIds, RowIds, RowOf, NoRow
<1>4. QED
  BY <1>1, <1>2, <1>3, StatusMoves

LEMMA UpdateStays ==
  ASSUME TypeOK, NEW w \in Workers, NEW s, NEW t, Update(w, s, t),
         \/ ~ RowOf(job[w].host, job[w].id)
         \/ s = row[job[w].host].status
  PROVE  UNCHANGED [h \in Hosts |-> row[h].status]
<1>1. job[w].host \in Hosts
  BY OwnRowType
<1>2. \A g \in Hosts : row'[g].status = row[g].status
  BY <1>1, UpdateElsewhere, UpdateOwn
<1>3. QED
  BY <1>2, StatusStays

LEMMA LifecycleStep ==
  ASSUME IInv, [Next]_vars
  PROVE  [Lifecycle!Next]_[h \in Hosts |-> row[h].status]
<1> DEFINE Stays == UNCHANGED [h \in Hosts |-> row[h].status]
<1> USE DEF IInv, Grounded
<1>1. CASE UNCHANGED row
  BY <1>1
<1>2. ASSUME NEW h \in Hosts, Track(h)
      PROVE  Lifecycle!Next
  <2>1. \A g \in Hosts : row'[g].status = IF g = h THEN "pending" ELSE row[g].status
    BY <1>2 DEF Track, TypeOK
  <2>2. row[h].status = "none"
    BY <1>2 DEF Track, NoRow
  <2>3. QED
    BY <2>1, <2>2, StatusMoves DEF Lifecycle!Track, Lifecycle!Next
<1>3. ASSUME NEW h \in Hosts, Drop(h)
      PROVE  Lifecycle!Next
  <2>1. \A g \in Hosts : row'[g].status = IF g = h THEN "none" ELSE row[g].status
    BY <1>3 DEF Drop, NoRow, TypeOK
  <2>2. QED
    BY <2>1, StatusMoves DEF Lifecycle!Drop, Lifecycle!Next
<1>4. ASSUME NEW h \in Hosts, BecomeDue(h)
      PROVE  Stays
  <2>1. \A g \in Hosts : row'[g].status = row[g].status
    BY <1>4 DEF BecomeDue, With, TypeOK
  <2>2. QED
    BY <2>1, StatusStays
<1>5. ASSUME NEW w \in Workers, Begin(w), ~ UNCHANGED row
      PROVE  Lifecycle!Next \/ Stays
  <2>1. Update(w, "issuing", row[job[w].host].wait) /\ pc[w] # "idle"
    BY <1>5 DEF Begin
  <2>2. CASE RowOf(job[w].host, job[w].id)
    BY <2>1, <2>2, UpdateMoves DEF Lifecycle!Begin, Lifecycle!Next
  <2>3. CASE ~ RowOf(job[w].host, job[w].id)
    BY <2>1, <2>3, UpdateStays
  <2>4. QED
    BY <2>2, <2>3
<1>6. ASSUME NEW w \in Workers, Record(w), ~ UNCHANGED row
      PROVE  Lifecycle!Next \/ Stays
  <2>1. Update(w, "active", RenewWait) /\ pc[w] = "record"
    BY <1>6 DEF Record
  <2>2. CASE RowOf(job[w].host, job[w].id)
    <3>1. row[job[w].host].status = "issuing"
      BY <2>1, <2>2 DEF IssuingWhileTrying
    <3>2. QED
      BY <2>1, <2>2, <3>1, UpdateMoves DEF Lifecycle!Succeed, Lifecycle!Next
  <2>3. CASE ~ RowOf(job[w].host, job[w].id)
    BY <2>1, <2>3, UpdateStays
  <2>4. QED
    BY <2>2, <2>3
<1>7. ASSUME NEW w \in Workers, FailRecord(w), ~ UNCHANGED row
      PROVE  Lifecycle!Next \/ Stays
  <2>1. Update(w, verdict[w], row[job[w].host].wait) /\ pc[w] = "failing"
    BY <1>7 DEF FailRecord
  <2>2. CASE RowOf(job[w].host, job[w].id) /\ verdict[w] = "error"
    <3>1. row[job[w].host].status = "issuing"
      BY <2>1, <2>2 DEF IssuingWhileTrying
    <3>2. QED
      BY <2>1, <2>2, <3>1, UpdateMoves DEF Lifecycle!Fail, Lifecycle!Next
  <2>3. CASE RowOf(job[w].host, job[w].id) /\ verdict[w] = "dns_wait"
    BY <2>1, <2>3, UpdateMoves DEF Lifecycle!AwaitDNS, Lifecycle!Next
  <2>4. CASE ~ RowOf(job[w].host, job[w].id)
    BY <2>1, <2>4, UpdateStays
  <2>5. QED
    BY <2>2, <2>3, <2>4 DEF TypeOK
<1>8. ASSUME NEW w \in Workers, FailBackoff(w), ~ UNCHANGED row
      PROVE  Stays
  <2>1. Update(w, row[job[w].host].status, Backoff(failures[job[w].host]))
    BY <1>8 DEF FailBackoff
  <2>2. QED
    BY <2>1, UpdateStays
<1>9. ASSUME NEW w \in Workers, UnderLock(w),
             ~ Begin(w), ~ Record(w), ~ FailRecord(w), ~ FailBackoff(w)
      PROVE  UNCHANGED row
  BY <1>9 DEF UnderLock, PreflightFails, IssueFails, Issue, WriteCert, WriteKey,
              WriteFails, Evict, Publish, durable
<1>10. ASSUME NEW r \in Handshakes, Handshake(r)
       PROVE  UNCHANGED row
  BY <1>10 DEF Handshake, Miss, ReadCert, ReadKey, Store, durable
<1>11. ASSUME NEW w \in Workers, Expire(w) \/ Lock(w) \/ \E h \in Hosts : Request(w, h)
       PROVE  UNCHANGED row
  BY <1>11 DEF Expire, Lock, Request, durable
<1>12. ASSUME AdminRegenerates \/ Scan \/ TakeDue \/ Crash \/ UNCHANGED vars
       PROVE  UNCHANGED row
  BY <1>12 DEF AdminRegenerates, Scan, TakeDue, Crash, durable, vars
<1>13. QED
  BY <1>1, <1>2, <1>3, <1>4, <1>5, <1>6, <1>7, <1>8, <1>9, <1>10, <1>11, <1>12
    DEF Next

\* The certificates table follows the lifecycle: no interleaving of issuances,
\* deadlines, deletions and crashes makes a row active or failed out of order.
THEOREM ImplementsLifecycle == Spec => FollowsLifecycle
<1>1. Init => Lifecycle!Init
  <2>1. NoRow.status = "none"
    BY DEF NoRow
  <2>2. QED
    BY <2>1 DEF Init, Lifecycle!Init
<1>2. QED
  BY <1>1, LifecycleStep, IInvAlways, PTL DEF Spec, FollowsLifecycle, Lifecycle!Spec

================================================================================
