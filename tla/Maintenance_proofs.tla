--------------------------- MODULE Maintenance_proofs ---------------------------
(***************************************************************************)
(* Proofs about the two commands an administrator runs beside the daemon:  *)
(* Upgrade, for any number of releases and power losses, and Backup, for   *)
(* any number of commits, certificates, backups and restores.              *)
(***************************************************************************)
EXTENDS Upgrade, Backup, TLAPS

--------------------------------------------------------------------------------
(* Upgrade.  That success is only reported of what is installed rests on the *)
(* lock, which makes the scripts take turns until one of them is signalled,  *)
(* and on the order in which the binaries are replaced: what wispboxctl says *)
(* is never ahead of wispboxd, until a version is asked for.                 *)

Free  == {"idle", "start", "refused", "report"}
Early == {"locked", "resolve"}
Known == {"compare", "download", "install", "second", "restart", "installed"}

Records == [pc : Free \cup Early \cup Known \cup {"exit"}, target : Versions \cup {None},
            work : BOOLEAN, twice : BOOLEAN, failed : BOOLEAN]
Pairs   == [{"wispboxd", "wispboxctl"} -> Versions]
Reports == [state : {"idle", "running", "failed", "succeeded"}, target : Versions \cup {None}]

\* The strengthened type invariant: a run that knows its release has got a
\* version, and every run is a record.
Types ==
    /\ latest \in Versions
    /\ bin \in Pairs
    /\ running \in Versions \cup {None}
    /\ status \in Reports
    /\ lock \in BOOLEAN /\ asked \in BOOLEAN /\ signalled \in BOOLEAN /\ steered \in BOOLEAN
    /\ script \in [Runs -> Records]
    /\ \A s \in Runs : script[s].pc \in Known => script[s].target \in Versions

\* Only a signal makes cleanup run twice.
OnceOnly == ~signalled => \A s \in Runs : ~script[s].twice

\* Nobody runs install.sh, and no script has got a version before it resolves one.
Unsteered ==
    ~steered =>
        /\ \A i \in Installers : script[i].pc = "idle"
        /\ \A s \in Scripts : script[s].pc \in Early \cup {"start"} => script[s].target = None

\* Versions only grow, and wispboxd is replaced first.
InOrder ==
    /\ bin["wispboxctl"] <= bin["wispboxd"]
    /\ bin["wispboxd"] <= latest
    /\ \A s \in Scripts : script[s].pc \in Known =>
         /\ bin["wispboxd"] <= script[s].target
         /\ script[s].target <= latest

\* How far the installer is, and what the status says meanwhile.
Progress ==
    /\ \A s \in Scripts : script[s].pc \in {"second", "restart", "installed"} =>
         bin["wispboxd"] = script[s].target
    /\ \A s \in Scripts : script[s].pc \in {"restart", "installed"} =>
         bin["wispboxctl"] = script[s].target
    /\ \A s \in Scripts : script[s].pc \in Known \cup {"resolve"} =>
         status.state # "succeeded"

Success == status.state = "succeeded" => \A b \in DOMAIN bin : bin[b] = status.target

Calm == ~signalled /\ ~steered

IInv == /\ Types /\ OnceOnly /\ ScriptsTakeTurns /\ Unsteered
        /\ Calm => InOrder /\ Progress /\ Success

--------------------------------------------------------------------------------
LEMMA Members == Scripts \subseteq Runs /\ Installers \subseteq Runs
BY DEF Scripts, Runs

LEMMA FreshRecord == ASSUME NEW p \in {"idle", "start", "install"}
                     PROVE  /\ Fresh(p) \in Records /\ Fresh(p).pc = p
                            /\ ~Fresh(p).twice /\ Fresh(p).target = None
BY DEF Fresh, Records, Free, Known, None

LEMMA FreshFor == ASSUME NEW p \in {"idle", "start", "install"}, NEW v \in Versions \cup {None}
                  PROVE  LET r == [Fresh(p) EXCEPT !.target = v]
                         IN  r \in Records /\ r.pc = p /\ ~r.twice /\ r.target = v
BY DEF Fresh, Records, Free, Known, None

\* The end of cleanup, and the signal that makes it run.
LEMMA Leaving ==
    ASSUME Types, NEW s \in Runs, Leave(s)
    PROVE  /\ script' \in [Runs -> Records] /\ \A t \in Runs \ {s} : script'[t] = script[t]
           /\ script'[s].pc \in {"exit", "idle"} /\ ~script'[s].twice
           /\ ~script[s].twice => script'[s].pc = "idle"
<1> USE DEF Types
<1>1. CASE script[s].twice
    <2>1. script' = [script EXCEPT ![s] = [@ EXCEPT !.pc = "exit", !.twice = FALSE]]
        BY <1>1 DEF Leave
    <2>2. [script[s] EXCEPT !.pc = "exit", !.twice = FALSE] \in Records
        BY DEF Records
    <2> QED
        BY <1>1, <2>1, <2>2 DEF Records
<1>2. CASE ~script[s].twice
    <2> DEFINE r == [Fresh("idle") EXCEPT !.failed = script[s].failed]
    <2>1. script' = [script EXCEPT ![s] = r]
        BY <1>2 DEF Leave
    <2>2. r \in Records /\ r.pc = "idle" /\ ~r.twice
        BY DEF Records, Fresh, Free, None
    <2> HIDE DEF r
    <2> QED
        BY <2>1, <2>2
<1> QED
    BY <1>1, <1>2

LEMMA Signalling ==
    ASSUME Types, NEW s \in Runs, Signal(s)
    PROVE  /\ script' \in [Runs -> Records] /\ \A t \in Runs \ {s} : script'[t] = script[t]
           /\ script'[s].pc = "exit"
<1>1. PICK f \in BOOLEAN : script' = [script EXCEPT ![s] =
                              [@ EXCEPT !.pc = "exit", !.twice = TRUE, !.failed = f]]
    <2>1. script[s].failed \in BOOLEAN
        BY DEF Types, Records
    <2>2. PICK f \in IF script[s].pc \in {"exit", "report"}
                     THEN {script[s].failed} ELSE {FALSE, ~script[s].work} :
             script' = [script EXCEPT ![s].pc = "exit", ![s].twice = TRUE, ![s].failed = f]
        BY DEF Signal
    <2>3. f \in BOOLEAN
        BY <2>1, <2>2
    <2> QED
        BY <2>2, <2>3
<1>2. [script[s] EXCEPT !.pc = "exit", !.twice = TRUE, !.failed = f] \in Records
    BY DEF Types, Records
<1> QED
    BY <1>1, <1>2 DEF Types, Records

LEMMA InitHolds == Init => IInv
<1> SUFFICES ASSUME Init PROVE IInv
    OBVIOUS
<1>1. \A s \in Runs : script[s] = Fresh("idle")
    BY DEF Init
<1>2. \A s \in Runs : script[s].pc = "idle" /\ ~script[s].twice
    BY <1>1, FreshRecord
<1>3. Types
    <2>1. 1 \in Versions
        BY BoundAssumption DEF Versions
    <2>2. script \in [Runs -> Records]
        BY FreshRecord DEF Init
    <2>3. latest \in Versions /\ bin \in Pairs /\ running \in Versions \cup {None}
        BY <2>1 DEF Init, Pairs
    <2>4. status \in Reports
        BY DEF Init, Reports
    <2> QED
        BY <1>2, <2>1, <2>2, <2>3, <2>4 DEF Types, Init, Known
<1>4. OnceOnly /\ ScriptsTakeTurns /\ Unsteered /\ InOrder /\ Progress
    BY <1>2, Members DEF Init, OnceOnly, ScriptsTakeTurns, Unsteered, InOrder, Progress, Past,
                         Early, Known
<1>5. Success
    BY DEF Init, Success
<1> QED
    BY <1>3, <1>4, <1>5 DEF IInv

\* What a step of a run does to the records, and to the histories.
LEMMA StepTypes == ASSUME Types, [Next]_vars PROVE Types'
<1> USE BoundAssumption DEF Types, Versions, None, interference
<1>1. CASE CheckUpgrade
    BY <1>1 DEF CheckUpgrade
<1>2. CASE StartUnit
    <2>1. \/ script' = [script EXCEPT ![Unit] = Fresh("start")]
          \/ script' = script
        BY <1>2 DEF StartUnit
    <2>2. script' \in [Runs -> Records]
        BY <2>1, FreshRecord
    <2>3. \A s \in Runs : script'[s] = script[s] \/ script'[s].pc = "start"
        BY <2>1, FreshRecord
    <2> QED
        BY <1>2, <2>2, <2>3 DEF StartUnit, Known
<1>3. ASSUME NEW h \in Hands, NEW v \in 0..latest, RunByHand(h, v) PROVE Types'
    <2>1. v \in Versions \cup {None}
        OBVIOUS
    <2>2. script' \in [Runs -> Records]
        BY <1>3, <2>1, FreshFor DEF RunByHand
    <2>3. \A s \in Runs : script'[s] = script[s] \/ script'[s].pc = "start"
        BY <1>3, <2>1, FreshFor DEF RunByHand
    <2> QED
        BY <1>3, <2>2, <2>3 DEF RunByHand, Known
<1>4. ASSUME NEW s \in Runs, Install(s) PROVE Types'
    <2> USE DEF At, Go, Fail, Records, Free, Early, Known
    <2>1. CASE InstallFirst(s)
        BY <2>1 DEF InstallFirst, InstallBinary, Order, Pairs
    <2>2. CASE InstallSecond(s)
        BY <2>2 DEF InstallSecond, InstallBinary, Order, Pairs
    <2>3. CASE RestartServices(s)
        <3>1. bin["wispboxd"] \in Versions
            BY DEF Pairs
        <3>2. running' \in Versions \cup {None} /\ asked' \in BOOLEAN
            BY <2>3, <3>1 DEF RestartServices
        <3> QED
            BY <2>3, <3>2 DEF RestartServices
    <2> QED
        BY <1>4, <2>1, <2>2, <2>3 DEF Install
<1>5. ASSUME NEW s \in Scripts, ScriptStep(s) PROVE Types'
    <2>0. s \in Runs
        BY Members
    <2> USE <2>0 DEF At, Go, Fail, Report, WriteStatus, Records, Free, Early, Known, Reports
    <2>1. CASE TakeLock(s)
        BY <2>1 DEF TakeLock
    <2>2. CASE Refused(s)
        <3>1. script' \in [Runs -> Records] /\ script'[s].pc = "idle"
              /\ \A t \in Runs \ {s} : script'[t] = script[t]
            BY <2>2, FreshRecord DEF Refused
        <3>2. status' \in Reports
            BY <2>2 DEF Refused
        <3> QED
            BY <2>2, <3>1, <3>2 DEF Refused
    <2>3. CASE Announce(s)
        BY <2>3 DEF Announce
    <2>4. CASE Resolve(s)
        BY <2>4 DEF Resolve
    <2>5. CASE Compare(s)
        BY <2>5 DEF Compare
    <2>6. CASE Download(s)
        BY <2>6 DEF Download
    <2>7. CASE Install(s)
        BY <1>4, <2>7
    <2>8. CASE Succeed(s)
        BY <2>8 DEF Succeed
    <2>9. CASE Unlock(s)
        <3>1. CASE Go(s, "report")
            <4>1. [script[s] EXCEPT !.pc = "report"] \in Records
                BY DEF Records
            <4>2. script' \in [Runs -> Records] /\ script'[s].pc = "report"
                  /\ \A t \in Runs \ {s} : script'[t] = script[t]
                BY <3>1, <4>1
            <4> QED
                BY <2>9, <4>2 DEF Unlock
        <3>2. CASE Leave(s)
            BY <2>9, <3>2, Leaving DEF Unlock
        <3> QED
            BY <2>9, <3>1, <3>2 DEF Unlock
    <2>10. CASE ReportFailure(s)
        <3>1. script' \in [Runs -> Records] /\ script'[s].pc \in {"exit", "idle"}
              /\ \A t \in Runs \ {s} : script'[t] = script[t]
            <4>1. CASE Leave(s)
                BY <4>1, Leaving
            <4>2. CASE script' = [script EXCEPT ![s] = Fresh("idle")]
                BY <4>2, FreshRecord
            <4> QED
                BY <2>10, <4>1, <4>2 DEF ReportFailure
        <3>2. status' \in Reports
            BY <2>10 DEF ReportFailure
        <3> QED
            BY <2>10, <3>1, <3>2 DEF ReportFailure
    <2>11. CASE Signal(s)
        <3>1. signalled' \in BOOLEAN /\ steered' \in BOOLEAN /\ UNCHANGED <<latest, bin, running,
                status, lock, asked>>
            BY <2>11 DEF Signal
        <3> QED
            BY <2>11, <3>1, Signalling
    <2> QED
        BY <1>5, <2>1, <2>2, <2>3, <2>4, <2>5, <2>6, <2>7, <2>8, <2>9, <2>10, <2>11
           DEF ScriptStep
<1>6. ASSUME NEW i \in Installers, InstallerStep(i) PROVE Types'
    <2>0. i \in Runs
        BY Members
    <2>1. ASSUME NEW v \in 1..latest, ReinstallByHand(i, v) PROVE Types'
        <3>1. v \in Versions
            OBVIOUS
        <3>2. script' \in [Runs -> Records] /\ script'[i].target = v
              /\ \A t \in Runs \ {i} : script'[t] = script[t]
            BY <2>0, <2>1, <3>1, FreshFor DEF ReinstallByHand
        <3> QED
            BY <2>1, <3>1, <3>2 DEF ReinstallByHand
    <2>2. CASE ReinstallEnds(i)
        <3>1. script' \in [Runs -> Records] /\ script'[i].pc = "idle"
              /\ \A t \in Runs \ {i} : script'[t] = script[t]
            BY <2>0, <2>2, FreshRecord DEF ReinstallEnds
        <3> QED
            BY <2>2, <3>1 DEF ReinstallEnds, Known
    <2>3. CASE Install(i)
        BY <1>4, <2>0, <2>3
    <2> QED
        BY <1>6, <2>1, <2>2, <2>3 DEF InstallerStep
<1>7. ASSUME NEW r \in Runs, Kill(r) PROVE Types'
    <2>1. script' \in [Runs -> Records] /\ script'[r].pc = "idle"
          /\ \A t \in Runs \ {r} : script'[t] = script[t]
        BY <1>7, FreshRecord DEF Kill
    <2> QED
        BY <1>7, <2>1 DEF Kill, Known
<1>8. CASE Release
    BY <1>8 DEF Release
<1>9. CASE DaemonReturns
    BY <1>9 DEF DaemonReturns, Pairs
<1>10. CASE PowerLoss
    <2>1. script' \in [Runs -> Records]
        BY <1>10, FreshRecord DEF PowerLoss
    <2>2. \A s \in Runs : script'[s].pc = "idle"
        BY <1>10, FreshRecord DEF PowerLoss
    <2>3. bin["wispboxd"] \in Versions
        BY DEF Pairs
    <2> QED
        BY <1>10, <2>1, <2>2, <2>3 DEF PowerLoss, Known
<1>11. CASE RemoveStaleLock
    BY <1>11 DEF RemoveStaleLock
<1>12. CASE UNCHANGED vars
    BY <1>12 DEF vars
<1> QED
    BY <1>1, <1>2, <1>3, <1>5, <1>6, <1>7, <1>8, <1>9, <1>10, <1>11, <1>12 DEF Next

--------------------------------------------------------------------------------
\* What a step leaves of the other runs.
LEMMA OneMoves ==
    ASSUME Types, NEW s \in Scripts, ScriptStep(s)
    PROVE  \A t \in Runs \ {s} : script'[t] = script[t]
<1>2. CASE TakeLock(s) \/ Refused(s) \/ Announce(s) \/ Resolve(s) \/ Compare(s) \/ Download(s)
    BY <1>2 DEF TakeLock, Refused, Announce, Resolve, Compare, Download, Report, Go, Fail, Types
<1>3. CASE Install(s) \/ Succeed(s)
    BY <1>3 DEF Install, InstallFirst, InstallSecond, InstallBinary, RestartServices, Succeed,
                Report, Go, Fail, Types
<1>4. CASE Leave(s) \/ Signal(s)
    BY <1>4, Members, Leaving, Signalling
<1>5. CASE Unlock(s) \/ ReportFailure(s)
    BY <1>4, <1>5 DEF Unlock, ReportFailure, Go, Types
<1> QED
    BY <1>2, <1>3, <1>4, <1>5 DEF ScriptStep

\* The histories only grow, and what they record is in no other step.
LEMMA Histories ==
    ASSUME Types, [Next]_vars, ~signalled'
    PROVE  ~signalled /\ \A s \in Scripts : ~Signal(s)
<1>1. ASSUME NEW s \in Scripts, ScriptStep(s) PROVE signalled' = signalled \/ signalled'
    BY <1>1 DEF ScriptStep, TakeLock, Refused, Announce, Resolve, Compare, Download, Install,
                InstallFirst, InstallSecond, InstallBinary, RestartServices, Succeed, Unlock,
                ReportFailure, Signal, interference
<1>2. ASSUME NEW i \in Installers, InstallerStep(i) PROVE signalled' = signalled
    BY <1>2 DEF InstallerStep, ReinstallByHand, ReinstallEnds, Install, InstallFirst,
                InstallSecond, InstallBinary, RestartServices, interference
<1>3. ~signalled
    BY <1>1, <1>2 DEF Next, CheckUpgrade, StartUnit, RunByHand, Kill, Release, DaemonReturns,
                      PowerLoss, RemoveStaleLock, vars, interference, Types
<1> QED
    BY <1>3 DEF Signal

LEMMA Steering ==
    ASSUME Types, [Next]_vars, ~steered'
    PROVE  ~steered /\ \A i \in Installers, v \in Nat : ~ReinstallByHand(i, v)
<1>1. ASSUME NEW s \in Scripts, ScriptStep(s) PROVE steered' = steered
    BY <1>1 DEF ScriptStep, TakeLock, Refused, Announce, Resolve, Compare, Download, Install,
                InstallFirst, InstallSecond, InstallBinary, RestartServices, Succeed, Unlock,
                ReportFailure, Signal, interference
<1>2. ASSUME NEW i \in Installers, InstallerStep(i) PROVE steered' = steered \/ steered'
    BY <1>2 DEF InstallerStep, ReinstallByHand, ReinstallEnds, Install, InstallFirst,
                InstallSecond, InstallBinary, RestartServices, interference
<1>3. ~steered
    BY <1>1, <1>2 DEF Next, CheckUpgrade, StartUnit, RunByHand, Kill, Release, DaemonReturns,
                      PowerLoss, RemoveStaleLock, vars, interference, Types
<1> QED
    BY <1>3 DEF ReinstallByHand

\* A run that starts, or ends, is past nothing.
LEMMA Edges ==
    ASSUME Types, [Next]_vars,
           \/ StartUnit \/ \E h \in Hands : \E v \in 0..latest : RunByHand(h, v)
           \/ \E r \in Runs : Kill(r) \/ \E i \in Installers : ReinstallEnds(i)
    PROVE  /\ \A s \in Runs : \/ script'[s] = script[s]
                              \/ script'[s].pc \in {"start", "idle"} /\ ~script'[s].twice
           /\ bin' = bin /\ latest' = latest /\ status' = status /\ lock' = lock
<1> USE DEF Types
<1>1. CASE StartUnit
    BY <1>1, FreshRecord DEF StartUnit
<1>2. ASSUME NEW h \in Hands, NEW v \in 0..latest, RunByHand(h, v)
      PROVE  \A s \in Runs : \/ script'[s] = script[s]
                             \/ script'[s].pc \in {"start", "idle"} /\ ~script'[s].twice
    <2>1. v \in Versions \cup {None}
        BY BoundAssumption DEF Versions, None
    <2> QED
        BY <1>2, <2>1, FreshFor DEF RunByHand
<1>3. ASSUME NEW r \in Runs, Kill(r)
      PROVE  \A s \in Runs : \/ script'[s] = script[s]
                             \/ script'[s].pc \in {"start", "idle"} /\ ~script'[s].twice
    BY <1>3, FreshRecord DEF Kill
<1>4. ASSUME NEW i \in Installers, ReinstallEnds(i)
      PROVE  \A s \in Runs : \/ script'[s] = script[s]
                             \/ script'[s].pc \in {"start", "idle"} /\ ~script'[s].twice
    BY <1>4, FreshRecord, Members DEF ReinstallEnds
<1> QED
    BY <1>1, <1>2, <1>3, <1>4 DEF StartUnit, RunByHand, Kill, ReinstallEnds

\* Without a signal cleanup runs once, and ends the run.
LEMMA OnceStep == ASSUME Types, OnceOnly, [Next]_vars PROVE OnceOnly'
<1> SUFFICES ASSUME ~signalled' PROVE \A s \in Runs : ~script'[s].twice
    BY DEF OnceOnly
<1>0. ~signalled /\ (\A s \in Scripts : ~Signal(s)) /\ \A s \in Runs : ~script[s].twice
    BY Histories DEF OnceOnly
<1> USE DEF Types
<1>1. ASSUME NEW s \in Scripts, ScriptStep(s) PROVE ~script'[s].twice
    <2>0. s \in Runs
        BY Members
    <2> USE <2>0 DEF Go, Fail, Report, Records
    <2>1. CASE TakeLock(s) \/ Announce(s) \/ Resolve(s) \/ Compare(s) \/ Download(s)
        BY <1>0, <2>1 DEF TakeLock, Announce, Resolve, Compare, Download
    <2>2. CASE Refused(s)
        BY <2>2, FreshRecord DEF Refused
    <2>3. CASE Install(s) \/ Succeed(s)
        BY <1>0, <2>3 DEF Install, InstallFirst, InstallSecond, InstallBinary, RestartServices,
                          Succeed
    <2>4. CASE Unlock(s) \/ ReportFailure(s)
        <3>1. CASE Leave(s)
            BY <3>1, Leaving
        <3>2. CASE Go(s, "report") \/ script' = [script EXCEPT ![s] = Fresh("idle")]
            BY <1>0, <3>2, FreshRecord
        <3> QED
            BY <2>4, <3>1, <3>2 DEF Unlock, ReportFailure
    <2> QED
        BY <1>0, <1>1, <2>1, <2>2, <2>3, <2>4 DEF ScriptStep
<1>2. ASSUME NEW s \in Scripts, ScriptStep(s) PROVE \A t \in Runs : ~script'[t].twice
    BY <1>0, <1>1, <1>2, OneMoves
<1>3. ASSUME NEW i \in Installers, InstallerStep(i) PROVE \A t \in Runs : ~script'[t].twice
    <2>0. i \in Runs
        BY Members
    <2>1. ASSUME NEW v \in 1..latest, ReinstallByHand(i, v) PROVE \A t \in Runs : ~script'[t].twice
        <3>1. v \in Versions
            BY BoundAssumption DEF Versions
        <3> QED
            BY <1>0, <2>0, <2>1, <3>1, FreshFor DEF ReinstallByHand
    <2>2. CASE ReinstallEnds(i)
        BY <1>0, <2>0, <2>2, FreshRecord DEF ReinstallEnds
    <2>3. CASE Install(i)
        BY <1>0, <2>0, <2>3 DEF Install, InstallFirst, InstallSecond, InstallBinary,
                                RestartServices, Go, Fail, Records
    <2> QED
        BY <1>3, <2>1, <2>2, <2>3 DEF InstallerStep
<1>4. CASE \/ StartUnit \/ \E h \in Hands : \E v \in 0..latest : RunByHand(h, v)
           \/ \E r \in Runs : Kill(r)
    BY <1>0, <1>4, Edges
<1>5. CASE PowerLoss
    BY <1>5, FreshRecord DEF PowerLoss
<1>6. CASE CheckUpgrade \/ Release \/ DaemonReturns \/ RemoveStaleLock \/ UNCHANGED vars
    BY <1>0, <1>6 DEF CheckUpgrade, Release, DaemonReturns, RemoveStaleLock, vars
<1> QED
    BY <1>2, <1>3, <1>4, <1>5, <1>6 DEF Next

\* Only TakeLock makes a script the holder, and only of a lock nobody holds.
LEMMA TurnsStep ==
    ASSUME Types, OnceOnly, ScriptsTakeTurns, [Next]_vars PROVE ScriptsTakeTurns'
<1> DEFINE Turns == /\ \A s \in Scripts : Past(s) => lock
                    /\ \A s, t \in Scripts : Past(s) /\ Past(t) => s = t
<1> SUFFICES ASSUME ~signalled' PROVE Turns'
    BY DEF ScriptsTakeTurns
<1>0. (\A s \in Scripts : ~Signal(s)) /\ (\A s \in Runs : ~script[s].twice) /\ Turns
    BY Histories DEF OnceOnly, ScriptsTakeTurns
<1>1. CASE \/ StartUnit \/ \E h \in Hands : \E v \in 0..latest : RunByHand(h, v)
           \/ \E r \in Runs : Kill(r)
    <2>1. \A s \in Scripts : Past(s)' => Past(s)
        BY <1>1, Edges, Members DEF Past
    <2>2. lock' = lock
        BY <1>1, Edges
    <2> QED
        BY <1>0, <2>1, <2>2
<1>2. ASSUME NEW s \in Scripts, ScriptStep(s) PROVE Turns'
    <2>0. s \in Runs /\ script[s] \in Records /\ script \in [Runs -> Records]
        BY Members DEF Types
    <2>1. \A t \in Scripts : t # s => Past(t)' = Past(t)
        BY <1>2, OneMoves, Members DEF Past
    <2>2. CASE TakeLock(s)
        <3>1. lock' /\ (Past(s)' => ~lock)
            BY <2>0, <2>2 DEF TakeLock, Go, Past
        <3> QED
            BY <1>0, <2>1, <3>1
    <2>3. CASE Unlock(s)
        <3>1. script[s].pc = "exit" /\ script'[s].pc \in {"report", "idle"}
            <4>1. CASE Leave(s)
                BY <1>0, <2>0, <2>3, <4>1, Leaving DEF Unlock, At
            <4>2. CASE Go(s, "report")
                BY <2>0, <2>3, <4>2 DEF Unlock, Go, At
            <4> QED
                BY <2>3, <4>1, <4>2 DEF Unlock
        <3>2. Past(s) /\ ~Past(s)'
            BY <3>1 DEF Past
        <3> QED
            BY <1>0, <2>1, <3>2
    <2>4. CASE Refused(s) \/ ReportFailure(s)
        <3>1. script'[s].pc = "idle" /\ lock' = lock
            <4>1. CASE Leave(s)
                BY <1>0, <2>0, <2>4, <4>1, Leaving DEF Refused, ReportFailure
            <4>2. CASE script' = [script EXCEPT ![s] = Fresh("idle")]
                BY <2>0, <2>4, <4>2, FreshRecord DEF Refused, ReportFailure
            <4> QED
                BY <2>4, <4>1, <4>2 DEF Refused, ReportFailure
        <3> QED
            BY <1>0, <2>1, <3>1 DEF Past
    <2>5. CASE Announce(s) \/ Resolve(s) \/ Compare(s) \/ Download(s) \/ Install(s) \/ Succeed(s)
        <3>1. Past(s)
            BY <2>5 DEF Announce, Resolve, Compare, Download, Install, InstallFirst, InstallSecond,
                        InstallBinary, RestartServices, Succeed, At, Past
        <3>2. lock' = lock
            BY <2>5 DEF Announce, Resolve, Compare, Download, Install, InstallFirst, InstallSecond,
                        InstallBinary, RestartServices, Succeed
        <3> QED
            BY <1>0, <2>1, <3>1, <3>2
    <2> QED
        BY <1>0, <1>2, <2>2, <2>3, <2>4, <2>5 DEF ScriptStep
<1>3. ASSUME NEW i \in Installers, InstallerStep(i) PROVE Turns'
    <2>1. \A s \in Scripts : script'[s] = script[s]
        <3>1. i \notin Scripts /\ i \in Runs
            BY RunsAssumption, Members
        <3> QED
            BY <1>3, <3>1, Members DEF InstallerStep, ReinstallByHand, ReinstallEnds, Install,
                  InstallFirst, InstallSecond, InstallBinary, RestartServices, Go, Fail, Types
    <2>2. lock' = lock
        BY <1>3 DEF InstallerStep, ReinstallByHand, ReinstallEnds, Install, InstallFirst,
                    InstallSecond, InstallBinary, RestartServices
    <2> QED
        BY <1>0, <2>1, <2>2 DEF Past
<1>4. CASE PowerLoss
    BY <1>4, FreshRecord, Members DEF PowerLoss, Past
<1>5. CASE RemoveStaleLock
    BY <1>5 DEF RemoveStaleLock, At, Past
<1>6. CASE CheckUpgrade \/ Release \/ DaemonReturns \/ UNCHANGED vars
    BY <1>0, <1>6 DEF CheckUpgrade, Release, DaemonReturns, vars, Past
<1> QED
    BY <1>1, <1>2, <1>3, <1>4, <1>5, <1>6 DEF Next

\* Without a version nobody has one before it is resolved.
LEMMA UnsteeredStep == ASSUME Types, Unsteered, [Next]_vars PROVE Unsteered'
<1> DEFINE Hidden == /\ \A i \in Installers : script[i].pc = "idle"
                     /\ \A s \in Scripts : script[s].pc \in Early \cup {"start"} =>
                           script[s].target = None
<1> SUFFICES ASSUME ~steered' PROVE Hidden'
    BY DEF Unsteered
<1>0. (\A i \in Installers, v \in Nat : ~ReinstallByHand(i, v)) /\ Hidden /\ ~steered
    BY Steering DEF Unsteered
<1>a. script \in [Runs -> Records] /\ Scripts \cap Installers = {} /\ Unit \in Scripts
      /\ Hands \subseteq Scripts
    BY RunsAssumption DEF Types, Scripts
<1>1. CASE StartUnit
    BY <1>0, <1>1, <1>a, FreshRecord, Members DEF StartUnit, Early
<1>2. ASSUME NEW h \in Hands, NEW v \in 0..latest, RunByHand(h, v) PROVE Hidden'
    <2>1. v = None /\ None \in Versions \cup {None}
        BY <1>2 DEF RunByHand
    <2> QED
        BY <1>0, <1>2, <1>a, <2>1, FreshFor, Members DEF RunByHand
<1>3. ASSUME NEW s \in Scripts, ScriptStep(s) PROVE Hidden'
    <2>0. s \in Runs /\ script[s] \in Records /\ s \notin Installers
        BY <1>a, Members
    <2>1. CASE TakeLock(s)
        BY <1>0, <1>3, <1>a, <2>0, <2>1, OneMoves, Members DEF TakeLock, At, Go, Records, Early
    <2>2. CASE Announce(s)
        BY <1>0, <1>3, <1>a, <2>0, <2>2, OneMoves, Members
           DEF Announce, Report, Fail, At, Go, Records, Early
    <2>3. CASE Resolve(s) \/ Compare(s) \/ Download(s)
        <3>1. script'[s].pc \in {"compare", "download", "install", "exit"}
            BY <1>a, <2>0, <2>3 DEF Resolve, Compare, Download, Report, Fail, Go, Records
        <3> QED
            BY <1>0, <1>3, <2>0, <3>1, OneMoves, Members DEF Early
    <2>4. CASE Install(s) \/ Succeed(s)
        <3>1. script'[s].pc \in {"second", "restart", "installed", "exit"}
            BY <1>a, <2>0, <2>4 DEF Install, InstallFirst, InstallSecond, InstallBinary,
                                    RestartServices, Succeed, Report, Fail, Go, Records
        <3> QED
            BY <1>0, <1>3, <2>0, <3>1, OneMoves, Members DEF Early
    <2>5. CASE Refused(s) \/ Unlock(s) \/ ReportFailure(s) \/ Signal(s)
        <3>1. script'[s].pc \in {"idle", "report", "exit"}
            <4>1. CASE Leave(s) \/ Signal(s)
                BY <2>0, <4>1, Leaving, Signalling
            <4>2. CASE Go(s, "report") \/ script' = [script EXCEPT ![s] = Fresh("idle")]
                BY <1>a, <2>0, <4>2, FreshRecord DEF Go, Records
            <4> QED
                BY <2>5, <4>1, <4>2 DEF Refused, Unlock, ReportFailure
        <3> QED
            BY <1>0, <1>3, <2>0, <3>1, OneMoves, Members DEF Early
    <2> QED
        BY <1>3, <2>1, <2>2, <2>3, <2>4, <2>5 DEF ScriptStep
<1>4. ASSUME NEW i \in Installers, InstallerStep(i) PROVE FALSE
    <2>1. script[i].pc = "idle"
        BY <1>0
    <2>2. \A v \in 1..latest : ~ReinstallByHand(i, v)
        BY <1>0, BoundAssumption DEF Types, Versions
    <2> QED
        BY <1>4, <2>1, <2>2 DEF InstallerStep, ReinstallEnds, Install, InstallFirst, InstallSecond,
                                InstallBinary, RestartServices, At
<1>5. ASSUME NEW r \in Runs, Kill(r) PROVE Hidden'
    BY <1>0, <1>5, <1>a, FreshRecord, Members DEF Kill, Early
<1>6. CASE PowerLoss
    BY <1>6, FreshRecord, Members DEF PowerLoss, Early
<1>7. CASE CheckUpgrade \/ Release \/ DaemonReturns \/ RemoveStaleLock \/ UNCHANGED vars
    BY <1>0, <1>7 DEF CheckUpgrade, Release, DaemonReturns, RemoveStaleLock, vars
<1> QED
    BY <1>1, <1>2, <1>3, <1>4, <1>5, <1>6, <1>7 DEF Next

\* Nothing but a script that holds the lock writes a binary or a success, so the
\* others, which do not, can be left aside.
LEMMA StepOrder ==
    ASSUME Types, Types', [Next]_vars, InOrder, Progress, Success,
           \A s \in Scripts : ~Signal(s),
           \A i \in Installers : ~InstallerStep(i),
           \A s \in Scripts : ~script[s].twice,
           \A s \in Scripts : script[s].pc = "resolve" => script[s].target = None,
           \A s, t \in Scripts : Past(s) /\ Past(t) => s = t
    PROVE  InOrder' /\ Progress' /\ Success'
<1> DEFINE Goal == InOrder /\ Progress /\ Success
<1>a. \A s \in Scripts : script[s].pc \in Known \cup {"resolve"} => Past(s)
    BY DEF Past, Known
<1>b. bin["wispboxd"] \in Nat /\ bin["wispboxctl"] \in Nat /\ latest \in Nat
    BY BoundAssumption DEF Types, Pairs, Versions
<1>c. DOMAIN bin = {"wispboxd", "wispboxctl"} /\ DOMAIN bin' = {"wispboxd", "wispboxctl"}
    BY DEF Types, Pairs
<1>d. \A s \in Scripts : script[s].pc \in Known => script[s].target \in Nat
    BY BoundAssumption, Members DEF Types, Versions
<1>1. CASE CheckUpgrade
    BY <1>1 DEF CheckUpgrade, InOrder, Progress, Success
<1>2. CASE \/ StartUnit \/ \E h \in Hands : \E v \in 0..latest : RunByHand(h, v)
           \/ \E r \in Runs : Kill(r)
    <2>1. \A s \in Scripts : script'[s] = script[s] \/ script'[s].pc \in {"start", "idle"}
        BY <1>2, Edges, Members
    <2>2. bin' = bin /\ latest' = latest /\ status' = status
        BY <1>2, Edges
    <2> QED
        BY <2>1, <2>2 DEF InOrder, Progress, Success, Known
<1>3. ASSUME NEW s \in Scripts, ScriptStep(s) PROVE Goal'
    <2>0. s \in Runs /\ script[s] \in Records /\ script \in [Runs -> Records]
        BY Members DEF Types
    <2>1. \A t \in Scripts : t # s => script'[t] = script[t]
        BY <1>3, OneMoves, Members
    <2>2. ASSUME Past(s), NEW t \in Scripts, t # s
          PROVE  script'[t].pc \notin Known \cup {"resolve"}
        BY <1>a, <2>1, <2>2
    <2>e. ASSUME script'[s].pc \notin Known \cup {"resolve"}, bin' = bin, latest' = latest,
                 status' = status \/ status'.state # "succeeded"
          PROVE  Goal'
        <3>1. InOrder'
            BY <2>1, <2>e DEF InOrder
        <3>2. Progress'
            BY <2>1, <2>e DEF Progress, Known
        <3>3. Success'
            BY <2>e DEF Success
        <3> QED
            BY <3>1, <3>2, <3>3
    <2>3. CASE TakeLock(s) \/ Unlock(s) \/ Refused(s) \/ ReportFailure(s)
        <3>1. script'[s].pc \in {"locked", "refused", "report", "idle"}
            <4>1. CASE Leave(s)
                BY <2>0, <4>1, Leaving
            <4>2. CASE Go(s, "report") \/ script' = [script EXCEPT ![s] = Fresh("idle")]
                BY <2>0, <4>2, FreshRecord DEF Go, Records
            <4>3. CASE TakeLock(s)
                BY <2>0, <4>3 DEF TakeLock, Go, Records
            <4> QED
                BY <2>3, <4>1, <4>2, <4>3 DEF Unlock, Refused, ReportFailure
        <3>2. bin' = bin /\ latest' = latest
              /\ (status' = status \/ status'.state # "succeeded")
            BY <2>3 DEF TakeLock, Unlock, Refused, ReportFailure, WriteStatus
        <3> QED
            BY <2>e, <3>1, <3>2 DEF Known
    <2>4. CASE Announce(s)
        <3>1. /\ script'[s].pc \in {"resolve", "exit"} /\ bin' = bin /\ latest' = latest
              /\ \/ status'.state = "running"
                 \/ script'[s].pc = "exit" /\ status' = status
            BY <2>0, <2>4 DEF Announce, Report, WriteStatus, Fail, Go, Records
        <3> QED
            BY <2>1, <2>e, <3>1 DEF InOrder, Progress, Success, Known
    <2>5. CASE Resolve(s)
        <3>1. At(s, "resolve") /\ Past(s) /\ status.state # "succeeded"
              /\ script[s].target = None
            BY <1>a, <2>5 DEF Resolve, At, Progress
        <3>2. /\ \/ script'[s].pc = "compare" /\ script'[s].target = latest
                 \/ script'[s].pc = "exit"
              /\ bin' = bin /\ latest' = latest /\ status' = status
            BY <2>0, <2>5, <3>1 DEF Resolve, Fail, Records
        <3> QED
            BY <1>b, <2>2, <2>e, <3>1, <3>2 DEF InOrder, Progress, Success, Known
    <2>6. CASE Compare(s)
        <3>1. At(s, "compare") /\ Past(s)
            BY <2>6, <1>a DEF Compare, At, Known
        <3>2. script[s].target \in Nat /\ bin["wispboxd"] <= script[s].target
              /\ script[s].target <= latest /\ bin["wispboxctl"] <= bin["wispboxd"]
            BY <3>1, <1>d DEF At, InOrder, Known
        <3>3. CASE script'[s].pc = "exit" /\ status' = status
            BY <2>6, <2>e, <3>3 DEF Compare, Known
        <3>4. CASE bin["wispboxctl"] = script[s].target /\ ~(script'[s].pc = "exit" /\ status' = status)
            <4>1. bin["wispboxd"] = script[s].target
                BY <3>2, <3>4, <1>b
            <4>2. /\ script'[s].pc = "exit" /\ bin' = bin /\ latest' = latest
                  /\ status' = [state |-> "succeeded", target |-> script[s].target]
                BY <2>0, <2>6, <3>4 DEF Compare, Report, Fail, Go, Records, WriteStatus
            <4>3. Success'
                BY <1>c, <3>4, <4>1, <4>2 DEF Success
            <4> QED
                BY <2>2, <3>1, <4>2, <4>3 DEF InOrder, Progress, Known
        <3>5. CASE bin["wispboxctl"] # script[s].target /\ ~(script'[s].pc = "exit" /\ status' = status)
            <4>1. /\ script'[s].pc = "download" /\ script'[s].target = script[s].target
                  /\ bin' = bin /\ latest' = latest /\ status'.state = "running"
                BY <2>0, <2>6, <3>5 DEF Compare, Fail, WriteStatus, Records
            <4> QED
                BY <2>2, <3>1, <3>2, <4>1 DEF InOrder, Progress, Success, Known
        <3> QED
            BY <3>3, <3>4, <3>5
    <2>7. CASE Download(s)
        <3>1. At(s, "download") /\ Past(s)
            BY <2>7, <1>a DEF Download, At, Known
        <3>2. /\ script'[s].pc \in {"install", "exit"} /\ script'[s].target = script[s].target
              /\ bin' = bin /\ latest' = latest /\ status'.state # "succeeded"
            BY <2>0, <2>7, <3>1 DEF Download, Report, Fail, Go, Records, WriteStatus, At, Progress, Known
        <3> QED
            BY <2>2, <3>1, <3>2 DEF InOrder, Progress, Success, Known, At
    <2>8. CASE InstallFirst(s)
        <3>1. At(s, "install") /\ Past(s)
            BY <2>8, <1>a DEF InstallFirst, InstallBinary, At, Known
        <3>2. /\ script'[s].target = script[s].target
              /\ latest' = latest /\ status' = status /\ status.state # "succeeded"
            BY <2>0, <2>8, <3>1 DEF InstallFirst, InstallBinary, Fail, Go, Records, At, Progress, Known
        <3>3. \/ /\ bin'["wispboxd"] = script[s].target
                 /\ bin'["wispboxctl"] = bin["wispboxctl"]
                 /\ script'[s].pc = "second"
              \/ bin' = bin /\ script'[s].pc = "exit"
            <4>1. \/ bin' = [bin EXCEPT !["wispboxd"] = script[s].target] /\ script'[s].pc = "second"
                  \/ bin' = bin /\ script'[s].pc = "exit"
                BY <2>0, <2>8 DEF InstallFirst, InstallBinary, Order, Fail, Go, Records
            <4> QED
                BY <1>c, <4>1 DEF Types, Pairs
        <3>4. script[s].target \in Nat /\ bin["wispboxd"] <= script[s].target
              /\ script[s].target <= latest /\ bin["wispboxctl"] <= bin["wispboxd"]
            BY <3>1, <1>d DEF At, InOrder, Known
        <3> QED
            BY <1>b, <2>2, <3>1, <3>2, <3>3, <3>4
               DEF InOrder, Progress, Success, Known
    <2>9. CASE InstallSecond(s)
        <3>1. At(s, "second") /\ Past(s)
            BY <2>9, <1>a DEF InstallSecond, InstallBinary, At, Known
        <3>2. /\ script'[s].target = script[s].target
              /\ latest' = latest /\ status' = status /\ status.state # "succeeded"
            BY <2>0, <2>9, <3>1 DEF InstallSecond, InstallBinary, Fail, Go, Records, At, Progress, Known
        <3>3. \/ /\ bin'["wispboxctl"] = script[s].target
                 /\ bin'["wispboxd"] = bin["wispboxd"]
                 /\ script'[s].pc = "restart"
              \/ bin' = bin /\ script'[s].pc = "exit"
            <4>1. \/ bin' = [bin EXCEPT !["wispboxctl"] = script[s].target] /\ script'[s].pc = "restart"
                  \/ bin' = bin /\ script'[s].pc = "exit"
                BY <2>0, <2>9 DEF InstallSecond, InstallBinary, Order, Fail, Go, Records
            <4> QED
                BY <1>c, <4>1 DEF Types, Pairs
        <3>4. script[s].target \in Nat /\ bin["wispboxd"] = script[s].target
              /\ script[s].target <= latest /\ bin["wispboxctl"] <= bin["wispboxd"]
            BY <3>1, <1>d DEF At, InOrder, Progress, Known
        <3> QED
            BY <1>b, <2>2, <3>1, <3>2, <3>3, <3>4
               DEF InOrder, Progress, Success, Known
    <2>10. CASE RestartServices(s)
        <3>1. At(s, "restart") /\ Past(s)
            BY <2>10, <1>a DEF RestartServices, At, Known
        <3>2. /\ script'[s].pc \in {"installed", "exit"} /\ script'[s].target = script[s].target
              /\ bin' = bin /\ latest' = latest /\ status' = status
            BY <2>0, <2>10 DEF RestartServices, Fail, Go, Records
        <3> QED
            BY <2>2, <3>1, <3>2 DEF InOrder, Progress, Success, Known, At
    <2>11. CASE Succeed(s)
        <3>1. At(s, "installed") /\ Past(s)
            BY <2>11, <1>a DEF Succeed, At, Known
        <3>2. /\ script'[s].pc = "exit" /\ bin' = bin /\ latest' = latest
              /\ \/ status' = status
                 \/ status' = [state |-> "succeeded", target |-> script[s].target]
            BY <2>0, <2>11 DEF Succeed, Report, Fail, WriteStatus, Go, Records
        <3>3. bin["wispboxd"] = script[s].target /\ bin["wispboxctl"] = script[s].target
            BY <3>1 DEF At, Progress
        <3>4. CASE status' = status
            BY <2>e, <3>2, <3>4 DEF Known
        <3>5. CASE status' = [state |-> "succeeded", target |-> script[s].target]
            BY <1>c, <2>2, <3>1, <3>2, <3>3, <3>5
               DEF InOrder, Progress, Success, Known
        <3> QED
            BY <3>2, <3>4, <3>5
    <2> QED
        BY <1>3, <2>3, <2>4, <2>5, <2>6, <2>7, <2>8, <2>9, <2>10, <2>11
           DEF ScriptStep, Install
<1>5. CASE Release
    BY <1>5, <1>b, <1>d DEF Release, InOrder, Progress, Success
<1>6. CASE DaemonReturns \/ RemoveStaleLock
    BY <1>6 DEF DaemonReturns, RemoveStaleLock, InOrder, Progress, Success
<1>7. CASE PowerLoss
    BY <1>7, FreshRecord, Members DEF PowerLoss, InOrder, Progress, Success,
                                            Known
<1>8. CASE UNCHANGED vars
    BY <1>8 DEF vars, InOrder, Progress, Success
<1> QED
    BY <1>1, <1>2, <1>3, <1>5, <1>6, <1>7, <1>8 DEF Next

--------------------------------------------------------------------------------
LEMMA Inductive == Spec => []IInv
<1>1. IInv /\ [Next]_vars => IInv'
    <2> SUFFICES ASSUME IInv, [Next]_vars PROVE IInv'
        OBVIOUS
    <2>1. Types' /\ OnceOnly' /\ ScriptsTakeTurns' /\ Unsteered'
        BY StepTypes, OnceStep, TurnsStep, UnsteeredStep DEF IInv
    <2>2. ASSUME Calm' PROVE InOrder' /\ Progress' /\ Success'
        <3>1. Calm /\ \A s \in Scripts : ~Signal(s)
            BY <2>2, Histories, Steering DEF IInv, Calm
        <3>2. InOrder /\ Progress /\ Success
            BY <3>1 DEF IInv
        <3>3. \A i \in Installers : ~InstallerStep(i)
            <4> SUFFICES ASSUME NEW i \in Installers, InstallerStep(i) PROVE FALSE
                OBVIOUS
            <4>1. script[i].pc = "idle"
                BY <3>1 DEF IInv, Unsteered, Calm
            <4>2. \A v \in 1..latest : ~ReinstallByHand(i, v)
                BY <2>2 DEF ReinstallByHand, Calm
            <4> QED
                BY <4>1, <4>2 DEF InstallerStep, ReinstallEnds, Install, InstallFirst,
                                  InstallSecond, InstallBinary, RestartServices, At
        <3>4. /\ \A s \in Scripts : ~script[s].twice
              /\ \A s \in Scripts : script[s].pc = "resolve" => script[s].target = None
              /\ \A s, t \in Scripts : Past(s) /\ Past(t) => s = t
            BY <3>1, Members DEF IInv, OnceOnly, Unsteered, ScriptsTakeTurns, Calm, Early
        <3> QED
            BY <2>1, <3>1, <3>2, <3>3, <3>4, StepOrder DEF IInv
    <2> QED
        BY <2>1, <2>2 DEF IInv
<1> QED
    BY InitHolds, <1>1, PTL DEF Spec

\* Every run of upgrade.sh and install.sh is at a known place, and from the
\* comparison of versions on it has a release to install (upgrade.sh refuses an
\* empty tag).
THEOREM TypeCorrect == Spec => []TypeOK
<1>1. IInv => TypeOK
    <2> SUFFICES ASSUME Types PROVE TypeOK
        BY DEF IInv
    <2>1. ASSUME NEW s \in Runs
          PROVE  script[s] \in Records
        BY DEF Types
    <2> QED
        BY <2>1 DEF Types, TypeOK, Pairs, Reports, Records, Free, Early, Known
<1> QED
    BY Inductive, <1>1, PTL

\* Until a script is stopped by a signal it traps, at most one run of upgrade.sh
\* is between the mkdir of the lock and its removal, and the lock is there
\* meanwhile: any number of shells run it, or install.sh, beside the unit, for
\* any version, and any of them fails, is killed or is cut off by a power loss.
THEOREM TurnsUnlessSignalled == Spec => []ScriptsTakeTurns
<1>1. IInv => ScriptsTakeTurns
    BY DEF IInv
<1> QED
    BY Inductive, <1>1, PTL

\* Until somebody signals a script, asks for a version or runs install.sh by
\* hand, "succeeded" in upgrade.json names the version of both installed
\* binaries, with any number of runs of the script, failed commands and status
\* files that cannot be written, runs that are killed and power losses.
THEOREM SucceededUnlessSteered == Spec => []SucceededIsInstalled
<1>1. IInv => SucceededIsInstalled
    <2> SUFFICES ASSUME IInv PROVE SucceededIsInstalled
        OBVIOUS
    <2>1. CASE Calm
        BY <2>1 DEF IInv, Success, SucceededIsInstalled
    <2>2. CASE ~Calm
        BY <2>2 DEF Calm, SucceededIsInstalled
    <2> QED
        BY <2>1, <2>2
<1> QED
    BY Inductive, <1>1, PTL


--------------------------------------------------------------------------------
(* Backup.  A restore is right because nothing else writes while it runs and *)
(* no two entries bear the same name; a backup is right because certificates *)
(* are written before the rows that name them, and read after the rows were. *)

Files   == {"secret.key", "fullchain.pem", "privkey.pem"}
Pems    == {"fullchain.pem", "privkey.pem"}
Secrets == {Torn, Missing, 1, 2}
Held    == [name : Names, content : AllRows \cup AllValues]
Fits(e) == e.content \in IF e.name = "wispbox.db" THEN AllRows
                         ELSE IF e.name = "secret.key" THEN Secrets ELSE AllValues

\* Shapes alone.
Shapes ==
    /\ up \in BOOLEAN /\ issuing \in {"no", "chain", "key"} /\ serial \in 1..MaxSerial
    /\ main \in AllRows \cup {NoDb} /\ wal \in AllRows \cup {NoLog}
    /\ disk \in [Files -> AllValues] /\ disk["secret.key"] \in Secrets
    /\ archive \in [there : BOOLEAN, whole : BOOLEAN, entries : Seq(Held),
                    asked : Nat, sound : BOOLEAN, omitted : BOOLEAN]
    /\ \A i \in DOMAIN archive.entries : Fits(archive.entries[i])
    /\ task \in [kind : {"none", "snapshot", "create", "restore"}, step : Nat,
                 asked : Nat, rows : AllRows \cup {NoDb}]
    /\ newer \in BOOLEAN /\ runs \in 0..MaxRuns /\ sound \in BOOLEAN
    /\ open \in {"no", "current", "stale"} /\ unlinked \in AllRows \cup {NoLog}
    /\ shared \in BOOLEAN

\* Whoever reads the database finds one.
Readable ==
    /\ up => Database \in AllRows /\ disk["secret.key"] \in {1, 2}
    /\ task.kind = "create" => task.rows \in AllRows

\* A restore has the host to itself, and a certificate that is being written
\* was begun after the last one.
Alone ==
    /\ task.kind = "restore" => ~up
    /\ issuing # "no" => up /\ restored = <<>>

\* A log without its name is held only by a Dovecot that was restored under.
Stale ==
    /\ unlinked # NoLog => open = "stale"
    /\ open = "stale" => shared /\ sound = FALSE

\* Every name is in the archive once, and the database's is among them.
Listed ==
    /\ \A i, j \in DOMAIN archive.entries :
          archive.entries[i].name = archive.entries[j].name => i = j
    /\ task.kind = "create" =>
          /\ task.step >= 1
          /\ \A i \in DOMAIN archive.entries : \E j \in DOMAIN Entries :
                j < task.step /\ archive.entries[i].name = Entries[j]
    /\ archive.whole \/ (task.kind = "create" /\ task.step > 1) =>
          \E i \in DOMAIN archive.entries : archive.entries[i].name = "wispbox.db"

\* What a restore has written so far is what a reader would find.
Restoring ==
    task.kind = "restore" /\ task.step >= 1 =>
        /\ wal = NoLog /\ restored = <<>> /\ sound = FALSE
        /\ ~shared => \A i \in DOMAIN archive.entries : i < task.step =>
              Content(archive.entries[i].name) = Written(archive.entries[i])

\* The files are never behind the rows, unless a restore is unfinished.
Ahead ==
    /\ main.cert <= serial /\ wal.cert <= serial /\ unlinked.cert <= serial
    /\ task.kind = "create" => task.rows.cert <= serial
    /\ \A i \in DOMAIN archive.entries :
          archive.entries[i].name = "wispbox.db" => archive.entries[i].content.cert <= serial
    /\ issuing # "no" => disk["fullchain.pem"] = serial
    /\ issuing = "key" => disk["privkey.pem"] = serial
    /\ sound /\ Database.cert # Missing => \A f \in Pems : disk[f] >= Database.cert

HasPems(cert) ==
    cert # Missing => \A f \in Pems :
        /\ \A i \in DOMAIN archive.entries :
              archive.entries[i].name = f => archive.entries[i].content >= cert
        /\ ~archive.omitted => \E i \in DOMAIN archive.entries : archive.entries[i].name = f

\* A backup under way: what it has not read yet is new enough.
Creating ==
    /\ task.kind = "snapshot" /\ sound => Database.commits >= task.asked
    /\ task.kind = "create" =>
          /\ ~archive.whole
          /\ \A i \in DOMAIN archive.entries :
                archive.entries[i].name = "wispbox.db" => archive.entries[i].content = task.rows
          /\ archive.sound => task.rows.commits >= archive.asked
          /\ archive.sound /\ task.rows.cert # Missing => \A j \in {3, 4} :
                /\ task.step <= j => disk[Entries[j]] >= task.rows.cert
                /\ \A i \in DOMAIN archive.entries : archive.entries[i].name = Entries[j] =>
                      archive.entries[i].content >= task.rows.cert
                /\ task.step > j => archive.omitted \/
                      \E i \in DOMAIN archive.entries : archive.entries[i].name = Entries[j]

\* A finished backup, as ArchiveIsCurrent asks.
Created ==
    archive.whole /\ archive.sound =>
        \A i \in DOMAIN archive.entries : archive.entries[i].name = "wispbox.db" =>
            /\ archive.entries[i].content.commits >= archive.asked
            /\ HasPems(archive.entries[i].content.cert)

BackupInv == /\ Shapes /\ Readable /\ Alone /\ Stale /\ Listed /\ Restoring /\ Ahead /\ Creating
        /\ Created /\ RestoredIsArchived

--------------------------------------------------------------------------------
LEMMA Constants ==
    /\ Names = {"wispbox.db"} \cup Files /\ Names \ {"wispbox.db"} = Files
    /\ DOMAIN Entries = 1..4
    /\ Entries[1] = "wispbox.db" /\ Entries[2] = "secret.key"
    /\ Entries[3] = "fullchain.pem" /\ Entries[4] = "privkey.pem"
<1>1. DOMAIN Entries = 1..4
    BY DEF Entries
<1>2. Names = {Entries[1], Entries[2], Entries[3], Entries[4]}
    BY <1>1 DEF Names
<1> QED
    BY <1>1, <1>2 DEF Entries, Files

LEMMA OneFileWritten ==
    ASSUME disk \in [Files -> AllValues], disk["secret.key"] \in Secrets,
           NEW f \in Files, NEW c \in AllValues, f = "secret.key" => c \in Secrets,
           disk' = [disk EXCEPT ![f] = c]
    PROVE  disk' \in [Files -> AllValues] /\ disk'["secret.key"] \in Secrets
<1>1. "secret.key" \in Files
    BY DEF Files
<1> QED
    BY <1>1

LEMMA RowFacts ==
    /\ \A r \in AllRows : /\ r.commits \in Nat /\ r.cert \in Nat /\ r.secret \in {1, 2}
                          /\ r.commits <= MaxCommits /\ r # NoDb /\ r # NoLog
    /\ NoDb.cert = 0 /\ NoLog.cert = 0
BY BackupBoundAssumption DEF AllRows, NoDb, NoLog, Rows, Missing

LEMMA DatabaseShape == Shapes => Database \in AllRows \cup {NoDb}
BY DEF Shapes, Database

LEMMA EntryShape ==
    ASSUME Shapes, NEW i \in DOMAIN archive.entries
    PROVE  /\ archive.entries[i].name \in Names /\ Fits(archive.entries[i])
           /\ i \in Nat /\ i >= 1
<1>1. archive.entries \in Seq(Held)
    BY DEF Shapes
<1>2. i \in 1..Len(archive.entries) /\ archive.entries[i] \in Held /\ Len(archive.entries) \in Nat
    BY <1>1
<1> QED
    BY <1>2 DEF Shapes, Held

\* An archive grows by one entry at its end.
LEMMA Appended ==
    ASSUME Shapes, NEW n, NEW c, n \in Names, c \in AllRows \cup AllValues,
           archive' = [archive EXCEPT !.entries = Append(@, Entry(n, c))]
    PROVE  LET k == Len(archive.entries) + 1
           IN  /\ archive'.entries \in Seq(Held)
               /\ DOMAIN archive'.entries = DOMAIN archive.entries \cup {k}
               /\ k \notin DOMAIN archive.entries
               /\ \A i \in DOMAIN archive.entries : archive'.entries[i] = archive.entries[i]
               /\ archive'.entries[k] = Entry(n, c)
               /\ archive'.whole = archive.whole /\ archive'.sound = archive.sound
               /\ archive'.asked = archive.asked /\ archive'.there = archive.there
               /\ archive'.omitted = archive.omitted
<1> DEFINE k == Len(archive.entries) + 1
<1>1. archive.entries \in Seq(Held) /\ Entry(n, c) \in Held
    BY DEF Shapes, Held, Entry
<1>2. archive'.entries = Append(archive.entries, Entry(n, c))
    BY DEF Shapes
<1>3. /\ archive'.whole = archive.whole /\ archive'.sound = archive.sound
      /\ archive'.asked = archive.asked /\ archive'.there = archive.there
      /\ archive'.omitted = archive.omitted
    BY DEF Shapes
<1>4. /\ archive'.entries \in Seq(Held) /\ Len(archive'.entries) = k
      /\ \A i \in 1..Len(archive.entries) : archive'.entries[i] = archive.entries[i]
      /\ archive'.entries[k] = Entry(n, c)
    BY <1>1, <1>2
<1>5. /\ DOMAIN archive.entries = 1..Len(archive.entries) /\ DOMAIN archive'.entries = 1..k
      /\ Len(archive.entries) \in Nat
    BY <1>1, <1>4
<1> QED
    BY <1>3, <1>4, <1>5

\* What AddEntry does, as the invariants see it.
LEMMA AddEntryCases ==
    ASSUME Shapes, Readable, AddEntry
    PROVE  /\ task.kind = "create" /\ task.step \in 1..4
           /\ task'.kind = "create" /\ task'.step = task.step + 1
           /\ task'.rows = task.rows /\ task'.asked = task.asked
           /\ \/ /\ task.step # 1
                 /\ archive'.entries = archive.entries /\ archive'.whole = archive.whole
                 /\ archive'.sound = archive.sound /\ archive'.asked = archive.asked
                 /\ archive'.there = archive.there
                 /\ archive'.omitted = (archive.omitted \/ disk[Entries[task.step]] # Missing)
                 /\ archive' \in [there : BOOLEAN, whole : BOOLEAN, entries : Seq(Held),
                                   asked : Nat, sound : BOOLEAN, omitted : BOOLEAN]
              \/ \E c \in AllRows \cup AllValues :
                    /\ archive' = [archive EXCEPT
                                     !.entries = Append(@, Entry(Entries[task.step], c))]
                    /\ task.step = 1 => c = task.rows /\ c \in AllRows
                    /\ task.step # 1 => c = disk[Entries[task.step]]
                    /\ Fits(Entry(Entries[task.step], c))
<1>1. /\ task.kind = "create" /\ task.step \in 1..4 /\ task' = [task EXCEPT !.step = @ + 1]
    BY Constants DEF AddEntry
<1>2. /\ task'.kind = "create" /\ task'.step = task.step + 1
      /\ task'.rows = task.rows /\ task'.asked = task.asked
    BY <1>1 DEF Shapes
<1>3. task.rows \in AllRows
    BY <1>1 DEF Readable
<1>4. CASE task.step = 1
    BY <1>1, <1>2, <1>3, <1>4, Constants DEF AddEntry, Fits, Entry
<1>5. CASE task.step # 1
    <2>1. Entries[task.step] \in Files
        BY <1>1, <1>5, Constants DEF Files
    <2>2. Entries[task.step] # "wispbox.db" /\ disk[Entries[task.step]] \in AllValues
        BY <2>1 DEF Files, Shapes
    <2>3. Fits(Entry(Entries[task.step], disk[Entries[task.step]]))
        BY <2>2 DEF Fits, Entry, Shapes
    <2>4. CASE archive' = [archive EXCEPT !.omitted = @ \/ disk[Entries[task.step]] # Missing]
        BY <1>1, <1>2, <1>5, <2>4 DEF Shapes
    <2>5. CASE archive' = [archive EXCEPT
                  !.entries = Append(@, Entry(Entries[task.step], disk[Entries[task.step]]))]
        BY <1>1, <1>2, <1>5, <2>2, <2>3, <2>5
    <2> QED
        BY <2>2, <2>4, <2>5 DEF AddEntry
<1> QED
    BY <1>1, <1>4, <1>5

\* What RestoreEntry does: the entry is written, or it is torn and the run ends.
LEMMA RestoreEntryCases ==
    ASSUME Shapes, RestoreEntry
    PROVE  LET e == archive.entries[task.step]
           IN  /\ task.kind = "restore" /\ task.step \in DOMAIN archive.entries
               /\ archive' = archive /\ wal' = wal
               /\ \/ task'.kind = "restore" /\ task'.step = task.step + 1
                  \/ task'.kind = "none" /\ task' = Idle
               /\ \/ /\ e.name = "wispbox.db"
                     /\ disk' = disk
                     /\ main' = NoDb \/ (main' \in AllRows /\ main' = e.content)
                  \/ /\ e.name \in Files
                     /\ main' = main
                     /\ \E c \in AllValues :
                          /\ disk' = [disk EXCEPT ![e.name] = c]
                          /\ e.name = "secret.key" => c \in Secrets
               /\ task'.kind = "restore" =>
                     /\ e.name = "wispbox.db" => main' = Written(e)
                     /\ e.name # "wispbox.db" => disk' = [disk EXCEPT ![e.name] = Written(e)]
<1> DEFINE e == archive.entries[task.step]
<1>1. task.kind = "restore" /\ task.step \in DOMAIN archive.entries
      /\ archive' = archive /\ wal' = wal
    BY DEF RestoreEntry
<1>2. e.name \in Names /\ Fits(e)
    BY <1>1, EntryShape
<1>3. Torn \in AllValues /\ Torn \in Secrets
    BY DEF AllValues, Secrets
<1>4. \/ task' = [task EXCEPT !.step = @ + 1] /\ WriteFile(e.name, Written(e))
      \/ task' = Idle /\ WriteFile(e.name, IF e.name = "wispbox.db" THEN NoDb ELSE Torn)
    BY DEF RestoreEntry
<1>5. CASE e.name = "wispbox.db"
    <2>1. e.content \in AllRows
        BY <1>2, <1>5 DEF Fits
    <2>2. Written(e) = NoDb \/ Written(e) = e.content
        BY DEF Written
    <2> QED
        BY <1>1, <1>4, <1>5, <2>1, <2>2 DEF WriteFile, Shapes, Idle
<1>6. CASE e.name # "wispbox.db"
    <2>1. e.name \in Files
        BY <1>2, <1>6, Constants
    <2>2. e.content \in AllValues /\ (e.name = "secret.key" => e.content \in Secrets)
        BY <1>2, <1>6 DEF Fits, Secrets, AllValues
    <2>3. Written(e) = e.content
        BY <1>6 DEF Written, Large
    <2> QED
        BY <1>1, <1>3, <1>4, <1>6, <2>1, <2>2, <2>3 DEF WriteFile, Shapes, Idle
<1> QED
    BY <1>5, <1>6

\* A Dovecot that closes the database changes it only after a restore under it.
LEMMA CloseKeeps ==
    ASSUME Shapes, Stale, Close
    PROVE  /\ up \/ ~shared \/ sound => Database' = Database
           /\ main' = main \/ main' = unlinked \/ main' = NoDb
           /\ wal' = wal \/ wal' = NoLog
           /\ unlinked' = NoLog
           /\ daemon' = daemon /\ disk' = disk /\ archive' = archive /\ task' = task
           /\ runs' = runs /\ restored' = restored /\ sound' = sound /\ shared' = shared
<1>1. /\ main' = main \/ main' = unlinked \/ main' = NoDb
      /\ wal' = wal \/ wal' = NoLog
      /\ unlinked' = NoLog
      /\ daemon' = daemon /\ disk' = disk /\ archive' = archive /\ task' = task
      /\ runs' = runs /\ restored' = restored /\ sound' = sound /\ shared' = shared
    BY DEF Close, daemon, history
<1>2. up \/ ~shared \/ sound => main' = main /\ wal' = wal
    BY DEF Close, Stale
<1> QED
    BY <1>1, <1>2 DEF Database

\* Only an idle host is restored, and only a running daemon issues.
LEMMA StepAlone ==
    ASSUME Shapes, Alone, [BackupNext]_backupVars PROVE Alone'
<1> USE DEF Alone, daemon, dovecot, history
<1>1. CASE Start
    BY <1>1 DEF Start
<1>2. CASE Stop
    BY <1>2 DEF Stop
<1>3. CASE Commit
    BY <1>3 DEF Commit
<1>4. CASE WriteChain
    BY <1>4 DEF WriteChain
<1>5. CASE WriteKey
    BY <1>5 DEF WriteKey
<1>6. CASE RecordCertificate
    BY <1>6 DEF RecordCertificate
<1>7. CASE Checkpoint
    BY <1>7 DEF Checkpoint
<1>8. CASE BeginCreate
    BY <1>8 DEF BeginCreate, Idle
<1>9. CASE Snapshot
    BY <1>9 DEF Snapshot, NoArchive
<1>10. CASE AddEntry
    BY <1>10 DEF AddEntry, Entry
<1>11. CASE FinishCreate
    BY <1>11 DEF FinishCreate, Idle
<1>12. ASSUME NEW force \in BOOLEAN, BeginRestore(force) PROVE Alone'
    BY <1>12 DEF BeginRestore, Idle
<1>13. CASE RemoveSidecars
    BY <1>13 DEF RemoveSidecars
<1>14. CASE RestoreEntry
    BY <1>14 DEF RestoreEntry, WriteFile, Idle
<1>15. CASE EndRestore
    BY <1>15 DEF EndRestore, Idle
<1>16. CASE Interrupt
    BY <1>16 DEF Interrupt, Idle
<1>17. CASE UNCHANGED backupVars
    BY <1>17 DEF backupVars, daemon, dovecot, history
<1>18. CASE Open
    BY <1>18 DEF Open
<1>19. CASE Close
    BY <1>19 DEF Close
<1> QED
    BY <1>1, <1>2, <1>3, <1>4, <1>5, <1>6, <1>7, <1>8, <1>9, <1>10, <1>11, <1>12, <1>13, <1>14, <1>15, <1>16, <1>17,
       <1>18, <1>19
       DEF BackupNext, Daemon, Create, Restore

\* A restore that reports success while Dovecot has a log without a name does
\* not make the host sound.
LEMMA StepStale ==
    ASSUME Shapes, Stale, [BackupNext]_backupVars PROVE Stale'
<1> USE DEF Stale, daemon, dovecot, history
<1>1. CASE Start
    BY <1>1 DEF Start
<1>2. CASE Stop
    BY <1>2 DEF Stop
<1>3. CASE Commit
    BY <1>3 DEF Commit
<1>4. CASE WriteChain
    BY <1>4 DEF WriteChain
<1>5. CASE WriteKey
    BY <1>5 DEF WriteKey
<1>6. CASE RecordCertificate
    BY <1>6 DEF RecordCertificate
<1>7. CASE Checkpoint
    BY <1>7 DEF Checkpoint
<1>8. CASE BeginCreate
    BY <1>8 DEF BeginCreate, Idle
<1>9. CASE Snapshot
    BY <1>9 DEF Snapshot, NoArchive
<1>10. CASE AddEntry
    BY <1>10 DEF AddEntry, Entry
<1>11. CASE FinishCreate
    BY <1>11 DEF FinishCreate, Idle
<1>12. ASSUME NEW force \in BOOLEAN, BeginRestore(force) PROVE Stale'
    BY <1>12 DEF BeginRestore, Idle
<1>13. CASE RemoveSidecars
    BY <1>13 DEF RemoveSidecars
<1>14. CASE RestoreEntry
    BY <1>14 DEF RestoreEntry, WriteFile, Idle
<1>15. CASE EndRestore
    BY <1>15 DEF EndRestore, Idle
<1>16. CASE Interrupt
    BY <1>16 DEF Interrupt, Idle
<1>17. CASE UNCHANGED backupVars
    BY <1>17 DEF backupVars, daemon, dovecot, history
<1>18. CASE Open
    BY <1>18 DEF Open
<1>19. CASE Close
    BY <1>19 DEF Close
<1> QED
    BY <1>1, <1>2, <1>3, <1>4, <1>5, <1>6, <1>7, <1>8, <1>9, <1>10, <1>11, <1>12, <1>13, <1>14, <1>15, <1>16, <1>17,
       <1>18, <1>19
       DEF BackupNext, Daemon, Create, Restore

\* The database that is read is one, and the secret is whole.
LEMMA StepReadable ==
    ASSUME Shapes, Readable, Alone, Stale, [BackupNext]_backupVars PROVE Readable'
<1> USE DEF Readable, Alone, Database, daemon, dovecot, history
<1>1. CASE Start
    <2>1. disk'["secret.key"] \in {1, 2}
        <3>1. disk \in [Files -> AllValues] /\ "secret.key" \in Files
            BY DEF Shapes, Files
        <3>2. disk["secret.key"] \in {Missing, 1, 2}
            BY <1>1 DEF Start, Shapes, Secrets
        <3> QED
            BY <1>1, <3>1, <3>2 DEF Start
    <2> QED
        BY <1>1, <2>1, DatabaseShape DEF Start
<1>2. CASE Stop
    BY <1>2 DEF Stop
<1>3. CASE Commit
    <2>1. wal' \in AllRows
        <3>1. Database \in AllRows /\ Database.commits < MaxCommits
            BY <1>3 DEF Commit
        <3>2. PICK secret \in {Database.secret, disk["secret.key"]} :
                 wal' = [Database EXCEPT !.commits = @ + 1, !.secret = secret]
            BY <1>3 DEF Commit
        <3>3. secret \in {1, 2} /\ Database.commits + 1 \in 0..MaxCommits
            BY <1>3, <3>1, RowFacts, BackupBoundAssumption DEF Commit
        <3> QED
            BY <3>1, <3>2, <3>3 DEF AllRows
    <2> QED
        BY <1>3, <2>1, RowFacts DEF Commit
<1>4. CASE WriteChain
    BY <1>4 DEF WriteChain
<1>5. CASE WriteKey
    BY <1>5 DEF WriteKey
<1>6. CASE RecordCertificate
    <2>1. up /\ wal' = [Database EXCEPT !.cert = serial] /\ serial \in 0..MaxSerial
        BY <1>6, BackupBoundAssumption DEF RecordCertificate, Shapes
    <2>2. wal' \in AllRows
        BY <2>1 DEF AllRows
    <2> QED
        BY <1>6, <2>2, RowFacts DEF RecordCertificate
<1>7. CASE Checkpoint
    BY <1>7 DEF Checkpoint
<1>8. CASE BeginCreate
    BY <1>8 DEF BeginCreate, Idle
<1>9. CASE Snapshot
    <2>1. Database \in AllRows
        BY <1>9, DatabaseShape DEF Snapshot
    <2>2. task'.rows = Database
        BY <1>9 DEF Snapshot, Shapes
    <2>3. Database' = Database /\ up' = up /\ disk' = disk
        BY <1>9 DEF Snapshot
    <2> QED
        BY <2>1, <2>2, <2>3
<1>10. CASE AddEntry
    BY <1>10 DEF AddEntry, Entry
<1>11. CASE FinishCreate
    BY <1>11 DEF FinishCreate, Idle
<1>12. ASSUME NEW force \in BOOLEAN, BeginRestore(force) PROVE Readable'
    BY <1>12 DEF BeginRestore, Idle
<1>13. CASE RemoveSidecars
    BY <1>13 DEF RemoveSidecars
<1>14. CASE RestoreEntry
    <2>1. task.kind = "restore" /\ task'.kind \in {"restore", "none"}
        BY <1>14, RestoreEntryCases
    <2> QED
        BY <1>14, <2>1 DEF RestoreEntry
<1>15. CASE EndRestore
    BY <1>15 DEF EndRestore, Idle
<1>16. CASE Interrupt
    BY <1>16 DEF Interrupt, Idle
<1>17. CASE UNCHANGED backupVars
    BY <1>17 DEF backupVars, daemon, dovecot, history
<1>18. CASE Open
    BY <1>18 DEF Open
<1>19. CASE Close
    BY <1>19, CloseKeeps
<1> QED
    BY <1>1, <1>2, <1>3, <1>4, <1>5, <1>6, <1>7, <1>8, <1>9, <1>10, <1>11, <1>12, <1>13, <1>14, <1>15, <1>16, <1>17,
       <1>18, <1>19
       DEF BackupNext, Daemon, Create, Restore

\* Entries are added in their order, each once.
LEMMA StepListed ==
    ASSUME Shapes, Readable, Listed, [BackupNext]_backupVars PROVE Listed'
<1> USE DEF Listed, daemon, dovecot, history
<1>1. CASE Start
    BY <1>1 DEF Start
<1>2. CASE Stop
    BY <1>2 DEF Stop
<1>3. CASE Commit
    BY <1>3 DEF Commit
<1>4. CASE WriteChain
    BY <1>4 DEF WriteChain
<1>5. CASE WriteKey
    BY <1>5 DEF WriteKey
<1>6. CASE RecordCertificate
    BY <1>6 DEF RecordCertificate
<1>7. CASE Checkpoint
    BY <1>7 DEF Checkpoint
<1>8. CASE BeginCreate
    BY <1>8 DEF BeginCreate, Idle
<1>9. CASE Snapshot
    BY <1>9 DEF Snapshot, NoArchive
<1>10. CASE AddEntry
    <2> DEFINE k == Len(archive.entries) + 1
    <2>1. task.kind = "create" /\ task.step \in 1..4 /\ task'.step = task.step + 1
        BY <1>10, AddEntryCases
    <2>2. CASE archive'.entries = archive.entries /\ archive'.whole = archive.whole /\ task.step # 1
        <3>1. task.step > 1 /\ \A j \in DOMAIN Entries : j < task.step => j < task'.step
            BY <2>1, <2>2, Constants
        <3> QED
            BY <2>1, <2>2, <3>1
    <2>3. ASSUME NEW c \in AllRows \cup AllValues,
                 archive' = [archive EXCEPT !.entries = Append(@, Entry(Entries[task.step], c))]
          PROVE  Listed'
        <3>1. Entries[task.step] \in Names
            BY <2>1, Constants DEF Files
        <3>2. /\ DOMAIN archive'.entries = DOMAIN archive.entries \cup {k}
              /\ k \notin DOMAIN archive.entries
              /\ \A i \in DOMAIN archive.entries : archive'.entries[i] = archive.entries[i]
              /\ archive'.entries[k].name = Entries[task.step]
            BY <2>3, <3>1, Appended DEF Entry
        <3>3. \A j \in DOMAIN Entries : j < task.step => Entries[j] # Entries[task.step]
            BY <2>1, Constants
        <3>4. \A i \in DOMAIN archive.entries : archive.entries[i].name # Entries[task.step]
            BY <2>1, <3>3
        <3>5. \A i, j \in DOMAIN archive'.entries :
                 archive'.entries[i].name = archive'.entries[j].name => i = j
            BY <3>2, <3>4
        <3>6. \A i \in DOMAIN archive'.entries : \E j \in DOMAIN Entries :
                 j < task'.step /\ archive'.entries[i].name = Entries[j]
            <4>1. \A j \in DOMAIN Entries : j < task.step => j < task'.step
                BY <2>1, Constants
            <4>2. task.step \in DOMAIN Entries /\ task.step < task'.step
                BY <2>1, Constants
            <4> QED
                BY <2>1, <3>2, <4>1, <4>2
        <3>7. \E i \in DOMAIN archive'.entries : archive'.entries[i].name = "wispbox.db"
            <4>1. CASE task.step = 1
                BY <3>2, <4>1, Constants
            <4>2. CASE task.step > 1
                BY <2>1, <3>2, <4>2
            <4> QED
                BY <2>1, <4>1, <4>2
        <3> QED
            BY <2>1, <3>5, <3>6, <3>7
    <2> QED
        BY <1>10, <2>2, <2>3, AddEntryCases
<1>11. CASE FinishCreate
    <2>1. task.step > 1
        BY <1>11, Constants DEF FinishCreate, Shapes
    <2>2. archive'.entries = archive.entries /\ task'.kind = "none"
        BY <1>11 DEF FinishCreate, Idle, Shapes
    <2> QED
        BY <1>11, <2>1, <2>2 DEF FinishCreate
<1>12. ASSUME NEW force \in BOOLEAN, BeginRestore(force) PROVE Listed'
    BY <1>12 DEF BeginRestore, Idle
<1>13. CASE RemoveSidecars
    BY <1>13 DEF RemoveSidecars
<1>14. CASE RestoreEntry
    <2>1. task.kind = "restore" /\ task'.kind \in {"restore", "none"} /\ archive' = archive
        BY <1>14, RestoreEntryCases
    <2> QED
        BY <2>1
<1>15. CASE EndRestore
    BY <1>15 DEF EndRestore, Idle
<1>16. CASE Interrupt
    BY <1>16 DEF Interrupt, Idle
<1>17. CASE UNCHANGED backupVars
    BY <1>17 DEF backupVars, daemon, dovecot, history
<1>18. CASE Open
    BY <1>18 DEF Open
<1>19. CASE Close
    BY <1>19 DEF Close
<1> QED
    BY <1>1, <1>2, <1>3, <1>4, <1>5, <1>6, <1>7, <1>8, <1>9, <1>10, <1>11, <1>12, <1>13, <1>14, <1>15, <1>16, <1>17,
       <1>18, <1>19
       DEF BackupNext, Daemon, Create, Restore

\* A restore that has come this far has put back this much.
LEMMA StepRestoring ==
    ASSUME Shapes, Alone, Stale, Listed, Restoring, [BackupNext]_backupVars PROVE Restoring'
<1> USE DEF Restoring, Alone, Content, Database, daemon, dovecot, history
<1>1. CASE Start
    BY <1>1 DEF Start
<1>2. CASE Stop
    BY <1>2 DEF Stop
<1>3. CASE Commit
    BY <1>3 DEF Commit
<1>4. CASE WriteChain
    BY <1>4 DEF WriteChain
<1>5. CASE WriteKey
    BY <1>5 DEF WriteKey
<1>6. CASE RecordCertificate
    BY <1>6 DEF RecordCertificate
<1>7. CASE Checkpoint
    BY <1>7 DEF Checkpoint
<1>8. CASE BeginCreate
    BY <1>8 DEF BeginCreate, Idle
<1>9. CASE Snapshot
    BY <1>9 DEF Snapshot, NoArchive
<1>10. CASE AddEntry
    BY <1>10 DEF AddEntry, Entry
<1>11. CASE FinishCreate
    BY <1>11 DEF FinishCreate, Idle
<1>12. ASSUME NEW force \in BOOLEAN, BeginRestore(force) PROVE Restoring'
    BY <1>12 DEF BeginRestore, Idle
<1>13. CASE RemoveSidecars
    <2>1. /\ wal' = NoLog /\ restored' = <<>> /\ sound' = FALSE
          /\ task'.step = 1 /\ archive' = archive
        BY <1>13 DEF RemoveSidecars, Shapes
    <2>2. \A i \in DOMAIN archive.entries : ~ (i < 1)
        BY EntryShape
    <2> QED
        BY <2>1, <2>2
<1>14. CASE RestoreEntry
    <2> DEFINE e == archive.entries[task.step]
    <2>1. /\ task.kind = "restore" /\ task.step \in DOMAIN archive.entries
          /\ archive' = archive /\ wal' = wal
          /\ e.name \in Names
        BY <1>14, RestoreEntryCases, EntryShape
    <2>2. task.step >= 1 /\ task.step \in Nat
        BY <2>1, EntryShape
    <2>3. wal = NoLog /\ restored' = <<>> /\ sound' = FALSE
        BY <1>14, <2>1, <2>2 DEF RestoreEntry
    <2>a. shared' = shared
        BY <1>14 DEF RestoreEntry
    <2> SUFFICES ASSUME task'.kind = "restore", ~shared,
                        NEW i \in DOMAIN archive.entries, i < task'.step
                 PROVE  Content(archive.entries[i].name)' = Written(archive.entries[i])
        BY <2>1, <2>3, <2>a DEF Content, Written, Large
    <2>4. task'.step = task.step + 1
        BY <1>14, RestoreEntryCases
    <2>5. /\ e.name = "wispbox.db" => main' = Written(e) /\ disk' = disk
          /\ e.name # "wispbox.db" => main' = main /\ disk' = [disk EXCEPT ![e.name] = Written(e)]
        <3>1. /\ e.name = "wispbox.db" => disk' = disk
              /\ e.name # "wispbox.db" => main' = main
            BY <1>14, RestoreEntryCases DEF Files
        <3>2. /\ e.name = "wispbox.db" => main' = Written(e)
              /\ e.name # "wispbox.db" => disk' = [disk EXCEPT ![e.name] = Written(e)]
            BY <1>14, RestoreEntryCases
        <3> QED
            BY <3>1, <3>2
    <2>6. DOMAIN disk = Files
        BY DEF Shapes
    <2>7. CASE i = task.step
        BY <2>1, <2>3, <2>5, <2>6, <2>7, Constants
    <2>8. CASE i < task.step
        <3>1. archive.entries[i].name # e.name
            BY <2>1, <2>2, <2>8, EntryShape DEF Listed
        <3>2. Content(archive.entries[i].name) = Written(archive.entries[i])
            BY <2>1, <2>2, <2>8
        <3> QED
            BY <2>1, <2>3, <2>5, <2>6, <3>1, <3>2, EntryShape, Constants
    <2> QED
        BY <2>2, <2>4, <2>7, <2>8, EntryShape
<1>15. CASE EndRestore
    BY <1>15 DEF EndRestore, Idle
<1>16. CASE Interrupt
    BY <1>16 DEF Interrupt, Idle
<1>17. CASE UNCHANGED backupVars
    BY <1>17 DEF backupVars, daemon, dovecot, history
<1>18. CASE Open
    BY <1>18 DEF Open
<1>19. CASE Close
    <2>1. task.kind = "restore" /\ task.step >= 1 => wal' = NoLog
        BY <1>19, CloseKeeps
    <2>2. ~shared => Database' = Database
        BY <1>19, CloseKeeps
    <2>3. /\ task' = task /\ restored' = restored /\ sound' = sound /\ shared' = shared
          /\ disk' = disk /\ archive' = archive
        BY <1>19, CloseKeeps
    <2> QED
        BY <2>1, <2>2, <2>3 DEF Written, Large
<1> QED
    BY <1>1, <1>2, <1>3, <1>4, <1>5, <1>6, <1>7, <1>8, <1>9, <1>10, <1>11, <1>12, <1>13, <1>14, <1>15, <1>16, <1>17,
       <1>18, <1>19
       DEF BackupNext, Daemon, Create, Restore

\* Certificate, key, row: whoever reads the rows first finds files as new.
LEMMA StepAhead ==
    ASSUME Shapes, Readable, Alone, Stale, Listed, Restoring, Ahead, Created, [BackupNext]_backupVars PROVE Ahead'
<1> USE DEF Ahead, Alone, daemon, dovecot, history
<1>a. main' = main /\ wal' = wal => Database' = Database
    BY DEF Database
<1>1. CASE Start
    <2>1. disk'["fullchain.pem"] = disk["fullchain.pem"] /\ disk'["privkey.pem"] = disk["privkey.pem"]
        BY <1>1 DEF Start, Shapes, Files
    <2> QED
        BY <1>1, <2>1, <1>a DEF Start, Pems
<1>2. CASE Stop
    BY <1>2, <1>a DEF Stop
<1>3. CASE Commit
    <2>1. Database \in AllRows /\ wal'.cert = Database.cert /\ wal' # NoLog
        <3>1. Database \in AllRows
            BY <1>3 DEF Commit, Readable
        <3>2. PICK secret \in {Database.secret, disk["secret.key"]} :
                 wal' = [Database EXCEPT !.commits = @ + 1, !.secret = secret]
            BY <1>3 DEF Commit
        <3>3. wal'.cert = Database.cert /\ wal'.commits = Database.commits + 1
            BY <3>1, <3>2 DEF AllRows
        <3>4. NoLog.commits = -1 /\ Database.commits \in Nat
            BY <3>1, RowFacts DEF NoLog, Rows
        <3> QED
            BY <3>1, <3>3, <3>4
    <2>2. Database'.cert = Database.cert /\ Database.cert <= serial
        BY <2>1 DEF Database
    <2> QED
        BY <1>3, <2>1, <2>2 DEF Commit
<1>4. CASE WriteChain
    <2>1. /\ serial' = serial + 1 /\ issuing' = "chain" /\ main' = main /\ wal' = wal
          /\ archive' = archive /\ task' = task /\ sound' = sound
          /\ disk'["fullchain.pem"] = serial + 1 /\ disk'["privkey.pem"] = disk["privkey.pem"]
        BY <1>4 DEF WriteChain, Shapes, Files
    <2>2. Database' = Database /\ Database.cert <= serial /\ Database.cert \in Nat
        BY <2>1, RowFacts DEF Database, Shapes
    <2>3. \A x \in Nat : x <= serial => x <= serial'
        BY <2>1 DEF Shapes
    <2>4. main.cert \in Nat /\ wal.cert \in Nat /\ unlinked.cert \in Nat /\ unlinked' = unlinked
          /\ (task.kind = "create" => task.rows.cert \in Nat)
        BY <1>4, RowFacts DEF Shapes, Readable, WriteChain
    <2>5. \A i \in DOMAIN archive.entries :
             archive.entries[i].name = "wispbox.db" => archive.entries[i].content.cert \in Nat
        BY EntryShape, RowFacts DEF Fits
    <2>6. sound' /\ Database'.cert # Missing => \A f \in Pems : disk'[f] >= Database'.cert
        BY <2>1, <2>2, <2>3 DEF Pems, Shapes
    <2> QED
        BY <2>1, <2>3, <2>4, <2>5, <2>6
<1>5. CASE WriteKey
    <2>1. /\ disk'["privkey.pem"] = serial /\ disk'["fullchain.pem"] = disk["fullchain.pem"]
        BY <1>5 DEF WriteKey, Shapes, Files
    <2>2. Database' = Database /\ Database.cert <= serial /\ Database.cert \in Nat
        BY <1>5, RowFacts DEF Database, Shapes, WriteKey
    <2>3. sound' /\ Database'.cert # Missing => \A f \in Pems : disk'[f] >= Database'.cert
        BY <1>5, <2>1, <2>2 DEF Pems, Shapes, WriteKey
    <2> QED
        BY <1>5, <2>1, <2>3 DEF WriteKey
<1>6. CASE RecordCertificate
    <2>1. wal'.cert = serial /\ main' = main /\ serial' = serial /\ disk' = disk
        BY <1>6 DEF RecordCertificate, Readable, AllRows
    <2>2. disk["fullchain.pem"] = serial /\ disk["privkey.pem"] = serial
        BY <1>6 DEF RecordCertificate
    <2>3. Database'.cert <= serial
        BY <2>1 DEF Database, Shapes
    <2>4. sound' /\ Database'.cert # Missing => \A f \in Pems : disk'[f] >= Database'.cert
        BY <2>1, <2>2, <2>3, RowFacts DEF Pems, Shapes, Database
    <2> QED
        BY <1>6, <2>1, <2>2, <2>4 DEF RecordCertificate, Shapes
<1>7. CASE Checkpoint
    <2>1. Database' = Database
        BY <1>7 DEF Checkpoint, Database
    <2>2. wal'.cert = 0 /\ serial \in Nat
        BY <1>7, RowFacts DEF Checkpoint, Shapes
    <2> QED
        BY <1>7, <2>1, <2>2 DEF Checkpoint
<1>8. CASE BeginCreate
    <2>1. task'.kind = "snapshot"
        BY <1>8 DEF BeginCreate, Idle
    <2> QED
        BY <1>8, <2>1, <1>a DEF BeginCreate
<1>9. CASE Snapshot
    <2>1. task'.rows = Database /\ Database.cert <= serial
        BY <1>9 DEF Snapshot, Database, Shapes
    <2>2. archive'.entries = <<>>
        BY <1>9 DEF Snapshot, NoArchive
    <2> QED
        BY <1>9, <2>1, <2>2, <1>a DEF Snapshot
<1>10. CASE AddEntry
    <2> DEFINE k == Len(archive.entries) + 1
    <2>1. /\ task.kind = "create" /\ task'.kind = "create" /\ task'.rows = task.rows
          /\ task.step \in 1..4
        BY <1>10, AddEntryCases
    <2>2. \A i \in DOMAIN archive'.entries : archive'.entries[i].name = "wispbox.db" =>
             archive'.entries[i].content.cert <= serial
        <3>1. CASE archive'.entries = archive.entries
            BY <3>1
        <3>2. ASSUME NEW c \in AllRows \cup AllValues,
                     archive' = [archive EXCEPT !.entries = Append(@, Entry(Entries[task.step], c))],
                     task.step = 1 => c = task.rows
              PROVE  \A i \in DOMAIN archive'.entries : archive'.entries[i].name = "wispbox.db" =>
                         archive'.entries[i].content.cert <= serial
            <4>1. Entries[task.step] \in Names
                BY <2>1, Constants DEF Files
            <4>2. /\ DOMAIN archive'.entries = DOMAIN archive.entries \cup {k}
                  /\ \A i \in DOMAIN archive.entries : archive'.entries[i] = archive.entries[i]
                  /\ archive'.entries[k].name = Entries[task.step]
                  /\ archive'.entries[k].content = c
                BY <3>2, <4>1, Appended DEF Entry
            <4>3. Entries[task.step] = "wispbox.db" => c = task.rows
                BY <2>1, <3>2, Constants
            <4> QED
                BY <2>1, <4>2, <4>3
        <3> QED
            BY <1>10, <3>1, <3>2, AddEntryCases
    <2> QED
        BY <1>10, <2>1, <2>2, <1>a DEF AddEntry
<1>11. CASE FinishCreate
    <2>1. task'.kind = "none" /\ archive'.entries = archive.entries
        BY <1>11 DEF FinishCreate, Idle, Shapes
    <2> QED
        BY <1>11, <2>1, <1>a DEF FinishCreate
<1>12. ASSUME NEW force \in BOOLEAN, BeginRestore(force) PROVE Ahead'
    <2>1. task'.kind = "restore"
        BY <1>12 DEF BeginRestore, Idle
    <2> QED
        BY <1>12, <2>1, <1>a DEF BeginRestore
<1>13. CASE RemoveSidecars
    <2>1. wal'.cert = 0 /\ serial \in Nat /\ sound' = FALSE /\ task'.kind = "restore"
        BY <1>13, RowFacts DEF RemoveSidecars, Shapes
    <2> QED
        BY <1>13, <2>1 DEF RemoveSidecars
<1>14. CASE RestoreEntry
    <2> DEFINE e == archive.entries[task.step]
    <2>1. /\ task.kind = "restore" /\ task.step \in DOMAIN archive.entries
          /\ archive' = archive /\ wal' = wal /\ task'.kind \in {"restore", "none"}
        BY <1>14, RestoreEntryCases
    <2>2. main' = main \/ main' = NoDb \/ (main' = e.content /\ e.name = "wispbox.db")
        BY <1>14, RestoreEntryCases
    <2>3. main'.cert <= serial
        BY <2>1, <2>2, RowFacts DEF Shapes
    <2>4. sound' = FALSE /\ issuing = "no"
        BY <1>14, <2>1, EntryShape DEF RestoreEntry, Shapes, Restoring
    <2> QED
        BY <1>14, <2>1, <2>3, <2>4 DEF RestoreEntry
<1>15. CASE EndRestore
    <2>1. /\ task.kind = "restore" /\ task.step > Len(archive.entries)
          /\ task'.kind = "none" /\ archive' = archive /\ main' = main /\ wal' = wal /\ disk' = disk
        BY <1>15 DEF EndRestore, Idle
    <2>2. archive.entries \in Seq(Held) /\ task.step \in Nat
        BY DEF Shapes
    <2>3. task.step >= 1 /\ \A i \in DOMAIN archive.entries : i < task.step
        BY <2>1, <2>2
    <2>4. wal = NoLog /\ sound = FALSE
        BY <2>1, <2>3 DEF Restoring
    <2>5. ~shared => \A i \in DOMAIN archive.entries :
             Content(archive.entries[i].name) = Written(archive.entries[i])
        BY <2>1, <2>3 DEF Restoring
    <2>6. ASSUME sound', Database.cert # Missing, NEW f \in Pems
          PROVE  disk[f] >= Database.cert
        <3>1. archive.whole /\ archive.sound /\ ~archive.omitted /\ ~shared
            BY <1>15, <2>4, <2>6 DEF EndRestore
        <3>2. PICK i \in DOMAIN archive.entries : archive.entries[i].name = "wispbox.db"
            BY <3>1 DEF Listed
        <3>3. Database = Written(archive.entries[i])
            BY <2>5, <3>1, <3>2 DEF Content
        <3>4. Database = archive.entries[i].content
            BY <2>6, <3>3, RowFacts DEF Written, Missing
        <3>5. HasPems(Database.cert)
            BY <3>1, <3>2, <3>4 DEF Created
        <3>6. PICK k \in DOMAIN archive.entries :
                 archive.entries[k].name = f /\ archive.entries[k].content >= Database.cert
            BY <2>6, <3>1, <3>5 DEF HasPems
        <3>7. Content(f) = disk[f] /\ Written(archive.entries[k]) = archive.entries[k].content
            BY <3>6 DEF Content, Pems, Written, Large
        <3> QED
            BY <2>5, <3>1, <3>6, <3>7
    <2> QED
        BY <1>15, <2>1, <2>6, <1>a DEF EndRestore
<1>16. CASE Interrupt
    <2>1. task'.kind = "none"
        BY <1>16 DEF Interrupt, Idle
    <2> QED
        BY <1>16, <2>1, <1>a DEF Interrupt
<1>17. CASE UNCHANGED backupVars
    BY <1>17, <1>a DEF backupVars, daemon, dovecot, history
<1>18. CASE Open
    BY <1>18, <1>a DEF Open
<1>19. CASE Close
    <2>1. main'.cert <= serial /\ wal'.cert <= serial /\ unlinked'.cert <= serial
        BY <1>19, CloseKeeps, RowFacts DEF Shapes
    <2>2. sound => Database' = Database
        BY <1>19, CloseKeeps
    <2> QED
        BY <1>19, <2>1, <2>2, CloseKeeps
<1> QED
    BY <1>1, <1>2, <1>3, <1>4, <1>5, <1>6, <1>7, <1>8, <1>9, <1>10, <1>11, <1>12, <1>13, <1>14, <1>15, <1>16, <1>17,
       <1>18, <1>19
       DEF BackupNext, Daemon, Create, Restore

\* What a backup has yet to read only gets newer.
LEMMA StepCreating ==
    ASSUME Shapes, Readable, Alone, Stale, Ahead, Listed, Creating, [BackupNext]_backupVars PROVE Creating'
<1> USE DEF Creating, daemon, dovecot, history
<1>a. main' = main /\ wal' = wal => Database' = Database
    BY DEF Database
<1>1. CASE Start
    <2>1. \A j \in {3, 4} : disk'[Entries[j]] = disk[Entries[j]]
        BY <1>1, Constants DEF Start, Shapes, Files
    <2> QED
        BY <1>1, <2>1, <1>a DEF Start
<1>2. CASE Stop
    BY <1>2, <1>a DEF Stop
<1>3. CASE Commit
    <2>1. Database \in AllRows
        BY <1>3 DEF Commit, Readable
    <2>2. PICK secret \in {Database.secret, disk["secret.key"]} :
             wal' = [Database EXCEPT !.commits = @ + 1, !.secret = secret]
        BY <1>3 DEF Commit
    <2>3. wal'.commits = Database.commits + 1 /\ Database.commits \in Nat
        BY <2>1, <2>2, RowFacts DEF AllRows
    <2>4. NoLog.commits = -1
        BY DEF NoLog, Rows
    <2>5. Database'.commits = Database.commits + 1
        BY <2>3, <2>4 DEF Database
    <2> QED
        BY <1>3, <2>3, <2>5 DEF Commit, Shapes
<1>4. CASE WriteChain
    <2>1. /\ disk'["fullchain.pem"] = serial + 1 /\ disk'["privkey.pem"] = disk["privkey.pem"]
        BY <1>4 DEF WriteChain, Shapes, Files
    <2>2. task.kind = "create" =>
             task.rows.cert \in Nat /\ serial \in Nat /\ task.rows.cert <= serial
        BY RowFacts DEF Readable, Ahead, Shapes
    <2>3. task.kind = "create" => \A j \in {3, 4} :
             disk[Entries[j]] >= task.rows.cert => disk'[Entries[j]] >= task.rows.cert
        BY <2>1, <2>2, Constants
    <2> QED
        BY <1>4, <2>3, <1>a DEF WriteChain
<1>5. CASE WriteKey
    <2>1. /\ disk'["privkey.pem"] = serial /\ disk'["fullchain.pem"] = disk["fullchain.pem"]
        BY <1>5 DEF WriteKey, Shapes, Files
    <2>2. task.kind = "create" =>
             task.rows.cert \in Nat /\ serial \in Nat /\ task.rows.cert <= serial
        BY RowFacts DEF Readable, Ahead, Shapes
    <2>3. task.kind = "create" => \A j \in {3, 4} :
             disk[Entries[j]] >= task.rows.cert => disk'[Entries[j]] >= task.rows.cert
        BY <2>1, <2>2, Constants
    <2> QED
        BY <1>5, <2>3, <1>a DEF WriteKey
<1>6. CASE RecordCertificate
    <2>1. Database \in AllRows /\ wal' = [Database EXCEPT !.cert = serial]
        BY <1>6 DEF RecordCertificate, Readable, Alone
    <2>2. wal'.commits = Database.commits /\ Database.commits \in Nat
        BY <2>1, RowFacts DEF AllRows
    <2>3. NoLog.commits = -1
        BY DEF NoLog, Rows
    <2>4. Database'.commits = Database.commits
        BY <2>2, <2>3 DEF Database
    <2> QED
        BY <1>6, <2>4 DEF RecordCertificate
<1>7. CASE Checkpoint
    <2>1. Database' = Database
        BY <1>7 DEF Checkpoint, Database
    <2> QED
        BY <1>7, <2>1 DEF Checkpoint
<1>8. CASE BeginCreate
    <2>1. Database.commits \in Nat
        BY <1>8, DatabaseShape, RowFacts DEF BeginCreate
    <2>2. task'.kind = "snapshot" /\ task'.asked = Database.commits
        BY <1>8 DEF BeginCreate, Idle
    <2> QED
        BY <1>8, <2>1, <2>2, <1>a DEF BeginCreate
<1>9. CASE Snapshot
    <2>1. /\ task'.kind = "create" /\ task'.step = 1 /\ task'.rows = Database
          /\ archive'.asked = task.asked /\ archive'.sound = sound /\ archive'.whole = FALSE
          /\ archive'.entries = <<>> /\ disk' = disk
        BY <1>9 DEF Snapshot, NoArchive, Shapes
    <2>2. sound => Database.commits >= task.asked
        BY <1>9 DEF Snapshot
    <2>3. sound /\ Database.cert # Missing => \A j \in {3, 4} : disk[Entries[j]] >= Database.cert
        BY Constants DEF Ahead, Pems
    <2> QED
        BY <2>1, <2>2, <2>3
<1>10. CASE AddEntry
    <2> DEFINE k == Len(archive.entries) + 1
               name == Entries[task.step]
    <2>1. /\ task.kind = "create" /\ task'.kind = "create" /\ task'.rows = task.rows
          /\ task.step \in 1..4 /\ task'.step = task.step + 1 /\ disk' = disk
        BY <1>10, AddEntryCases DEF AddEntry
    <2>2. task.rows \in AllRows /\ task.rows.cert \in Nat
        BY <2>1, RowFacts DEF Readable
    <2>3. \A j \in {3, 4} : task'.step <= j => task.step <= j
        BY <2>1
    <2>4. \A j \in {3, 4} : task'.step > j => task.step > j \/ task.step = j
        BY <2>1
    <2>5. CASE /\ archive'.entries = archive.entries /\ archive'.whole = archive.whole
               /\ archive'.sound = archive.sound /\ archive'.asked = archive.asked
               /\ archive'.omitted = (archive.omitted \/ disk[name] # Missing)
        <3>1. ASSUME archive.sound, task.rows.cert # Missing, NEW j \in {3, 4}, task'.step > j
              PROVE  archive'.omitted \/
                        \E i \in DOMAIN archive.entries : archive.entries[i].name = Entries[j]
            <4>1. CASE task.step > j
                BY <2>1, <2>5, <3>1, <4>1
            <4>2. CASE task.step = j
                <5>1. disk[name] >= task.rows.cert
                    BY <2>1, <3>1, <4>2
                <5>2. disk[name] # Missing
                    BY <2>2, <3>1, <5>1 DEF Missing
                <5> QED
                    BY <2>5, <5>2
            <4> QED
                BY <2>4, <3>1, <4>1, <4>2
        <3> QED
            BY <2>1, <2>3, <2>5, <3>1
    <2>6. ASSUME NEW c \in AllRows \cup AllValues,
                 archive' = [archive EXCEPT !.entries = Append(@, Entry(name, c))],
                 task.step = 1 => c = task.rows,
                 task.step # 1 => c = disk[name]
          PROVE  Creating'
        <3>1. name \in Names
            BY <2>1, Constants DEF Files
        <3>2. /\ DOMAIN archive'.entries = DOMAIN archive.entries \cup {k}
              /\ \A i \in DOMAIN archive.entries : archive'.entries[i] = archive.entries[i]
              /\ archive'.entries[k].name = name
              /\ archive'.entries[k].content = c
              /\ archive'.whole = archive.whole /\ archive'.sound = archive.sound
              /\ archive'.asked = archive.asked /\ archive'.omitted = archive.omitted
            BY <2>6, <3>1, Appended DEF Entry
        <3>3. name = "wispbox.db" => c = task.rows
            BY <2>1, <2>6, Constants
        <3>4. \A i \in DOMAIN archive'.entries :
                 archive'.entries[i].name = "wispbox.db" => archive'.entries[i].content = task.rows
            BY <2>1, <3>2, <3>3
        <3>5. ASSUME archive.sound, task.rows.cert # Missing, NEW j \in {3, 4}
              PROVE  /\ task'.step <= j => disk[Entries[j]] >= task.rows.cert
                     /\ \A i \in DOMAIN archive'.entries : archive'.entries[i].name = Entries[j] =>
                           archive'.entries[i].content >= task.rows.cert
                     /\ task'.step > j => archive.omitted \/
                           \E i \in DOMAIN archive'.entries : archive'.entries[i].name = Entries[j]
            <4>1. task'.step <= j => disk[Entries[j]] >= task.rows.cert
                BY <2>1, <2>3, <3>5
            <4>2. name = Entries[j] => task.step = j
                BY <2>1, Constants
            <4>3. name = Entries[j] => c >= task.rows.cert
                <5>1. task.step = j => c = disk[Entries[j]] /\ disk[Entries[j]] >= task.rows.cert
                    BY <2>1, <2>6, <3>5
                <5> QED
                    BY <4>2, <5>1
            <4>4. \A i \in DOMAIN archive'.entries : archive'.entries[i].name = Entries[j] =>
                      archive'.entries[i].content >= task.rows.cert
                BY <2>1, <3>2, <3>5, <4>3
            <4>5. task'.step > j => archive.omitted \/
                      \E i \in DOMAIN archive'.entries : archive'.entries[i].name = Entries[j]
                <5>1. CASE task.step > j
                    BY <2>1, <3>2, <3>5, <5>1
                <5>2. CASE task.step = j
                    BY <3>2, <5>2
                <5> QED
                    BY <2>4, <5>1, <5>2
            <4> QED
                BY <4>1, <4>4, <4>5
        <3> QED
            BY <2>1, <3>2, <3>4, <3>5
    <2> QED
        BY <1>10, <2>5, <2>6, AddEntryCases
<1>11. CASE FinishCreate
    <2>1. task'.kind = "none"
        BY <1>11 DEF FinishCreate, Idle
    <2> QED
        BY <2>1
<1>12. ASSUME NEW force \in BOOLEAN, BeginRestore(force) PROVE Creating'
    BY <1>12 DEF BeginRestore, Idle
<1>13. CASE RemoveSidecars
    BY <1>13 DEF RemoveSidecars
<1>14. CASE RestoreEntry
    <2>1. task'.kind \in {"restore", "none"}
        BY <1>14, RestoreEntryCases
    <2> QED
        BY <2>1
<1>15. CASE EndRestore
    BY <1>15 DEF EndRestore, Idle
<1>16. CASE Interrupt
    BY <1>16 DEF Interrupt, Idle
<1>17. CASE UNCHANGED backupVars
    BY <1>17, <1>a DEF backupVars, daemon, dovecot, history
<1>18. CASE Open
    BY <1>18, <1>a DEF Open
<1>19. CASE Close
    BY <1>19, CloseKeeps
<1> QED
    BY <1>1, <1>2, <1>3, <1>4, <1>5, <1>6, <1>7, <1>8, <1>9, <1>10, <1>11, <1>12, <1>13, <1>14, <1>15, <1>16, <1>17,
       <1>18, <1>19
       DEF BackupNext, Daemon, Create, Restore

\* A backup is finished with all its entries.
LEMMA StepCreated ==
    ASSUME Shapes, Listed, Creating, Created, [BackupNext]_backupVars PROVE Created'
<1> USE DEF Created, HasPems, daemon, dovecot, history
<1>1. CASE Start
    BY <1>1 DEF Start
<1>2. CASE Stop
    BY <1>2 DEF Stop
<1>3. CASE Commit
    BY <1>3 DEF Commit
<1>4. CASE WriteChain
    BY <1>4 DEF WriteChain
<1>5. CASE WriteKey
    BY <1>5 DEF WriteKey
<1>6. CASE RecordCertificate
    BY <1>6 DEF RecordCertificate
<1>7. CASE Checkpoint
    BY <1>7 DEF Checkpoint
<1>8. CASE BeginCreate
    BY <1>8 DEF BeginCreate, Idle
<1>9. CASE Snapshot
    BY <1>9 DEF Snapshot, NoArchive
<1>10. CASE AddEntry
    <2>1. ~archive.whole
        BY <1>10 DEF AddEntry, Creating
    <2>2. archive'.whole = archive.whole
        BY <1>10 DEF AddEntry, Shapes
    <2> QED
        BY <2>1, <2>2
<1>11. CASE FinishCreate
    <2>1. /\ archive'.entries = archive.entries /\ archive'.sound = archive.sound
          /\ archive'.asked = archive.asked /\ archive'.omitted = archive.omitted
        BY <1>11 DEF FinishCreate, Shapes
    <2>2. /\ task.kind = "create" /\ task.step > 4
        BY <1>11, Constants DEF FinishCreate, Shapes, Listed
    <2>3. /\ archive.sound => task.rows.commits >= archive.asked
          /\ \A i \in DOMAIN archive.entries :
                archive.entries[i].name = "wispbox.db" => archive.entries[i].content = task.rows
        BY <2>2 DEF Creating
    <2>4. archive.sound => HasPems(task.rows.cert)
        <3>1. archive.sound /\ task.rows.cert # Missing => \A j \in {3, 4} :
                 /\ \A i \in DOMAIN archive.entries : archive.entries[i].name = Entries[j] =>
                       archive.entries[i].content >= task.rows.cert
                 /\ ~archive.omitted =>
                       \E i \in DOMAIN archive.entries : archive.entries[i].name = Entries[j]
            <4>1. \A j \in {3, 4} : task.step > j
                BY <2>2 DEF Shapes
            <4> QED
                BY <2>2, <4>1 DEF Creating
        <3> QED
            BY <3>1, Constants DEF Pems
    <2> QED
        BY <2>1, <2>3, <2>4
<1>12. ASSUME NEW force \in BOOLEAN, BeginRestore(force) PROVE Created'
    BY <1>12 DEF BeginRestore, Idle
<1>13. CASE RemoveSidecars
    BY <1>13 DEF RemoveSidecars
<1>14. CASE RestoreEntry
    BY <1>14 DEF RestoreEntry, WriteFile, Idle
<1>15. CASE EndRestore
    BY <1>15 DEF EndRestore, Idle
<1>16. CASE Interrupt
    BY <1>16 DEF Interrupt, Idle
<1>17. CASE UNCHANGED backupVars
    BY <1>17 DEF backupVars, daemon, dovecot, history
<1>18. CASE Open
    BY <1>18 DEF Open
<1>19. CASE Close
    BY <1>19 DEF Close
<1> QED
    BY <1>1, <1>2, <1>3, <1>4, <1>5, <1>6, <1>7, <1>8, <1>9, <1>10, <1>11, <1>12, <1>13, <1>14, <1>15, <1>16, <1>17,
       <1>18, <1>19
       DEF BackupNext, Daemon, Create, Restore

\* What was restored stays, until the daemon writes.
LEMMA StepRestored ==
    ASSUME Shapes, Alone, Stale, Restoring, RestoredIsArchived, [BackupNext]_backupVars PROVE RestoredIsArchived'
<1> USE DEF RestoredIsArchived, Content, Database, Large, daemon, dovecot, history
<1>a. restored = <<>> => DOMAIN restored = {}
    OBVIOUS
<1>1. CASE Start
    BY <1>1 DEF Start
<1>2. CASE Stop
    BY <1>2 DEF Stop
<1>3. CASE Commit
    BY <1>3 DEF Commit
<1>4. CASE WriteChain
    BY <1>4 DEF WriteChain
<1>5. CASE WriteKey
    BY <1>5, <1>a DEF WriteKey, Alone
<1>6. CASE RecordCertificate
    BY <1>6, <1>a DEF RecordCertificate, Alone
<1>7. CASE Checkpoint
    BY <1>7 DEF Checkpoint
<1>8. CASE BeginCreate
    BY <1>8 DEF BeginCreate, Idle
<1>9. CASE Snapshot
    BY <1>9 DEF Snapshot, NoArchive
<1>10. CASE AddEntry
    BY <1>10 DEF AddEntry, Entry
<1>11. CASE FinishCreate
    BY <1>11 DEF FinishCreate, Idle
<1>12. ASSUME NEW force \in BOOLEAN, BeginRestore(force) PROVE RestoredIsArchived'
    BY <1>12 DEF BeginRestore, Idle
<1>13. CASE RemoveSidecars
    BY <1>13 DEF RemoveSidecars
<1>14. CASE RestoreEntry
    <2>1. restored = <<>> /\ restored' = restored
        BY <1>14, EntryShape DEF RestoreEntry, Restoring
    <2> QED
        BY <2>1, <1>a
<1>15. CASE EndRestore
    <2>1. archive.entries \in Seq(Held) /\ task.step \in Nat
        BY DEF Shapes
    <2>2. /\ task.kind = "restore" /\ task.step >= 1
          /\ \A i \in DOMAIN archive.entries : i < task.step
        BY <1>15, <2>1 DEF EndRestore
    <2>3. ~shared => \A i \in DOMAIN archive.entries :
             \/ Large(archive.entries[i])
             \/ Content(archive.entries[i].name) = archive.entries[i].content
        BY <2>2 DEF Restoring, Written
    <2>4. main' = main /\ wal' = wal /\ disk' = disk /\ shared' = shared
        BY <1>15 DEF EndRestore
    <2>5. restored' = archive.entries \/ restored' = restored
        BY <1>15 DEF EndRestore
    <2> QED
        BY <2>3, <2>4, <2>5 DEF Content, Database
<1>16. CASE Interrupt
    BY <1>16 DEF Interrupt, Idle
<1>17. CASE UNCHANGED backupVars
    BY <1>17 DEF backupVars, daemon, dovecot, history
<1>18. CASE Open
    BY <1>18 DEF Open
<1>19. CASE Close
    <2>1. /\ ~shared => Database' = Database
          /\ disk' = disk /\ restored' = restored /\ shared' = shared
        BY <1>19, CloseKeeps
    <2> QED
        BY <2>1
<1> QED
    BY <1>1, <1>2, <1>3, <1>4, <1>5, <1>6, <1>7, <1>8, <1>9, <1>10, <1>11, <1>12, <1>13, <1>14, <1>15, <1>16, <1>17,
       <1>18, <1>19
       DEF BackupNext, Daemon, Create, Restore

\* Every step keeps the shapes.
LEMMA StepShapes ==
    ASSUME Shapes, Readable, Alone, Stale, [BackupNext]_backupVars PROVE Shapes'
<1> USE DEF Shapes, daemon, dovecot, history
<1>1. CASE Start
    <2>1. disk' = disk \/ disk' = [disk EXCEPT !["secret.key"] = 1]
        BY <1>1 DEF Start
    <2>2. disk' \in [Files -> AllValues] /\ disk'["secret.key"] \in Secrets
        BY <2>1 DEF AllValues, Secrets, Files
    <2> QED
        BY <1>1, <2>2 DEF Start
<1>2. CASE Stop
    <2>1. issuing' \in {"no", "chain", "key"} /\ up' \in BOOLEAN
        BY <1>2 DEF Stop
    <2> QED
        BY <1>2, <2>1 DEF Stop
<1>3. CASE Commit
    <2>1. Database \in AllRows /\ Database.commits < MaxCommits /\ disk["secret.key"] \in {1, 2}
        BY <1>3 DEF Commit, Readable
    <2>2. PICK secret \in {Database.secret, disk["secret.key"]} :
             wal' = [Database EXCEPT !.commits = @ + 1, !.secret = secret]
        BY <1>3 DEF Commit
    <2>3. secret \in {1, 2} /\ Database.commits + 1 \in 0..MaxCommits
        BY <2>1, RowFacts, BackupBoundAssumption
    <2>4. wal' \in AllRows
        BY <2>1, <2>2, <2>3 DEF AllRows
    <2> QED
        BY <1>3, <2>4 DEF Commit
<1>4. CASE WriteChain
    <2>1. serial + 1 \in 1..MaxSerial /\ disk' = [disk EXCEPT !["fullchain.pem"] = serial + 1]
        BY <1>4, BackupBoundAssumption DEF WriteChain
    <2>2. disk' \in [Files -> AllValues] /\ disk'["secret.key"] \in Secrets
        BY <2>1 DEF AllValues, Files
    <2> QED
        BY <1>4, <2>1, <2>2 DEF WriteChain
<1>5. CASE WriteKey
    <2>1. disk' = [disk EXCEPT !["privkey.pem"] = serial]
        BY <1>5 DEF WriteKey
    <2>2. disk' \in [Files -> AllValues] /\ disk'["secret.key"] \in Secrets
        BY <2>1 DEF AllValues, Files
    <2> QED
        BY <1>5, <2>2 DEF WriteKey
<1>6. CASE RecordCertificate
    <2>1. Database \in AllRows /\ wal' = [Database EXCEPT !.cert = serial]
        BY <1>6 DEF RecordCertificate, Readable, Alone
    <2>2. wal' \in AllRows
        BY <2>1 DEF AllRows
    <2> QED
        BY <1>6, <2>2 DEF RecordCertificate
<1>7. CASE Checkpoint
    BY <1>7 DEF Checkpoint
<1>8. CASE BeginCreate
    <2>1. Database \in AllRows /\ Database.commits \in Nat
        BY <1>8, DatabaseShape, RowFacts DEF BeginCreate
    <2>2. task' \in [kind : {"none", "snapshot", "create", "restore"}, step : Nat,
                    asked : Nat, rows : AllRows \cup {NoDb}]
        BY <1>8, <2>1 DEF BeginCreate, Idle
    <2>3. runs' \in 0..MaxRuns
        BY <1>8, BackupBoundAssumption DEF BeginCreate
    <2> QED
        BY <1>8, <2>2, <2>3 DEF BeginCreate
<1>9. CASE Snapshot
    <2>1. Database \in AllRows
        BY <1>9, DatabaseShape DEF Snapshot
    <2>2. task' \in [kind : {"none", "snapshot", "create", "restore"}, step : Nat,
                    asked : Nat, rows : AllRows \cup {NoDb}]
        BY <1>9, <2>1 DEF Snapshot
    <2>3. archive' = [there |-> TRUE, whole |-> FALSE, entries |-> <<>>,
                    asked |-> task.asked, sound |-> sound, omitted |-> FALSE]
        BY <1>9 DEF Snapshot, NoArchive
    <2>4. /\ archive' \in [there : BOOLEAN, whole : BOOLEAN, entries : Seq(Held),
                          asked : Nat, sound : BOOLEAN, omitted : BOOLEAN]
          /\ DOMAIN archive'.entries = {}
        <3>1. <<>> \in Seq(Held) /\ DOMAIN <<>> = {}
            OBVIOUS
        <3>2. task.asked \in Nat /\ sound \in BOOLEAN
            OBVIOUS
        <3> QED
            BY <2>3, <3>1, <3>2
    <2> QED
        BY <1>9, <2>2, <2>4 DEF Snapshot
<1>10. CASE AddEntry
    <2> DEFINE k == Len(archive.entries) + 1
    <2>1. task' \in [kind : {"none", "snapshot", "create", "restore"}, step : Nat,
                    asked : Nat, rows : AllRows \cup {NoDb}]
        BY <1>10 DEF AddEntry
    <2>2. task.step \in 1..4
        BY <1>10, AddEntryCases DEF Shapes
    <2>3. CASE /\ archive'.entries = archive.entries
               /\ archive' \in [there : BOOLEAN, whole : BOOLEAN, entries : Seq(Held),
                                asked : Nat, sound : BOOLEAN, omitted : BOOLEAN]
        BY <1>10, <2>1, <2>3 DEF AddEntry
    <2>4. ASSUME NEW c \in AllRows \cup AllValues,
                 archive' = [archive EXCEPT !.entries = Append(@, Entry(Entries[task.step], c))],
                 Fits(Entry(Entries[task.step], c))
          PROVE  Shapes'
        <3>1. Entries[task.step] \in Names
            BY <2>2, Constants DEF Files
        <3>2. /\ DOMAIN archive'.entries = DOMAIN archive.entries \cup {k}
              /\ \A i \in DOMAIN archive.entries : archive'.entries[i] = archive.entries[i]
              /\ archive'.entries[k] = Entry(Entries[task.step], c)
              /\ archive'.entries \in Seq(Held)
            <4>1. Shapes
                OBVIOUS
            <4> HIDE DEF Shapes
            <4> QED
                BY <2>4, <3>1, <4>1, Appended
        <3>3. \A i \in DOMAIN archive'.entries : Fits(archive'.entries[i])
            BY <2>4, <3>2
        <3>4. archive' \in [there : BOOLEAN, whole : BOOLEAN, entries : Seq(Held),
                           asked : Nat, sound : BOOLEAN, omitted : BOOLEAN]
            BY <2>4, <3>2
        <3> QED
            BY <1>10, <2>1, <3>3, <3>4 DEF AddEntry
    <2> QED
        BY <1>10, <2>3, <2>4, AddEntryCases DEF Shapes
<1>11. CASE FinishCreate
    <2>1. /\ archive'.entries = archive.entries
          /\ archive' \in [there : BOOLEAN, whole : BOOLEAN, entries : Seq(Held),
                          asked : Nat, sound : BOOLEAN, omitted : BOOLEAN]
        BY <1>11 DEF FinishCreate
    <2>2. task' \in [kind : {"none", "snapshot", "create", "restore"}, step : Nat,
                    asked : Nat, rows : AllRows \cup {NoDb}]
        BY <1>11 DEF FinishCreate, Idle
    <2>3. \A i \in DOMAIN archive'.entries : Fits(archive'.entries[i])
        BY <2>1
    <2> QED
        BY <1>11, <2>1, <2>2, <2>3 DEF FinishCreate
<1>12. ASSUME NEW force \in BOOLEAN, BeginRestore(force) PROVE Shapes'
    <2>1. runs' \in 0..MaxRuns
        BY <1>12, BackupBoundAssumption DEF BeginRestore
    <2> QED
        BY <1>12, <2>1 DEF BeginRestore, Idle
<1>13. CASE RemoveSidecars
    BY <1>13 DEF RemoveSidecars
<1>14. CASE RestoreEntry
    <2>1. main' \in AllRows \cup {NoDb}
        BY <1>14, RestoreEntryCases DEF Shapes
    <2>2. disk' \in [Files -> AllValues] /\ disk'["secret.key"] \in Secrets
        <3>1. \/ disk' = disk
              \/ \E f \in Files, c \in AllValues :
                    disk' = [disk EXCEPT ![f] = c] /\ (f = "secret.key" => c \in Secrets)
            BY <1>14, RestoreEntryCases DEF Shapes
        <3>2. CASE disk' = disk
            BY <3>2
        <3>3. ASSUME NEW f \in Files, NEW c \in AllValues,
                     disk' = [disk EXCEPT ![f] = c] /\ (f = "secret.key" => c \in Secrets)
              PROVE  disk' \in [Files -> AllValues] /\ disk'["secret.key"] \in Secrets
            BY <3>3, OneFileWritten
        <3> QED
            BY <3>1, <3>2, <3>3
    <2>3. task' \in [kind : {"none", "snapshot", "create", "restore"}, step : Nat,
                    asked : Nat, rows : AllRows \cup {NoDb}]
        BY <1>14 DEF RestoreEntry, Idle
    <2>4. newer' \in BOOLEAN
        BY <1>14 DEF RestoreEntry, WriteFile
    <2> QED
        BY <1>14, <2>1, <2>2, <2>3, <2>4 DEF RestoreEntry
<1>15. CASE EndRestore
    <2>1. sound' \in BOOLEAN
        BY <1>15 DEF EndRestore
    <2>2. task' \in [kind : {"none", "snapshot", "create", "restore"}, step : Nat,
                    asked : Nat, rows : AllRows \cup {NoDb}]
        BY <1>15 DEF EndRestore, Idle
    <2> QED
        BY <1>15, <2>1, <2>2 DEF EndRestore
<1>16. CASE Interrupt
    BY <1>16 DEF Interrupt, Idle
<1>17. CASE UNCHANGED backupVars
    BY <1>17 DEF backupVars, daemon, dovecot, history
<1>18. CASE Open
    BY <1>18 DEF Open
<1>19. CASE Close
    <2>1. /\ main' \in AllRows \cup {NoDb} /\ wal' \in AllRows \cup {NoLog}
          /\ unlinked' \in AllRows \cup {NoLog} /\ newer' \in BOOLEAN
          /\ open' \in {"no", "current", "stale"}
        BY <1>19 DEF Close
    <2> QED
        BY <1>19, <2>1, CloseKeeps
<1> QED
    BY <1>1, <1>2, <1>3, <1>4, <1>5, <1>6, <1>7, <1>8, <1>9, <1>10, <1>11, <1>12, <1>13, <1>14, <1>15, <1>16, <1>17,
       <1>18, <1>19
       DEF BackupNext, Daemon, Create, Restore

LEMMA BackupStart == BackupInit => BackupInv
<1> SUFFICES ASSUME BackupInit PROVE BackupInv
    OBVIOUS
<1>1. /\ main = Rows(0, 1, 0) /\ wal = NoLog /\ task = Idle /\ archive \in {NoArchive, Foreign}
      /\ up = FALSE /\ issuing = "no" /\ serial = 1 /\ runs = 0 /\ newer = TRUE
      /\ restored = <<>> /\ sound = TRUE /\ open = "no" /\ unlinked = NoLog /\ shared = FALSE
      /\ disk = [f \in Files |-> 0]
    BY Constants DEF BackupInit, Missing
<1>2. 1 \in 1..MaxSerial /\ {0, 1} \subseteq 0..MaxSerial /\ 0 \in 0..MaxCommits /\ 0 \in 0..MaxRuns
    BY BackupBoundAssumption
<1>3. main \in AllRows /\ main.cert = 0 /\ Rows(0, 2, 1) \in AllRows
    BY <1>1, <1>2 DEF Rows, AllRows
<1>4. task.kind = "none" /\ task.step = 0 /\ task.asked = 0 /\ task.rows = NoDb
    BY <1>1 DEF Idle
<1>5. disk \in [Files -> AllValues] /\ disk["secret.key"] \in Secrets
    BY <1>1 DEF AllValues, Secrets, Missing, Files
<1>6. /\ main \in AllRows \cup {NoDb} /\ wal \in AllRows \cup {NoLog}
      /\ task \in [kind : {"none", "snapshot", "create", "restore"}, step : Nat,
                   asked : Nat, rows : AllRows \cup {NoDb}]
    BY <1>1, <1>3 DEF Idle
<1>7. CASE archive = NoArchive
    <2>1. archive.entries = <<>> /\ archive.whole = FALSE
        BY <1>7 DEF NoArchive
    <2>2. Shapes
        <3>1. archive \in [there : BOOLEAN, whole : BOOLEAN, entries : Seq(Held),
                           asked : Nat, sound : BOOLEAN, omitted : BOOLEAN]
            BY <1>7 DEF NoArchive
        <3>2. DOMAIN archive.entries = {}
            BY <2>1
        <3> QED
            BY <1>1, <1>2, <1>5, <1>6, <3>1, <3>2 DEF Shapes
    <2>3. Ahead
        BY <1>1, <1>3, <1>4, <2>1, RowFacts DEF Ahead, Database, Missing
    <2> QED
        BY <1>1, <1>4, <2>1, <2>2, <2>3
           DEF BackupInv, Readable, Alone, Stale, Listed, Restoring, Creating, Created, RestoredIsArchived
<1>8. CASE archive = Foreign
    <2>1. /\ archive.entries = <<Entry("wispbox.db", Rows(0, 2, 1)), Entry("secret.key", 2),
                                 Entry("fullchain.pem", 1), Entry("privkey.pem", 1)>>
          /\ archive.whole = TRUE /\ archive.sound = TRUE /\ archive.there = TRUE
          /\ archive.asked = 0 /\ archive.omitted = FALSE
        BY <1>8 DEF Foreign, NoArchive
    <2>2. /\ DOMAIN archive.entries = 1..4 /\ Len(archive.entries) = 4
          /\ archive.entries[1] = Entry("wispbox.db", Rows(0, 2, 1))
          /\ archive.entries[2] = Entry("secret.key", 2)
          /\ archive.entries[3] = Entry("fullchain.pem", 1)
          /\ archive.entries[4] = Entry("privkey.pem", 1)
        BY <2>1
    <2>3. /\ archive.entries[1].name = "wispbox.db" /\ archive.entries[2].name = "secret.key"
          /\ archive.entries[3].name = "fullchain.pem" /\ archive.entries[4].name = "privkey.pem"
          /\ archive.entries[1].content = Rows(0, 2, 1)
          /\ archive.entries[2].content = 2 /\ archive.entries[3].content = 1
          /\ archive.entries[4].content = 1
        BY <2>2 DEF Entry
    <2>4. \A i \in DOMAIN archive.entries : i = 1 \/ i = 2 \/ i = 3 \/ i = 4
        BY <2>2
    <2>5. \A i \in DOMAIN archive.entries : Fits(archive.entries[i])
        BY <1>2, <1>3, <2>3, <2>4 DEF Fits, AllValues, Secrets
    <2>6. archive.entries \in Seq(Held)
        <3>1. \A i \in 1..4 : archive.entries[i] \in Held
            BY <1>2, <1>3, <2>2, Constants DEF Held, Entry, AllValues, Files
        <3> QED
            BY <2>1, <3>1, <2>2
    <2>7. Shapes
        <3>1. archive \in [there : BOOLEAN, whole : BOOLEAN, entries : Seq(Held),
                           asked : Nat, sound : BOOLEAN, omitted : BOOLEAN]
            <4>1. archive = [there |-> TRUE, whole |-> TRUE, entries |-> archive.entries,
                             asked |-> 0, sound |-> TRUE, omitted |-> FALSE]
                BY <1>8 DEF Foreign, NoArchive
            <4>2. ASSUME NEW es \in Seq(Held)
                  PROVE  [there |-> TRUE, whole |-> TRUE, entries |-> es, asked |-> 0,
                          sound |-> TRUE, omitted |-> FALSE]
                         \in [there : BOOLEAN, whole : BOOLEAN, entries : Seq(Held),
                              asked : Nat, sound : BOOLEAN, omitted : BOOLEAN]
                OBVIOUS
            <4> DEFINE es == archive.entries
            <4>3. es \in Seq(Held)
                BY <2>6
            <4>4. archive = [there |-> TRUE, whole |-> TRUE, entries |-> es,
                             asked |-> 0, sound |-> TRUE, omitted |-> FALSE]
                BY <4>1
            <4> HIDE DEF es
            <4> QED
                BY <4>2, <4>3, <4>4
        <3> QED
            BY <1>1, <1>2, <1>5, <1>6, <2>5, <3>1 DEF Shapes
    <2>8. Rows(0, 2, 1).cert = 1 /\ Rows(0, 2, 1).commits = 0
        BY DEF Rows
    <2>9. Ahead
        BY <1>1, <1>3, <1>4, <2>3, <2>4, <2>8, RowFacts DEF Ahead, Database, Missing
    <2>10. Listed
        BY <1>4, <2>2, <2>3, <2>4 DEF Listed
    <2>11. Created
        BY <2>1, <2>2, <2>3, <2>4, <2>8 DEF Created, HasPems, Pems
    <2> QED
        BY <1>1, <1>4, <2>7, <2>9, <2>10, <2>11
           DEF BackupInv, Readable, Alone, Stale, Restoring, Creating, RestoredIsArchived
<1> QED
    BY <1>1, <1>7, <1>8

--------------------------------------------------------------------------------
LEMMA BackupInductive == BackupSpec => []BackupInv
<1>1. BackupInv /\ [BackupNext]_backupVars => BackupInv'
    BY StepShapes, StepReadable, StepAlone, StepStale, StepListed, StepRestoring, StepAhead,
       StepCreating, StepCreated, StepRestored DEF BackupInv
<1> QED
    BY BackupStart, <1>1, PTL DEF BackupSpec

\* Every file holds what some write of the daemon, of a backup or of a restore
\* leaves in it, and an archive never holds a torn database (VACUUM INTO).
THEOREM BackupTypeCorrect == BackupSpec => []BackupTypeOK
<1>1. BackupInv => BackupTypeOK
    <2> SUFFICES ASSUME Shapes PROVE BackupTypeOK
        BY DEF BackupInv
    <2>1. ASSUME NEW i \in DOMAIN archive.entries
          PROVE  LET e == archive.entries[i]
                 IN  /\ e.name \in Names
                     /\ e.content \in IF e.name = "wispbox.db" THEN AllRows ELSE AllValues
        BY EntryShape DEF Fits, Secrets, AllValues
    <2>2. disk \in [Names \ {"wispbox.db"} -> AllValues]
        BY Constants DEF Shapes
    <2> QED
        BY <2>1, <2>2 DEF Shapes, BackupTypeOK
<1> QED
    BY BackupInductive, <1>1, PTL

\* A restore that reported success has put back every entry of the archive, until
\* the daemon writes: no log of the replaced database, no entry written twice
\* (backup.go removes -wal and -shm before it writes the entries).  Excepted are a
\* database larger than 1 GiB, which it cuts off, and a restore under a Dovecot
\* that had the database open.
THEOREM RestoreIsFaithful == BackupSpec => []RestoredIsArchived
<1>1. BackupInv => RestoredIsArchived
    BY DEF BackupInv
<1> QED
    BY BackupInductive, <1>1, PTL

\* A finished archive, of a host that no unfinished restore has left a mixture,
\* holds every commit answered before the backup was asked for, and no file older
\* than the certificate its rows name, with the daemon committing and renewing
\* throughout; both files, unless an error kept one that was there out of it.
THEOREM BackupIsCurrent == BackupSpec => []ArchiveIsCurrent
<1>1. BackupInv => ArchiveIsCurrent
    <2> SUFFICES ASSUME Created, archive.whole, archive.sound, NEW rows \in Kept("wispbox.db")
                 PROVE  /\ rows.commits >= archive.asked
                        /\ rows.cert # Missing =>
                             \A f \in {"fullchain.pem", "privkey.pem"} :
                                /\ \A c \in Kept(f) : c >= rows.cert
                                /\ ~archive.omitted => Kept(f) # {}
        BY DEF BackupInv, ArchiveIsCurrent
    <2>1. PICK n \in DOMAIN archive.entries :
             archive.entries[n].name = "wispbox.db" /\ rows = archive.entries[n].content
        BY DEF Kept
    <2>2. rows.commits >= archive.asked /\ HasPems(rows.cert)
        BY <2>1 DEF Created
    <2>3. ASSUME rows.cert # Missing, NEW f \in Pems
          PROVE  /\ \A c \in Kept(f) : c >= rows.cert
                 /\ ~archive.omitted => Kept(f) # {}
        BY <2>2, <2>3 DEF HasPems, Kept
    <2> QED
        BY <2>2, <2>3 DEF Pems
<1> QED
    BY BackupInductive, <1>1, PTL

================================================================================
