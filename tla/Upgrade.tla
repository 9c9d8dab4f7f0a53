------------------------------- MODULE Upgrade -------------------------------
(***************************************************************************)
(* The one-click upgrade: the administrator's request (startUpgrade and    *)
(* currentUpgradeStatus in admin/handlers_ops), the root script that the   *)
(* oneshot unit wispbox-upgrade.service runs (packaging/upgrade.sh), the   *)
(* installer it runs in turn (packaging/install.sh), and the status file   *)
(* from which the interface reports (updater.Read).                        *)
(*                                                                         *)
(* A version is a number, and releases only grow.  The script runs as the  *)
(* unit, of which systemd keeps one, and by hand, for the newest release   *)
(* or one that is asked for; it has a lock for the two.  set -e ends it    *)
(* where a command fails, a signal or a power loss anywhere.  install.sh   *)
(* may be run by hand too, and knows nothing of the lock and the status.   *)
(***************************************************************************)
EXTENDS Naturals

CONSTANTS
    Unit,           \* the run systemd starts
    Hands,          \* the root shells that run the script
    Installers,     \* the root shells that run install.sh
    MaxVersion      \* bound: releases

Scripts  == {Unit} \cup Hands
Runs     == Scripts \cup Installers
Versions == 1..MaxVersion
None     == 0       \* an empty TARGET_VERSION, a daemon that is down

ASSUME BoundAssumption == MaxVersion \in Nat \ {0}
ASSUME RunsAssumption  == Unit \notin Hands /\ Installers \cap Scripts = {}

VARIABLES
    latest,         \* the newest release
    bin,            \* bin[b]: the version of the installed binary b
    running,        \* the version of the wispboxd that serves, or None
    status,         \* upgrade.json
    lock,           \* the directory upgrade.lock
    script,         \* script[s]: a run of upgrade.sh, or of install.sh
    asked,          \* a startUpgrade has passed its checks
    signalled,      \* history: a script has been sent INT or TERM
    steered         \* history: a version was asked for, or install.sh run by hand

interference == <<signalled, steered>>
vars == <<latest, bin, running, status, lock, script, asked, interference>>

--------------------------------------------------------------------------------
(* A run of the script: where it is, TARGET_VERSION, whether the second    *)
(* trap, the one that removes WORK, is set, whether cleanup runs twice, and *)
(* whether it failed.                                                      *)

Fresh(pc) == [pc |-> pc, target |-> None, work |-> FALSE, twice |-> FALSE,
              failed |-> FALSE]

At(s, pc) == script[s].pc = pc
Go(s, pc) == script' = [script EXCEPT ![s].pc = pc]
Fail(s)   == script' = [script EXCEPT ![s].pc = "exit", ![s].failed = TRUE]

WriteStatus(state, target) == status' = [state |-> state, target |-> target]

\* A status that cannot be written ends the script, as any command would.
Report(s, state, next) ==
    \/ WriteStatus(state, script[s].target) /\ Go(s, next)
    \/ UNCHANGED status /\ Fail(s)

\* cleanup takes $? for the exit code.  The second trap calls it after rm -rf
\* "$WORK", whose $? it is then.
CleanupSeesFailure(s) == script[s].failed /\ ~script[s].work

--------------------------------------------------------------------------------
(* The administrator's request.                                            *)

\* The daemon compares its own version with the newest, if GitHub answers.
UpdateAvailable(answered) == answered => running # latest

CheckUpgrade ==
    /\ running # None /\ ~asked
    /\ status.state # "running"
    /\ \E answered \in BOOLEAN : UpdateAvailable(answered)
    /\ asked' = TRUE
    /\ UNCHANGED <<latest, bin, running, status, lock, script, interference>>

\* systemctl start --no-block: nothing happens to a unit that is active.
StartUnit ==
    /\ asked
    /\ asked' = FALSE
    /\ IF At(Unit, "idle")
       THEN script' = [script EXCEPT ![Unit] = Fresh("start")]
       ELSE UNCHANGED script
    /\ UNCHANGED <<latest, bin, running, status, lock, interference>>

\* WISPBOX_UPGRADE_VERSION may name a release, also an old one.
RunByHand(h, version) ==
    /\ At(h, "idle")
    /\ script' = [script EXCEPT ![h] = [Fresh("start") EXCEPT !.target = version]]
    /\ steered' = (steered \/ version # None)
    /\ UNCHANGED <<latest, bin, running, status, lock, asked, signalled>>

--------------------------------------------------------------------------------
(* upgrade.sh, up to the installer.                                        *)

\* Mutant: mkdir -p, which does not mind a directory that exists.
TakeLockAnyway(s) ==
    /\ At(s, "start")
    /\ lock' = TRUE
    /\ Go(s, "locked")
    /\ UNCHANGED <<latest, bin, running, status, asked, interference>>

\* mkdir "$LOCK" either makes the directory or fails.
TakeLock(s) ==
    /\ At(s, "start")
    /\ lock' = TRUE
    /\ Go(s, IF lock THEN "refused" ELSE "locked")
    /\ UNCHANGED <<latest, bin, running, status, asked, interference>>

\* Without the lock the script only reports that an upgrade is running; that it
\* cannot is the end of it, for no trap is set.
Refused(s) ==
    /\ At(s, "refused")
    /\ WriteStatus("running", script[s].target) \/ UNCHANGED status
    /\ script' = [script EXCEPT ![s] = Fresh("idle")]
    /\ UNCHANGED <<latest, bin, running, lock, asked, interference>>

Announce(s) ==
    /\ At(s, "locked")
    /\ Report(s, "running", "resolve")
    /\ UNCHANGED <<latest, bin, running, lock, asked, interference>>

\* Mutant: an answer without a tag goes on with an empty version.
ResolveEmptyTag(s) ==
    /\ At(s, "resolve")
    /\ \/ script[s].target # None /\ Go(s, "compare")
       \/ script[s].target = None /\ \E v \in {latest, None} :
              script' = [script EXCEPT ![s].pc = "compare", ![s].target = v]
       \/ script[s].target = None /\ Fail(s)
    /\ UNCHANGED <<latest, bin, running, status, lock, asked, interference>>

\* The version asked for, or the newest release's tag; curl fails, or the answer
\* holds no tag.
Resolve(s) ==
    /\ At(s, "resolve")
    /\ \/ script[s].target # None /\ Go(s, "compare")
       \/ /\ script[s].target = None
          /\ \/ script' = [script EXCEPT ![s].pc = "compare", ![s].target = latest]
             \/ Fail(s)
    /\ UNCHANGED <<latest, bin, running, status, lock, asked, interference>>

\* What wispboxctl says its version is decides whether there is work to do.
Compare(s) ==
    /\ At(s, "compare")
    /\ IF bin["wispboxctl"] = script[s].target
       THEN Report(s, "succeeded", "exit")
       ELSE \/ /\ WriteStatus("running", script[s].target)
               /\ script' = [script EXCEPT ![s].pc = "download", ![s].work = TRUE]
            \/ UNCHANGED status /\ Fail(s)
    /\ UNCHANGED <<latest, bin, running, lock, asked, interference>>

\* Fetches the installer of that release; that fails as the report does.
Download(s) ==
    /\ At(s, "download")
    /\ Report(s, "running", "install")
    /\ UNCHANGED <<latest, bin, running, lock, asked, interference>>

--------------------------------------------------------------------------------
(* install.sh for script[s].target, which the script waits for, or which   *)
(* somebody runs.                                                          *)

ReinstallByHand(i, version) ==
    /\ At(i, "idle")
    /\ script' = [script EXCEPT ![i] = [Fresh("install") EXCEPT !.target = version]]
    /\ steered' = TRUE
    /\ UNCHANGED <<latest, bin, running, status, lock, asked, signalled>>

ReinstallEnds(i) ==
    /\ At(i, "installed") \/ At(i, "exit")
    /\ script' = [script EXCEPT ![i] = Fresh("idle")]
    /\ UNCHANGED <<latest, bin, running, status, lock, asked, interference>>

Order == [first |-> "wispboxd", second |-> "wispboxctl"]

\* install_binaries, one after the other; each is downloaded and its checksum
\* verified before it replaces the old one.
InstallBinary(s, from, b, to) ==
    /\ At(s, from)
    /\ \/ bin' = [bin EXCEPT ![b] = script[s].target] /\ Go(s, to)
       \/ Fail(s) /\ UNCHANGED bin
    /\ UNCHANGED <<latest, running, status, lock, asked, interference>>

InstallFirst(s)  == InstallBinary(s, "install", Order.first, "second")
InstallSecond(s) == InstallBinary(s, "second", Order.second, "restart")

\* wispboxd migrate and config render, the units, and systemctl restart.  The
\* daemon may not be active a second later.
RestartServices(s) ==
    /\ At(s, "restart")
    /\ \/ running' = bin["wispboxd"] /\ asked' = FALSE /\ Go(s, "installed")
       \/ running' = None /\ asked' = FALSE /\ Fail(s)
       \/ Fail(s) /\ UNCHANGED <<running, asked>>
    /\ UNCHANGED <<latest, bin, status, lock, interference>>

Install(s) == InstallFirst(s) \/ InstallSecond(s) \/ RestartServices(s)

Succeed(s) ==
    /\ At(s, "installed")
    /\ Report(s, "succeeded", "exit")
    /\ UNCHANGED <<latest, bin, running, lock, asked, interference>>

--------------------------------------------------------------------------------
(* cleanup, the trap.  On a signal it runs for the signal, and again for the *)
(* exit it ends with.                                                      *)

Leave(s) ==
    IF script[s].twice
    THEN script' = [script EXCEPT ![s].pc = "exit", ![s].twice = FALSE]
    ELSE script' = [script EXCEPT ![s] = [Fresh("idle") EXCEPT !.failed = script[s].failed]]

\* rmdir does not ask whose lock it is.
Unlock(s) ==
    /\ At(s, "exit")
    /\ lock' = FALSE
    /\ IF CleanupSeesFailure(s) THEN Go(s, "report") ELSE Leave(s)
    /\ UNCHANGED <<latest, bin, running, status, asked, interference>>

\* That it cannot be written is ignored, and nobody hears of the failure.
ReportFailure(s) ==
    /\ At(s, "report")
    /\ \/ WriteStatus("failed", script[s].target) /\ Leave(s)
       \/ UNCHANGED status /\ script' = [script EXCEPT ![s] = Fresh("idle")]
    /\ UNCHANGED <<latest, bin, running, lock, asked, interference>>

\* INT or TERM: $? is that of the command it came after.
Signal(s) ==
    /\ script[s].pc \notin {"idle", "start", "refused"}
    /\ \E failed \in IF script[s].pc \in {"exit", "report"}
                      THEN {script[s].failed} ELSE {FALSE, ~script[s].work} :
          script' = [script EXCEPT ![s].pc = "exit", ![s].twice = TRUE, ![s].failed = failed]
    /\ signalled' = TRUE
    /\ UNCHANGED <<latest, bin, running, status, lock, asked, steered>>

\* HUP, KILL, or a signal before a trap is set: whoever runs is gone at once.
Kill(r) ==
    /\ ~At(r, "idle")
    /\ script' = [script EXCEPT ![r] = Fresh("idle")]
    /\ UNCHANGED <<latest, bin, running, status, lock, asked, interference>>

--------------------------------------------------------------------------------
(* The world.                                                              *)

Release ==
    /\ latest < MaxVersion
    /\ latest' = latest + 1
    /\ UNCHANGED <<bin, running, status, lock, script, asked, interference>>

\* Restart=on-failure.
DaemonReturns ==
    /\ running = None
    /\ running' = bin["wispboxd"]
    /\ UNCHANGED <<latest, bin, status, lock, script, asked, interference>>

\* The host comes back with the installed daemon, and the lock is still there.
PowerLoss ==
    /\ script' = [s \in Runs |-> Fresh("idle")]
    /\ running' = bin["wispboxd"]
    /\ asked' = FALSE
    /\ UNCHANGED <<latest, bin, status, lock, interference>>

\* The administrator removes a lock that no script holds.
RemoveStaleLock ==
    /\ lock
    /\ \A s \in Scripts : At(s, "idle")
    /\ lock' = FALSE
    /\ UNCHANGED <<latest, bin, running, status, script, asked, interference>>

--------------------------------------------------------------------------------
Init ==
    /\ latest = 1
    /\ bin = [b \in {"wispboxd", "wispboxctl"} |-> 1]
    /\ running = 1
    /\ status = [state |-> "idle", target |-> None]
    /\ lock = FALSE
    /\ script = [s \in Runs |-> Fresh("idle")]
    /\ asked = FALSE
    /\ signalled = FALSE /\ steered = FALSE

ScriptStep(s) ==
    \/ TakeLock(s) \/ Refused(s) \/ Announce(s) \/ Resolve(s) \/ Compare(s)
    \/ Download(s) \/ Install(s) \/ Succeed(s) \/ Unlock(s) \/ ReportFailure(s) \/ Signal(s)

InstallerStep(i) ==
    \/ \E version \in 1..latest : ReinstallByHand(i, version)
    \/ Install(i) \/ ReinstallEnds(i)

Next ==
    \/ CheckUpgrade \/ StartUnit
    \/ \E h \in Hands : \E version \in 0..latest : RunByHand(h, version)
    \/ \E s \in Scripts : ScriptStep(s)
    \/ \E i \in Installers : InstallerStep(i)
    \/ \E r \in Runs : Kill(r)
    \/ Release \/ DaemonReturns \/ PowerLoss \/ RemoveStaleLock

Spec == Init /\ [][Next]_vars

--------------------------------------------------------------------------------
(* Correctness                                                             *)

Past(s) == script[s].pc \notin {"idle", "start", "refused", "report"}

\* Until a script is stopped with a signal it traps, at most one run of
\* upgrade.sh is between the mkdir of the lock and its removal, and the lock is
\* there meanwhile, whatever else fails, is killed or is installed by hand.
ScriptsTakeTurns ==
    ~signalled =>
        /\ \A s \in Scripts : Past(s) => lock
        /\ \A s, t \in Scripts : Past(s) /\ Past(t) => s = t

\* A run that has got beyond resolving the release knows its version.
TypeOK ==
    /\ latest \in Versions
    /\ bin \in [{"wispboxd", "wispboxctl"} -> Versions]
    /\ running \in Versions \cup {None}
    /\ status \in [state : {"idle", "running", "failed", "succeeded"},
                   target : Versions \cup {None}]
    /\ lock \in BOOLEAN /\ asked \in BOOLEAN
    /\ DOMAIN script = Runs
    /\ \A s \in Runs :
          \/ /\ script[s].pc \in {"idle", "start", "refused", "locked", "resolve",
                                  "exit", "report"}
             /\ script[s].target \in Versions \cup {None}
          \/ /\ script[s].pc \in {"compare", "download", "install", "second",
                                  "restart", "installed"}
             /\ script[s].target \in Versions

\* Where the status says that the upgrade to a version succeeded, both binaries
\* are of that version, whatever failed, was killed or was cut off before and
\* beside it (upgrade.sh's lock, its test of wispboxctl's version, the order in
\* which install_binaries replaces the two) - as long as nobody has asked
\* upgrade.sh for a version, run install.sh by hand, or stopped a script with a
\* signal it traps.
SucceededIsInstalled ==
    ~signalled /\ ~steered /\ status.state = "succeeded" =>
        \A b \in DOMAIN bin : bin[b] = status.target

\* When a script has failed and none is running, the status does not go on
\* saying that one is: cleanup writes "Upgrade failed. See the log for details."
\* A script that was killed, or could not write a status, is not counted.
FailureIsShown ==
    (\A s \in Scripts : At(s, "idle")) /\ (\E s \in Scripts : script[s].failed)
        => status.state # "running"

=============================================================================
