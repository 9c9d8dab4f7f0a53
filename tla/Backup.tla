-------------------------------- MODULE Backup --------------------------------
(***************************************************************************)
(* wispboxctl backup create and backup restore (internal/backup,           *)
(* cli/backup.go), beside a daemon that goes on writing.                   *)
(*                                                                         *)
(* The database is its main file and its write-ahead log: commits go to    *)
(* the log, a checkpoint moves them to the file, and whoever opens the     *)
(* database replays the log it finds.  One host name's two PEM files stand *)
(* for the certificate and DKIM trees.  A restore runs while the daemon is *)
(* stopped, as backup.go requires; Dovecot, which looks its users up in the *)
(* database, may go on.                                                    *)
(***************************************************************************)
EXTENDS Integers, Sequences

CONSTANTS
    MaxCommits,     \* bound: commits
    MaxSerial,      \* bound: certificates issued
    MaxRuns,        \* bound: backups and restores begun
    ReadLimit       \* the commits that a database of 1 GiB holds

ASSUME BackupBoundAssumption ==
    /\ MaxCommits \in Nat /\ MaxSerial \in Nat \ {0} /\ MaxRuns \in Nat
    /\ ReadLimit \in Nat

\* The archive's entries, in the order Create adds them.
Entries == <<"wispbox.db", "secret.key", "fullchain.pem", "privkey.pem">>
Names   == {Entries[i] : i \in DOMAIN Entries}

\* What the database says: how many commits it holds, the secret that its
\* relay passwords are encrypted with, and the certificate it calls active.
Rows(commits, secret, cert) == [commits |-> commits, secret |-> secret, cert |-> cert]

Torn    == -1       \* a file that was truncated and not written to its end
Missing == 0        \* no such file, no certificate
NoLog   == Rows(-1, Missing, Missing)
NoDb    == Rows(-2, Missing, Missing)   \* a torn database

VARIABLES
    up,             \* wispboxd runs
    main,           \* wispbox.db
    wal,            \* the content it has with wispbox.db-wal, or NoLog
    disk,           \* disk[f]: the other files: a secret's or a certificate's number
    issuing,        \* how far the certificate manager is with a pair
    serial,         \* the last certificate issued
    archive,        \* the file at the backup's path
    newer,          \* wispbox.db was written after the archive was
    task,           \* the wispboxctl that runs
    runs,
    open,           \* Dovecot has the database open: "no", "current", or with a
                    \* log that a restore has removed: "stale"
    unlinked,       \* the content with that log, or NoLog
    restored,       \* history: the entries of a restore that reported success
    sound,          \* history: no unfinished restore shows in what is on disk
    shared          \* history: Dovecot had the database open when it was restored

daemon     == <<up, issuing, serial>>
dovecot    == <<open, unlinked>>
history    == <<restored, sound, shared>>
backupVars == <<daemon, main, wal, disk, archive, newer, task, runs, dovecot, history>>

--------------------------------------------------------------------------------
(* The database.                                                           *)

\* A log that is found beside the file is replayed, whatever file it is.
Database == IF wal # NoLog THEN wal ELSE main

Content(name) == IF name = "wispbox.db" THEN Database ELSE disk[name]

Idle       == [kind |-> "none", step |-> 0, asked |-> 0, rows |-> NoDb]
NoArchive  == [there |-> FALSE, whole |-> FALSE, entries |-> <<>>,
               asked |-> 0, sound |-> TRUE, omitted |-> FALSE]
Entry(name, content) == [name |-> name, content |-> content]

\* The backup of another host, with a secret of its own.
Foreign ==
    [NoArchive EXCEPT !.there = TRUE, !.whole = TRUE,
        !.entries = <<Entry("wispbox.db", Rows(0, 2, 1)), Entry("secret.key", 2),
                      Entry("fullchain.pem", 1), Entry("privkey.pem", 1)>>]

--------------------------------------------------------------------------------
(* The daemon.                                                             *)

\* NewApp opens the database, and reads the secret or makes one.
Start ==
    /\ ~up /\ task.kind # "restore"
    /\ Database # NoDb /\ disk["secret.key"] # Torn
    /\ up' = TRUE
    /\ IF disk["secret.key"] = Missing
       THEN disk' = [disk EXCEPT !["secret.key"] = 1] /\ restored' = <<>>
       ELSE UNCHANGED <<disk, restored>>
    /\ UNCHANGED <<issuing, serial, main, wal, archive, newer, task, runs, dovecot, sound, shared>>

\* Stopped or killed: the log stays, for the daemon closes it only if nobody
\* else (Dovecot, a wispboxctl) has the database open.
Stop ==
    /\ up
    /\ up' = FALSE /\ issuing' = "no"
    /\ UNCHANGED <<serial, main, wal, disk, archive, newer, task, runs, dovecot, history>>

\* A statement of a request commits; it may store a relay's password.
Commit ==
    /\ up /\ Database.commits < MaxCommits
    /\ \E secret \in {Database.secret, disk["secret.key"]} :
          wal' = [Database EXCEPT !.commits = @ + 1, !.secret = secret]
    /\ restored' = <<>>
    /\ UNCHANGED <<daemon, main, disk, archive, newer, task, runs, dovecot, sound, shared>>

\* The certificate manager: the certificate, the key, then the row.
WriteChain ==
    /\ up /\ issuing = "no" /\ serial < MaxSerial
    /\ serial' = serial + 1
    /\ disk' = [disk EXCEPT !["fullchain.pem"] = serial + 1]
    /\ issuing' = "chain"
    /\ restored' = <<>>
    /\ UNCHANGED <<up, main, wal, archive, newer, task, runs, dovecot, sound, shared>>

WriteKey ==
    /\ up /\ issuing = "chain"
    /\ disk' = [disk EXCEPT !["privkey.pem"] = serial]
    /\ issuing' = "key"
    /\ UNCHANGED <<up, serial, main, wal, archive, newer, task, runs, dovecot, history>>

RecordCertificate ==
    /\ up /\ issuing = "key"
    /\ wal' = [Database EXCEPT !.cert = serial]
    /\ issuing' = "no"
    /\ UNCHANGED <<up, serial, main, disk, archive, newer, task, runs, dovecot, history>>

\* By whoever has the database open, when the log has grown or at the end.
Checkpoint ==
    /\ wal # NoLog /\ (task.kind # "restore" \/ open = "current")
    /\ main' = wal /\ wal' = NoLog
    /\ newer' = TRUE
    /\ UNCHANGED <<daemon, disk, archive, task, runs, dovecot, history>>

--------------------------------------------------------------------------------
(* Dovecot, a reader of the database.                                      *)

Open ==
    /\ open = "no" /\ Database # NoDb
    /\ open' = "current"
    /\ UNCHANGED <<daemon, main, wal, disk, archive, newer, task, runs, unlinked, history>>

\* The last to close a log moves what it holds to wispbox.db and removes the log
\* by its name, if nobody else has the file open.  A log that no longer has its
\* name is moved over a file that was written since, and another log removed.
Close ==
    /\ open # "no"
    /\ open' = "no" /\ unlinked' = NoLog
    /\ \/ UNCHANGED <<main, wal, newer>>
       \/ /\ open = "stale" /\ ~up
          /\ wal' = NoLog
          /\ UNCHANGED <<main, newer>>
       \/ /\ unlinked # NoLog /\ ~up
          /\ main' \in {unlinked, NoDb} /\ wal' = NoLog
          /\ newer' = TRUE
    /\ UNCHANGED <<daemon, disk, archive, task, runs, history>>

--------------------------------------------------------------------------------
(* backup.Create.                                                          *)

\* Opening a database that is not one fails, and so does VACUUM INTO.
BeginCreate ==
    /\ task = Idle /\ runs < MaxRuns /\ Database # NoDb
    /\ runs' = runs + 1
    /\ task' = [Idle EXCEPT !.kind = "snapshot", !.asked = Database.commits]
    /\ UNCHANGED <<daemon, main, wal, disk, archive, newer, dovecot, history>>

\* Mutant: wispbox.db is copied, without the log beside it.
SnapshotOfFile ==
    /\ task.kind = "snapshot"
    /\ task' = [task EXCEPT !.kind = "create", !.step = 1, !.rows = main]
    /\ archive' = [NoArchive EXCEPT !.there = TRUE, !.asked = task.asked,
                                       !.sound = sound]
    /\ newer' = FALSE
    /\ UNCHANGED <<daemon, main, wal, disk, runs, dovecot, history>>

\* Mutant: whatever is in the file is archived.
SnapshotBlindly ==
    /\ task.kind = "snapshot"
    /\ task' = [task EXCEPT !.kind = "create", !.step = 1, !.rows = Database]
    /\ archive' = [NoArchive EXCEPT !.there = TRUE, !.asked = task.asked,
                                       !.sound = sound]
    /\ newer' = FALSE
    /\ UNCHANGED <<daemon, main, wal, disk, runs, dovecot, history>>

\* VACUUM INTO reads the database as a query would.  Opening the archive then
\* truncates the one that was there.
Snapshot ==
    /\ task.kind = "snapshot" /\ Database # NoDb
    /\ task' = [task EXCEPT !.kind = "create", !.step = 1, !.rows = Database]
    /\ archive' = [NoArchive EXCEPT !.there = TRUE, !.asked = task.asked,
                                       !.sound = sound]
    /\ newer' = FALSE
    /\ UNCHANGED <<daemon, main, wal, disk, runs, dovecot, history>>

\* addFile and addTree; a file that does not exist is left out, and so is one
\* that the walk or the test for the secret has met any other error at.
AddEntry ==
    /\ task.kind = "create" /\ task.step \in DOMAIN Entries
    /\ LET name == Entries[task.step]
           Add(content) == archive' = [archive EXCEPT
                               !.entries = Append(@, Entry(name, content))]
       IN  \/ name = "wispbox.db" /\ Add(task.rows)
           \/ name # "wispbox.db" /\ disk[name] # Missing /\ Add(disk[name])
           \/ /\ name # "wispbox.db"
              /\ archive' = [archive EXCEPT !.omitted = @ \/ disk[name] # Missing]
    /\ task' = [task EXCEPT !.step = @ + 1]
    /\ UNCHANGED <<daemon, main, wal, disk, newer, runs, dovecot, history>>

FinishCreate ==
    /\ task.kind = "create" /\ task.step \notin DOMAIN Entries
    /\ archive' = [archive EXCEPT !.whole = TRUE]
    /\ newer' = FALSE
    /\ task' = Idle
    /\ UNCHANGED <<daemon, main, wal, disk, runs, dovecot, history>>

--------------------------------------------------------------------------------
(* backup.Restore.                                                         *)

BeginRestore(force) ==
    /\ task = Idle /\ runs < MaxRuns /\ ~up /\ archive.there
    /\ force \/ ~newer
    /\ runs' = runs + 1
    /\ task' = [Idle EXCEPT !.kind = "restore"]
    /\ UNCHANGED <<daemon, main, wal, disk, archive, newer, dovecot, history>>

\* Mutant: the log of the old database stays.
KeepSidecars ==
    /\ task.kind = "restore" /\ task.step = 0
    /\ restored' = <<>> /\ sound' = FALSE
    /\ task' = [task EXCEPT !.step = 1]
    /\ UNCHANGED <<daemon, main, wal, disk, archive, newer, runs, dovecot, shared>>

RemoveSidecars ==
    /\ task.kind = "restore" /\ task.step = 0
    /\ wal' = NoLog
    /\ open' = IF open = "no" THEN "no" ELSE "stale"
    /\ unlinked' = IF open = "current" THEN wal ELSE unlinked
    /\ shared' = (open # "no")
    /\ restored' = <<>> /\ sound' = FALSE
    /\ task' = [task EXCEPT !.step = 1]
    /\ UNCHANGED <<daemon, main, disk, archive, newer, runs>>

\* The file is truncated and then written.
WriteFile(name, content) ==
    IF name = "wispbox.db"
    THEN main' = content /\ newer' = TRUE /\ UNCHANGED disk
    ELSE disk' = [disk EXCEPT ![name] = content] /\ UNCHANGED <<main, newer>>

\* Of an entry that is larger than 1 GiB the rest is skipped.
Large(entry)   == entry.name = "wispbox.db" /\ entry.content.commits > ReadLimit
Written(entry) == IF Large(entry) THEN NoDb ELSE entry.content

RestoreEntry ==
    /\ task.kind = "restore" /\ task.step \in DOMAIN archive.entries
    /\ LET entry == archive.entries[task.step]
           torn  == IF entry.name = "wispbox.db" THEN NoDb ELSE Torn
       IN  \/ /\ WriteFile(entry.name, Written(entry))
              /\ task' = [task EXCEPT !.step = @ + 1]
           \/ /\ WriteFile(entry.name, torn)
              /\ task' = Idle
    /\ UNCHANGED <<daemon, wal, archive, runs, dovecot, history>>

\* The end of the archive; one that was cut off ends in an error instead.
EndRestore ==
    /\ task.kind = "restore" /\ task.step > Len(archive.entries)
    /\ task' = Idle
    /\ IF archive.whole
       THEN /\ restored' = archive.entries
            /\ sound' = (archive.sound /\ ~archive.omitted /\ ~shared)
       ELSE UNCHANGED <<restored, sound>>
    /\ UNCHANGED <<daemon, main, wal, disk, archive, newer, runs, dovecot, shared>>

\* An error, a signal or a power loss ends the command between two steps.
Interrupt ==
    /\ task # Idle
    /\ task' = Idle
    /\ UNCHANGED <<daemon, main, wal, disk, archive, newer, runs, dovecot, history>>

--------------------------------------------------------------------------------
\* A host where the daemon has never run, with or without another's backup.
BackupInit ==
    /\ up = FALSE /\ issuing = "no" /\ serial = 1
    /\ main = Rows(0, 1, Missing) /\ wal = NoLog
    /\ disk = [f \in Names \ {"wispbox.db"} |-> Missing]
    /\ archive \in {NoArchive, Foreign}
    /\ newer = TRUE
    /\ task = Idle /\ runs = 0
    /\ open = "no" /\ unlinked = NoLog
    /\ restored = <<>> /\ sound = TRUE /\ shared = FALSE

Daemon  == Start \/ Stop \/ Commit \/ WriteChain \/ WriteKey \/ RecordCertificate
Create  == BeginCreate \/ Snapshot \/ AddEntry \/ FinishCreate
Restore == (\E force \in BOOLEAN : BeginRestore(force)) \/ RemoveSidecars
           \/ RestoreEntry \/ EndRestore

BackupNext == Daemon \/ Checkpoint \/ Open \/ Close \/ Create \/ Restore \/ Interrupt

BackupSpec == BackupInit /\ [][BackupNext]_backupVars

--------------------------------------------------------------------------------
(* Correctness                                                             *)

AllRows   == [commits : 0..MaxCommits, secret : {1, 2}, cert : 0..MaxSerial]
AllValues == {Torn, Missing} \cup 1..MaxSerial \cup {1, 2}

\* What is read is a state of some database, also where a log is replayed.
BackupTypeOK ==
    /\ up \in BOOLEAN /\ issuing \in {"no", "chain", "key"} /\ serial \in 1..MaxSerial
    /\ main \in AllRows \cup {NoDb} /\ wal \in AllRows \cup {NoLog}
    /\ open \in {"no", "current", "stale"} /\ unlinked \in AllRows \cup {NoLog} /\ shared \in BOOLEAN
    /\ disk \in [Names \ {"wispbox.db"} -> AllValues]
    /\ archive.there \in BOOLEAN /\ archive.whole \in BOOLEAN
    /\ \A i \in DOMAIN archive.entries :
          LET e == archive.entries[i]
          IN  /\ e.name \in Names
              /\ e.content \in IF e.name = "wispbox.db" THEN AllRows ELSE AllValues
    /\ newer \in BOOLEAN /\ runs \in 0..MaxRuns /\ sound \in BOOLEAN
    /\ task.kind \in {"none", "snapshot", "create", "restore"}

\* After a restore that reported success, and until the daemon writes again,
\* everything the archive held is what a reader finds: no log of the database
\* that was replaced is replayed over the restored one, and the secret is the
\* one its relay passwords were encrypted with (backup.go's removal of -wal and
\* -shm before the entries, restoreTargets).  Excepted are a database larger
\* than 1 GiB, and a restore under a Dovecot that had the database open: it may
\* write the log it still has over the restored file when it closes it.
RestoredIsArchived ==
    ~shared =>
        \A i \in DOMAIN restored :
            Large(restored[i]) \/ Content(restored[i].name) = restored[i].content

\* What an archive holds of a file.
Kept(name) == {archive.entries[i].content : i \in
                  {j \in DOMAIN archive.entries : archive.entries[j].name = name}}

\* An archive that was finished, of a host that no unfinished restore has left
\* a mixture, holds every commit answered before it was begun, the daemon's log
\* included, and no file older than the certificate its rows call active; it has
\* both PEM files then, unless an error left out a file that was there (VACUUM
\* INTO, and the trees read after it while the daemon renews).  The two may be of
\* different issuances, when a renewal falls between the reading of one and the
\* other, or had stopped half way.
ArchiveIsCurrent ==
    archive.whole /\ archive.sound =>
        \A rows \in Kept("wispbox.db") :
            /\ rows.commits >= archive.asked
            /\ rows.cert # Missing =>
                 \A f \in {"fullchain.pem", "privkey.pem"} :
                    /\ \A c \in Kept(f) : c >= rows.cert
                    /\ ~archive.omitted => Kept(f) # {}

=============================================================================
