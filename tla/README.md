# wispbox: TLA+ models, TLC runs and TLAPS proofs

wispbox is a single-binary control panel for a mail server: a Go daemon
(`wispboxd`) with an admin UI and a webmail API, a SQLite database, a generator
that renders Postfix, Dovecot and OpenDKIM configuration from that database, and
an ACME client that keeps one certificate per hostname. This directory models
what is hard to test in it: goroutines and requests that overlap, work that is
cut off by a deadline, a failed write or a crash, files that are replaced one by
one, state that is checked in one statement and used in another, mail servers that
refuse or hang, and a script that an administrator may run beside the one systemd
started.

Run from this directory:

    tlc -workers 2 -config CertManager.cfg MCCertManager.tla      # a model-checking run
    tlapm CertManager_proofs.tla                                  # a proof module

`PROJECT.json` lists every run, what each TLA+ definition stands for in the
source (`map`), the hazards of the code with the properties that guard against
them, the places where the code and a comment disagree, and the theorems.
Paths below are relative to `src/`.

## 1. The system

Everything lives in one process. HTTP handlers run in one goroutine per request,
without a lock between them. The database allows one connection
(`internal/db/db.go`), so each statement is atomic, two statements never are,
and only the functions that open a transaction group theirs.

| component | state it keeps | operations | interacts with | what is hard | correct when |
|---|---|---|---|---|---|
| **Certificate manager** `internal/certs`, `db/store_certs.go` | `certificates` rows; `fullchain.pem` and `privkey.pem` per host; in memory: a mutex per host, failure counts, handshake cache | `IssueNow`, `RenewDue`, `EnsureTracked`, `GetCertificate` | ACME client, DNS preflight, generator (`OnIssued`), admin handlers, setup, renewal loop | row read before the mutex; two files replaced one after the other under readers without a lock; a deadline that turns bookkeeping into a no-op; crashes; deleted and re-created domains | the files of an active row belong together, later never loses to earlier, the cache follows the files, no certificate is forgotten |
| **ACME client** `internal/acme` | account key, HTTP-01 tokens | order, answer a challenge | authority, HTTP server | timeouts, retries | an order ends with a new pair or an error |
| **Delivery policies and relays** `internal/delivery`, `db/store_delivery.go` | `outbound_relays`, `outbound_policies` | save, delete, set, resolve | generator, admin handlers | checks in one statement, effect in another; `ON DELETE SET NULL` | no policy points nowhere; relay mode is never delivered direct |
| **Configuration generator** `internal/configgen` | the generated files and what the services last loaded | `Build`, `Render`, `Apply`, `Reload` | every admin change, the manager's `OnIssued` | no lock; reads query by query, one of whose errors is swallowed; writes file by file, in map order; failure half-way | the services run on what the database asks for |
| **Admin core** `internal/admin/core.go` | none of its own | domains, mailboxes, aliases, DKIM, relays, policies, then Apply | database, generator | the change stays when Apply fails | each operation is complete or reported |
| **Mail objects** `db/store_mail.go` | `domains`, `mailboxes`, `aliases`, sender logins, DKIM key files | create, update, delete, the status a DNS check sets | core, generator, webmail | the domain read in one statement and used in another; rights computed twice | rows belong to live domains, the maps are the database's, Postfix and the webmail agree |
| **Sessions** `internal/auth/session.go` | `sessions` rows; IMAP passwords in memory only | login, lookup, logout, sweep | every request | row and memory change apart; restart drops one of them; a listing that breaks off | no live session loses its password, every ended one does |
| **Account security** `auth/account_security.go`, `db/store_security.go` | TOTP secrets, passkeys, challenges | begin and finish a setup or a login | sessions | challenge, account and handle read, checked and written in separate statements | a factor that is asked for was confirmed; a passkey signs in |
| **Setup wizard** `internal/setup` | gate, settings, first administrator | the wizard's steps | auth, core, certificates | two browsers at once; the gate asks once per request | it never closes without an administrator |
| **Rate limiter** `internal/security` | a token bucket per key | `Allow` | login, setup | arithmetic, cleanup by age | dropping a bucket allows nothing more |
| **Webmail API** `internal/mailapi`, `imapclient`, `smtpclient` | none; a cursor per listing | list, read, move, delete, send, reply, forward | Dovecot, Postfix, other clients | answers that are lost or never come, one step of several failing, messages arriving between two pages | what is sent is what was asked, only what was asked is removed, every request is answered |
| **DNS checks** `internal/dnscheck` | none | required records, verdicts, preflight | mail objects, certificates | overlapping checks, reused names | a domain is active only when its own check said so |
| **Backup** `internal/backup`, `cli/backup.go` | archives | create, restore | database and its log, key and certificate trees | database and files are read at different moments, beside a daemon; a restore that stops | an archive holds what was answered before it, a restore is the archive |
| **Services, queue, logs** `internal/services` | none | reload, restart, list, delete | systemd, Postfix | partial failure | errors reach the caller |
| **Upgrade** `internal/updater`, `packaging/upgrade.sh` | `upgrade.json`, `upgrade.lock`, two binaries | request, the script, its traps, the installer | systemd, GitHub | failures between two binaries, two scripts, signals, power losses, the installer run by hand | success is reported of what is installed, failure is reported |
| **Branding, settings** `internal/branding` | single rows, a logo | save | generator | settings saved, configuration not | see the hazards |
| **Daemon and CLI** `internal/api`, `internal/cli` | none | start, loops, `cert renew`, `config render`, `backup` | all of the above | a second process with no shared lock | restart resumes the work |
| **Web UI, templates, packaging** | | | | presentation and installation | not modelled, but for what an upgrade needs of the installer |

`PROJECT.json` repeats this list with a status and the reason for every part
that is left out.

## 2. The modules

| module | what it is |
|---|---|
| `CertLifecycle` | abstract specification: the status of one tracked hostname |
| `CertManager` | the certificate manager, its table, files, cache and renewal loop; refines `CertLifecycle` |
| `MCCertManager` | its instance for TLC |
| `CertManager_proofs` | types, mutual exclusion, the file pair, the cache, the order of files, the refinement |
| `ConfigApply` | relays, policies, domains, the requests that change them, and `Generator.Apply` |
| `MCConfigApply` | its instance for TLC |
| `ConfigApply_proofs` | types, foreign keys, relay mode, reload, credentials, requests served in order, deleted relays |
| `Sessions` | session rows, the passwords in memory, the sweeper |
| `MCSessions` | its instance for TLC |
| `Sessions_proofs` | types; the sweeper spares live sessions |
| `MailAccount` | a mailbox's password, its copy for passkeys, registration and sign-in |
| `MCMailAccount` | its instance for TLC |
| `MailAccount_proofs` | types; passkeys find the current password |
| `DnsCheck` | the records a domain needs and the verdicts on a resolver's answers, as pure functions |
| `MailObjects` | domains, mailboxes, aliases, DKIM keys and DNS checks, and the maps built from them; uses `DnsCheck` |
| `MCMailObjects` | its instance for TLC, and `DnsCheck` against reference statements |
| `MailObjects_proofs` | all its invariants |
| `Submission` | abstract specification: what a user is told of a letter, and what Postfix has of it |
| `Webmail` | sending, replying, forwarding, moving, deleting and paging against Postfix, Dovecot and other clients; refines `Submission` |
| `MCWebmail` | its instance for TLC, and `reply` against a reference statement |
| `Webmail_proofs` | all its safety properties, the refinement, `reply` for every message |
| `AdminAccounts` | the wizard's administrator, second factor, passkeys and sign-in, with the rate limiter |
| `MCAdminAccounts` | its instance for TLC |
| `AdminAccounts_proofs` | all its invariants |
| `Upgrade` | the upgrade request, runs of `upgrade.sh` and of the installer, the status file |
| `Backup` | a running daemon's files, Dovecot, backups and restores |
| `Maintenance_proofs` | for `Upgrade`: types, the lock, success; for `Backup`: types, restores, archives |

The modules meet in the database rows and files they share: `CertManager`, `ConfigApply`
and `MailObjects` each model the part of a regeneration that their rows decide, and each
keeps the others' part as something that may happen at any time (`AdminRegenerates`).
`MailAccount` uses the sessions of `Sessions` as a set of passwords held; `Backup` takes
from `CertManager` the order in which a pair and its row are written. `Backup` names its
specification `BackupSpec`, because `Maintenance_proofs` extends `Upgrade` as well.

### 2.1 CertManager

State. `row`, `nextId` are the `certificates` table (the hostname is unique, ids
are `AUTOINCREMENT`); a row's `wait` is how far `renew_after` lies ahead, 0 when
it is due. `certFile` and `keyFile` say which issuance each PEM file comes from;
a certificate is the row id it was issued for and a serial number, so two halves
match exactly when they are equal. `sni` is the set of hostnames in the generated
SNI maps. `lock`, `failures` and `cache` are the maps of `Manager`; `due` is the
list `RenewDue` walks; `pc`, `job`, `issued`, `verdict` are the locals of each
goroutine in `IssueNow`; `expired` holds the requests whose five-minute context
has ended; `hs` is a handshake inside `GetCertificate`. `promised` is history: per host, the
last issuance whose predecessor was evicted from the cache while no handshake held an older file.

| code | actions |
|---|---|
| `RenewDue` (`manager.go:166`) | `Scan`, `TakeDue` |
| handlers and the wizard that call `IssueNow` | `Request`, `Expire` |
| `IssueNow` (`manager.go:184`) | `Lock`, `PreflightFails`, `Begin`, `IssueFails`, `Issue`, `WriteCert`, `WriteKey`, `WriteFails`, `Record`, `Evict`, `Publish` |
| its `fail` closure | `Failing` (the count), `FailRecord`, `FailBackoff` (its two updates) |
| `GetCertificate` | `Miss`, `ReadCert`, `ReadKey`, `Store` |
| `EnsureTracked`, `DeleteDomain`, other regenerations | `Track`, `Drop`, `AdminRegenerates` |
| the passing of time, `cert renew` | `BecomeDue` |
| a crash and a restart | `Crash` |

Two things are easy to get wrong here and are kept. `IssueNow` is handed a row
that was read before it waits for the mutex, so the model carries the row id and
every `UPDATE ... WHERE id = ?` is a no-op when the row has gone. And every
statement may fail, a request's because its context has ended, the loop's because the
database refuses it, any number of times: `Begin` and `Record` then return the bare
error, `FailRecord` and `FailBackoff` go on as if they had written
(`manager.go:206` drops the error), `Scan` may not happen and `TakeDue` may pass over a
certificate it cannot read.

The renewal loop runs with the daemon's own context and has no deadline (its
ticker is one hour in the daemon, `api/server.go:136`; the text `cert renew`
prints, `cli/cli.go:240`, says a minute).

`CertLifecycle` says what the table promises to a reader who knows nothing of
goroutines: a status becomes `active` or `error` only out of `issuing`, and only
one host moves at a time. `CertManager` implements it under
`status <- [h \in Hosts |-> row[h].status]` (`FollowsLifecycle`).

### 2.2 ConfigApply

State. `live`, `relays`, `policy` are the tables; a relay's host, port, user name
and password are one value, a login, and `Nexthop` of a login is the host and
port that Postfix looks up in `sasl_passwd`. `disk` holds, for each generated
file, the `Data` it was rendered from; `loaded` is what Postfix last read. `pc`,
`req`, `view`, `files` are the locals of each request: where it is, what was
asked, the `Data` that `Build` has assembled, the files `Apply` has yet to write;
`found` is the scope `Build` is at, whose policy decides for it and the relay it is about to
look up. `kept`, `late`, `orderly` and `aborted` are history variables: the scopes that have
been in relay mode throughout a Build which could read their policy, those given a relay
after the request deleting it had counted its users, whether any request has overlapped,
failed or passed over a failed query since a lone Apply, and whether an Apply has failed
since a lone one succeeded. A host may start with domains and relays, and has no policy but the
default one.

| code | actions |
|---|---|
| `CreateDomain`, `DeleteDomain` | `CreateDomain`, `DeleteDomain` |
| `SaveRelay`, with and without an id | `CreateRelay`, `UpdateRelay` |
| `DeleteRelay` (`store_delivery.go:67`) | `CountPolicies`, `DeleteRelay` |
| `SetPolicy` and its handler | `CheckScope`, `CheckRelay`, `UpsertPolicy` |
| `DeletePolicy` | `DeletePolicy` |
| any refused check or statement | `Rejected` |
| `Builder.Build` | `ListDomains`, `Render`; what it decides for a scope, `Settle`, `Placed`, `Collides` |
| `ResolveGlobal`, `ResolveForDomain`, `materialize` | `ResolveGlobal`, `ResolveForDomain` with `FallThrough`; `Materialize`, `LookUp`, `GetRelay` |
| an error of any other query of `Build` | `BuildFails` |
| `Generator.Apply` | `Write`, `WriteFails`, `Reload`, `ReloadFails` |
| a crash and a restart | `Crash`; nothing is regenerated when the daemon starts |

Each SQL statement is one step, a policy's and its relay's apart. `ResolveForDomain` goes on to
the global policy where there is no row, where it says inherit, and on any error of the query
(`delivery.go:132`): the third disjunct, which no other guard hides. `Render` works in memory on
data that no longer changes and is one step; the files are written by ranging over a Go
map, so `Write` takes any file that is left.

The files modelled are the three that carry routes: `main.cf` (the default
transport), `sender_transport` (one line per domain with a policy of its own),
and `sasl_passwd` (the credentials).

### 2.3 Sessions

State. `session` is the `sessions` table, a row per token with its user type and
whether it has expired; `drawn` counts the tokens, which are random and never
repeat; `creds` is the key set of `Sessions.creds` (what the password is does not
matter to this module); `pc` and `token` are the locals of a request; `sweep` and
`listed` those of the sweeper, which holds the mutex in "drop". `cut` is history: the list it
works from broke off early.

| code | actions |
|---|---|
| `Login` | `CreateSession`, then `StoreCredentials` for a mailbox |
| `RequireSession`, `CredentialsFor`, the handler | `LookupSession`, `CredentialsFor`, `Serve` |
| `SetCredentials` after a password change | `Serve`, `StoreCredentials` |
| `Logout` | `Logout` (the map), `DeleteSession` (the row, whose error is ignored) |
| `LookupSession` meeting an expired row | `LookupSession`, `DeleteSession` |
| `Sweep` | `PruneSessions` or `PruneFails`, `ListSessions`, `ListSome` (a row that does not scan, or an end of the rows that was an error) or `ListFails`, `DropCredentials` |
| time, a crash and a restart | `Expire`, `Restart` |

The visits to the map are single steps because each is one critical section; the
sweeper's section spans a query and a loop, so it is two steps with `MutexFree`
in the guard of everything else that takes the mutex.

### 2.4 MailAccount

State. `mailbox` is the row of one address (id, password, encrypted copy of it,
flag, WebAuthn handle), `challenges` and `passkeys` the tables, `drawn` the random
values handed out, `held` the passwords that sessions of the address hold, `pc`
and `local` the locals of each request. A password stands for its hash and for
its encrypted copy as well: verifying and decrypting are comparing and reading.

| code | actions |
|---|---|
| `login`, `logout` (see Sessions) | `SignIn`, `SignOut` |
| `authed` | `CredentialsFor`, `LoadMailbox` |
| `changePassword` | `ChangePassword`, `SetCredentials` |
| `passkeyRegisterOptions` | `RegisterOptions`, the handle, `InsertChallenge` |
| `EnsureWebAuthnHandle` | `ReadHandle`, or `DrawHandle` and `WriteHandle` |
| `passkeyRegisterFinish` | `ReadRegisterChallenge`, the handle, `SavePasskey`, `DropChallenge` |
| `passkeyLoginOptions`, `passkeyLoginFinish` | `OfferLogin`; `ReadLoginChallenge`, `FindPasskey`, `CheckOwner`, `ListPasskeys`, `ReadCopy`, `PasskeyLogin`, `DropChallenge` |
| `passkeyDelete` | `DeletePasskey` |
| the admin's `CreateMailbox`, `UpdateMailbox`, `ResetMailboxPassword`, `DeleteMailbox` | the same |
| a failed check or statement, a client that has gone | `Abandon` |
| time, a restart | `ExpireChallenge`, `Restart` |

One address is enough: the handlers find a mailbox by the address of the session
or by the id of a passkey, and no statement touches two mailboxes. Signing in with
a code (TOTP) is the same sign-in to this module.

### 2.5 DnsCheck and MailObjects

`DnsCheck` has the functions of `internal/dnscheck` with their sequences: an answer is
a sequence in the order the resolver gave it, because `checkTXTPrefix` judges the first
TXT string with the right version tag and no other. `HealthOf` is the decision of
`updateDomainHealth`, `Preflight` the one before a certificate is ordered.

State of `MailObjects`. `domain`, `mailbox`, `alias` map row ids to rows; `spent` are the
ids handed out (`AUTOINCREMENT`: never again); `key[n]` is the DKIM key file of a name, which
outlives the domain, and may be torn; `maps` are the published maps; `pc`, `req`, `view` the
locals of each request. `orderly` is history as in `ConfigApply`; `earned` holds the domain ids
that some check has found in order.

| code | actions |
|---|---|
| `CreateDomain` with `EnsureDKIMKey` | `Request`, `InsertDomain`, `StatKey`, `OpenKey`, `WriteKey`, `KeyFails` |
| `DeleteDomain` and its cascade | `Request`, `DeleteDomain` |
| `CreateMailbox`, `CreateAlias` | `ReadDomain`, then `InsertMailbox`, `InsertAlias` |
| `UpdateMailbox` | `ReadMailbox`, `UpdateMailbox` |
| `DeleteMailbox`, `UpdateAliasEnabled`, `DeleteAlias` | the same |
| a check or a constraint that refuses | `Rejected` |
| `DNSRecords`, `updateDomainHealth` | `CheckDomain`, `LookUp` (any answer), `UpdateStatus` |
| `Build` and `Apply` | `ListDomains`, `ListMailboxes`, `ListAliases`, `Publish`, `ApplyFails` |
| `allowedSenders` of the webmail | the operator `AllowedSenders` |

Writing and reloading are one step here, because how the writes of two Applies meet is
what `ConfigApply` models; the queries are apart. The DKIM key is modelled from the
wizard as well: it may leave a domain without a key, so the initial states have both.

### 2.6 Webmail

State. `messages` are the folders: a message has a folder and a UID, which together are the id
the API hands out, and `born` and `by`, which a move does not change: by which request the webmail saved
it, 0 for everybody else's. `queue` is what Postfix has accepted;
`pc`, `req` the locals of each request; `list` a browser's way through the pages of INBOX.

| code | actions |
|---|---|
| `send`, `reply`, `forward`, `delete`, `move` (the requests) | `Send`, `Reply`, `Forward`, `Delete`, `MoveTo` (from any folder to any other) |
| `Get`, `Attachment` | `Get`, `Fetch`, one attachment at a time |
| `deliver` with `SendReader` | `Deliver`, `Unfit`, `Recipient` (one addressee at a time), `Data`, `Quit` |
| the copy to Sent | `Save` |
| `Move`, `Delete` of the IMAP client | `Move`; `Flag`, `Expunge`, `ExpungeFails`, `ExpungeAll` (the plain `EXPUNGE` of `dovecot.go:347`) |
| a connection's deadline or a refused command, wherever it happens | `GiveUp` |
| `List` page by page | `FirstPage`, `MorePages` |
| new mail, other clients (external) | `Arrive`, `OtherFlags`, `OtherExpunges` |

Postfix and Dovecot are external: each of their answers is an action that may never be taken.

`Submission` has two variables, what each user has been told and what Postfix has taken on.
`Webmail` maps its queue to the latter, and a letter's `pc` to the former: "waiting" until it is
"ok" or "error". The specification keeps three things apart that the code decides in different
places: the message is handed over once at most, and only while the user waits (`SendReader`);
"ok" follows the handing over; "error" may follow it as well, when Postfix's answer is
lost.

### 2.7 AdminAccounts

State. `initialized` is the setting the wizard ends with; `admin`, `sessions`, `challenges`,
`passkeys` are tables (sessions as the set of administrators signed in). `bucket` is the limiter's
bucket of one client, which is refilled when it is used, so it keeps how long it has been idle;
`ideal` is the same bucket kept all along. `pc`, `req` are requests; a request is numbered by when it
began and draws at most one random value, for which its number stands. `confirmed` and `crowded` are
history: the secrets an administrator has proved to hold, and those on whom two requests were choosing
a first WebAuthn handle at once. A request may end at any statement (`Fail`); the two queries whose errors
are dropped, the gate's and `createAdmin`'s count, then answer that there is nothing.

| code | actions |
|---|---|
| `gate`, `createAdmin`, `complete` | `IsInitialized`, `CountAdmins`; `CreateAdmin`, `InsertAdmin`, `StoreSession`; `Complete`, `SetInitialized` |
| `login`, `passkeyLoginOptions` and `Finish` | `Login`, `PasskeyLogin`, `StoreSession` |
| `logout` | `Logout` |
| `totpSetup`, `totpEnable`, `totpDisable` | `TotpSetup`; `TotpEnable`, `StoreSecret`, `Spend`; `TotpDisable`, `ClearSecret` |
| `passkeyRegisterOptions`, `Finish`, with `EnsureWebAuthnHandle` | `RegisterOptions`, `RegisterFinish`; `ReadHandle`, `ChooseHandle`; `Offer`, `SavePasskey`, `Spend` |
| `passkeyDelete` | `PasskeyDelete` |
| `Allow` | `Allow` inside `Login`; `Tick`, `Cleanup`. The wizard's attempts have a bucket of their own, which `CreateAdmin` may find empty |
| a challenge that runs out | `Expire` |

### 2.8 Upgrade

State. `latest` is the newest release, `bin` the versions of the two installed binaries, `running` that
of the daemon that serves; `status` is `upgrade.json`, `lock` the directory, `script` the runs of
`upgrade.sh` (one started by systemd, `Unit`, the others by hand, `Hands`) and of `install.sh` by hand
(`Installers`), with `TARGET_VERSION`, whether the second trap is set, whether cleanup still runs
a second time and whether the run failed. Every line of the script that can fail is an action that may, also
one that writes the status (`Report`), and `set -e` then goes to the trap. `signalled` and
`steered` are history: a script was sent a signal that it traps; a version was asked for, or `install.sh` run
by hand.

| code | actions |
|---|---|
| `startUpgrade` (`handlers_ops.go:619`) | `CheckUpgrade`, `StartUnit` |
| `WISPBOX_UPGRADE_VERSION=... upgrade.sh` (`upgrade.sh:15`) | `RunByHand`, any release or the newest |
| `upgrade.sh`, from the top | `TakeLock` or `Refused`, `Announce`, `Resolve`, `Compare`, `Download`, `Succeed` |
| `install.sh` as far as it matters | `InstallFirst`, `InstallSecond`, `RestartServices`; by hand `ReinstallByHand`, `ReinstallEnds` |
| the traps | `Unlock`, `ReportFailure`, `Leave`; `Signal` for INT and TERM, after which they run twice |
| a signal that is not trapped | `Kill` |
| systemd, GitHub, the host, an administrator | `DaemonReturns`, `Release`, `PowerLoss`, `RemoveStaleLock` |

### 2.9 Backup

State. `main` and `wal` are the database and what it says together with its log; `disk` the secret and
the two PEM files; `archive` the file at the backup's path and `newer` the comparison of file times; `task`
the `wispboxctl` that runs. `open` says whether Dovecot has the database open, and `unlinked` what its log
says once a restore has removed the name of that log. `restored`, `sound` and `shared` are history: what a
restore that reported success put back, whether an unfinished one shows, whether Dovecot had the
database open.

| code | actions |
|---|---|
| the daemon: start, stop, statements, a renewal | `Start`, `Stop`, `Commit`, `WriteChain`, `WriteKey`, `RecordCertificate` |
| SQLite (external) | `Checkpoint`, and the replay in `Database` |
| Dovecot (external) | `Open`, `Close` |
| `Create` | `BeginCreate`, `Snapshot` (`VACUUM INTO`), `AddEntry` (which leaves a file out when it is missing or when the walk meets an error), `FinishCreate` |
| `Restore` | `BeginRestore`, `RemoveSidecars`, `RestoreEntry` (which may be interrupted, and cuts off what is above the limit: `Large`, `Written`), `EndRestore` |
| an interruption of either | `Interrupt` |

## 3. The runs

Twelve runs: ten in which everything holds, and two that refute a statement of the
repository.

| run | constants | distinct states | what it shows |
|---|---|---|---|
| `cert_manager` | 1 host, loop, 1 request, 1 handshake, 2 rows, 2 serials, 1 crash | @cert_manager@ | an active row's files belong together, no older issuance replaces a newer one, the cache does not go back behind a certificate recorded while no handshake held an older one, the table implements `CertLifecycle` |
| `cert_liveness` | 1 host, loop and 1 request, 2 rows, 1 serial, 1 crash | @cert_liveness@ | with statements that fail any number of times, but not for ever: `issuing` is left and a due row is rescheduled in the end |
| `config_races` | 2 requests at once, 3 in all, 1 domain, 1 relay, 2 logins at one host and port, 1 crash | @config_races@ | relay mode is honoured or the Apply stops, the services have read what is on disk, what requests leave that did not overlap is what the database asks for, one set of credentials per host and port, and when a relay in use may go |
| `relay_fallback` | 1 request at once, 5 in all, 1 domain, 1 relay, 1 crash | counterexample | a lone Apply publishes a domain in relay mode as direct: see below |
| `sessions` | 2 requests, 3 tokens | @sessions@ | the sweeper, when it has the whole list, spares live sessions and, in the end, removes every other password |
| `mail_account` | 2 requests, 2 passwords, 2 mailboxes, 3 random values | @mail_account@ | a registered passkey finds the current password |
| `mail_objects` | 2 requests at once, 3 in all, 1 name, 2 local parts, 2 domain ids, 2 mailbox ids, 1 alias, 5 DNS answers | @mail_objects@ | rows belong to live domains, the maps are the database's, Postfix and the webmail agree on senders, an active domain has passed its check |
| `webmail` | 2 requests, 3 addresses, 2 parts, pages of 1, 2 outside steps | @webmail@ | a message sent is the one asked for, "ok" is said of nothing that Postfix does not have (`Submission`), what is removed was marked and asked for or goes with a failed `UID EXPUNGE`, pages miss nothing, every request is answered |
| `admin_accounts` | 2 administrators, 4 requests, burst 2, rate 1, idle 1 | @admin_accounts@ | nobody is locked out, a factor was confirmed, passkeys sign in, the limiter's cleanup allows nothing more |
| `upgrade` | 2 releases, the unit, a shell and an installer, any number of power losses and signals | @upgrade@ | when success is reported of what is installed |
| `upgrade_failed` | the unit alone, 2 releases | counterexample | a failed download or installation leaves the status at `running`: see below |
| `backup` | 2 commits, 2 serials, 3 runs of `wispboxctl`, a limit of 1 commit | @backup@ | a restore is the archive; an archive holds what was answered before it |

`MCMailObjects` and `MCWebmail` also evaluate assumptions that check the pure functions against
what their comments ask: `OrderDoesNotMatter`, `OkMeansFound` and `CheckedPassesPreflight` for
`DnsCheck` over every answer of up to two entries, `ReplyReachesAll` for `reply` over every message
with the run's addresses.

### Bounds

* *One hostname.* Mutex, files, cache, count and row are all kept per hostname
  and no operation touches two. What hosts share is the loop's list, whose order
  `TakeDue` leaves open, and `sni`, which is recomputed whole. The theorems hold
  for any set of hosts.
* *The loop and one request* are two goroutines in `IssueNow`, enough for one to
  wait for the mutex while the other finishes. `MaxRows = 2` is one deletion and
  re-creation, `MaxSerial = 2` one certificate over another, `MaxCrashes = 1`
  a restart in the middle of the first or the second. One handshake is enough to
  hold an old pair across an issuance. `cert_liveness` has one delay and one
  serial: how long a delay is and which certificate is written play no part in what
  is tried again.
* *Hours.* `Lifetime = 9`, `renewBefore = 3`, `Delays = <<1, 4>>`, `maxBackoff = 3`
  keep what the real numbers have: the last delay is above the cap (32 h against
  24 h), and the renewal wait is above the cap too.
* *Requests.* Two at once show every pairwise interleaving of statements and
  writes. The host may have a domain and a relay when it starts, so three requests
  are a policy set, its relay deleted or changed, and one that overlaps either; two
  logins at one host and port make the default route and the domain's own collide.
  `relay_fallback` needs a domain, a relay, a policy and one more Apply.
* *Tokens and requests.* Two requests race for one session (a logout against a
  password change) or sign in beside the sweeper; the third token lets a session
  end while two others live.
* *Random values.* A handle, a registration and a sign-in are three, which is a
  passkey registered and used; or two handles and one challenge, which is two first
  registrations at once. `MaxMailboxes = 2` is one deletion and re-creation.
* *Mail objects.* Two requests at once and three in all are a domain with a mailbox
  or an alias added while it is deleted, or checked while it is deleted and
  created anew under the same name (two domain ids). Three requests can also
  overlap two DNS checks with a change. The five answers are: nothing, everything
  in order behind a foreign value, the other address family, the wrong mail host, a
  foreign address.
* *Webmail.* Two requests, each with all its steps able to fail, and two steps
  of others (an arrival, an expunge, a change of flags) between any two of them;
  pages of one message, so that a listing has a second and a third page. INBOX and
  Trash have messages at the start: the deletion of one in Trash is an expunge, and
  an arrived or saved message can be moved to any folder and marked there.
* *Administrators.* Four requests are a setup begun, its confirmation, a second
  confirmation and a disabling; or two registrations of a first passkey, begun and
  finished. Burst 2, rate 1 and idle 1 are the smallest values under which a dropped
  bucket is full, as the code's numbers have it (`IdleAssumption`), and under which
  forgetting it one tick earlier would allow an attempt more.
* *Upgrade.* Two releases are an upgrade, interrupted, tried again or reversed; the
  unit, one shell and one installer are two scripts at the lock and somebody who does
  not know of it. Power losses, kills, signals and runs are not bounded. *Backup.* Two
  commits, a renewal (two serials) and three runs of `wispboxctl`: a backup, another over it
  or a restore, a restore again after an interruption. With a limit of one commit
  a database of two is too large.
* *Deadlock.* Bounds on requests, crashes and runs end the behaviours of
  `ConfigApply`, `MailObjects`, `Webmail`, `AdminAccounts`, `Upgrade` and `Backup`, so
  their runs say `CHECK_DEADLOCK FALSE`. The others never stop, and TLC checks that.
* *Symmetry* is used over the requests and the logins of `config_races`, the requests and
  passwords of `mail_account`, the requests, local parts and row ids of `mail_objects`
  and the administrators of `admin_accounts`. These runs check invariants and one action
  property (`RelayInUseStays`), no liveness.

### Fairness

`CertManager`, `Sessions` and `Webmail` state fairness, and only what their code owes.
In `CertManager`:

* `WF(Scan)`, `WF(TakeDue)`: the loop's ticker fires and its goroutine is scheduled.
* `WF(UnderLock(w))`: every step under the mutex ends, well or badly; the resolver and
  the reloads have timeouts and the ACME order a four-minute one of its own.
* `SF(Lock(Loop))`: a `sync.Mutex` waiter that starves is handed the mutex; weak
  fairness would not do, as requests may take it again and again.
* `StatementsSucceed`: each statement may fail, any number of times, but one that is tried
  again and again before any deadline succeeds in the end. That is strong fairness of the
  successful branches of the loop's `TakeDue`, `Begin`, `Record` and `FailBackoff`, and of
  any worker's `FailRecord` before its deadline. Without it a database that refuses
  every write would leave every row as it is for ever, in the model as in the code.
* `WF(BecomeDue(h))`: time passes.

In `Sessions`, the sweeper alone: `SF(PruneSessions)` and `SF(ListSessions)`, because
its ticker fires every 15 minutes and statements tried that often succeed in the end
(each has an alternative that fails, so weak fairness would not do), and
`WF(DropCredentials)`, a loop in memory.

In `Webmail`, `WF(Own(r))` for every request: what the handler does itself and the
deadline every connection has (`smtpclient.go:65`, `dovecot.go`). Nothing is assumed
of Postfix and Dovecot, which may never answer: `EveryRequestAnswered` holds because
each wait of a request ends at its deadline.

Requests, handshakes, admin changes, crashes, the deadlines of `IssueNow`, and the
success of an order are never owed.

### What does not hold

`upgrade_failed` refutes `FailureIsShown`. `upgrade.sh:56` traps the exit to record a
failure; `upgrade.sh:86` replaces that trap by `rm -rf "$WORK"; cleanup`, and `cleanup`
takes the exit code from `$?`, which is by then that of `rm`. When the download of the
installer or the installer itself fails, the lock is removed, the script exits with 0,
and `upgrade.json` keeps saying `running`: "Upgrade failed. See the log for details."
(`upgrade.sh:42`) is never written, and `startUpgrade` (`handlers_ops.go:625`) refuses
every later upgrade as already running.

`relay_fallback` refutes `NeverFallsBack`. `ResolveForDomain` (`delivery.go:131-136`) takes the
domain's own policy only when the query succeeds, and goes on to the global policy on any error, not
only when there is no row. A domain in relay mode whose query fails is published
without a line of its own, so its mail goes where the default transport says, which may be
direct, and Apply reports success. "wispbox never silently falls back from
relay to direct", says the repository's `README.md:119`; `delivery.go:6-7` and
`delivery_test.go:239` ("No silent fallback to direct: a broken relay must surface as an
error.") say the same. `RelayModeIsHonoured` and `OrderlyIsCurrent` except exactly that
query (`kept`, `orderly`), so that the rest of a Build is checked and proved.

The following happen in the models too: each is an action that can be taken, and the properties
above are worded around them. A maintainer should know them.

Certificates:

* A handshake that read the old pair before the renames may store it after
  `IssueNow` evicted the host (`manager.go:145`), although `manager.go:248` says "next
  handshake reloads from disk"; the old certificate is then served from the cache
  until the next issuance or restart. `ServedIsCurrent` excepts it, and no more.
* When the key cannot be written after the certificate was renamed into place
  (`manager.go:319`), the new certificate stays beside the old key and no handshake can load
  the pair, although "Failures never remove a working certificate" (`manager.go:165`) and
  "any previously issued files stay in place" (`manager.go:182`).
* A failed renewal changes the status, and `buildTLS` publishes
  active rows only (`data.go:181`): the next regeneration takes a certificate that still
  works out of the SNI maps. A crash between recording a certificate and `OnIssued`
  (`manager.go:260`) keeps one out of them until something else regenerates.
* After a request's deadline, or when the database refuses, `fail` writes nothing
  (`manager.go:206`): the row stays `issuing` with nobody at it, until the loop takes it
  (`IssuingIsLeft`).

Configuration:

* Two overlapping Applies, both successful: the one that assembled its data before
  a policy was set may write and reload last (`apply.go:35`). The domain is sent direct
  until the next change.
* `DeleteRelay` counts and deletes in two statements (`store_delivery.go:69`). A policy given
  the relay in between loses it; `RelayInUseStays` says that no other does (`late`). The Apply
  that follows then fails, which `RelayModeIsHonoured` shows.

Accounts and mail:

* `Sweep` asks neither `rows.Err` nor what a failed `Scan` has left out (`session.go:195`): a
  listing that breaks off counts as complete, and live sessions lose their passwords, although the
  comment (`session.go:182`) speaks of expired ones. Their users are asked to sign in again.
  `SweepSparesLive` excepts such a listing (`cut`).
* `passkeyRegisterOptions` stores the passkey's copy of the password together with the
  hash it read when the request began (`mailapi/handlers_account.go:158`). A reset in
  between is undone.
* Two first registrations at once choose two handles, and the first one's passkey no
  longer signs in (`store_security.go:38`); `PasskeysSignIn` excepts such accounts.
* `createAdmin` counts in one statement, dropping the error (`setup.go:144`), and inserts in another;
  and the gate takes an error of its query for a setup that is still to be done
  (`store.go:73`). "Only works while no admin exists" (`setup.go:129`) is therefore not
  kept: two requests at once, or one whose count has failed, make another administrator.
* A message that Postfix has accepted may be answered with an error, when the answer
  or QUIT is lost (`smtpclient.go:112`, `send.go:192`), and be sent again by the user; it
  may also be missing in Sent, with an answer "ok".
* Any error of `UID EXPUNGE`, a lost answer included, is followed by a plain `EXPUNGE`
  (`dovecot.go:346`), which takes every marked message of the folder: just what the comment above it
  (`dovecot.go:343-345`) wants to avoid. `OnlyAskedRemoved` allows it in Trash, where the webmail
  deletes, and nowhere else.
* When two DNS checks of a domain overlap, the status it keeps may be that of the
  older one (`core.go:348`): a domain that has ceased to be in order may stay active.
* `PruneAuthChallenges` (`store_security.go:216`) has no caller: rows that ran out stay.

Upgrade:

* The comparison of versions asks `wispboxctl` alone (`upgrade.sh:77`), which is replaced last. A
  daemon that was not restarted counts as upgraded; and after an installation cut off
  between the binaries, a run that is asked for the old version reports success with a
  newer `wispboxd`. `install.sh` by hand replaces binaries with neither lock nor status.
  `SucceededIsInstalled` therefore speaks of hosts that nobody has steered (`steered`).
* On INT or TERM cleanup runs for the signal and again for the exit (`upgrade.sh:56`, `:86`),
  and the second `rmdir` may remove a lock that another script has taken in between: two
  scripts install at once. `ScriptsTakeTurns` and `SucceededIsInstalled` hold until such a signal
  (`signalled`).
* A script refused for the lock writes `running` over whatever the other one has
  reported meanwhile (`upgrade.sh:52`), and ends.

Backup:

* What is above 1 GiB of an entry is not restored, and Restore reports success
  (`backup.go:212`); the database is then damaged, or ends early.
* `addTree` returns nil on every error the walk meets (`backup.go:71`), and the secret is left
  out on any error of `Stat` (`backup.go:85`): a finished archive may lack what could not be
  read. It may also hold a certificate and a key of different issuances, when a
  renewal falls between the reading of the two.
* A restore asks for the daemon to be stopped and not for Dovecot (`backup.go:118-120`),
  which may have the database open: the log it still has may be moved over the
  restored file when it closes it. `RestoredIsArchived` excepts such a restore (`shared`) and
  a database above the limit.
* The check that the database is older than the archive looks at the main file's time
  (`backup.go:135`) and misses commits that are only in the log. An interrupted restore
  leaves a newer file behind, and repeating it takes `--force`.
* `Create` truncates its target first (`backup.go:38`): a backup that fails over an
  earlier one at the same path leaves neither.

## 4. The proofs

TLAPS proves the following for every value of the constants: any number of
hosts, goroutines, handshakes, domains, relays, logins and requests, and any
bounds. The assumptions are the named `ASSUME`s of the modules: the parameters
are distinct where the code's are (`NULL` is no id of a relay, domain, mailbox or alias, "direct" is no login), the
lifetime of a certificate exceeds one hour, delays are positive, there is an
administrator to be created, and a bucket fills up in the time after which it is
dropped (`IdleAssumption`: `Burst <= (IdleTicks + 1) * Rate`; in the code 10 minutes,
against a burst of five that is back after 25 seconds, `app.go:198`).

| theorem | says |
|---|---|
| `CertManager_proofs!TypeCorrect` | `TypeOK`; with it, `renew_after` is never pushed beyond the cap or the renewal date |
| `CertManager_proofs!MutualExclusion` | past `lock.Lock()` a worker holds its host's mutex |
| `CertManager_proofs!ActivePairAlwaysMatches` | `ActivePairMatches` |
| `CertManager_proofs!FilesGoForward` | `FilesNeverRegress` |
| `CertManager_proofs!CacheAlwaysCurrent` | `ServedIsCurrent` |
| `CertManager_proofs!ImplementsLifecycle` | `CertManager` implements `CertLifecycle` |
| `ConfigApply_proofs!TypeCorrect` | `TypeOK` |
| `ConfigApply_proofs!NoDanglingPolicy` | `PoliciesNameRelays`: no policy names a relay that is gone; the other proofs rest on it, and no run states it, because it is a foreign key |
| `ConfigApply_proofs!RelayModeHonoured` | `RelayModeIsHonoured` |
| `ConfigApply_proofs!LoadedMatchesDisk` | `LoadedIsOnDisk` |
| `ConfigApply_proofs!CredentialsApart` | `OneLoginPerNexthop` |
| `ConfigApply_proofs!OrderlyAlwaysCurrent` | `OrderlyIsCurrent` |
| `ConfigApply_proofs!RelayInUseAlwaysStays` | `RelayInUseStays`, however many requests overlap |
| `Sessions_proofs!TypeCorrect` | `TypeOK`; passwords belong to drawn tokens |
| `Sessions_proofs!SweepSpares` | `SweepSparesLive` |
| `MailAccount_proofs!TypeCorrect` | `TypeOK`; mailbox ids are never reused |
| `MailAccount_proofs!PasskeysAlwaysOpen` | `PasskeysOpen` |
| `MailObjects_proofs!TypeCorrect` | `TypeOK`; a request has read what its next statement needs |
| `MailObjects_proofs!RowsAlwaysBelong` | `RowsBelong` |
| `MailObjects_proofs!ActiveAlwaysEarned` | `ActiveIsEarned` |
| `MailObjects_proofs!ActivePassesPreflight` | what makes a domain active lets its certificate be ordered, whatever is answered |
| `MailObjects_proofs!MapsAlwaysCurrent` | `MapsAreCurrent` |
| `MailObjects_proofs!SendersAlwaysAgree` | `SendersAgree` |
| `Webmail_proofs!TypeCorrect` | `TypeOK`; with it, a UID names one message |
| `Webmail_proofs!AlwaysQueuedAsAsked` | `QueuedAsAsked` |
| `Webmail_proofs!SentAlwaysQueued` | `SentIsQueued` |
| `Webmail_proofs!AlwaysOnlyAskedRemoved` | `OnlyAskedRemoved` |
| `Webmail_proofs!PagesAlwaysMissNothing` | `PagesMissNothing` |
| `Webmail_proofs!ImplementsSubmission` | `Webmail` implements `Submission` |
| `Webmail_proofs!RepliesReachAll` | `Answerable`: a reply to all reaches everyone on the message, for every message |
| `AdminAccounts_proofs!TypeCorrect` | `TypeOK`; an id names one row |
| `AdminAccounts_proofs!NobodyIsLockedOut` | `NeverLockedOut` |
| `AdminAccounts_proofs!FactorIsConfirmed` | `SecretIsConfirmed` |
| `AdminAccounts_proofs!PasskeysKeepTheirHandle` | `PasskeysSignIn` |
| `AdminAccounts_proofs!LimiterForgetsNothing` | `CleanupForgetsNothing` |
| `Maintenance_proofs!TypeCorrect` | `TypeOK`; a script past the comparison has a release |
| `Maintenance_proofs!TurnsUnlessSignalled` | `ScriptsTakeTurns`: until a script is sent INT or TERM, at most one is between taking the lock and removing it |
| `Maintenance_proofs!SucceededUnlessSteered` | `SucceededIsInstalled`, for any number of shells and installers |
| `Maintenance_proofs!BackupTypeCorrect` | `BackupTypeOK`; no archive holds a torn database |
| `Maintenance_proofs!RestoreIsFaithful` | `RestoredIsArchived` |
| `Maintenance_proofs!BackupIsCurrent` | `ArchiveIsCurrent` |

**Certificates.** None of the properties is inductive by itself. That an active row's
files match needs to know, of the worker about to mark it active, that both
files are the certificate it was issued (`HalvesWritten`), that nobody else can
be writing them (`HoldsMutex`), and that a row is never active while someone is
between the two renames (`IssuingWhileTrying`); the last is where the status update in
`Begin` matters. Because the row may be deleted and the hostname tracked again,
`RowIds` and `JobIds` say that ids are never reused, so a job of a dead row can
change no row. The order of the files needs `SerialsInOrder`: the serial a
worker holds is not below what is on disk for as long as it holds the mutex.
For the cache, `PromisesKept`: what was
recorded while nobody held an older file is on disk, and whoever reads a file from then on
reads it or a later one. The refinement uses
`IssuingWhileTrying` again: a row that turns active or error said issuing before.

**Configuration.** `RelayModeIsHonoured` speaks of a finished Build; its invariant is
`ResolvedSoFar`: of the scopes kept in relay mode since the domains were listed,
those already resolved have a relay's login, one may be in the middle of it (`Deciding`,
with its policy's relay in `found`) and the others are still to do.
`KeptIsCurrent` ties that history to the policies of now, so that a resolution
sees relay mode and either finds an enabled relay or fails. `LoadedOrLoading`
strengthens `LoadedIsOnDisk` to the middle of an Apply: unless one has aborted,
the disk differs from what is loaded only while some request has written and
not reloaded. `LoginsApart` carries the check of `Build` login by login through
rendering to the file; `SavesRows` is what the types need of a relay about to be
saved.
`OrderlyIsCurrent` speaks of quiet states; `OneByOne` carries it through a request.
While nothing has overlapped, at most one request is not idle; what it has
assembled is what the database says now (`Seen`: its domains, its default, the line of
every domain it has resolved, the files it has written); and until its statement
is executed the files are those the request before left (`DiskIsCurrent`).
`RelayInUseStays` rests on `UsersAreLate`: while a request is between counting a relay's
users and deleting it, every policy that uses the relay was given it since the count.

**Sessions.** That the sweeper spares a live session is a matter of what it listed
earlier, which `ListCovers` carries: while it holds the mutex every live session
with a password is in its list, unless the listing broke off. A session may be created meanwhile, but its
password waits for the mutex; and the list has mailbox sessions only, so
`PasswordsAreMailboxes` says that no other session has a password.

**Mail accounts.** `PasskeysOpen` speaks of registered passkeys only; its invariant
extends it to whatever may become one. A registration challenge, and a request on
its way to the challenge or to the passkey, names a mailbox whose row has its
copy already (`Opens`), or one that is gone. `RowMoves` is what every step does to
the row: it never closes a mailbox that was open, because hash and copy are written by
one statement, and never opens an old id anew, because ids only grow.

**Mail objects.** A request reads its domain in one statement and inserts in another.
`Carrying` says what it holds at each place, and `Grounded` what that is still worth when
the row may have gone meanwhile: its id was handed out, so no other row ever gets it, and
if the row is there it has the name that was read. With the foreign key, that is `RowsBelong`. `Earning`
says the same of a verdict: a check about to write "active" has found the domain id it
carries in order. That step needs a fact about `DnsCheck`, `ActiveInOrder`: the
verdict is "active" only if this server is among the addresses and mail exchangers
answered, in whatever order. `MapsAreCurrent` speaks of quiet states; `OneByOne` carries
it through a request, like the invariant of this name in `ConfigApply`: a request is alone, its view
is the database's query by query (`Seen`), and until it has changed a row the maps are
(`Current`). `SendersAgree` follows from that and from `CatchAlls`: Postfix tells a
catch-all by a column, the webmail by the address, and the two never differ.

**Webmail.** `Staged` says of every stage of a request what it has gathered and
what is left to do: nobody is left at DATA, and from the last attachment on the letter has
everything that was asked. `Answering` numbers the requests in the order they come and
gives each one past DATA its entry in the queue; a request that has answered stays answered, so what
has come into Sent stays accounted for. `SentIsQueued` speaks of the copies the webmail
saved (`by`), in whatever folder they are found: what others put into Sent, or the user moves
there, is not its own. What may be removed rests on types,
as a UID is used once, and on `Staged`, which says that an expunge, also the plain one, is in Trash. Paging goes by
rank, `List` by a sequence number: `Paged` says that every message of the beginning which has not been
shown yet has at least `cursor` newer ones before it (`Behind`), and that is
about cardinalities: an arrival adds to them and never takes away (`Undisturbed`).
For the refinement `Lettered` says that letters alone are at the stages of sending and that
whatever is in the queue is of a letter past DATA, so the step that adds to it finds nothing of
its own there. Every step of a request is then one of five kinds (`Courses`: it
begins, gets on, hands over, answers, or is not about a letter), and each maps to a step of
`Submission` or to none; that "ok" is a `Confirm` rests on `Answering`.

**Administrators.** A request keeps what it read while others run, so the invariant
says of every place in a handler what is still true there: the row it is about to insert
has a number nobody else has (`Numbered`), what it carries is of the kind its place needs
(`Holding`), its account exists, as accounts are never deleted (`OfAccounts`), and the
secret it is about to store was confirmed by a code (`Confirming`). `Handles` says that, unless
two requests were at it together, whoever chooses a handle is alone and finds none,
and whoever has one has the account's. That the cleanup forgets nothing is arithmetic: a
bucket that is dropped would be full.

**Upgrade.** The invariant has one part for each thing that may happen. `OnceOnly`, while no script
was sent a signal: cleanup runs once; so `ScriptsTakeTurns` ties the scripts to the lock, which
is there while one runs, and one runs at most. The removal by hand happens only with no
script running, which is what makes it safe. `Unsteered` says that without an installer run by
hand or a version asked for only scripts install, and only what was newest. Then `InOrder` holds: versions
only grow and `wispboxctl`, which the script asks, is replaced last; `Progress` says what has been
replaced at each line, and `Success` that `succeeded` is written only when both binaries are of the
release named, and stays true.

**Backup.** Restores have the host to themselves (`Alone`); the archive has each name once
(`Listed`), so an entry restored is not written over by a later one, and the log is gone before
the first (`Restoring`); unless Dovecot had the database open, nobody has a log to write
over it later (`Stale`). For a backup, the files are never behind the rows (`Ahead`: a
renewal writes the pair first), so files that are read after the rows are new enough
(`Creating`), and stay so in the archive (`Created`); what an error left out is marked. `Readable` says that whoever opens the
database finds one.

**Model-checked only.** The liveness properties `IssuingIsLeft`, `DueIsTried`,
`EndedIsForgotten` and `EveryRequestAnswered` (temporal reasoning under fairness, which is out
of the prover's reach), and the reference statements about `DnsCheck`: `OrderDoesNotMatter` and
what `OkMeansFound` says of SPF speak of filtered and reversed sequences, which are defined by
recursion. Every other property of the passing runs is a theorem.

## 5. Not modelled, and what is left

* *Settings, branding*: single rows and a logo file. That `primary_hostname` may change without
  a regeneration is a hazard on the list; a property would restate that nothing follows.
* *The wizard's own steps* (`configureHost`, `configureDelivery`): they write settings and
  call Core. The first administrator, the gate and the end are in `AdminAccounts`.
* *An administrator's password change*, one statement; *a mailbox's TOTP*, the same
  handlers as the administrator's on another table; *the sign counters* of passkeys.
* *Webmail*: `SetSeen`, `Search`, `Folders`, text and HTML, sizes.
* *ACME*: the protocol, the account key, the token map. To the manager an order succeeds
  or fails. *The fallback certificate*: written once, before the listeners start.
* *Generated text*: Dovecot and OpenDKIM layout, templates, permissions, owners.
* *Parsing* of the mail queue and of logs, calls to `postqueue` and `systemctl`.
* *Migrations* (there is one), the React application, the first installation.
* `config render --write`, a second process that applies. The two requests of
  `config_races` stand for it where the files are concerned.

What is left, in this order: `config render --write` as a process of its own in `ConfigApply`; an abstract specification of Apply, "publish a snapshot", that `ConfigApply`
implements while requests are served in order; an abstract session, a lease, for `Sessions`.
