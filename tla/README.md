# open-clubmanager: TLA+ models, checks and proofs

open-clubmanager is a desktop program for the administration of a club. A Tauri
shell starts a Go server with a SQLite database; a React frontend talks to it over
HTTP. Several devices work together without a server of their own: each device
writes its changes as encrypted, signed, append-only files into a shared folder
that a cloud client copies, and applies the files of the others. The rules of that
exchange are written down in `src/docs/sync-protocol.md` and implemented in
`src/server/internal/sync` and `src/server/internal/store`. That is where the
program is hardest to get right and to test, and that is what the modules here
are about first.

Paths below are relative to `src/server/internal` unless they start with `src/`.

## 1. Inventory

### Components of the synchronisation

| Component | State it keeps | Operations | Talks to |
|---|---|---|---|
| Device clock (`sync/hlc`, `store/syncwrite.go`, `sync/club/club.go` tick, `sync/engine/pull.go` observe) | last timestamp in memory and in `sync_device.hlc` | Now, Observe, Restore, persist on commit | wall clock; every local write; every applied segment |
| Store write path (`store/syncwrite.go`) | tables, `sync_field_clock`, `sync_outbox` | insert, update, delete, record; refresh of conflict flags | clock, conflicts |
| Change application (`sync/replica`) | tables, field clocks, `sync_pending`, `sync_history` | Apply, AddPending, RetryPending, Finish, BuildSnapshot, LoadSnapshot | engine |
| Uniqueness conflicts (`store/conflicts.go`) | `sync_conflicts` | conflictCandidates, DetectUniqueConflicts, requireUnique | store, replica |
| Streams (`sync/engine/flush.go`, `pull.go`, `sync/replica/snapshot.go` Upload) | `sync_streams`, `sync_uploads`, the folder | flush, upload, pullStream, fail/quarantine | transport, replica |
| Revocation (`sync/engine/snapshot.go` revalidate and rebuild, `pull.go` checkCutoffPrefix, `club/admin.go` acceptedCutoff) | stream positions against the cutoff in the access list | revalidate, rebuild, pull up to the cutoff | chain, streams, replica |
| Access lists and scope keys (`sync/acl`, `sync/club/club.go`, `admin.go`) | `sync_acl`, `sync_keys`, `sync_key_drafts`, key files | refresh, mutate (role, revoke, recover, approve), syncKeys | transport, identity |
| Joining (`sync/club/invite.go`, `joinstate.go`, `collab/actions.go`) | invites, markers, requests, rejections | create, join, approve, reject, cancel, leave | access lists, local data |
| Collaboration service (`collab`) | status, one mutex, the poll loop | Sync, create, join, approve | all of the above |
| Formats and secrets (`sync/segment`, `op`, `wire`, `layout`, `keys`, `identity`) | none, or key files | encode, verify, derive | all of the above |
| Storage provider (`sync/transport`) | the folder | Create (fails on an existing name), Get, List, Delete | cloud client |

### Components of the administration

| Component | State it keeps | Operations | Talks to |
|---|---|---|---|
| People (`store/members.go`, `households.go`, `guardians.go`, `named.go`, `qualifications.go`, `honors.go`) | members with contact and bank rows, households, guardians, groups, qualifications, honors | create, update, delete; sharing of address and account; correction of years | everything that refers to members |
| Fees (`fees`, `store/feemodels.go`, `finance.go`) | models, assignments, runs, fees, transactions | models, billing runs, fees by hand, cash book, reset | members |
| Collections (`store/sepa.go`, `sepa`) | creditor, mandates, debit runs | create, cancel, confirm | fees, bank details |
| Reconciliation (`reconcile`, `store/reconciliation.go`) | payments: which transaction pays which fee | import, match, confirm, dismiss, reopen | fees, households |
| Donation receipts (`store/donations.go`) | settings, donors, donations, receipts | single, collective, annual receipts; duplicate, void | cash book, fees, addresses |
| Calendar (`store/events.go`, `attendance.go`, `tasks.go`) | events, exceptions, audiences, attendance, tasks | series, recording, follow-ups | members, groups |
| Inventory (`store/inventory.go`, `maintenance.go`) | items, conditions, loans, maintenance | lend, return, repair | members |
| Sessions (`auth`, `handlers/session.go`, `loginlimit.go`, `refresh.go`, `password_reset.go`, `users.go`) | accounts, refresh tokens, reset links; failures of logins in memory | login, refresh, logout, change, reset, account management | config file |

All of them keep their state in tables of the one SQLite database and change it in
transactions (`Store.inWriteTx`). Besides, there are backup and restore, schema and
migrations, the audit trail, statistics and privacy exports, the HTTP API, the web
frontend and the desktop shell. `PROJECT.json` lists each with its files and its status.

### How they interact

- **One database connection.** A write transaction excludes everything else, so every
  transaction is one atomic action. State read *before* a transaction (the outbox in
  `flush` and `revalidate`) may be stale in it: these are two actions.
- **Locks.** `club.mu`, `engine.mu` and `collab.mu` serialise their own operations.
  The store takes none of them: users write during a sync. `club.mu` is not held
  during a pass of the engine: an admin may publish a revocation meanwhile.
- **Requests in several transactions.** Most requests are one transaction. A few read
  first and write later: editing a fee or a loan, giving a qualification, recording
  attendance, confirming all certain suggestions, annual receipts, and everything about
  logins. Other requests run in between.
- **Members reach everywhere.** Fees, debit runs, attendance, loans and households refer
  to members, events and tasks to groups; deleting one changes all these tables.
- **The folder** is asynchronous: files arrive in any order, in part, late, or not at
  all; an older copy may come back.
- **Crashes.** Everything in memory goes; everything committed stays.

### What is hard, and what makes each part correct

| Part | Hard because | Correct means |
|---|---|---|
| Device clock | three code paths move one clock; the wall clock jumps; the counter is 16 bits wide | timestamps of a device are unique and increase; above everything followed; near the wall clock |
| Application of changes | any order across streams, snapshot and retries; references across scopes | newest value wins; no dangling reference; same changes give the same state; nothing waits for ever |
| Streams | crash between any two of flush, create and forget; partial files | sequence numbers are never reused; every reader has a prefix, in order, once; everything arrives |
| Uniqueness conflicts | flags are updated incrementally from two different sets of candidates | the flags equal a full recomputation; local writes create no duplicate |
| Access lists | many key files and one list published without a transaction; concurrent admins | keys are there before the list; who lost a scope gets no newer key; one chain for all |
| Revocation | the cutoff is chosen from one device's view; each device undoes something else | nothing beyond the cutoff stays; same rows everywhere; own changes survive |
| Joining | four writes of an approval and three of a rejection, each may be the last; requests, invites and devices repeat | an invite admits one device; who waits has a request or an answer; nobody enters unadmitted |
| Logins | requests race for one refresh token; accounts change under requests in flight; parallel guesses | one current token for a login; an ended login stays ended; changes end logins; guessing is slow |
| Fees and collections | models, members and runs change between billing runs; payments, returns and undoing in any order | no month charged twice or left out; no fee in two collections; undoing gives back what was |
| Receipts | a year's numbers, duplicates, voiding; items that are still edited | one receipt for an item; gapless numbers; duplicates like their original |
| People | families share data, rows come back, members leave | sharing members agree; nothing outlives what it belongs to |
| Calendar and tasks | series are computed for a window; months differ in length | no occurrence left out or invented; no month skipped |
| Inventory | forms loaded before and saved after other changes | what goes out is ready |

## 2. Modules

| Module | Models | Composed from |
|---|---|---|
| `DeviceClock` | the clock of one device: in memory, on disk, in a transaction | |
| `Replica` | operators for applying a change to the tables of a device | |
| `Convergence` | several devices that write, load snapshots, pull and retry | `Replica` |
| `ConvergenceProofs` | its theorems | `Convergence` |
| `OpLog` | abstract: every reader has a prefix of every author's log | |
| `Streams` | outbox, segments, upload queue, folder, pull positions, quarantine; refines `OpLog` | `OpLog` (INSTANCE) |
| `UniqueConflicts` | one unique column: checks, candidates, detection | |
| `WritePathProofs` | theorems of what package `store` keeps beside the rows and of what becomes of its outbox, the refinement included | `DeviceClock`, `UniqueConflicts`, `Streams` |
| `AccessChain` | access list versions, key files, drafts, admins that crash | |
| `AccessChainProofs` | its theorems | `AccessChain` |
| `Revocation` | one scope while a device is revoked | |
| `RevocationProofs` | its theorems | `Revocation` |
| `Admission` | abstract: who may enter a club, who may be sent away | |
| `Joining` | invites, markers, requests, approval, rejection, leaving; refines `Admission` | `Admission` (INSTANCE) |
| `JoiningProofs` | its theorems, the safety half of the refinement included | `Joining` |
| `Sessions` | logins, tokens, throttle, password changes and resets, accounts | |
| `SessionsProofs` | its theorems | `Sessions` |
| `ClubRecords` | members, households, guardians, groups, merits; scopes of requests | |
| `FeeRules` | periods, the choice of a model, pro-rata amounts | |
| `Matching` | which fees an entry of a bank statement pays or reverses | |
| `FeeLedger` | models, runs, fees, debit runs, cash book, reconciliation | `FeeRules`, `ClubRecords`, `Matching` (INSTANCE) |
| `Receipts` | donors, donations, receipts | `FeeLedger` |
| `Calendar` | events, attendance, tasks | `ClubRecords` |
| `Inventory` | items, loans, maintenance | `ClubRecords` |
| `Office` | all tables of one device | `Receipts`, `Calendar`, `Inventory` |
| `OfficeProofs` | its theorems, those of its parts included | `Office` |
| `OfficeNumbersProofs` | those that count or calculate: receipts, dates, what is spent, occurrences | `OfficeProofs` |

`MC*` modules give the constants values for TLC; each `.cfg` is one run. The `map` of
`PROJECT.json` names the lines every definition stands for.

Some definitions are faults on purpose: variants of an action or operator that stand
next to it and are used by no specification, such as `WinsAlways`, `PublishFirst`,
`FlushForgettingSeq` or `NumberByCount`. Putting one in the place of the right
definition makes TLC find the property listed with it in `PROJECT.json` ("mutants")
violated, which shows that the property depends on that code. They are translations of
nothing.

### DeviceClock

`mem` is the `hlc.Clock` of the `Store`, `disk` is `sync_device.hlc`. `BeginWrite`,
`Record`, `Draw`, `Commit`, `Rollback` are `inWriteTx` around calls of
`writer.record`; `BeginEvent`/`EndEvent` are `club.tick`; `Observe` is
`engine.observe`; `SetWall` is the wall clock, which may go back; `Restart` loses `mem`
and the open transaction. `Clock.Now` is split at its wait loop: `CanTick` is false
while it sleeps. The width of the counter is `MaxCounter`.

### Replica and Convergence

A row is a model value with columns that may be required or may reference another row,
or reference one through the primary key. `Receive` is `Applier.Apply` with `AddPending`, `RetryPending` the
rounds of the same name, `ReceiveAll` the loop over the rows of a snapshot, `WriteLocally` is `writer.record`.
The loops are recursive functions over the rows or the waiting changes. In `Convergence` each
device has a clock (flattened to one number), one stream per scope, positions in the
streams of the others, and the scopes whose starting snapshot it has loaded. The
actions are the transactions of the code: `Insert`, `Update`, `LoadBase`, `Pull`,
`RetryWaiting`.

The clock epoch is 1 everywhere: no code raises it. A column's value is opaque. Deleting a
row is setting its `deleted_at` column, which is an `Update`.

### Streams and OpLog

The ops of an author are numbered in commit order; the outbox is the interval
`sent + 1 .. made`, a segment is an interval. `FlushRead`/`FlushCommit` are the two
halves of `flush` (the outbox is read outside the transaction); `Cuts` is the choice
of segment boundaries. `UploadCreate`/`UploadDone` are the two halves of
`replica.Upload`; a crash between them is a state in which the file exists and is
still queued. Readers see a file in part or in full; `PullGap`, `PullUpToDate`,
`PullIncomplete`, `PullApply` are the ways one round of `pullStream` ends.
`Backup`/`Restore` (`handlers/backup.go`) belong to a specification of their own,
`SpecWithRestore`, because what they do is a finding.

`OpLog` says what all that is for: `made[a]` ops are committed and `got[r][a]` is a
prefix of them. The refinement mapping is the identity on these two variables.

### UniqueConflicts

`Create`, `Put`, `Rename` and `Delete` are the shapes of local write in `store`:
with `requireUnique` before an insert, with `writer.holds` and `requireUnique` before
an update, with `requireUnique` in any case, and without a check. `Apply` is any set
of winning values from a segment, a snapshot or retried changes. `Candidates`,
`Detect` and `Flag` are `conflictCandidates`, `DetectUniqueConflicts` and the row of
`sync_conflicts`.

### AccessChain

A version has a number, a hash, its predecessor's hash, an author, roles, the revoked
devices and the key checks of every scope. `Verify` and `Resolve` are those of
`sync/acl`; hashes are drawn from a small set in any order, so each outcome of a race
is explored. A change (`Admit`, `ChangeRole`, `Revoke`, `Recover`) computes the key
files it needs and becomes a `job`; each `WriteKeys` step creates one of them and
`Publish` follows when none is left; `Crash` drops the job and leaves the draft.
`StopDrafting` is the loop over the scopes that ends after some of the drafts: with the
one scope of the run a change stops there with its draft or without, drafts of some
scopes only belong to the theorems. `begun` remembers every change ever begun, with its readers
and keys; only `RevokedGetNoNewKeys` reads it.
`Mutate` starts with a refresh in the code; here its guard says that a `Refresh` with
nothing new to find has just happened, and the refresh that follows is the next
`Refresh`. Only one key file order matters to the code and is kept: root's file of a
new epoch is its last. `First` stands for all versions up to the last admission of the
starting members. `Coordinated` is the rule of `src/docs/sync-protocol.md` §8.3 that
admins take turns.

Not in this module: scope permissions beyond "may read" and "is admin", cutoffs
(`Revocation`), requests and invites (`Joining`).

### Revocation

One scope, one leaver, the devices that stay. Segment ids stand for hashes, which
commit to everything before; a leaver put back from a backup (`LeaverRestored`) goes on in a
second branch. `Revoke` takes the admin's position as cutoff (`acceptedCutoff`). A pass
is `StartSync` (refresh, flush under the chain taken once), `Check` (the comparison in
`revalidate`), `Rebuild` (its transaction), `Pull` per segment, `FinishSync` (retry
of what waits), with `Crash` anywhere. `CutoffPrefix` is `checkCutoffPrefix`,
`Verdict` the state-dependent part of `verify`. Others' changes may need a row of the
leaver, so that removing it has consequences.

A pass lists the folder once, so `Deliver` happens between passes only; streams are
pulled in one fixed order (the code sorts the ids). A rebuild of
`members.core` in the code rebuilds every readable scope; with one scope that is the
same. A snapshot exists only from the founder, before all streams; the runs make the founder the admin.

### Admission and Joining

Devices and admins meet only in the folder. `request`, `rejection` and `marker` are
its files; `invite` is the admin's table, `standing`, `asked` and `via` are what a device
or the list holds. An operation is one action for every file or row it writes, with a
program counter in `step` (devices) and `work` (admins): `CreateInvite`, `PublishMarker`;
`JoinStart`, `JoinClearRequest`, `JoinClearNotice`, `JoinSend`, `JoinAdopt`; `ApproveCheck`, `ApproveList`, `ApproveMark`, `ApproveAnnounce`,
`ApproveClose`; `RejectSign`, `RejectNotice`, `RejectDrop`; `LeaveFiles` and so on.
Between two of them other programs act or the program stops (`DeviceStops`,
`AdminStops`); a storage error ends an operation at the same places. `WrongSafetyCode`
is `collab`'s counter of attempts, which is in memory. `Refresh`/`RefreshAnswer` are
the poll of a waiting device. `crossed` and `halted` remember which overlaps and stops
happened; only the properties read them.

`Admission` is what that is for: a device enters only after an admin admitted it, is told
of a rejection only if an admin refused the invite it asked with, and, waiting and
admitted, enters in the end. The refinement mapping is the identity.

### Sessions

`account` are the users and the administrator of the config file, `tokens` the refresh
tokens, `bearer` the access tokens handed out, `links` the reset links, `fails` the
limiter's entries. A request in flight is a slot of `req` that goes through the database
accesses of its handler (`LoginStart`, `LoginVerify`, `LoginMint`, `LoginIssue`; `RefreshRead`,
`RefreshCheck`, `RefreshRotate`, `RefreshGrant`; `ChangeStart`, `SetUserPassword`,
`SetAdminPassword`, `RevokeAdminTokens`; ...).
Time is in seconds and passes at any point; `Restart` forgets `fails` and what is in
flight. Every token carries where it came from (`Origin`), which only the properties read.

### Office and its parts

`Office` is the database of one device. Each part owns some of the tables, and its
requests leave the others as they are; `DeleteMember` and `DeleteNamed` are the two
operations that reach into all of them. A request is an action guarded as the
API guards it (`ScopeGuard`, `FinanceAccess`, `HouseholdAccess`, ...); `LoseScope` takes a
scope away while requests are under way. Rows are never removed: tables whose rows get
UUIDv7 ids are sequences, and `deleted_at` is a flag.

- `ClubRecords`: `ShareAddress` and `ShareBank` are `shareHouseholdData`, called by
  every write that ends in it; `WriteHousehold` is `writeHouseholdMembers`. A
  deleted contact row keeps its values, which `copyAddress` may bring back.
- `FeeLedger`: `Plan` is what a billing run would charge, `CreateFeeRun` charges it;
  `FeeRules` is package `fees`. `SettleAll` and `WithoutTx`
  recompute paid dates from the payments when they are made and undone. `LoadFee` and
  `UpdateFee` are the two halves of an edit; `StartCertain`, `MatchCertain` and
  `ConfirmCertain` the loop over the certain suggestions, with the rest of the program in between.
  `Matching` is package `reconcile`.
- `Receipts`: `CreateReceipts` issues all or none of several receipts, as `Store.CreateReceipts`; `ReadAnnual` and `IssueAnnual` are the two
  phases of annual receipts; `NextNumber` numbers them.
- `Calendar`: `Occurrences` is `expand` with its jump to the window, `OccurrenceOn`
  the lookup that recording attendance makes before its transaction (`FindOccurrence`,
  `SetAttendance`). `NextDue` and `AddMonths` are the follow-up of a task.
- `Inventory`: `LoadLoan` and `UpdateLoan` are the two halves of an edit.

## 3. What the runs check

| Run | Instance | Shows |
|---|---|---|
| `device_clock` | 5 wall clock values, counter 0..2, three received timestamps, 3 ticks | `IssuedIncreases`, `EditsFollowWhatWasSeen`, and the width of the counter in `TypeOK` |
| `convergence` | 2 devices, 3 rows in 2 scopes with a required reference, snapshot with a child row, 3 ops | `HoldsNewest`, `NoDanglingReference`, `SameChangesSameState`; `EverythingSettles` under fairness |
| `streams` | 1 author, 1 reader, 4 ops, quarantine after 3 | `SeqNeverReused`, refinement `ImplementsLog`, `TypeOK`; `EveryOpArrives` under fairness |
| `streams_restore` | the same with one restored backup, 2 ops | **violated:** `SeqNeverReused` |
| `unique_conflicts` | 3 rows, 2 values, clocks 0..2 | `FlagsMatchContent`, `LocalAddsNoDuplicate`, `ConflictsTypeOK` |
| `access_chain` | 2 admins who take turns, 1 device to admit, 2 roles, 1 scope, 3 versions, 1 fault | `KeysBeforeACL`, `RevokedGetNoNewKeys`, `SettledAgree`, `NeverReplaced` |
| `access_key_files` | the same without turns and faults | **violated:** `KeysBeforeACL` |
| `revocation` | admin, reader, leaver; 2 segments, 2 branches, 1 change of the reader, passes interrupted any number of times | `CutoffHolds`, `UpToDateAgree`, `RevocationUnblocks` |
| `revocation_write` | the same, users may write while a rebuild is prepared | **violated:** `OwnChangesStay` |
| `joining` | 2 devices, one with data of its own, 2 admins, 2 invites, 2 wrong codes, 6 scenarios | `OneDevicePerInvite`, `RequestOrAnswer`, refinement `ImplementsAdmission` with its liveness |
| `sessions` | 2 users and the administrator, 2 requests in flight, 4 seconds, 6 scenarios | `OneCurrentToken`, `ChangeEndsLogins`, `GuessRate`, `EndedStaysEnded` |
| `office` | 3 members, 2 households, 2 donors, 1 event, 2 items, 30 scenarios | the twelve properties below |

The properties of `office`:

| Property | Module | Says |
|---|---|---|
| `ChargedOnce` | `FeeLedger` | no month is charged to a member twice, whatever was deleted, edited or reset between runs |
| `NoGapNoOverlap` | `FeeLedger` | the periods a member owes cover its membership exactly, whichever model applies in which year |
| `OneCollection` | `FeeLedger` | a fee is in at most one debit run that is not confirmed |
| `UndoRestores` | `FeeLedger` | reopening what was just confirmed gives every fee its paid date back |
| `MoneyIsSpentOnce` | `FeeLedger` | no confirmation spends an entry twice or overpays a fee, suggestions matched earlier included |
| `SharedDataAgrees` | `ClubRecords` | members of a household that shares have the same address and account |
| `NoOrphans` | `Office` | rows do not outlive the members, groups, events or items they belong to |
| `CertifiedOnce` | `Receipts` | an income or fee is certified by one receipt, and stays with whom it names |
| `ReceiptLog` | `Receipts` | receipts of a year are numbered without gaps, and duplicates follow their originals |
| `OccurrencesComplete` | `Calendar` | the occurrences of a window are all that overlap it and no others |
| `SeriesContinues` | `Calendar` | finishing a recurring task leaves one open task, and no month is skipped |
| `LentWhenReady` | `Inventory` | an item goes out only when it is ready |

`UndoRestores`, `NoGapNoOverlap` and `OccurrencesComplete` check an algorithm against a
reference definition in every reachable state: all allocations and their undoing, all
months, all windows.

### Bounds and why they are enough

- *Clock:* the counter overflows at 2, a received timestamp can be behind, equal,
  ahead, too far ahead, and have a used-up counter; three ticks make "two of one
  transaction, one of the next" possible. The theorems remove the bounds.
- *Convergence:* three ops are two conflicting edits plus one that refers to their
  row, and with a snapshot of parent and child every kind of waiting occurs. The wall clock
  may read any value of two, so timestamps tie, overtake and fall behind.
- *Streams:* four ops allow two flushes of several segments with a write between read
  and commit; three failures reach quarantine. Streams do not influence each other.
- *Conflicts:* three rows allow a keeper to leave and two others to remain; two values
  allow moving between groups; a tie of clocks is possible and 0 is "no clock". Proved for all.
- *Access lists:* three versions are "before", "change cut off, then another change"
  and "the change after"; one fault is one crash or one lost file. Two concurrent
  changes of one epoch are explored without turns.
- *Revocation:* two segments allow a cutoff at, below and above every position and a
  branch that differs at either one; two attempts instead of three reach quarantine with fewer steps.
- *Scenarios:* in `Joining`, `Sessions` and `ClubRecords` with all that extend it, a member of the
  constant `Budgets` says how many operations of each kind a behaviour has; the
  order and the arguments are free. Free operations of twenty kinds would
  be out of reach; each scenario holds the kinds that touch the same rows.
- *Joining:* two devices compete for one invite, two admins decide at once, a device
  comes back with the same or another invite, an admin's program stops once at any
  write. `MaxApproveAttempts` is 2 instead of 3.
- *Sessions:* two requests in flight are enough for every race of a pair of handlers; the
  lifetimes are one to three seconds so that every expiry falls into the four.
  `MaxLockout` is reached by the third failure; the tenth doubling, after which the code stops shifting, is not, and
  belongs to the theorem.
- *Office:* a year has two months (`YearLen`, 12 in the code) and there are two years, so
  intervals of one month and one year, joining and leaving inside one, and a model
  that changes with age at the turn of the year all occur. Money is whole cents up to
  3: less than, as much as, and more than a fee. Calendar months have their real
  lengths; times are half days; the five series are shorter and longer than their
  interval, end, fall on the 31st, or do not repeat. `MaxOccurrences` is 64
  instead of 2000, what the assumption of `Calendar` needs for these windows, and not reached. A year of receipts has `DatesPerYear` = 3 dates.

### Deadlock

Runs whose bounds end behaviours (`convergence`, `streams`, `streams_restore`,
`access_key_files`, `joining`, `sessions`, `office`) switch deadlock checking off; the
program is idle there once everything is done. The others keep it on.

### Symmetry

`access_chain` permutes the two admins, `sessions` the two users and the two
e-mail addresses. None of them occurs in a liveness property.

### Fairness

- `convergence`: every device syncs again and again (`collab` polls every 30 s), so a sync step that stays possible is taken. Writing needs no fairness.
- `streams`: reading the outbox, uploading, pulling and the arrival of complete files
  are weakly fair; committing a flush is strongly fair, since a crash drops what was
  read and a device that crashes before every commit would never send anything.
- `joining`: `Service.Run` of `collab/service.go` refreshes every 30 s, so a waiting
  device refreshes again and again, and an operation that has begun goes on unless its
  program stops. Admins need no fairness: nothing says they ever answer.
- The other runs check safety only. That devices agree in the end is stated as an
  invariant of the settled states (`SettledAgree`, `UpToDateAgree`); that they get
  there is the polling assumption above.

## 4. What the runs found

1. **`streams_restore`** `sync-protocol.md:456` forbids reusing a sequence number with other content.
   Restoring a backup restores the stream position with it.
2. **`access_key_files`** The comment at `sync/club/admin.go:51` says a device in the list finds its
   keys. An admin who lost a race for key files gets an error once; a retry takes the
   draft, skips the existing files and publishes a key they do not hold.
3. **`revocation_write`** `snapshot.go:207` says a rebuild keeps the device's own changes. The
   outbox is read before the rebuild transaction; a change committed in between is
   deleted with the tables and never applied again on the device that made it.

`PROJECT.json` has the exact lines.

### Seen while modelling, without a run

The models translate these as the code has them; the properties leave them out by name
or do not speak about them.

Synchronisation:

- A base does not move the clock (`store/syncwrite.go:107`), while
  `sync-protocol.md:731` says later ops are always newer than a snapshot: a device whose
  wall clock is behind the snapshot stamps its first edits below it. The run
  `convergence` starts with wall clocks past the snapshot.
- `requireUnique` is called in any case by fee models, named lists, qualification types
  and mandate references, so that a row of an open conflict cannot be edited there.
- `sync-protocol.md:1030` says a revoked device cannot read new epochs. A draft survives the change it was made
  for (`sync/club/admin.go:157`): when a revocation is cut off after a device got its key file, and
  the next change revokes that device too, its file holds the key of the new epoch. Of later epochs
  it gets none; `RevokedGetNoNewKeys` says how far the promise is kept.
- `revalidate` compares only positions at or above the cutoff; a device below it on
  another branch keeps that branch, though `sync-protocol.md:897` asks for the entire stream.

Joining:

- An approval that stops between listing the device and marking the invite leaves an
  invite that admits a second device (`halted`). A rejection that overlaps with
  cancelling and joining again, or a stop in the middle of leaving, can leave a device
  waiting without request or answer (`crossed`).
- An approval that races with `CancelJoin` lists a device that has left.
- The marker of a withdrawn invite stays when the program stops before deleting it.
- `Join` with `replaceLocalData` clears the synced tables, outbox included, before the
  code and the membership are checked; only joining without it looks at the outbox.
- The counter of wrong codes belongs to the device and survives its request.

Sessions:

- A login verified before an account changed issues its session afterwards, and a refresh
  between the change and the revocation of the administrator's tokens survives.
- A refresh that loses the race to a revocation still hands out an access token
  (`handlers/refresh.go`); the 401 of a stale refresh clears a newer cookie; an answer
  lost after a rotation ends the login when the grace period is over.
- A reset addresses the account by e-mail: when the address moved to another account
  meanwhile it is that account's. `UpdateUser` keeps reset links.
- Parallel attempts exceed the threshold by the number in flight, which is why
  `GuessRate` counts with `Cardinality(Slot)`.
- When the config file cannot be written, the change stays in memory and tokens are not revoked.

Money:

- `ChargedOnce` compares by the member that was charged; a fee moved to another member does not count
  for that one, whose periods are charged all the same. That a second run charges *all* that is missing is not stated.
- Updating an entry of the cash book loads it and writes it in a later transaction (`handlers/finance.go:70`); `UpdateTransaction`
  is one action whose amount and type are free, the loaded ones included. A fee marked paid by hand or deleted
  between matching and confirming a suggestion is a step, but `MoneyIsSpentOnce` speaks of payments only.
- An age limit that is missing is 0 or 200 in `FeeRules`, as in `span`; in the code (`fees/fees.go:60`) it also fits negative ages.
- Undoing in another order than the one of the payments can leave a covered fee open: payment, return,
  second payment, undo the return, undo the second payment
  (`store/reconciliation.go:500`). `UndoRestores` says what holds: undoing right away.
- An edit of a fee writes back the paid date it loaded (`handlers/finance.go:174`) and can
  lose a payment made meanwhile; amounts edited later are not settled again.
- Reopening a return while the fee is in an unconfirmed debit run leaves it paid and still
  debited; a run confirmed after a partial payment was undone pays the fee fully though
  part was collected. `DeleteFee` does not look at debit runs.
- `DeleteFeeRun` keeps the payments of the fees it removes; cancelling a first
  (FRST) run leaves later ones recurrent without a first.
- A year's model charges nothing when one of the year's months is charged already.
  Importing a statement twice is not detected.
- `UpdateTransaction`, `DeleteTransaction`, `ResetFinance` and the reopening of fees do not look at
  receipts, though `ErrDonationCertified` speaks of changes; a transaction can be a
  donation and pay a fee, and both can be certified; after a fee moved to another member, a request of that member
  repeats the old member's receipt; an annual run overtaken by a receipt of the same items issues
  a duplicate.

People, calendar, inventory:

- `NoOrphans` leaves out the groups of members, which are linked without a look at the group (`setLinks`), and
  qualifications of a type deleted while one was being given.
- Copying an address to a member without one can leave a contact row without values;
  households without members remain; a stale form overwrites an address shared meanwhile and shares it on;
  `HouseholdPayer` is used by nothing, though its comment says that debits charge the payer; a
  member request writes all three member scopes when one of them may be written.
- The counts of attendance are read from one day before the window
  (`recordsFor`), while `Occurrences` lists everything that overlaps it: an event of
  several days that began earlier shows none. An event without duration at midnight is not found on
  its own day. Exceptions stay when a series moves; an update without groups removes the audience; attendance may outlive an
  event deleted while it was recorded; a task finished twice gets two follow-ups and one created as done none.
- A stale form can reopen a returned loan of an item that is no longer ready
  (`Overtaken`); how many are lent is not looked at; maintenance recorded for an earlier
  date moves the next due date back.

## 5. What is proved

TLAPS checks every proof; `tlapm WritePathProofs.tla` and so on repeat it. A theorem is
about every value of the constants that satisfies the `ASSUME`s of its module, and TLC
evaluates these in the runs. They give types and say that bounds are positive; further:

- `None` is no file, invite or slot; ids of members and households are numbers other than
  those that stand for "nobody".
- The members of the club are finitely many (`ClubRecords`).
- The interval of a fee model divides the year, and a billing run covers months in order
  (`FeeLedger`).
- Months have 28 to 31 days. The occurrences tried for one series cover seven days each, so that they outlast
  a window and an event of a year (`Calendar`): 2000 of them (`store/events.go:397`) against at
  most 1100 days (`handlers/events.go:19`, `handlers/attendance.go:19`) and 366 (`handlers/events.go:107`).
- The founder's local data has each row once, with clocks up to the creation
  of the club (`BaseAssumption` of `Convergence`).

Where a theorem has a hypothesis of its own, it is named below with the reason for it.

**Device clock.** `DeviceInv == TypeOK /\ IssuedIncreases /\ ClockNearWall /\ ClockInv`.
`IssuedIncreases` alone is not inductive: nothing in it connects the issued timestamps
to the clock that draws the next. `ClockInv` does: everything issued or followed is at
or below `disk`; an open write transaction has `mem` at or above `disk`, and what it has
drawn lies in order between the two. `StepDevice` takes one lemma per action.
Results for every counter width, drift limit, set of received timestamps and wall
clock: `ClockTypeCorrect`, `IssuedAlwaysIncreases`, `ClockStaysNearWall`, and, as an action
property from the same invariant, `EditsComeLater`.

**Convergence.** The heart is an invariant of one replica and the set of changes it has
received (`Tracks`): each is either waiting, once, or applied; the tables are a
function of the applied ones. That function is "newest value of each cell" (`Newest`), and
what is applied must have been applicable: every part of the applied changes has a first one
that needed nothing else of that part (`Ordered`). `Ordered` makes the result independent
of the order of arrival: of two devices that have the same changes and retried what waits,
a change applied on one and waiting on the other would have a first such change, and
that one did not need to wait. Applying, postponing and retrying preserve `Tracks`
one by one, and, as the loops are recursive functions whose values are followed along an interval,
over whole snapshots, segments and retries.

`ReferencesResolve` (nothing dangles, nothing required is missing) holds of every behaviour.
`LastWriterWins` and `DevicesAgree` have a hypothesis on steps, `[][ClocksClose]_vars`: a
write is made with the writer's wall clock past the creation of the club, and a change
received is stamped at most the drift limit ahead of the receiver's wall clock at that time. Clocks
may advance without bound, also within one behaviour. What is left out is where the code fails:

- a wall clock behind the starting snapshot (`store/syncwrite.go:107`): the first edits are stamped below it and win
  only on the device that made them;
- a stamp so far ahead that it is not followed (`engine.observe`): another device may write
  after it with an older one, and keeps that value while everybody else keeps the older edit with the newer stamp.

The run `convergence` satisfies the hypothesis in every step; with wall clocks that may be behind the
snapshot, or a drift limit of one, TLC finds `HoldsNewest` and `SameChangesSameState` violated, and neither when only steps that
satisfy the hypothesis are taken.

**Streams.** `StreamInv` is the conjunction of the checked invariants and `BatchInv` (what
a flush has read lies between `sent` and `made`). The heart is `FlushCommitInv`: for
every way to cut the interval, the new segments continue the old ones and the readers'
positions stay in step. `RefinesLog` then proves `StreamSpec => Log!Spec`: `LocalWrite` maps
to `Commit`, `PullApply` to `Deliver` (by `PullApplyExtends`), the rest stutters. For
any number of authors, readers, ops and attempts.

**Uniqueness conflicts.** `FlagsInv == table \in [Row -> Entry] /\ FlagsMatchContent`.
`DetectComplete` shows that recomputing the candidates' values only gives what a full
recomputation gives, provided the flags did before. The oldest holder exists by
`Smallest`, applied to the clocks and then to the keys: a nonempty set of numbers has a
least element, by way of the well-founded order of the subsets of an interval, because
the induction theorem for numbers is out of the prover's reach. Results: `FlagsFollowContent`,
`ConflictsTypeCorrect`, and `LocalWritesAddNoDuplicate`.

**Access lists.** The published versions form one line, each the successor of the one
before (`IsLine`), and the chain of every device is a prefix of it (`ChainsInv`). A key file holds
the key the line commits to, or one that is only drafted so far (`KeyFileInv`); a reader of a version finds the keys of
all its epochs (`ReaderInv`); a key file is for a reader of some change begun with its key, and a change
begun on top of a version or earlier, with an epoch the version lacks, has only readers that are readers of the version too (`HistInv`); the one change
under way goes on from the end of the line and its files are written or still on its
list (`JobInv`). `KeysComeFirst`, `RevokedKeptOut`, `Settled` and `ChainsGrow` follow, for
any devices, roles, scopes and versions, and for
changes cut off anywhere. Their hypothesis `Coordinated` is the rule of the protocol that admins
take turns; the run `access_key_files` shows that the first is false without it.

**Revocation.** `CutoffHolds` is about completed passes, so the invariant follows the pass:
who acts under the revocation knows the cutoff (`KnownInv`), a position that has been compared
with it is not beyond it and not on another line (`PassInv`), and what a device has of the
leaver is not above its position (`HeldInv`). `CutoffIsKept` and `RevocationEndsQuarantine` need no
hypothesis and do not say who the founder is: the leaver may be.

`DevicesAgree` and `OwnChangesAreKept` need a second invariant (`AInv`) that says what a
device holds exactly: its own changes, the others' up to its positions, and the line of the leaver's segment
at its position. The line of a segment is fixed by its hash (`Unique`, `SegsInv`), so
devices at one position agree. Their hypothesis is that nobody writes while a rebuild is prepared
(`WritesInWindow`); `revocation_write` shows what happens otherwise, and the theorem
says that this write is the only way.

**Joining.** For `OneDevicePerInvite` two facts join the types: the invite of a listed
device is spent, or its approval is at the step that marks it, or stopped there
(`InvitesSpent`); and nobody else was listed with the invite of a device about to be listed
(`FirstListed`). The second follows from the first when `ApproveCheck` finds the invite
open, and lasts because an invite has one owner who does one thing at a time. `OneDevice`
says it for any number of devices, admins and invites. `KeepsPromise` proves the safety half of the
refinement: every step is a step of `Admission` or a stutter. Its invariant `AInv` follows a
refusal from the admin's decision (`Decided`) over the signed notice (`SignedFor`) to
the device that read it (`SentAway`). The liveness half of `ImplementsAdmission` stays with TLC.

`RequestOrAnswered` (`RInv`) follows a rejection: one admin at a time writes it (`Alone`), the request stays
until the notice is complete and signed (`Underway`), and who waits has the one or the other (`Heard`), unless operations overlapped
as `crossed` records.

**Sessions.** `OneCurrentToken` needs to know what a request that is under way has read:
a refresh reads a row, decides, and rotates it in a later transaction, between which
other requests rotate or delete rows. `IInv` adds that ids and logins come from one
counter (`IdsIssued`), that a row still stored belongs to the login it belonged to when it was
read, and that the time of a rotation is not NULL (`RequestsRead`). The condition of
`RotateRefreshToken` (the row is there and not yet replaced) then makes the new row the only
current one of its login. Results: `OneCurrent` and, because a row that a
rotation adds is of a login still stored, `EndedForGood`, for any number of accounts
and of requests in flight.

`ChangesEnd` needs that an address belongs to one account (`AccountsInv`) and, for tokens and
requests alike, where they come from: a login to the account as it is now, or
something that is refused for its time, or one of the races listed in section 4 (`TokenOk`,
`RequestOk`, `BearerOk`). The time alone does not do for the administrator, whose tokens go
one step after the password changed; the attempt to prove it without that showed
that this step may fail, which the model then left out (`KeepAdminTokens`, scenario "fault").

`GuessingTakesTime` (`GInv`) needs no history of the failures. All `w` attempts that wait to be
verified may fail this second, so the `n` failures counted must have taken the time of `n + w`
(`Paced`); the lockout of the last one ends late enough for another attempt to begin. A
failure moves one from `w` to `n`, and an attempt begins only after that lockout. `MinTime` and the lockouts
grow with their argument: the doubling ends after ten times, as in the code, so that powers
are a table of ten values.

**Office.** The theorems are about all tables and all requests together, `OfficeInv`. Lemmas about
tables (a row added, changed, deleted, several joined) are shared by the parts; which request touches
which tables is said once for each part.

- `SharingAgrees`: besides what is shared, `PeopleInv` says that only live members have live rows and that the payer
  of a household lives in it: that makes it right to copy the payer's account.
- `MonthsChargedOnce` and `OwedWithoutGap`: arithmetic of periods (multiples of an interval that divides the year do
  not overlap and stay within their year) and `OneModel`: names of live models differ, so that one at
  most is preferred. A run's new fees are numbered by the ranks of the plan; none overlaps what `chargedPeriods`
  finds.
- `CollectedOnce`: a fee enters a run only if no live unconfirmed run has it, and no other request adds items.
- `NoRowIsOrphaned`: a deletion takes all rows that belong to what goes, and a request that
  looked before the deletion finds nothing to write.
- `LoansFindItemsReady`: an action property, from the invariant on loans.
- `ConfirmedCanBeUndone`: an entry that can be confirmed has no payments yet, so those it gets are one for
  each fee, numbered by the ranks of the fees, each with the paid date before it (`LinksAdded`). They are the
  last rows of their fees, so reopening comes back to that date, for payments as for returns.
- `NothingCertifiedTwice` and `NumbersWithoutGap`: `ReceiptsInv` counts the originals of a year up to
  each receipt and says that a gift on a standing receipt is one of its recipient. A transaction answers
  several requests, each on the receipts of those before; its recursion (`IssueAll`) is followed along an interval.
  What was read earlier is looked at again (`Answer`), and a certified gift can neither be given to
  another donor nor taken back.
- `TasksContinue`: months follow each other without a gap (`FirstDayNext`, from the recursion of `FirstDay`), so a
  day is in exactly one month (`DayOfMonth`), and `addMonthClamped` lands in the month counted to (`AddMonthsLands`).
- `MoneyNotSpentTwice`: an action property. `AmountsInv` says that amounts are numbers and payments refer to rows. Sums
  are recursive functions over sets of payments; that such a function exists and follows its equation
  (`SumsExist`, `SumsWithout`) is proved on the finite subsets by way of the well-founded order of their
  sizes, and then a sum grows by exactly the payments that are added. An entry has none before it is
  confirmed (`SpentByConfirm`), and each fee's capacity is looked at again in the transaction (`PaidByConfirm`).
- `AllOccurrencesListed`: `expand` begins some occurrences before the window, stops at the first one past it and tries
  `MaxOccurrences` at most. Dates of a series are at least a week apart (`DatesApart`, `MonthsApart`), so what is past
  stays past; an occurrence that reaches into the window is not before the first one tried, since no month is shorter
  than 28 days and the length of an event is taken off in full weeks, fortnights or 28 days (`JumpLosesNone`); and
  `MaxOccurrences` of them go beyond every window a handler accepts (`WindowEnds`). The invariant, `EventsInv`, only says
  that stored series are valid and exceptions are dates.

**Only model-checked.**

- Liveness under fairness (`EverythingSettles`, `EveryOpArrives`, and the liveness half of
  `ImplementsAdmission`), and anything with `ENABLED`.
- The runs that find a violation: a counterexample is not a theorem.

Every other property of a passing run is stated by a theorem.

## 6. What is not modelled

- *Cryptography, encoding, file names:* a complete file verifies, a partial or foreign
  one does not; a hash identifies its file.
- *Schema versions and upcasts; segment size limits:* the cut of the outbox is a free choice.
- *Migrations, audit trail, preferences, statistics, privacy exports, frontend, shell,
  generated API types:* one-time conversions, reads, presentation and pass-through.
- *Two offline devices that run the administration:* receipts numbered twice, periods charged twice
  (`store/feemodels.go:499`, `store/donations.go:698`). `Office` is one device; its composition with
  `Convergence` is out of TLC's reach.
- *Forks of the access list without turns* (`acl/chain.go:116`): `access_key_files` explores them only up
  to its violation. *A founder who leaves* (`engine/snapshot.go:156`): the runs of
  `Revocation` make the founder the admin; the theorems about it leave that open.
- *In the administration:* texts and names, renaming, the maintenance schedule and the
  expense it books, the attendance sheet and its statistics, leap years and time zones, the documents (pain.008, PDF, calendar file).

## 7. Plan

1. `AccessChain` without turns: forks and the rollback check once a device has accepted the longer branch.
2. Two devices with `Receipts` and `FeeLedger` reduced to numbers and periods, on top of `Convergence`.
