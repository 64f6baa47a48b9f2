# Verification of Sestina's Research Deliberation Kernel

Sestina keeps the state of a research project in one SQLite database beside a
`research-brief.yaml` file. A *Review* takes a suggestion from the user, a host
or a model through a frozen *Context Manifest*, an optional *Provider attempt*
(one HTTP request to a model) and an *effect preview* to a *canonical commit*,
which is the only thing that advances the project's revision. Around this
kernel other parts replace, publish, back up and erase the project's files, lease
work to processes, and hold the project and the Provider's configuration on a
desktop. This directory holds TLA+ modules of that machinery, the TLC
configurations that check them on small instances, and TLAPS proofs of the
properties that matter most.

## The system

| Component | State | Operations | Interacts by | Module |
| --- | --- | --- | --- | --- |
| Review workflow (`packages/core/src/kernel-application.ts`) | the open session, `#active` (an AbortController per request) | create, edit, prepare/confirm manifest, skip, prepare/start/cancel attempt, cancel, prepare effect, commit, recover, close, open, govern memory | one repository transaction per handler; awaits the Provider | `ReviewKernel` |
| Kernel repositories (`research-store/src/kernel/repositories.ts`, `storage/src/kernel-schema.ts`) | reviews, manifests, attempts, corrections | create, compare-and-swap, decode with relation checks, triggers against rewriting terminal rows | called by the workflow, the unit of work, recovery | `ReviewKernel` |
| Canonical unit of work (`unit-of-work.ts`, `state.ts`) | head, events, receipts, commands, outbox | `commitCanonical`, `lookup`, `workflow` | `BEGIN IMMEDIATE`, expected revision | `ReviewKernel`, `AuthorityLog` |
| Memory governance and redaction (`core/src/kernel-memory.ts`, `privacy.ts`) | memory items, redaction proofs | edit, confirm, renew, retire, recheck, forget | a canonical commit without a Review; Forget rewrites manifests, attempts and Reviews | `ReviewKernel` |
| Workflow recovery (`workflow-recovery.ts`) | none | running attempts become uncertain; projections are rebuilt | at every open, and on demand | `ReviewKernel` |
| Brief publisher (`kernel-brief-publisher.ts`) | a derived file, its hash and a pending hash | publish, repair, check at open | after the commit, in two transactions of its own | `BriefPublication` |
| Kernel migration (`kernel-migration.ts`) | a journal, staged and moved files | upgrade, recover, return to the backup | file renames, maintenance guard, the journal that closes the project | `KernelMigration`, `PairSwitch` |
| Managed restore (`recovery.ts`) | a journal, files moved aside | preview, restore, undo, recover | file renames, the project's write lease | `ManagedRestore`, `PairSwitch` |
| Privacy cleanup (`kernel-privacy-maintenance.ts`) | a row with a plan and what is completed | preview, clean up, resume | backups, upgrades' copies, temporary files; maintenance guard | `PrivacyCleanup` |
| Leases and locks (`storage/src/lease.ts`, `maintenance-lock.ts`, `project-write-lease.ts`) | owner, expiry, fencing token | claim, renew, complete, release | one row each, under `BEGIN IMMEDIATE` | `FencedLease` |
| Provider settings (`provider-settings.ts`, `session-secrets.ts`, `legacy-settings.ts`) | configuration, highest generation, key, import record | save, delete, import | the generation binds a Manifest to its Provider | `ProviderSettings` |
| Project session and host drafts (`kernel-api.ts`, `main.ts`, `host-draft-bridge.ts`) | session generation, open kernel, calls in progress, the grant | open, create, repair, maintain, close, dispose; enable, revoke, upload | one thread that gives way at every await | `ProjectSession` |
| Legacy aggregates (rooms, appeals, pilot), domain objects, Research Room, CLI, updater, MCP | see `PROJECT.json` | | | |

What is hard, and what makes each component correct:

* **Workflow.** The Provider call is awaited outside any transaction, so every
  other handler, a close or a crash may fall between its steps. A Review's
  status must still describe its last attempt; an answer counts only for the
  attempt that is current; a body is sent at most once, under a record already
  durable; a stale Review never revives what was confirmed before it went stale.
* **Unit of work.** Several approvals compete for one head. A change must land
  on exactly the revision its user saw, a command must take effect once however
  often it is retried, and a direction change must take back everything else
  that was being prepared.
* **Forget.** One transaction must find every copy, in manifests that were
  replaced long ago too, and must leave a project that still opens.
* **Recovery.** Any state that a crash can leave must pass validation and be
  settled without sending or guessing.
* **Publisher.** The file is installed before the row that vouches for it is
  committed, and anybody may edit it: what a publication wrote must always be
  recognised, what it did not write must not be replaced.
* **Migration and restore.** A database, its WAL and the Brief change one rename
  at a time; a crash or an exception after any step, of a recovery too, must be
  completed or taken back, without half a pair ever being open to be written.
* **Cleanup.** Files vanish one by one while backups are made, files altered and
  more is forgotten; when it says complete, nothing older may be left.
* **Leases.** An owner whose term ran out may come back late; nothing it does
  may take effect after a later grant.
* **Settings.** A generation must name one publication for good, across
  deletions, crashes and imports; a key kept in memory dies with its session.
* **Session.** Opening, creating, repairing and maintaining a project all await,
  and the window, the page or the system may end the session meanwhile.

## Modules

### `ReviewKernel`: the kernel of one project

| Variable | Code |
| --- | --- |
| `review` | `research_reviews`: status, base revision, current manifest, `attemptIds.at(-1)`, effect draft, version |
| `manifest` | `context_manifests`, each with its one row of `research_provider_attempts` (`UNIQUE(project_id, manifest_id)`), and the redaction proof |
| `memory` | the state of each Memory item at the head |
| `log` | one entry per canonical commit; `log[k]` made revision `k` |
| `issued` | the revision on which an authority command id was allocated |
| `provider` | what `options.provider()` returns now |
| `open`, `request` | the process: is the project open, and `#active` with whether the body was written |
| `sends` | history only: how often a manifest's body reached the network |

Every handler runs one SQLite transaction, so one handler is one action; its
early returns are guards, and a handler that catches a fault and runs a second
transaction (a refused confirmation or start, a refused commit) has a branch or
an action for it. `startAttempt` is the exception and is split where it awaits:
`StartAttempt` commits `running` and `sent`, `BeforeWrite` is the guard the
transport calls just before the first byte with the write it lets through,
`FinishAttempt` is the end of the call with each of its outcomes, and
`AnswerLost` is the end at which neither the answer nor the uncertainty could
be written (`StorageFaults`).

`stale()` is `Staled` on the Review and `AttemptsCancelled` on its prepared
attempt; `fresh()` is `Fresh`; `validateKernelRelations` is `Related`;
`validateKernelBodyRedaction` is `Decodable`; the assertion of
`recoverKernelWorkflows` is the guard `RunningAttemptsCurrent`.

Abstractions, and why they lose nothing the properties speak of:

* The object rows, event, head, receipt, command and outbox rows of a commit are
  written in one transaction: they are one entry of `log`. A fault before the
  transaction's end is a step that does not happen; one after it
  (`commit_uncertain`) changes only what the caller is told.
* The six effect kinds are three, by what they do to the workflow:
  `record_only` disposes of the Review, `formal_direction_change` stales the
  others, the remaining four only change objects. Object versions change only
  with the head, which the commit compares.
* The context hash is a function of the head and of the frozen suggestion, and
  policy and schema versions are constants of the build, so `fresh()` compares
  the head, the Provider's identity and the selected Memory items.
* `proof` is the manifest's status at the erasure and stands for the hash the
  redaction row keeps: every later write of a manifest changes its status.
* Retrying a command that was applied returns the old receipt and changes
  nothing. The version a client passes only refuses a call on an old copy; the
  model's user acts on the current record.
* `providerFor` is awaited before a handler's transaction. An identity read
  earlier and compared inside it is an earlier `ChangeProvider`.
* A correction, a second opinion's continuation and a compensation begin with a
  draft that names the Review they continue: `CreateDraft`. What follows are the
  ordinary handlers. A continuation's Provider is the second opinion's, which is
  another configuration; as a handler reads the Provider of one Review only and
  `ChangeProvider` may fall between any two handlers, one `provider` covers both.
  The correction record itself is only ever inserted.
* One process holds the project (`project-write-lease.ts`). A second process
  competing for the head is covered where it matters: `commitCanonical` is
  serialised by `BEGIN IMMEDIATE` and the model lets commits of all Reviews and
  of governance interleave.

### `AuthorityLog`: what the kernel promises

A sequence of changes and the revision each command was issued on. A command is
issued once; it is applied at most once, only while the project is at the
revision it was issued on, as the only decision of its Review; nothing else
touches authority. `ReviewKernel` implements it with
`changes <- log restricted to command and review` and `issued <- issued`.

### `BriefPublication`: the derived file

`head` and `row` are in the database, `file` is on disk; `phase` and `held` are
what each process does and remembers, `txn` and `guard` who holds the
database's write lock and the maintenance guard. A body is a function of the
revision, so it *is* the revision it was rendered from, and `Foreign` contents
are everything a publication never wrote. `Prepare` commits what is about to be
published (`contentHash`, `pendingContentHash`); `Check`, `Write`, `Install` and
`Finish` are the second transaction, with the rename inside it; a `Fail` or `Crash`
rolls it back and leaves the file as it is; `PrepareFails` and `CheckFails` are the
refusals, of an unknown file or of one that changed in between. `ReadFile` and `Validate` are the two
halves of opening, `StartRepair` the repair of a missing file, `Edit` somebody
else. Two processes interleave.

### `KernelMigration`, `ManagedRestore` and `PairSwitch`

Both replace `state.sqlite`, its WAL and the Brief. In both a file's content is
the last commit in it (in the migration with the kind of its schema), which is
what the hashes in their journals tell apart, and each durable step is an action:
one rename, one removal, one save of the journal. A crash may come before any.

`KernelMigration` follows `migrateKernelProject` through `Begin`, `BackUp`,
`Stage`, `Release` and the list of renames `UpgradeSteps`, which the process works
off; `Fail` is the catch block. `Recover` takes the `Decision` of
`recoverKernelMigration` on what it finds (target in place, source untouched,
files known, or refused) and works off `RestoreSteps`; `PrepareRestore` is
`restoreKernelPreMigrationBackup`, which ends in the same recovery. Sessions of
the current runtime and a writer of the released one commit in between. The
staging of schemas 21 to 25 works on a copy nobody sees and is one step.

`ManagedRestore` follows `restoreProjectState`, with the journal of a schema-25
project and without it for earlier ones: the steps in `work.todo`, the files moved
aside in `saved`, the undoing of an exception in reverse (`Undo`), and
`recoverInterruptedProjectStateRestore`, which copies the saved files back and may
itself be interrupted with a file half written (`Torn`).

`PairSwitch` says what both promise: the pair is one value, which a commit turns
into a later one while the project may be opened, and which a switch, while it
may not, leaves or replaces by the announced one. `MCSwitches` puts the two
modules side by side (a project is subject to one of them, by its schema) and
maps each to `PairSwitch`.

### `FencedLease`: one row of a lease table

One module for three tables, because they share `lease.ts`: an event being
processed (`reserve`, `complete`), a message being delivered (`claim`, attempts,
`release`), a maintenance lock (`acquire`, `renew`, `release`). Each action is one
write transaction. `held` is what a process believes, which the row contradicts as
soon as the term is over and another has claimed it. Nobody is told that its row is
gone: `ReleaseDelivery` deletes the row whichever process of the owner claimed it, and
the history variable `disowned` keeps the tokens in which another process still
believes. Tokens are random in the code
and numbered by the order of their grants here, so that "later" can be said of
them. Several processes share an owner id. The clock is one machine's and does not
run backwards; every caller uses the default term.

### `PrivacyCleanup`: erasing copies after a Forget

`disk` holds the copies: backups (directories, which verify as a whole), the files
an upgrade left and temporary Brief files of crashed publications. `seen` is the
inspection the user was shown, `row` the saved plan with what is completed, `work`
the call under the guard. `StartCleanup` compares what was shown with what is there;
`CheckFile` takes the copies in the plan's order and awaits a copy's hash, and
`RemoveFile`, a step of its own, its removal; `SaveProgress`, `PurgePages` and `Finish` work the plan off;
`ResumeCleanup` begins again after `Interrupt`. `StartBackup`, `Alter` and
`LeaveTemporary` come in between, and so does `Forget`, at any await of a cleanup of
the same session: the guard keeps other connections out, but the cleanup lifts the
fence for its own (`maintenanceOwned`, `kernel-privacy-maintenance.ts:218`,
`transaction.ts:78`). `forensic` is the set of directories in which restores before
the project's migration kept what they replaced: it is given at the start.

### `ProviderSettings` and `ProjectSession`: the desktop

`ProviderSettings` has the configuration's file, the file with the highest
generation, the key and where it may be stored, and splits a save, a deletion and
the import of an earlier version's configuration at each await. `ProjectSession`
has `sessionGeneration` (`epoch`), the open kernel, the `opening` and `maintaining`
flags, the calls of the page with what they await, and the bridge that takes a
host's drafts under a grant. `closeResources` is in both: it ends the session in
one and takes the keys kept in memory in the other. They share nothing else, so
`MCDesktop` runs them side by side.

### The MC modules

`MCReviewKernel` adds the symmetry sets and the view under which TLC identifies
states, `MCFencedLease` the owners and payloads, `MCBriefPublication` and
`MCPrivacyCleanup` nothing but a name of their own, `MCSwitches` and `MCDesktop`
the compositions described above. Definitions named `Mutant...` are the bugs each
property is tested against; no specification uses them.

## Runs

| Run | Instance | Checks |
| --- | --- | --- |
| `workflow` | 2 Reviews, 3 manifests, 1 command, 1 Provider, storage faults | `TypeOK`, `StatusMatchesAttempt`, `SendsAreRecorded`, `FinishedIsFinal`, `StaleNeedsNewManifest`, `DirectionChangeStalesTheRest` |
| `decisions` | 2 Reviews, 2 manifests, 1 Memory item, 3 commands, no Provider, storage faults | `PreviewBoundToManifest`, `CommittedOnReviewedRevision`, `EachDecisionOnce`, `AuthoritySpec` |
| `forget` | 2 Reviews, 2 manifests, 1 Memory item, 1 command, 1 Provider, storage faults | `ForgottenIsErased`, `StrandedOnlyByForget` |
| `liveness` | 1 Review, 2 manifests, 1 command, 2 Providers, no Memory item, no storage faults, `FairSpec` | `RunningHasCaller`, `RunningSettles`, `ProjectReopens` |
| `brief` | 2 processes, 3 revisions, 2 edits, 2 crashes or failures, `FairSpec` | `OwnFileIsKnown`, `ReadyIsTrue`, `UnknownLostOnlyByRace`, `Repairable` |
| `switches` | 3 commits, 3 crashes or exceptions, with or without the released runtime and the journal, fairness | `SwitchesTypeOK`, `EveryPairWhole`, `CommitsSurvive`, `OriginalKept`, `NeverResurrected`, `UndoneIsOriginal`, `EveryRecoverable`, `EverySwitchSpec`, `EverySwitchEnds` |
| `leases` | 2 processes of one owner and 1 of another, term 2, clock to 4, 4 grants, 3 uses | `Fenced`, `Exclusive`, `DecidedOnce`, `DeliveredEnds` |
| `cleanup` | 1 backup of 2 files, 1 upgrade's file, 1 temporary file, with or without 1 forensic directory, 3 revisions, 2 faults, `FairSpec` | `CompleteIsErased`, `CompletedIsGone`, `RemovedAsListed`, `CleanupEnds` |
| `desktop` | 2 calls, 1 upload, 3 generations, 4 sessions, 5 grants, 1 crash | `SessionKeysDie`, `OneOwner`, `PublishedIsNew`, `DraftsUnderGrant` |
| `forget_strands_attempt` | 1 Review, 2 manifests, 1 Memory item, 1 command, 1 Provider | `RunningAttemptsCurrent` is violated |
| `forget_makes_unreadable` | the same | `ErasedManifestsReadable` is violated |
| `migration_resurrects` | as `desktop` | `DeletedStaysDeleted` is violated |

**Bounds.** *Kernel:* manifest and command ids are used at most once, so their
number bounds a behaviour: three manifests let one Review be prepared, started,
abandoned and prepared again while another one runs, which is what every
property about an old attempt needs; two are enough where a property relates two
Reviews or an old manifest and a new one. Three commands let two previews of
different Reviews compete and a governance change or a repeated preview
intervene. Review versions only grow: they decide nothing but whether a
direction change's preview is still exact. The view therefore keeps of a version
only that comparison (is each pair in `affected` still the current version?), and
`MaxVersion` is out of reach (60) in the safety runs. `liveness` uses neither
view nor symmetry, and there `MaxVersion = 4` bounds `Edit` and `CommitRefused`,
the two actions a user can repeat for ever.

*Files:* three faults let a switch fail, its recovery be interrupted and the next
one be interrupted again; three commits give a session one before, one after and
one in the WAL at the time of a switch. Two edits put unknown content in the way
and take it away again. One backup of two files can be half removed, half written
or altered; a second backup would behave as the first. *Leases:* the term of 2 in
a clock to 4 lets a lease run out, be taken over and run out again; four grants let
a superseded owner return twice. *Desktop:* two calls are what a page has in
progress while a third party (suspend, reload, close) interferes; one upload is enough,
since each is judged by itself; three generations
let one be published, deleted and followed by another. `ProviderSettings` does not
follow a behaviour past the moment at which two writers of the configuration
overlap (`raced`): see the exceptions.

Deadlock is not checked: a project whose ids, revisions or faults are used up and
whose calls are over rests, in the code as in the models.

**Fairness.** *Kernel:* a request in flight ends, because `startAttempt` races
`provider.send` with a timer it always sets (`kernel-application.ts:1465`) and its
`finally` removes the call; a closed project is opened again, for otherwise nothing
can be said of what was left. No user has to act, no Provider to answer, no commit
to happen. *Brief:* a publication runs on while its process lives; the user opens the
project, publishes and repairs again, which another's lock may refuse for a while
(strong fairness), and closes it when the file is missing, as the repair demands.
*Switches:* a call works its list of steps off unless it is interrupted, and the user
of a project that refuses to open asks for recovery, as the documentation tells them
to. *Cleanup:* a call runs on unless it is
interrupted, the user looks at the copies and, as either may be refused for a while,
tries again and again (strong fairness) both to start one that deletes and to resume
the last. *Leases* and *desktop* promise nothing that must happen.

**Storage faults.** `RunningHasCaller` and the liveness properties are checked
without them, because with them they are false and the code says as much: if
neither the answer nor the uncertainty can be written, the attempt stays
`running` until the user cancels it or the project is opened again.

**Exceptions stated in the properties.** Where the code's promise holds but for
some states, the property names them, and the rest of the states is checked:

* `EveryRecoverable` and `EverySwitchEnds` except (a) an upgrade's recovery
  interrupted after it installed the backup's database while the journal still says
  `none` (`kernel-migration.ts:736`): the next recovery takes it for an untouched
  source and refuses it, every time; (b) a return to the backup begun with commits in
  the WAL (`kernel-migration.ts:948`), which is refused halfway; (c) a restore
  interrupted between the creation of its journal and its writing
  (`recovery.ts:1491`) or while a file is copied back (`recovery.ts:1782`), neither
  of which is written beside and renamed. (a) and (b) are `Trapped`, (c) is a `Torn`
  journal or `TornCopy`. A migration whose files somebody else touched after it
  was interrupted (`disturbed`) is refused by intention.
* `CommitsSurvive` and the migration's refinement are for projects without a
  writer of the released runtime (`oldRuntime`): it knows neither fence nor journal,
  and the source's lock is given up before the renames (`kernel-migration.ts:627`),
  so a commit in between is moved aside with the old files.
* `WholePair` and the restore's refinement are for schema 25 (`kernel`): the restore
  of an earlier schema has no journal, and a crash in it leaves whatever files are
  there (`recovery.ts:1363`).
* `UnknownLostOnlyByRace` allows one loss: an edit between the publication's check
  of the file and its rename (`kernel-brief-publisher.ts:104`), which no lock of the
  database prevents.
* `PublishedIsNew` excepts the import that is taken up again, and behaviours in which
  two writers overlapped: a generation is computed before the queue of writes is
  joined (`provider-settings.ts:581`) and an import writes through a store of its
  own, so overlapping writers may publish under one generation. Deleting is taken as
  one step.
* `CleanupEnds` excepts what the cleanup refuses to touch: altered copies, the
  directory of a backup that crashed, and forensic directories. Every non-empty entry
  of `backups/forensic` blocks an inspection and a cleanup
  (`kernel-privacy-maintenance.ts:115` and `:144`) until somebody removes it by hand.
  `preserveForensic` (`recovery.ts:1327`) makes such entries, in the restore of a
  project that is not yet of schema 25 (`recovery.ts:1454`), and the migration keeps
  them: a project that was once restored and then migrated cannot complete a cleanup.
* `RemovedAsListed` allows one loss: an alteration between the hash of a copy (line
  280 of the same file) and its removal (line 283), two awaits. The altered content is
  removed although no plan lists it.
* `Exclusive` excepts a delivery whose row a process of the same owner deleted
  (`lease.ts:228`): it is released by owner, not by token. If another owner claims the
  message then, two processes deliver it, each within its term, although the comment
  at `lease.ts:224` promises `one active deliverer per message+target`. That comment's
  other sentence, that nobody removes another owner's lease, holds. What is recorded
  is not affected: `Fenced` and `DeliveredEnds` have no such exception.

Two facts about leases that no property restates: the properties rest on one clock,
and no application of this repository calls these tables yet, so that the models'
processes use them in every order the interface allows.

## Proofs

Eight modules hold proofs; `PROJECT.json` lists their theorems. They hold for any
sets of ids, processes, files and payloads and for any bounds, from these named
assumptions alone: `NoneAssumption` and `NullAssumption` (the null is none of the
values it stands beside), `BoundAssumption` (bounds are natural numbers), `ForeignAssumption` (foreign
contents are no bodies), `TermAssumption` (a term is positive),
`PartAssumption` (a backup has more than one file), `PathAssumption` (the kinds of
copies have different paths), `DistinctAssumption` (no file is not a torn file),
`MigrationAssumption` (`ConstantsOK` of the migration: its bounds are natural numbers,
no file is not a file). TLC evaluates each of them in a run. Every safety property
and action property that a passing run checks, and every refinement, is proved; only
liveness is not.

**`ReviewKernelProofs`** proves `TypeCorrect`, `PreviewsAreCurrent`, `NoLostUpdate`,
`DecidedOnce` and `ImplementsAuthorityLog` (`Spec => AuthoritySpec`). The four after
the first rest on one inductive invariant, `AuthorityInv`. None of the properties is
inductive alone: that a commit lands on the manifest's revision needs that a live
draft's base is the manifest's (`PreviewBound`), which needs that a Review's manifest
is its own and has the Review's base (`ManifestBound`); that a command is applied
once needs that a live draft's command was issued on the draft's base and belongs
to no other Review (`DraftIssued`) and that every applied command was issued
(`LogIssued`). Most actions touch none of this: the argument first defines what it
means that a step leaves a Review (`Kept`), a manifest (`ManifestKept`) or all of
them (`AllKept`) intact in these respects, has one lemma per action that it does, and
then one lemma that such a step preserves the invariant. What is left are the actions
that write authority: drafts, new manifests, previews, commits and governance, each
with a lemma of its own. The refinement maps a preview to `Issue`, a commit to
`Decide`, memory governance and Forget to `Govern`, everything else to a stutter.

Its second half proves the attempt's side: `StatusMatchesAttempt`,
`SendsAreRecorded`, `ForgottenIsErased`, `StrandedOnlyByForget`, `RunningHasCaller`
(while answers can be saved), `FinishedIsFinal`, `StaleNeedsNewManifest` and
`DirectionChangeStalesTheRest`. Its invariant `AttemptInv` adds to the types: whose
manifest an attempt is and that each Review's status is its last attempt's; what each
status of a manifest allows its attempt; what was sent; that a Review whose manifest
was erased is stale or closed; and that a running attempt is its Review's current one
or was stranded by a Forget. The actions differ in what they write but not in how
they move one Review and its manifests, so each is shown to be a *move*, and a
move is shown to keep the invariant once. The call-related part is added only
without storage faults, which is where it holds.

**`BriefPublicationProofs`** proves `OwnFileIsKnown`, `ReadyIsTrue` and
`UnknownLostOnlyByRace`. Neither of the first two is inductive: between the rename and
the row only the announcement vouches for the file. The invariant says who may hold
lock and guard in which phase (`LocksAreInUse` adds that neither outlives its use), that what a process in its second transaction is about
to install is announced as pending, that the row it read is still the row, and what a
ready row names.

**`FencedLeaseProofs`** proves `Fenced`, `Exclusive`, `DecidedOnce` and
`DeliveredEnds`. The invariant relates belief to the row: a grant within its term is
the row's, for the row's owner, unless the row carries a later one or the grant is
among the `disowned`, whose row a process of the same owner deleted; the row's token is
the last one granted; what was recorded was recorded in the order of the grants; and a
completed event's row stays.

**`PrivacyCleanupProofs`** proves `CompletedIsGone`, `CompleteIsErased` and
`RemovedAsListed`. What is needed beyond them: a backup's or temporary file's name is
never used again, so a planned file that is gone stays gone; a plan accepted lists
every copy older than its revision, and its files of backups verify, as an altered
backup is blocked before; and each listed file has been dealt with or is still to be,
so that at the end none is left but what the plan retains. A plan exists only where no
forensic directory does. A Forget during the cleanup only raises what must be older:
the plan's revision then is not the last Forget's, and the status does not say
complete.

**`ProviderSettingsProofs`** proves `SessionKeysDie` and `PublishedIsNew`. The highest
generation on disk is not below any that was published or is about to be, except for
a writer that has not raised it yet, and while writers do not overlap there is at most
one such writer, whose generation is new. It extends `MCDesktop` and, at its end, takes the
session's two theorems over to the composition (`DesktopOneOwner`,
`DesktopDraftsUnderGrant`): a behaviour of the two side by side is one of each
(`OfEachPart`).

**`ProjectSessionProofs`** proves that files are in one hand (`OneOwnerTheorem`) and that
drafts need a grant in force (`DraftsUnderGrantTheorem`). The flags `opening` and `maintaining` stand
for exactly one call, of the phase they say; an open kernel belongs to the present
epoch and excludes them; a grant is of the present generation and session.

**`ManagedRestoreProofs`** proves `OriginalKept`, `UndoneIsOriginal`, `WholePair`,
`NeverResurrected` and `TypeOK`. What a restore has done is not in its state but in what
it has still to do, so the invariant is about `work.todo`: its steps are in order
(`Rank` for a restore, weaker orders for an undoing and a recovery), and each file is in
its place if its move is still to come and aside if not (`Moved`), to be returned, in
its place, or never there (`Undone`), absent for good, to be copied, or there
(`Recovered`). With the order, the first step left to do says what has been done, and the
journal, which comes before the first move and goes after the last file, then vouches
for files that are nowhere in place. A pair without a journal is healthy and has
forgotten all that is to be forgotten (`GoodPair`), which is what the journal's
original and the bundle have to be for a restore to begin.

`RecoverableElsewhere` needs one thing more, `AsideOK`: under a readable journal a file
is the original, the bundle's, absent or half copied, and what was not there is not
aside either. For the refinement (`IsPairSwitch`) two history facts are added: no file
holds a commit that was not made (`LastOK`), and what a switch began with is what its
plan and its journal say (`FromOK`). Then `CreateJournal` is `Begin`, `RemoveJournal` is
`End`, as the files are the bundle's, the plan's or the journal's original by then
(`RemovedFacts`), `Commit` is `Commit`, and every other step stutters: it leaves the
journal in place, or leaves what an open would find.

**`KernelMigrationProofs`** proves the same of the migration: `WholePair`,
`CommitsSurvive`, `RecoverableElsewhere`, `TypeOK` and the refinement (`IsPairSwitch`).
Here the steps are lists that are worked off from the front, so the invariant says
that what is left is an end of the upgrade's list (`UpgradeOK`) or of the recovery's
(`RestoreOK`) and, by its length, where each file is and that no session is live
once the database was moved. The journal has to say the rest, for after a crash nothing
else does: an upgrade's backup and target have exactly the source's commits and the
source all that were acknowledged (`UpgradeJournal`), which is why no commit is lost
whichever of the three is installed; a return starts from an upgraded pair
(`ReturnJournal`). `KnownOK` says what files an interrupted switch leaves when nobody
else touched them (`Unmoved`, `Moving`, `Returning`): those are the ones a recovery must
recognise. The invariant makes no exception for a writer of the released runtime but
where its commits show: in the WAL a recovery meets and in what is acknowledged.

**Progress.** Liveness is out of the prover's reach, but what it stands on is not: that
no state is a dead end and no call goes round in circles. Each of these is proved for
every value of the constants, from the same inductive invariants.

* *Calls end.* `EveryStepAdvances` (of the restore and of the migration): every step of
  a restore, an undoing, a recovery or an upgrade lowers `Effort`, a natural number
  counted from the steps left to do (for a restore also from the files aside). So a call
  that no fault and no crash interrupts takes finitely many steps.
* *They are not stuck on the way.* `SwitchesGoOn`: in an upgrade or a recovery the first
  step left to do is one the code knows and may take now.
* *They settle the project.* `EndedCallsSettle`: a restore, an undoing or a recovery that
  has nothing left to do has removed the journal. A fault of an undoing is not such an
  end: its rename of a file that was never moved can fail, and the journal then stays
  for the recovery, which `RecoverableFromAnywhere` says is possible.
* *Locks are not left behind.* `LocksTheorem`: the writer lock and the maintenance guard
  of a Brief are held only by a publication or a repair that goes on.
* *A cleanup is not at a dead end.* `DeletionGoesOn`: nothing but a copy altered since the
  plan stops a deletion, in particular not what the interrupted one removed;
  `CleanupGoesOn`: a project that requires a cleanup can start one or resume it, unless a
  copy was altered, a crashed backup left its directory, or there is a forensic one. A retirement is different:
  interrupted after it removed a temporary file it stops there when resumed
  (`kernel-privacy-maintenance.ts:285` accepts a missing file only for a deletion), and
  a new inspection, which no longer lists that file, has to take its place.
* *A project opens again.* `OpensTheorem`: as long as no manifest was erased, every state
  passes the checks of `openResearchDeliberationKernel`. The two findings on Forget are
  what happens otherwise.

**Compositions.** `MCSwitches` runs migration and restore side by side, and
`ManagedRestoreProofs`, which extends it, ends with the properties of both that the
run checks (`SwitchesTypeOK`, `EveryPairWhole`, `CommitsSurvive`, `EveryRecoverable`,
`EverySwitchSpec`). A behaviour of the composition is one of each part
(`OfEachPart`); the migration's theorems come in through an instance of
`KernelMigrationProofs`, and the `Same...` lemmas say that this instance and the one of
`MCSwitches` are the same specification.

**Model-checked only:** liveness (`RunningSettles`, `ProjectReopens`, `Repairable`,
`EverySwitchEnds`, `CleanupEnds`): it needs ENABLED and fairness, which the prover does
not have; the theorems under *Progress* are its safety half, and the runs show that
with the fairness the callers justify nothing else is missing. The three runs that expect a violation are TLC's counterexamples.

## Findings

1. **A Forget can strand a running attempt** (`forget_strands_attempt`). Forget
   stales a Review if any of its manifests selected the item, but ends only the
   attempts of those manifests. A newer attempt of the same Review stays
   `running`; nothing in the session can end it any more, and the next open fails with
   `corrupt_state` in `recoverKernelWorkflows`. `StrandedOnlyByForget` shows
   that no other path does this, and `liveness` that without Memory items every
   project opens again.
2. **A Forget can make a manifest unreadable** (`forget_makes_unreadable`). The
   redaction proof binds the hash of the manifest record; the next
   `prepareManifest` of its Review changes that record's status, the proof no
   longer matches, and every read of the project is refused.
3. **An interrupted import brings a deleted configuration back**
   (`migration_resurrects`). The import raises the highest generation to exactly the
   one it publishes, and gives way to a deletion only if the highest generation is
   above its own: published, interrupted, deleted by the user and retried, it
   publishes the deleted configuration again under the same generation.

The exceptions listed under *Runs* are further places where code and documentation
part; they are stated there because each is excluded from one property by name.

## Not modelled

`PROJECT.json` lists every component with its status, and the hazards this code is
exposed to. Two of them no property covers: the restore without a journal, which
promises nothing, and overlapping saves, where only the models' `raced` marks the
boundary.

* *Left out of modelled components:* the correction records and the paging queries
  of the repositories, the contents of an effect's object changes, chain hashes, the
  200-item limit and source staleness of Memory items, the excerpts Forget tombstones
  in legacy aggregates, the building and verifying of a bundle, the mapping of
  tables by the migration, the second opinion's configuration (the same code on other
  files), heartbeats and diagnostics of leases, `TrustedKernelCommands` and the
  recovery confirmations, whose every decision the called component checks again.
* *Left out of the environment:* sessions that are open during a restore.
  `ManagedRestore.Begin` asks for none, with a journal or without; the code takes the project's
  write lease only for a schema-25 project (`recovery.ts:1419`), and a session holds it
  only if it was opened with `exclusiveLease` (`kernel-application.ts:2087`). A session
  without it, or one of `SestinaCore` on an earlier schema, of which no property of
  the pair is stated, may be open in the code.
* *Left out because nothing decides by it:* projections and the workspace snapshot,
  which are rebuilt at every open and carry their revision.
* *Left out as frozen:* Deliberation Rooms, Correction Appeals, the closed pilot and
  the schema-20 Research Room, which a migrated project only reads and exports.
* *Candidates for later modules:* the desktop updater (an update quits the program
  while maintenance of a project may be under way, `main.ts:259`), recovery called
  when nothing needs it (`kernel-migration.ts:690`), the nesting in `transaction.ts`,
  and the reference-checked operators `contracts/merge` and versioning.
* *Pure input and output:* HTTP, React, Electron, argument parsing, decoding, rendering.
  They are the greater part of the repository's lines, and no state lives in them.

Taken as given: SQLite's atomic, durable transactions, renames that are atomic and
durable in their order, one writing process per project where a lease says so, one
clock, the hash functions, and the constant policy and schema versions of a build.

**Next.** The parts of the code that are not modelled, above all the candidates
named here.
