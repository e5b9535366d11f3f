# A TLA+ model of claude-obsidian

claude-obsidian lets an assistant change an Obsidian vault (a directory of
Markdown pages) that a person edits at the same time. Its core is
`claude_obsidian/transaction.py`: every change is a *bundle* of page writes that
is applied under a vault-wide lock, with backups and a journal, so that a crash
leaves either all of it or none of it. The other parts (checkpoints, a capture
queue, legacy page locks, ledgers, a retrieval index, hooks) stand around that
engine. The modules here are written from the Python source; line numbers refer
to files under `src/`.

## 1. The system

| Component | State it keeps | Operations | What makes it correct |
|---|---|---|---|
| **Mutation lock** `transaction.py` 1345-2065 | flock on the vault root; directory `.vault-meta/mutation.lock` with `owner.json` | acquire (poll, inspect, reap), release | one holder; a live lock is never taken; every acquire ends |
| **Transaction engine** 2439-2534, 3258-4690 | vault pages; per operation id a directory with backups, `journal.json`, `changed-paths.json` | `apply_bundle`, `recover_incomplete`, rollback, replay | all or nothing over crashes and retries; a person's edit is a conflict, never overwritten; a replay is truthful |
| **Managed metadata and addresses** 2789-3087 | address counter file, `address_map` of the manifest | expand a bundle: keep, take or refuse an address | one page per address over lost counters and merged maps, none beyond 999999 |
| **Plan approval** 1211-1309, 4273-4586 | `approval_sha256` handed to the user | inspect, apply | what is applied is what was approved |
| **Write scopes, bundle validation** 2537-2648 | none | predicate over operation type and path | no bundle writes outside its type's area; portable aliases are one file |
| **Checkpoint** `checkpoint.py` | pending and final record, Git objects, branch, index | checkpoint, resume | one exact commit per operation, compare-and-swap on the ref, nothing of the user's staged work lost, an interruption can be finished |
| **Legacy page locks** `legacy_lock.py`, `wiki-lock.sh` | one record file per page | acquire, release, clear-stale, list, peek | one writer per page while its lock is fresh |
| **Capture queue** `capture.py` 1440-2165 | `queue.json`, `queue.previous.json`, `queue.lock` | enqueue, claim, complete, fail, resume, recover | an item is worked on under one claim; a completion stays; a torn primary is recovered |
| **Filesystem capture** `capture.py` 408-1042 | `.raw/captured/<digest><suffix>` | discover, hash, plan, show, capture | what is reported as captured is stored with the bytes that were hashed, once per batch |
| **Provenance ledgers** `ledgers.py` | source and claim ledger | validate, commit, migrate | high-risk claims rest on independent groups of fresh evidence; ledgers expire only when due |
| **Retrieval index** `contextual-prefix.py`, `bm25-index.py`, `retrieve.py` | chunk files, BM25 index | chunk, build, query | no index outlives its chunks; a result is of the page as it is, or is dropped |
| **Hooks and status** `hook_adapter.py` | none | stop status, session start | silence means nothing is unfinished |
| **Vault selection** `paths.py` | environment and workspace configurations | resolve | one precedence order, fail closed; a project cannot hand out a vault elsewhere |
| **Release** `release.py` | the archive in place | build, audit | an archive is of one commit; an audit speaks of the archive in place |
| **Command line, modes, lint, contracts** | none | parsing, reports, schema checks | - |

How they interact: every entry point that mutates a vault (`apply_bundle`,
`recover_incomplete`, checkpoint) first acquires the mutation lock; `apply_bundle`
then runs recovery over all operation directories before it creates its own; a
checkpoint reads an operation's `changed-paths.json` after it is committed; the
capture queue has a lock of its own that is a second copy of the mutation lock's
protocol; chunker, index builder and `legacy_lock.py` run under the mutation lock,
queries and hooks read without any lock. A file capture and a ledger change reach
the vault as bundles. The person who edits pages, stages files and saves
configurations takes no lock at all.

What is hard: processes that die between any two durable writes; two processes
that both judge a lock stale; pids that are reused or belong to another host; a
rollback that fails half way and is started again on pages edited meanwhile; a
page compared in one step and replaced in the next; an answer validated before
recovery and given after it; a checkpoint that dies between commit object, branch,
index and record; a plan, a hash, a time or a configuration that is read, acted
upon later, and may have changed in between. `PROJECT.json` lists each such hazard at its line
with the properties that cover it.

## 2. Modules

| Module | What it is |
|---|---|
| `MutationLock` | the lock: acquire, stale-lock reaping, release, with process death, pid reuse, several hosts and `--force-stale-lock` |
| `MCMutationLock` | its instances for TLC |
| `MutationLockProofs` | its theorems |
| `AtomicVault` | the promise of the engine, without directories or journals |
| `Transaction` | the engine: apply, recovery, rollback, replay, with crashes, failing writes and a person who edits |
| `MCTransaction` | its instances for TLC |
| `TransactionProofs` | its theorems |
| `CaptureQueue` | the capture queue: two-file save, claims by token, resume, recovery |
| `MCCaptureQueue` | its instances for TLC |
| `CaptureQueueProofs` | its theorems |
| `Checkpoint` | Git checkpoints: candidate commit, pending record, branch, index, resume, with a person who uses Git meanwhile |
| `MCCheckpoint` | its instance for TLC |
| `CheckpointProofs` | its theorems |
| `Planning` | inspect, approval and apply of a plan; page addresses |
| `LegacyLock` | the deprecated page locks, Python and shell |
| `FilesystemCapture` | content-addressed capture of files |
| `Ledgers` | source and claim ledger, independence, expiry, migration |
| `Retrieval` | chunks, index and query |
| `Release` | building and auditing the public archive |
| `VaultSelection` | which vault a session gets, and the consent of the session-start hook |
| `StopStatus` | what the stop hook says of unfinished operations |
| `MCSuite` | the last eight side by side, for TLC |
| `PlanningProofs`, `RetrievalProofs` | the theorems of those two |
| `SuiteProofs` | the theorems of the other six |
| `MCSuiteProofs` | what is proved of a component holds of the suite |

`Transaction` runs one engine at a time. That is what `MutationLock` establishes:
every entry point of the engine is between `acquire` and `release`, and
`LockExcludes` proves that at most one process is there. A process that loses the
lock by dying is the engine's `Crash`, and the next holder starts with what is on
disk and nothing else, which is why `Crash` clears every variable of `engine`.

### MutationLock

A lock directory is named by the token of the attempt that made it; that name
stands for the inode the code pins with a descriptor, so "the public name still
denotes the pinned directory" is `lockDir = pinned[p]`. `pc[p]` is the point in
`acquire()` or `release()`; there is one action between any two looks or effects
that another process can interleave with:

| Code | Action |
|---|---|
| `_try_vault_advisory_lock`, the poll around it | `TakeFlock`, `FlockTimeout` |
| `os.mkdir` of the lock directory | `MakeDir`, `DirExists` |
| `_may_reap` and the name check after it | `DecideReap`, `InspectionLost`, `Retry` |
| rename into quarantine, removal there | `Rename`, `RemoveQuarantined` |
| pin the new directory, write `owner.json` | `PinDir`, `WriteOwner`, `WriteOwnerFails` |
| `release`, `_remove_lock_directory_at` | `Release`, `RemoveDir` |
| process death, a new process with the old pid, time | `Crash`, `ReusePid`, `Tick` |

`SharedFlock` says whether flock excludes processes on different hosts: a network
file system may or may not do that. One clock stands for the wall clock (staleness)
and the monotonic one (deadlines); clock skew between hosts is not modelled.

### Transaction

`vault` is the content of every page, `Absent` when there is no file. An operation
directory is its `journal` state (`"staged"` is a directory without
`journal.json`), the bundle it is about, the saved originals, and whether
`changed-paths.json` exists (`result`). Everything else is memory and dies with the
process. The order of durable writes is the code's: directory, backups, journal
`prepared`, journal `applying`, each page, `changed-paths.json` (the commit point),
journal `complete`.

| Code | Actions |
|---|---|
| `apply_bundle` up to recovery | `BeginApply`, `BeginReplay`, `RefuseReplay` |
| `recover_incomplete` | `BeginRecover` |
| `_recover_incomplete_locked`, per directory | `SkipSettled`, `RemoveOrphan`, `FinishCommit`, `CommitDrifted`, `RebuildResult`, `ResultMissing`, `StartRestore`, `RecoveryDone` |
| `_restore_journal` | `RestoreLook`, `RestoreUnlink`, `RestoreRewrite`, `RestoreError`, `RestoreFailed`, `RestoreDone` |
| staging the directory | `Stage`, `ClearJournal`, `ClearDirectory`, `RefuseDirectory` |
| `_prepare_writes`, `_journal_for` | `Prepare`, `PrepareFails`, `RecordPrepared`, `RecordApplying` |
| the write loop | `CheckPage`, `PageConflict`, `WritePage`, `WriteError` |
| validation and commit | `Validate`, `ValidationDrift`, `Commit`, `Finalize` |
| environment | `Crash`, `Edit`, `LoseFile` |

A look at a page and the write that trusts it are two steps (`CheckPage` and
`WritePage`, `RestoreLook` and `RestoreRewrite`). `EditInWindow` says whether the
person may save in between. `touched` is a history variable for the properties:
the pages of the operation in flight that the person changed.

Recovery visits directories by name in the code and in any order in the model.
`Crash` also stands for an exception of the runtime store outside the blocks that
roll back (for example a full disk while `changed-paths.json` is written): the
call ends and the disk stays as it is.

### AtomicVault

`store` is the vault as promised: while an operation is in flight, the pages of it
that nobody else touched still have their former content. `Commit` changes all of
them in one step, `Abort` none. A touched page is the person's: the engine may
write it (`Reconcile`) only while its content is the original, the new content or
nothing. `Transaction` implements this under the mapping `store <- Promised`,
`inflight <- FlyingBundle` (property `ImplementsAtomicVault`).

### CaptureQueue

A document is a revision and one entry per idempotency key (`"missing"` when the
key is not in the list). `primary` and `previous` are the two files; a mutation is
prepared from the loaded document (`Enqueue`, `Claim`, `Complete`, `Fail`,
`Resume`), then `Rotate` copies the readable predecessor, `Replace` replaces
`queue.json`, and `Reply` lets the caller know. Between any two of these the
process may die (`Die`, `CommandDies`). Requests that the queue refuses (a token
that does not match, an item that is not queued) change nothing and are therefore
no actions. `RecoverPrimary` is the recovery inside `_load_locked`: every operation
that finds a damaged `queue.json` starts with it.

A worker is not a process: an assistant that uses `capture queue claim` works on
for hours after that command has ended. `CommandLine` is the set of such workers;
`held` is what a worker works under, `ended` the tokens whose claiming process is
gone. `accepted` (completions answered with success) and `acked` (revision of the
last mutation a caller heard of) are history variables. The list's order and the
attempts counter are left out: a claim without an id takes the first queued entry,
the model any.

### Checkpoint

`worktree`, `index`, `intent` (files known by `git add -N` only), `refs`, `head` and
`object` are Git's; a commit carries its tree, its parent, its ancestors and the
operation it is of. `pending[o]` and `final[o]` are the two records of an operation,
`call` what a running call knows and `pc` where it is. Each Git command, each write
of a record and each comparison is a step.

| Code | Actions |
|---|---|
| `checkpoint_operation`, `_existing_checkpoint` | `AnswerExisting`, `ResumeCheckpoint`, `StartCheckpoint` |
| `_build_pending` | `Prepare`, `Build`, `Recheck`, `WritePending` |
| `_resume_pending` | `LookAtRef`, `AssertUnmoved`, `UpdateRef`, `LookAfterRefusal`, `Confirm`, `SyncIndex`, `ReadTree`, `CheckIndex`, `WriteFinal`, `UnlinkPending` |
| a death, or a Git command that fails | `Crash` |
| `apply_bundle` of an operation | `CompleteOperation` |
| the person | `EditFile`, `StageFile`, `IntendFile`, `CommitIndex`, `ResetTo`, `Switch` |

The call holds the mutation lock, so one runs at a time. The person may use Git
between any two steps. The code reads the ref once and tests that value for the commit
(`LookAtRef` when a checkpoint is resumed, `Confirm` after an update); it looks at the
index once and then runs `git read-tree`, for which Git has no compare-and-swap. What
the person moves after such a last look is not seen: the history variable `overtaken`
holds the looks this has happened to ("ref", "index"), and `FinalIsInHistory` and
`StagedWorkKept` except those steps and no others. `disturbed` records that the person
used Git while a checkpoint was under way, after which a resume may rightly refuse.

### The suite

Eight components share no state with each other. Each is a module with its own
specification; `MCSuite` conjoins them in one instance in which a variable `part`
says which of them a behaviour exercises while the others stand still, so that
`SuiteSpec` has the union of their state graphs and not the product. The actions of
every module appear there one by one.

| Module | Code | Actions |
|---|---|---|
| `Planning` | `_expand_managed_metadata` | `Begin`, `ReadCounter`, `Allocate`, `Pin` |
| | `inspect_bundle`, `apply_bundle` | `Inspected`, `Apply` |
| | assistant, person, sync tool | `Draft`, `RewriteText`, `SavePage`, `DeletePage`, `SaveMap`, `SaveCounter`, `ReplaceVault` |
| `LegacyLock` | `run`, `_serialized_lock_directory`, `with_meta_lock` | `Call`, `Enter`, `EnterTimeout` |
| | `_acquire`, `_cmd_acquire` | `Look`, `Create`, `Fill` |
| | release, clear-stale | `Unlink`, `Sweep` |
| | deaths, time | `Kill`, `SecondPasses` |
| `FilesystemCapture` | `discover_files`, `plan_filesystem_batch` | `StartCapture`, `PlanFile`, `SourceChanges` |
| | `capture plan`, `capture apply`, `capture_filesystem_batch` | `Show`, `Capture` |
| | the person | `SaveFile` |
| `Ledgers` | a bundle that writes a ledger | `RecordSource`, `RecordClaim`, `Migrate` |
| | calendar, person | `DayPasses`, `EditSource`, `LoseSources` |
| `Retrieval` | `contextual-prefix.py` | `ChunkAll`, `ChunkOne`, `ReadPage`, `InvalidateIndex`, `WriteChunk`, `RemoveChunk`, `FinishChunking` |
| | `bm25-index.py` | `StartBuild`, `ScanChunk`, `PublishIndex` |
| | `retrieve.py` | `Ask`, `ReadHit`, `JudgeHit`, `Answer` |
| | deaths, person | `JobDies`, `EditPage` |
| `Release` | `_git_snapshot` | `AskStatus`, `AskHead`, `AskIndex` |
| | `build_public_artifact` | `StartRelease`, `Collect`, `PackAndAudit`, `Publish`, `BuildFails` |
| | `audit_artifact` | `LookAtArchive`, `OpenArchive`, `Judge` |
| | the developer | `EditFile`, `StageAll`, `CommitStaged`, `CheckOut`, `ResetHead`, `ArchiveByHand` |
| `VaultSelection` | `session_start_context` | `SelectVault`, `CheckConsent`, `ReadHotPage` |
| | the person | `EditConfig` |
| `StopStatus` | `stop_status` | `StartHook`, `LookForLock`, `ListOperations`, `ReadJournal`, `Tell`, `EndHook` |
| | engines, in the order `Transaction` gives them | `Lock`, `Advance`, `Unlock`, `EngineDies`, `TakeOver`, `Settle`, `DropLock` |

What a reader should know of them:

- `Planning`: `inspect` takes no lock, `apply` does. The counter and the map are read
  once to allocate and once more for `expected_hashes`; `SavesWhilePinning` says
  whether somebody may save them in between during an apply. With `TRUE` TLC finds
  `MapStaysSound` violated, since such a save is overwritten; the runs have `FALSE`.
  The address line of a page is part of the content that a bundle brings or the person
  saves: the lines of the pages as they are, or those of `AddressLines`. The engine
  compares a line with the map only for pages with an address request
  (`transaction.py:3050`); any other page keeps the line that it comes with. `borrowed`
  remembers the pages whose line came so and is not the map's, and `OneAddressPerPage`
  excepts pairs with such a page.
- `LegacyLock`: the Python program takes the time *before* it waits for the lock,
  the shell script after it. `MCSuite` follows a vault until a worker removes a
  record that is not its own, or the shell's `clear-stale` a fresh one (`foreign`):
  the promise ends there, as the properties say.
- `Ledgers`: one claim, three sources; `Evidence` are the lists a claim may give, and
  their order matters to the union-find.
- `FilesystemCapture`: two commands that find no copy of one content and give it
  different suffixes store it twice; each copy is right, and no document excludes it. A
  `capture_filesystem_batch` with writes that it has committed before is a replay of
  that operation (`Replays`, `committed`); `capture apply` inspects first, finds the
  copies and is refused.
- `Retrieval`: a chunk that the builder leaves out because its page was being edited
  stays out when the edit is undone; nothing then tells that the page is missing
  from answers until the next build. The index scores `contextualized_text`, a prefix and
  the chunk's text, while `body_hash` is of the text alone. The prefix is left out. That
  is exact for the synthetic prefix, the default, which follows from the content of the
  page; a prefix that a language model writes may differ from run to run.
- `Release`: an archive is its content and the inode it lies in. An audit reads the bytes
  from a descriptor that it closes, and then compares device and inode only
  (`release.py:2068`, `2343`). A build makes its file while the old one is still there,
  so one replacement always shows, but a second may have the first one's inode again
  (`Publish` takes any of `Inodes` but the one in place), and a copy over the archive
  keeps it (`ArchiveByHand`). `AuditedIsInPlace` excepts these two and nothing else.
- `VaultSelection`: a directory that has nothing but a workspace configuration of its own
  may be selected too (`Adoptable`).
- `StopStatus`: an operation whose journal outgrows 64 KiB is reported as unreadable
  also when it is settled (`LongOnes`). The vault is selected when the hook begins: when
  none can be, the hook is silent (`hook_adapter.py:232`), and its silence then speaks of
  no vault.

### Wrong variants

Next to some actions stands one whose comment begins with *Wrong variant*. They are
plausible mistakes (a guard dropped, a step too many) and are used nowhere in
`Next`; `PROJECT.json` names, for every checked property, the variant that breaks
it, so that the property is known to depend on the code.

## 3. Runs

| Run | Question | Result |
|---|---|---|
| `lock_force` | one host, one process forcing, crashes and reused pids at every step: is a live lock ever taken? | holds: `MutualExclusion`, `NeverStolen` |
| `lock_hosts` | three processes on two hosts whose flocks do not meet, one of which may force: do the host and pid in the record protect the lock until somebody forces, and does every acquire end also then? | holds: `StolenOnlyByForce`, `AcquireEnds` |
| `txn_faults` | two ids, three bundles (two share an id), failing writes, two crashes, a lost runtime file, edits at any moment | holds: `OneInFlight`, `CommittedNeverUndone` |
| `txn_atomic` | crashes, failing writes, retries, edits of both pages between looks and writes excluded: all or nothing, and eventually settled? | holds: `ImplementsAtomicVault`, `NeverSilentOverwrite`, and `InterruptedIsSettled` unless a page was touched |
| `txn_window` | may the person's edit be overwritten? | **violated**, finding 1 |
| `txn_replay` | is a replay's success true? | **violated**, finding 2 |
| `txn_drift` | can drift of a committed operation block others? | **violated**, finding 3 |
| `queue_safe` | a command-line and an in-process worker, forced resumes, a death anywhere, two damages to `queue.json` | holds: `ValidDocument`, `OneResult`, `LosesLittle` |
| `queue_claims` | in-process workers on two hosts that may die: does resume leave live claims alone, and does an abandoned claim give its item free? | holds: `LiveClaimNotStolen`, `AbandonedMovesOn` |
| `queue_steal` | the same as `queue_claims` for a command-line worker | **violated**, finding 4 |
| `checkpoint` | two operations on overlapping files, a death or a failing command anywhere, a person who uses Git at any moment: is history right, is nothing lost, and does asking again finish it? | holds: `OneCommitPerOperation`, `ExactOperation`, `OnePending`, `NoLostCommit`, `StagedWorkKept`, `FinalIsInHistory`, `InterruptedFinishes` |
| `suite` | the eight components of the suite | holds, see below |

What `suite` shows, property by property:

| Property | Promise |
|---|---|
| `OneHolder` | no two workers hold a page, also under an alias of its name, unless somebody released a lock that had gone stale |
| `FreshRecordKept` | waiting with an old clock reading never makes a fresh lock look stale |
| `MapStaysSound` | an apply never loses, changes or doubles an address, whatever happened to the counter |
| `OneAddressPerPage` | no two pages declare one address while nobody harms the map, unless one of them came with the other's line, by hand or without a request |
| `ReviewedIsWritten` | the pages, map, counter and vault an apply finds and leaves are those the user saw |
| `IndependentEvidence` | the union-find over evidence agrees with its definition: evidence of a high claim can be divided without a shared origin, bytes or publisher on both sides |
| `ExpiresOnlyWhenDue` | ledgers become invalid by time only on the day after a refresh was due |
| `IndexMatchesChunks` | no death leaves an index that names chunks which are not as indexed |
| `ResultIsCurrent` | a result is of a content its page had during the query, scored from the same text |
| `ChunkedExactly` | a run leaves exactly the chunks of a page, also when its address changed |
| `ReportedIsStoredOnce` | what is reported as captured is stored with the hashed content |
| `ArchiveIsOneCommit` | a published archive has the files of an index that was there during the build, and of the commit it names unless the developer moves twice or more, which two equal snapshots cannot tell |
| `AuditedIsInPlace` | an audit that passes speaks of the archive that is in place, unless two builds replaced it after its bytes were read or somebody changed it by hand |
| `OnlyConsentedContext` | a project's configuration does not make the hook read a vault elsewhere |
| `SilenceMeansSettled` | when the stop hook is silent nothing was unfinished all the while |

Exclusion is not claimed when flock is not shared *and* somebody forces across
hosts: there two forced reapers may rename each other's directories. `lock_hosts` has both:
`MCMutationLock` remembers in `forced` that somebody forced, `StolenOnlyByForce`
promises nothing after that, and `AcquireEnds` shows that every acquire still ends.
The proofs of exclusion have `SharedFlock` or nobody forcing; `StolenOnlyByForce` is
proved without either.

**Bounds.** Locks: two or three processes, three attempts in all, a clock of three
ticks. A reap needs a dead or stalled owner, a reaper and a competitor, which is
three attempts; staleness is only compared, so `StaleAfter` of 0 to 2 reaches both
sides. Queue: one item is enough for the properties, which speak of
the claims and results of one item; two claims make a first and a second worker of
it; two damages reach the case in which the first strikes inside a save and leaves
the predecessor one revision older. Engine: two operation ids, bundles of one and two pages (a two-page bundle
has a first, a last and a page in between two writes), three contents so that
original, new and foreign bytes differ, two crashes (one during apply, one during
the recovery that follows), one lost file. Checkpoint: one operation creates a file
and changes a second, another changes the second again; three commits (two
checkpoints and one of the person, or the same checkpoint tried twice), two uses of
Git by the person (a change and its undoing) and one death. Suite: two bundles that
write both pages, of which one requests an address for one of them and the other for
both, a line that is another page's, two addresses, two things saved by the person (one
before and one after an inspect); two workers, two spellings of one page, one tick
and one death, which a stale lock with a late reader needs; three sources in a
chain (`u/x` and `f/y` share a publisher, `f/y` and `u/y` bytes), so that grouping
is transitive; two pages, one with an address line that goes, two chunks, one edit;
two inbox files and a raw one, two commands at a time and three in all; two files
and an overlay, two moves of the developer (what `ArchiveIsOneCommit` excepts needs them:
a checkout between the HEAD and the index of the first look, and a `reset --soft` between
the status and the HEAD of the second; TLC finds that case when the exception begins at
three moves), an archive in place or none at first, two builds and two inodes, so that the
second build may have the inode of the archive that the first replaced; five directories with two layouts and one changed
configuration; two operations, one with a long journal, a scan limit of one and two
deaths. The constants named `Max...` and `LastDay` are the only bounds, all in
guards, but for one in `MCSuite`: inspect and apply run side by side through one save of
the person, and alone through two (`Followed`). The theorems below hold without regard to
the values of the constants.

No passing run of the lock, the engine, the checkpoint or the suite checks deadlock:
when the attempts or the clock are used up, or when nobody calls any more, the
system really does stop.

**Fairness.** The lock's `FairSpec` (with `forced` beside it in `lock_hosts`: `ForcedFairSpec`) lets time pass and schedules a process that is
inside `acquire()`, which only polls and never waits for another process; no
holder has to release. The engine's `FairSpec` runs a started call on
(`WF(Engine)`) and supposes that somebody eventually calls again
(`WF(BeginRecover)`): `operation-transactions.md:120` says an interrupted apply is
recovered by the next apply or by `transaction recover`, so without a call nothing
can be promised. No fairness is assumed of crashes, edits or failing writes; pages
that a rollback cannot restore count against `MaxCrashes`, since a disk that fails
for ever settles nothing.
The queue's `FairSpec` lets a started save go on and claims grow old, and supposes
that on every host somebody runs `capture queue resume` again and again, which is
the only thing in the code that requeues a claim.
The checkpoint's `FairSpec` lets a running call go on and supposes that whoever
asked for a checkpoint asks again until it is answered: an interrupted checkpoint is
resumed by the next call for the same operation and by nothing else. The components
of the suite promise no progress that does not follow from their calls returning,
and their specifications state no fairness.

## 4. Findings

1. **The window between look and write** (`txn_window`). `README.md:211` says a
   changed target is never silently overwritten. `apply_bundle` compares the hash
   and then renames the new file over the page; a save in between is lost.
2. **Replay validated too early** (`txn_replay`). `test_transaction.py:1635` asserts
   that drift must not report success. A replay validates first and recovers
   second; recovery may undo the very bytes that were validated.
3. **Drift that blocks** (`txn_drift`). After a crash between `changed-paths.json`
   and the final journal, an edit of the page makes every later call fail with
   `RESULT_DRIFT`, though later drift of history is documented and tested not to
   block anything.
4. **A live claim that resume steals** (`queue_steal`). `capture.py:2105` says resume
   never steals a live claim by default. The claim records the pid of the process
   that called `claim()`; with `capture queue claim` that is a command which has
   ended, so an hour later a plain resume gives the item to somebody else.

## 5. Proofs

TLAPS proves the following for all processes, hosts, bundles, pages, contents and
bounds that satisfy the assumptions of their modules, which say what the
constants are and that bounds are numbers. Every strengthened invariant named below
holds on the instances that TLC checks, too.

*MutationLockProofs*: `TypeCorrect`; and, if flock is shared or nobody forces,
`LockExcludes` (`MutualExclusion`), `HolderKeeps` (`HolderKeepsLock`),
`LockNeverStolen` (`NeverStolen`). Mutual exclusion is not inductive. Its invariant
adds: who holds flock is inside acquire or release and alone among those it
conflicts with (`FlockInv`); tokens name attempts (`TokenInv`); an attempt that has
not made its directory has left no trace (`FreshInv`); the directory of a process
that pins, owns or holds is the public one and its record says so (`UseInv`); and
what a reaper saw before it renames is still true: the same directory, and without
force an owner of its own host (`ReapInv`). `StealsNeedForce` (`StolenOnlyByForce`)
needs neither condition: the step lemmas ask only that nobody forces *yet*
(`NobodyForces`, a predicate of the state), a step of somebody who does not force is
a step of such a state (`UnforcedStep`), and so the invariant holds up to the first
`--force-stale-lock` (`UntilForced`), on hosts that flock does not reach as well.

*TransactionProofs*: `TypeCorrect`; `AtMostOneInFlight` (`OneInFlight`);
`CommittedStays` (`CommittedNeverUndone`); and, if the person does not save between
a look and the write that trusts it, `NothingOverwritten`
(`NeverSilentOverwrite`). The invariant is `IInv`: what a journal is about is
known and fits its id (`JournalInv`); how far an apply has come agrees with its
directory (`ApplyInv`); what is rolled back is in flight (`UndoInv`); while
recovery runs everything in flight is still to be visited, and nothing is in flight
once an apply stages its directory (`FlightInv`, the reason `OneInFlight` is not
inductive alone); and what was seen of a page still holds when it is written
(`WindowInv`). There is a lemma per part of the invariant (`TypeStep`,
`JournalStep`, `ApplyStep`, `UndoInvStep`, `FlightStep`, `WindowStep`), with one
step per action that can disturb it; `QuietSteps` and `Kinds` group those that
cannot.

`AtomicityImplemented` is the refinement: under `~EditInWindow` the engine implements
`AtomicVault` with `store <- Promised`, `inflight <- FlyingBundle`
(`ImplementsAtomicVault`). `IInv` says nothing of contents, so `SnapshotsKept` comes
first: `SnapshotInv` says that the backup of an operation in flight is what its bundle
expected, that at the commit point every page nobody touched has its new content, and
at the end of a rollback its old one again. With it every action maps to one step of
the abstract vault or to a stutter: `RecordPrepared` begins (`Begins`), writing
`changed-paths.json` commits (`Commits`), the end of a rollback aborts (`Aborts`), a
page written while the person touched it is reconciled (`ReconcileStep`), an edit is the
person's (`UserEdits`). Everything else stutters, crashes among them, since a page nobody
touched is promised from the bundle and not from the disk. Without `~EditInWindow` a
save inside the window is written over, and no step of `AtomicVault` does that
(finding 1).

*CaptureQueueProofs*: `TypeCorrect`; `AlwaysValid` (`ValidDocument`);
`OneResultAccepted` (`OneResult`). The lemma `Kinds` sees every operation that
writes as one action `Prepared`, which says what they have in common: the new
document is valid and no completed entry in it differs from the loaded one. With
it the invariant's parts are short: documents on disk are valid (`ValidInv`),
tokens in use were made (`MadeInv`), and what was accepted is in `queue.json`,
or in the document about to replace it (`CompletedInv`). `DamageCostsLittle`
(`LosesLittle`) adds `RevisionInv`: each damage sets the two files one revision further
apart at most, and a caller hears of a revision only when it is in `queue.json` and its
predecessor is at most one behind. `LiveClaimsKept` (`LiveClaimNotStolen`) adds
`OwnerInv`: a token belongs to the worker that made it, and while that worker runs the
queue in its own process, the process lives. It assumes `CommandLine = {}`, without
which it is finding 4, and `~MayForce`, since `--force` is there to take claims away.

*CheckpointProofs*: `TypeCorrect`; `OneCommit` (`OneCommitPerOperation`), `Exactness`
(`ExactOperation`), `AtMostOnePending` (`OnePending`) and `NothingLost`
(`NoLostCommit`); `StagedKept` (`StagedWorkKept`) and `FinishedInHistory`
(`FinalIsInHistory`), which except what the person moves after the last look at it.
Its invariant has six parts
besides the types. `GitInv`: the commits made have their ancestors among them, which
a reset needs. `ExactInv`: what is committed for an operation
is exact already when no branch has it yet, since a branch may get it after a crash.
`RecordInv`: a pending record names a commit of its operation, one step from its base,
and a final record beside it names the same. `CallInv`: what a running call knows is
what is recorded, and before that no operation has a pending record. `HistoryInv`: an
operation's commit is in history only while a record names it, which is why a second
commit for it is never made. `IndexInv`: what the last look at the ref and the index saw
is still so or is `overtaken`. There is a lemma per part (`GitStep`, `ExactStep`,
`RecordStep`, `CallStep`, `HistoryStep`, `IndexStep`); `GitChanges` and `StoreChanges`
say which actions matter to them.

*PlanningProofs*: `AddressesAreOwn` (`OneAddressPerPage`), `ApprovedIsWritten`
(`ReviewedIsWritten`), and under `~SavesWhilePinning`, without which TLC refutes it,
`MapOnlyGrows` (`MapStaysSound`). `GatheredInv`: the map that a caller has gathered
gives no address twice. `ApplyInv`: an apply is still in the vault it locked, the pages
it has requests for have the addresses of its map, and its map extends the one it
expects by entries that its bundle asks for (`Extends`). `DeclaredInv`: pages declare
what the map says or nothing, until somebody harms it, but for the borrowed ones. `AllocateFacts` and `UniqueGiven` are what
keeps the maps so: an address given is the page's own or in use by no other, whatever
the counter says.

*RetrievalProofs*: `NoIndexOutlivesChunks` (`IndexMatchesChunks`), `AnswersAreCurrent`
(`ResultIsCurrent`), `RunsLeaveExactChunks` (`ChunkedExactly`). `JobInv`: no index is
there while a chunker has something to write or to remove, and a builder's findings are
of the chunks on disk. `SearchInv`: what a query knows of a page, the page has been
since it was asked. `DoneInv`: while nobody edits, each page that a run has been
through has its chunks and no others, but for those that the run still has to write or
to remove.

*SuiteProofs*, one section per component:

- `SilenceIsSettled` (`SilenceMeansSettled`) from `HookInv`: what has been unfinished
  since the hook began is still to be read as long as the hook has nothing to say.
- `ContextIsConsented` (`OnlyConsentedContext`) from `ConsentInv`: by whom a selected
  vault was selected, and a configured one allowed. The ancestors of a directory are the
  least set that has the directory and the parents of its members, so that the proof
  holds for any tree.
- `ReportsAreTrue` (`ReportedIsStoredOnce`) from `StoreInv` (a copy has the content that
  its name says), `ItemsInv` (where a planned item of the inbox is, and that no content
  has two new copies) and `ReportInv` (the same of what is reported).
- `ArchivesAreOneCommit` (`ArchiveIsOneCommit`) from `PackInv` (what is packed is of the
  index that was read) and `LookInv`, which says how many moves of the developer each
  point of the two snapshots has taken at least before the commit that was read can be
  another than the index. `AuditsAreOfTheArchive` (`AuditedIsInPlace`) from `AuditInv`:
  until it is replaced or changed by hand the archive in place is the one that was read,
  and the first to replace it has another inode.
- `TimeExpiresOnlyWhenDue` (`ExpiresOnlyWhenDue`), which needs no invariant beyond the
  types: one day more changes the validity of a claim only through the sources that were
  fresh.
- `UnionFindGroups`: for every list of evidence, every ledger and every set of places
  that count, the two nested loops of `_independent_group_count` leave two places under
  one root exactly when sharing connects them (`GroupsAreShared`, which speaks of sets
  closed under sharing and of no order). `EvidenceIsIndependent` (`IndependentEvidence`)
  follows with `CheckedInv`: since the last write the ledger passes the checks of the
  day of that write, whatever happened to the files and the calendar since. See below
  for the induction.
- `OneWorkerHolds` (`OneHolder`) and `FreshLocksKept` (`FreshRecordKept`), for any number
  of workers, names and aliases. `InsideInv`: who is inside is alone there, has a time
  that is not ahead of the clock, and still finds what it looked at. `RecordInv`: a lock
  that a worker counts on is on record with the time it was taken, until somebody removes
  a lock that is not its own.

*The union-find.* The induction theorems of the library take a predicate as a parameter
and cannot be cited. The loops are proved with sets: `NatSet` and `Interval` say that a
set of numbers which has the first and with each the next has all of them, because a
least number outside it would have a predecessor inside (`WFMin`). That a loop has a
value at every count is `LoopDefined` by the same argument: the counts up to which some
function runs the loop are all of them. Between two turns the parents are a forest
(`Forests`: from every place the parents lead to a place that is its own parent), in
which `Find` has one answer (`OneRoot`). `UniteFinds` says what a union does to the
answers, and `UniteMerges` that it joins two groups and leaves the others; `LaterGrouped`
and `GroupsGrouped` carry through both loops that the groups are those of the pairs seen
so far. The path compression that `find` does in the code changes parents and no root,
and is left out.

*MCSuiteProofs*: `SuiteIsOfItsParts`: every behaviour of the suite is one of
`LegacyLockSpec`, `PlanningSpec`, `LedgersSpec`, `RetrievalSpec`,
`FilesystemCaptureSpec`, `ReleaseSpec`, `VaultSelectionSpec` and `StopStatusSpec`, since
each of its actions is an action of one component and keeps the variables of the others.
So the run `suite` looks at behaviours which the theorems above are about, and
`SuiteTypeCorrect` (`SuiteTypeOK`) follows.

`HolderKeepsLock` is proved; no run checks it, since `MutualExclusion` and
`NeverStolen` are the promises that rest on it.

Only model-checked:

- the liveness properties `AcquireEnds`, `InterruptedIsSettled`, `AbandonedMovesOn` and
  `InterruptedFinishes`: liveness and ENABLED are beyond the proof system.

Every invariant and every action property that a run checks is proved, some of them
under the hypotheses named above.

The properties of the violated runs are refuted and so have no theorem; `txn_window` and
`queue_steal` refute what `NothingOverwritten` and `LiveClaimsKept` prove, where the
hypotheses of the two do not hold.

## 6. Not modelled

- Permission bits, which the engine compares and sets together with a page's bytes.
- Confinement against symbolic links and replaced directories, and the
  `CORRUPT_*` refusals of runtime state that something else tampered with; the
  one loss modelled is that of a result or a journal (`LoseFile`), since the code
  has a recovery path for each.
- Write scopes: an apply whose plan is refused ends in `PrepareFails` like any other
  error of preparation. They are a table over operation types and paths without
  state, which a module would only repeat.
- The limit of 4096 operation directories, and the queue's limits of entries and
  bytes.
- The queue's own lock: `CaptureQueueLock` is the same protocol as `MutationLock`
  on the same flock. A pid that is reused makes an ended claim look alive and only
  `--force` requeues it then.
- Clock skew, and descriptors inherited by child processes.
- A vault that uses `wiki-lock.sh` and `legacy_lock.py` side by side: the two exclude
  each other by different locks, so nothing can be promised.
- The inner checks of pure code: the text analysis of `lint_engine.py`, the schema
  checks of `contracts.py` and `package_validation.py`, what an audit says of the
  content of an archive, URL canonicalisation, metadata sniffing, tokenisation and
  ranking, `gates.py`, `mode_config.py` and `vault_ops.py`, and argument parsing.
  They keep no state between calls and nothing runs beside them.
- In the modelled parts: setup of a vault that does not exist, source entries of the
  manifest, contradicting evidence and page anchors of claims, rerank and tiling
  checks, `list` and `peek` of the page locks.

## 7. What could come next

A composition of `Checkpoint` with the operation directories of `Transaction` in place
of its `CompleteOperation`; and one of `MutationLock` with `Transaction`, in which the
engine's running alone between `acquire` and `release` is a refinement and no longer an
argument in section 2.
