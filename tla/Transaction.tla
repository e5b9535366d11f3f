---------------------------- MODULE Transaction -----------------------------
(***************************************************************************)
(* Recoverable multi-file operations of claude_obsidian/transaction.py:    *)
(* apply_bundle, the recovery it runs first, rollback, and idempotent      *)
(* replay, over what is on disk: the vault's pages, and one directory per  *)
(* operation id with backups, journal.json and changed-paths.json.         *)
(*                                                                         *)
(* One engine at a time runs here: every entry point holds the lock of     *)
(* module MutationLock, whose mutual exclusion is proved there.  Its       *)
(* environment is a crash between any two durable writes, failing writes,  *)
(* and a user who edits pages in Obsidian without taking any lock.         *)
(*                                                                         *)
(* A content stands for the bytes of a file, so equal contents are equal   *)
(* hashes.  Permission bits, which apply_bundle compares and sets together *)
(* with the bytes, are left out.                                           *)
(***************************************************************************)
EXTENDS Integers, Sequences

CONSTANTS
  Ids,          \* operation ids
  Bundles,      \* operation bundles (a bundle stands for its canonical hash)
  Paths,        \* vault pages
  Contents,     \* contents of pages
  Absent,       \* the state of a page that does not exist
  NoBundle, NoId,
  IdOf,         \* the operation id a bundle declares
  Order,        \* the pages a bundle writes, in bundle order
  Old,          \* expected_hashes: what a bundle expects on each page
  New,          \* what a bundle writes
  Start,        \* the vault at the beginning
  Editable,     \* pages the user edits
  EditInWindow, \* may the user edit between a look and the write that trusts it?
  WritesFail,   \* may a write to the vault fail (I/O error, full disk)?
  MaxCrashes,   \* bound: crashes, and pages a rollback fails to restore
  MaxLosses     \* bound: runtime files lost to something outside

Values == Contents \cup {Absent}

ASSUME BundleAssumption ==
  /\ Absent \notin Contents /\ NoBundle \notin Bundles /\ NoId \notin Ids
  /\ IdOf \in [Bundles -> Ids]
  /\ Order \in [Bundles -> Seq(Paths)]
  /\ \A b \in Bundles :
       /\ Order[b] # << >>
       /\ \A i, j \in DOMAIN Order[b] : Order[b][i] = Order[b][j] => i = j
  /\ Old \in [Bundles -> [Paths -> Values]]
  /\ New \in [Bundles -> [Paths -> Contents]]
  /\ Start \in [Paths -> Values]
  /\ Editable \subseteq Paths
  /\ EditInWindow \in BOOLEAN /\ WritesFail \in BOOLEAN
  /\ MaxCrashes \in Nat /\ MaxLosses \in Nat

VARIABLES
  vault,    \* content of every page
  journal,  \* state of every operation directory
  bundleOf, \* the bundle an operation's journal and result are about
  backup,   \* the originals an operation saved
  result,   \* does changed-paths.json exist?
  pc, mode, \* where the engine is, and what it is doing
  cur,      \* the bundle being applied or replayed
  todo,     \* operations recovery has not looked at yet
  undo,     \* the operation being rolled back
  idx,      \* position in the writes
  failed,   \* has this rollback failed on some page?
  outcome,  \* how the last call ended
  touched,  \* history: pages of the operation in flight the user changed
  crashes, losses

disk     == <<vault, journal, bundleOf, backup, result>>
engine   == <<pc, mode, cur, todo, undo, idx, failed>>
bounds   == <<crashes, losses>>
vars     == <<disk, engine, outcome, touched, bounds>>

\* "absent" is no directory, "staged" a directory without journal.json.
JournalStates == {"absent", "staged", "prepared", "applying", "rolled-back",
                  "rollback-failed", "complete"}
Journalled == JournalStates \ {"absent", "staged"}
Unsettled == {"prepared", "applying", "rollback-failed"}

Modes    == {"none", "apply", "replay", "recover", "abort"}
Undoing  == {"restore", "unlink", "rewrite"}
Applying == {"check", "write", "commit", "finalize"}
PCs      == {"idle", "recover", "stage", "clear", "prepare", "record", "open"}
              \cup Undoing \cup Applying

Outcomes == {"none", "crashed", "committed", "replayed", "recovered",
             "rejected", "rolled back", "OPERATION_ID_REUSED",
             "OPERATION_RESULT_DRIFT", "RESULT_DRIFT",
             "COMPLETE_RESULT_MISSING", "ROLLBACK_FAILED",
             "INCOMPLETE_TRANSACTION_DIRECTORY", "EXPECTED_HASH_MISMATCH"}

PagesOf(b)   == {Order[b][i] : i \in DOMAIN Order[b]}
LastIdx(b)   == Len(Order[b])
InFlight(id) == journal[id] \in Unsettled /\ ~result[id]

\* Every page of b has the content b gives it (_validate_completed_result).
Installed(b) == \A p \in PagesOf(b) : vault[p] = New[b][p]
\* Every page of b is as its bundle expects (_prepare_writes).
Expected(b)  == \A p \in PagesOf(b) : vault[p] = Old[b][p]

TypeOK ==
  /\ vault \in [Paths -> Values]
  /\ journal \in [Ids -> JournalStates]
  /\ bundleOf \in [Ids -> Bundles \cup {NoBundle}]
  /\ backup \in [Ids -> [Paths -> Values]]
  /\ result \in [Ids -> BOOLEAN]
  /\ pc \in PCs
  /\ mode \in Modes
  /\ cur \in Bundles \cup {NoBundle}
  /\ todo \subseteq Ids
  /\ undo \in Ids \cup {NoId}
  /\ idx \in Nat
  /\ failed \in BOOLEAN
  /\ outcome \in Outcomes
  /\ touched \subseteq Paths
  /\ crashes \in 0..MaxCrashes
  /\ losses \in 0..MaxLosses

Init ==
  /\ vault = Start
  /\ journal = [id \in Ids |-> "absent"]
  /\ bundleOf = [id \in Ids |-> NoBundle]
  /\ backup = [id \in Ids |-> [p \in Paths |-> Absent]]
  /\ result = [id \in Ids |-> FALSE]
  /\ pc = "idle" /\ mode = "none"
  /\ cur = NoBundle /\ undo = NoId
  /\ todo = {} /\ idx = 0 /\ failed = FALSE
  /\ outcome = "none"
  /\ touched = {}
  /\ crashes = 0 /\ losses = 0

-----------------------------------------------------------------------------
\* The call ends, with an error or a result; nothing in memory survives it.
Finish(how) ==
  /\ pc' = "idle" /\ mode' = "none"
  /\ cur' = NoBundle /\ undo' = NoId
  /\ todo' = {} /\ idx' = 0 /\ failed' = FALSE
  /\ outcome' = how

Goto(where) == pc' = where

SetJournal(id, state) == journal' = [journal EXCEPT ![id] = state]

-----------------------------------------------------------------------------
(***************************************************************************)
(* Entry points, called with the lock held.                                *)
(***************************************************************************)
StartRecovery(b, what) ==
  /\ Goto("recover")
  /\ mode' = what
  /\ cur' = b
  /\ todo' = {id \in Ids : journal[id] # "absent"}
  /\ UNCHANGED <<disk, undo, idx, failed, outcome, touched, bounds>>

BeginApply(b) ==
  /\ pc = "idle"
  /\ ~result[IdOf[b]]
  /\ StartRecovery(b, "apply")

\* The id already has a result: only the same bundle, with every page as it
\* left it, is a replay.
BeginReplay(b) ==
  /\ pc = "idle"
  /\ result[IdOf[b]]
  /\ bundleOf[IdOf[b]] = b
  /\ Installed(b)
  /\ StartRecovery(b, "replay")

RefuseReplay(b) ==
  /\ pc = "idle"
  /\ result[IdOf[b]]
  /\ \/ /\ bundleOf[IdOf[b]] # b
        /\ Finish("OPERATION_ID_REUSED")
     \/ /\ bundleOf[IdOf[b]] = b
        /\ ~Installed(b)
        /\ Finish("OPERATION_RESULT_DRIFT")
  /\ UNCHANGED <<disk, touched, bounds>>

BeginRecover ==
  /\ pc = "idle"
  /\ StartRecovery(NoBundle, "recover")

-----------------------------------------------------------------------------
(***************************************************************************)
(* _recover_incomplete_locked: one directory after the other.  The code    *)
(* goes through them by name; here any order may happen.                   *)
(***************************************************************************)
Looks(id) == pc = "recover" /\ id \in todo

Settle(id) == todo' = todo \ {id}

\* Wrong variant: an operation that wrote no page yet counts as settled.
SkipPrepared(id) ==
  /\ Looks(id)
  /\ ~result[id] /\ journal[id] \in {"rolled-back", "prepared"}
  /\ Settle(id)
  /\ UNCHANGED <<disk, pc, mode, cur, undo, idx, failed, outcome, touched,
                 bounds>>

SkipSettled(id) ==
  /\ Looks(id)
  /\ \/ journal[id] = "rolled-back" /\ ~result[id]
     \/ journal[id] \in {"staged", "complete"} /\ result[id]
  /\ Settle(id)
  /\ UNCHANGED <<disk, pc, mode, cur, undo, idx, failed, outcome, touched,
                 bounds>>

RemoveOrphan(id) ==
  /\ Looks(id)
  /\ journal[id] = "staged" /\ ~result[id]
  /\ SetJournal(id, "absent")
  /\ Settle(id)
  /\ UNCHANGED <<vault, bundleOf, backup, result, pc, mode, cur, undo, idx,
                 failed, outcome, touched, bounds>>

\* The result was written, so the operation has committed.
FinishCommit(id) ==
  /\ Looks(id)
  /\ result[id] /\ journal[id] \in Journalled \ {"complete"}
  /\ Installed(bundleOf[id])
  /\ SetJournal(id, "complete")
  /\ Settle(id)
  /\ UNCHANGED <<vault, bundleOf, backup, result, pc, mode, cur, undo, idx,
                 failed, outcome, touched, bounds>>

CommitDrifted(id) ==
  /\ Looks(id)
  /\ result[id] /\ journal[id] \in Journalled \ {"complete"}
  /\ ~Installed(bundleOf[id])
  /\ Finish("RESULT_DRIFT")
  /\ UNCHANGED <<disk, touched, bounds>>

\* A complete journal whose result is gone: rebuild it from the journal.
RebuildResult(id) ==
  /\ Looks(id)
  /\ journal[id] = "complete" /\ ~result[id]
  /\ Installed(bundleOf[id])
  /\ result' = [result EXCEPT ![id] = TRUE]
  /\ Settle(id)
  /\ UNCHANGED <<vault, journal, bundleOf, backup, pc, mode, cur, undo, idx,
                 failed, outcome, touched, bounds>>

ResultMissing(id) ==
  /\ Looks(id)
  /\ journal[id] = "complete" /\ ~result[id]
  /\ ~Installed(bundleOf[id])
  /\ Finish("COMPLETE_RESULT_MISSING")
  /\ UNCHANGED <<disk, touched, bounds>>

\* Wrong variant: the journal alone decides, whatever result there is.
StartRestoreByJournal(id) ==
  /\ Looks(id)
  /\ journal[id] \in Unsettled
  /\ Goto("restore")
  /\ undo' = id
  /\ idx' = LastIdx(bundleOf[id])
  /\ failed' = FALSE
  /\ UNCHANGED <<disk, mode, cur, todo, outcome, touched, bounds>>

StartRestore(id) ==
  /\ Looks(id)
  /\ InFlight(id)
  /\ Goto("restore")
  /\ undo' = id
  /\ idx' = LastIdx(bundleOf[id])
  /\ failed' = FALSE
  /\ UNCHANGED <<disk, mode, cur, todo, outcome, touched, bounds>>

\* Wrong variant: an apply does not wait for recovery to look at everything.
RecoveryCutShort ==
  /\ pc = "recover"
  /\ mode = "apply"
  /\ Goto("stage")
  /\ UNCHANGED <<disk, mode, cur, todo, undo, idx, failed, outcome, touched,
                 bounds>>

RecoveryDone ==
  /\ pc = "recover"
  /\ todo = {}
  /\ \/ mode = "recover" /\ Finish("recovered")
     \/ mode = "replay" /\ Finish("replayed")
     \/ /\ mode = "apply"
        /\ Goto("stage")
        /\ UNCHANGED <<mode, cur, todo, undo, idx, failed, outcome>>
  /\ UNCHANGED <<disk, touched, bounds>>

-----------------------------------------------------------------------------
(***************************************************************************)
(* _restore_journal: the writes in reverse order.  Looking at a page and   *)
(* writing it are two steps.                                               *)
(***************************************************************************)
Page     == Order[bundleOf[undo]][idx]
Original == backup[undo][Page]
Written  == New[bundleOf[undo]][Page]

\* Wrong variant: every other page is restored.
NextPageButOne(bad) ==
  /\ idx' = idx - 2
  /\ failed' = (failed \/ bad)
  /\ Goto("restore")

NextPage(bad) ==
  /\ idx' = idx - 1
  /\ failed' = (failed \/ bad)
  /\ Goto("restore")

\* Wrong variant: a page that existed is restored over any content.
RestoreOverAnything ==
  /\ pc = "restore" /\ idx > 0
  /\ \/ Original = Absent /\ NextPage(vault[Page] # Absent)
     \/ Original # Absent /\ Goto("rewrite") /\ UNCHANGED <<idx, failed>>
  /\ UNCHANGED <<disk, mode, cur, todo, undo, outcome, touched, bounds>>

RestoreLook ==
  /\ pc = "restore" /\ idx > 0
  /\ \/ /\ vault[Page] \notin {Original, Written, Absent}
        /\ NextPage(TRUE)
     \/ /\ Original = Absent /\ vault[Page] = Absent
        /\ NextPage(FALSE)
     \/ /\ Original = Absent /\ vault[Page] = Written
        /\ Goto("unlink")
        /\ UNCHANGED <<idx, failed>>
     \/ /\ Original # Absent /\ vault[Page] \in {Original, Written, Absent}
        /\ Goto("rewrite")
        /\ UNCHANGED <<idx, failed>>
  /\ UNCHANGED <<disk, mode, cur, todo, undo, outcome, touched, bounds>>

\* _confined_vault_unlink verifies the bytes once more before it unlinks.
RestoreUnlink ==
  /\ pc = "unlink"
  /\ IF vault[Page] = Written
     THEN vault' = [vault EXCEPT ![Page] = Absent] /\ NextPage(FALSE)
     ELSE UNCHANGED vault /\ NextPage(TRUE)
  /\ UNCHANGED <<journal, bundleOf, backup, result, mode, cur, todo, undo,
                 outcome, touched, bounds>>

RestoreRewrite ==
  /\ pc = "rewrite"
  /\ vault' = [vault EXCEPT ![Page] = Original]
  /\ NextPage(FALSE)
  /\ UNCHANGED <<journal, bundleOf, backup, result, mode, cur, todo, undo,
                 outcome, touched, bounds>>

\* An exception on one page is recorded and the others are still restored.
RestoreError ==
  /\ WritesFail
  /\ pc \in {"unlink", "rewrite"}
  /\ crashes < MaxCrashes
  /\ crashes' = crashes + 1
  /\ NextPage(TRUE)
  /\ UNCHANGED <<disk, mode, cur, todo, undo, outcome, touched, losses>>

RestoreFailed ==
  /\ pc = "restore" /\ idx = 0 /\ failed
  /\ SetJournal(undo, "rollback-failed")
  /\ Finish("ROLLBACK_FAILED")
  /\ UNCHANGED <<vault, bundleOf, backup, result, touched, bounds>>

\* Wrong variant: a failed page does not keep the operation in flight.
RestoreDoneAnyway ==
  /\ pc = "restore" /\ idx = 0
  /\ SetJournal(undo, "rolled-back")
  /\ touched' = {}
  /\ Finish("rolled back")
  /\ UNCHANGED <<vault, bundleOf, backup, result, bounds>>

RestoreDone ==
  /\ pc = "restore" /\ idx = 0 /\ ~failed
  /\ SetJournal(undo, "rolled-back")
  /\ touched' = {}
  /\ IF mode = "abort"
     THEN Finish("rolled back")
     ELSE /\ Goto("recover")
          /\ todo' = todo \ {undo}
          /\ undo' = NoId
          /\ UNCHANGED <<mode, cur, idx, failed, outcome>>
  /\ UNCHANGED <<vault, bundleOf, backup, result, bounds>>

-----------------------------------------------------------------------------
(***************************************************************************)
(* apply_bundle after recovery: operation directory, backups, journal,     *)
(* writes, result, journal.                                                *)
(***************************************************************************)
\* The id of the operation being applied.
OpId == IdOf[cur]

\* A new directory; a rolled-back one of the same bundle is removed first,
\* journal.json before the directory itself.
Stage ==
  /\ pc = "stage"
  /\ journal[OpId] = "absent"
  /\ SetJournal(OpId, "staged")
  /\ Goto("prepare")
  /\ UNCHANGED <<vault, bundleOf, backup, result, mode, cur, todo, undo, idx,
                 failed, outcome, touched, bounds>>

ClearJournal ==
  /\ pc = "stage"
  /\ journal[OpId] = "rolled-back" /\ bundleOf[OpId] = cur
  /\ SetJournal(OpId, "staged")
  /\ Goto("clear")
  /\ UNCHANGED <<vault, bundleOf, backup, result, mode, cur, todo, undo, idx,
                 failed, outcome, touched, bounds>>

ClearDirectory ==
  /\ pc = "clear"
  /\ SetJournal(OpId, "absent")
  /\ Goto("stage")
  /\ UNCHANGED <<vault, bundleOf, backup, result, mode, cur, todo, undo, idx,
                 failed, outcome, touched, bounds>>

RefuseDirectory ==
  /\ pc = "stage"
  /\ journal[OpId] # "absent"
  /\ ~(journal[OpId] = "rolled-back" /\ bundleOf[OpId] = cur)
  /\ Finish("INCOMPLETE_TRANSACTION_DIRECTORY")
  /\ UNCHANGED <<disk, touched, bounds>>

\* Every page is compared with expected_hashes and its original saved.
Prepare ==
  /\ pc = "prepare"
  /\ Expected(cur)
  /\ backup' = [backup EXCEPT ![OpId] =
                  [p \in Paths |-> IF p \in PagesOf(cur) THEN vault[p]
                                   ELSE Absent]]
  /\ Goto("record")
  /\ UNCHANGED <<vault, journal, bundleOf, result, mode, cur, todo, undo, idx,
                 failed, outcome, touched, bounds>>

\* A conflict, a plan that is not the approved one, or an error removes the
\* directory again.
PrepareFails ==
  /\ pc = "prepare"
  /\ SetJournal(OpId, "absent")
  /\ \/ ~Expected(cur) /\ Finish("EXPECTED_HASH_MISMATCH")
     \/ Expected(cur) /\ WritesFail /\ Finish("rejected")
  /\ UNCHANGED <<vault, bundleOf, backup, result, touched, bounds>>

RecordPrepared ==
  /\ pc = "record"
  /\ SetJournal(OpId, "prepared")
  /\ bundleOf' = [bundleOf EXCEPT ![OpId] = cur]
  /\ touched' = {p \in PagesOf(cur) : vault[p] # backup[OpId][p]}
  /\ Goto("open")
  /\ UNCHANGED <<vault, backup, result, mode, cur, todo, undo, idx, failed,
                 outcome, bounds>>

RecordApplying ==
  /\ pc = "open"
  /\ SetJournal(OpId, "applying")
  /\ idx' = 1
  /\ Goto("check")
  /\ UNCHANGED <<vault, bundleOf, backup, result, mode, cur, todo, undo,
                 failed, outcome, touched, bounds>>

\* An exception while applying rolls the whole operation back.
Abort ==
  /\ Goto("restore")
  /\ mode' = "abort"
  /\ undo' = OpId
  /\ idx' = LastIdx(cur)
  /\ failed' = FALSE
  /\ UNCHANGED <<disk, cur, todo, outcome, touched, bounds>>

CheckPage ==
  /\ pc = "check" /\ idx <= LastIdx(cur)
  /\ vault[Order[cur][idx]] = backup[OpId][Order[cur][idx]]
  /\ Goto("write")
  /\ UNCHANGED <<disk, mode, cur, todo, undo, idx, failed, outcome, touched,
                 bounds>>

PageConflict ==
  /\ pc = "check" /\ idx <= LastIdx(cur)
  /\ vault[Order[cur][idx]] # backup[OpId][Order[cur][idx]]
  /\ Abort

WritePage ==
  /\ pc = "write"
  /\ vault' = [vault EXCEPT ![Order[cur][idx]] = New[cur][Order[cur][idx]]]
  /\ idx' = idx + 1
  /\ Goto("check")
  /\ UNCHANGED <<journal, bundleOf, backup, result, mode, cur, todo, undo,
                 failed, outcome, touched, bounds>>

WriteError ==
  /\ WritesFail
  /\ pc \in {"check", "write"}
  /\ Abort

Validate ==
  /\ pc = "check" /\ idx > LastIdx(cur)
  /\ Installed(cur)
  /\ Goto("commit")
  /\ UNCHANGED <<disk, mode, cur, todo, undo, idx, failed, outcome, touched,
                 bounds>>

ValidationDrift ==
  /\ pc = "check" /\ idx > LastIdx(cur)
  /\ ~Installed(cur)
  /\ Abort

\* Writing changed-paths.json is the commit point.
Commit ==
  /\ pc = "commit"
  /\ result' = [result EXCEPT ![OpId] = TRUE]
  /\ touched' = {}
  /\ Goto("finalize")
  /\ UNCHANGED <<vault, journal, bundleOf, backup, mode, cur, todo, undo, idx,
                 failed, outcome, bounds>>

Finalize ==
  /\ pc = "finalize"
  /\ SetJournal(OpId, "complete")
  /\ Finish("committed")
  /\ UNCHANGED <<vault, bundleOf, backup, result, touched, bounds>>

-----------------------------------------------------------------------------
(***************************************************************************)
(* The environment                                                         *)
(***************************************************************************)
\* The process dies, or a write of the runtime store itself raises outside the
\* blocks that roll back: what is on disk stays as it is.
Crash ==
  /\ pc # "idle"
  /\ crashes < MaxCrashes
  /\ crashes' = crashes + 1
  /\ Finish("crashed")
  /\ UNCHANGED <<disk, touched, losses>>

\* The engine has looked at a page and is about to write or to trust it.
Window == {"write", "rewrite", "unlink", "commit"}

Edit(p, c) ==
  /\ pc \in Window => EditInWindow
  /\ c # vault[p]
  /\ vault' = [vault EXCEPT ![p] = c]
  /\ touched' = IF \E i \in Ids : InFlight(i) /\ p \in PagesOf(bundleOf[i])
                THEN touched \cup {p} ELSE touched
  /\ UNCHANGED <<journal, bundleOf, backup, result, engine, outcome, bounds>>

\* Something outside removes the result or the journal of a settled operation.
LoseFile(i) ==
  /\ pc = "idle"
  /\ losses < MaxLosses
  /\ journal[i] = "complete" /\ result[i]
  /\ losses' = losses + 1
  /\ \/ result' = [result EXCEPT ![i] = FALSE] /\ UNCHANGED journal
     \/ SetJournal(i, "staged") /\ UNCHANGED result
  /\ UNCHANGED <<vault, bundleOf, backup, engine, outcome, touched, crashes>>

-----------------------------------------------------------------------------
Recovery ==
  \/ \E i \in Ids :
       \/ SkipSettled(i) \/ RemoveOrphan(i) \/ FinishCommit(i)
       \/ CommitDrifted(i) \/ RebuildResult(i) \/ ResultMissing(i)
       \/ StartRestore(i)
  \/ RecoveryDone

Restore ==
  \/ RestoreLook \/ RestoreUnlink \/ RestoreRewrite \/ RestoreError
  \/ RestoreFailed \/ RestoreDone

Apply ==
  \/ Stage \/ ClearJournal \/ ClearDirectory \/ RefuseDirectory
  \/ Prepare \/ PrepareFails \/ RecordPrepared \/ RecordApplying
  \/ CheckPage \/ PageConflict \/ WritePage \/ WriteError
  \/ Validate \/ ValidationDrift \/ Commit \/ Finalize

Engine == Recovery \/ Restore \/ Apply

Next ==
  \/ \E b \in Bundles : BeginApply(b) \/ BeginReplay(b) \/ RefuseReplay(b)
  \/ BeginRecover
  \/ Engine
  \/ Crash
  \/ \E p \in Editable, c \in Values : Edit(p, c)
  \/ \E i \in Ids : LoseFile(i)

Spec == Init /\ [][Next]_vars

\* A running engine runs on, and after an interruption somebody eventually
\* starts another operation or `transaction recover'.
FairSpec == Spec /\ WF_vars(Engine) /\ WF_vars(BeginRecover)

-----------------------------------------------------------------------------
(***************************************************************************)
(* Properties                                                              *)
(***************************************************************************)

\* At most one operation is durable but neither committed nor undone, across
\* crashes, failed rollbacks and retries: every apply first settles or is
\* stopped by what an earlier one left, so two rollbacks never fight.
OneInFlight == \A i, j \in Ids : InFlight(i) /\ InFlight(j) => i = j

\* Once changed-paths.json exists no rollback of that operation writes to the
\* vault, wherever the process crashed and whatever the user edited.
CommittedNeverUndone == pc \in Undoing => ~result[undo]

\* A step of the engine, as opposed to one of the user.
EngineMoves == pc' # pc

\* "A changed target is a conflict, never a silent overwrite" (README.md): the
\* engine only replaces a page when what it replaces is the original, its own
\* content, or nothing.
NeverSilentOverwrite ==
  [][\A p \in Paths : EngineMoves /\ vault'[p] # vault[p] =>
       \E i \in Ids : /\ InFlight(i)
                      /\ p \in PagesOf(bundleOf[i])
                      /\ vault[p] \in {backup[i][p], New[bundleOf[i]][p],
                                        Absent}]_vars

\* An operation that says it is a completed replay leaves every page as that
\* operation wrote it ("completed-operation drift must not report success",
\* tests/test_transaction.py).
ReplayTruthful ==
  [][outcome' = "replayed" /\ pc = "recover" => Installed(cur)]_vars

\* Later edits of what a completed operation wrote never stop an operation
\* about something else (test_completed_history_drift_does_not_block_unrelated
\* _new_operation, tests/test_transaction.py).
HistoryDriftNeverBlocks == outcome # "RESULT_DRIFT"

\* Whatever was interrupted is committed or undone by later calls, unless the
\* user changed one of its pages meanwhile.
InterruptedIsSettled ==
  \A i \in Ids : InFlight(i) ~> ~InFlight(i) \/ touched # {}

\* The promise of module AtomicVault: an operation in flight has changed none
\* of its untouched pages yet, and then changes all of them at once.
Flying == {i \in Ids : InFlight(i)}
FlyingBundle == IF Flying = {} THEN NoBundle
                ELSE bundleOf[CHOOSE i \in Flying : TRUE]
Promised(p) ==
  IF Flying # {} /\ p \in PagesOf(FlyingBundle) \ touched
  THEN Old[FlyingBundle][p] ELSE vault[p]

Atomic == INSTANCE AtomicVault
            WITH store <- [p \in Paths |-> Promised(p)],
                 inflight <- FlyingBundle

\* An apply with its crashes, rollbacks and recoveries implements the promise.
ImplementsAtomicVault == Atomic!Spec
-----------------------------------------------------------------------------
(***************************************************************************)
(* The inductive invariant behind OneInFlight, CommittedNeverUndone and    *)
(* NeverSilentOverwrite.                                                   *)
(***************************************************************************)
Staging  == {"clear", "prepare", "record"}
Opened   == {"open", "check", "write", "commit"}
ApplyPCs == {"stage", "finalize"} \cup Staging \cup Opened

\* What a journal or a result is about is known, and its id fits.
JournalInv ==
  \A i \in Ids :
    /\ journal[i] \in Journalled \/ result[i] =>
         bundleOf[i] \in Bundles /\ IdOf[bundleOf[i]] = i
    /\ result[i] => journal[i] \notin {"absent", "rolled-back"}

\* The operation being applied, and how far it has come.
ApplyInv ==
  /\ pc \in ApplyPCs => mode = "apply"
  /\ mode = "apply" => cur \in Bundles
  /\ pc \in Staging => journal[OpId] = "staged" /\ ~result[OpId]
  /\ pc \in Opened => InFlight(OpId) /\ bundleOf[OpId] = cur
  /\ pc = "finalize" => journal[OpId] \in Unsettled /\ result[OpId]
  /\ pc \in {"check", "write"} => idx \in 1..(LastIdx(cur) + 1)
  /\ pc = "write" => idx <= LastIdx(cur)

\* What is rolled back is in flight.
UndoInv ==
  pc \in Undoing =>
    /\ undo \in Ids /\ InFlight(undo)
    /\ idx \in 0..LastIdx(bundleOf[undo])
    /\ pc # "restore" => idx > 0

\* Who may be in flight: what recovery has not reached yet, and nothing once an
\* apply starts its own operation.
FlightInv ==
  /\ OneInFlight
  /\ pc = "recover" \/ (pc \in Undoing /\ mode # "abort") =>
       \A i \in Ids : InFlight(i) => i \in todo
  /\ pc \in {"stage", "finalize"} \cup Staging => \A i \in Ids : ~InFlight(i)

\* What the engine saw of a page still holds when it writes there, if the user
\* does not edit in between.
WindowInv ==
  EditInWindow \/
    /\ pc = "write" => vault[Order[cur][idx]] = backup[OpId][Order[cur][idx]]
    /\ pc = "rewrite" => vault[Page] \in {Original, Written, Absent}

IInv == TypeOK /\ JournalInv /\ ApplyInv /\ UndoInv /\ FlightInv /\ WindowInv

(***************************************************************************)
(* What IInv lacks for ImplementsAtomicVault: the backups are what the     *)
(* bundle expected, and the pages nobody touched are already as the end of *)
(* an apply or of a rollback will declare them.                            *)
(***************************************************************************)
SnapshotInv ==
  /\ pc = "record" => \A p \in PagesOf(cur) : backup[OpId][p] = Old[cur][p]
  /\ \A i \in Ids : InFlight(i) =>
       \A p \in PagesOf(bundleOf[i]) : backup[i][p] = Old[bundleOf[i]][p]
  /\ pc = "commit" => \A p \in PagesOf(cur) \ touched : vault[p] = New[cur][p]
  /\ pc = "unlink" => Original = Absent
  /\ pc \in Undoing /\ ~failed =>
       \A k \in DOMAIN Order[bundleOf[undo]] :
         LET p == Order[bundleOf[undo]][k]
         IN  k > idx /\ p \notin touched => vault[p] = backup[undo][p]
=============================================================================
