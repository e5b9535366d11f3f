------------------------- MODULE FilesystemCapture -------------------------
(***************************************************************************)
(* Content-addressed capture of local files: plan_filesystem_batch and     *)
(* capture_filesystem_batch of claude_obsidian/capture.py, and the command *)
(* capture apply of claude_obsidian/cli.py, which shows a plan, asks for   *)
(* its hash back, and plans once more.                                     *)
(*                                                                         *)
(* Files are hashed one after the other and without a lock, while the      *)
(* person saves and removes them and other commands capture.  Only the     *)
(* last step, apply_bundle, runs under the mutation lock; it creates all   *)
(* copies or none (Transaction) and is one step here.  A digest stands for *)
(* the content it is of.  Nobody but these commands writes captured copies.*)
(***************************************************************************)
EXTENDS Integers, FiniteSets, FiniteSetsExt

CONSTANTS
  InboxFiles, RawFiles,   \* in the visible inbox, and in the legacy raw store
  FileContents, SizeOf,
  RankOf,                 \* discover_files sorts the paths
  SuffixOf, SafeSuffixes,
  Capturers,              \* commands that run at one time
  MaxItems, MaxFileBytes, MaxTotalBytes,
  NoFile, NoItem,
  MaxFileSaves,           \* bound: what the person does to the files
  MaxCaptures             \* bound: commands

Files       == InboxFiles \cup RawFiles
Suffixes    == SafeSuffixes \cup {".bin"}
Copies      == FileContents \X Suffixes      \* .raw/captured/<digest><suffix>
Items       == [digest : FileContents, at : Copies \cup RawFiles, changed : BOOLEAN]
CopyWrites  == [source : InboxFiles, at : Copies, digest : FileContents]
Purposes    == {"show", "apply", "direct"}

ASSUME FilesystemCaptureAssumption ==
  /\ InboxFiles \cap RawFiles = {} /\ Files # {}
  /\ SizeOf \in [FileContents -> Nat \ {0}]
  /\ RankOf \in [Files -> Nat]
  /\ NoFile \notin FileContents /\ NoItem \notin Items
  /\ MaxFileBytes \in Nat /\ MaxTotalBytes \in Nat /\ MaxFileBytes <= MaxTotalBytes
  /\ MaxItems \in Nat \ {0}
  /\ MaxFileSaves \in Nat /\ MaxCaptures \in Nat

VARIABLES
  files,       \* the inbox and the raw store
  copies,      \* the captured copies
  capturing,   \* what a command does: its purpose, files to hash, and items
  shown,       \* the writes a command's dry run has shown, or none
  reported,    \* what a capturer's last command has reported as captured
  committed,   \* the writes that capture_filesystem_batch has committed, by command
  fileSaves, captures

captureVars == <<files, copies, capturing, shown, reported, committed,
                 fileSaves, captures>>

Plannings == [Files -> Items \cup {NoItem}]

FilesystemCaptureTypeOK ==
  /\ files \in [Files -> FileContents \cup {NoFile}]
  /\ copies \in [Copies -> FileContents \cup {NoFile}]
  /\ capturing \in [Capturers -> [for : Purposes \cup {"nothing"},
                                  todo : SUBSET Files, items : Plannings]]
  /\ shown \in [Capturers -> SUBSET CopyWrites]
  /\ reported \in [Capturers -> Plannings]
  /\ committed \subseteq SUBSET CopyWrites
  /\ fileSaves \in 0..MaxFileSaves
  /\ captures \in 0..MaxCaptures

NoItems   == [f \in Files |-> NoItem]
NoCapture == [for |-> "nothing", todo |-> {}, items |-> NoItems]

FilesystemCaptureInit ==
  /\ files \in [Files -> FileContents]
  /\ copies = [p \in Copies |-> NoFile]
  /\ capturing = [k \in Capturers |-> NoCapture]
  /\ shown = [k \in Capturers |-> {}]
  /\ reported = [k \in Capturers |-> NoItems]
  /\ committed = {}
  /\ fileSaves = 0
  /\ captures = 0

-----------------------------------------------------------------------------
Refuse(k) == capturing' = [capturing EXCEPT ![k] = NoCapture]

\* discover_files and _preflight_sources: the sizes are what they are now.
WithinBudget(fs) ==
  /\ Cardinality(fs) <= MaxItems
  /\ \A f \in fs : SizeOf[files[f]] <= MaxFileBytes
  /\ MapThenSumSet(LAMBDA f : SizeOf[files[f]], fs) <= MaxTotalBytes

\* A command for what is there, or for the files that it names.
StartCapture(k, purpose, fs) ==
  /\ capturing[k].for = "nothing" /\ captures < MaxCaptures
  /\ \A f \in fs : files[f] # NoFile
  /\ WithinBudget(fs)
  /\ purpose = "apply" => shown[k] # {}
  /\ capturing' = [capturing EXCEPT ![k] =
                     [for |-> purpose, todo |-> fs, items |-> NoItems]]
  /\ reported' = [reported EXCEPT ![k] = NoItems]
  /\ captures' = captures + 1
  /\ UNCHANGED <<files, copies, shown, committed, fileSaves>>

StoredSuffix(f) == IF SuffixOf[f] \in SafeSuffixes THEN SuffixOf[f] ELSE ".bin"

\* _find_existing_capture: a copy of the digest under any suffix.
CopiesOf(d) == {p \in Copies : p[1] = d /\ copies[p] # NoFile}

\* planned_captures: an earlier file of the batch with this content.
PlannedIn(items, d) == {f \in Files : /\ items[f] # NoItem
                                      /\ items[f].changed /\ items[f].digest = d}

\* plan_filesystem_batch, one file: source_identity, then where it goes.
PlanFile(k, f) ==
  /\ f \in capturing[k].todo
  /\ \A g \in capturing[k].todo : RankOf[f] <= RankOf[g]
  /\ IF files[f] = NoFile \/ SizeOf[files[f]] > MaxFileBytes
     THEN Refuse(k)
     ELSE LET d     == files[f]
              items == capturing[k].items
              Plan(where, changed) ==
                capturing' = [capturing EXCEPT
                  ![k].todo = @ \ {f},
                  ![k].items[f] = [digest |-> d, at |-> where, changed |-> changed]]
          IN  \/ f \in RawFiles /\ Plan(f, FALSE)
              \/ /\ f \in InboxFiles
                 /\ \E p \in CopiesOf(d) : Plan(p, FALSE)
              \/ /\ f \in InboxFiles /\ CopiesOf(d) = {}
                 /\ \E g \in PlannedIn(items, d) : Plan(items[g].at, FALSE)
              \/ /\ f \in InboxFiles /\ CopiesOf(d) = {} /\ PlannedIn(items, d) = {}
                 /\ Plan(<<d, StoredSuffix(f)>>, TRUE)
  /\ UNCHANGED <<files, copies, shown, reported, committed, fileSaves, captures>>

\* source_identity: the file changes under the hash, and the command gives up.
SourceChanges(k) ==
  /\ capturing[k].todo # {}
  /\ Refuse(k)
  /\ UNCHANGED <<files, copies, shown, reported, committed, fileSaves, captures>>

WritesIn(items) ==
  {[source |-> f, at |-> items[f].at, digest |-> items[f].digest] :
     f \in {g \in Files : items[g] # NoItem /\ items[g].changed}}

Planned(k, purposes) == capturing[k].for \in purposes /\ capturing[k].todo = {}

Show(k) ==
  /\ Planned(k, {"show"})
  /\ shown' = [shown EXCEPT ![k] = WritesIn(capturing[k].items)]
  /\ Refuse(k)
  /\ UNCHANGED <<files, copies, reported, committed, fileSaves, captures>>

\* Wrong variant: the source is not hashed again.
AllAbsent(writes) == \A w \in writes : copies[w.at] = NoFile
\* _prepare_writes: every copy is absent, and every file still what was hashed.
AsPlanned(writes) ==
  /\ \A w \in writes : copies[w.at] = NoFile
  /\ \A w \in writes : files[w.source] = w.digest

\* capture_filesystem_batch names its operation by its writes: the same writes once
\* more are that operation's replay, whatever the files hold by now.  (capture apply
\* is refused by its own inspect, which finds the copies.)
Replays(k, writes) ==
  /\ capturing[k].for = "direct" /\ writes \in committed
  /\ \A w \in writes : files[w.source] # NoFile /\ copies[w.at] = w.digest

\* capture apply with the shown hash, and capture_filesystem_batch without any.
Capture(k) ==
  /\ Planned(k, {"apply", "direct"})
  /\ LET items  == capturing[k].items
         writes == WritesIn(items)
         agreed == writes # {} /\ capturing[k].for = "apply" => shown[k] = writes
     IN  \/ /\ Replays(k, writes)
            /\ reported' = [reported EXCEPT ![k] = items]
            /\ UNCHANGED <<copies, committed>>
         \/ /\ ~Replays(k, writes) /\ agreed /\ AsPlanned(writes)
            /\ copies' = [p \in Copies |->
                  IF \E w \in writes : w.at = p
                  THEN files[(CHOOSE w \in writes : w.at = p).source] ELSE copies[p]]
            /\ reported' = [reported EXCEPT ![k] = items]
            /\ committed' = IF capturing[k].for = "direct" /\ writes # {}
                            THEN committed \cup {writes} ELSE committed
         \/ /\ ~Replays(k, writes) /\ ~(agreed /\ AsPlanned(writes))
            /\ UNCHANGED <<copies, reported, committed>>
  /\ Refuse(k)
  /\ UNCHANGED <<files, shown, fileSaves, captures>>

SaveFile(f) ==
  /\ fileSaves < MaxFileSaves
  /\ \E c \in FileContents \cup {NoFile} :
       c # files[f] /\ files' = [files EXCEPT ![f] = c]
  /\ fileSaves' = fileSaves + 1
  /\ UNCHANGED <<copies, capturing, shown, reported, committed, captures>>

FilesystemCaptureNext ==
  \/ \E k \in Capturers :
       \/ \E purpose \in Purposes :
            \/ StartCapture(k, purpose, {f \in Files : files[f] # NoFile})
            \/ \E f \in Files : StartCapture(k, purpose, {f})
       \/ \E f \in Files : PlanFile(k, f)
       \/ SourceChanges(k) \/ Show(k) \/ Capture(k)
  \/ \E f \in Files : SaveFile(f)

FilesystemCaptureSpec ==
  FilesystemCaptureInit /\ [][FilesystemCaptureNext]_captureVars

-----------------------------------------------------------------------------
\* Every inbox file that a command reports as captured, or as captured before, is
\* in the store with the content that was hashed, also when the person saves the
\* file, or another command captures it, between the hash and the write; and a
\* batch claims one copy at most for a content, whatever the suffixes of its files.
ReportedIsStoredOnce ==
  \A k \in Capturers, f \in InboxFiles :
    LET item == reported[k][f]
    IN item # NoItem =>
         /\ copies[item.at] = item.digest
         /\ \A g \in InboxFiles \ {f} :
              item.changed /\ reported[k][g] # NoItem /\ reported[k][g].changed
              => reported[k][g].digest # item.digest

-----------------------------------------------------------------------------
(***************************************************************************)
(* The inductive invariant behind it.                                      *)
(***************************************************************************)
\* A stored copy is of the content that its name says.
StoreInv == \A p \in Copies : copies[p] \in {p[1], NoFile}

\* Where a planned item of the inbox is: a new copy under its name, one that is
\* there, or the new copy of an earlier file; and no content has two new copies.
Placed(store, items, f) ==
  LET item == items[f]
  IN /\ item.changed => /\ f \in InboxFiles
                        /\ item.at = <<item.digest, StoredSuffix(f)>>
                        /\ \A g \in PlannedIn(items, item.digest) : g = f
     /\ ~item.changed /\ f \in InboxFiles =>
          \/ item.at \in Copies /\ store[item.at] = item.digest
          \/ \E g \in PlannedIn(items, item.digest) : items[g].at = item.at

ItemsInv ==
  \A k \in Capturers :
    LET items == capturing[k].items
    IN /\ \A f \in capturing[k].todo : items[f] = NoItem
       /\ \A f \in Files : items[f] # NoItem => Placed(copies, items, f)

\* A reported item is in the store, and no content has two new copies.
InStore(store, items, f) ==
  LET item == items[f]
  IN /\ item.at \in Copies /\ store[item.at] = item.digest
     /\ item.changed => \A g \in PlannedIn(items, item.digest) : g = f

ReportInv ==
  \A k \in Capturers, f \in InboxFiles :
    reported[k][f] # NoItem => InStore(copies, reported[k], f)

FilesystemCaptureInv == FilesystemCaptureTypeOK /\ StoreInv /\ ItemsInv /\ ReportInv
=============================================================================
