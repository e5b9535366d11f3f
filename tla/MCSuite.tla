------------------------------ MODULE MCSuite ------------------------------
(***************************************************************************)
(* Eight components that share no state, checked side by side: part says   *)
(* which of them a behaviour exercises, and the others stay as they are.   *)
(***************************************************************************)
EXTENDS LegacyLock, Planning, Ledgers, Retrieval, FilesystemCapture, Release,
        VaultSelection, StopStatus

CONSTANTS b1, b2, p1, p2, t1, t2
VARIABLE part

\* Planning: both bundles write both pages; the first one asks about p1 only, and
\* may carry its address in p2 too, as may the person.
MCWritesOf   == [b \in {b1, b2} |-> {p1, p2}]
MCRequestsOf == [b \in {b1, b2} |->
                   IF b = b1 THEN <<<<p1, "c">>>> ELSE <<<<p2, "c">>, <<p1, "c">>>>]
MCAddressLines == [w \in {b1, b2, Person} |->
                     IF w = b2 THEN {}
                     ELSE {[n \in {p1, p2} |-> IF n = p2 THEN <<"c", 1>> ELSE NoAddress]}]

\* LegacyLock: two spellings of one page.
MCKeyOf == [p \in {"page", "Page"} |-> "page"]

\* Ledgers: two sources of one origin, and one with the bytes of another.
MCSources  == {<<"u", "x">>, <<"u", "y">>, <<"f", "y">>}
MCPublishersOf == [s \in MCSources |->
                     CASE s = <<"u", "x">> -> {"k"}
                       [] s = <<"u", "y">> -> {"none"}
                       [] s = <<"f", "y">> -> {"k", "none"}]
MCEvidence == {<<<<"u", "x">>>>, <<<<"u", "x">>, <<"f", "y">>>>,
               <<<<"u", "x">>, <<"f", "y">>, <<"u", "y">>>>}

\* Retrieval: a content with an address line and one without.
MCAddressIn == <<"none", "a">>
MCPathRank  == [d \in {"p", "q", "a"} |->
                 IF d = "a" THEN 0 ELSE IF d = "p" THEN 1 ELSE 2]
MCChunksIn  == <<<<t1>>, <<t1, t2>>>>

\* FilesystemCapture: one file of a suffix that is not kept.
MCSizeOf   == <<1, 2>>
MCRankOf   == [f \in {"f", "g", "r"} |->
                 IF f = "r" THEN 0 ELSE IF f = "f" THEN 1 ELSE 2]
MCSuffixOf == [f \in {"f", "g", "r"} |-> IF f = "g" THEN ".exe" ELSE ".txt"]

\* Release: one overlay.
MCOverlayOf == [d \in {"o"} |-> "g"]

\* VaultSelection: a project, a vault beside it, and the product.
MCDirectories == {"top", "work", "other", "product", "template"}
MCParentOf == [d \in MCDirectories |-> IF d = "template" THEN "product" ELSE "top"]
MCLayouts  == {[d \in MCDirectories |->
                  IF d \in {"work", "top"} THEN "plain" ELSE "initialized"],
               [d \in MCDirectories |->
                  IF d = "other" THEN "adoptable" ELSE "initialized"]}

Parts == {"locks", "planning", "ledgers", "retrieval", "capture", "release",
          "selection", "status"}
suiteVars == <<part, lockVars, planVars, ledgerVars, retrievalVars, captureVars,
               releaseVars, selectionVars, statusVars>>

\* A component that is not exercised is in one of its initial states.
SuiteInit ==
  /\ part \in Parts
  /\ part = "locks" \/ tool = "py"
  /\ LegacyLockInit
  /\ PlanningInit
  /\ LedgersInit
  \* the page with an address line may lose it
  /\ wiki = [p \in WikiPages |-> IF p = "p" THEN 2 ELSE 1]
  /\ RetrievalInit
  \* two files with one content, or with two
  /\ \E c \in FileContents :
       /\ part = "capture" \/ c = 1
       /\ files = [f \in Files |-> IF f = "g" THEN c ELSE 1]
  /\ FilesystemCaptureInit
  /\ worktree = [f \in Tracked |-> 1]
  /\ part = "release" \/ history = {worktree}
  /\ ReleaseInit
  /\ part = "release" \/ output.archive = NoArchive
  /\ IF part = "selection" THEN TRUE
     ELSE /\ kind = CHOOSE k \in Layouts : TRUE
          /\ config = [d \in Directories |-> Nowhere]
          /\ environment = Nowhere /\ exact = Nowhere
          /\ session = [at |-> "select", project |-> "work", root |-> Nowhere,
                        source |-> "cwd-discovery"]
  /\ VaultSelectionInit
  /\ StopStatusInit

\* The others do not move.
Only(p) ==
  /\ UNCHANGED part
  /\ IF p = "locks" THEN TRUE ELSE UNCHANGED lockVars
  /\ IF p = "planning" THEN TRUE ELSE UNCHANGED planVars
  /\ IF p = "ledgers" THEN TRUE ELSE UNCHANGED ledgerVars
  /\ IF p = "retrieval" THEN TRUE ELSE UNCHANGED retrievalVars
  /\ IF p = "capture" THEN TRUE ELSE UNCHANGED captureVars
  /\ IF p = "release" THEN TRUE ELSE UNCHANGED releaseVars
  /\ IF p = "selection" THEN TRUE ELSE UNCHANGED selectionVars
  /\ IF p = "status" THEN TRUE ELSE UNCHANGED statusVars

\* Every action by itself, so that a run tells which were taken.
\* A page lock is worth nothing once it is removed by another worker; what
\* happens after that is not followed.
LockSteps ==
  \/ part = "locks" /\ ~foreign /\ (\E w \in LockWorkers, p \in LockPaths, op \in {"acquire", "release", "clear-stale"} : Call(w, op, p)) /\ Only("locks")
  \/ part = "locks" /\ ~foreign /\ (\E w \in LockWorkers : Enter(w)) /\ Only("locks")
  \/ part = "locks" /\ ~foreign /\ (\E w \in LockWorkers : EnterTimeout(w)) /\ Only("locks")
  \/ part = "locks" /\ ~foreign /\ (\E w \in LockWorkers : Look(w)) /\ Only("locks")
  \/ part = "locks" /\ ~foreign /\ (\E w \in LockWorkers : Create(w)) /\ Only("locks")
  \/ part = "locks" /\ ~foreign /\ (\E w \in LockWorkers : Fill(w)) /\ Only("locks")
  \/ part = "locks" /\ ~foreign /\ (\E w \in LockWorkers : Unlink(w)) /\ Only("locks")
  \/ part = "locks" /\ ~foreign /\ (\E w \in LockWorkers : Sweep(w)) /\ Only("locks")
  \/ part = "locks" /\ ~foreign /\ (\E w \in LockWorkers : Kill(w)) /\ Only("locks")
  \/ part = "locks" /\ ~foreign /\ SecondPasses /\ Only("locks")

\* Two calls side by side are followed through one save, a call alone through all.
Followed == /\ saves' <= 1 \/ \E k \in Callers : at'[k] = "idle"
            /\ Only("planning")
PlanningSteps ==
  \/ part = "planning" /\ (\E b \in Bundles : \E l \in OfferedLines(b) : Draft(b, l)) /\ Followed
  \/ part = "planning" /\ (\E b \in Bundles : Inspected(b)) /\ Followed
  \/ part = "planning" /\ (\E b \in Bundles : Apply(b)) /\ Followed
  \/ part = "planning" /\ (\E b \in Bundles : \E l \in OfferedLines(b) : RewriteText(b, l)) /\ Followed
  \/ part = "planning" /\ (\E k \in Callers, b \in Bundles : Begin(k, b)) /\ Followed
  \/ part = "planning" /\ (\E k \in Callers : ReadCounter(k)) /\ Followed
  \/ part = "planning" /\ (\E k \in Callers : Allocate(k)) /\ Followed
  \/ part = "planning" /\ (\E k \in Callers : Pin(k)) /\ Followed
  \/ part = "planning" /\ (\E n \in Notes : \E l \in OfferedLines(Person) : SavePage(n, l[n]))
                        /\ Followed
  \/ part = "planning" /\ (\E n \in Notes : DeletePage(n)) /\ Followed
  \/ part = "planning" /\ (\E m, n \in Notes : SaveMap(m, n)) /\ Followed
  \/ part = "planning" /\ (\E c \in Counters : SaveCounter(c)) /\ Followed
  \/ part = "planning" /\ ReplaceVault /\ Followed

LedgerSteps ==
  \/ part = "ledgers" /\ (\E s \in Sources, r \in Records : RecordSource(s, r)) /\ Only("ledgers")
  \/ part = "ledgers" /\ (\E c \in Claims : RecordClaim(c)) /\ Only("ledgers")
  \/ part = "ledgers" /\ Migrate /\ Only("ledgers")
  \/ part = "ledgers" /\ DayPasses /\ Only("ledgers")
  \/ part = "ledgers" /\ (\E o \in FileOrigins, b \in {Bytes(s) : s \in Sources} \cup {NoBytes} : EditSource(o, b)) /\ Only("ledgers")
  \/ part = "ledgers" /\ LoseSources /\ Only("ledgers")

RetrievalSteps ==
  \/ part = "retrieval" /\ ChunkAll /\ Only("retrieval")
  \/ part = "retrieval" /\ (\E p \in WikiPages : ChunkOne(p)) /\ Only("retrieval")
  \/ part = "retrieval" /\ (\E p \in WikiPages : ReadPage(p)) /\ Only("retrieval")
  \/ part = "retrieval" /\ (\E p \in WikiPages : EditPage(p)) /\ Only("retrieval")
  \/ part = "retrieval" /\ InvalidateIndex /\ Only("retrieval")
  \/ part = "retrieval" /\ WriteChunk /\ Only("retrieval")
  \/ part = "retrieval" /\ RemoveChunk /\ Only("retrieval")
  \/ part = "retrieval" /\ FinishChunking /\ Only("retrieval")
  \/ part = "retrieval" /\ StartBuild /\ Only("retrieval")
  \/ part = "retrieval" /\ (\E k \in ChunkKeys : ScanChunk(k)) /\ Only("retrieval")
  \/ part = "retrieval" /\ (\E k \in ChunkKeys : ReadHit(k)) /\ Only("retrieval")
  \/ part = "retrieval" /\ PublishIndex /\ Only("retrieval")
  \/ part = "retrieval" /\ JobDies /\ Only("retrieval")
  \/ part = "retrieval" /\ Ask /\ Only("retrieval")
  \/ part = "retrieval" /\ JudgeHit /\ Only("retrieval")
  \/ part = "retrieval" /\ Answer /\ Only("retrieval")

CaptureSteps ==
  \/ part = "capture" /\ (\E k \in Capturers, purpose \in Purposes : StartCapture(k, purpose, {f \in Files : files[f] # NoFile})) /\ Only("capture")
  \/ part = "capture" /\ (\E k \in Capturers, purpose \in Purposes, f \in InboxFiles : StartCapture(k, purpose, {f})) /\ Only("capture")
  \/ part = "capture" /\ (\E k \in Capturers, f \in Files : PlanFile(k, f)) /\ Only("capture")
  \/ part = "capture" /\ (\E k \in Capturers : SourceChanges(k)) /\ Only("capture")
  \/ part = "capture" /\ (\E k \in Capturers : Show(k)) /\ Only("capture")
  \/ part = "capture" /\ (\E k \in Capturers : Capture(k)) /\ Only("capture")
  \/ part = "capture" /\ (\E f \in Files : SaveFile(f)) /\ Only("capture")

ReleaseSteps ==
  \/ part = "release" /\ StartRelease /\ Only("release")
  \/ part = "release" /\ AskStatus /\ Only("release")
  \/ part = "release" /\ AskHead /\ Only("release")
  \/ part = "release" /\ AskIndex /\ Only("release")
  \/ part = "release" /\ (\E f \in Tracked : Collect(f)) /\ Only("release")
  \/ part = "release" /\ (\E f \in Tracked : EditFile(f)) /\ Only("release")
  \/ part = "release" /\ PackAndAudit /\ Only("release")
  \/ part = "release" /\ Publish /\ Only("release")
  \/ part = "release" /\ BuildFails /\ Only("release")
  \/ part = "release" /\ LookAtArchive /\ Only("release")
  \/ part = "release" /\ OpenArchive /\ Only("release")
  \/ part = "release" /\ Judge /\ Only("release")
  \/ part = "release" /\ StageAll /\ Only("release")
  \/ part = "release" /\ CommitStaged /\ Only("release")
  \/ part = "release" /\ CheckOut /\ Only("release")
  \/ part = "release" /\ ResetHead /\ Only("release")
  \/ part = "release" /\ ArchiveByHand /\ Only("release")

SelectionSteps ==
  \/ part = "selection" /\ SelectVault /\ Only("selection")
  \/ part = "selection" /\ CheckConsent /\ Only("selection")
  \/ part = "selection" /\ ReadHotPage /\ Only("selection")
  \/ part = "selection" /\ (\E d \in ConfigPlaces : EditConfig(d)) /\ Only("selection")

StatusSteps ==
  \/ part = "status" /\ (\E o \in Operations : Lock(o)) /\ Only("status")
  \/ part = "status" /\ (\E o \in Operations : Advance(o)) /\ Only("status")
  \/ part = "status" /\ (\E o \in Operations : Unlock(o)) /\ Only("status")
  \/ part = "status" /\ (\E o \in Operations : TakeOver(o)) /\ Only("status")
  \/ part = "status" /\ (\E o \in Operations : Settle(o)) /\ Only("status")
  \/ part = "status" /\ (\E o \in Operations : ReadJournal(o)) /\ Only("status")
  \/ part = "status" /\ EngineDies /\ Only("status")
  \/ part = "status" /\ DropLock /\ Only("status")
  \/ part = "status" /\ StartHook /\ Only("status")
  \/ part = "status" /\ LookForLock /\ Only("status")
  \/ part = "status" /\ ListOperations /\ Only("status")
  \/ part = "status" /\ Tell /\ Only("status")
  \/ part = "status" /\ EndHook /\ Only("status")

SuiteNext ==
  \/ LockSteps \/ PlanningSteps \/ LedgerSteps \/ RetrievalSteps
  \/ CaptureSteps \/ ReleaseSteps \/ SelectionSteps \/ StatusSteps

\* Every component is in a state of its type.
SuiteTypeOK ==
  /\ LegacyLockTypeOK /\ PlanningTypeOK /\ LedgersTypeOK /\ RetrievalTypeOK
  /\ FilesystemCaptureTypeOK /\ ReleaseTypeOK
  /\ VaultSelectionTypeOK /\ StopStatusTypeOK

SuiteSpec == SuiteInit /\ [][SuiteNext]_suiteVars

=============================================================================
