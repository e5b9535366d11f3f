---------------------------- MODULE MCSuiteProofs ----------------------------
(***************************************************************************)
(* The suite checks eight components side by side.  Whatever it does is    *)
(* for each of them a behaviour of its own specification, so that what is  *)
(* proved of a component holds of the suite too.                           *)
(***************************************************************************)
EXTENDS MCSuite, PlanningProofs, RetrievalProofs, SuiteProofs

\* A step of the suite is one of the part that it exercises, and the rest stays.
LEMMA OnlyKeeps ==
  ASSUME NEW p, Only(p)
  PROVE  /\ p # "locks" => UNCHANGED lockVars
         /\ p # "planning" => UNCHANGED planVars
         /\ p # "ledgers" => UNCHANGED ledgerVars
         /\ p # "retrieval" => UNCHANGED retrievalVars
         /\ p # "capture" => UNCHANGED captureVars
         /\ p # "release" => UNCHANGED releaseVars
         /\ p # "selection" => UNCHANGED selectionVars
         /\ p # "status" => UNCHANGED statusVars
  BY DEF Only

LEMMA LockPart == LockSteps => LegacyLockNext /\ Only("locks")
  BY DEF LockSteps, LegacyLockNext

LEMMA PlanningPart == PlanningSteps => PlanningNext /\ Only("planning")
  BY DEF Followed, PlanningSteps, PlanningNext

LEMMA LedgerPart == LedgerSteps => LedgersNext /\ Only("ledgers")
  BY DEF LedgerSteps, LedgersNext

LEMMA RetrievalPart == RetrievalSteps => RetrievalNext /\ Only("retrieval")
  BY DEF RetrievalSteps, RetrievalNext

LEMMA CapturePart == CaptureSteps => FilesystemCaptureNext /\ Only("capture")
  BY DEF CaptureSteps, FilesystemCaptureNext, Files

LEMMA ReleasePart == ReleaseSteps => ReleaseNext /\ Only("release")
  BY DEF ReleaseSteps, ReleaseNext

LEMMA SelectionPart == SelectionSteps => VaultSelectionNext /\ Only("selection")
  BY DEF SelectionSteps, VaultSelectionNext

LEMMA StatusPart == StatusSteps => StopStatusNext /\ Only("status")
  BY DEF StatusSteps, StopStatusNext

\* What the suite does at a time is a step of each component, or nothing.
LEMMA StepOfEach ==
  ASSUME [SuiteNext]_suiteVars
  PROVE  /\ [LegacyLockNext]_lockVars /\ [PlanningNext]_planVars
         /\ [LedgersNext]_ledgerVars /\ [RetrievalNext]_retrievalVars
         /\ [FilesystemCaptureNext]_captureVars /\ [ReleaseNext]_releaseVars
         /\ [VaultSelectionNext]_selectionVars /\ [StopStatusNext]_statusVars
<1>1. CASE LockSteps
  BY <1>1, LockPart, OnlyKeeps
<1>2. CASE PlanningSteps
  BY <1>2, PlanningPart, OnlyKeeps
<1>3. CASE LedgerSteps
  BY <1>3, LedgerPart, OnlyKeeps
<1>4. CASE RetrievalSteps
  BY <1>4, RetrievalPart, OnlyKeeps
<1>5. CASE CaptureSteps
  BY <1>5, CapturePart, OnlyKeeps
<1>6. CASE ReleaseSteps
  BY <1>6, ReleasePart, OnlyKeeps
<1>7. CASE SelectionSteps
  BY <1>7, SelectionPart, OnlyKeeps
<1>8. CASE StatusSteps
  BY <1>8, StatusPart, OnlyKeeps
<1>9. CASE UNCHANGED suiteVars
  BY <1>9 DEF suiteVars
<1> QED
  BY <1>1, <1>2, <1>3, <1>4, <1>5, <1>6, <1>7, <1>8, <1>9 DEF SuiteNext

\* A behaviour of the suite is one of every component: no component is given a
\* step by the suite that its own specification does not have.
THEOREM SuiteIsOfItsParts ==
  SuiteSpec => /\ LegacyLockSpec /\ PlanningSpec /\ LedgersSpec /\ RetrievalSpec
               /\ FilesystemCaptureSpec /\ ReleaseSpec /\ VaultSelectionSpec
               /\ StopStatusSpec
<1>1. SuiteInit => /\ LegacyLockInit /\ PlanningInit /\ LedgersInit /\ RetrievalInit
                   /\ FilesystemCaptureInit /\ ReleaseInit /\ VaultSelectionInit
                   /\ StopStatusInit
  BY DEF SuiteInit
<1> QED
  BY <1>1, StepOfEach, PTL DEF SuiteSpec, LegacyLockSpec, PlanningSpec, LedgersSpec,
     RetrievalSpec, FilesystemCaptureSpec, ReleaseSpec, VaultSelectionSpec, StopStatusSpec

\* Every part of the suite is in a state of its type.
THEOREM SuiteTypeCorrect == SuiteSpec => []SuiteTypeOK
<1>1. StopStatusInv => StopStatusTypeOK
  BY DEF StopStatusInv
<1>2. VaultSelectionInv => VaultSelectionTypeOK
  BY DEF VaultSelectionInv
<1>3. FilesystemCaptureInv => FilesystemCaptureTypeOK
  BY DEF FilesystemCaptureInv
<1>4. ReleaseInv => ReleaseTypeOK
  BY DEF ReleaseInv
<1> QED
  BY <1>1, <1>2, <1>3, <1>4, SuiteIsOfItsParts, LegacyLockTypeCorrect,
     PlanningTypeCorrect, LedgersTypeCorrect, RetrievalTypeCorrect,
     FilesystemCaptureInductive, ReleaseInductive, VaultSelectionInductive,
     StopStatusInductive, PTL DEF SuiteTypeOK

=============================================================================
