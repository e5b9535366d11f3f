-------------------------- MODULE TransactionProofs --------------------------
(***************************************************************************)
(* For every set of operations, bundles, pages and contents, every number  *)
(* of crashes and lost files: at most one operation is in flight, what has *)
(* committed is never undone, and, if the user does not edit between a     *)
(* look and the write that trusts it, no step of the engine replaces a     *)
(* content it does not know, and the engine implements AtomicVault.        *)
(***************************************************************************)
EXTENDS Transaction, TLAPS

\* The program points and journal states by name, instead of the unions that
\* group them.
LEMMA ProgramPoints ==
  \A where \in {"idle", "recover", "stage", "clear", "prepare", "record",
                "open", "restore", "unlink", "rewrite", "check", "write",
                "commit", "finalize"} : where \in PCs
  BY DEF PCs, Undoing, Applying

\* What the assumption says of the constants that are not bundles.
LEMMA ConstantFacts ==
  /\ MaxCrashes \in Nat /\ MaxLosses \in Nat
  /\ Start \in [Paths -> Values] /\ Editable \subseteq Paths
  /\ Absent \in Values
  BY BundleAssumption DEF Values

\* A bundle writes at least one page, and pages only.
LEMMA OrderFacts ==
  ASSUME NEW b \in Bundles
  PROVE  /\ LastIdx(b) \in Nat /\ LastIdx(b) > 0
         /\ \A i \in 1..LastIdx(b) : Order[b][i] \in Paths
                                     /\ Order[b][i] \in PagesOf(b)
         /\ PagesOf(b) \subseteq Paths
         /\ IdOf[b] \in Ids
         /\ New[b] \in [Paths -> Values]
<1>1. Order[b] \in Seq(Paths) /\ Order[b] # << >>
  BY BundleAssumption
<1>2. LastIdx(b) \in Nat /\ LastIdx(b) > 0 /\ DOMAIN Order[b] = 1..LastIdx(b)
  BY <1>1 DEF LastIdx
<1>3. \A i \in 1..LastIdx(b) : Order[b][i] \in Paths
  BY <1>1, <1>2 DEF LastIdx
<1>4. /\ PagesOf(b) \subseteq Paths
      /\ \A i \in 1..LastIdx(b) : Order[b][i] \in PagesOf(b)
  BY <1>2, <1>3 DEF PagesOf
<1>5. IdOf[b] \in Ids /\ New[b] \in [Paths -> Values]
  <2>1. IdOf \in [Bundles -> Ids] /\ New \in [Bundles -> [Paths -> Contents]]
    BY BundleAssumption
  <2> QED
    BY <2>1 DEF Values
<1> QED
  BY <1>2, <1>3, <1>4, <1>5

\* The parts of the invariant, to be cited one by one.
LEMMA Parts ==
  IInv => TypeOK /\ JournalInv /\ ApplyInv /\ UndoInv /\ FlightInv /\ WindowInv
  BY DEF IInv

\* The invariant holds initially.
LEMMA InitInv == Init => IInv
<1> SUFFICES ASSUME Init PROVE IInv
  OBVIOUS
<1>1. TypeOK
  <2>1. /\ vault \in [Paths -> Values]
        /\ journal \in [Ids -> JournalStates]
        /\ bundleOf \in [Ids -> Bundles \cup {NoBundle}]
        /\ result \in [Ids -> BOOLEAN]
    BY ConstantFacts DEF Init, JournalStates
  <2>2. backup \in [Ids -> [Paths -> Values]]
    BY ConstantFacts DEF Init
  <2>3. pc \in PCs /\ mode \in Modes /\ outcome \in Outcomes
    BY ProgramPoints DEF Init, Modes, Outcomes
  <2>4. crashes \in 0..MaxCrashes /\ losses \in 0..MaxLosses
    BY ConstantFacts DEF Init
  <2> QED
    BY <2>1, <2>2, <2>3, <2>4 DEF Init, TypeOK
<1>2. JournalInv /\ ApplyInv /\ UndoInv /\ WindowInv
  BY <1>1 DEF Init, JournalInv, ApplyInv, UndoInv, WindowInv, ApplyPCs, Staging,
     Opened, Undoing, Journalled
<1>3. FlightInv
  BY <1>1 DEF Init, FlightInv, OneInFlight, InFlight, Unsettled, Staging, Undoing
<1> QED
  BY <1>1, <1>2, <1>3 DEF IInv

-----------------------------------------------------------------------------
\* While a bundle is applied, it and its pages are what their names say.
LEMMA CurFacts ==
  ASSUME IInv, pc \in ApplyPCs
  PROVE  cur \in Bundles /\ OpId \in Ids /\ LastIdx(cur) \in Nat /\ LastIdx(cur) > 0
  BY OrderFacts, Parts DEF ApplyInv, OpId

\* While an operation is rolled back, so are they.
LEMMA UndoFacts ==
  ASSUME IInv, pc \in Undoing
  PROVE  /\ undo \in Ids /\ bundleOf[undo] \in Bundles /\ idx \in Nat
         /\ idx <= LastIdx(bundleOf[undo])
         /\ idx > 0 => /\ Page \in Paths /\ Page \in PagesOf(bundleOf[undo])
                       /\ Original \in Values /\ Written \in Values
<1> USE Parts
<1>1. undo \in Ids /\ InFlight(undo) /\ idx \in 0..LastIdx(bundleOf[undo])
  BY DEF UndoInv
<1>2. bundleOf[undo] \in Bundles
  BY <1>1 DEF JournalInv, InFlight, Unsettled, Journalled, JournalStates
<1>3. idx \in Nat /\ idx <= LastIdx(bundleOf[undo])
  BY <1>1, <1>2, OrderFacts
<1>4. idx > 0 => Page \in Paths /\ Page \in PagesOf(bundleOf[undo])
  BY <1>2, <1>3, OrderFacts DEF Page
<1>5. idx > 0 => Original \in Values /\ Written \in Values
  BY <1>1, <1>2, <1>4, OrderFacts DEF Original, Written, TypeOK
<1> QED
  BY <1>1, <1>2, <1>3, <1>4, <1>5

\* The end of a call has the right types.
LEMMA FinishType ==
  ASSUME NEW how \in Outcomes, Finish(how)
  PROVE  /\ pc' \in PCs /\ mode' \in Modes /\ cur' \in Bundles \cup {NoBundle}
         /\ undo' \in Ids \cup {NoId} /\ todo' \subseteq Ids /\ idx' \in Nat
         /\ failed' \in BOOLEAN /\ outcome' \in Outcomes
  BY ProgramPoints DEF Finish, Modes

\* Going on to the next page of a rollback keeps the types.
LEMMA NextPageType ==
  ASSUME IInv, pc \in Undoing, idx > 0, NEW bad \in BOOLEAN, NextPage(bad)
  PROVE  idx' \in Nat /\ failed' \in BOOLEAN /\ pc' \in PCs
<1>1. idx' \in Nat
  BY UndoFacts DEF NextPage
<1>2. failed' \in BOOLEAN
  BY Parts DEF NextPage, TypeOK
<1> QED
  BY <1>1, <1>2, ProgramPoints DEF NextPage, Goto

\* Every step keeps the types.
LEMMA TypeStep ==
  ASSUME IInv, [Next]_vars
  PROVE  TypeOK'
<1> USE Parts, ProgramPoints
<1> USE DEF TypeOK, disk, bounds, Goto, SetJournal
<1>1. ASSUME NEW b \in Bundles, BeginApply(b) PROVE TypeOK'
  BY <1>1 DEF BeginApply, StartRecovery, Modes
<1>2. ASSUME NEW b \in Bundles, BeginReplay(b) PROVE TypeOK'
  BY <1>2 DEF BeginReplay, StartRecovery, Modes
<1>3. ASSUME NEW b \in Bundles, RefuseReplay(b) PROVE TypeOK'
  <2>1. CASE Finish("OPERATION_ID_REUSED")
    BY <1>3, <2>1, FinishType DEF RefuseReplay, Outcomes
  <2>2. CASE Finish("OPERATION_RESULT_DRIFT")
    BY <1>3, <2>2, FinishType DEF RefuseReplay, Outcomes
  <2> QED
    BY <1>3, <2>1, <2>2 DEF RefuseReplay
<1>4. CASE BeginRecover
  BY <1>4 DEF BeginRecover, StartRecovery, Modes
<1>5. ASSUME NEW i \in Ids, SkipSettled(i) PROVE TypeOK'
  BY <1>5 DEF SkipSettled, Settle
<1>6. ASSUME NEW i \in Ids, RemoveOrphan(i) PROVE TypeOK'
  BY <1>6 DEF RemoveOrphan, Settle, JournalStates
<1>7. ASSUME NEW i \in Ids, FinishCommit(i) PROVE TypeOK'
  BY <1>7 DEF FinishCommit, Settle, JournalStates
<1>8. ASSUME NEW i \in Ids, CommitDrifted(i) \/ ResultMissing(i) PROVE TypeOK'
  BY <1>8, FinishType DEF CommitDrifted, ResultMissing, Outcomes
<1>9. ASSUME NEW i \in Ids, RebuildResult(i) PROVE TypeOK'
  BY <1>9 DEF RebuildResult, Settle
<1>10. ASSUME NEW i \in Ids, StartRestore(i) PROVE TypeOK'
  <2>1. bundleOf[i] \in Bundles
    BY <1>10 DEF StartRestore, JournalInv, InFlight, Unsettled, Journalled,
       JournalStates
  <2> QED
    BY <1>10, <2>1, OrderFacts DEF StartRestore
<1>11. CASE RecoveryDone
  BY <1>11, FinishType DEF RecoveryDone, Outcomes
<1>12. CASE RestoreLook
  <2>1. idx' \in Nat /\ failed' \in BOOLEAN /\ pc' \in PCs
    <3>1. CASE NextPage(TRUE)
      BY <1>12, <3>1, NextPageType DEF RestoreLook, Undoing
    <3>2. CASE NextPage(FALSE)
      BY <1>12, <3>2, NextPageType DEF RestoreLook, Undoing
    <3>3. CASE pc' \in {"unlink", "rewrite"} /\ UNCHANGED <<idx, failed>>
      BY <3>3
    <3> QED
      BY <1>12, <3>1, <3>2, <3>3 DEF RestoreLook
  <2> QED
    BY <1>12, <2>1 DEF RestoreLook
<1>13. CASE RestoreUnlink
  <2>1. idx > 0 /\ pc \in Undoing
    BY <1>13 DEF RestoreUnlink, UndoInv, Undoing
  <2>2. CASE vault[Page] = Written
    BY <1>13, <2>1, <2>2, NextPageType, ConstantFacts DEF RestoreUnlink
  <2>3. CASE vault[Page] # Written
    BY <1>13, <2>1, <2>3, NextPageType DEF RestoreUnlink
  <2> QED
    BY <2>2, <2>3
<1>14. CASE RestoreRewrite
  BY <1>14, UndoFacts DEF RestoreRewrite, NextPage, Undoing, UndoInv
<1>15. CASE RestoreError
  <2>1. crashes' \in 0..MaxCrashes
    BY <1>15, ConstantFacts DEF RestoreError
  <2> QED
    BY <1>15, <2>1, UndoFacts DEF RestoreError, NextPage, Undoing, UndoInv
<1>16. CASE RestoreFailed
  BY <1>16, FinishType DEF RestoreFailed, JournalStates, Outcomes
<1>17. CASE RestoreDone
  BY <1>17, FinishType DEF RestoreDone, JournalStates, Outcomes
<1>18. CASE Stage \/ ClearJournal \/ ClearDirectory
  BY <1>18 DEF Stage, ClearJournal, ClearDirectory, JournalStates
<1>19. CASE RefuseDirectory
  BY <1>19, FinishType DEF RefuseDirectory, Outcomes
<1>20. CASE Prepare
  <2>1. [p \in Paths |-> IF p \in PagesOf(cur) THEN vault[p] ELSE Absent]
          \in [Paths -> Values]
    BY DEF Values
  <2> QED
    BY <1>20, <2>1 DEF Prepare
<1>21. CASE PrepareFails
  BY <1>21, FinishType DEF PrepareFails, JournalStates, Outcomes
<1>22. CASE RecordPrepared
  BY <1>22, CurFacts, OrderFacts DEF RecordPrepared, JournalStates, ApplyPCs,
     Staging
<1>23. CASE RecordApplying
  BY <1>23 DEF RecordApplying, JournalStates
<1>24. ASSUME Abort, pc \in {"check", "write"} PROVE TypeOK'
  BY <1>24, CurFacts DEF Abort, Modes, ApplyPCs, Opened
<1>25. CASE CheckPage \/ Validate
  BY <1>25 DEF CheckPage, Validate
<1>26. CASE PageConflict \/ WriteError \/ ValidationDrift
  BY <1>24, <1>26 DEF PageConflict, WriteError, ValidationDrift
<1>27. CASE WritePage
  <2>1. New[cur][Order[cur][idx]] \in Values
    BY <1>27, CurFacts, OrderFacts DEF WritePage, ApplyInv, ApplyPCs, Opened
  <2>2. vault' \in [Paths -> Values]
    BY <1>27, <2>1 DEF WritePage
  <2>3. idx' \in Nat
    BY <1>27 DEF WritePage
  <2> QED
    BY <1>27, <2>2, <2>3 DEF WritePage
<1>28. CASE Commit
  BY <1>28 DEF Commit
<1>29. CASE Finalize
  BY <1>29, FinishType DEF Finalize, JournalStates, Outcomes
<1>30. CASE Crash
  <2>1. crashes' \in 0..MaxCrashes
    BY <1>30, ConstantFacts DEF Crash
  <2> QED
    BY <1>30, <2>1, FinishType DEF Crash, Outcomes
<1>31. ASSUME NEW p \in Editable, NEW c \in Values, Edit(p, c) PROVE TypeOK'
  BY <1>31, ConstantFacts DEF Edit, engine
<1>32. ASSUME NEW i \in Ids, LoseFile(i) PROVE TypeOK'
  <2>1. losses' \in 0..MaxLosses
    BY <1>32, ConstantFacts DEF LoseFile
  <2> QED
    BY <1>32, <2>1 DEF LoseFile, engine, JournalStates
<1>33. CASE UNCHANGED vars
  BY <1>33 DEF vars, engine
<1> QED
  BY <1>1, <1>2, <1>3, <1>4, <1>5, <1>6, <1>7, <1>8, <1>9, <1>10, <1>11, <1>12,
     <1>13, <1>14, <1>15, <1>16, <1>17, <1>18, <1>19, <1>20, <1>21, <1>22,
     <1>23, <1>25, <1>26, <1>27, <1>28, <1>29, <1>30, <1>31, <1>32, <1>33
     DEF Next, Engine, Recovery, Restore, Apply

-----------------------------------------------------------------------------
(***************************************************************************)
(* Most steps leave journals and results alone.                            *)
(***************************************************************************)
Quiet == UNCHANGED <<journal, bundleOf, result>>

CallStep == \/ \E b \in Bundles : BeginApply(b) \/ BeginReplay(b) \/ RefuseReplay(b)
            \/ BeginRecover
LookStep == \/ \E i \in Ids : \/ SkipSettled(i) \/ CommitDrifted(i)
                              \/ ResultMissing(i) \/ StartRestore(i)
            \/ RecoveryDone
UndoStep == RestoreLook \/ RestoreUnlink \/ RestoreRewrite \/ RestoreError
PageStep == \/ RefuseDirectory \/ Prepare \/ CheckPage \/ PageConflict
            \/ WritePage \/ WriteError \/ Validate \/ ValidationDrift
UserStep == Crash \/ \E p \in Editable, c \in Values : Edit(p, c)

\* The steps that write a journal or a result.
RecordStep ==
  \/ \E i \in Ids : RemoveOrphan(i) \/ FinishCommit(i) \/ RebuildResult(i) \/ LoseFile(i)
  \/ RestoreFailed \/ RestoreDone
  \/ Stage \/ ClearJournal \/ ClearDirectory \/ PrepareFails
  \/ RecordPrepared \/ RecordApplying \/ Commit \/ Finalize

\* All other steps than RecordStep are quiet.
LEMMA QuietSteps ==
  CallStep \/ LookStep \/ UndoStep \/ PageStep \/ UserStep \/ UNCHANGED vars => Quiet
<1> USE DEF Quiet, disk
<1>1. CallStep => Quiet
  BY DEF CallStep, BeginApply, BeginReplay, RefuseReplay, BeginRecover, StartRecovery
<1>2. LookStep => Quiet
  BY DEF LookStep, SkipSettled, CommitDrifted, ResultMissing, StartRestore, RecoveryDone
<1>3. UndoStep => Quiet
  BY DEF UndoStep, RestoreLook, RestoreUnlink, RestoreRewrite, RestoreError
<1>4. PageStep => Quiet
  BY DEF PageStep, RefuseDirectory, Prepare, CheckPage, PageConflict, WritePage,
     WriteError, Validate, ValidationDrift, Abort
<1>5. UserStep => Quiet
  BY DEF UserStep, Crash, Edit
<1>6. UNCHANGED vars => Quiet
  BY DEF vars
<1> QED
  BY <1>1, <1>2, <1>3, <1>4, <1>5, <1>6

\* Every step is of one of these kinds.
LEMMA Kinds ==
  [Next]_vars => \/ CallStep \/ LookStep \/ UndoStep \/ PageStep \/ UserStep
                 \/ UNCHANGED vars \/ RecordStep
  BY DEF Next, Engine, Recovery, Restore, Apply, CallStep, LookStep, UndoStep,
     PageStep, UserStep, RecordStep

\* Journals and results stay about known bundles of their id.
LEMMA JournalStep ==
  ASSUME IInv, [Next]_vars
  PROVE  JournalInv'
<1> USE Parts
<1>1. CASE Quiet
  BY <1>1 DEF Quiet, JournalInv
<1> USE DEF JournalInv, SetJournal, Journalled, JournalStates, TypeOK
<1>2. ASSUME NEW i \in Ids, RemoveOrphan(i) PROVE JournalInv'
  BY <1>2 DEF RemoveOrphan
<1>3. ASSUME NEW i \in Ids, FinishCommit(i) PROVE JournalInv'
  BY <1>3 DEF FinishCommit
<1>4. ASSUME NEW i \in Ids, RebuildResult(i) PROVE JournalInv'
  BY <1>4 DEF RebuildResult
<1>5. ASSUME NEW i \in Ids, LoseFile(i) PROVE JournalInv'
  BY <1>5 DEF LoseFile
<1>6. CASE RestoreFailed \/ RestoreDone
  <2>1. undo \in Ids /\ journal[undo] \in Unsettled /\ ~result[undo]
    BY <1>6 DEF RestoreFailed, RestoreDone, UndoInv, Undoing, InFlight
  <2> QED
    BY <1>6, <2>1 DEF RestoreFailed, RestoreDone, Unsettled
<1>7. CASE Stage \/ ClearJournal
  BY <1>7, CurFacts DEF Stage, ClearJournal, ApplyPCs
<1>8. CASE ClearDirectory \/ PrepareFails
  BY <1>8, CurFacts DEF ClearDirectory, PrepareFails, ApplyPCs, ApplyInv, Staging
<1>9. CASE RecordPrepared
  BY <1>9, CurFacts DEF RecordPrepared, ApplyPCs, ApplyInv, Staging, OpId
<1>10. CASE RecordApplying
  BY <1>10, CurFacts DEF RecordApplying, ApplyPCs, ApplyInv, Opened, InFlight,
     Unsettled
<1>11. CASE Commit
  BY <1>11, CurFacts DEF Commit, ApplyPCs, ApplyInv, Opened, InFlight, Unsettled
<1>12. CASE Finalize
  BY <1>12, CurFacts DEF Finalize, ApplyPCs, ApplyInv
<1> QED
  BY <1>1, <1>2, <1>3, <1>4, <1>5, <1>6, <1>7, <1>8, <1>9, <1>10, <1>11,
     <1>12, Kinds, QuietSteps DEF RecordStep

-----------------------------------------------------------------------------
\* Nothing comes into flight but the operation whose journal is written.
LEMMA FlightShrinks ==
  ASSUME IInv, [Next]_vars, ~RecordPrepared, NEW i \in Ids, InFlight(i)'
  PROVE  InFlight(i)
<1> USE Parts
<1>1. CASE Quiet
  BY <1>1 DEF Quiet, InFlight
<1> USE DEF InFlight, Unsettled, SetJournal, TypeOK
<1>2. CASE \E j \in Ids : RemoveOrphan(j) \/ FinishCommit(j) \/ RebuildResult(j)
                          \/ LoseFile(j)
  BY <1>2 DEF RemoveOrphan, FinishCommit, RebuildResult, LoseFile
<1>3. CASE RestoreFailed \/ RestoreDone
  BY <1>3 DEF RestoreFailed, RestoreDone, UndoInv, Undoing
<1>4. CASE Stage \/ ClearJournal \/ ClearDirectory \/ PrepareFails
  BY <1>4 DEF Stage, ClearJournal, ClearDirectory, PrepareFails
<1>5. CASE RecordApplying
  BY <1>5 DEF RecordApplying, ApplyInv, Opened
<1>6. CASE Commit \/ Finalize
  BY <1>6 DEF Commit, Finalize
<1> QED
  BY <1>1, <1>2, <1>3, <1>4, <1>5, <1>6, Kinds, QuietSteps DEF RecordStep

-----------------------------------------------------------------------------
\* A call that ended leaves nothing to be said of the engine.
LEMMA Idle ==
  ASSUME NEW how, Finish(how)
  PROVE  ApplyInv' /\ UndoInv' /\ WindowInv'
  BY DEF Finish, ApplyInv, UndoInv, WindowInv, ApplyPCs, Staging, Opened, Undoing

\* The steps that end the call.
LEMMA Endings ==
  ASSUME \/ \E b \in Bundles : RefuseReplay(b)
         \/ \E i \in Ids : CommitDrifted(i) \/ ResultMissing(i)
         \/ RecoveryDone /\ mode # "apply"
         \/ RestoreFailed
         \/ RestoreDone /\ mode = "abort"
         \/ RefuseDirectory \/ PrepareFails \/ Finalize \/ Crash
  PROVE  \E how \in Outcomes : Finish(how)
  BY DEF RefuseReplay, CommitDrifted, ResultMissing, RecoveryDone, RestoreFailed,
     RestoreDone, RefuseDirectory, PrepareFails, Finalize, Crash, Outcomes

\* The operation being applied stays the one in flight.
LEMMA ApplyStep ==
  ASSUME IInv, [Next]_vars
  PROVE  ApplyInv'
<1> USE Parts
<1>1. ASSUME NEW how \in Outcomes, Finish(how) PROVE ApplyInv'
  BY <1>1, Idle
<1> USE DEF ApplyInv, ApplyPCs, Staging, Opened, Goto, SetJournal, TypeOK
<1>2. CASE CallStep /\ pc' # "idle"
  BY <1>2 DEF CallStep, BeginApply, BeginReplay, RefuseReplay, BeginRecover,
     StartRecovery, Finish
<1>3. ASSUME NEW i \in Ids,
             \/ SkipSettled(i) \/ RemoveOrphan(i) \/ FinishCommit(i)
             \/ RebuildResult(i)
      PROVE ApplyInv'
  BY <1>3 DEF SkipSettled, RemoveOrphan, FinishCommit, RebuildResult, Looks
<1>4. ASSUME NEW i \in Ids, StartRestore(i) PROVE ApplyInv'
  BY <1>4 DEF StartRestore
<1>5. CASE RecoveryDone /\ mode = "apply"
  BY <1>5 DEF RecoveryDone
<1>6. CASE UndoStep
  BY <1>6 DEF UndoStep, RestoreLook, RestoreUnlink, RestoreRewrite, RestoreError,
     NextPage
<1>7. CASE RestoreDone /\ mode # "abort"
  BY <1>7 DEF RestoreDone
<1>8. CASE Stage \/ ClearJournal \/ ClearDirectory
  <2>1. OpId \in Ids /\ (journal[OpId] \in {"absent", "rolled-back"} => ~result[OpId])
    BY <1>8, CurFacts DEF JournalInv, Stage, ClearJournal, ClearDirectory
  <2> QED
    BY <1>8, <2>1 DEF Stage, ClearJournal, ClearDirectory, OpId
<1>9. CASE Prepare
  BY <1>9 DEF Prepare, OpId
<1>10. CASE RecordPrepared
  BY <1>10, CurFacts DEF RecordPrepared, OpId, InFlight, Unsettled
<1>11. CASE RecordApplying
  BY <1>11, CurFacts DEF RecordApplying, OpId, InFlight, Unsettled
<1>12. CASE PageConflict \/ WriteError \/ ValidationDrift
  BY <1>12 DEF PageConflict, WriteError, ValidationDrift, Abort
<1>13. CASE CheckPage \/ Validate
  BY <1>13, CurFacts DEF CheckPage, Validate, OpId, InFlight, disk
<1>14. CASE WritePage
  BY <1>14, CurFacts DEF WritePage, OpId, InFlight
<1>15. CASE Commit
  BY <1>15, CurFacts DEF Commit, OpId, InFlight
<1>16. ASSUME NEW p \in Editable, NEW c \in Values, Edit(p, c) PROVE ApplyInv'
  BY <1>16 DEF Edit, engine, OpId, InFlight
<1>17. ASSUME NEW i \in Ids, LoseFile(i) PROVE ApplyInv'
  BY <1>17 DEF LoseFile, engine
<1>18. CASE UNCHANGED vars
  BY <1>18 DEF vars, disk, engine, OpId, InFlight
<1>19. CASE CallStep /\ pc' = "idle"
  BY <1>19 DEF CallStep, BeginApply, BeginReplay, RefuseReplay, BeginRecover,
     StartRecovery, Finish
<1> QED
  BY <1>1, <1>2, <1>3, <1>4, <1>5, <1>6, <1>7, <1>8, <1>9, <1>10, <1>11,
     <1>12, <1>13, <1>14, <1>15, <1>16, <1>17, <1>18, <1>19, Endings, Kinds
     DEF LookStep, PageStep, UserStep, RecordStep

\* Rollback stays about an operation in flight and its pages.
LEMMA UndoInvStep ==
  ASSUME IInv, [Next]_vars
  PROVE  UndoInv'
<1> USE Parts
<1>1. ASSUME NEW how \in Outcomes, Finish(how) PROVE UndoInv'
  BY <1>1, Idle
<1>2. CASE pc' \notin Undoing
  BY <1>2 DEF UndoInv
<1> USE DEF UndoInv, Undoing, Goto, disk
<1>3. ASSUME NEW i \in Ids, StartRestore(i) PROVE UndoInv'
  <2>1. bundleOf[i] \in Bundles
    BY <1>3 DEF StartRestore, JournalInv, InFlight, Unsettled, Journalled,
       JournalStates
  <2> QED
    BY <1>3, <2>1, OrderFacts DEF StartRestore, InFlight, LastIdx
<1>4. CASE UndoStep
  <2>1. pc \in Undoing /\ undo' = undo /\ Quiet
    BY <1>4, QuietSteps DEF UndoStep, RestoreLook, RestoreUnlink, RestoreRewrite,
       RestoreError
  <2>2. InFlight(undo)' /\ LastIdx(bundleOf[undo])' = LastIdx(bundleOf[undo])
    BY <2>1 DEF Quiet, InFlight, LastIdx
  <2>3. idx' \in 0..LastIdx(bundleOf[undo]) /\ (pc' # "restore" => idx' > 0)
    <3>1. idx \in Nat /\ idx <= LastIdx(bundleOf[undo])
      BY <2>1, UndoFacts
    <3>2. LastIdx(bundleOf[undo]) \in Nat
      BY <2>1, UndoFacts, OrderFacts
    <3>3. idx > 0
      BY <1>4 DEF UndoStep, RestoreLook, RestoreUnlink, RestoreRewrite, RestoreError
    <3>4. \/ idx' = idx - 1 /\ pc' = "restore"
          \/ idx' = idx
      BY <1>4 DEF UndoStep, RestoreLook, RestoreUnlink, RestoreRewrite,
         RestoreError, NextPage
    <3> QED
      BY <3>1, <3>2, <3>3, <3>4
  <2> QED
    BY <2>1, <2>2, <2>3
<1>5. CASE PageConflict \/ WriteError \/ ValidationDrift
  <2>1. Abort /\ pc \in {"check", "write"}
    BY <1>5 DEF PageConflict, WriteError, ValidationDrift
  <2>2. /\ OpId \in Ids /\ InFlight(OpId) /\ bundleOf[OpId] = cur
        /\ LastIdx(cur) \in Nat
    BY <2>1, CurFacts DEF ApplyInv, ApplyPCs, Opened
  <2> QED
    BY <2>1, <2>2 DEF Abort, InFlight, LastIdx
<1>6. ASSUME NEW p \in Editable, NEW c \in Values, Edit(p, c) PROVE UndoInv'
  BY <1>6 DEF Edit, engine, InFlight, LastIdx
<1>7. CASE UNCHANGED vars
  BY <1>7 DEF vars, engine, InFlight, LastIdx
<1>8. CASE CallStep
  BY <1>1, <1>2, <1>8, Endings DEF CallStep, BeginApply, BeginReplay, BeginRecover,
     StartRecovery
<1>9. ASSUME NEW i \in Ids, \/ SkipSettled(i) \/ RemoveOrphan(i)
                            \/ FinishCommit(i) \/ RebuildResult(i)
      PROVE UndoInv'
  BY <1>2, <1>9 DEF SkipSettled, RemoveOrphan, FinishCommit, RebuildResult, Looks
<1>10. CASE RecoveryDone \/ RestoreDone
  BY <1>1, <1>2, <1>10, Endings DEF RecoveryDone, RestoreDone
<1>11. CASE Stage \/ ClearJournal \/ ClearDirectory \/ Prepare \/ RecordPrepared
            \/ RecordApplying \/ CheckPage \/ Validate \/ WritePage \/ Commit
  BY <1>2, <1>11 DEF Stage, ClearJournal, ClearDirectory, Prepare, RecordPrepared,
     RecordApplying, CheckPage, Validate, WritePage, Commit
<1>12. ASSUME NEW i \in Ids, LoseFile(i) PROVE UndoInv'
  BY <1>2, <1>12 DEF LoseFile, engine
<1> QED
  BY <1>1, <1>3, <1>4, <1>5, <1>6, <1>7, <1>8, <1>9, <1>10, <1>11, <1>12,
     Endings, Kinds DEF LookStep, PageStep, UserStep, RecordStep

\* Nothing is in flight behind the back of recovery.
LEMMA FlightStep ==
  ASSUME IInv, [Next]_vars
  PROVE  FlightInv'
<1> USE Parts
<1>1. OneInFlight'
  <2>1. CASE RecordPrepared
    <3>1. OpId \in Ids /\ \A i \in Ids : ~InFlight(i)
      BY <2>1, CurFacts DEF RecordPrepared, ApplyPCs, Staging, FlightInv
    <3>2. \A i \in Ids : InFlight(i)' => i = OpId
      BY <2>1, <3>1 DEF RecordPrepared, SetJournal, InFlight, TypeOK
    <3> QED
      BY <3>2 DEF OneInFlight
  <2>2. CASE ~RecordPrepared
    BY <2>2, FlightShrinks DEF OneInFlight, FlightInv
  <2> QED
    BY <2>1, <2>2
<1>2. ASSUME pc' = "recover" \/ (pc' \in Undoing /\ mode' # "abort"),
             NEW i \in Ids, InFlight(i)'
      PROVE  i \in todo'
  <2>1. ~RecordPrepared
    BY <1>2 DEF RecordPrepared, Goto, Undoing
  <2>2. InFlight(i)
    BY <1>2, <2>1, FlightShrinks
  <2>3. CASE CallStep
    BY <1>2, <2>2, <2>3 DEF CallStep, BeginApply, BeginReplay, RefuseReplay,
       BeginRecover, StartRecovery, Finish, Undoing, InFlight, Unsettled
  <2>4. ASSUME ~CallStep
        PROVE  pc = "recover" \/ (pc \in Undoing /\ mode # "abort")
    BY <1>2, <2>4, Kinds DEF LookStep, SkipSettled, CommitDrifted, ResultMissing,
       StartRestore, RecoveryDone, UndoStep, RestoreLook, RestoreUnlink,
       RestoreRewrite, RestoreError, NextPage, PageStep, RefuseDirectory, Prepare,
       CheckPage, PageConflict, WritePage, WriteError, Validate, ValidationDrift,
       Abort, UserStep, Crash, Edit, vars, engine, RecordStep, RemoveOrphan,
       FinishCommit, RebuildResult, LoseFile, RestoreFailed, RestoreDone, Stage,
       ClearJournal, ClearDirectory, PrepareFails, RecordApplying, RecordPrepared,
       Commit, Finalize, Finish, Goto, Undoing, Looks
  <2>5. ASSUME ~CallStep PROVE i \in todo
    BY <2>2, <2>4, <2>5 DEF FlightInv
  <2>6. ASSUME ~CallStep
        PROVE  \/ todo' = todo
               \/ \E j \in Ids : todo' = todo \ {j} /\ ~InFlight(j)'
    <3> DEFINE Settling(j) == \/ SkipSettled(j) \/ RemoveOrphan(j)
                              \/ FinishCommit(j) \/ RebuildResult(j)
    <3>1. ASSUME NEW j \in Ids, Settling(j)
          PROVE  todo' = todo \ {j} /\ ~InFlight(j)'
      BY <3>1 DEF SkipSettled, RemoveOrphan, FinishCommit, RebuildResult, Settle,
         SetJournal, InFlight, Unsettled, Journalled, TypeOK, disk
    <3>2. ASSUME RestoreDone, mode # "abort"
          PROVE  \E j \in Ids : todo' = todo \ {j} /\ ~InFlight(j)'
      <4>1. PICK j \in Ids : j = undo
        BY <3>2 DEF RestoreDone, UndoInv, Undoing
      <4>2. journal'[j] = "rolled-back" /\ todo' = todo \ {j}
        BY <3>2, <4>1 DEF RestoreDone, SetJournal, TypeOK
      <4> QED
        BY <3>2, <4>1, <4>2 DEF RestoreDone, InFlight, Unsettled
    <3>3. ASSUME ~RestoreDone, \A j \in Ids : ~Settling(j)
          PROVE  todo' = todo
      BY <1>2, <2>6, <3>3, Kinds DEF LookStep, CommitDrifted, ResultMissing,
         StartRestore, RecoveryDone, UndoStep, RestoreLook, RestoreUnlink,
         RestoreRewrite, RestoreError, NextPage, PageStep, RefuseDirectory,
         Prepare, CheckPage, PageConflict, WritePage, WriteError, Validate,
         ValidationDrift, Abort, UserStep, Crash, Edit, vars, engine, RecordStep,
         LoseFile, RestoreFailed, Stage, ClearJournal, ClearDirectory,
         PrepareFails, RecordApplying, RecordPrepared, Commit, Finalize, Finish,
         Goto, Undoing
    <3>4. ASSUME RestoreDone, mode = "abort" PROVE FALSE
      BY <1>2, <3>4 DEF RestoreDone, Finish, Undoing
    <3> HIDE DEF Settling
    <3> QED
      BY <3>1, <3>2, <3>3, <3>4
  <2> QED
    BY <1>2, <2>2, <2>3, <2>5, <2>6 DEF CallStep, BeginApply, BeginReplay,
       RefuseReplay, BeginRecover, StartRecovery, Finish, Undoing
<1>3. ASSUME pc' \in {"stage", "finalize"} \cup Staging, NEW i \in Ids
      PROVE  ~InFlight(i)'
  <2> SUFFICES ASSUME InFlight(i)' PROVE FALSE
    OBVIOUS
  <2>1. ~RecordPrepared
    BY <1>3 DEF RecordPrepared, Goto, Staging
  <2>2. InFlight(i)
    BY <2>1, FlightShrinks
  <2>3. pc \notin {"stage", "finalize"} \cup Staging
    BY <2>2 DEF FlightInv
  <2>4. \/ RecoveryDone \/ Commit
    BY <1>3, <2>3, Kinds DEF CallStep, BeginApply, BeginReplay, RefuseReplay,
       BeginRecover, StartRecovery, LookStep, SkipSettled, CommitDrifted,
       ResultMissing, StartRestore, UndoStep, RestoreLook, RestoreUnlink,
       RestoreRewrite, RestoreError, NextPage, PageStep, RefuseDirectory, Prepare,
       CheckPage, PageConflict, WritePage, WriteError, Validate, ValidationDrift,
       Abort, UserStep, Crash, Edit, vars, engine, RecordStep, RemoveOrphan,
       FinishCommit, RebuildResult, LoseFile, RestoreFailed, RestoreDone, Stage,
       ClearJournal, ClearDirectory, PrepareFails, RecordApplying, RecordPrepared,
       Finalize, Finish, Goto, Staging, Looks
  <2>5. CASE RecoveryDone
    BY <2>2, <2>5 DEF RecoveryDone, FlightInv
  <2>6. CASE Commit
    <3>1. OpId \in Ids /\ InFlight(OpId)
      BY <2>6, CurFacts DEF Commit, ApplyInv, ApplyPCs, Opened
    <3>2. i = OpId
      BY <2>2, <3>1 DEF FlightInv, OneInFlight
    <3> QED
      BY <2>6, <3>1, <3>2 DEF Commit, InFlight, TypeOK
  <2> QED
    BY <2>4, <2>5, <2>6
<1> QED
  BY <1>1, <1>2, <1>3 DEF FlightInv

\* What was seen of a page holds until it is written.
LEMMA WindowStep ==
  ASSUME IInv, [Next]_vars
  PROVE  WindowInv'
<1> USE Parts
<1>1. CASE pc' \notin {"write", "rewrite"}
  BY <1>1 DEF WindowInv
<1>2. CASE CheckPage
  BY <1>2 DEF CheckPage, WindowInv, OpId, Goto, disk
<1>3. CASE RestoreLook
  BY <1>3 DEF RestoreLook, WindowInv, NextPage, Page, Original, Written, Goto, disk
<1>4. ASSUME NEW p \in Editable, NEW c \in Values, Edit(p, c) PROVE WindowInv'
  BY <1>1, <1>4 DEF Edit, WindowInv, Window, engine
<1>5. CASE UNCHANGED vars
  BY <1>5 DEF vars, disk, engine, WindowInv, OpId, Page, Original, Written
<1>6. CASE CallStep
  BY <1>1, <1>6 DEF CallStep, BeginApply, BeginReplay, RefuseReplay, BeginRecover,
     StartRecovery, Finish, Goto
<1>7. CASE LookStep
  BY <1>1, <1>7 DEF LookStep, SkipSettled, CommitDrifted, ResultMissing,
     StartRestore, RecoveryDone, Finish, Goto, Looks
<1>8. CASE RestoreUnlink \/ RestoreRewrite \/ RestoreError
  BY <1>1, <1>8 DEF RestoreUnlink, RestoreRewrite, RestoreError, NextPage, Goto
<1>9. CASE RefuseDirectory \/ Prepare \/ PageConflict \/ WritePage \/ WriteError
           \/ Validate \/ ValidationDrift
  BY <1>1, <1>9 DEF RefuseDirectory, Prepare, PageConflict, WritePage, WriteError,
     Validate, ValidationDrift, Abort, Finish, Goto
<1>10. CASE Crash
  BY <1>1, <1>10 DEF Crash, Finish
<1>11. CASE RecordStep
  BY <1>1, <1>11 DEF RecordStep, RemoveOrphan, FinishCommit, RebuildResult,
     LoseFile, RestoreFailed, RestoreDone, Stage, ClearJournal, ClearDirectory,
     PrepareFails, RecordApplying, RecordPrepared, Commit, Finalize, Finish, Goto,
     Looks, engine
<1> QED
  BY <1>2, <1>3, <1>4, <1>5, <1>6, <1>7, <1>8, <1>9, <1>10, <1>11, Kinds
     DEF UndoStep, PageStep, UserStep

-----------------------------------------------------------------------------
(***************************************************************************)
(* The theorems                                                            *)
(***************************************************************************)

\* The conjunction of the parts holds in every reachable state.
THEOREM Inductive == Spec => []IInv
<1>1. IInv /\ [Next]_vars => IInv'
  BY TypeStep, JournalStep, ApplyStep, UndoInvStep, FlightStep, WindowStep DEF IInv
<1> QED
  BY InitInv, <1>1, PTL DEF Spec

\* Every variable keeps its type.
THEOREM TypeCorrect == Spec => []TypeOK
<1>1. IInv => TypeOK
  BY DEF IInv
<1> QED
  BY <1>1, Inductive, PTL

\* At most one operation is durable but neither committed nor undone.
THEOREM AtMostOneInFlight == Spec => []OneInFlight
<1>1. IInv => OneInFlight
  BY DEF IInv, FlightInv
<1> QED
  BY <1>1, Inductive, PTL

\* Rollback never touches the pages of an operation that has committed.
THEOREM CommittedStays == Spec => []CommittedNeverUndone
<1>1. IInv => CommittedNeverUndone
  BY DEF IInv, UndoInv, CommittedNeverUndone, InFlight
<1> QED
  BY <1>1, Inductive, PTL

\* If the user does not edit between a look and the write that trusts it, the
\* engine never replaces a content that is neither the original nor its own.
THEOREM NothingOverwritten ==
  ASSUME ~EditInWindow PROVE Spec => NeverSilentOverwrite
<1> DEFINE Known(p) == \E i \in Ids :
             /\ InFlight(i)
             /\ p \in PagesOf(bundleOf[i])
             /\ vault[p] \in {backup[i][p], New[bundleOf[i]][p], Absent}
           Safe == \A p \in Paths : EngineMoves /\ vault'[p] # vault[p] => Known(p)
<1>1. ASSUME IInv, [Next]_vars PROVE Safe
  <2> USE <1>1, Parts
  <2> SUFFICES ASSUME NEW p \in Paths, EngineMoves, vault'[p] # vault[p]
               PROVE  Known(p)
    OBVIOUS
  <2>1. CASE RestoreUnlink \/ RestoreRewrite
    <3>1. pc \in {"unlink", "rewrite"} /\ undo \in Ids /\ InFlight(undo) /\ idx > 0
      BY <2>1 DEF RestoreUnlink, RestoreRewrite, UndoInv, Undoing
    <3>2. p = Page /\ Page \in PagesOf(bundleOf[undo])
      BY <2>1, <3>1, UndoFacts DEF RestoreUnlink, RestoreRewrite, TypeOK, Undoing
    <3>3. vault[Page] \in {Original, Written, Absent}
      BY <2>1, <3>2 DEF RestoreUnlink, RestoreRewrite, WindowInv
    <3> QED
      BY <3>1, <3>2, <3>3 DEF Original, Written
  <2>2. CASE WritePage
    <3>1. cur \in Bundles /\ OpId \in Ids /\ InFlight(OpId) /\ bundleOf[OpId] = cur
      BY <2>2, CurFacts DEF WritePage, ApplyInv, ApplyPCs, Opened
    <3>2. idx \in 1..LastIdx(cur)
      BY <2>2, <3>1, OrderFacts DEF WritePage, ApplyInv
    <3>3. p = Order[cur][idx] /\ p \in PagesOf(cur)
      BY <2>2, <3>1, <3>2, OrderFacts DEF WritePage, TypeOK
    <3>4. vault[p] = backup[OpId][p]
      BY <2>2, <3>3 DEF WritePage, WindowInv
    <3> QED
      BY <3>1, <3>3, <3>4
  <2>3. \/ RestoreUnlink \/ RestoreRewrite \/ WritePage
    BY Kinds DEF CallStep, BeginApply, BeginReplay, RefuseReplay, BeginRecover,
       StartRecovery, LookStep, SkipSettled, CommitDrifted, ResultMissing,
       StartRestore, RecoveryDone, UndoStep, RestoreLook, RestoreError, PageStep,
       RefuseDirectory, Prepare, CheckPage, PageConflict, WriteError, Validate,
       ValidationDrift, Abort, UserStep, Crash, Edit, vars, disk, engine,
       RecordStep, RemoveOrphan, FinishCommit, RebuildResult, LoseFile,
       RestoreFailed, RestoreDone, Stage, ClearJournal, ClearDirectory,
       PrepareFails, RecordApplying, RecordPrepared, Commit, Finalize, EngineMoves
  <2> QED
    BY <2>1, <2>2, <2>3
<1>2. IInv /\ [Next]_vars => [Safe]_vars
  BY <1>1
<1> QED
  BY <1>2, Inductive, PTL DEF Spec, NeverSilentOverwrite

-----------------------------------------------------------------------------
(***************************************************************************)
(* The refinement of AtomicVault.                                          *)
(***************************************************************************)
\* What an operation in flight is about, and what it saved, is written before
\* it comes into flight and not again while it is there.
LEMMA OriginalsKept ==
  ASSUME IInv, [Next]_vars, NEW i \in Ids, InFlight(i)
  PROVE  backup'[i] = backup[i] /\ bundleOf'[i] = bundleOf[i]
<1> USE Parts
<1>1. CASE Prepare \/ RecordPrepared
  BY <1>1 DEF Prepare, RecordPrepared, FlightInv, Staging
<1>2. CASE ~(Prepare \/ RecordPrepared)
  <2>1. UNCHANGED <<backup, bundleOf>>
    BY <1>2, Kinds DEF CallStep, BeginApply, BeginReplay, RefuseReplay,
       BeginRecover, StartRecovery, LookStep, SkipSettled, CommitDrifted,
       ResultMissing, StartRestore, RecoveryDone, UndoStep, RestoreLook,
       RestoreUnlink, RestoreRewrite, RestoreError, PageStep, RefuseDirectory,
       CheckPage, PageConflict, WritePage, WriteError, Validate,
       ValidationDrift, Abort, UserStep, Crash, Edit, vars, disk, RecordStep,
       RemoveOrphan, FinishCommit, RebuildResult, LoseFile, RestoreFailed,
       RestoreDone, Stage, ClearJournal, ClearDirectory, PrepareFails,
       RecordApplying, Commit, Finalize
  <2> QED
    BY <2>1
<1> QED
  BY <1>1, <1>2

\* The steps that write a page, and those that start or end a flight.
WritingStep == \/ RestoreUnlink \/ RestoreRewrite \/ WritePage
               \/ \E p \in Editable, c \in Values : Edit(p, c)
FlightStart == RecordPrepared
FlightEnd   == Commit \/ RestoreDone

\* No other step changes a page, what is touched, or what is in flight.
LEMMA OtherSteps ==
  ASSUME IInv, [Next]_vars, ~WritingStep, ~FlightStart, ~FlightEnd
  PROVE  /\ UNCHANGED <<vault, touched, bundleOf>>
         /\ \A i \in Ids : InFlight(i)' <=> InFlight(i)
<1> USE Parts
<1>1. UNCHANGED <<vault, touched, bundleOf>>
  BY Kinds DEF CallStep, BeginApply, BeginReplay, RefuseReplay,
     BeginRecover, StartRecovery, LookStep, SkipSettled, CommitDrifted,
     ResultMissing, StartRestore, RecoveryDone, UndoStep, RestoreLook,
     RestoreError, PageStep, RefuseDirectory, Prepare, CheckPage, PageConflict,
     WriteError, Validate, ValidationDrift, Abort, UserStep, Crash, vars, disk,
     RecordStep, RemoveOrphan, FinishCommit, RebuildResult, LoseFile,
     RestoreFailed, Stage, ClearJournal, ClearDirectory, PrepareFails,
     RecordApplying, Finalize, engine, WritingStep, FlightStart, FlightEnd
<1>2. ASSUME NEW i \in Ids, InFlight(i)' PROVE InFlight(i)
  BY <1>2, FlightShrinks DEF FlightStart
<1>3. ASSUME NEW i \in Ids, InFlight(i) PROVE InFlight(i)'
  <2>1. CASE Quiet
    BY <1>3, <2>1 DEF Quiet, InFlight
  <2> USE DEF InFlight, Unsettled, SetJournal, TypeOK
  <2>2. CASE \E j \in Ids : RemoveOrphan(j) \/ FinishCommit(j)
                            \/ RebuildResult(j) \/ LoseFile(j)
    BY <1>3, <2>2 DEF RemoveOrphan, FinishCommit, RebuildResult, LoseFile
  <2>3. CASE RestoreFailed
    BY <1>3, <2>3 DEF RestoreFailed
  <2>4. CASE Stage \/ ClearJournal \/ ClearDirectory \/ PrepareFails
    BY <1>3, <2>4 DEF Stage, ClearJournal, ClearDirectory, PrepareFails,
       ApplyInv, ApplyPCs, Staging
  <2>5. CASE RecordApplying
    BY <1>3, <2>5 DEF RecordApplying
  <2>6. CASE Finalize
    BY <1>3, <2>6 DEF Finalize, FlightInv
  <2> QED
    BY <2>1, <2>2, <2>3, <2>4, <2>5, <2>6, Kinds, QuietSteps
       DEF RecordStep, FlightStart, FlightEnd
<1> QED
  BY <1>1, <1>2, <1>3

\* What one operation saved is what its bundle expected.
LEMMA SavedStep ==
  ASSUME IInv, SnapshotInv, [Next]_vars
  PROVE  /\ pc' = "record" => \A p \in PagesOf(cur') : backup'[IdOf[cur']][p] = Old[cur'][p]
         /\ \A i \in Ids : InFlight(i)' =>
              \A p \in PagesOf(bundleOf'[i]) :
                backup'[i][p] = Old[bundleOf'[i]][p]
<1> USE Parts
<1>1. ASSUME pc' = "record", NEW p \in PagesOf(cur')
      PROVE  backup'[IdOf[cur']][p] = Old[cur'][p]
  <2>1. CASE Prepare
    <3>1. cur \in Bundles /\ OpId \in Ids /\ p \in PagesOf(cur) /\ p \in Paths
      BY <1>1, <2>1, CurFacts, OrderFacts DEF Prepare, ApplyPCs, Staging
    <3>2. backup'[OpId][p] = vault[p]
      BY <2>1, <3>1 DEF Prepare, TypeOK
    <3> QED
      BY <2>1, <3>1, <3>2 DEF Prepare, Expected, OpId
  <2>2. CASE ~Prepare
    <3>1. pc = "record" /\ UNCHANGED <<cur, backup>>
      BY <1>1, <2>2, Kinds DEF CallStep, BeginApply, BeginReplay, RefuseReplay,
         BeginRecover, StartRecovery, LookStep, SkipSettled, CommitDrifted,
         ResultMissing, StartRestore, RecoveryDone, UndoStep, RestoreLook,
         RestoreUnlink, RestoreRewrite, RestoreError, NextPage, PageStep,
         RefuseDirectory, CheckPage, PageConflict, WritePage, WriteError,
         Validate, ValidationDrift, Abort, UserStep, Crash, Edit, vars, disk,
         engine, RecordStep, RemoveOrphan, FinishCommit, RebuildResult, LoseFile,
         RestoreFailed, RestoreDone, Stage, ClearJournal, ClearDirectory,
         PrepareFails, RecordPrepared, RecordApplying, Commit, Finalize, Finish,
         Goto, Looks
    <3> QED
      BY <1>1, <3>1 DEF SnapshotInv, OpId
  <2> QED
    BY <2>1, <2>2
<1>2. ASSUME NEW i \in Ids, InFlight(i)', NEW p \in PagesOf(bundleOf'[i])
      PROVE  backup'[i][p] = Old[bundleOf'[i]][p]
  <2>1. CASE InFlight(i)
    BY <1>2, <2>1, OriginalsKept DEF SnapshotInv
  <2>2. CASE ~InFlight(i)
    <3>1. RecordPrepared
      BY <1>2, <2>2, FlightShrinks
    <3>2. OpId \in Ids /\ i = OpId
      BY <1>2, <2>2, <3>1, CurFacts
         DEF RecordPrepared, SetJournal, InFlight, TypeOK, ApplyPCs, Staging
    <3>3. bundleOf'[i] = cur /\ backup' = backup
      BY <3>1, <3>2 DEF RecordPrepared, TypeOK
    <3> QED
      BY <1>2, <3>1, <3>2, <3>3 DEF RecordPrepared, SnapshotInv
  <2> QED
    BY <2>1, <2>2
<1> QED
  BY <1>1, <1>2

\* A page the user edits while its operation is in flight is touched.
LEMMA EditTouches ==
  ASSUME NEW p \in Editable, NEW c \in Values, Edit(p, c),
         NEW i \in Ids, InFlight(i), NEW q \in PagesOf(bundleOf[i]) \ touched'
  PROVE  q \notin touched /\ vault'[q] = vault[q]
  BY DEF Edit

\* When the result is about to be written, every untouched page is installed.
LEMMA InstalledStep ==
  ASSUME IInv, SnapshotInv, [Next]_vars, pc' = "commit",
         NEW p \in PagesOf(cur') \ touched'
  PROVE  vault'[p] = New[cur'][p]
<1> USE Parts
<1>1. CASE Validate
  BY <1>1 DEF Validate, Installed, disk
<1>2. ASSUME NEW q \in Editable, NEW c \in Values, Edit(q, c)
      PROVE  vault'[p] = New[cur'][p]
  <2>1. pc = "commit" /\ cur' = cur
    BY <1>2 DEF Edit, engine
  <2>2. OpId \in Ids /\ InFlight(OpId) /\ bundleOf[OpId] = cur
    BY <2>1, CurFacts DEF ApplyInv, ApplyPCs, Opened
  <2>3. p \notin touched /\ vault'[p] = vault[p]
    BY <1>2, <2>1, <2>2, EditTouches
  <2> QED
    BY <2>1, <2>3 DEF SnapshotInv
<1>3. ASSUME ~Validate, ~ \E q \in Editable, c \in Values : Edit(q, c)
      PROVE  pc = "commit" /\ UNCHANGED <<cur, vault, touched>>
  BY <1>3, Kinds DEF CallStep, BeginApply, BeginReplay, RefuseReplay,
     BeginRecover, StartRecovery, LookStep, SkipSettled, CommitDrifted,
     ResultMissing, StartRestore, RecoveryDone, UndoStep, RestoreLook,
     RestoreUnlink, RestoreRewrite, RestoreError, NextPage, PageStep, Prepare,
     RefuseDirectory, CheckPage, PageConflict, WritePage, WriteError,
     ValidationDrift, Abort, UserStep, Crash, vars, disk,
     engine, RecordStep, RemoveOrphan, FinishCommit, RebuildResult, LoseFile,
     RestoreFailed, RestoreDone, Stage, ClearJournal, ClearDirectory,
     PrepareFails, RecordPrepared, RecordApplying, Commit, Finalize, Finish,
     Goto, Looks
<1> QED
  BY <1>1, <1>2, <1>3 DEF SnapshotInv

\* A page is unlinked only when there was none.
LEMMA UnlinkStep ==
  ASSUME IInv, SnapshotInv, [Next]_vars, pc' = "unlink"
  PROVE  Original' = Absent
<1> USE Parts
<1>1. CASE RestoreLook
  BY <1>1 DEF RestoreLook, Original, Page, disk, NextPage, Goto
<1>2. CASE ~RestoreLook
  <2>1. pc = "unlink" /\ UNCHANGED <<undo, idx, backup, bundleOf>>
    BY <1>2, Kinds DEF CallStep, BeginApply, BeginReplay, RefuseReplay,
       BeginRecover, StartRecovery, LookStep, SkipSettled, CommitDrifted,
       ResultMissing, StartRestore, RecoveryDone, UndoStep,
       RestoreUnlink, RestoreRewrite, RestoreError, NextPage, PageStep, Prepare,
       RefuseDirectory, CheckPage, PageConflict, WritePage, WriteError,
       Validate, ValidationDrift, Abort, UserStep, Crash, Edit, vars, disk,
       engine, RecordStep, RemoveOrphan, FinishCommit, RebuildResult, LoseFile,
       RestoreFailed, RestoreDone, Stage, ClearJournal, ClearDirectory,
       PrepareFails, RecordPrepared, RecordApplying, Commit, Finalize, Finish,
       Goto, Looks
  <2> QED
    BY <2>1 DEF SnapshotInv, Original, Page
<1> QED
  BY <1>1, <1>2

\* A rollback that has failed nowhere leaves the pages it went past as the
\* operation found them, but for those the user changed.
LEMMA RestoredStep ==
  ASSUME IInv, SnapshotInv, [Next]_vars, pc' \in Undoing, ~failed',
         NEW k \in DOMAIN Order[bundleOf'[undo']],
         NEW p, p = Order[bundleOf'[undo']][k], k > idx', p \notin touched'
  PROVE  vault'[p] = backup'[undo'][p]
<1> USE Parts DEF Undoing, Goto
<1>1. CASE UndoStep
  <2>1. /\ pc \in Undoing /\ undo' = undo /\ ~failed /\ touched' = touched
        /\ idx > 0 /\ UNCHANGED <<backup, bundleOf>>
    <3>1. /\ pc \in Undoing /\ undo' = undo /\ touched' = touched
          /\ UNCHANGED <<backup, bundleOf>>
      BY <1>1 DEF UndoStep, RestoreLook, RestoreUnlink, RestoreRewrite,
         RestoreError, disk
    <3>2. idx > 0
      BY <1>1 DEF UndoStep, RestoreLook, RestoreUnlink, RestoreRewrite,
         RestoreError, UndoInv
    <3>3. ~failed
      BY <1>1 DEF UndoStep, RestoreLook, RestoreUnlink, RestoreRewrite,
         RestoreError, NextPage
    <3> QED
      BY <3>1, <3>2, <3>3
  <2>2. /\ undo \in Ids /\ bundleOf[undo] \in Bundles /\ idx \in Nat
        /\ Page \in Paths /\ idx <= LastIdx(bundleOf[undo])
    BY <2>1, UndoFacts
  <2>3. /\ k \in 1..LastIdx(bundleOf[undo]) /\ p \in Paths
        /\ p = Order[bundleOf[undo]][k]
    <3>1. Order[bundleOf[undo]] \in Seq(Paths)
      BY <2>2, BundleAssumption
    <3> QED
      BY <2>1, <2>2, <3>1, OrderFacts DEF LastIdx
  <2>4. k > idx => vault[p] = backup[undo][p]
    BY <2>1, <2>3 DEF SnapshotInv
  <2>5. k = idx => p = Page
    BY <2>3 DEF Page
  <2>6. /\ vault' = vault \/ vault' = [vault EXCEPT ![Page] = Original]
        /\ idx' = idx \/ (idx' = idx - 1 /\ vault'[Page] = Original)
    <3>1. CASE RestoreLook
      BY <2>1, <3>1 DEF RestoreLook, NextPage, disk
    <3>2. CASE RestoreUnlink
      BY <2>1, <2>2, <3>2 DEF RestoreUnlink, NextPage, SnapshotInv, TypeOK
    <3>3. CASE RestoreRewrite
      BY <2>1, <2>2, <3>3 DEF RestoreRewrite, NextPage, TypeOK
    <3>4. CASE RestoreError
      BY <2>1, <3>4 DEF RestoreError, NextPage
    <3> QED
      BY <1>1, <3>1, <3>2, <3>3, <3>4 DEF UndoStep
  <2>7. p # Page => vault'[p] = vault[p]
    BY <2>2, <2>3, <2>6 DEF TypeOK
  <2>8. p = Page => vault'[p] = Original \/ vault'[p] = vault[p]
    BY <2>2, <2>6 DEF TypeOK
  <2>9. Original = backup[undo][Page]
    BY DEF Original
  <2>10. k > idx \/ (k = idx /\ vault'[Page] = Original)
    BY <2>2, <2>3, <2>6
  <2> QED
    BY <2>1, <2>4, <2>5, <2>7, <2>8, <2>9, <2>10
<1>2. ASSUME NEW q \in Editable, NEW c \in Values, Edit(q, c)
      PROVE  vault'[p] = backup'[undo'][p]
  <2>1. pc \in Undoing /\ ~failed /\ UNCHANGED <<undo, idx, backup, bundleOf>>
    BY <1>2 DEF Edit, engine
  <2>2. undo \in Ids /\ InFlight(undo) /\ p \in PagesOf(bundleOf[undo])
    BY <2>1 DEF UndoInv, PagesOf
  <2>3. p \notin touched /\ vault'[p] = vault[p]
    BY <1>2, <2>2, EditTouches
  <2> QED
    BY <2>1, <2>3 DEF SnapshotInv
<1>3. CASE UNCHANGED vars
  BY <1>3 DEF vars, disk, engine, SnapshotInv
<1>4. ASSUME NEW i \in Ids, StartRestore(i)
      PROVE  FALSE
  <2>1. undo' = i /\ idx' = LastIdx(bundleOf[i]) /\ bundleOf' = bundleOf
    BY <1>4 DEF StartRestore, disk
  <2>2. bundleOf[i] \in Bundles
    BY <1>4 DEF StartRestore, JournalInv, InFlight, Unsettled, Journalled,
       JournalStates
  <2>3. Order[bundleOf[i]] \in Seq(Paths)
    BY <2>2, BundleAssumption
  <2> QED
    BY <2>1, <2>2, <2>3, OrderFacts DEF LastIdx
<1>5. CASE PageConflict \/ WriteError \/ ValidationDrift
  <2>1. Abort /\ pc \in {"check", "write"}
    BY <1>5 DEF PageConflict, WriteError, ValidationDrift
  <2>2. cur \in Bundles /\ bundleOf[OpId] = cur
    BY <2>1, CurFacts DEF ApplyInv, ApplyPCs, Opened
  <2>3. idx' = LastIdx(cur) /\ bundleOf'[undo'] = cur
    BY <2>1, <2>2 DEF Abort, disk
  <2>4. Order[cur] \in Seq(Paths)
    BY <2>2, BundleAssumption
  <2> QED
    BY <2>2, <2>3, <2>4, OrderFacts DEF LastIdx
<1>6. \/ UndoStep \/ (\E q \in Editable, c \in Values : Edit(q, c)) \/ UNCHANGED vars
      \/ (\E i \in Ids : StartRestore(i))
      \/ PageConflict \/ WriteError \/ ValidationDrift
  BY Kinds DEF CallStep, BeginApply, BeginReplay, RefuseReplay,
     BeginRecover, StartRecovery, LookStep, SkipSettled, CommitDrifted,
     ResultMissing, RecoveryDone, PageStep, Prepare,
     RefuseDirectory, CheckPage, WritePage, Validate, UserStep, Crash, disk,
     engine, RecordStep, RemoveOrphan, FinishCommit, RebuildResult, LoseFile,
     RestoreFailed, RestoreDone, Stage, ClearJournal, ClearDirectory,
     PrepareFails, RecordPrepared, RecordApplying, Commit, Finalize, Finish, Looks
<1> QED
  BY <1>1, <1>2, <1>3, <1>4, <1>5, <1>6

\* Backups, untouched pages and journals keep telling the same story.
LEMMA SnapshotStep ==
  ASSUME IInv, SnapshotInv, [Next]_vars
  PROVE  SnapshotInv'
<1>1. pc' = "record" => \A p \in PagesOf(cur') : backup'[IdOf[cur']][p] = Old[cur'][p]
  BY SavedStep
<1>2. \A i \in Ids : InFlight(i)' =>
         \A p \in PagesOf(bundleOf'[i]) : backup'[i][p] = Old[bundleOf'[i]][p]
  BY SavedStep
<1>3. pc' = "commit" =>
        \A p \in PagesOf(cur') \ touched' : vault'[p] = New[cur'][p]
  BY InstalledStep
<1>4. pc' = "unlink" => Original' = Absent
  BY UnlinkStep
<1>5. pc' \in Undoing /\ ~failed' =>
        \A k \in DOMAIN Order[bundleOf'[undo']] :
          k > idx' /\ Order[bundleOf'[undo']][k] \notin touched'
            => vault'[Order[bundleOf'[undo']][k]]
                 = backup'[undo'][Order[bundleOf'[undo']][k]]
  BY RestoredStep
<1> QED
  BY <1>1, <1>2, <1>3, <1>4, <1>5 DEF SnapshotInv, OpId, PagesOf

\* The stronger invariant holds in every reachable state.
THEOREM SnapshotsKept == Spec => []SnapshotInv
<1>1. Init => SnapshotInv
  BY DEF Init, SnapshotInv, InFlight, Unsettled, Undoing
<1>2. IInv /\ SnapshotInv /\ [Next]_vars => SnapshotInv'
  BY SnapshotStep
<1> QED
  BY <1>1, <1>2, Inductive, PTL DEF Spec

\* What the abstract vault shows: of an operation in flight, its bundle and
\* the former content of its untouched pages; otherwise the files themselves.
Shown ==
  /\ \A i \in Ids : InFlight(i) =>
       /\ FlyingBundle = bundleOf[i]
       /\ bundleOf[i] \in Bundles
       /\ FlyingBundle # NoBundle
       /\ \A p \in Paths :
            Promised(p) = IF p \in PagesOf(bundleOf[i]) \ touched
                          THEN Old[bundleOf[i]][p] ELSE vault[p]
  /\ (\A i \in Ids : ~InFlight(i)) =>
       /\ FlyingBundle = NoBundle
       /\ \A p \in Paths : Promised(p) = vault[p]

LEMMA ShownState == IInv => Shown
<1> SUFFICES ASSUME IInv PROVE Shown
  OBVIOUS
<1> USE Parts
<1>1. ASSUME NEW i \in Ids, InFlight(i)
      PROVE  /\ FlyingBundle = bundleOf[i]
             /\ bundleOf[i] \in Bundles
             /\ FlyingBundle # NoBundle
             /\ \A p \in Paths :
                  Promised(p) = IF p \in PagesOf(bundleOf[i]) \ touched
                                THEN Old[bundleOf[i]][p] ELSE vault[p]
  <2>1. Flying # {} /\ \A j \in Flying : j = i
    BY <1>1 DEF Flying, FlightInv, OneInFlight
  <2>2. (CHOOSE j \in Flying : TRUE) = i
    BY <2>1
  <2>3. bundleOf[i] \in Bundles /\ bundleOf[i] # NoBundle
    BY <1>1, BundleAssumption DEF JournalInv, InFlight, Unsettled, Journalled,
       JournalStates
  <2>4. FlyingBundle = bundleOf[i]
    BY <2>1, <2>2 DEF FlyingBundle
  <2> QED
    BY <2>1, <2>3, <2>4 DEF Promised
<1>2. ASSUME \A i \in Ids : ~InFlight(i)
      PROVE  /\ FlyingBundle = NoBundle
             /\ \A p \in Paths : Promised(p) = vault[p]
  <2>1. Flying = {}
    BY <1>2 DEF Flying
  <2> QED
    BY <2>1 DEF FlyingBundle, Promised
<1> QED
  BY <1>1, <1>2 DEF Shown

LEMMA ShownNext == IInv' => Shown'
  BY ShownState, PTL

\* A step that changes no file, nothing touched and no flight is a stutter of
\* the abstract vault.
LEMMA StutterStep ==
  ASSUME IInv, IInv', [Next]_vars, ~WritingStep, ~FlightStart, ~FlightEnd
  PROVE  UNCHANGED Atomic!avars
<1>1. UNCHANGED <<vault, touched, bundleOf>> /\ \A i \in Ids : InFlight(i)' <=> InFlight(i)
  BY OtherSteps
<1>2. FlyingBundle' = FlyingBundle /\ \A p \in Paths : Promised(p)' = Promised(p)
  BY <1>1, ShownState, ShownNext DEF Shown, PagesOf
<1> QED
  BY <1>1, <1>2 DEF Atomic!avars

\* The engine writes one page of the operation in flight: nothing happens to
\* the abstract vault unless the page is touched, and then it is reconciled.
LEMMA ReconcileStep ==
  ASSUME IInv, IInv', NEW i \in Ids, InFlight(i), Quiet, touched' = touched,
         NEW p \in Paths, p \in PagesOf(bundleOf[i]), NEW c,
         vault' = [vault EXCEPT ![p] = c],
         \/ c \in {Old[bundleOf[i]][p], New[bundleOf[i]][p]}
            /\ vault[p] \in {Old[bundleOf[i]][p], New[bundleOf[i]][p], Absent}
         \/ c = vault[p]
  PROVE  Atomic!Reconcile(p) \/ UNCHANGED Atomic!avars
<1> DEFINE b == bundleOf[i]
           Kept(q) == IF q \in PagesOf(b) \ touched THEN Old[b][q] ELSE vault[q]
<1>1. InFlight(i)' /\ bundleOf'[i] = b /\ vault \in [Paths -> Values]
  BY Parts DEF Quiet, InFlight, TypeOK
<1>2. FlyingBundle = b /\ b # NoBundle /\ \A q \in Paths : Promised(q) = Kept(q)
  BY ShownState DEF Shown
<1>3. /\ FlyingBundle' = b
      /\ \A q \in Paths : Promised(q)' = IF q \in PagesOf(b) \ touched
                                         THEN Old[b][q] ELSE vault'[q]
  BY <1>1, ShownNext DEF Shown, PagesOf
<1>4. \A q \in Paths : q # p => Promised(q)' = Promised(q)
  BY <1>1, <1>2, <1>3
<1>5. CASE p \notin touched \/ c = vault[p]
  <2>1. Promised(p)' = Promised(p)
    BY <1>1, <1>2, <1>3, <1>5
  <2> QED
    BY <1>2, <1>3, <1>4, <2>1 DEF Atomic!avars
<1>6. CASE p \in touched /\ c # vault[p]
  <2>1. Promised(p)' = c /\ Promised(p) = vault[p]
    BY <1>1, <1>2, <1>3, <1>6
  <2>2. [q \in Paths |-> Promised(q)]' = [[q \in Paths |-> Promised(q)] EXCEPT ![p] = c]
    BY <1>4, <2>1
  <2>3. [q \in Paths |-> Promised(q)][p] = vault[p]
    BY <2>1
  <2> QED
    BY <1>2, <1>3, <1>6, <2>2, <2>3 DEF Atomic!Reconcile
<1> QED
  BY <1>5, <1>6

\* Writing a page, putting one back and removing one are such steps, if the
\* user does not edit in between.
LEMMA EngineWrites ==
  ASSUME IInv, IInv', SnapshotInv, [Next]_vars, ~EditInWindow,
         RestoreUnlink \/ RestoreRewrite \/ WritePage
  PROVE  (\E p \in Paths : Atomic!Reconcile(p)) \/ UNCHANGED Atomic!avars
<1> USE Parts
<1>1. CASE RestoreUnlink \/ RestoreRewrite
  <2>1. /\ pc \in {"unlink", "rewrite"} /\ undo \in Ids /\ InFlight(undo) /\ idx > 0
        /\ touched' = touched /\ Quiet
    BY <1>1 DEF RestoreUnlink, RestoreRewrite, UndoInv, Undoing, Quiet
  <2>2. Page \in Paths /\ Page \in PagesOf(bundleOf[undo]) /\ vault \in [Paths -> Values]
    BY <2>1, UndoFacts DEF TypeOK, Undoing
  <2>3. /\ Original = Old[bundleOf[undo]][Page]
        /\ Written = New[bundleOf[undo]][Page]
    BY <2>1, <2>2 DEF SnapshotInv, Original, Written
  <2>4. CASE vault' = vault
    <3>1. vault' = [vault EXCEPT ![Page] = vault[Page]]
      BY <2>2, <2>4
    <3> QED
      BY <2>1, <2>2, <3>1, ReconcileStep
  <2>5. CASE vault' # vault
    <3>1. vault' = [vault EXCEPT ![Page] = Original]
      BY <1>1, <2>1, <2>5 DEF RestoreUnlink, RestoreRewrite, SnapshotInv
    <3>2. vault[Page] \in {Original, Written, Absent}
      BY <1>1, <2>1, <2>5 DEF RestoreUnlink, RestoreRewrite, WindowInv
    <3> QED
      BY <2>1, <2>2, <2>3, <3>1, <3>2, ReconcileStep
  <2> QED
    BY <2>4, <2>5
<1>2. CASE WritePage
  <2>1. /\ cur \in Bundles /\ OpId \in Ids /\ InFlight(OpId)
        /\ bundleOf[OpId] = cur /\ touched' = touched /\ Quiet
    BY <1>2, CurFacts DEF WritePage, ApplyInv, ApplyPCs, Opened, Quiet
  <2>2. idx \in 1..LastIdx(cur)
    BY <1>2, <2>1, OrderFacts DEF WritePage, ApplyInv
  <2>3. PICK p \in Paths : p = Order[cur][idx] /\ p \in PagesOf(cur)
    BY <2>1, <2>2, OrderFacts
  <2>4. vault[p] = Old[cur][p]
    BY <1>2, <2>1, <2>3 DEF WritePage, WindowInv, SnapshotInv
  <2>5. vault' = [vault EXCEPT ![p] = New[cur][p]]
    BY <1>2, <2>3 DEF WritePage
  <2> QED
    BY <2>1, <2>3, <2>4, <2>5, ReconcileStep
<1> QED
  BY <1>1, <1>2

\* An edit of the user is one of the abstract user.
LEMMA UserEdits ==
  ASSUME IInv, IInv', NEW p \in Editable, NEW c \in Values, Edit(p, c)
  PROVE  Atomic!UserEdit(p, c)
<1> USE Parts
<1>1. p \in Paths /\ vault \in [Paths -> Values] /\ Quiet
  BY ConstantFacts DEF TypeOK, Edit, Quiet
<1>2. vault' = [vault EXCEPT ![p] = c]
  BY DEF Edit
<1>3. CASE \E i \in Ids : InFlight(i)
  <2>1. PICK i \in Ids : InFlight(i)
    BY <1>3
  <2>2. InFlight(i)' /\ bundleOf' = bundleOf
    BY <1>1, <2>1 DEF Quiet, InFlight
  <2>3. /\ FlyingBundle = bundleOf[i] /\ FlyingBundle' = bundleOf[i]
        /\ FlyingBundle # NoBundle
    BY <2>1, <2>2, ShownState, ShownNext DEF Shown
  <2>4. touched' = IF p \in PagesOf(bundleOf[i]) THEN touched \cup {p} ELSE touched
    BY <2>1, Parts DEF Edit, FlightInv, OneInFlight
  <2>5. \A q \in Paths : Promised(q)' = IF q = p THEN c ELSE Promised(q)
    BY <1>1, <1>2, <2>1, <2>2, <2>4, ShownState, ShownNext DEF Shown, PagesOf
  <2>6. [q \in Paths |-> Promised(q)]' = [[q \in Paths |-> Promised(q)] EXCEPT ![p] = c]
    BY <2>5
  <2> QED
    BY <2>3, <2>4, <2>6 DEF Atomic!UserEdit
<1>4. CASE \A i \in Ids : ~InFlight(i)
  <2>1. (\A i \in Ids : ~InFlight(i)') /\ touched' = touched
    BY <1>1, <1>4 DEF Quiet, InFlight, Edit
  <2>2. FlyingBundle = NoBundle /\ FlyingBundle' = NoBundle
    BY <1>4, <2>1, ShownState, ShownNext DEF Shown
  <2>3. \A q \in Paths : Promised(q)' = IF q = p THEN c ELSE Promised(q)
    BY <1>1, <1>2, <1>4, <2>1, ShownState, ShownNext DEF Shown
  <2>4. [q \in Paths |-> Promised(q)]' = [[q \in Paths |-> Promised(q)] EXCEPT ![p] = c]
    BY <2>3
  <2> QED
    BY <2>1, <2>2, <2>4 DEF Atomic!UserEdit
<1> QED
  BY <1>3, <1>4

\* Writing journal.json begins the abstract operation.
LEMMA Begins ==
  ASSUME IInv, IInv', SnapshotInv, RecordPrepared
  PROVE  cur \in Bundles /\ Atomic!Begin(cur)
<1> USE Parts
<1>1. cur \in Bundles /\ OpId \in Ids /\ PagesOf(cur) \subseteq Paths
  BY CurFacts, OrderFacts DEF RecordPrepared, ApplyPCs, Staging
<1>2. \A i \in Ids : ~InFlight(i)
  BY DEF RecordPrepared, FlightInv, Staging
<1> PICK id \in Ids : id = OpId
  BY <1>1
<1>3. InFlight(id)' /\ bundleOf'[id] = cur
  <2>1. ~result[id]
    BY DEF RecordPrepared, ApplyInv, Staging
  <2> QED
    BY <2>1 DEF RecordPrepared, InFlight, Unsettled, SetJournal, TypeOK
<1>4. FlyingBundle = NoBundle /\ \A p \in Paths : Promised(p) = vault[p]
  BY <1>2, ShownState DEF Shown
<1>5. /\ FlyingBundle' = cur
      /\ \A p \in Paths : Promised(p)' = IF p \in PagesOf(cur) \ touched'
                                         THEN Old[cur][p] ELSE vault'[p]
  BY <1>3, ShownNext DEF Shown, PagesOf
<1>6. touched' = {p \in PagesOf(cur) : vault[p] # Old[cur][p]} /\ vault' = vault
  BY DEF RecordPrepared, SnapshotInv
<1>7. \A p \in Paths : Promised(p)' = Promised(p)
  BY <1>3, <1>4, <1>5, <1>6
<1>8. touched' = {p \in PagesOf(cur) : [q \in Paths |-> Promised(q)][p] # Old[cur][p]}
  BY <1>1, <1>4, <1>6
<1> QED
  BY <1>1, <1>3, <1>4, <1>5, <1>7, <1>8 DEF Atomic!Begin

\* Writing changed-paths.json commits it.
LEMMA Commits ==
  ASSUME IInv, IInv', SnapshotInv, Commit
  PROVE  Atomic!Commit
<1> USE Parts
<1>1. /\ cur \in Bundles /\ OpId \in Ids /\ InFlight(OpId) /\ bundleOf[OpId] = cur
  BY CurFacts DEF Commit, ApplyInv, ApplyPCs, Opened
<1>2. \A i \in Ids : ~InFlight(i)'
  BY <1>1 DEF Commit, InFlight, FlightInv, OneInFlight, TypeOK
<1>3. /\ FlyingBundle = cur /\ FlyingBundle # NoBundle
      /\ \A p \in Paths : Promised(p) = IF p \in PagesOf(cur) \ touched
                                        THEN Old[cur][p] ELSE vault[p]
  BY <1>1, ShownState DEF Shown
<1>4. FlyingBundle' = NoBundle /\ \A p \in Paths : Promised(p)' = vault[p]
  BY <1>2, ShownNext DEF Shown, Commit
<1>5. \A p \in PagesOf(cur) \ touched : vault[p] = New[cur][p]
  BY DEF Commit, SnapshotInv
<1>6. [p \in Paths |-> Promised(p)]' =
        [p \in Paths |-> IF p \in PagesOf(FlyingBundle) \ touched
                         THEN New[FlyingBundle][p]
                         ELSE [q \in Paths |-> Promised(q)][p]]
  BY <1>3, <1>4, <1>5
<1> QED
  BY <1>3, <1>4, <1>6 DEF Atomic!Commit, Commit

\* A finished rollback aborts it.
LEMMA Aborts ==
  ASSUME IInv, IInv', SnapshotInv, RestoreDone
  PROVE  Atomic!Abort
<1> USE Parts
<1>1. undo \in Ids /\ InFlight(undo) /\ bundleOf[undo] \in Bundles
  BY UndoFacts DEF RestoreDone, UndoInv, Undoing
<1>2. \A i \in Ids : ~InFlight(i)'
  BY <1>1 DEF RestoreDone, InFlight, Unsettled, SetJournal, FlightInv,
     OneInFlight, TypeOK
<1>3. /\ FlyingBundle # NoBundle
      /\ \A p \in Paths : Promised(p) = IF p \in PagesOf(bundleOf[undo]) \ touched
                                        THEN Old[bundleOf[undo]][p] ELSE vault[p]
  BY <1>1, ShownState DEF Shown
<1>4. FlyingBundle' = NoBundle /\ \A p \in Paths : Promised(p)' = vault[p]
  BY <1>2, ShownNext DEF Shown, RestoreDone
<1>5. \A p \in PagesOf(bundleOf[undo]) \ touched : vault[p] = Old[bundleOf[undo]][p]
  <2> SUFFICES ASSUME NEW k \in DOMAIN Order[bundleOf[undo]],
                      NEW p, p = Order[bundleOf[undo]][k], p \notin touched
               PROVE  vault[p] = Old[bundleOf[undo]][p]
    BY DEF PagesOf
  <2>1. k > 0 /\ p \in PagesOf(bundleOf[undo])
    <3>1. Order[bundleOf[undo]] \in Seq(Paths)
      BY <1>1, BundleAssumption
    <3> QED
      BY <3>1 DEF PagesOf
  <2>2. vault[p] = backup[undo][p]
    BY <2>1 DEF RestoreDone, SnapshotInv, Undoing
  <2> QED
    BY <1>1, <2>1, <2>2 DEF SnapshotInv
<1>6. \A p \in Paths : Promised(p)' = Promised(p)
  BY <1>3, <1>4, <1>5
<1> QED
  BY <1>3, <1>4, <1>6 DEF Atomic!Abort, RestoreDone

\* Every step of the engine and of the user is one of the abstract vault.
LEMMA AtomicStep ==
  ASSUME IInv, IInv', SnapshotInv, [Next]_vars, ~EditInWindow
  PROVE  [Atomic!Next]_(Atomic!avars)
<1>1. CASE RestoreUnlink \/ RestoreRewrite \/ WritePage
  BY <1>1, EngineWrites DEF Atomic!Next
<1>2. ASSUME NEW p \in Editable, NEW c \in Values, Edit(p, c)
      PROVE  [Atomic!Next]_(Atomic!avars)
  BY <1>2, UserEdits, ConstantFacts DEF Atomic!Next, Atomic!Values, Values
<1>3. CASE RecordPrepared
  BY <1>3, Begins DEF Atomic!Next
<1>4. CASE Commit
  BY <1>4, Commits DEF Atomic!Next
<1>5. CASE RestoreDone
  BY <1>5, Aborts DEF Atomic!Next
<1>6. CASE ~WritingStep /\ ~FlightStart /\ ~FlightEnd
  BY <1>6, StutterStep
<1> QED
  BY <1>1, <1>2, <1>3, <1>4, <1>5, <1>6 DEF WritingStep, FlightStart, FlightEnd

\* If the user does not edit between a look and the write that trusts it, an
\* apply with its crashes, failed writes, rollbacks and recoveries changes the
\* pages nobody else touched all at once or not at all.
THEOREM AtomicityImplemented ==
  ASSUME ~EditInWindow PROVE Spec => ImplementsAtomicVault
<1>1. Init => Atomic!Init
  <2> SUFFICES ASSUME Init PROVE Atomic!Init
    OBVIOUS
  <2>1. \A i \in Ids : ~InFlight(i)
    BY DEF Init, InFlight, Unsettled
  <2>2. FlyingBundle = NoBundle /\ \A p \in Paths : Promised(p) = vault[p]
    BY <2>1, InitInv, ShownState DEF Shown
  <2> QED
    BY <2>2, ConstantFacts DEF Atomic!Init, Atomic!Values, Values, Init
<1>2. IInv /\ IInv' /\ SnapshotInv /\ [Next]_vars => [Atomic!Next]_(Atomic!avars)
  BY AtomicStep
<1> QED
  BY <1>1, <1>2, Inductive, SnapshotsKept, PTL
     DEF Spec, ImplementsAtomicVault, Atomic!Spec
=============================================================================
