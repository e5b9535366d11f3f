-------------------------- MODULE CheckpointProofs --------------------------
(***************************************************************************)
(* For all operations, files, branches and bounds: however a checkpoint is *)
(* interrupted, resumed and crossed by the person who uses Git, history    *)
(* gets at most one commit for an operation, that commit is exact, no      *)
(* commit is dropped from a branch, and unless the person moves what the   *)
(* call has looked at for the last time nothing staged is replaced and     *)
(* only what is in history is recorded as finished.                        *)
(***************************************************************************)
EXTENDS Checkpoint, TLAPS

\* The bounds are numbers, and commits are counted up to the first of them.
LEMMA Facts ==
  /\ MaxCommits \in Nat /\ MaxUses \in Nat /\ MaxCrashes \in Nat
  /\ Commits = 0..MaxCommits
  BY CheckpointAssumption DEF Commits

\* The idle call has its type.
LEMMA NoCallType == NoCall \in Records
<1>1. (CHOOSE o \in Operations : TRUE) \in Operations
  BY CheckpointAssumption
<1>2. Detached \in Heads /\ 0 \in Commits
  BY Facts DEF Heads
<1> QED
  BY <1>1, <1>2 DEF NoCall, Records

\* What a call gets that starts anew.
LEMMA StartedCall ==
  ASSUME NEW o \in Operations, NEW s \in SUBSET Files
  PROVE  LET c == [NoCall EXCEPT !.op = o, !.paths = s]
         IN c \in Records /\ c.op = o /\ c.paths = s
  BY NoCallType DEF Records

\* What Prepare and Build add to it.
LEMMA CallFields ==
  ASSUME NEW r \in Records, NEW b \in Commits, NEW h \in Heads
  PROVE  LET p == [r EXCEPT !.base = b, !.ref = h]
             c == [r EXCEPT !.commit = b]
         IN /\ p \in Records /\ p.base = b /\ p.op = r.op /\ p.paths = r.paths
            /\ c \in Records /\ c.commit = b /\ c.op = r.op
            /\ c.paths = r.paths /\ c.base = r.base
  BY DEF Records

\* Selections are sets of files.
LEMMA SelectionType ==
  ASSUME NEW o \in Operations, NEW s \in Selections(o)
  PROVE  s \in SUBSET Files /\ s \subseteq PathsOf[o]
  BY CheckpointAssumption DEF Selections

\* HEAD, the target of a call and the trees of commits have their types.
LEMMA GitTypes ==
  ASSUME TypeOK
  PROVE  /\ HeadCommit \in Commits
         /\ Target \in Heads /\ TargetCommit \in Commits
         /\ \A c \in Commits : TreeOf(c) \in Trees
<1>1. call.ref \in Heads
  BY DEF TypeOK, Records
<1>2. Target \in Heads
  BY <1>1 DEF TypeOK, Target
<1>3. \A c \in Commits : TreeOf(c) \in Trees
  BY DEF TypeOK, Objects, TreeOf
<1> QED
  BY <1>2, <1>3 DEF TypeOK, HeadCommit, TargetCommit

\* What a new commit is, and that the others stay.
LEMMA NewCommitFacts ==
  ASSUME TypeOK, NEW tree \in Trees, NEW parent \in Commits,
         NEW o \in Operations \cup {NoOperation}, NewCommit(tree, parent, o)
  PROVE  /\ made' = made + 1 /\ made' \in Commits
         /\ object' \in [Commits -> Objects]
         /\ \A c \in Commits : c # made' => object'[c] = object[c]
         /\ object'[made'].tree = tree /\ object'[made'].parent = parent
         /\ object'[made'].past = object[parent].past \cup {made'}
         /\ object'[made'].of = o
<1> DEFINE new == [tree |-> tree, parent |-> parent,
                   past |-> object[parent].past \cup {made + 1}, of |-> o]
<1>1. made' = made + 1 /\ made + 1 \in Commits
  BY Facts DEF TypeOK, NewCommit
<1>2. object[parent].past \subseteq Commits
  BY DEF TypeOK, Objects
<1>3. new \in Objects
  BY <1>1, <1>2 DEF Objects
<1>4. new.tree = tree /\ new.parent = parent /\ new.of = o
      /\ new.past = object[parent].past \cup {made + 1}
  OBVIOUS
<1>5. object' = [object EXCEPT ![made + 1] = new]
  BY DEF NewCommit
<1> HIDE DEF new
<1>6. object' \in [Commits -> Objects] /\ object'[made + 1] = new
      /\ \A c \in Commits : c # made + 1 => object'[c] = object[c]
  BY <1>1, <1>3, <1>5 DEF TypeOK
<1> QED
  BY <1>1, <1>4, <1>6

\* Commits and operations that NewCommit is used with.
LEMMA BuildFacts ==
  ASSUME TypeOK
  PROVE  call.op \in Operations /\ call.base \in Commits /\ call.commit \in Commits
         /\ call.ref \in Heads /\ call.paths \subseteq Files
         /\ Candidate \in Trees
<1>1. call.op \in Operations /\ call.base \in Commits /\ call.commit \in Commits
      /\ call.ref \in Heads /\ call.paths \subseteq Files
  BY DEF TypeOK, Records
<1>2. TreeOf(call.base) \in Trees
  BY <1>1, GitTypes
<1> QED
  BY <1>1, <1>2 DEF TypeOK, Candidate, Trees

-----------------------------------------------------------------------------
(***************************************************************************)
(* Type correctness                                                        *)
(***************************************************************************)
LEMMA TypeInit == Init => TypeOK
<1> SUFFICES ASSUME Init PROVE TypeOK
  OBVIOUS
<1>1. 0 \in Commits /\ 0 \in 0..MaxUses /\ 0 \in 0..MaxCrashes
  BY Facts
<1>2. BaseTree \in Trees
  BY CheckpointAssumption
<1>3. [tree |-> BaseTree, parent |-> 0, past |-> {0}, of |-> NoOperation] \in Objects
  BY <1>1, <1>2 DEF Objects
<1>4. object \in [Commits -> Objects]
  BY <1>3 DEF Init
<1>5. call \in Records /\ pc \in PCs
  BY NoCallType DEF Init, PCs
<1> QED
  BY <1>1, <1>2, <1>4, <1>5 DEF Init, TypeOK

LEMMA TypeStep == TypeOK /\ [Next]_vars => TypeOK'
<1> SUFFICES ASSUME TypeOK, [Next]_vars PROVE TypeOK'
  OBVIOUS
<1> USE DEF git, store, engine, bounds
<1> DEFINE EngineType == pc' \in PCs /\ call' \in Records
                         /\ overtaken' \subseteq {"ref", "index"}
<1>a. GiveUp => EngineType
  BY NoCallType DEF GiveUp, PCs
<1>b. \A l \in PCs : Goto(l) => EngineType
  BY DEF Goto, TypeOK
<1>c. \A l \in PCs : LookAtIndex(l) => EngineType
  BY DEF LookAtIndex, TypeOK
<1>1. CASE UNCHANGED vars
  BY <1>1 DEF vars, TypeOK
<1>2. CASE \E o \in Operations : CompleteOperation(o)
  <2> PICK o \in Operations : CompleteOperation(o)
    BY <1>2
  <2>1. worktree' \in Trees
    BY CheckpointAssumption DEF CompleteOperation, TypeOK, Trees
  <2> QED
    BY <2>1 DEF CompleteOperation, TypeOK
<1>3. CASE \E o \in Operations : AnswerExisting(o)
  BY <1>3 DEF AnswerExisting, TypeOK
<1>4. CASE \E o \in Operations : ResumeCheckpoint(o)
  BY <1>4 DEF ResumeCheckpoint, Unfinished, TypeOK, PCs
<1>5. CASE \E o \in Operations : \E s \in Selections(o) : StartCheckpoint(o, s)
  <2> PICK o \in Operations : \E s \in Selections(o) : StartCheckpoint(o, s)
    BY <1>5
  <2> PICK s \in Selections(o) : StartCheckpoint(o, s)
    OBVIOUS
  <2>1. call' \in Records /\ pc' \in PCs
    BY StartedCall, SelectionType DEF StartCheckpoint, PCs
  <2> QED
    BY <2>1 DEF StartCheckpoint, TypeOK
<1>6. CASE Prepare
  <2>1. EngineType
    <3>1. [call EXCEPT !.base = HeadCommit, !.ref = head] \in Records
      BY CallFields, GitTypes DEF TypeOK
    <3> QED
      BY <1>6, <1>a, <3>1 DEF Prepare, PCs, TypeOK
  <2> QED
    BY <1>6, <2>1 DEF Prepare, TypeOK
<1>7. CASE Build
  <2>1. CASE NewCommit(Candidate, call.base, call.op)
             /\ pc' = "recheck" /\ call' = [call EXCEPT !.commit = made + 1]
             /\ UNCHANGED overtaken
    <3>1. made' \in Commits /\ made' = made + 1 /\ object' \in [Commits -> Objects]
      BY <2>1, NewCommitFacts, BuildFacts
    <3>2. call' \in Records /\ pc' \in PCs
      BY <2>1, <3>1, CallFields, Facts DEF PCs, TypeOK, Records
    <3> QED
      BY <1>7, <2>1, <3>1, <3>2 DEF Build, TypeOK
  <2>2. CASE GiveUp /\ UNCHANGED <<object, made>>
    BY <1>7, <2>2, <1>a DEF Build, TypeOK
  <2> QED
    BY <1>7, <2>1, <2>2 DEF Build
<1>8. CASE \/ Recheck \/ LookAtRef \/ AssertUnmoved \/ LookAfterRefusal
           \/ Confirm \/ SyncIndex \/ CheckIndex
  <2>1. EngineType
    BY <1>8, <1>a, <1>b, <1>c DEF Recheck, LookAtRef, AssertUnmoved, LookAfterRefusal,
       Confirm, SyncIndex, CheckIndex, PCs
  <2> QED
    BY <1>8, <2>1 DEF Recheck, LookAtRef, AssertUnmoved, LookAfterRefusal,
       Confirm, SyncIndex, CheckIndex, TypeOK
<1>9. CASE WritePending \/ WriteFinal
  <2>1. EngineType
    BY <1>9, <1>b DEF WritePending, WriteFinal, PCs
  <2> QED
    BY <1>9, <2>1, BuildFacts DEF WritePending, WriteFinal, TypeOK
<1>10. CASE UpdateRef
  <2>1. EngineType
    BY <1>10, <1>a, <1>b DEF UpdateRef, PCs
  <2>2. refs' \in [Heads -> Commits]
    BY <1>10, BuildFacts, GitTypes DEF UpdateRef, TypeOK
  <2> QED
    BY <1>10, <2>1, <2>2 DEF UpdateRef, TypeOK
<1>11. CASE ReadTree
  <2>1. EngineType
    BY <1>11, <1>b DEF ReadTree, PCs
  <2> QED
    BY <1>11, <2>1, BuildFacts, GitTypes DEF ReadTree, TypeOK
<1>12. CASE UnlinkPending \/ Crash
  <2>1. EngineType
    BY <1>12, <1>a DEF UnlinkPending, Crash
  <2> QED
    BY <1>12, <2>1, Facts DEF UnlinkPending, Crash, TypeOK
<1>13. CASE \E f \in Files : \E c \in Contents \cup {Absent} : EditFile(f, c)
  <2> PICK f \in Files, c \in Contents \cup {Absent} : EditFile(f, c)
    BY <1>13
  <2>1. worktree' \in Trees
    BY DEF EditFile, TypeOK, Trees
  <2> QED
    BY <2>1, Facts DEF EditFile, Use, TypeOK
<1>14. ASSUME NEW moving \in SUBSET {"ref", "index"}, UseGit(moving)
       PROVE  uses' \in 0..MaxUses /\ disturbed' \in BOOLEAN /\ EngineType
  BY <1>14, Facts DEF UseGit, Use, TypeOK
<1>15. CASE \E f \in Files : StageFile(f) \/ IntendFile(f)
  <2> PICK f \in Files : StageFile(f) \/ IntendFile(f)
    BY <1>15
  <2>1. worktree[f] \in Contents \cup {Absent} /\ TreeOf(HeadCommit)[f] \in Contents \cup {Absent}
    BY GitTypes DEF TypeOK, Trees
  <2>2. index' \in Trees /\ intent' \subseteq Files
    BY <2>1 DEF StageFile, IntendFile, TypeOK, Trees
  <2> QED
    BY <1>14, <2>2 DEF StageFile, IntendFile, TypeOK
<1>16. CASE CommitIndex
  <2>1. made' \in Commits /\ made' = made + 1 /\ object' \in [Commits -> Objects]
    BY <1>16, NewCommitFacts, GitTypes DEF CommitIndex, TypeOK
  <2>2. refs' \in [Heads -> Commits]
    BY <1>16, <2>1 DEF CommitIndex, TypeOK
  <2> QED
    BY <1>14, <1>16, <2>1, <2>2 DEF CommitIndex, TypeOK
<1>17. CASE \E c \in Commits : ResetTo(c)
  <2> PICK c \in Commits : ResetTo(c)
    BY <1>17
  <2>1. refs' \in [Heads -> Commits] /\ index' \in Trees
    BY GitTypes DEF ResetTo, TypeOK
  <2> QED
    BY <1>14, <2>1 DEF ResetTo, TypeOK
<1>18. CASE \E h \in Heads : Switch(h)
  <2> PICK h \in Heads : Switch(h)
    BY <1>18
  <2> DEFINE to == IF h = Detached THEN HeadCommit ELSE refs[h]
  <2>1. to \in Commits /\ TreeOf(to) \in Trees
    BY GitTypes DEF TypeOK
  <2>2. head' = h /\ refs' = [refs EXCEPT ![h] = to] /\ UseGit({"ref", "index"})
        /\ UNCHANGED <<completed, object, made, intent, store, crashes>>
    BY DEF Switch
  <2>3. \A f \in Files : /\ index[f] \in Contents \cup {Absent}
                        /\ worktree[f] \in Contents \cup {Absent}
                        /\ TreeOf(to)[f] \in Contents \cup {Absent}
    BY <2>1 DEF TypeOK, Trees
  <2>4. /\ index' = [f \in Files |-> IF TreeOf(HeadCommit)[f] # TreeOf(to)[f]
                                     THEN TreeOf(to)[f] ELSE index[f]]
        /\ worktree' = [f \in Files |-> IF TreeOf(HeadCommit)[f] # TreeOf(to)[f]
                                        THEN TreeOf(to)[f] ELSE worktree[f]]
    BY DEF Switch
  <2> HIDE DEF to
  <2>5. index' \in Trees /\ worktree' \in Trees
    BY <2>3, <2>4 DEF Trees
  <2>6. refs' \in [Heads -> Commits]
    BY <2>1, <2>2 DEF TypeOK
  <2> QED
    BY <1>14, <2>2, <2>5, <2>6 DEF TypeOK
<1> QED
  BY <1>1, <1>2, <1>3, <1>4, <1>5, <1>6, <1>7, <1>8, <1>9, <1>10, <1>11, <1>12,
     <1>13, <1>15, <1>16, <1>17, <1>18 DEF Next, Engine, Person

\* Every variable keeps its type, for all constants.
THEOREM TypeCorrect == Spec => []TypeOK
  BY TypeInit, TypeStep, PTL DEF Spec

-----------------------------------------------------------------------------
(***************************************************************************)
(* Which steps change what                                                 *)
(***************************************************************************)

\* Commits and refs change in five places only.
LEMMA GitChanges ==
  ASSUME [Next]_vars
  PROVE  \/ UNCHANGED <<object, made, refs>>
         \/ Build \/ UpdateRef \/ CommitIndex
         \/ \E c \in Commits : ResetTo(c)
         \/ \E h \in Heads : Switch(h)
<1> USE DEF git, store, engine, bounds
<1>1. CASE UNCHANGED vars
  BY <1>1 DEF vars
<1>2. ASSUME NEW o \in Operations,
             \/ CompleteOperation(o) \/ AnswerExisting(o) \/ ResumeCheckpoint(o)
             \/ \E s \in Selections(o) : StartCheckpoint(o, s)
      PROVE  UNCHANGED <<object, made, refs>>
  BY <1>2 DEF CompleteOperation, AnswerExisting, ResumeCheckpoint, StartCheckpoint
<1>3. CASE \/ Prepare \/ Recheck \/ WritePending \/ LookAtRef \/ AssertUnmoved
           \/ LookAfterRefusal \/ Confirm \/ SyncIndex \/ ReadTree \/ CheckIndex
           \/ WriteFinal \/ UnlinkPending \/ Crash
  BY <1>3 DEF Prepare, Recheck, WritePending, LookAtRef, AssertUnmoved,
              LookAfterRefusal, Confirm, SyncIndex, ReadTree, CheckIndex,
              WriteFinal, UnlinkPending, Crash
<1>4. ASSUME NEW f \in Files,
             \/ StageFile(f) \/ IntendFile(f)
             \/ \E c \in Contents \cup {Absent} : EditFile(f, c)
      PROVE  UNCHANGED <<object, made, refs>>
  BY <1>4 DEF StageFile, IntendFile, EditFile
<1> QED
  BY <1>1, <1>2, <1>3, <1>4 DEF Next, Engine, Person

\* The records change in four places only.
LEMMA StoreChanges ==
  ASSUME [Next]_vars
  PROVE  \/ UNCHANGED store
         \/ \E o \in Operations : AnswerExisting(o)
         \/ WritePending \/ WriteFinal \/ UnlinkPending
<1> USE DEF git, store, engine, bounds
<1>1. CASE UNCHANGED vars
  BY <1>1 DEF vars
<1>2. ASSUME NEW o \in Operations,
             \/ CompleteOperation(o) \/ ResumeCheckpoint(o)
             \/ \E s \in Selections(o) : StartCheckpoint(o, s)
      PROVE  UNCHANGED store
  BY <1>2 DEF CompleteOperation, ResumeCheckpoint, StartCheckpoint
<1>3. CASE \/ Prepare \/ Build \/ Recheck \/ LookAtRef \/ AssertUnmoved
           \/ UpdateRef \/ LookAfterRefusal \/ Confirm \/ SyncIndex \/ ReadTree
           \/ CheckIndex \/ Crash
  BY <1>3 DEF Prepare, Build, Recheck, LookAtRef, AssertUnmoved, UpdateRef,
              LookAfterRefusal, Confirm, SyncIndex, ReadTree, CheckIndex, Crash
<1>4. CASE Person
  BY <1>4 DEF Person, StageFile, IntendFile, EditFile, CommitIndex, ResetTo, Switch,
              UseGit
<1> QED
  BY <1>1, <1>2, <1>3, <1>4 DEF Next, Engine

\* A person's step and an operation's completion leave the call alone.
LEMMA PersonStep ==
  ASSUME Person \/ UNCHANGED vars \/ \E o \in Operations : CompleteOperation(o)
  PROVE  UNCHANGED <<pc, call, pending, final>>
  BY DEF Person, StageFile, IntendFile, EditFile, CommitIndex, ResetTo, Switch,
         UseGit, CompleteOperation, vars, store, engine

\* Commits stay what they are.
LEMMA Kept ==
  ASSUME TypeOK, [Next]_vars
  PROVE  /\ Made \subseteq Made' /\ Made \subseteq Commits
         /\ \A c \in Made : object'[c] = object[c]
<1>1. Made \subseteq Commits
  BY Facts DEF TypeOK, Made
<1>2. ASSUME NEW tree \in Trees, NEW parent \in Commits,
             NEW o \in Operations \cup {NoOperation}, NewCommit(tree, parent, o)
      PROVE  Made \subseteq Made' /\ \A c \in Made : object'[c] = object[c]
  <2>1. made' = made + 1 /\ \A c \in Commits : c # made' => object'[c] = object[c]
    BY <1>2, NewCommitFacts
  <2> QED
    BY <1>1, <2>1, Facts DEF TypeOK, Made
<1>3. CASE UNCHANGED <<object, made>>
  BY <1>1, <1>3 DEF Made
<1>4. CASE NewCommit(Candidate, call.base, call.op)
  BY <1>1, <1>2, <1>4, BuildFacts
<1>5. CASE NewCommit(index, HeadCommit, NoOperation)
  BY <1>1, <1>2, <1>5, GitTypes DEF TypeOK
<1>6. \/ UNCHANGED <<object, made>>
      \/ NewCommit(Candidate, call.base, call.op)
      \/ NewCommit(index, HeadCommit, NoOperation)
  BY GitChanges DEF Build, UpdateRef, CommitIndex, ResetTo, Switch
<1> QED
  BY <1>3, <1>4, <1>5, <1>6

\* A record that is sound stays so.
LEMMA SoundStays ==
  ASSUME TypeOK, [Next]_vars, NEW r, Sound(r)
  PROVE  Sound(r)'
  BY Kept DEF Sound

-----------------------------------------------------------------------------
(***************************************************************************)
(* The commits                                                             *)
(***************************************************************************)

\* A new commit of a known parent keeps the commits in order.
LEMMA GitGrows ==
  ASSUME TypeOK, GitInv, NEW tree \in Trees, NEW parent \in Made,
         NEW o \in Operations \cup {NoOperation}, NewCommit(tree, parent, o),
         \A h \in Heads : refs'[h] \in Made'
  PROVE  GitInv'
<1>1. parent \in Commits /\ Made \subseteq Commits /\ made \in Nat
  BY Facts DEF TypeOK, Made
<1>2. /\ made' = made + 1
      /\ \A c \in Commits : c # made' => object'[c] = object[c]
      /\ object'[made'].parent = parent
      /\ object'[made'].past = object[parent].past \cup {made'}
  BY <1>1, NewCommitFacts
<1>3. Made' = Made \cup {made'} /\ made' \notin Made
  BY <1>1, <1>2 DEF Made
<1>4. \A c \in Made : object'[c] = object[c]
  BY <1>1, <1>2, <1>3
<1>5. ASSUME NEW c \in Made
      PROVE  /\ c \in object'[c].past
             /\ object'[c].past \subseteq Made'
             /\ object'[c].parent \in Made'
             /\ \A a \in object'[c].past : object'[a].past \subseteq object'[c].past
  BY <1>3, <1>4 DEF GitInv
<1>6. /\ made' \in object'[made'].past
      /\ object'[made'].past \subseteq Made'
      /\ object'[made'].parent \in Made'
      /\ \A a \in object'[made'].past : object'[a].past \subseteq object'[made'].past
  BY <1>2, <1>3, <1>4 DEF GitInv
<1> QED
  BY <1>3, <1>5, <1>6 DEF GitInv

\* Moving refs to commits that exist keeps them in order.
LEMMA RefsMove ==
  ASSUME GitInv, UNCHANGED <<object, made>>, \A h \in Heads : refs'[h] \in Made
  PROVE  GitInv'
  BY DEF GitInv, Made

LEMMA GitStep ==
  ASSUME TypeOK, GitInv, RecordInv, CallInv, [Next]_vars
  PROVE  GitInv'
<1> USE DEF git, store, engine, bounds
<1>a. HeadCommit \in Made /\ \A h \in Heads : refs[h] \in Made
  BY DEF GitInv, TypeOK, HeadCommit
<1>b. Made \subseteq Made'
  BY Kept
<1>1. CASE UNCHANGED <<object, made, refs>>
  BY <1>1, <1>a, RefsMove
<1>2. CASE Build
  <2>1. call.base \in Made
    BY <1>2 DEF Build, CallInv
  <2>2. CASE NewCommit(Candidate, call.base, call.op)
    <3>1. \A h \in Heads : refs'[h] \in Made'
      BY <1>2, <1>a, <1>b DEF Build
    <3> QED
      BY <2>1, <2>2, <3>1, BuildFacts, GitGrows
  <2>3. CASE UNCHANGED <<object, made>>
    BY <1>2, <2>3, <1>a, RefsMove DEF Build
  <2> QED
    BY <1>2, <2>2, <2>3 DEF Build
<1>3. CASE UpdateRef
  <2>1. pending[call.op] = call /\ call.op \in Operations
    BY <1>3, BuildFacts DEF UpdateRef, CallInv, Resumed, Windows
  <2>2. call.commit \in Made
    <3>1. call # NoRecord
      BY CheckpointAssumption DEF TypeOK
    <3> QED
      BY <2>1, <3>1 DEF RecordInv, Sound
  <2>3. \A h \in Heads : refs'[h] \in Made
    BY <1>3, <1>a, <2>2 DEF UpdateRef, TypeOK
  <2> QED
    BY <1>3, <2>3, RefsMove DEF UpdateRef
<1>4. CASE CommitIndex
  <2>1. NewCommit(index, HeadCommit, NoOperation) /\ refs' = [refs EXCEPT ![head] = made + 1]
    BY <1>4 DEF CommitIndex
  <2>2. made + 1 \in Made'
    BY <2>1, Facts DEF NewCommit, Made, TypeOK
  <2>3. \A h \in Heads : refs'[h] \in Made'
    BY <1>a, <1>b, <2>1, <2>2 DEF TypeOK
  <2> QED
    BY <1>a, <2>1, <2>3, GitGrows DEF TypeOK
<1>5. CASE \E c \in Commits : ResetTo(c)
  <2> PICK c \in Commits : ResetTo(c)
    BY <1>5
  <2>1. c \in Made
    BY <1>a DEF ResetTo, GitInv
  <2>2. \A h \in Heads : refs'[h] \in Made
    BY <1>a, <2>1 DEF ResetTo, TypeOK
  <2> QED
    BY <2>2, RefsMove DEF ResetTo
<1>6. CASE \E h \in Heads : Switch(h)
  <2> PICK h \in Heads : Switch(h)
    BY <1>6
  <2>1. refs' = [refs EXCEPT ![h] = IF h = Detached THEN HeadCommit ELSE refs[h]]
        /\ UNCHANGED <<object, made>>
    BY DEF Switch
  <2>2. \A g \in Heads : refs'[g] \in Made
    BY <1>a, <2>1 DEF TypeOK
  <2> QED
    BY <2>1, <2>2, RefsMove
<1> QED
  BY <1>1, <1>2, <1>3, <1>4, <1>5, <1>6, GitChanges

\* A commit that is built has the operation's bytes or its parent's.
LEMMA ExactStep ==
  ASSUME TypeOK, GitInv, ExactInv, CallInv, [Next]_vars
  PROVE  ExactInv'
<1>1. /\ Made \subseteq Commits /\ Made \subseteq Made'
      /\ \A c \in Made : object'[c] = object[c]
  BY Kept
<1>2. ASSUME NEW c \in Made
      PROVE  Exact(c)'
  <2>1. object'[c] = object[c] /\ object'[object[c].parent] = object[object[c].parent]
    BY <1>1, <1>2 DEF GitInv
  <2> QED
    BY <2>1 DEF ExactInv, Exact, TreeOf
<1>3. CASE UNCHANGED made
  BY <1>2, <1>3 DEF ExactInv, Made
<1>4. ASSUME NEW tree \in Trees, NEW parent \in Made,
             NEW o \in Operations \cup {NoOperation}, NewCommit(tree, parent, o),
             o # NoOperation => \A f \in Files :
               \/ tree[f] = TreeOf(parent)[f]
               \/ f \in PathsOf[o] /\ tree[f] = ContentOf[o][f]
      PROVE  ExactInv'
  <2>1. /\ made' = made + 1
        /\ object'[made'].tree = tree /\ object'[made'].parent = parent
        /\ object'[made'].of = o
    BY <1>1, <1>4, NewCommitFacts
  <2>2. object'[parent] = object[parent]
    BY <1>1
  <2>3. ASSUME NEW c, c = made'
        PROVE  Exact(c)'
    BY <1>4, <2>3, <2>1, <2>2 DEF Exact, TreeOf
  <2>4. Made' = Made \cup {made'}
    BY <2>1, Facts DEF Made, TypeOK
  <2> QED
    BY <1>2, <2>3, <2>4 DEF ExactInv
<1>5. CASE Build /\ NewCommit(Candidate, call.base, call.op)
  <2>1. CASE UNCHANGED <<object, made>>
    BY <1>3, <2>1
  <2>2. CASE ~UNCHANGED <<object, made>>
    <3>1. Verified(call.op, call.paths, Candidate) /\ call.base \in Made
          /\ call.paths \subseteq PathsOf[call.op]
      BY <1>5, <2>2 DEF Build, CallInv, Begun
    <3>2. \A f \in Files : \/ Candidate[f] = TreeOf(call.base)[f]
                          \/ /\ f \in PathsOf[call.op]
                             /\ Candidate[f] = ContentOf[call.op][f]
      BY <3>1 DEF Candidate, Verified
    <3> QED
      BY <1>4, <1>5, <3>1, <3>2, BuildFacts
  <2> QED
    BY <2>1, <2>2
<1>6. CASE NewCommit(index, HeadCommit, NoOperation)
  <2>1. HeadCommit \in Made
    BY DEF GitInv, TypeOK, HeadCommit
  <2> QED
    BY <1>4, <1>6, <2>1 DEF TypeOK
<1> QED
  BY <1>3, <1>5, <1>6, GitChanges
  DEF Build, UpdateRef, CommitIndex, ResetTo, Switch

-----------------------------------------------------------------------------
(***************************************************************************)
(* The records and the call                                                *)
(***************************************************************************)

\* A call in the middle of a checkpoint is a record, and never NoRecord.
LEMMA CallIsRecord ==
  ASSUME TypeOK
  PROVE  call \in Records /\ call # NoRecord /\ call.op \in Operations
  BY CheckpointAssumption DEF TypeOK, Records

\* A record that is written now and was sound before is sound afterwards.
LEMMA PendingSound ==
  ASSUME TypeOK, RecordInv, [Next]_vars, NEW o \in Operations,
         pending[o] # NoRecord, pending'[o] = pending[o]
  PROVE  pending'[o].op = o /\ Sound(pending[o])'
<1>1. pending[o].op = o /\ Sound(pending[o])
  BY DEF RecordInv
<1>2. \A r : Sound(r) => Sound(r)'
  BY SoundStays
<1>3. \A r : r = pending[o] => Sound(r)'
  BY <1>1, <1>2
<1>4. Sound(pending[o])'
  BY <1>3 DEF Sound
<1> QED
  BY <1>1, <1>4

LEMMA RecordStep ==
  ASSUME TypeOK, RecordInv, CallInv, [Next]_vars
  PROVE  RecordInv'
<1> USE DEF git, store, engine, bounds
<1>1. CASE UNCHANGED store
  <2>1. OnePending'
    BY <1>1 DEF RecordInv, OnePending
  <2>2. ASSUME NEW o \in Operations, pending'[o] # NoRecord
        PROVE  /\ pending'[o].op = o /\ Sound(pending[o])'
               /\ final'[o] # NoRecord => final'[o].commit = pending'[o].commit
    BY <1>1, <2>2, PendingSound DEF RecordInv
  <2> QED
    BY <2>1, <2>2 DEF RecordInv
<1>2. CASE (\E o \in Operations : AnswerExisting(o)) \/ UnlinkPending
  <2>1. PICK p \in Operations : pending' = [pending EXCEPT ![p] = NoRecord]
                               /\ UNCHANGED final
    BY <1>2, CallIsRecord DEF AnswerExisting, UnlinkPending
  <2>2. \A o \in Operations : pending'[o] # NoRecord =>
          pending[o] # NoRecord /\ pending'[o] = pending[o]
    BY <2>1 DEF TypeOK
  <2>3. OnePending'
    BY <2>2 DEF RecordInv, OnePending
  <2>4. ASSUME NEW o \in Operations, pending'[o] # NoRecord
        PROVE  /\ pending'[o].op = o /\ Sound(pending[o])'
               /\ final'[o] # NoRecord => final'[o].commit = pending'[o].commit
    BY <2>1, <2>2, <2>4, PendingSound DEF RecordInv
  <2> QED
    BY <2>3, <2>4 DEF RecordInv
<1>3. CASE WritePending
  <2>1. /\ \A o \in Operations : pending[o] = NoRecord
        /\ final[call.op] = NoRecord /\ Sound(call)
    BY <1>3 DEF WritePending, CallInv, Begun
  <2>2. /\ pending' = [pending EXCEPT ![call.op] = call]
        /\ UNCHANGED <<call, final, object, made>>
    BY <1>3 DEF WritePending, Goto
  <2>3. \A o \in Operations : pending'[o] = IF o = call.op THEN call ELSE NoRecord
    BY <2>1, <2>2, CallIsRecord DEF TypeOK
  <2>4. OnePending'
    BY <2>3 DEF OnePending
  <2>5. ASSUME NEW o \in Operations, pending'[o] # NoRecord
        PROVE  /\ pending'[o].op = o /\ Sound(pending[o])'
               /\ final'[o] # NoRecord => final'[o].commit = pending'[o].commit
    BY <2>1, <2>2, <2>3, <2>5 DEF Sound, Made
  <2> QED
    BY <2>4, <2>5 DEF RecordInv
<1>4. CASE WriteFinal
  <2>1. pending[call.op] = call
    BY <1>4 DEF WriteFinal, CallInv, Resumed, Windows
  <2>2. final' = [final EXCEPT ![call.op] = call] /\ UNCHANGED pending
    BY <1>4 DEF WriteFinal
  <2>3. \A o \in Operations : final'[o] = IF o = call.op THEN call ELSE final[o]
    BY <2>2 DEF TypeOK
  <2>4. OnePending'
    BY <2>2 DEF RecordInv, OnePending
  <2>5. ASSUME NEW o \in Operations, pending'[o] # NoRecord
        PROVE  /\ pending'[o].op = o /\ Sound(pending[o])'
               /\ final'[o] # NoRecord => final'[o].commit = pending'[o].commit
    BY <2>1, <2>2, <2>3, <2>5, PendingSound DEF RecordInv
  <2> QED
    BY <2>4, <2>5 DEF RecordInv
<1> QED
  BY <1>1, <1>2, <1>3, <1>4, StoreChanges

\* Nothing is promised of a call that has ended.
LEMMA IdleCall == pc' = "idle" => CallInv'
  BY DEF CallInv, Begun, Resumed, Windows

\* A call that moves between steps which promise the same.
LEMMA CallMoves ==
  ASSUME TypeOK, CallInv, [Next]_vars, UNCHANGED <<call, pending, final>>,
         \/ pc' = pc
         \/ pc \in Resumed /\ pc' \in Resumed
         \/ pc = "recheck" /\ pc' = "record"
  PROVE  CallInv'
<1>1. Made \subseteq Made'
  BY Kept
<1>2. Sound(call) => Sound(call)'
  <2>1. \A r : Sound(r) => Sound(r)'
    BY SoundStays
  <2>2. \A r : r = call /\ Sound(call) => Sound(r)'
    BY <2>1
  <2> QED
    BY <2>2 DEF Sound
<1> QED
  BY <1>1, <1>2 DEF CallInv, Begun, Resumed, Windows

LEMMA CallStep ==
  ASSUME TypeOK, GitInv, RecordInv, CallInv, [Next]_vars
  PROVE  CallInv'
<1> USE DEF git, store, engine, bounds
<1>1. CASE Person \/ UNCHANGED vars \/ \E o \in Operations : CompleteOperation(o)
  BY <1>1, PersonStep, CallMoves
<1>2. CASE \E o \in Operations : AnswerExisting(o)
  BY <1>2, IdleCall DEF AnswerExisting
<1>3. CASE \E o \in Operations : ResumeCheckpoint(o)
  <2> PICK o \in Operations : ResumeCheckpoint(o)
    BY <1>3
  <2>1. pending[o].op = o
    BY DEF ResumeCheckpoint, Unfinished, RecordInv
  <2> QED
    BY <2>1 DEF ResumeCheckpoint, Unfinished, CallInv, Begun, Resumed, Windows
<1>4. CASE \E o \in Operations : \E s \in Selections(o) : StartCheckpoint(o, s)
  <2> PICK o \in Operations : \E s \in Selections(o) : StartCheckpoint(o, s)
    BY <1>4
  <2> PICK s \in Selections(o) : StartCheckpoint(o, s)
    OBVIOUS
  <2>1. call'.op = o /\ call'.paths \subseteq PathsOf[o]
    BY StartedCall, SelectionType DEF StartCheckpoint
  <2>2. \A other \in Operations : pending[other] = NoRecord
    BY DEF StartCheckpoint, OtherPending
  <2> QED
    BY <2>1, <2>2 DEF StartCheckpoint, CallInv, Begun, Resumed, Windows
<1>5. CASE Prepare
  <2>1. CASE pc' = "build" /\ call' = [call EXCEPT !.base = HeadCommit, !.ref = head]
    <3>1. call'.op = call.op /\ call'.paths = call.paths /\ call'.base = HeadCommit
      <4>1. head \in Heads /\ HeadCommit \in Commits /\ call \in Records
        BY CallIsRecord, GitTypes DEF TypeOK
      <4> HIDE DEF HeadCommit
      <4> QED
        BY <2>1, <4>1, CallFields
    <3>2. HeadCommit \in Made'
      BY Kept DEF GitInv, TypeOK, HeadCommit
    <3> QED
      BY <1>5, <2>1, <3>1, <3>2 DEF Prepare, CallInv, Begun, Resumed, Windows
  <2>2. CASE GiveUp
    BY <2>2, IdleCall DEF GiveUp
  <2> QED
    BY <1>5, <2>1, <2>2 DEF Prepare
<1>6. CASE Build
  <2>1. CASE /\ NewCommit(Candidate, call.base, call.op)
             /\ pc' = "recheck" /\ call' = [call EXCEPT !.commit = made + 1]
    <3>1. /\ made' = made + 1 /\ made' \in Commits
          /\ object'[made'].past = object[call.base].past \cup {made'}
          /\ object'[made'].of = call.op
      BY <2>1, NewCommitFacts, BuildFacts
    <3>2. /\ call'.op = call.op /\ call'.paths = call.paths
          /\ call'.base = call.base /\ call'.commit = made'
      BY <2>1, <3>1, CallFields, CallIsRecord DEF Records
    <3>3. call.base \in Made /\ call.base \in Made'
          /\ object'[call.base] = object[call.base]
      BY <1>6, Kept DEF Build, CallInv
    <3>4. made' \in Made'
      BY <3>1, Facts DEF Made, TypeOK
    <3>5. Sound(call)'
      BY <3>1, <3>2, <3>3, <3>4 DEF Sound
    <3> QED
      BY <1>6, <2>1, <3>2, <3>5 DEF Build, CallInv, Begun, Resumed, Windows
  <2>2. CASE GiveUp
    BY <2>2, IdleCall DEF GiveUp
  <2> QED
    BY <1>6, <2>1, <2>2 DEF Build
<1>7. CASE \/ Recheck \/ LookAtRef \/ AssertUnmoved \/ UpdateRef \/ LookAfterRefusal
           \/ Confirm \/ SyncIndex \/ ReadTree \/ CheckIndex
  <2>1. CASE GiveUp
    BY <2>1, IdleCall DEF GiveUp
  <2>2. CASE ~GiveUp
    BY <1>7, <2>2, CallMoves DEF Recheck, LookAtRef, AssertUnmoved, UpdateRef,
       LookAfterRefusal, Confirm, SyncIndex, ReadTree, CheckIndex, Goto, LookAtIndex,
       Resumed, Windows
  <2> QED
    BY <2>1, <2>2
<1>8. CASE WritePending
  <2>1. pc' = "look" /\ call' = call /\ pending'[call.op] = call
        /\ final' = final /\ final[call.op] = NoRecord
    BY <1>8, CallIsRecord DEF WritePending, Goto, TypeOK, CallInv, Begun
  <2> QED
    BY <2>1 DEF CallInv, Begun, Resumed, Windows
<1>9. CASE WriteFinal
  <2>1. pc' = "unlink" /\ call' = call /\ pending' = pending
        /\ final'[call.op] = call /\ pending[call.op] = call
    BY <1>9, CallIsRecord DEF WriteFinal, Goto, TypeOK, CallInv, Resumed, Windows
  <2> QED
    BY <2>1 DEF CallInv, Begun, Resumed, Windows
<1>10. CASE UnlinkPending \/ Crash
  BY <1>10, IdleCall DEF UnlinkPending, Crash, GiveUp
<1> QED
  BY <1>1, <1>2, <1>3, <1>4, <1>5, <1>6, <1>7, <1>8, <1>9, <1>10 DEF Next, Engine

-----------------------------------------------------------------------------
(***************************************************************************)
(* History                                                                 *)
(***************************************************************************)

\* Once a record names a commit for an operation, some record always does.
LEMMA RecordedStays ==
  ASSUME TypeOK, RecordInv, CallInv, [Next]_vars,
         NEW o \in Operations, NEW c, Recorded(o, c)
  PROVE  Recorded(o, c)'
<1>1. CASE UNCHANGED store
  BY <1>1 DEF store, Recorded
<1>2. CASE \E p \in Operations : AnswerExisting(p)
  <2> PICK p \in Operations : AnswerExisting(p)
    BY <1>2
  <2>1. final[p] # NoRecord /\ final' = final
        /\ \A q \in Operations : q # p => pending'[q] = pending[q]
    BY DEF AnswerExisting, TypeOK
  <2> QED
    BY <2>1 DEF RecordInv, Recorded
<1>3. CASE WritePending
  <2>1. \A p \in Operations : pending[p] = NoRecord
    BY <1>3 DEF WritePending, CallInv, Begun
  <2> QED
    BY <1>3, <2>1 DEF WritePending, Recorded
<1>4. CASE WriteFinal
  <2>1. final[call.op] = NoRecord /\ pending' = pending
        /\ \A p \in Operations : p # call.op => final'[p] = final[p]
    BY <1>4 DEF WriteFinal, CallInv, Resumed, Windows, TypeOK
  <2> QED
    BY <2>1 DEF Recorded
<1>5. CASE UnlinkPending
  <2>1. pending[call.op] = call /\ final[call.op] = call /\ final' = final
        /\ \A p \in Operations : p # call.op => pending'[p] = pending[p]
    BY <1>5 DEF UnlinkPending, CallInv, TypeOK
  <2> QED
    BY <2>1, CallIsRecord DEF Recorded
<1> QED
  BY <1>1, <1>2, <1>3, <1>4, <1>5, StoreChanges

\* It is enough to look at the commits that are new in the history of a ref.
LEMMA HistoryGrows ==
  ASSUME TypeOK, GitInv, RecordInv, CallInv, HistoryInv, [Next]_vars,
         \A h \in Heads : \A c \in object'[refs'[h]].past :
           \/ \E g \in Heads : c \in object[refs[g]].past
           \/ object'[c].of = NoOperation
           \/ object'[c].of \in Operations /\ Recorded(object'[c].of, c)
  PROVE  HistoryInv'
<1> SUFFICES ASSUME NEW h \in Heads, NEW c \in object'[refs'[h]].past,
                    NEW o, object'[c].of = o, o # NoOperation
             PROVE  Recorded(o, c)'
  BY DEF HistoryInv, Recorded
<1>1. CASE \E g \in Heads : c \in object[refs[g]].past
  <2> PICK g \in Heads : c \in object[refs[g]].past
    BY <1>1
  <2>1. refs[g] \in Made /\ c \in Made
    BY DEF GitInv
  <2>2. object[c].of = o /\ c \in Commits
    BY <2>1, Kept
  <2>3. Recorded(o, c) /\ o \in Operations
    BY <2>2 DEF HistoryInv, TypeOK, Objects
  <2> QED
    BY <2>3, RecordedStays
<1>2. CASE o \in Operations /\ Recorded(o, c)
  BY <1>2, RecordedStays
<1> QED
  BY <1>1, <1>2

LEMMA HistoryStep ==
  ASSUME TypeOK, GitInv, RecordInv, CallInv, HistoryInv, [Next]_vars
  PROVE  HistoryInv'
<1> USE DEF git, store, engine, bounds
<1> DEFINE Old(c) == \E g \in Heads : c \in object[refs[g]].past
<1>a. /\ head \in Heads /\ HeadCommit \in Made /\ HeadCommit = refs[head]
      /\ \A h \in Heads : refs[h] \in Made
  BY DEF GitInv, TypeOK, HeadCommit
<1>b. /\ Made \subseteq Commits
      /\ \A c \in Made : object'[c] = object[c]
  BY Kept
<1>1. CASE UNCHANGED <<object, made, refs>>
  BY <1>1, HistoryGrows
<1>2. CASE Build
  <2>1. \A h \in Heads : object'[refs'[h]] = object[refs[h]]
    BY <1>2, <1>a, <1>b DEF Build
  <2> QED
    BY <2>1, HistoryGrows
<1>3. CASE UpdateRef
  <2>1. CASE UNCHANGED refs
    BY <1>3, <2>1, HistoryGrows DEF UpdateRef
  <2>2. CASE TargetCommit = call.base /\ refs' = [refs EXCEPT ![Target] = call.commit]
    <3>1. pending[call.op] = call
      BY <1>3 DEF UpdateRef, CallInv, Resumed, Windows
    <3>2. Sound(call)
      BY <3>1, CallIsRecord DEF RecordInv, Sound
    <3>3. object' = object /\ Target \in Heads
      BY <1>3, GitTypes DEF UpdateRef
    <3>4. \A h \in Heads : refs'[h] = IF h = Target THEN call.commit ELSE refs[h]
      BY <2>2, <3>3 DEF TypeOK
    <3>5. object[call.commit].past = object[refs[Target]].past \cup {call.commit}
      BY <2>2, <3>2 DEF Sound, TargetCommit
    <3>6. object[call.commit].of = call.op /\ Recorded(call.op, call.commit)
      BY <3>1, <3>2, CallIsRecord DEF Sound, Recorded
    <3>7. ASSUME NEW h \in Heads, NEW c \in object'[refs'[h]].past
          PROVE  Old(c) \/ (object'[c].of \in Operations /\ Recorded(object'[c].of, c))
      <4>1. CASE h = Target
        BY <4>1, <3>3, <3>4, <3>5, <3>6, <3>7, CallIsRecord
      <4>2. CASE h # Target
        BY <4>2, <3>3, <3>4, <3>7
      <4> QED
        BY <4>1, <4>2
    <3> QED
      BY <3>7, HistoryGrows
  <2> QED
    BY <1>3, <2>1, <2>2 DEF UpdateRef
<1>4. CASE CommitIndex
  <2>1. NewCommit(index, HeadCommit, NoOperation) /\ refs' = [refs EXCEPT ![head] = made + 1]
    BY <1>4 DEF CommitIndex
  <2>2. /\ made' = made + 1
        /\ object'[made'].past = object[HeadCommit].past \cup {made'}
        /\ object'[made'].of = NoOperation
    BY <2>1, NewCommitFacts, GitTypes DEF TypeOK
  <2>3. \A h \in Heads : refs'[h] = IF h = head THEN made' ELSE refs[h]
    BY <2>1, <2>2 DEF TypeOK
  <2>4. ASSUME NEW h \in Heads, NEW c \in object'[refs'[h]].past
        PROVE  Old(c) \/ object'[c].of = NoOperation
    <3>1. CASE h = head
      BY <3>1, <1>a, <2>2, <2>3, <2>4
    <3>2. CASE h # head
      BY <3>2, <1>a, <1>b, <2>3, <2>4
    <3> QED
      BY <3>1, <3>2
  <2> QED
    BY <2>4, HistoryGrows
<1>5. CASE \E c \in Commits : ResetTo(c)
  <2> PICK d \in Commits : ResetTo(d)
    BY <1>5
  <2>1. /\ object' = object /\ object[d].past \subseteq object[refs[head]].past
        /\ \A h \in Heads : refs'[h] = IF h = head THEN d ELSE refs[h]
    BY <1>a DEF ResetTo, TypeOK, GitInv
  <2>2. \A h \in Heads : \A c \in object'[refs'[h]].past : Old(c)
    BY <1>a, <2>1
  <2> QED
    BY <2>2, HistoryGrows
<1>6. CASE \E h \in Heads : Switch(h)
  <2> PICK k \in Heads : Switch(k)
    BY <1>6
  <2>1. refs' = [refs EXCEPT ![k] = IF k = Detached THEN HeadCommit ELSE refs[k]]
        /\ object' = object
    BY DEF Switch
  <2>2. \A h \in Heads : \E g \in Heads : refs'[h] = refs[g]
    BY <1>a, <2>1 DEF TypeOK
  <2>3. \A h \in Heads : \A c \in object'[refs'[h]].past : Old(c)
    BY <2>1, <2>2
  <2> QED
    BY <2>3, HistoryGrows
<1> QED
  BY <1>1, <1>2, <1>3, <1>4, <1>5, <1>6, GitChanges

\* A commit of the person on a branch leaves what is in its history there.
LEMMA CommitKeepsAncestors ==
  ASSUME TypeOK, GitInv, CommitIndex, IsAncestor(call.commit, TargetCommit)
  PROVE  IsAncestor(call.commit, TargetCommit)'
<1>1. /\ NewCommit(index, HeadCommit, NoOperation)
      /\ refs' = [refs EXCEPT ![head] = made + 1]
      /\ UNCHANGED <<head, call>>
  BY DEF CommitIndex, UseGit
<1>2. /\ head \in Heads /\ Target \in Heads
      /\ HeadCommit = refs[head] /\ TargetCommit = refs[Target]
      /\ HeadCommit \in Commits /\ HeadCommit \in Made /\ TargetCommit \in Made
  BY GitTypes DEF GitInv, TypeOK, HeadCommit, TargetCommit
<1>3. /\ made' = made + 1
      /\ \A c \in Commits : c # made' => object'[c] = object[c]
      /\ object'[made'].past = object[HeadCommit].past \cup {made'}
  BY <1>1, <1>2, NewCommitFacts DEF TypeOK
<1>4. Target' = Target /\ TargetCommit' = refs'[Target]
  BY <1>1 DEF Target, TargetCommit
<1>5. TargetCommit \in Commits /\ TargetCommit # made'
  BY <1>2, <1>3, Facts DEF Made, TypeOK
<1>6. CASE Target = head
  BY <1>1, <1>2, <1>3, <1>4, <1>6 DEF IsAncestor, TypeOK
<1>7. CASE Target # head
  BY <1>1, <1>2, <1>3, <1>4, <1>5, <1>7 DEF IsAncestor, TypeOK
<1> QED
  BY <1>6, <1>7

\* What the last looks found is still so, or the person has moved it.
LEMMA IndexStep ==
  ASSUME TypeOK, GitInv, RecordInv, CallInv, IndexInv, [Next]_vars
  PROVE  IndexInv'
<1> USE DEF git, store, engine, bounds
<1>1. CASE pc' \notin Windows
  BY <1>1 DEF IndexInv, Windows
<1>2. CASE pc' \in Windows
  <2>1. CASE LookAtRef \/ Confirm
    <3>1. UNCHANGED <<object, refs, head, call>> /\ pc' = "sync"
          /\ IsAncestor(call.commit, TargetCommit)
      BY <1>2, <2>1 DEF LookAtRef, Confirm, Contains, Goto, GiveUp, Windows
    <3>2. IsAncestor(call.commit, TargetCommit)'
      BY <3>1 DEF TargetCommit, Target, IsAncestor
    <3> QED
      BY <3>1, <3>2 DEF IndexInv
  <2>2. CASE SyncIndex \/ ReadTree \/ CheckIndex
    <3>1. /\ UNCHANGED <<object, refs, head, call>> /\ pc \in Windows
          /\ "ref" \in overtaken => "ref" \in overtaken'
          /\ pc' = "read-tree" => index = TreeOf(call.base) /\ index' = index
      BY <1>2, <2>2 DEF SyncIndex, ReadTree, CheckIndex, Goto, LookAtIndex, GiveUp, Windows
    <3>2. (IsAncestor(call.commit, TargetCommit) \/ "ref" \in overtaken)'
      BY <3>1 DEF IndexInv, TargetCommit, Target, IsAncestor
    <3>3. (pc = "read-tree" => index = TreeOf(call.base))'
      BY <3>1 DEF TreeOf
    <3> QED
      BY <3>2, <3>3 DEF IndexInv
  <2>3. CASE (\E o \in Operations : CompleteOperation(o)) \/ UNCHANGED vars
              \/ \E f \in Files : \E c \in Contents \cup {Absent} : EditFile(f, c)
    <3>1. UNCHANGED <<object, refs, head, call, pc, index, overtaken>>
      BY <2>3 DEF CompleteOperation, EditFile, vars
    <3> QED
      BY <3>1 DEF IndexInv, TargetCommit, Target, IsAncestor, TreeOf
  <2>4. ASSUME NEW moving, UseGit(moving)
        PROVE  /\ pc \in Windows /\ UNCHANGED <<pc, call>>
               /\ overtaken' = overtaken \cup moving
    BY <1>2, <2>4 DEF UseGit
  <2>5. CASE \E f \in Files : StageFile(f) \/ IntendFile(f)
    <3>1. /\ UNCHANGED <<object, refs, head, call, pc>> /\ pc \in Windows
          /\ overtaken \subseteq overtaken'
          /\ index' = index \/ "index" \in overtaken'
      BY <2>4, <2>5 DEF StageFile, IntendFile
    <3> QED
      BY <3>1 DEF IndexInv, TargetCommit, Target, IsAncestor, TreeOf
  <2>6. CASE CommitIndex
    <3>1. /\ UNCHANGED <<call, pc, index, overtaken>> /\ pc \in Windows
      BY <2>4, <2>6 DEF CommitIndex
    <3>2. call.base \in Made
      <4>1. pending[call.op] = call
        BY <3>1 DEF CallInv, Resumed, Windows
      <4> QED
        BY <4>1, CallIsRecord DEF RecordInv, Sound
    <3>3. TreeOf(call.base)' = TreeOf(call.base)
      BY <3>1, <3>2, Kept DEF TreeOf
    <3>4. IsAncestor(call.commit, TargetCommit) => IsAncestor(call.commit, TargetCommit)'
      BY <2>6, CommitKeepsAncestors
    <3> QED
      BY <3>1, <3>3, <3>4 DEF IndexInv
  <2>7. CASE (\E c \in Commits : ResetTo(c)) \/ \E h \in Heads : Switch(h)
    <3>1. {"ref", "index"} \subseteq overtaken'
      BY <2>4, <2>7 DEF ResetTo, Switch
    <3> QED
      BY <3>1 DEF IndexInv
  <2>8. CASE (\E o \in Operations : \/ AnswerExisting(o) \/ ResumeCheckpoint(o)
                                   \/ \E s \in Selections(o) : StartCheckpoint(o, s))
              \/ Prepare \/ Build \/ Recheck \/ WritePending \/ AssertUnmoved
              \/ UpdateRef \/ LookAfterRefusal \/ WriteFinal \/ UnlinkPending \/ Crash
    BY <1>2, <2>8 DEF AnswerExisting, ResumeCheckpoint, StartCheckpoint, Prepare, Build,
       Recheck, WritePending, AssertUnmoved, UpdateRef, LookAfterRefusal,
       WriteFinal, UnlinkPending, Crash, Goto, GiveUp, Windows
  <2> QED
    BY <2>1, <2>2, <2>3, <2>5, <2>6, <2>7, <2>8 DEF Next, Engine, Person
<1> QED
  BY <1>1, <1>2

-----------------------------------------------------------------------------
(***************************************************************************)
(* The theorems                                                            *)
(***************************************************************************)

\* The strengthening holds initially and every step keeps it.
LEMMA InvInit == Init => IInv
<1> SUFFICES ASSUME Init PROVE IInv
  OBVIOUS
<1>1. Made = {0} /\ 0 \in Commits
  BY Facts DEF Init, Made
<1>2. /\ object[0].past = {0} /\ object[0].parent = 0
      /\ object[0].of = NoOperation
      /\ \A h \in Heads : refs[h] = 0
      /\ \A o \in Operations : pending[o] = NoRecord /\ final[o] = NoRecord
      /\ pc = "idle"
  BY <1>1 DEF Init
<1>3. GitInv /\ ExactInv /\ HistoryInv
  BY <1>1, <1>2 DEF GitInv, ExactInv, Exact, HistoryInv
<1>4. RecordInv /\ CallInv /\ IndexInv
  BY <1>2 DEF RecordInv, OnePending, CallInv, Begun, Resumed, IndexInv, Windows
<1> QED
  BY <1>3, <1>4, TypeInit DEF IInv

LEMMA InvStep == IInv /\ [Next]_vars => IInv'
  BY TypeStep, GitStep, ExactStep, RecordStep, CallStep, HistoryStep, IndexStep
  DEF IInv

LEMMA Invariant == Spec => []IInv
  BY InvInit, InvStep, PTL DEF Spec

\* What is reachable has been made.
LEMMA ReachableIsMade ==
  ASSUME TypeOK, GitInv
  PROVE  \A c \in Reachable :
           c \in Made /\ \E h \in Heads : c \in object[refs[h]].past
  BY DEF GitInv, Reachable, TypeOK, Heads

\* However often checkpoints are interrupted and asked for again, at most one is
\* between its pending and its final record.
THEOREM AtMostOnePending == Spec => []OnePending
<1>1. IInv => OnePending
  BY DEF IInv, RecordInv
<1> QED
  BY <1>1, Invariant, PTL

\* Whatever is edited or staged while a checkpoint is built, its commit has the
\* bytes the operation recorded and is otherwise its parent.
THEOREM Exactness == Spec => []ExactOperation
<1>1. IInv => ExactOperation
  BY ReachableIsMade DEF IInv, ExactOperation, ExactInv
<1> QED
  BY <1>1, Invariant, PTL

\* However often a checkpoint is interrupted, resumed and asked for again,
\* history gets at most one commit for its operation.
THEOREM OneCommit == Spec => []OneCommitPerOperation
<1>1. ASSUME IInv, NEW c \in Reachable, NEW d \in Reachable,
             object[c].of = object[d].of, object[c].of # NoOperation
      PROVE  c = d
  <2> DEFINE o == object[c].of
  <2>1. Recorded(o, c) /\ Recorded(o, d)
    BY <1>1, ReachableIsMade DEF IInv, HistoryInv
  <2>2. o \in Operations
    BY <1>1, ReachableIsMade, Facts DEF IInv, TypeOK, Objects, Made
  <2> HIDE DEF o
  <2> QED
    BY <1>1, <2>1, <2>2 DEF IInv, RecordInv, Recorded
<1>2. IInv => OneCommitPerOperation
  BY <1>1 DEF OneCommitPerOperation
<1> QED
  BY <1>2, Invariant, PTL

\* A checkpoint moves its branch to a commit that has everything the branch
\* had, also what the person committed there after the checkpoint began.
THEOREM NothingLost == Spec => NoLostCommit
<1>1. ASSUME IInv, Engine
      PROVE  \A r \in Branches : refs[r] \in object'[refs'[r]].past
  <2> USE DEF git, store, engine, bounds
  <2> TAKE r \in Branches
  <2>1. r \in Heads /\ refs[r] \in Made /\ refs[r] \in object[refs[r]].past
    BY <1>1 DEF IInv, GitInv, Heads
  <2>2. \A c \in Made : object'[c] = object[c]
    BY <1>1, Kept DEF IInv, Next
  <2>3. CASE UNCHANGED refs
    BY <2>1, <2>2, <2>3
  <2>4. CASE UpdateRef /\ TargetCommit = call.base
             /\ refs' = [refs EXCEPT ![Target] = call.commit]
    <3>1. Sound(call)
      <4>1. pending[call.op] = call
        BY <1>1, <2>4 DEF UpdateRef, IInv, CallInv, Resumed, Windows
      <4> QED
        BY <1>1, <4>1, CallIsRecord DEF IInv, RecordInv, Sound
    <3>2. Target \in Heads
      BY <1>1, GitTypes DEF IInv
    <3>3. refs'[r] = IF r = Target THEN call.commit ELSE refs[r]
      BY <1>1, <2>1, <2>4, <3>2 DEF IInv, TypeOK
    <3>4. object[call.commit].past = object[refs[Target]].past \cup {call.commit}
          /\ call.commit \in Made
      BY <2>4, <3>1 DEF Sound, TargetCommit
    <3> QED
      BY <2>1, <2>2, <3>3, <3>4
  <2>5. UNCHANGED refs
        \/ (/\ UpdateRef /\ TargetCommit = call.base
            /\ refs' = [refs EXCEPT ![Target] = call.commit])
    BY <1>1 DEF Engine, Prepare, Build, Recheck, WritePending, LookAtRef,
       AssertUnmoved, UpdateRef, LookAfterRefusal, Confirm, SyncIndex, ReadTree,
       CheckIndex, WriteFinal, UnlinkPending
  <2> QED
    BY <2>3, <2>4, <2>5
<1>2. IInv /\ [Next]_vars =>
        [Engine => \A r \in Branches : refs[r] \in object'[refs'[r]].past]_vars
  BY <1>1
<1> QED
  BY <1>2, Invariant, PTL DEF Spec, NoLostCommit

\* A checkpoint replaces the index only while it is the base tree, so that nothing
\* staged is lost, unless the person stages between the look at it and read-tree.
THEOREM StagedKept == Spec => StagedWorkKept
<1> DEFINE Kept1 == index' = index \/ index = TreeOf(call.base) \/ "index" \in overtaken
<1>1. ASSUME IInv, Engine
      PROVE  Kept1
  <2>1. CASE ReadTree
    BY <1>1, <2>1 DEF ReadTree, IInv, IndexInv
  <2>2. CASE ~ReadTree
    BY <1>1, <2>2 DEF Engine, Prepare, Build, Recheck, WritePending, LookAtRef,
       AssertUnmoved, UpdateRef, LookAfterRefusal, Confirm, SyncIndex, CheckIndex,
       WriteFinal, UnlinkPending, git
  <2> QED
    BY <2>1, <2>2
<1>2. IInv /\ [Next]_vars => [Engine => Kept1]_vars
  BY <1>1
<1> QED
  BY <1>2, Invariant, PTL DEF Spec, StagedWorkKept

\* A checkpoint is recorded as finished only while its branch contains its commit,
\* unless the person moves the branch after the call's last look at it.
THEOREM FinishedInHistory == Spec => FinalIsInHistory
<1> DEFINE Finished == \A o \in Operations : final'[o] # final[o] =>
                         IsAncestor(call.commit, TargetCommit) \/ "ref" \in overtaken
<1>1. ASSUME IInv, [Next]_vars, NEW o \in Operations, final'[o] # final[o]
      PROVE  IsAncestor(call.commit, TargetCommit) \/ "ref" \in overtaken
  <2>1. WriteFinal
    BY <1>1, StoreChanges DEF AnswerExisting, WritePending, UnlinkPending, store
  <2> QED
    BY <1>1, <2>1 DEF WriteFinal, IInv, IndexInv, Windows
<1>2. IInv /\ [Next]_vars => [Finished]_vars
  BY <1>1
<1> QED
  BY <1>2, Invariant, PTL DEF Spec, FinalIsInHistory

=============================================================================
