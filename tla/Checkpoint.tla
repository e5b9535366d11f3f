----------------------------- MODULE Checkpoint -----------------------------
(***************************************************************************)
(* Git checkpoints of completed operations: claude_obsidian/checkpoint.py. *)
(*                                                                         *)
(* A checkpoint builds one commit with exactly the files an operation has  *)
(* changed, through an index of its own; records it as pending; moves the  *)
(* branch to it by compare-and-swap; brings the real index up to date; and *)
(* replaces the pending record by a final one.  A call that dies, or that  *)
(* ends with an error, leaves the rest to the next call for the same       *)
(* operation.  The vault's mutation lock lets one call run at a time, but  *)
(* the person who owns the repository uses Git beside it without any lock. *)
(*                                                                         *)
(* A file's content stands for its bytes and its executable bit.  Requests *)
(* that are refused before anything changes are steps that stutter.        *)
(***************************************************************************)
EXTENDS Integers

CONSTANTS
  Operations, Files, Contents, Branches,
  PathsOf,      \* the files an operation has changed
  ContentOf,    \* what it has written there
  BaseTree,     \* the files as first committed
  Absent,       \* no such file
  Detached,     \* HEAD names a commit and no branch
  NoOperation, NoRecord,
  MayIntend,    \* does the person use "git add -N"?
  MaxCommits,   \* bound: commit objects made
  MaxUses,      \* bound: what the person does
  MaxCrashes    \* bound: calls that die or meet an error of Git

Commits == 0..MaxCommits
Heads   == Branches \cup {Detached}
Trees   == [Files -> Contents \cup {Absent}]
Objects == [tree : Trees, parent : Commits, past : SUBSET Commits,
            of : Operations \cup {NoOperation}]
\* What a call works with is what it writes into checkpoint.pending.json.
Records == [op : Operations, paths : SUBSET Files, base : Commits,
            ref : Heads, commit : Commits]

ASSUME CheckpointAssumption ==
  /\ Operations # {} /\ Branches # {} /\ Detached \notin Branches
  /\ PathsOf \in [Operations -> SUBSET Files]
  /\ ContentOf \in [Operations -> [Files -> Contents]]
  /\ BaseTree \in Trees
  /\ NoOperation \notin Operations /\ NoRecord \notin Records
  /\ MayIntend \in BOOLEAN
  /\ MaxCommits \in Nat /\ MaxUses \in Nat /\ MaxCrashes \in Nat

VARIABLES
  worktree, \* the files of the vault
  completed,\* operations with a changed-paths.json
  object,   \* Git's commits; past is the commit with all its ancestors
  made,     \* number of the last commit made
  refs,     \* where branches point, and HEAD if it is detached
  head,     \* the branch HEAD names
  index,    \* the real index
  intent,   \* files in the index by "git add -N" only
  pending,  \* checkpoint.pending.json of each operation
  final,    \* checkpoint.json of each operation
  pc, call, \* the call that holds the mutation lock
  overtaken,\* history: the call's last looks ("ref", "index") after which the
            \* person has moved what was looked at
  disturbed,\* history: the person used Git while a checkpoint was under way
  uses, crashes

git    == <<object, made, refs, head, index, intent>>
store  == <<pending, final>>
engine == <<pc, call, overtaken>>
bounds == <<uses, crashes>>
vars   == <<worktree, completed, git, store, engine, disturbed, bounds>>

PCs == {"idle", "prepare", "build", "recheck", "record", "look", "assert",
        "update", "refused", "confirm", "sync", "read-tree", "check", "finish",
        "unlink"}

TypeOK ==
  /\ worktree \in Trees
  /\ completed \subseteq Operations
  /\ object \in [Commits -> Objects]
  /\ made \in Commits
  /\ refs \in [Heads -> Commits]
  /\ head \in Heads
  /\ index \in Trees
  /\ intent \subseteq Files
  /\ pending \in [Operations -> Records \cup {NoRecord}]
  /\ final \in [Operations -> Records \cup {NoRecord}]
  /\ pc \in PCs
  /\ call \in Records
  /\ overtaken \subseteq {"ref", "index"}
  /\ disturbed \in BOOLEAN
  /\ uses \in 0..MaxUses
  /\ crashes \in 0..MaxCrashes

NoCall == [op |-> CHOOSE o \in Operations : TRUE, paths |-> {}, base |-> 0,
           ref |-> Detached, commit |-> 0]

Init ==
  /\ worktree = BaseTree
  /\ completed = {}
  /\ object = [c \in Commits |-> [tree |-> BaseTree, parent |-> 0,
                                  past |-> {0}, of |-> NoOperation]]
  /\ made = 0
  /\ refs = [r \in Heads |-> 0]
  /\ head \in Heads
  /\ index = BaseTree /\ intent = {}
  /\ pending = [o \in Operations |-> NoRecord]
  /\ final = [o \in Operations |-> NoRecord]
  /\ pc = "idle" /\ call = NoCall /\ overtaken = {}
  /\ disturbed = FALSE
  /\ uses = 0 /\ crashes = 0

-----------------------------------------------------------------------------
(***************************************************************************)
(* Git                                                                     *)
(***************************************************************************)
HeadCommit == refs[head]
TreeOf(c)  == object[c].tree

\* "HEAD" stands for whatever HEAD is when the command runs.
Target       == IF call.ref = Detached THEN head ELSE call.ref
TargetCommit == refs[Target]

IsAncestor(a, c) == a \in object[c].past

\* Nothing staged, nothing intended to be added.
IndexClean(c) == index = TreeOf(c) /\ intent = {}

NewCommit(tree, parent, o) ==
  /\ made < MaxCommits
  /\ made' = made + 1
  /\ object' = [object EXCEPT ![made + 1] =
                  [tree |-> tree, parent |-> parent,
                   past |-> object[parent].past \cup {made + 1}, of |-> o]]

-----------------------------------------------------------------------------
(***************************************************************************)
(* checkpoint_operation: what a call finds when it has the lock            *)
(***************************************************************************)
Goto(label) == pc' = label /\ UNCHANGED <<call, overtaken>>
GiveUp      == pc' = "idle" /\ call' = NoCall /\ overtaken' = {}

Verified(o, s, tree) == \A f \in s : tree[f] = ContentOf[o][f]
Unfinished(o) == pending[o] # NoRecord /\ final[o] = NoRecord
OtherPending(o) == \E other \in Operations \ {o} : pending[other] # NoRecord

\* A finished checkpoint is answered again as long as HEAD contains it; what is
\* left of the pending record goes.
AnswerExisting(o) ==
  /\ pc = "idle"
  /\ final[o] # NoRecord
  /\ IsAncestor(final[o].commit, HeadCommit)
  /\ pending' = [pending EXCEPT ![o] = NoRecord]
  /\ UNCHANGED <<worktree, completed, git, final, engine, disturbed, bounds>>

\* The same paths must be selected as when the record was written.
ResumeCheckpoint(o) ==
  /\ pc = "idle"
  /\ Unfinished(o)
  /\ call' = pending[o]
  /\ pc' = "look"
  /\ UNCHANGED <<worktree, completed, git, store, overtaken, disturbed, bounds>>

\* Wrong variant: checkpoints of other operations are not looked at.
StartBesideOthers(o, s) ==
  /\ pc = "idle"
  /\ o \in completed
  /\ final[o] = NoRecord /\ pending[o] = NoRecord
  /\ Verified(o, s, worktree)
  /\ call' = [NoCall EXCEPT !.op = o, !.paths = s]
  /\ pc' = "prepare"
  /\ UNCHANGED <<worktree, completed, git, store, overtaken, disturbed, bounds>>

\* Wrong variant: a pending record of the operation itself is overlooked.
StartAnew(o, s) ==
  /\ pc = "idle"
  /\ o \in completed
  /\ final[o] = NoRecord /\ ~OtherPending(o)
  /\ Verified(o, s, worktree)
  /\ call' = [NoCall EXCEPT !.op = o, !.paths = s]
  /\ pc' = "prepare"
  /\ UNCHANGED <<worktree, completed, git, store, overtaken, disturbed, bounds>>

\* _selected_paths: what include_raw and the ignore policy leave of the
\* operation's files.
Selections(o) == (SUBSET PathsOf[o]) \ {{}}

StartCheckpoint(o, s) ==
  /\ pc = "idle"
  /\ o \in completed
  /\ final[o] = NoRecord /\ pending[o] = NoRecord
  /\ ~OtherPending(o)
  /\ Verified(o, s, worktree)
  /\ call' = [NoCall EXCEPT !.op = o, !.paths = s]
  /\ pc' = "prepare"
  /\ UNCHANGED <<worktree, completed, git, store, overtaken, disturbed, bounds>>

-----------------------------------------------------------------------------
(***************************************************************************)
(* _build_pending                                                          *)
(***************************************************************************)

Prepare ==
  /\ pc = "prepare"
  /\ IF IndexClean(HeadCommit)
     THEN /\ pc' = "build"
          /\ call' = [call EXCEPT !.base = HeadCommit, !.ref = head]
          /\ UNCHANGED overtaken
     ELSE GiveUp
  /\ UNCHANGED <<worktree, completed, git, store, disturbed, bounds>>

\* What "git add" reads through the temporary index.
Candidate == [f \in Files |-> IF f \in call.paths THEN worktree[f]
                              ELSE TreeOf(call.base)[f]]

\* Wrong variant: the tree is committed without reading it back.
BuildUnverified ==
  /\ pc = "build"
  /\ NewCommit(Candidate, call.base, call.op)
  /\ pc' = "recheck" /\ call' = [call EXCEPT !.commit = made + 1]
  /\ UNCHANGED <<worktree, completed, refs, head, index, intent, store,
                 overtaken, disturbed, bounds>>

\* The candidate tree has the operation's bytes and some change.
Build ==
  /\ pc = "build"
  /\ IF /\ Verified(call.op, call.paths, Candidate)
        /\ Candidate # TreeOf(call.base)
     THEN /\ NewCommit(Candidate, call.base, call.op)
          /\ pc' = "recheck" /\ call' = [call EXCEPT !.commit = made + 1]
          /\ UNCHANGED overtaken
     ELSE GiveUp /\ UNCHANGED <<object, made>>
  /\ UNCHANGED <<worktree, completed, refs, head, index, intent, store,
                 disturbed, bounds>>

\* HEAD and the index must still be what was reviewed.
Recheck ==
  /\ pc = "recheck"
  /\ IF HeadCommit = call.base /\ head = call.ref /\ IndexClean(call.base)
     THEN Goto("record") ELSE GiveUp
  /\ UNCHANGED <<worktree, completed, git, store, disturbed, bounds>>

WritePending ==
  /\ pc = "record"
  /\ pending' = [pending EXCEPT ![call.op] = call]
  /\ Goto("look")
  /\ UNCHANGED <<worktree, completed, git, final, disturbed, bounds>>

-----------------------------------------------------------------------------
(***************************************************************************)
(* _resume_pending                                                         *)
(***************************************************************************)
\* Wrong variant: a ref that has moved away from the commit is accepted.
DivergedToo(value) == TRUE

\* The value the ref was found to have has the commit in its history.
Contains(value) == IsAncestor(call.commit, value)

\* Wrong variant: only a ref that is still at the base can be resumed from.
LookForBase ==
  /\ pc = "look"
  /\ IF TargetCommit = call.base THEN Goto("assert") ELSE GiveUp
  /\ UNCHANGED <<worktree, completed, git, store, disturbed, bounds>>

\* The ref is read once: this value is what is tested, whatever the person makes
\* of the ref before the call goes on.
LookAtRef ==
  /\ pc = "look"
  /\ IF TargetCommit = call.base THEN Goto("assert")
     ELSE IF Contains(TargetCommit) THEN Goto("sync")
     ELSE GiveUp
  /\ UNCHANGED <<worktree, completed, git, store, disturbed, bounds>>

AssertUnmoved ==
  /\ pc = "assert"
  /\ IF head = call.ref /\ IndexClean(call.base) THEN Goto("update") ELSE GiveUp
  /\ UNCHANGED <<worktree, completed, git, store, disturbed, bounds>>

\* Wrong variant: the ref is set whatever it is by now.
UpdateRefBlindly ==
  /\ pc = "update"
  /\ refs' = [refs EXCEPT ![Target] = call.commit]
  /\ Goto("confirm")
  /\ UNCHANGED <<worktree, completed, object, made, head, index, intent, store,
                 disturbed, bounds>>

\* git update-ref <ref> <commit> <base>: a compare-and-swap.
UpdateRef ==
  /\ pc = "update"
  /\ IF TargetCommit = call.base
     THEN refs' = [refs EXCEPT ![Target] = call.commit] /\ Goto("confirm")
     ELSE UNCHANGED refs /\ Goto("refused")
  /\ UNCHANGED <<worktree, completed, object, made, head, index, intent, store,
                 disturbed, bounds>>

\* A refused update is no error if somebody else has made it.
LookAfterRefusal ==
  /\ pc = "refused"
  /\ IF TargetCommit = call.commit THEN Goto("confirm") ELSE GiveUp
  /\ UNCHANGED <<worktree, completed, git, store, disturbed, bounds>>

\* After the update the ref is read again.
Confirm ==
  /\ pc = "confirm"
  /\ IF Contains(TargetCommit) THEN Goto("sync") ELSE GiveUp
  /\ UNCHANGED <<worktree, completed, git, store, disturbed, bounds>>

AtCommit == HeadCommit = call.commit /\ head = call.ref

LookAtIndex(label) ==
  pc' = label /\ overtaken' = overtaken \ {"index"} /\ UNCHANGED call

\* Wrong variant: the index is brought up to date whatever is staged.
SyncAlways ==
  /\ pc = "sync"
  /\ IF AtCommit THEN LookAtIndex("read-tree") ELSE Goto("finish")
  /\ UNCHANGED <<worktree, completed, git, store, disturbed, bounds>>

\* The index follows only if HEAD is at the commit; write-tree leaves files
\* that are merely intended to be added out.
SyncIndex ==
  /\ pc = "sync"
  /\ IF ~AtCommit THEN Goto("finish")
     ELSE IF index = TreeOf(call.base) THEN LookAtIndex("read-tree")
     ELSE LookAtIndex("check")
  /\ UNCHANGED <<worktree, completed, git, store, disturbed, bounds>>

ReadTree ==
  /\ pc = "read-tree"
  /\ index' = TreeOf(call.commit) /\ intent' = {}
  /\ Goto("check")
  /\ UNCHANGED <<worktree, completed, object, made, refs, head, store,
                 disturbed, bounds>>

CheckIndex ==
  /\ pc = "check"
  /\ IF index = TreeOf(call.commit) THEN Goto("finish") ELSE GiveUp
  /\ UNCHANGED <<worktree, completed, git, store, disturbed, bounds>>

WriteFinal ==
  /\ pc = "finish"
  /\ final' = [final EXCEPT ![call.op] = call]
  /\ Goto("unlink")
  /\ UNCHANGED <<worktree, completed, git, pending, disturbed, bounds>>

UnlinkPending ==
  /\ pc = "unlink"
  /\ pending' = [pending EXCEPT ![call.op] = NoRecord]
  /\ GiveUp
  /\ UNCHANGED <<worktree, completed, git, final, disturbed, bounds>>

\* The process dies, or Git fails and the error ends the call.
Crash ==
  /\ pc # "idle"
  /\ crashes < MaxCrashes
  /\ crashes' = crashes + 1
  /\ GiveUp
  /\ UNCHANGED <<worktree, completed, git, store, disturbed, uses>>

-----------------------------------------------------------------------------
(***************************************************************************)
(* The engine's operations, and the person                                 *)
(***************************************************************************)
\* An operation completes; the engine needs the same lock.
CompleteOperation(o) ==
  /\ pc = "idle"
  /\ o \notin completed
  /\ completed' = completed \cup {o}
  /\ worktree' = [f \in Files |-> IF f \in PathsOf[o] THEN ContentOf[o][f]
                                  ELSE worktree[f]]
  /\ UNCHANGED <<git, store, engine, disturbed, bounds>>

Use == uses < MaxUses /\ uses' = uses + 1

\* The places of a call that has looked at the ref for the last time.
Windows == {"sync", "read-tree", "check", "finish"}
UseGit(moving) ==
  /\ Use
  /\ overtaken' = IF pc \in Windows THEN overtaken \cup moving ELSE overtaken
  /\ disturbed' = (disturbed \/ pc # "idle"
                   \/ \E o \in Operations : pending[o] # NoRecord)
  /\ UNCHANGED <<pc, call>>

EditFile(f, c) ==
  /\ Use
  /\ c # worktree[f]
  /\ worktree' = [worktree EXCEPT ![f] = c]
  /\ UNCHANGED <<completed, git, store, engine, disturbed, crashes>>

\* git add <file>, or git restore --staged <file>
StageFile(f) ==
  /\ UseGit({"index"})
  /\ \/ index' = [index EXCEPT ![f] = worktree[f]]
     \/ index' = [index EXCEPT ![f] = TreeOf(HeadCommit)[f]]
  /\ intent' = intent \ {f}
  /\ UNCHANGED <<worktree, completed, object, made, refs, head, store, crashes>>

\* git add -N <file>
IntendFile(f) ==
  /\ UseGit({})
  /\ MayIntend
  /\ index[f] = Absent /\ worktree[f] # Absent
  /\ intent' = intent \cup {f}
  /\ UNCHANGED <<worktree, completed, object, made, refs, head, index, store, crashes>>

\* git commit
CommitIndex ==
  /\ UseGit({})
  /\ index # TreeOf(HeadCommit)
  /\ NewCommit(index, HeadCommit, NoOperation)
  /\ refs' = [refs EXCEPT ![head] = made + 1]
  /\ UNCHANGED <<worktree, completed, head, index, intent, store, crashes>>

\* git reset <commit>, of the history of the branch
ResetTo(c) ==
  /\ UseGit({"ref", "index"})
  /\ c \in object[HeadCommit].past
  /\ refs' = [refs EXCEPT ![head] = c]
  /\ index' = TreeOf(c) /\ intent' = {}
  /\ UNCHANGED <<worktree, completed, object, made, head, store, crashes>>

\* git switch, which keeps local changes and refuses to overwrite any
Switch(h) ==
  LET old == TreeOf(HeadCommit)
      to  == IF h = Detached THEN HeadCommit ELSE refs[h]
      new == TreeOf(to)
      moving == {f \in Files : old[f] # new[f]}
  IN /\ UseGit({"ref", "index"})
     /\ h # head
     /\ \A f \in moving : worktree[f] = old[f] /\ index[f] = old[f]
                          /\ f \notin intent
     /\ head' = h
     /\ refs' = [refs EXCEPT ![h] = to]
     /\ index' = [f \in Files |-> IF f \in moving THEN new[f] ELSE index[f]]
     /\ worktree' = [f \in Files |-> IF f \in moving THEN new[f]
                                     ELSE worktree[f]]
     /\ UNCHANGED <<completed, object, made, intent, store, crashes>>

-----------------------------------------------------------------------------
Engine == \/ Prepare \/ Build \/ Recheck \/ WritePending
          \/ LookAtRef \/ AssertUnmoved
          \/ UpdateRef \/ LookAfterRefusal \/ Confirm
          \/ SyncIndex \/ ReadTree \/ CheckIndex \/ WriteFinal \/ UnlinkPending

Person == \/ \E f \in Files : \/ StageFile(f) \/ IntendFile(f)
                              \/ \E c \in Contents \cup {Absent} : EditFile(f, c)
          \/ CommitIndex
          \/ \E c \in Commits : ResetTo(c)
          \/ \E h \in Heads : Switch(h)

Next ==
  \/ \E o \in Operations :
       \/ CompleteOperation(o)
       \/ AnswerExisting(o) \/ ResumeCheckpoint(o)
       \/ \E s \in Selections(o) : StartCheckpoint(o, s)
  \/ Engine
  \/ Crash
  \/ Person

Spec == Init /\ [][Next]_vars

\* A call that runs goes on; who started a checkpoint asks for it again until it
\* is answered, as the documentation tells to after an interruption.
FairSpec ==
  /\ Spec
  /\ WF_vars(Engine)
  /\ \A o \in Operations : WF_vars(ResumeCheckpoint(o)) /\ WF_vars(AnswerExisting(o))

-----------------------------------------------------------------------------
(***************************************************************************)
(* Properties                                                              *)
(***************************************************************************)
Reachable == UNION {object[refs[r]].past : r \in Branches \cup {head}}

\* However often a checkpoint is interrupted and asked for again, history gets
\* one commit for an operation and not one per attempt.
OneCommitPerOperation ==
  \A c, d \in Reachable :
    object[c].of = object[d].of /\ object[c].of # NoOperation => c = d

Exact(c) ==
  LET o == object[c].of
  IN o # NoOperation =>
       \A f \in Files :
         \/ TreeOf(c)[f] = TreeOf(object[c].parent)[f]
         \/ f \in PathsOf[o] /\ TreeOf(c)[f] = ContentOf[o][f]

\* A checkpoint's commit has the bytes the operation recorded and nothing else,
\* also if files are edited or staged while it is built.
ExactOperation == \A c \in Reachable : Exact(c)

\* Only one checkpoint is between its pending and its final record.
OnePending ==
  \A o, other \in Operations :
    pending[o] # NoRecord /\ pending[other] # NoRecord => o = other

\* Moving a branch to the checkpoint drops no commit that somebody made there
\* meanwhile.
NoLostCommit ==
  [][Engine => \A r \in Branches : refs[r] \in object'[refs'[r]].past]_vars

\* What the person has staged is never replaced: the index changes only if it
\* was the base tree, or became what it is after the look at it.
StagedWorkKept ==
  [][Engine => index' = index \/ index = TreeOf(call.base)
                \/ "index" \in overtaken]_vars

\* A checkpoint is recorded as finished only while its branch contains it, or
\* has been moved off it after the last look at the branch.
FinalIsInHistory ==
  [][\A o \in Operations : final'[o] # final[o] =>
       IsAncestor(call.commit, TargetCommit) \/ "ref" \in overtaken]_vars

\* An interrupted checkpoint is finished by asking again, unless the person
\* used Git while it was under way.
InterruptedFinishes ==
  \A o \in Operations :
    pending[o] # NoRecord ~> pending[o] = NoRecord \/ disturbed

-----------------------------------------------------------------------------
(***************************************************************************)
(* The inductive invariant                                                 *)
(***************************************************************************)
Begun   == {"prepare", "build", "recheck", "record"}
Resumed == {"look", "assert", "update", "refused", "confirm"} \cup Windows
Made    == 0..made

\* The commits made so far have their ancestors among them, and ancestors of
\* ancestors are ancestors.
GitInv ==
  /\ \A h \in Heads : refs[h] \in Made
  /\ \A c \in Made : /\ c \in object[c].past
                     /\ object[c].past \subseteq Made
                     /\ object[c].parent \in Made
                     /\ \A a \in object[c].past : object[a].past \subseteq object[c].past

\* What is committed for an operation is exact, in history or not.
ExactInv == \A c \in Made : Exact(c)

\* A record names a commit made for its operation, one step from its base.
Sound(r) ==
  /\ r.base \in Made /\ r.commit \in Made
  /\ object[r.commit].of = r.op
  /\ object[r.commit].past = object[r.base].past \cup {r.commit}

RecordInv ==
  /\ OnePending
  /\ \A o \in Operations : pending[o] # NoRecord =>
       /\ pending[o].op = o /\ Sound(pending[o])
       /\ final[o] # NoRecord => final[o].commit = pending[o].commit

\* What the running call knows agrees with what is recorded.
CallInv ==
  /\ pc \in Begun => /\ \A o \in Operations : pending[o] = NoRecord
                     /\ final[call.op] = NoRecord
                     /\ call.paths \subseteq PathsOf[call.op]
  /\ pc = "build" => call.base \in Made
  /\ pc \in {"recheck", "record"} => Sound(call)
  /\ pc \in Resumed => pending[call.op] = call /\ final[call.op] = NoRecord
  /\ pc = "unlink" => pending[call.op] = call /\ final[call.op] = call

\* An operation's commit enters history only while a record of it exists, and
\* the record stays.
Recorded(o, c) == \/ pending[o] # NoRecord /\ pending[o].commit = c
                  \/ final[o] # NoRecord /\ final[o].commit = c
HistoryInv ==
  \A h \in Heads : \A c \in object[refs[h]].past :
    object[c].of # NoOperation => Recorded(object[c].of, c)

\* What the last looks found is still so, unless the person has moved it since.
IndexInv ==
  /\ pc \in Windows => IsAncestor(call.commit, TargetCommit) \/ "ref" \in overtaken
  /\ pc = "read-tree" => index = TreeOf(call.base) \/ "index" \in overtaken

IInv == TypeOK /\ GitInv /\ ExactInv /\ RecordInv /\ CallInv /\ HistoryInv /\ IndexInv
=============================================================================
