----------------------------- MODULE LegacyLock -----------------------------
(***************************************************************************)
(* The deprecated page locks: one record per page in .vault-meta/locks,    *)
(* taken by one command and removed by another, and void once it is older  *)
(* than a threshold.  There are two programs for them:                     *)
(*   "py"  claude_obsidian/legacy_lock.py, serialized by the vault's       *)
(*         mutation lock;                                                  *)
(*   "sh"  scripts/wiki-lock.sh, serialized by flock on .wiki-lock.meta.   *)
(* Either excludes itself and not the other, so the instance says which    *)
(* one a vault uses.                                                       *)
(*                                                                         *)
(* A record's path is its file name.  Two paths with one key are one file  *)
(* where names are compared without case.  Who is told 0 by acquire works  *)
(* on the page until it calls release or its lock is stale.                *)
(***************************************************************************)
EXTENDS Integers

CONSTANTS
  LockWorkers, LockPaths,
  KeyOf,            \* the portable key of a path
  StaleAfter,       \* DEFAULT_STALE_AFTER_SECONDS
  ClearAfter,       \* --max-age of clear-stale
  NoLock, Corrupt,  \* no record, and one that cannot be parsed
  Nobody,
  MaxSeconds,       \* bound: the clock
  MaxKills          \* bound: commands that die

Tools   == {"py", "sh"}
Seconds == 0..MaxSeconds
Never   == -1
Locks   == [epoch : Seconds, by : LockWorkers]
Steps   == {"idle", "enter", "look", "create", "fill", "unlink", "sweep"}
Commands == [op : {"acquire", "release", "clear-stale"}, path : LockPaths,
             now : Seconds]

ASSUME LegacyLockAssumption ==
  /\ LockWorkers # {} /\ LockPaths # {}
  /\ StaleAfter \in Nat /\ ClearAfter \in Nat /\ StaleAfter <= ClearAfter
  /\ NoLock \notin Locks /\ Corrupt \notin Locks /\ NoLock # Corrupt
  /\ Nobody \notin LockWorkers
  /\ MaxSeconds \in Nat /\ MaxKills \in Nat

VARIABLES
  tool,    \* the program this vault uses
  record,  \* the lock records
  meta,    \* who holds the lock that serializes the commands
  step,    \* where a worker's command is
  command, \* and which it is
  clock,
  has,     \* when a worker got a page that it has not given back
  foreign, \* history: a worker's release removed another's record, or the
           \* shell's clear-stale a fresh one
  kills

lockVars == <<tool, record, meta, step, command, clock, has, foreign, kills>>

LegacyLockTypeOK ==
  /\ tool \in Tools
  /\ record \in [LockPaths -> Locks \cup {NoLock, Corrupt}]
  /\ meta \in LockWorkers \cup {Nobody}
  /\ step \in [LockWorkers -> Steps]
  /\ command \in [LockWorkers -> Commands]
  /\ clock \in Seconds
  /\ has \in [LockWorkers -> [LockPaths -> Seconds \cup {Never}]]
  /\ foreign \in BOOLEAN
  /\ kills \in 0..MaxKills

NoCommand == [op |-> "release", path |-> CHOOSE p \in LockPaths : TRUE, now |-> 0]

LegacyLockInit ==
  /\ tool \in Tools
  /\ record = [p \in LockPaths |-> NoLock]
  /\ meta = Nobody
  /\ step = [w \in LockWorkers |-> "idle"]
  /\ command = [w \in LockWorkers |-> NoCommand]
  /\ clock = 0
  /\ has = [w \in LockWorkers |-> [p \in LockPaths |-> Never]]
  /\ foreign = FALSE
  /\ kills = 0

-----------------------------------------------------------------------------
To(w, s) == step' = [step EXCEPT ![w] = s]
End(w)   == To(w, "idle") /\ command' = [command EXCEPT ![w] = NoCommand]
Leave(w) == End(w) /\ meta' = Nobody
Path(w)  == command[w].path
Doing(w, op) == command[w].op = op
IsLock(p) == record[p] \in Locks
Age(w, p) == command[w].now - record[p].epoch

\* The program starts; legacy_lock.py takes the time before it waits.
Call(w, op, p) ==
  /\ step[w] = "idle"
  /\ op = "release" => has[w][p] # Never
  /\ op = "clear-stale" => p = NoCommand.path
  /\ command' = [command EXCEPT ![w] = [op |-> op, path |-> p,
              now |-> IF tool = "py" THEN clock ELSE 0]]
  /\ has' = IF op = "release" THEN [has EXCEPT ![w][p] = Never] ELSE has
  /\ To(w, "enter")
  /\ UNCHANGED <<tool, record, meta, clock, foreign, kills>>

InsideStep(w) == CASE Doing(w, "release")     -> "unlink"
                   [] Doing(w, "clear-stale") -> "sweep"
                   [] OTHER                   -> "look"

\* wiki-lock.sh takes the time when it is inside.
Enter(w) ==
  /\ step[w] = "enter"
  /\ meta = Nobody
  /\ meta' = w
  /\ command' = IF tool = "sh" THEN [command EXCEPT ![w].now = clock] ELSE command
  /\ To(w, InsideStep(w))
  /\ UNCHANGED <<tool, record, clock, has, foreign, kills>>

\* Both programs give up after five seconds.
EnterTimeout(w) ==
  /\ step[w] = "enter"
  /\ End(w)
  /\ UNCHANGED <<tool, record, meta, clock, has, foreign, kills>>

-----------------------------------------------------------------------------
(***************************************************************************)
(* acquire                                                                 *)
(***************************************************************************)
Held(w, p) == IsLock(p) /\ Age(w, p) <= StaleAfter

\* Wrong variant: only the record of the very same path counts.
ExcludedByName(w) == Held(w, Path(w))

\* legacy_lock.py also respects the locks of aliases of the path.
Excluded(w) ==
  \/ Held(w, Path(w))
  \/ tool = "py" /\ \E p \in LockPaths :
       KeyOf[p] = KeyOf[Path(w)] /\ Held(w, p)

\* A record that is stale, or cannot be read, goes.
Look(w) ==
  /\ step[w] = "look"
  /\ IF Excluded(w)
     THEN Leave(w) /\ UNCHANGED record
     ELSE /\ record' = [record EXCEPT ![Path(w)] = NoLock]
          /\ To(w, "create")
          /\ UNCHANGED <<meta, command>>
  /\ UNCHANGED <<tool, clock, has, foreign, kills>>

Got(w) == has' = [has EXCEPT ![w][Path(w)] = command[w].now]

\* Wrong variant: the record does not say who took the lock.
NewByNobody(w) == [epoch |-> command[w].now, by |-> Nobody]

New(w) == [epoch |-> command[w].now, by |-> w]

\* Python links a finished file to the name; the shell creates an empty file
\* and then writes it.  Both fail if the name is taken.
Create(w) ==
  /\ step[w] = "create"
  /\ \/ /\ record[Path(w)] # NoLock
        /\ Leave(w)
        /\ UNCHANGED <<record, has>>
     \/ /\ record[Path(w)] = NoLock /\ tool = "py"
        /\ record' = [record EXCEPT ![Path(w)] = New(w)]
        /\ Got(w) /\ Leave(w)
     \/ /\ record[Path(w)] = NoLock /\ tool = "sh"
        /\ record' = [record EXCEPT ![Path(w)] = Corrupt]
        /\ To(w, "fill")
        /\ UNCHANGED <<meta, command, has>>
  /\ UNCHANGED <<tool, clock, foreign, kills>>

Fill(w) ==
  /\ step[w] = "fill"
  /\ record' = [record EXCEPT ![Path(w)] = New(w)]
  /\ Got(w) /\ Leave(w)
  /\ UNCHANGED <<tool, clock, foreign, kills>>

-----------------------------------------------------------------------------
(***************************************************************************)
(* release and clear-stale                                                 *)
(***************************************************************************)
\* The record goes, whoever wrote it.
Unlink(w) ==
  /\ step[w] = "unlink"
  /\ foreign' = (foreign \/ (IsLock(Path(w)) /\ record[Path(w)].by # w))
  /\ record' = [record EXCEPT ![Path(w)] = NoLock]
  /\ Leave(w)
  /\ UNCHANGED <<tool, clock, has, kills>>

Fresh(p) == IsLock(p) /\ clock - record[p].epoch <= StaleAfter

\* Wrong variant: the age that acquire uses, and the boundary included.
SweepEarly(w, p, gone) == \/ record[p] = Corrupt
                          \/ IsLock(p) /\ Age(w, p) >= StaleAfter

\* What clear-stale removes; only the shell asks for the process.
Sweeps(w, p, gone) ==
  \/ record[p] = Corrupt
  \/ IsLock(p) /\ Age(w, p) > ClearAfter
  \/ IsLock(p) /\ tool = "sh" /\ p \in gone

\* The pid in a record is that of the acquiring command, which has ended or is
\* about to; by now it may be another process's.
Sweep(w) ==
  /\ step[w] = "sweep"
  /\ \E gone \in SUBSET LockPaths :
       /\ record' = [p \in LockPaths |->
                       IF Sweeps(w, p, gone) THEN NoLock ELSE record[p]]
       /\ foreign' = (foreign \/ \E p \in LockPaths :
                                   Sweeps(w, p, gone) /\ Fresh(p))
  /\ Leave(w)
  /\ UNCHANGED <<tool, clock, has, kills>>

-----------------------------------------------------------------------------
Inside(w) == step[w] \notin {"idle", "enter"}

\* A command dies inside; one that dies before has done nothing (EnterTimeout).
Kill(w) ==
  /\ Inside(w)
  /\ kills < MaxKills
  /\ kills' = kills + 1
  /\ meta' = Nobody
  /\ End(w)
  /\ UNCHANGED <<tool, record, clock, has, foreign>>

SecondPasses ==
  /\ clock < MaxSeconds
  /\ clock' = clock + 1
  /\ UNCHANGED <<tool, record, meta, step, command, has, foreign, kills>>

LegacyLockNext ==
  \/ \E w \in LockWorkers :
       \/ \E p \in LockPaths, op \in {"acquire", "release", "clear-stale"} :
            Call(w, op, p)
       \/ Enter(w) \/ EnterTimeout(w) \/ Look(w) \/ Create(w) \/ Fill(w)
       \/ Unlink(w) \/ Sweep(w) \/ Kill(w)
  \/ SecondPasses

LegacyLockSpec == LegacyLockInit /\ [][LegacyLockNext]_lockVars

-----------------------------------------------------------------------------
(***************************************************************************)
(* Properties                                                              *)
(***************************************************************************)
\* The worker got the page, has not given it back, and its lock is not stale.
Holds(w, p) == has[w][p] # Never /\ clock - has[w][p] <= StaleAfter

OneFile(p, q) == IF tool = "py" THEN KeyOf[p] = KeyOf[q] ELSE p = q

\* Between two calls that wait, age and die, a page is never locked by two
\* workers at a time, unless somebody released a lock that was no longer its
\* own, or clear-stale of the shell has taken it for abandoned.
OneHolder ==
  \A v, w \in LockWorkers, p, q \in LockPaths :
    Holds(v, p) /\ Holds(w, q) /\ OneFile(p, q) =>
      \/ v = w
      \/ foreign

\* A record goes only by a release while the lock is fresh: neither acquire nor
\* clear-stale, which judge its age by a time they took before they waited,
\* takes it away.  (The shell's clear-stale does: it asks for the pid of a
\* command that has ended.)
FreshRecordKept ==
  [][\A w \in LockWorkers, p \in LockPaths :
       /\ IsLock(p) /\ record[p].by = w /\ Holds(w, p)
       /\ has[w][p] = record[p].epoch
       /\ record'[p] # record[p]
       => \E v \in LockWorkers :
            \/ step[v] = "unlink"
            \/ step[v] = "sweep" /\ tool = "sh"]_lockVars
-----------------------------------------------------------------------------
(***************************************************************************)
(* The inductive invariant behind OneHolder and FreshRecordKept.           *)
(***************************************************************************)
\* What a worker knows inside is still so: it is alone there, its time is not
\* ahead of the clock, and what it has looked at nobody else changes.
InsideInv ==
  \A w \in LockWorkers :
    /\ Inside(w) => meta = w
    /\ command[w].now <= clock
    /\ step[w] = "create" => ~Excluded(w)
    /\ step[w] = "fill" => tool = "sh" /\ record[Path(w)] = Corrupt
    /\ step[w] = "unlink" => Doing(w, "release")
    /\ step[w] # "idle" /\ Doing(w, "release") => has[w][Path(w)] = Never

\* A lock that holds is on record, until one is removed that should not be.
RecordInv ==
  ~foreign => \A w \in LockWorkers, p \in LockPaths :
    Holds(w, p) => /\ IsLock(p)
                   /\ record[p].by = w
                   /\ record[p].epoch = has[w][p]

LegacyLockInv == LegacyLockTypeOK /\ InsideInv /\ RecordInv /\ OneHolder
=============================================================================
