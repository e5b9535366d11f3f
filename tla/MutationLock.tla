---------------------------- MODULE MutationLock ----------------------------
(***************************************************************************)
(* The vault-wide mutation lock of claude_obsidian/transaction.py.         *)
(*                                                                         *)
(* A process that wants to mutate a vault first takes flock on the vault   *)
(* root directory, then creates the directory .vault-meta/mutation.lock    *)
(* and writes owner.json into it.  The kernel drops the flock of a process *)
(* that dies; the directory stays, and a later process may reap it: it     *)
(* inspects the owner record, renames the directory to a private quarantine*)
(* name and removes it there.  Every look at the public name and the act   *)
(* that follows it are separate steps here, because other processes run in *)
(* between.                                                                *)
(*                                                                         *)
(* A lock directory is named by the token of the attempt that created it,  *)
(* which stands for the inode the code pins with a descriptor: the public  *)
(* name "still denotes the pinned directory" when lockDir = pinned[p].     *)
(***************************************************************************)
EXTENDS Integers

CONSTANTS
  Procs,        \* processes (pids) that may want the lock
  Hosts,        \* host names
  HostOf,       \* the host each process runs on
  Forcing,      \* processes started with --force-stale-lock
  SharedFlock,  \* does flock exclude processes of different hosts?
  StaleAfter,   \* MutationLock.stale_after
  Timeout,      \* MutationLock.timeout
  MaxAttempts,  \* bound: acquire() calls in a behaviour
  MaxTime,      \* bound: the clock
  NoOwner       \* what reading a missing owner.json gives

ASSUME ConstantsAssumption ==
  /\ HostOf \in [Procs -> Hosts]
  /\ Forcing \subseteq Procs
  /\ SharedFlock \in BOOLEAN
  /\ StaleAfter \in Nat /\ Timeout \in Nat
  /\ MaxAttempts \in Nat /\ MaxTime \in Nat
  /\ NoOwner \notin [proc : Procs, tok : 0..MaxAttempts, started : 0..MaxTime]

VARIABLES
  pc,       \* where each process is in acquire() or release()
  token,    \* token of the current or last attempt, 0 before the first
  pinned,   \* lock directory whose descriptor the process holds, or 0
  deadline, \* when an attempt gives up
  flock,    \* processes holding flock on the vault root
  lockDir,  \* directory at the public name mutation.lock, 0 if none
  owner,    \* owner.json of every lock directory
  mtime,    \* modification time of every lock directory
  attempts, \* attempts made so far: tokens are uuid4, here fresh numbers
  clock

vars == <<pc, token, pinned, deadline, flock, lockDir, owner, mtime,
          attempts, clock>>

Tokens == 1..MaxAttempts
NoDir  == 0
Times  == 0..MaxTime
Owners == [proc : Procs, tok : 0..MaxAttempts, started : Times]

\* Program points.  "timedout" and "lost" are the errors LOCK_TIMEOUT and
\* LOCK_OWNERSHIP_LOST / LOCK_FAILED; a process may call acquire() again.
Resting   == {"idle", "timedout", "lost"}
Creating  == {"pin", "own"}
Keeping   == {"held", "rmdir"}
Reaping   == {"rename", "remove"}
Flocked   == {"mkdir", "inspect"} \cup Reaping \cup Creating \cup Keeping
PCs       == Resting \cup {"flock", "dead"} \cup Flocked

TypeOK ==
  /\ pc \in [Procs -> PCs]
  /\ token \in [Procs -> 0..MaxAttempts]
  /\ pinned \in [Procs -> 0..MaxAttempts]
  /\ deadline \in [Procs -> 0..(MaxTime + Timeout)]
  /\ flock \subseteq Procs
  /\ lockDir \in 0..MaxAttempts
  /\ owner \in [Tokens -> Owners \cup {NoOwner}]
  /\ mtime \in [Tokens -> Times]
  /\ attempts \in 0..MaxAttempts
  /\ clock \in Times

Init ==
  /\ pc = [p \in Procs |-> "idle"]
  /\ token = [p \in Procs |-> 0]
  /\ pinned = [p \in Procs |-> NoDir]
  /\ deadline = [p \in Procs |-> 0]
  /\ flock = {}
  /\ lockDir = NoDir
  /\ owner = [t \in Tokens |-> NoOwner]
  /\ mtime = [t \in Tokens |-> 0]
  /\ attempts = 0
  /\ clock = 0

-----------------------------------------------------------------------------
(***************************************************************************)
(* Guards                                                                  *)
(***************************************************************************)
Conflict(p, q) == SharedFlock \/ HostOf[p] = HostOf[q]

\* Wrong variant: flock is taken shared instead of exclusive.
FlockShared(p) == TRUE

FlockFree(p) == \A q \in flock : ~Conflict(p, q)

Expired(p) == clock >= deadline[p]

ProcessAlive(q) == pc[q] # "dead"

\* Wrong variant: age alone makes a lock stale.
MayReapOld(p, d) == owner[d] # NoOwner /\ clock - owner[d].started > StaleAfter

\* An ownerless directory is reaped only by force and only when old; an owned
\* one only when its record is old and, without force, its process is known to
\* be dead on this very host.
MayReap(p, d) ==
  IF owner[d] = NoOwner
  THEN p \in Forcing /\ clock - mtime[d] > StaleAfter
  ELSE /\ clock - owner[d].started > StaleAfter
       /\ \/ p \in Forcing
          \/ /\ HostOf[owner[d].proc] = HostOf[p]
             /\ ~ProcessAlive(owner[d].proc)

\* Leaving acquire() or release(): every descriptor is closed, and closing the
\* vault root releases the flock.
Leave(p, where) ==
  /\ pc' = [pc EXCEPT ![p] = where]
  /\ flock' = flock \ {p}
  /\ pinned' = [pinned EXCEPT ![p] = NoDir]

Goto(p, where) == pc' = [pc EXCEPT ![p] = where]

-----------------------------------------------------------------------------
(***************************************************************************)
(* acquire()                                                               *)
(***************************************************************************)
Start(p) ==
  /\ pc[p] \in Resting
  /\ attempts < MaxAttempts
  /\ clock + Timeout <= MaxTime
  /\ attempts' = attempts + 1
  /\ token' = [token EXCEPT ![p] = attempts + 1]
  /\ deadline' = [deadline EXCEPT ![p] = clock + Timeout]
  /\ Goto(p, "flock")
  /\ UNCHANGED <<pinned, flock, lockDir, owner, mtime, clock>>

TakeFlock(p) ==
  /\ pc[p] = "flock"
  /\ FlockFree(p)
  /\ flock' = flock \cup {p}
  /\ Goto(p, "mkdir")
  /\ UNCHANGED <<token, pinned, deadline, lockDir, owner, mtime, attempts,
                 clock>>

FlockTimeout(p) ==
  /\ pc[p] = "flock"
  /\ ~FlockFree(p)
  /\ Expired(p)
  /\ Leave(p, "timedout")
  /\ UNCHANGED <<token, deadline, lockDir, owner, mtime, attempts, clock>>

MakeDir(p) ==
  /\ pc[p] = "mkdir"
  /\ lockDir = NoDir
  /\ lockDir' = token[p]
  /\ mtime' = [mtime EXCEPT ![token[p]] = clock]
  /\ Goto(p, "pin")
  /\ UNCHANGED <<token, pinned, deadline, flock, owner, attempts, clock>>

\* mkdir reports FileExistsError and the existing directory is opened.
DirExists(p) ==
  /\ pc[p] = "mkdir"
  /\ lockDir # NoDir
  /\ pinned' = [pinned EXCEPT ![p] = lockDir]
  /\ Goto(p, "inspect")
  /\ UNCHANGED <<token, deadline, flock, lockDir, owner, mtime, attempts,
                 clock>>

\* The inspected lock may be reaped and still has its name.
DecideReap(p) ==
  /\ pc[p] = "inspect"
  /\ MayReap(p, pinned[p])
  /\ lockDir = pinned[p]
  /\ Goto(p, "rename")
  /\ UNCHANGED <<token, pinned, deadline, flock, lockDir, owner, mtime,
                 attempts, clock>>

InspectionLost(p) ==
  /\ pc[p] = "inspect"
  /\ MayReap(p, pinned[p])
  /\ lockDir # pinned[p]
  /\ Leave(p, "lost")
  /\ UNCHANGED <<token, deadline, lockDir, owner, mtime, attempts, clock>>

\* Wrong variant: the deadline is not looked at while a directory stands.
RetryForever(p) ==
  /\ pc[p] = "inspect"
  /\ ~MayReap(p, pinned[p])
  /\ Goto(p, "mkdir")
  /\ pinned' = [pinned EXCEPT ![p] = NoDir]
  /\ UNCHANGED <<token, deadline, flock, lockDir, owner, mtime, attempts, clock>>

\* The lock stands: sleep and try mkdir again, or give up at the deadline.
Retry(p) ==
  /\ pc[p] = "inspect"
  /\ ~MayReap(p, pinned[p])
  /\ IF Expired(p)
     THEN Leave(p, "timedout")
     ELSE /\ Goto(p, "mkdir")
          /\ pinned' = [pinned EXCEPT ![p] = NoDir]
          /\ UNCHANGED flock
  /\ UNCHANGED <<token, deadline, lockDir, owner, mtime, attempts, clock>>

\* Whatever has the public name is moved into quarantine; if it is not the
\* inspected directory the attempt fails and the foreign directory stays there.
Rename(p) ==
  /\ pc[p] = "rename"
  /\ lockDir' = NoDir
  /\ IF lockDir = pinned[p]
     THEN Goto(p, "remove") /\ UNCHANGED <<flock, pinned>>
     ELSE Leave(p, "lost")
  /\ UNCHANGED <<token, deadline, owner, mtime, attempts, clock>>

RemoveQuarantined(p) ==
  /\ pc[p] = "remove"
  /\ owner' = [owner EXCEPT ![pinned[p]] = NoOwner]
  /\ pinned' = [pinned EXCEPT ![p] = NoDir]
  /\ Goto(p, "mkdir")
  /\ UNCHANGED <<token, deadline, flock, lockDir, mtime, attempts, clock>>

\* The new directory is opened and compared with its name.
PinDir(p) ==
  /\ pc[p] = "pin"
  /\ IF lockDir = NoDir
     THEN Leave(p, "lost")
     ELSE /\ pinned' = [pinned EXCEPT ![p] = lockDir]
          /\ Goto(p, "own")
          /\ UNCHANGED flock
  /\ UNCHANGED <<token, deadline, lockDir, owner, mtime, attempts, clock>>

\* Wrong variant: the record has no start time.
WriteOwnerWithoutStart(p) ==
  /\ pc[p] = "own"
  /\ owner' = [owner EXCEPT ![pinned[p]] = [proc |-> p, tok |-> token[p]]]
  /\ mtime' = [mtime EXCEPT ![pinned[p]] = clock]
  /\ Goto(p, "held")
  /\ UNCHANGED <<token, pinned, deadline, flock, lockDir, attempts, clock>>

\* owner.json is written through the descriptor, wherever the directory is now.
WriteOwner(p) ==
  /\ pc[p] = "own"
  /\ owner' = [owner EXCEPT ![pinned[p]] =
                 [proc |-> p, tok |-> token[p], started |-> clock]]
  /\ mtime' = [mtime EXCEPT ![pinned[p]] = clock]
  /\ Goto(p, "held")
  /\ UNCHANGED <<token, pinned, deadline, flock, lockDir, attempts, clock>>

\* Writing owner.json fails: the new directory is removed if it still has its
\* name, and the error leaves acquire().
WriteOwnerFails(p) ==
  /\ pc[p] = "own"
  /\ lockDir' = IF lockDir = pinned[p] THEN NoDir ELSE lockDir
  /\ Leave(p, "lost")
  /\ UNCHANGED <<token, deadline, owner, mtime, attempts, clock>>

-----------------------------------------------------------------------------
(***************************************************************************)
(* release(): check the owner token and the name, unlink owner.json, check *)
(* the name again, rmdir.                                                  *)
(***************************************************************************)
OwnsPinned(p) ==
  /\ owner[pinned[p]] # NoOwner
  /\ owner[pinned[p]].tok = token[p]

Release(p) ==
  /\ pc[p] = "held"
  /\ IF OwnsPinned(p) /\ lockDir = pinned[p]
     THEN /\ owner' = [owner EXCEPT ![pinned[p]] = NoOwner]
          /\ mtime' = [mtime EXCEPT ![pinned[p]] = clock]
          /\ Goto(p, "rmdir")
          /\ UNCHANGED <<flock, pinned>>
     ELSE Leave(p, "lost") /\ UNCHANGED <<owner, mtime>>
  /\ UNCHANGED <<token, deadline, lockDir, attempts, clock>>

RemoveDir(p) ==
  /\ pc[p] = "rmdir"
  /\ IF lockDir = pinned[p]
     THEN lockDir' = NoDir /\ Leave(p, "idle")
     ELSE UNCHANGED lockDir /\ Leave(p, "lost")
  /\ UNCHANGED <<token, deadline, owner, mtime, attempts, clock>>

-----------------------------------------------------------------------------
(***************************************************************************)
(* The environment: a process dies at any point and the kernel drops its   *)
(* flock; its pid may be given to a new process; time passes.              *)
(***************************************************************************)
Crash(p) ==
  /\ pc[p] \in Flocked \cup {"flock"}
  /\ Leave(p, "dead")
  /\ UNCHANGED <<token, deadline, lockDir, owner, mtime, attempts, clock>>

ReusePid(p) ==
  /\ pc[p] = "dead"
  /\ Goto(p, "idle")
  /\ UNCHANGED <<token, pinned, deadline, flock, lockDir, owner, mtime,
                 attempts, clock>>

Tick ==
  /\ clock < MaxTime
  /\ clock' = clock + 1
  /\ UNCHANGED <<pc, token, pinned, deadline, flock, lockDir, owner, mtime,
                 attempts>>

Acquire(p) ==
  \/ TakeFlock(p) \/ FlockTimeout(p) \/ MakeDir(p) \/ DirExists(p)
  \/ DecideReap(p) \/ InspectionLost(p) \/ Retry(p) \/ Rename(p)
  \/ RemoveQuarantined(p) \/ PinDir(p) \/ WriteOwner(p)
  \/ WriteOwnerFails(p)

Next ==
  \/ \E p \in Procs :
       \/ Start(p) \/ Acquire(p) \/ Release(p) \/ RemoveDir(p)
       \/ Crash(p) \/ ReusePid(p)
  \/ Tick

Spec == Init /\ [][Next]_vars

\* A process inside acquire() is scheduled and time passes; nothing obliges a
\* holder to release, a process to start or a dead pid to be reused.
FairSpec == Spec /\ WF_vars(Tick) /\ \A p \in Procs : WF_vars(Acquire(p))

-----------------------------------------------------------------------------
(***************************************************************************)
(* Properties                                                              *)
(***************************************************************************)

\* At most one process is past acquire() and not yet past release(): the
\* critical section of every vault mutation.
MutualExclusion ==
  \A p, q \in Procs : pc[p] \in Keeping /\ pc[q] \in Keeping => p = q

\* While a process holds the lock the public name is its directory and
\* owner.json carries its token, so release() cannot fail with
\* LOCK_OWNERSHIP_LOST unless somebody outside the protocol tampers.
HolderKeepsLock ==
  \A p \in Procs : pc[p] = "held" => /\ lockDir = pinned[p]
                                     /\ OwnsPinned(p)

\* The attempt that created directory d is still inside acquire()..release().
Working(d) == \E p \in Procs : token[p] = d /\ pc[p] \in Creating \cup Keeping

\* The public name of a lock that its attempt still uses goes, and the creator
\* did not remove it.
Steals ==
  /\ lockDir # NoDir /\ lockDir' # lockDir
  /\ Working(lockDir)
  /\ \A p \in Procs : ~ /\ token[p] = lockDir
                        /\ pc[p] \in {"own", "rmdir"}
                        /\ pc'[p] \in Resting

\* Recovery never takes away a lock whose process is still using it, however
\* old it is (operation-transactions.md: "Recovery never steals an old lock
\* merely because its age elapsed").
NeverStolen == [][~Steals]_vars

\* Every acquire() ends: with the lock, with an error, or with the process.
AcquireEnds ==
  \A p \in Procs : pc[p] = "flock" ~> pc[p] \in Resting \cup {"held", "dead"}

-----------------------------------------------------------------------------
(***************************************************************************)
(* The inductive invariant behind MutualExclusion, HolderKeepsLock and     *)
(* NeverStolen.  It needs flock to be shared by everyone, or nobody to     *)
(* force: a forced reap on a file system whose flock is local to a host    *)
(* does take away a live lock.                                             *)
(***************************************************************************)
OverrideIsSafe == SharedFlock \/ Forcing = {}

\* What a state needs of that: no forced reap is under way beyond flock's reach.
NobodyForces == SharedFlock \/ \A p \in Procs : pc[p] = "rename" => p \notin Forcing

PreMake == {"flock", "mkdir", "inspect"} \cup Reaping
Using   == Creating \cup Keeping

FlockInv ==
  /\ \A p \in Procs : p \in flock <=> pc[p] \in Flocked
  /\ \A p, q \in flock : Conflict(p, q) => p = q

\* Tokens name attempts, and directories only exist for attempts made.
TokenInv ==
  /\ \A p \in Procs : token[p] <= attempts /\ pinned[p] <= attempts
  /\ \A p \in Procs : pc[p] \in PreMake \cup Using => token[p] # 0
  /\ \A p, q \in Procs : token[p] = token[q] /\ token[p] # 0 => p = q
  /\ lockDir <= attempts

\* An attempt that has not made its directory yet has left no trace.
FreshInv ==
  /\ \A t \in Tokens : t > attempts => owner[t] = NoOwner
  /\ \A p \in Procs : pc[p] \in PreMake =>
       /\ owner[token[p]] = NoOwner
       /\ lockDir # token[p]
       /\ \A q \in Procs : pinned[q] # token[p]

\* The lock of an attempt that uses it is the public one and says so.
InUse(p) ==
  /\ lockDir = token[p]
  /\ pc[p] # "pin" => pinned[p] = token[p]
  /\ pc[p] # "held" => owner[token[p]] = NoOwner
  /\ pc[p] = "held" => /\ owner[token[p]] # NoOwner
                       /\ owner[token[p]].proc = p
                       /\ owner[token[p]].tok = token[p]

UseInv == \A p \in Procs : pc[p] \in Using => InUse(p)

\* The judgement a reaper made is still true when it acts on it.
ReapInv ==
  \A p \in Procs :
    /\ pc[p] \in {"inspect"} \cup Reaping => pinned[p] # NoDir
    /\ pc[p] = "rename" =>
         /\ lockDir = pinned[p]
         /\ p \notin Forcing => /\ owner[pinned[p]] # NoOwner
                                /\ HostOf[owner[pinned[p]].proc] = HostOf[p]
    /\ pc[p] = "remove" => lockDir # pinned[p]

IInv == TypeOK /\ FlockInv /\ TokenInv /\ FreshInv /\ UseInv /\ ReapInv
=============================================================================
