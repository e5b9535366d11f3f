------------------------ MODULE MutationLockProofs ------------------------
(***************************************************************************)
(* For every set of processes, hosts, timeouts and bounds: the mutation    *)
(* lock excludes, its holder keeps it until it releases it, and nobody     *)
(* takes away a lock in use, provided flock is shared by all processes or  *)
(* nobody uses --force-stale-lock; and even without either until somebody  *)
(* does (ForcedSpec of MCMutationLock, which remembers whether).           *)
(***************************************************************************)
EXTENDS MCMutationLock, TLAPS

\* The program points by name, instead of the unions that group them.
LEMMA ProgramPoints ==
  /\ "idle" \in PCs /\ "timedout" \in PCs /\ "lost" \in PCs
  /\ "flock" \in PCs /\ "dead" \in PCs /\ "mkdir" \in PCs
  /\ "inspect" \in PCs /\ "rename" \in PCs /\ "remove" \in PCs
  /\ "pin" \in PCs /\ "own" \in PCs /\ "held" \in PCs /\ "rmdir" \in PCs
  BY DEF PCs, Resting, Flocked, Creating, Keeping, Reaping

\* The initial state has the right types.
LEMMA InitTypeOK == Init => TypeOK
  BY ConstantsAssumption, ProgramPoints DEF Init, TypeOK, NoDir, Tokens, Times

\* The bounds are natural numbers.
LEMMA Bounds ==
  /\ StaleAfter \in Nat /\ Timeout \in Nat
  /\ MaxAttempts \in Nat /\ MaxTime \in Nat
  BY ConstantsAssumption

\* Leave and Goto respect the types of what they change.
LEMMA LeaveType ==
  ASSUME TypeOK, NEW p \in Procs, NEW where \in PCs, Leave(p, where)
  PROVE  /\ pc' \in [Procs -> PCs]
         /\ flock' \subseteq Procs
         /\ pinned' \in [Procs -> 0..MaxAttempts]
  BY Bounds DEF TypeOK, Leave, NoDir

\* So does going to another program point.
LEMMA GotoType ==
  ASSUME TypeOK, NEW p \in Procs, NEW where \in PCs, Goto(p, where)
  PROVE  pc' \in [Procs -> PCs]
  BY DEF TypeOK, Goto

\* Every step keeps the types.
LEMMA NextTypeOK == TypeOK /\ [Next]_vars => TypeOK'
<1> SUFFICES ASSUME TypeOK, [Next]_vars PROVE TypeOK'
  OBVIOUS
<1> USE Bounds, ProgramPoints, LeaveType, GotoType
<1>1. ASSUME NEW p \in Procs, Start(p) PROVE TypeOK'
  BY <1>1 DEF Start, TypeOK, Times, Tokens
<1>2. ASSUME NEW p \in Procs, TakeFlock(p) PROVE TypeOK'
  BY <1>2 DEF TakeFlock, TypeOK
<1>3. ASSUME NEW p \in Procs, FlockTimeout(p) PROVE TypeOK'
  BY <1>3 DEF FlockTimeout, TypeOK
<1>4. ASSUME NEW p \in Procs, MakeDir(p) PROVE TypeOK'
  BY <1>4 DEF MakeDir, TypeOK, NoDir, Times
<1>5. ASSUME NEW p \in Procs, DirExists(p) PROVE TypeOK'
  BY <1>5 DEF DirExists, TypeOK, NoDir
<1>6. ASSUME NEW p \in Procs, DecideReap(p) PROVE TypeOK'
  BY <1>6 DEF DecideReap, TypeOK
<1>7. ASSUME NEW p \in Procs, InspectionLost(p) PROVE TypeOK'
  BY <1>7 DEF InspectionLost, TypeOK
<1>8. ASSUME NEW p \in Procs, Retry(p) PROVE TypeOK'
  <2>1. CASE Expired(p)
    BY <1>8, <2>1 DEF Retry, TypeOK
  <2>2. CASE ~Expired(p)
    BY <1>8, <2>2 DEF Retry, TypeOK, NoDir
  <2> QED
    BY <2>1, <2>2
<1>9. ASSUME NEW p \in Procs, Rename(p) PROVE TypeOK'
  <2>1. CASE lockDir = pinned[p]
    BY <1>9, <2>1 DEF Rename, TypeOK, NoDir
  <2>2. CASE lockDir # pinned[p]
    BY <1>9, <2>2 DEF Rename, TypeOK, NoDir
  <2> QED
    BY <2>1, <2>2
<1>10. ASSUME NEW p \in Procs, RemoveQuarantined(p) PROVE TypeOK'
  <2>1. owner' \in [Tokens -> Owners \cup {NoOwner}]
    BY <1>10 DEF RemoveQuarantined, TypeOK
  <2>2. pinned' \in [Procs -> 0..MaxAttempts]
    BY <1>10 DEF RemoveQuarantined, TypeOK, NoDir
  <2> QED
    BY <1>10, <2>1, <2>2 DEF RemoveQuarantined, TypeOK
<1>11. ASSUME NEW p \in Procs, PinDir(p) PROVE TypeOK'
  <2>1. CASE lockDir = NoDir
    BY <1>11, <2>1 DEF PinDir, TypeOK, NoDir
  <2>2. CASE lockDir # NoDir
    BY <1>11, <2>2 DEF PinDir, TypeOK, NoDir
  <2> QED
    BY <2>1, <2>2
<1>12. ASSUME NEW p \in Procs, WriteOwner(p) PROVE TypeOK'
  BY <1>12 DEF WriteOwner, TypeOK, Times, Owners, Tokens
<1>13. ASSUME NEW p \in Procs, WriteOwnerFails(p) PROVE TypeOK'
  BY <1>13 DEF WriteOwnerFails, TypeOK, NoDir
<1>14. ASSUME NEW p \in Procs, Release(p) PROVE TypeOK'
  <2>1. CASE OwnsPinned(p) /\ lockDir = pinned[p]
    BY <1>14, <2>1 DEF Release, TypeOK, Goto, Times
  <2>2. CASE ~(OwnsPinned(p) /\ lockDir = pinned[p])
    BY <1>14, <2>2 DEF Release, TypeOK, Goto, Times
  <2> QED
    BY <2>1, <2>2
<1>15. ASSUME NEW p \in Procs, RemoveDir(p) PROVE TypeOK'
  <2>1. CASE lockDir = pinned[p]
    BY <1>15, <2>1 DEF RemoveDir, TypeOK, NoDir
  <2>2. CASE lockDir # pinned[p]
    BY <1>15, <2>2 DEF RemoveDir, TypeOK, NoDir
  <2> QED
    BY <2>1, <2>2
<1>16. ASSUME NEW p \in Procs, Crash(p) PROVE TypeOK'
  BY <1>16 DEF Crash, TypeOK
<1>17. ASSUME NEW p \in Procs, ReusePid(p) PROVE TypeOK'
  BY <1>17 DEF ReusePid, TypeOK
<1>18. CASE Tick
  BY <1>18 DEF Tick, TypeOK, Times
<1>19. CASE UNCHANGED vars
  BY <1>19 DEF vars, TypeOK
<1> QED
  BY <1>1, <1>2, <1>3, <1>4, <1>5, <1>6, <1>7, <1>8, <1>9, <1>10, <1>11, <1>12, <1>13, <1>14, <1>15, <1>16, <1>17, <1>18, <1>19 DEF Next, Acquire

\* Every variable keeps its type.
THEOREM TypeCorrect == Spec => []TypeOK
  BY InitTypeOK, NextTypeOK, PTL DEF Spec

-----------------------------------------------------------------------------
\* The parts of the invariant, to be cited one by one.
LEMMA Parts == IInv => TypeOK /\ FlockInv /\ TokenInv /\ FreshInv /\ UseInv /\ ReapInv
  BY DEF IInv

\* Two attempts cannot both use their directories: both would be the public one.
LEMMA OneUser ==
  ASSUME IInv, NEW p \in Procs, NEW q \in Procs,
         pc[p] \in Using, pc[q] \in Using
  PROVE  p = q
  BY DEF IInv, TokenInv, UseInv, InUse

\* A process about to rename a lock away has no user of that lock to fear for:
\* with a shared flock there is nobody else, and an unforced reaper found the
\* record of a process of its own host, which its flock keeps out.
LEMMA ReaperMeetsNoUser ==
  ASSUME IInv, NobodyForces, NEW p \in Procs, NEW q \in Procs,
         pc[p] = "rename", pc[q] \in Using
  PROVE  FALSE
<1>1. p # q
  BY DEF Using, Creating, Keeping
<1>2. p \in flock /\ q \in flock
  BY DEF IInv, FlockInv, Flocked, Reaping, Using
<1>3. ~Conflict(p, q)
  BY <1>1, <1>2 DEF IInv, FlockInv
<1>4. p \notin Forcing
  BY <1>3 DEF Conflict, NobodyForces
<1>5. /\ lockDir = token[q]
      /\ owner[token[q]] # NoOwner
      /\ HostOf[owner[token[q]].proc] = HostOf[p]
  BY <1>4 DEF IInv, ReapInv, UseInv, InUse
<1>6. owner[token[q]].proc = q
  BY <1>5 DEF IInv, UseInv, InUse
<1> QED
  BY <1>3, <1>5, <1>6 DEF Conflict

\* Nor are there two processes about to rename the same lock away.
LEMMA OneReaper ==
  ASSUME IInv, NobodyForces, NEW p \in Procs, NEW q \in Procs,
         pc[p] = "rename", pc[q] = "rename"
  PROVE  p = q
<1> SUFFICES ASSUME p # q PROVE FALSE
  OBVIOUS
<1>1. p \in flock /\ q \in flock
  BY DEF IInv, FlockInv, Flocked, Reaping
<1>2. ~Conflict(p, q)
  BY <1>1 DEF IInv, FlockInv
<1>3. p \notin Forcing /\ q \notin Forcing
  BY <1>2 DEF Conflict, NobodyForces
<1>4. /\ HostOf[owner[pinned[p]].proc] = HostOf[p]
      /\ HostOf[owner[pinned[q]].proc] = HostOf[q]
      /\ pinned[p] = pinned[q]
  BY <1>3 DEF IInv, ReapInv
<1> QED
  BY <1>2, <1>4 DEF Conflict

\* flock is held by exactly the processes past it, without conflict.
LEMMA FlockStep ==
  ASSUME IInv, NobodyForces, [Next]_vars PROVE FlockInv'
<1> USE Parts
    DEF FlockInv, TypeOK, PreMake, Using, Flocked, Resting, Creating, Keeping,
        Reaping
<1>1. ASSUME NEW p \in Procs, Start(p) PROVE FlockInv'
  BY <1>1 DEF Start, Goto
<1>2. ASSUME NEW p \in Procs, TakeFlock(p) PROVE FlockInv'
  BY <1>2 DEF TakeFlock, Goto, FlockFree, Conflict
<1>3. ASSUME NEW p \in Procs, FlockTimeout(p) PROVE FlockInv'
  BY <1>3 DEF FlockTimeout, Leave
<1>4. ASSUME NEW p \in Procs, MakeDir(p) PROVE FlockInv'
  BY <1>4 DEF MakeDir, Goto
<1>5. ASSUME NEW p \in Procs, DirExists(p) PROVE FlockInv'
  BY <1>5 DEF DirExists, Goto
<1>6. ASSUME NEW p \in Procs, DecideReap(p) PROVE FlockInv'
  BY <1>6 DEF DecideReap, Goto
<1>7. ASSUME NEW p \in Procs, InspectionLost(p) PROVE FlockInv'
  BY <1>7 DEF InspectionLost, Leave
<1>8. ASSUME NEW p \in Procs, Retry(p) PROVE FlockInv'
  BY <1>8 DEF Retry, Goto, Leave
<1>9. ASSUME NEW p \in Procs, Rename(p) PROVE FlockInv'
  BY <1>9 DEF Rename, Goto, Leave
<1>10. ASSUME NEW p \in Procs, RemoveQuarantined(p) PROVE FlockInv'
  BY <1>10 DEF RemoveQuarantined, Goto
<1>11. ASSUME NEW p \in Procs, PinDir(p) PROVE FlockInv'
  BY <1>11 DEF PinDir, Goto, Leave
<1>12. ASSUME NEW p \in Procs, WriteOwner(p) PROVE FlockInv'
  BY <1>12 DEF WriteOwner, Goto
<1>13. ASSUME NEW p \in Procs, WriteOwnerFails(p) PROVE FlockInv'
  BY <1>13 DEF WriteOwnerFails, Leave
<1>14. ASSUME NEW p \in Procs, Release(p) PROVE FlockInv'
  BY <1>14 DEF Release, Goto, Leave
<1>15. ASSUME NEW p \in Procs, RemoveDir(p) PROVE FlockInv'
  BY <1>15 DEF RemoveDir, Leave
<1>16. ASSUME NEW p \in Procs, Crash(p) PROVE FlockInv'
  BY <1>16 DEF Crash, Leave
<1>17. ASSUME NEW p \in Procs, ReusePid(p) PROVE FlockInv'
  BY <1>17 DEF ReusePid, Goto
<1>18. CASE Tick
  BY <1>18 DEF Tick
<1>19. CASE UNCHANGED vars
  BY <1>19 DEF vars
<1> QED
  BY <1>1, <1>2, <1>3, <1>4, <1>5, <1>6, <1>7, <1>8, <1>9, <1>10, <1>11, <1>12, <1>13, <1>14, <1>15, <1>16, <1>17, <1>18, <1>19 DEF Next, Acquire

\* Tokens stay unique and name attempts already made.
LEMMA TokenStep ==
  ASSUME IInv, NobodyForces, [Next]_vars PROVE TokenInv'
<1> USE Parts, Bounds
    DEF TokenInv, TypeOK, NoDir, PreMake, Using, Flocked, Resting, Creating, Keeping,
        Reaping
<1>1. ASSUME NEW p \in Procs, Start(p) PROVE TokenInv'
  BY <1>1 DEF Start, Goto
<1>2. ASSUME NEW p \in Procs, TakeFlock(p) PROVE TokenInv'
  BY <1>2 DEF TakeFlock, Goto
<1>3. ASSUME NEW p \in Procs, FlockTimeout(p) PROVE TokenInv'
  BY <1>3 DEF FlockTimeout, Leave
<1>4. ASSUME NEW p \in Procs, MakeDir(p) PROVE TokenInv'
  BY <1>4 DEF MakeDir, Goto
<1>5. ASSUME NEW p \in Procs, DirExists(p) PROVE TokenInv'
  BY <1>5 DEF DirExists, Goto
<1>6. ASSUME NEW p \in Procs, DecideReap(p) PROVE TokenInv'
  BY <1>6 DEF DecideReap, Goto
<1>7. ASSUME NEW p \in Procs, InspectionLost(p) PROVE TokenInv'
  BY <1>7 DEF InspectionLost, Leave
<1>8. ASSUME NEW p \in Procs, Retry(p) PROVE TokenInv'
  BY <1>8 DEF Retry, Goto, Leave
<1>9. ASSUME NEW p \in Procs, Rename(p) PROVE TokenInv'
  BY <1>9 DEF Rename, Goto, Leave
<1>10. ASSUME NEW p \in Procs, RemoveQuarantined(p) PROVE TokenInv'
  BY <1>10 DEF RemoveQuarantined, Goto
<1>11. ASSUME NEW p \in Procs, PinDir(p) PROVE TokenInv'
  BY <1>11 DEF PinDir, Goto, Leave
<1>12. ASSUME NEW p \in Procs, WriteOwner(p) PROVE TokenInv'
  BY <1>12 DEF WriteOwner, Goto
<1>13. ASSUME NEW p \in Procs, WriteOwnerFails(p) PROVE TokenInv'
  BY <1>13 DEF WriteOwnerFails, Leave
<1>14. ASSUME NEW p \in Procs, Release(p) PROVE TokenInv'
  BY <1>14 DEF Release, Goto, Leave
<1>15. ASSUME NEW p \in Procs, RemoveDir(p) PROVE TokenInv'
  BY <1>15 DEF RemoveDir, Leave
<1>16. ASSUME NEW p \in Procs, Crash(p) PROVE TokenInv'
  BY <1>16 DEF Crash, Leave
<1>17. ASSUME NEW p \in Procs, ReusePid(p) PROVE TokenInv'
  BY <1>17 DEF ReusePid, Goto
<1>18. CASE Tick
  BY <1>18 DEF Tick
<1>19. CASE UNCHANGED vars
  BY <1>19 DEF vars
<1> QED
  BY <1>1, <1>2, <1>3, <1>4, <1>5, <1>6, <1>7, <1>8, <1>9, <1>10, <1>11, <1>12, <1>13, <1>14, <1>15, <1>16, <1>17, <1>18, <1>19 DEF Next, Acquire

\* An attempt leaves no trace before its mkdir.
LEMMA FreshStep ==
  ASSUME IInv, NobodyForces, [Next]_vars PROVE FreshInv'
<1> USE Parts, Bounds
    DEF FreshInv, TokenInv, UseInv, InUse, TypeOK, NoDir, Tokens, PreMake, Using, Flocked, Resting, Creating, Keeping,
        Reaping
<1>1. ASSUME NEW p \in Procs, Start(p) PROVE FreshInv'
  BY <1>1 DEF Start, Goto
<1>2. ASSUME NEW p \in Procs, TakeFlock(p) PROVE FreshInv'
  BY <1>2 DEF TakeFlock, Goto
<1>3. ASSUME NEW p \in Procs, FlockTimeout(p) PROVE FreshInv'
  BY <1>3 DEF FlockTimeout, Leave
<1>4. ASSUME NEW p \in Procs, MakeDir(p) PROVE FreshInv'
  BY <1>4 DEF MakeDir, Goto
<1>5. ASSUME NEW p \in Procs, DirExists(p) PROVE FreshInv'
  BY <1>5 DEF DirExists, Goto
<1>6. ASSUME NEW p \in Procs, DecideReap(p) PROVE FreshInv'
  BY <1>6 DEF DecideReap, Goto
<1>7. ASSUME NEW p \in Procs, InspectionLost(p) PROVE FreshInv'
  BY <1>7 DEF InspectionLost, Leave
<1>8. ASSUME NEW p \in Procs, Retry(p) PROVE FreshInv'
  BY <1>8 DEF Retry, Goto, Leave
<1>9. ASSUME NEW p \in Procs, Rename(p) PROVE FreshInv'
  BY <1>9 DEF Rename, Goto, Leave
<1>10. ASSUME NEW p \in Procs, RemoveQuarantined(p) PROVE FreshInv'
  BY <1>10 DEF RemoveQuarantined, Goto
<1>11. ASSUME NEW p \in Procs, PinDir(p) PROVE FreshInv'
  BY <1>11 DEF PinDir, Goto, Leave
<1>12. ASSUME NEW p \in Procs, WriteOwner(p) PROVE FreshInv'
  BY <1>12 DEF WriteOwner, Goto
<1>13. ASSUME NEW p \in Procs, WriteOwnerFails(p) PROVE FreshInv'
  BY <1>13 DEF WriteOwnerFails, Leave
<1>14. ASSUME NEW p \in Procs, Release(p) PROVE FreshInv'
  <2>1. \A t \in Tokens : owner'[t] \in {owner[t], NoOwner}
    BY <1>14 DEF Release, Leave, TypeOK
  <2>2. \A q \in Procs : /\ pinned'[q] \in {pinned[q], 0}
                         /\ pc'[q] \in PreMake => pc[q] \in PreMake
    BY <1>14 DEF Release, Goto, Leave, TypeOK, NoDir, PreMake, Using, Flocked, Resting, Creating, Keeping, Reaping
  <2>3. \A q \in Procs : pc[q] \in PreMake => token[q] \in Tokens
    BY DEF TokenInv, TypeOK, Tokens
  <2>4. UNCHANGED <<token, attempts, lockDir>>
    BY <1>14 DEF Release
  <2>5. \A t \in Tokens : t > attempts => owner'[t] = NoOwner
    BY <2>1 DEF FreshInv
  <2>6. ASSUME NEW q \in Procs, pc'[q] \in PreMake
        PROVE  /\ owner'[token[q]] = NoOwner
               /\ lockDir # token[q]
               /\ \A r \in Procs : pinned'[r] # token[q]
    <3>1. pc[q] \in PreMake /\ token[q] \in Tokens
      BY <2>2, <2>3, <2>6
    <3>2. token[q] # 0
      BY <3>1, Bounds DEF Tokens
    <3> QED
      BY <2>1, <2>2, <3>1, <3>2 DEF FreshInv
  <2> QED
    BY <2>4, <2>5, <2>6 DEF FreshInv
<1>15. ASSUME NEW p \in Procs, RemoveDir(p) PROVE FreshInv'
  BY <1>15 DEF RemoveDir, Leave
<1>16. ASSUME NEW p \in Procs, Crash(p) PROVE FreshInv'
  BY <1>16 DEF Crash, Leave
<1>17. ASSUME NEW p \in Procs, ReusePid(p) PROVE FreshInv'
  BY <1>17 DEF ReusePid, Goto
<1>18. CASE Tick
  BY <1>18 DEF Tick
<1>19. CASE UNCHANGED vars
  BY <1>19 DEF vars
<1> QED
  BY <1>1, <1>2, <1>3, <1>4, <1>5, <1>6, <1>7, <1>8, <1>9, <1>10, <1>11, <1>12, <1>13, <1>14, <1>15, <1>16, <1>17, <1>18, <1>19 DEF Next, Acquire

\* Nobody touches a lock in use.
LEMMA UseStep ==
  ASSUME IInv, NobodyForces, [Next]_vars PROVE UseInv'
<1> USE Parts, Bounds, OneUser, ReaperMeetsNoUser
    DEF UseInv, InUse, FreshInv, TokenInv, TypeOK, NoDir, PreMake, Using, Flocked, Resting, Creating, Keeping,
        Reaping
<1>1. ASSUME NEW p \in Procs, Start(p) PROVE UseInv'
  BY <1>1 DEF Start, Goto
<1>2. ASSUME NEW p \in Procs, TakeFlock(p) PROVE UseInv'
  BY <1>2 DEF TakeFlock, Goto
<1>3. ASSUME NEW p \in Procs, FlockTimeout(p) PROVE UseInv'
  BY <1>3 DEF FlockTimeout, Leave
<1>4. ASSUME NEW p \in Procs, MakeDir(p) PROVE UseInv'
  BY <1>4 DEF MakeDir, Goto
<1>5. ASSUME NEW p \in Procs, DirExists(p) PROVE UseInv'
  BY <1>5 DEF DirExists, Goto
<1>6. ASSUME NEW p \in Procs, DecideReap(p) PROVE UseInv'
  BY <1>6 DEF DecideReap, Goto
<1>7. ASSUME NEW p \in Procs, InspectionLost(p) PROVE UseInv'
  BY <1>7 DEF InspectionLost, Leave
<1>8. ASSUME NEW p \in Procs, Retry(p) PROVE UseInv'
  BY <1>8 DEF Retry, Goto, Leave
<1>9. ASSUME NEW p \in Procs, Rename(p) PROVE UseInv'
  BY <1>9 DEF Rename, Goto, Leave
<1>10. ASSUME NEW p \in Procs, RemoveQuarantined(p) PROVE UseInv'
  <2>1. ASSUME NEW q \in Procs, pc[q] \in Using PROVE pinned[p] # token[q]
    BY <1>10, <2>1 DEF RemoveQuarantined, UseInv, InUse, ReapInv
  <2> QED
    BY <1>10, <2>1
    DEF RemoveQuarantined, Goto, UseInv, InUse, TypeOK, PreMake, Using, Flocked, Resting, Creating, Keeping, Reaping
<1>11. ASSUME NEW p \in Procs, PinDir(p) PROVE UseInv'
  BY <1>11 DEF PinDir, Goto, Leave
<1>12. ASSUME NEW p \in Procs, WriteOwner(p) PROVE UseInv'
  <2> SUFFICES ASSUME NEW q \in Procs, pc'[q] \in Using PROVE InUse(q)'
    BY DEF UseInv
  <2>1. pinned[p] = token[p] /\ token[p] \in Tokens /\ lockDir = token[p]
    BY <1>12 DEF WriteOwner, UseInv, InUse, TokenInv, TypeOK, Tokens, PreMake, Using, Flocked, Resting, Creating, Keeping, Reaping
  <2>2. p = q
    BY <1>12, OneUser DEF WriteOwner, Goto, TypeOK, Using, Creating, Keeping
  <2>3. owner'[token[p]] = [proc |-> p, tok |-> token[p], started |-> clock]
    BY <1>12, <2>1 DEF WriteOwner, TypeOK
  <2>4. owner'[token[p]] # NoOwner
    BY <2>3, ConstantsAssumption DEF TypeOK, Times
  <2> QED
    BY <1>12, <2>1, <2>2, <2>3, <2>4 DEF WriteOwner, Goto, InUse, TypeOK
<1>13. ASSUME NEW p \in Procs, WriteOwnerFails(p) PROVE UseInv'
  BY <1>13 DEF WriteOwnerFails, Leave
<1>14. ASSUME NEW p \in Procs, Release(p) PROVE UseInv'
  <2> SUFFICES ASSUME NEW q \in Procs, pc'[q] \in Using PROVE InUse(q)'
    BY DEF UseInv
  <2>1. pc[q] \in Using
    BY <1>14 DEF Release, Goto, Leave, TypeOK, Using, Creating, Keeping
  <2>2. p = q /\ InUse(q)
    BY <1>14, <2>1, OneUser DEF Release, UseInv, Using, Keeping
  <2>3. token[p] \in Tokens
    BY <1>14 DEF Release, TokenInv, TypeOK, Tokens, Using, Keeping
  <2> QED
    BY <1>14, <2>2, <2>3
    DEF Release, Goto, Leave, InUse, OwnsPinned, TypeOK, Using, Creating, Keeping
<1>15. ASSUME NEW p \in Procs, RemoveDir(p) PROVE UseInv'
  BY <1>15 DEF RemoveDir, Leave
<1>16. ASSUME NEW p \in Procs, Crash(p) PROVE UseInv'
  BY <1>16 DEF Crash, Leave
<1>17. ASSUME NEW p \in Procs, ReusePid(p) PROVE UseInv'
  BY <1>17 DEF ReusePid, Goto
<1>18. CASE Tick
  BY <1>18 DEF Tick
<1>19. CASE UNCHANGED vars
  BY <1>19 DEF vars
<1> QED
  BY <1>1, <1>2, <1>3, <1>4, <1>5, <1>6, <1>7, <1>8, <1>9, <1>10, <1>11, <1>12, <1>13, <1>14, <1>15, <1>16, <1>17, <1>18, <1>19 DEF Next, Acquire

\* A reaper's judgement stays true.
LEMMA ReapStep ==
  ASSUME IInv, NobodyForces, [Next]_vars PROVE ReapInv'
<1> USE Parts, Bounds, ReaperMeetsNoUser, OneReaper
    DEF ReapInv, UseInv, InUse, FreshInv, TokenInv, TypeOK, NoDir, PreMake, Using, Flocked, Resting, Creating, Keeping,
        Reaping
<1>1. ASSUME NEW p \in Procs, Start(p) PROVE ReapInv'
  BY <1>1 DEF Start, Goto
<1>2. ASSUME NEW p \in Procs, TakeFlock(p) PROVE ReapInv'
  BY <1>2 DEF TakeFlock, Goto
<1>3. ASSUME NEW p \in Procs, FlockTimeout(p) PROVE ReapInv'
  BY <1>3 DEF FlockTimeout, Leave
<1>4. ASSUME NEW p \in Procs, MakeDir(p) PROVE ReapInv'
  BY <1>4 DEF MakeDir, Goto
<1>5. ASSUME NEW p \in Procs, DirExists(p) PROVE ReapInv'
  BY <1>5 DEF DirExists, Goto
<1>6. ASSUME NEW p \in Procs, DecideReap(p) PROVE ReapInv'
  BY <1>6 DEF DecideReap, MayReap, Goto
<1>7. ASSUME NEW p \in Procs, InspectionLost(p) PROVE ReapInv'
  BY <1>7 DEF InspectionLost, Leave
<1>8. ASSUME NEW p \in Procs, Retry(p) PROVE ReapInv'
  BY <1>8 DEF Retry, Goto, Leave
<1>9. ASSUME NEW p \in Procs, Rename(p) PROVE ReapInv'
  BY <1>9 DEF Rename, Goto, Leave
<1>10. ASSUME NEW p \in Procs, RemoveQuarantined(p) PROVE ReapInv'
  BY <1>10 DEF RemoveQuarantined, Goto
<1>11. ASSUME NEW p \in Procs, PinDir(p) PROVE ReapInv'
  BY <1>11 DEF PinDir, Goto, Leave
<1>12. ASSUME NEW p \in Procs, WriteOwner(p) PROVE ReapInv'
  BY <1>12 DEF WriteOwner, Goto
<1>13. ASSUME NEW p \in Procs, WriteOwnerFails(p) PROVE ReapInv'
  BY <1>13 DEF WriteOwnerFails, Leave
<1>14. ASSUME NEW p \in Procs, Release(p) PROVE ReapInv'
  BY <1>14 DEF Release, Goto, Leave
<1>15. ASSUME NEW p \in Procs, RemoveDir(p) PROVE ReapInv'
  BY <1>15 DEF RemoveDir, Leave
<1>16. ASSUME NEW p \in Procs, Crash(p) PROVE ReapInv'
  BY <1>16 DEF Crash, Leave
<1>17. ASSUME NEW p \in Procs, ReusePid(p) PROVE ReapInv'
  BY <1>17 DEF ReusePid, Goto
<1>18. CASE Tick
  BY <1>18 DEF Tick
<1>19. CASE UNCHANGED vars
  BY <1>19 DEF vars
<1> QED
  BY <1>1, <1>2, <1>3, <1>4, <1>5, <1>6, <1>7, <1>8, <1>9, <1>10, <1>11, <1>12, <1>13, <1>14, <1>15, <1>16, <1>17, <1>18, <1>19 DEF Next, Acquire

\* The conjunction of the parts holds at first, and stays while nobody forces.
LEMMA InitInv == Init => IInv
<1> SUFFICES ASSUME Init PROVE IInv
  OBVIOUS
<1> USE DEF Init
<1>1. TypeOK
  BY InitTypeOK
<1>2. FlockInv /\ TokenInv /\ FreshInv /\ UseInv /\ ReapInv
  BY Bounds DEF FlockInv, TokenInv, FreshInv, UseInv, ReapInv, NoDir, Tokens,
                PreMake, Using, Flocked, Creating, Keeping, Reaping
<1> QED
  BY <1>1, <1>2 DEF IInv

LEMMA StepKeepsInv ==
  ASSUME IInv, NobodyForces, [Next]_vars PROVE IInv'
  BY NextTypeOK, FlockStep, TokenStep, FreshStep, UseStep, ReapStep DEF IInv

\* The conjunction of the parts holds in every reachable state.
THEOREM Inductive ==
  ASSUME OverrideIsSafe PROVE Spec => []IInv
<1>1. NobodyForces
  BY DEF OverrideIsSafe, NobodyForces
<1>2. IInv /\ [Next]_vars => IInv'
  BY <1>1, StepKeepsInv
<1> QED
  BY <1>2, InitInv, PTL DEF Spec

\* At most one process is in a mutation of the vault.
THEOREM LockExcludes ==
  ASSUME OverrideIsSafe PROVE Spec => []MutualExclusion
<1>1. IInv => MutualExclusion
  BY OneUser DEF MutualExclusion, Using
<1> QED
  BY <1>1, Inductive, PTL

\* The holder still owns the public lock when it comes to release it.
THEOREM HolderKeeps ==
  ASSUME OverrideIsSafe PROVE Spec => []HolderKeepsLock
<1>1. IInv => HolderKeepsLock
  BY DEF IInv, UseInv, InUse, HolderKeepsLock, OwnsPinned, Using, Keeping
<1> QED
  BY <1>1, Inductive, PTL

\* A step takes no lock away from the attempt that uses it, while nobody forces.
LEMMA StepsStealNothing ==
  ASSUME IInv, NobodyForces, [Next]_vars PROVE ~Steals
<1> DEFINE Taken == lockDir # NoDir /\ lockDir' # lockDir
           Yields == \/ ~Working(lockDir)
                     \/ \E p \in Procs : /\ token[p] = lockDir
                                        /\ pc[p] \in {"own", "rmdir"}
                                        /\ pc'[p] \in Resting
<1>1. ASSUME Taken PROVE Yields
  <2> USE <1>1, Parts
  <2>1. ASSUME NEW p \in Procs, Rename(p) PROVE Yields
    <3>1. ASSUME Working(lockDir) PROVE FALSE
      BY <2>1, <3>1, ReaperMeetsNoUser DEF Rename, Working, Using
    <3> QED
      BY <3>1
  <2>2. ASSUME NEW p \in Procs, WriteOwnerFails(p) PROVE Yields
    BY <2>2 DEF WriteOwnerFails, Leave, UseInv, InUse, TypeOK, Resting, Using,
                Creating, Keeping
  <2>3. ASSUME NEW p \in Procs, RemoveDir(p) PROVE Yields
    BY <2>3 DEF RemoveDir, Leave, UseInv, InUse, TypeOK, Resting, Using,
                Creating, Keeping
  <2>4. ASSUME NEW p \in Procs, MakeDir(p) PROVE FALSE
    BY <2>4 DEF MakeDir
  <2>5. ASSUME NEW p \in Procs,
               \/ Start(p) \/ TakeFlock(p) \/ FlockTimeout(p) \/ DirExists(p)
               \/ DecideReap(p) \/ InspectionLost(p) \/ Retry(p)
               \/ RemoveQuarantined(p) \/ PinDir(p) \/ WriteOwner(p)
               \/ Release(p) \/ Crash(p) \/ ReusePid(p)
        PROVE FALSE
    BY <2>5 DEF Start, TakeFlock, FlockTimeout, DirExists, DecideReap,
        InspectionLost, Retry, RemoveQuarantined, PinDir, WriteOwner, Release,
        Crash, ReusePid
  <2>6. Tick \/ UNCHANGED vars => FALSE
    BY DEF Tick, vars
  <2> QED
    BY <2>1, <2>2, <2>3, <2>4, <2>5, <2>6 DEF Next, Acquire
<1> QED
  BY <1>1 DEF Steals

\* No step takes a lock away from the attempt that uses it.
THEOREM LockNeverStolen ==
  ASSUME OverrideIsSafe PROVE Spec => NeverStolen
<1>1. NobodyForces
  BY DEF OverrideIsSafe, NobodyForces
<1>2. IInv /\ [Next]_vars => [~Steals]_vars
  BY <1>1, StepsStealNothing
<1> QED
  BY <1>2, Inductive, PTL DEF Spec, NeverStolen

-----------------------------------------------------------------------------
(***************************************************************************)
(* Beyond the reach of flock and with processes that may force: all of it  *)
(* holds until the first of them does.                                     *)
(***************************************************************************)
LEMMA ForcedStepIsStep ==
  ASSUME [ForcedNext]_forcedVars
  PROVE  [Next]_vars /\ (~forced' => ~forced)
<1>1. ASSUME NEW p \in Procs, DecideReap(p), forced' = (forced \/ p \in Forcing)
      PROVE  Next /\ (~forced' => ~forced)
  BY <1>1 DEF Next, Acquire
<1>2. CASE ForcedNext
  BY <1>1, <1>2 DEF ForcedNext, Next, Acquire
<1>3. CASE UNCHANGED forcedVars
  BY <1>3 DEF forcedVars
<1> QED BY <1>2, <1>3

\* Only the decision to reap brings a process to the rename.
OtherStep(p) ==
  \/ Start(p) \/ TakeFlock(p) \/ FlockTimeout(p) \/ MakeDir(p) \/ DirExists(p)
  \/ InspectionLost(p) \/ Retry(p) \/ Rename(p) \/ RemoveQuarantined(p)
  \/ PinDir(p) \/ WriteOwner(p) \/ WriteOwnerFails(p) \/ Release(p)
  \/ RemoveDir(p) \/ Crash(p) \/ ReusePid(p)

LEMMA OthersDoNotReap ==
  ASSUME TypeOK, NEW p \in Procs, OtherStep(p)
  PROVE  \A q \in Procs : pc'[q] = "rename" => pc[q] = "rename"
<1> USE DEF TypeOK
<1>1. CASE \/ Start(p) \/ TakeFlock(p) \/ MakeDir(p) \/ DirExists(p)
           \/ RemoveQuarantined(p) \/ WriteOwner(p) \/ ReusePid(p)
  BY <1>1 DEF Start, TakeFlock, MakeDir, DirExists, RemoveQuarantined, WriteOwner,
     ReusePid, Goto
<1>2. CASE \/ FlockTimeout(p) \/ InspectionLost(p) \/ WriteOwnerFails(p)
           \/ RemoveDir(p) \/ Crash(p)
  BY <1>2 DEF FlockTimeout, InspectionLost, WriteOwnerFails, RemoveDir, Crash, Leave
<1>3. CASE Retry(p) \/ Rename(p) \/ PinDir(p) \/ Release(p)
  BY <1>3 DEF Retry, Rename, PinDir, Release, Goto, Leave
<1> QED BY <1>1, <1>2, <1>3 DEF OtherStep

LEMMA UnforcedStep ==
  ASSUME TypeOK, NobodyForces, [ForcedNext]_forcedVars, ~forced'
  PROVE  NobodyForces'
<1>1. ASSUME NEW p \in Procs, DecideReap(p), forced' = (forced \/ p \in Forcing)
      PROVE  NobodyForces'
  BY <1>1 DEF DecideReap, Goto, NobodyForces, TypeOK
<1>2. ASSUME NEW p \in Procs, OtherStep(p) PROVE NobodyForces'
  BY <1>2, OthersDoNotReap DEF NobodyForces
<1>3. CASE Tick \/ UNCHANGED forcedVars
  BY <1>3 DEF Tick, forcedVars, vars, NobodyForces
<1> QED BY <1>1, <1>2, <1>3 DEF ForcedNext, OtherStep

\* Until somebody forces, the invariant of the lock holds on every file system.
LEMMA UntilForced == ForcedSpec => [](~forced => IInv /\ NobodyForces)
<1>1. ForcedInit => IInv /\ NobodyForces
  <2>1. Init => NobodyForces
    BY DEF Init, NobodyForces
  <2> QED BY <2>1, InitInv DEF ForcedInit
<1>2. (~forced => IInv /\ NobodyForces) /\ [ForcedNext]_forcedVars
        => (~forced => IInv /\ NobodyForces)'
  <2> SUFFICES ASSUME ~forced => IInv /\ NobodyForces, [ForcedNext]_forcedVars, ~forced'
               PROVE  IInv' /\ NobodyForces'
    OBVIOUS
  <2>1. [Next]_vars /\ ~forced
    BY ForcedStepIsStep
  <2>2. IInv /\ NobodyForces
    BY <2>1
  <2>3. IInv'
    BY <2>1, <2>2, StepKeepsInv
  <2> QED BY <2>2, <2>3, UnforcedStep DEF IInv
<1> QED BY <1>1, <1>2, PTL DEF ForcedSpec

\* Also where flock does not reach every host, no step takes a lock away from the
\* attempt that uses it before somebody reaps with --force-stale-lock: the owner
\* record's host and process keep every other reaper away.
THEOREM StealsNeedForce == ForcedSpec => StolenOnlyByForce
<1>1. (~forced => IInv /\ NobodyForces) /\ [ForcedNext]_forcedVars
        => [~forced' => ~Steals]_forcedVars
  BY ForcedStepIsStep, StepsStealNothing
<1> QED BY <1>1, UntilForced, PTL DEF ForcedSpec, StolenOnlyByForce
=============================================================================
