--------------------------- MODULE MCMutationLock ---------------------------
(***************************************************************************)
(* Instances of MutationLock: which process runs on which host, and        *)
(* whether anybody has used --force-stale-lock yet.                        *)
(***************************************************************************)
EXTENDS MutationLock

CONSTANTS p1, p2, p3, h1, h2

VARIABLE forced
forcedVars == <<vars, forced>>

OneHost  == [p \in Procs |-> h1]
TwoHosts == [p \in Procs |-> IF p = p3 THEN h2 ELSE h1]

ForcedInit == Init /\ forced = FALSE

\* A process that forces may have needed to.
ForcedNext ==
  \/ \E p \in Procs : DecideReap(p) /\ forced' = (forced \/ p \in Forcing)
  \/ (\E p \in Procs : Start(p)) /\ UNCHANGED forced
  \/ (\E p \in Procs : TakeFlock(p)) /\ UNCHANGED forced
  \/ (\E p \in Procs : FlockTimeout(p)) /\ UNCHANGED forced
  \/ (\E p \in Procs : MakeDir(p)) /\ UNCHANGED forced
  \/ (\E p \in Procs : DirExists(p)) /\ UNCHANGED forced
  \/ (\E p \in Procs : InspectionLost(p)) /\ UNCHANGED forced
  \/ (\E p \in Procs : Retry(p)) /\ UNCHANGED forced
  \/ (\E p \in Procs : Rename(p)) /\ UNCHANGED forced
  \/ (\E p \in Procs : RemoveQuarantined(p)) /\ UNCHANGED forced
  \/ (\E p \in Procs : PinDir(p)) /\ UNCHANGED forced
  \/ (\E p \in Procs : WriteOwner(p)) /\ UNCHANGED forced
  \/ (\E p \in Procs : WriteOwnerFails(p)) /\ UNCHANGED forced
  \/ (\E p \in Procs : Release(p)) /\ UNCHANGED forced
  \/ (\E p \in Procs : RemoveDir(p)) /\ UNCHANGED forced
  \/ (\E p \in Procs : Crash(p)) /\ UNCHANGED forced
  \/ (\E p \in Procs : ReusePid(p)) /\ UNCHANGED forced
  \/ Tick /\ UNCHANGED forced

ForcedSpec == ForcedInit /\ [][ForcedNext]_forcedVars

\* Time passes, and a process inside acquire() is scheduled.
ForcedFairSpec ==
  ForcedSpec /\ WF_vars(Tick) /\ \A p \in Procs : WF_vars(Acquire(p))

\* Also where flock does not reach the other host no lock of a working attempt is
\* taken before somebody forces: the owner record's host and process keep every
\* reaper away (operation-transactions.md on stale locks).
StolenOnlyByForce == [][~forced' => ~Steals]_forcedVars
=============================================================================
