----------------------------- MODULE StopStatus -----------------------------
(***************************************************************************)
(* The status that the stop hook prints, stop_status of claude_obsidian/   *)
(* hook_adapter.py, while operations begin, end, die and are recovered.    *)
(*                                                                         *)
(* The hook takes no lock.  It looks for the mutation lock, lists the      *)
(* operation directories up to a limit, and reads their journals one by    *)
(* one.  Of the engine (Transaction) only the order in which lock and      *)
(* journal change on disk matters here.                                    *)
(***************************************************************************)
EXTENDS FiniteSets, Naturals

CONSTANTS
  Operations,
  LongOnes,     \* operations whose journal outgrows the hook's 64 KiB
  NoOperation,
  ScanLimit,    \* MAX_TRANSACTION_SCAN
  MaxDeaths     \* bound: engines that die

Ended   == {"committed", "rolled-back"}
Unfinished == {"prepared", "applying", "rollback-failed"}
EntryStates == {"none", "directory"} \cup Unfinished \cup Ended
Warnings == {"lock", "limit", "recovery", "unreadable"}

ASSUME StopStatusAssumption ==
  /\ LongOnes \subseteq Operations /\ NoOperation \notin Operations
  /\ ScanLimit \in Nat \ {0} /\ MaxDeaths \in Nat

VARIABLES
  entry,       \* the directory of an operation and its journal's state
  held,        \* is the lock directory there?
  running,     \* the operation that an engine works on
  hook,        \* where the hook is, what it has listed, and its warnings
  unfinished,  \* history: operations unfinished ever since the hook began
  deaths

statusVars == <<entry, held, running, hook, unfinished, deaths>>

StopStatusTypeOK ==
  /\ entry \in [Operations -> EntryStates]
  /\ held \in BOOLEAN
  /\ running \in Operations \cup {NoOperation}
  /\ hook \in [at : {"idle", "lock", "list", "read", "told"},
               listed : SUBSET Operations, warnings : SUBSET Warnings]
  /\ unfinished \subseteq Operations
  /\ deaths \in 0..MaxDeaths

NoHook == [at |-> "idle", listed |-> {}, warnings |-> {}]

StopStatusInit ==
  /\ entry = [o \in Operations |-> "none"]
  /\ held = FALSE
  /\ running = NoOperation
  /\ hook = NoHook
  /\ unfinished = {}
  /\ deaths = 0

-----------------------------------------------------------------------------
\* The engine: lock, directory, journal states, unlock.
Journal(o, s) ==
  /\ entry' = [entry EXCEPT ![o] = s]
  /\ unfinished' = IF s \in Unfinished THEN unfinished ELSE unfinished \ {o}

Lock(o) ==
  /\ running = NoOperation /\ ~held /\ entry[o] = "none"
  /\ \A p \in Operations : entry[p] \notin Unfinished
  /\ held' = TRUE /\ running' = o
  /\ UNCHANGED <<entry, hook, unfinished, deaths>>

Advance(o) ==
  /\ running = o
  /\ \/ entry[o] = "none" /\ Journal(o, "directory")
     \/ entry[o] = "directory" /\ Journal(o, "prepared")
     \/ entry[o] = "prepared" /\ Journal(o, "applying")
     \/ entry[o] = "applying"
        /\ \E s \in Ended \cup {"rollback-failed"} : Journal(o, s)
  /\ UNCHANGED <<held, running, hook, deaths>>

Unlock(o) ==
  /\ running = o /\ entry[o] \in Ended \cup {"rollback-failed"}
  /\ held' = FALSE /\ running' = NoOperation
  /\ UNCHANGED <<entry, hook, unfinished, deaths>>

EngineDies ==
  /\ running # NoOperation /\ deaths < MaxDeaths
  /\ running' = NoOperation /\ deaths' = deaths + 1
  /\ UNCHANGED <<entry, held, hook, unfinished>>

\* A later engine takes the dead one's lock over, or finds none, and recovers.
TakeOver(o) ==
  /\ running = NoOperation /\ entry[o] \in Unfinished
  /\ held' = TRUE /\ running' = o
  /\ UNCHANGED <<entry, hook, unfinished, deaths>>

Settle(o) ==
  /\ running = o /\ entry[o] \in Unfinished
  /\ Journal(o, "rolled-back")
  /\ UNCHANGED <<held, running, hook, deaths>>

\* The lock of one that died before its journal is only taken away.
DropLock ==
  /\ running = NoOperation /\ held
  /\ held' = FALSE
  /\ UNCHANGED <<entry, running, hook, unfinished, deaths>>

-----------------------------------------------------------------------------
\* The vault is selected already: the hook that finds none says nothing of any.
StartHook ==
  /\ hook.at = "idle"
  /\ hook' = [NoHook EXCEPT !.at = "lock"]
  /\ unfinished' = {o \in Operations : entry[o] \in Unfinished}
  /\ UNCHANGED <<entry, held, running, deaths>>

Warn(h, w, condition) ==
  [h EXCEPT !.warnings = IF condition THEN @ \cup {w} ELSE @]

LookForLock ==
  /\ hook.at = "lock"
  /\ hook' = Warn([hook EXCEPT !.at = "list"], "lock", held)
  /\ UNCHANGED <<entry, held, running, unfinished, deaths>>

\* os.scandir: in any order, and cut off with a warning.
ListOperations ==
  /\ hook.at = "list"
  /\ LET there == {o \in Operations : entry[o] # "none"}
     IN  \E some \in SUBSET there :
           /\ Cardinality(some) = IF Cardinality(there) <= ScanLimit
                                  THEN Cardinality(there) ELSE ScanLimit
           /\ hook' = Warn([hook EXCEPT !.at = "read", !.listed = some],
                           "limit", some # there)
  /\ UNCHANGED <<entry, held, running, unfinished, deaths>>

\* Wrong variant: a failed rollback is taken for an end.
InterruptedStates == {"prepared", "applying"}
\* recovery_counts: the states that need recovery.
RecoveryStates == {"prepared", "applying", "rollback-failed"}

ReadJournal(o) ==
  /\ hook.at = "read" /\ o \in hook.listed
  /\ LET h == [hook EXCEPT !.listed = @ \ {o}]
     IN  hook' = IF o \in LongOnes /\ entry[o] # "directory"
                 THEN Warn(h, "unreadable", TRUE)
                 ELSE Warn(h, "recovery", entry[o] \in RecoveryStates)
  /\ UNCHANGED <<entry, held, running, unfinished, deaths>>

Tell ==
  /\ hook.at = "read" /\ hook.listed = {}
  /\ hook' = [hook EXCEPT !.at = "told"]
  /\ UNCHANGED <<entry, held, running, unfinished, deaths>>

EndHook ==
  /\ hook.at = "told"
  /\ hook' = NoHook /\ unfinished' = {}
  /\ UNCHANGED <<entry, held, running, deaths>>

StopStatusNext ==
  \/ \E o \in Operations :
       \/ Lock(o) \/ Advance(o) \/ Unlock(o) \/ TakeOver(o) \/ Settle(o)
       \/ ReadJournal(o)
  \/ EngineDies \/ DropLock
  \/ StartHook \/ LookForLock \/ ListOperations \/ Tell \/ EndHook

StopStatusSpec == StopStatusInit /\ [][StopStatusNext]_statusVars

-----------------------------------------------------------------------------
\* When the hook says nothing, no operation was unfinished from before it began
\* until it ended, whatever engines began, finished and recovered meanwhile.
SilenceMeansSettled ==
  hook.at = "told" /\ hook.warnings = {} => unfinished = {}

-----------------------------------------------------------------------------
(***************************************************************************)
(* The inductive invariant behind it.                                      *)
(***************************************************************************)
\* What has been unfinished since the hook began is so now, and as long as the
\* hook has nothing to say it is still to be read.
HookInv ==
  /\ \A o \in unfinished : entry[o] \in Unfinished
  /\ hook.at \in {"read", "told"} /\ hook.warnings = {} =>
       unfinished \subseteq hook.listed
  /\ hook.at = "told" => hook.listed = {}

StopStatusInv == StopStatusTypeOK /\ HookInv
=============================================================================
