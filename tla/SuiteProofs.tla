----------------------------- MODULE SuiteProofs -----------------------------
(***************************************************************************)
(* Proofs about six of the smaller parts, which share nothing: the status  *)
(* of the stop hook (StopStatus), the selection of a vault                 *)
(* (VaultSelection), the capture of local files (FilesystemCapture), the   *)
(* public archive (Release), the ledgers (Ledgers) and the page locks of   *)
(* the legacy scripts (LegacyLock).  For each, its type invariant and the  *)
(* invariant it needs are inductive, and what the part promises follows.   *)
(***************************************************************************)
EXTENDS LegacyLock, StopStatus, VaultSelection, FilesystemCapture, Release, Ledgers,
        FiniteSetTheorems, WellFoundedInduction, TLAPS

-----------------------------------------------------------------------------
(***************************************************************************)
(* The status of the stop hook                                             *)
(***************************************************************************)
LEMMA HookStateFacts ==
  ASSUME StopStatusTypeOK
  PROVE  /\ entry \in [Operations -> EntryStates]
         /\ unfinished \subseteq Operations
         /\ hook = [at |-> hook.at, listed |-> hook.listed, warnings |-> hook.warnings]
         /\ hook.listed \subseteq Operations /\ hook.warnings \subseteq Warnings
         /\ deaths \in Nat
  BY StopStatusAssumption DEF StopStatusTypeOK

LEMMA StopStatusTypes ==
  ASSUME StopStatusTypeOK, [StopStatusNext]_statusVars
  PROVE  StopStatusTypeOK'
<1> USE StopStatusAssumption DEF EntryStates, Unfinished, Ended, Warnings
<1>1. ASSUME NEW o \in Operations, Lock(o) PROVE StopStatusTypeOK'
  BY <1>1 DEF Lock, StopStatusTypeOK
<1>2. ASSUME NEW o \in Operations, Advance(o) PROVE StopStatusTypeOK'
  <2>1. PICK s \in EntryStates : Journal(o, s)
    BY <1>2 DEF Advance
  <2> QED BY <1>2, <2>1 DEF Advance, Journal, StopStatusTypeOK
<1>3. ASSUME NEW o \in Operations, Unlock(o) PROVE StopStatusTypeOK'
  BY <1>3 DEF Unlock, StopStatusTypeOK
<1>4. ASSUME NEW o \in Operations, TakeOver(o) PROVE StopStatusTypeOK'
  BY <1>4 DEF TakeOver, StopStatusTypeOK
<1>5. ASSUME NEW o \in Operations, Settle(o) PROVE StopStatusTypeOK'
  BY <1>5 DEF Settle, Journal, StopStatusTypeOK
<1>6. ASSUME NEW o \in Operations, ReadJournal(o) PROVE StopStatusTypeOK'
  BY <1>6 DEF ReadJournal, Warn, StopStatusTypeOK
<1>7. CASE EngineDies
  BY <1>7 DEF EngineDies, StopStatusTypeOK
<1>8. CASE DropLock
  BY <1>8 DEF DropLock, StopStatusTypeOK
<1>9. CASE StartHook
  BY <1>9 DEF StartHook, NoHook, StopStatusTypeOK
<1>10. CASE LookForLock
  BY <1>10 DEF LookForLock, Warn, StopStatusTypeOK
<1>11. CASE ListOperations
  <2>1. PICK some \in SUBSET Operations :
          hook' = Warn([hook EXCEPT !.at = "read", !.listed = some], "limit",
                       some # {o \in Operations : entry[o] # "none"})
    BY <1>11 DEF ListOperations
  <2>2. hook' \in [at : {"read"}, listed : SUBSET Operations,
                   warnings : SUBSET Warnings]
    BY <2>1 DEF Warn, StopStatusTypeOK
  <2>3. UNCHANGED <<entry, held, running, unfinished, deaths>>
    BY <1>11 DEF ListOperations
  <2> QED BY <2>2, <2>3 DEF StopStatusTypeOK
<1>12. CASE Tell
  BY <1>12 DEF Tell, StopStatusTypeOK
<1>13. CASE EndHook
  BY <1>13 DEF EndHook, NoHook, StopStatusTypeOK
<1>14. CASE UNCHANGED statusVars
  BY <1>14 DEF statusVars, StopStatusTypeOK
<1> QED
  BY <1>1, <1>2, <1>3, <1>4, <1>5, <1>6, <1>7, <1>8, <1>9, <1>10, <1>11, <1>12,
     <1>13, <1>14 DEF StopStatusNext

\* An engine changes neither the hook nor what is still to be settled, but to settle it.
LEMMA EngineKeepsHookInv ==
  ASSUME StopStatusTypeOK, HookInv, hook' = hook,
         \/ UNCHANGED <<entry, unfinished>>
         \/ \E o \in Operations, s \in EntryStates : Journal(o, s)
  PROVE  HookInv'
<1>1. CASE UNCHANGED <<entry, unfinished>>
  BY <1>1 DEF HookInv
<1>2. CASE \E o \in Operations, s \in EntryStates : Journal(o, s)
  <2>1. PICK o \in Operations, s \in EntryStates : Journal(o, s)
    BY <1>2
  <2>2. unfinished' \subseteq unfinished
    BY <2>1 DEF Journal
  <2>3. \A p \in unfinished' : entry'[p] \in Unfinished
    BY <2>1, HookStateFacts DEF Journal, HookInv
  <2> QED BY <2>2, <2>3 DEF HookInv
<1> QED BY <1>1, <1>2

\* The hook lists whatever is unfinished, or says that it has not.
LEMMA ListingIsComplete ==
  ASSUME StopStatusTypeOK, HookInv, ListOperations, hook'.warnings = {}
  PROVE  unfinished \subseteq hook'.listed
<1> DEFINE there == {o \in Operations : entry[o] # "none"}
<1>1. PICK some \in SUBSET there :
        hook' = Warn([hook EXCEPT !.at = "read", !.listed = some], "limit", some # there)
  BY DEF ListOperations
<1>2. some = there /\ hook'.listed = some
  BY <1>1, HookStateFacts DEF Warn
<1>3. unfinished \subseteq there
  BY HookStateFacts DEF HookInv, Unfinished
<1> QED BY <1>2, <1>3

\* A journal is taken off the list with a warning, or is settled.
LEMMA ReadingIsHonest ==
  ASSUME StopStatusTypeOK, HookInv, NEW o \in Operations, ReadJournal(o),
         hook'.warnings = {}
  PROVE  unfinished \subseteq hook'.listed
<1> DEFINE h == [hook EXCEPT !.listed = @ \ {o}]
<1>1. h.warnings = hook.warnings /\ h.listed = hook.listed \ {o}
  BY HookStateFacts
<1>2. h \in [at : {"idle", "lock", "list", "read", "told"}, listed : SUBSET Operations, warnings : SUBSET Warnings]
  BY DEF StopStatusTypeOK
<1> HIDE DEF h
<1>3. CASE o \in LongOnes /\ entry[o] # "directory"
  <2>1. hook'.warnings = h.warnings \cup {"unreadable"}
    BY <1>2, <1>3 DEF ReadJournal, Warn, h
  <2> QED BY <2>1
<1>4. CASE ~(o \in LongOnes /\ entry[o] # "directory")
  <2>1. hook' = Warn(h, "recovery", entry[o] \in RecoveryStates)
    BY <1>4 DEF ReadJournal, h
  <2>2. hook'.listed = h.listed
    BY <1>2, <2>1 DEF Warn
  <2>3. entry[o] \notin Unfinished /\ hook'.warnings = h.warnings
    BY <1>2, <2>1 DEF Warn, RecoveryStates, Unfinished
  <2>4. o \notin unfinished
    BY <2>3 DEF HookInv
  <2>5. unfinished \subseteq hook.listed
    BY <1>1, <2>3 DEF HookInv, ReadJournal
  <2> QED BY <1>1, <2>2, <2>4, <2>5
<1> QED BY <1>3, <1>4

LEMMA StopStatusKeepsHookInv ==
  ASSUME StopStatusTypeOK, HookInv, [StopStatusNext]_statusVars
  PROVE  HookInv'
<1>1. ASSUME NEW o \in Operations,
             Lock(o) \/ Advance(o) \/ Unlock(o) \/ TakeOver(o) \/ Settle(o)
      PROVE  HookInv'
  <2>1. hook' = hook
    BY <1>1 DEF Lock, Advance, Unlock, TakeOver, Settle
  <2>2. \/ UNCHANGED <<entry, unfinished>>
        \/ \E p \in Operations, s \in EntryStates : Journal(p, s)
    BY <1>1 DEF Lock, Advance, Unlock, TakeOver, Settle, EntryStates, Unfinished, Ended
  <2> QED BY <2>1, <2>2, EngineKeepsHookInv
<1>2. CASE EngineDies \/ DropLock
  BY <1>2, EngineKeepsHookInv DEF EngineDies, DropLock
<1>3. ASSUME NEW o \in Operations, ReadJournal(o) PROVE HookInv'
  <2>1. hook'.at = "read" /\ UNCHANGED <<entry, unfinished>>
    BY <1>3, HookStateFacts DEF ReadJournal, Warn
  <2> QED BY <1>3, <2>1, ReadingIsHonest DEF HookInv
<1>4. CASE StartHook
  <2>1. hook'.at = "lock" /\ entry' = entry
        /\ unfinished' = {o \in Operations : entry[o] \in Unfinished}
    BY <1>4 DEF StartHook, NoHook
  <2> QED BY <2>1 DEF HookInv
<1>5. CASE LookForLock
  <2>1. hook'.at = "list" /\ UNCHANGED <<entry, unfinished>>
    BY <1>5, HookStateFacts DEF LookForLock, Warn
  <2> QED BY <2>1 DEF HookInv
<1>6. CASE ListOperations
  <2>1. hook'.at = "read" /\ UNCHANGED <<entry, unfinished>>
    BY <1>6, HookStateFacts DEF ListOperations, Warn
  <2> QED BY <1>6, <2>1, ListingIsComplete DEF HookInv
<1>7. CASE Tell
  <2>1. UNCHANGED <<entry, unfinished>> /\ hook.at = "read" /\ hook.listed = {}
        /\ hook' = [hook EXCEPT !.at = "told"]
    BY <1>7 DEF Tell
  <2>2. hook'.listed = hook.listed /\ hook'.warnings = hook.warnings
    BY <2>1, HookStateFacts
  <2> QED BY <2>1, <2>2 DEF HookInv
<1>8. CASE EndHook
  BY <1>8 DEF EndHook, NoHook, HookInv
<1>9. CASE UNCHANGED statusVars
  BY <1>9 DEF statusVars, HookInv
<1> QED
  BY <1>1, <1>2, <1>3, <1>4, <1>5, <1>6, <1>7, <1>8, <1>9 DEF StopStatusNext

\* The invariant of the status hook is inductive.
THEOREM StopStatusInductive == StopStatusSpec => []StopStatusInv
<1>1. StopStatusInit => StopStatusInv
  <2> SUFFICES ASSUME StopStatusInit PROVE StopStatusInv
    OBVIOUS
  <2>1. StopStatusTypeOK
    <3>1. 0 \in 0..MaxDeaths
      BY StopStatusAssumption
    <3>2. [o \in Operations |-> "none"] \in [Operations -> EntryStates]
      BY DEF EntryStates
    <3>3. NoHook \in [at : {"idle", "lock", "list", "read", "told"},
                     listed : SUBSET Operations, warnings : SUBSET Warnings]
      BY DEF NoHook
    <3> QED BY <3>1, <3>2, <3>3 DEF StopStatusInit, StopStatusTypeOK
  <2>2. HookInv
    BY DEF StopStatusInit, HookInv, NoHook
  <2> QED BY <2>1, <2>2 DEF StopStatusInv
<1>2. StopStatusInv /\ [StopStatusNext]_statusVars => StopStatusInv'
  BY StopStatusTypes, StopStatusKeepsHookInv DEF StopStatusInv
<1> QED BY <1>1, <1>2, PTL DEF StopStatusSpec

\* A silent status means that nothing waited for a recovery all the time that the
\* hook of claude_obsidian/hook_adapter.py looked, without a lock, at journals that
\* engines went on changing.
THEOREM SilenceIsSettled == StopStatusSpec => []SilenceMeansSettled
<1>1. StopStatusInv => SilenceMeansSettled
  BY DEF StopStatusInv, HookInv, SilenceMeansSettled
<1> QED BY <1>1, StopStatusInductive, PTL

-----------------------------------------------------------------------------
(***************************************************************************)
(* The selection of a vault                                                *)
(***************************************************************************)
LEMMA AncestorsAreDirectories ==
  ASSUME NEW d \in Directories
  PROVE  Ancestors(d) \subseteq Directories
  BY DEF Ancestors, AncestorsOf

LEMMA OwnAncestor ==
  ASSUME NEW d \in Directories
  PROVE  d \in Ancestors(d)
  BY DEF Ancestors, AncestorsOf

LEMMA AncestorsAreLeast ==
  ASSUME NEW d \in Directories, NEW ds \in SUBSET Directories, d \in ds,
         \A e \in ds : ParentOf[e] \in ds
  PROVE  Ancestors(d) \subseteq ds
  BY DEF Ancestors, AncestorsOf

LEMMA AncestorsHaveParents ==
  ASSUME NEW d \in Directories, NEW a \in Ancestors(d)
  PROVE  ParentOf[a] \in Ancestors(d)
<1>1. a \in Directories /\ ParentOf[a] \in Directories
  BY AncestorsAreDirectories, VaultSelectionAssumption
<1>2. ASSUME NEW ds \in SUBSET Directories, d \in ds, \A e \in ds : ParentOf[e] \in ds
      PROVE  ParentOf[a] \in ds
  BY <1>2, AncestorsAreLeast
<1> QED BY <1>1, <1>2 DEF Ancestors, AncestorsOf

LEMMA AncestorStep ==
  ASSUME NEW d \in Directories
  PROVE  Ancestors(d) \subseteq {d} \cup Ancestors(ParentOf[d])
<1> DEFINE ds == {d} \cup Ancestors(ParentOf[d])
<1>1. ParentOf[d] \in Directories
  BY VaultSelectionAssumption
<1>2. ds \subseteq Directories
  BY <1>1, AncestorsAreDirectories
<1>3. ASSUME NEW e \in ds PROVE ParentOf[e] \in ds
  <2>1. CASE e = d
    BY <1>1, <2>1, OwnAncestor
  <2>2. CASE e \in Ancestors(ParentOf[d])
    BY <1>1, <2>2, AncestorsHaveParents
  <2> QED BY <2>1, <2>2
<1> HIDE DEF ds
<1>4. d \in ds
  BY DEF ds
<1>5. Ancestors(d) \subseteq ds
  BY <1>2, <1>3, <1>4, AncestorsAreLeast
<1> QED BY <1>5 DEF ds

\* Of the ancestors that are so, one is under all the others: the walk up meets it
\* first.
LEMMA NearestExists ==
  ASSUME NEW d \in Directories, NEW ds \in SUBSET Directories,
         Ancestors(d) \cap ds # {}
  PROVE  Nearest(d, ds) \in Ancestors(d) \cap ds
<1> DEFINE found == Ancestors(d) \cap ds
           below == {e \in Directories : found \subseteq Ancestors(e)}
<1>1. \E e \in found : e \in below
  <2> SUFFICES ASSUME found \cap below = {} PROVE FALSE
    OBVIOUS
  <2>1. found \subseteq Directories /\ d \in below
    BY AncestorsAreDirectories
  <2>2. ASSUME NEW e \in below PROVE ParentOf[e] \in below
    <3>1. e \in Directories /\ ParentOf[e] \in Directories
      BY VaultSelectionAssumption
    <3>2. found \subseteq Ancestors(e) /\ e \notin found
      OBVIOUS
    <3>3. found \subseteq Ancestors(ParentOf[e])
      BY <3>1, <3>2, AncestorStep
    <3> QED BY <3>1, <3>3
  <2> HIDE DEF below
  <2>3. below \in SUBSET Directories
    BY DEF below
  <2>4. Ancestors(d) \subseteq below
    BY <2>1, <2>2, <2>3, AncestorsAreLeast
  <2> QED BY <2>4
<1>2. \E e \in found : \A a \in found : Under(e, a)
  BY <1>1 DEF Under
<1>3. (CHOOSE e \in found : \A a \in found : Under(e, a)) \in found
  BY <1>2
<1> QED BY <1>3 DEF Nearest

LEMMA NearestIsAbove ==
  ASSUME NEW d \in Directories, NEW ds \in SUBSET Directories
  PROVE  /\ Nearest(d, ds) \in Selectable
         /\ Nearest(d, ds) # Nowhere =>
              Nearest(d, ds) \in ds /\ Under(d, Nearest(d, ds))
<1>1. CASE Ancestors(d) \cap ds = {}
  BY <1>1 DEF Nearest, Selectable
<1>2. CASE Ancestors(d) \cap ds # {}
  BY <1>2, NearestExists DEF Selectable, Under
<1> QED BY <1>1, <1>2

LEMMA SelectionFacts ==
  ASSUME VaultSelectionTypeOK
  PROVE  /\ config \in [Directories -> Selectable \cup {BadConfig}]
         /\ environment \in Selectable /\ exact \in Selectable
         /\ session = [at |-> session.at, project |-> session.project,
                       root |-> session.root, source |-> session.source]
         /\ session.at \in {"select", "consent", "read", "told", "silent"}
         /\ session.project \in Directories /\ session.project \in Projects
         /\ session.root \in Selectable /\ session.source \in Selectors
         /\ Nowhere \notin Directories
         /\ configured \subseteq Directories
         /\ Configured \in SUBSET Directories /\ Initialized \in SUBSET Directories
  BY VaultSelectionAssumption DEF VaultSelectionTypeOK, Configured, Initialized

LEMMA AcceptedAsNamed ==
  ASSUME NEW root, NEW source \in Selectors
  PROVE  LET s == Accepted(root, source)
         IN  /\ s.root \in Selectable /\ s.source \in Selectors
             /\ s.root # Nowhere => /\ s.root \in Directories
                                    /\ s.root = root /\ s.source = source
  BY DEF Accepted, Refused, Selectable, Selectors

\* What a resolved root is, by the selector that is reported with it.
LEMMA ResolvedBySelector ==
  ASSUME VaultSelectionTypeOK
  PROVE  LET s == ResolveVaultRoot(session.project)
         IN  /\ s.root \in Selectable /\ s.source \in Selectors
             /\ s.root # Nowhere =>
                  /\ s.root \in Directories
                  /\ s.source = "environment" => s.root = environment
                  /\ s.source = "cwd-discovery" => Under(session.project, s.root)
<1> DEFINE cwd == session.project
           s   == ResolveVaultRoot(cwd)
<1>1. cwd \in Directories /\ Nowhere \notin Directories
      /\ Configured \in SUBSET Directories /\ Initialized \in SUBSET Directories
  BY SelectionFacts
<1>2. {"environment", "workspace-config", "cwd-discovery"} = Selectors
  BY DEF Selectors
<1> HIDE DEF cwd
<1>3. CASE s = Refused
  BY <1>3 DEF Refused, Selectable, Selectors, cwd
<1>4. CASE s = Accepted(environment, "environment")
  BY <1>2, <1>4, AcceptedAsNamed DEF cwd
<1>5. CASE s = Accepted(config[NearestConfig(cwd)], "workspace-config")
  BY <1>2, <1>5, AcceptedAsNamed DEF cwd
<1>6. CASE s = Accepted(NearestVault(cwd), "cwd-discovery")
  <2>1. NearestVault(cwd) # Nowhere => Under(cwd, NearestVault(cwd))
    BY <1>1, NearestIsAbove DEF NearestVault
  <2> QED BY <1>2, <1>6, <2>1, AcceptedAsNamed DEF cwd
<1> QED BY <1>3, <1>4, <1>5, <1>6 DEF ResolveVaultRoot

\* What a step makes of the session, and of the world.
LEMMA SelectedSession ==
  ASSUME VaultSelectionTypeOK, SelectVault
  PROVE  /\ session'.project = session.project
         /\ session'.at \in {"silent", "consent"}
         /\ session'.root \in Selectable /\ session'.source \in Selectors
         /\ session' \in [at : {"silent", "consent"}, project : Projects,
                          root : Selectable, source : Selectors]
         /\ session'.at = "consent" =>
              /\ session'.root \in Directories
              /\ session'.source = "environment" => session'.root = environment
              /\ session'.source = "cwd-discovery" =>
                   Under(session.project, session'.root)
<1> DEFINE s == ResolveVaultRoot(session.project)
<1>1. session' = [session EXCEPT !.at = IF s.root = Nowhere THEN "silent" ELSE "consent",
                                 !.root = s.root, !.source = s.source]
  BY DEF SelectVault
<1>2. /\ s.root \in Selectable /\ s.source \in Selectors
      /\ s.root # Nowhere =>
           /\ s.root \in Directories
           /\ s.source = "environment" => s.root = environment
           /\ s.source = "cwd-discovery" => Under(session.project, s.root)
  BY ResolvedBySelector
<1> HIDE DEF s
<1>3. /\ session'.at = (IF s.root = Nowhere THEN "silent" ELSE "consent")
      /\ session'.project = session.project
      /\ session'.root = s.root /\ session'.source = s.source
      /\ session' = [at |-> session'.at, project |-> session'.project,
                     root |-> session'.root, source |-> session'.source]
  BY <1>1, SelectionFacts
<1> QED BY <1>2, <1>3, SelectionFacts

LEMMA MovedSession ==
  ASSUME VaultSelectionTypeOK, CheckConsent \/ ReadHotPage
  PROVE  /\ session.at \in {"consent", "read"}
         /\ session'.at \in {"read", "told", "silent"}
         /\ session'.project = session.project /\ session'.root = session.root
         /\ session'.source = session.source
         /\ session' \in [at : {"read", "told", "silent"}, project : Projects,
                          root : Selectable, source : Selectors]
  BY SelectionFacts DEF CheckConsent, ReadHotPage

LEMMA EditedConfig ==
  ASSUME VaultSelectionTypeOK, NEW d \in ConfigPlaces, EditConfig(d)
  PROVE  /\ config' \in [Directories -> Selectable \cup {BadConfig}]
         /\ configured' = configured \cup Configured'
         /\ Configured' \subseteq Directories
         /\ UNCHANGED <<kind, environment, exact, session>>
         /\ configEdits' \in 0..MaxConfigEdits
<1>1. PICK c \in Selectable \cup {BadConfig} : config' = [config EXCEPT ![d] = c]
  BY DEF EditConfig
<1>2. config' \in [Directories -> Selectable \cup {BadConfig}]
  BY <1>1, SelectionFacts
<1>3. configEdits' \in 0..MaxConfigEdits
  BY VaultSelectionAssumption DEF EditConfig, VaultSelectionTypeOK
<1> QED BY <1>2, <1>3 DEF EditConfig, Configured

LEMMA VaultSelectionTypes ==
  ASSUME VaultSelectionTypeOK, [VaultSelectionNext]_selectionVars
  PROVE  VaultSelectionTypeOK'
<1>1. CASE SelectVault
  <2>1. UNCHANGED selectionWorld
    BY <1>1 DEF SelectVault
  <2>2. session' \in [at : {"select", "consent", "read", "told", "silent"},
                      project : Projects, root : Selectable, source : Selectors]
    BY <1>1, SelectedSession
  <2>3. session'.at \in {"consent", "read", "told"} =>
          session'.root \in Directories
    BY <1>1, SelectedSession
  <2> QED BY <2>1, <2>2, <2>3 DEF VaultSelectionTypeOK, selectionWorld
<1>2. CASE CheckConsent \/ ReadHotPage
  <2>1. UNCHANGED selectionWorld
    BY <1>2 DEF CheckConsent, ReadHotPage
  <2>2. session' \in [at : {"select", "consent", "read", "told", "silent"},
                      project : Projects, root : Selectable, source : Selectors]
    BY <1>2, MovedSession
  <2>3. session.root \in Directories
    BY <1>2, MovedSession DEF VaultSelectionTypeOK
  <2> QED BY <1>2, <2>1, <2>2, <2>3, MovedSession
          DEF VaultSelectionTypeOK, selectionWorld
<1>3. ASSUME NEW d \in ConfigPlaces, EditConfig(d) PROVE VaultSelectionTypeOK'
  BY <1>3, EditedConfig DEF VaultSelectionTypeOK
<1>4. CASE UNCHANGED selectionVars
  BY <1>4 DEF selectionVars, VaultSelectionTypeOK
<1> QED BY <1>1, <1>2, <1>3, <1>4 DEF VaultSelectionNext

\* The directories that a consent names have a configuration then, and count as
\* configured from then on.
LEMMA VaultSelectionKeepsConsentInv ==
  ASSUME VaultSelectionTypeOK, ConsentInv, [VaultSelectionNext]_selectionVars
  PROVE  ConsentInv'
<1>1. CASE SelectVault
  <2>1. UNCHANGED <<config, environment, exact, configured>>
    BY <1>1 DEF SelectVault, selectionWorld
  <2>2. Configured' = Configured
    BY <2>1 DEF Configured
  <2>3. session'.at \notin {"read", "told"}
    BY <1>1, SelectedSession
  <2> QED BY <1>1, <2>1, <2>2, <2>3, SelectedSession DEF ConsentInv
<1>2. CASE CheckConsent
  <2>1. UNCHANGED <<config, environment, exact, configured>>
    BY <1>2 DEF CheckConsent, selectionWorld
  <2>2. Configured' = Configured
    BY <2>1 DEF Configured
  <2>3. session'.at \in {"read", "told"} => Consented(session.root, session.source)
    BY <1>2, SelectionFacts DEF CheckConsent
  <2>4. ASSUME session.source = "workspace-config", exact # session.root,
               Consented(session.root, session.source)
        PROVE  \E d \in configured : Under(session.project, d) /\ Under(session.root, d)
    <3>1. NearestConfig(session.project) # Nowhere
          /\ Under(session.root, NearestConfig(session.project))
      BY <2>4 DEF Consented
    <3>2. NearestConfig(session.project) \in Configured
          /\ Under(session.project, NearestConfig(session.project))
      BY <3>1, NearestIsAbove, SelectionFacts DEF NearestConfig
    <3> QED BY <3>1, <3>2 DEF ConsentInv
  <2>5. session.at = "consent"
    BY <1>2 DEF CheckConsent
  <2> QED BY <1>2, <2>1, <2>2, <2>3, <2>4, <2>5, MovedSession DEF ConsentInv
<1>3. CASE ReadHotPage
  <2>1. UNCHANGED <<config, environment, exact, configured>> /\ session.at = "read"
    BY <1>3 DEF ReadHotPage, selectionWorld
  <2>2. Configured' = Configured
    BY <2>1 DEF Configured
  <2> QED BY <1>3, <2>1, <2>2, MovedSession DEF ConsentInv
<1>4. ASSUME NEW d \in ConfigPlaces, EditConfig(d) PROVE ConsentInv'
  <2>1. Configured' \subseteq configured' /\ configured \subseteq configured'
    BY <1>4, EditedConfig
  <2> QED BY <1>4, <2>1, EditedConfig DEF ConsentInv
<1>5. CASE UNCHANGED selectionVars
  BY <1>5 DEF selectionVars, ConsentInv, Configured
<1> QED BY <1>1, <1>2, <1>3, <1>4, <1>5 DEF VaultSelectionNext

\* The invariant of the vault selection is inductive.
THEOREM VaultSelectionInductive == VaultSelectionSpec => []VaultSelectionInv
<1>1. VaultSelectionInit => VaultSelectionInv
  <2> SUFFICES ASSUME VaultSelectionInit PROVE VaultSelectionInv
    OBVIOUS
  <2>1. PICK p \in Projects :
          session = [at |-> "select", project |-> p, root |-> Nowhere,
                     source |-> "cwd-discovery"]
    BY DEF VaultSelectionInit
  <2>2. 0 \in 0..MaxConfigEdits
    BY VaultSelectionAssumption
  <2>3. session \in [at : {"select"}, project : Projects, root : Selectable,
                     source : Selectors]
    BY <2>1 DEF Selectable, Selectors
  <2>4. VaultSelectionTypeOK
    BY <2>2, <2>3 DEF VaultSelectionInit, VaultSelectionTypeOK, Configured
  <2>5. ConsentInv
    BY <2>3 DEF VaultSelectionInit, ConsentInv
  <2> QED BY <2>4, <2>5 DEF VaultSelectionInv
<1>2. VaultSelectionInv /\ [VaultSelectionNext]_selectionVars => VaultSelectionInv'
  BY VaultSelectionTypes, VaultSelectionKeepsConsentInv DEF VaultSelectionInv
<1> QED BY <1>1, <1>2, PTL DEF VaultSelectionSpec

\* The session hook of claude_obsidian/hook_adapter.py hands over no vault that a
\* project's configuration alone has named, however configurations change between
\* the selection and the consent, on any tree of directories.
THEOREM ContextIsConsented == VaultSelectionSpec => []OnlyConsentedContext
<1>1. VaultSelectionInv => OnlyConsentedContext
  <2> SUFFICES ASSUME VaultSelectionInv, session.at = "told"
               PROVE  \/ Under(session.project, session.root)
                      \/ \E d \in configured :
                           Under(session.project, d) /\ Under(session.root, d)
                      \/ session.root \in {environment, exact}
    BY DEF OnlyConsentedContext
  <2>1. session.source \in Selectors
    BY SelectionFacts DEF VaultSelectionInv
  <2> QED BY <2>1 DEF VaultSelectionInv, ConsentInv, Selectors
<1> QED BY <1>1, VaultSelectionInductive, PTL

-----------------------------------------------------------------------------
(***************************************************************************)
(* The capture of local files                                              *)
(***************************************************************************)
LEMMA CaptureFacts ==
  ASSUME FilesystemCaptureTypeOK
  PROVE  /\ files \in [Files -> FileContents \cup {NoFile}]
         /\ copies \in [Copies -> FileContents \cup {NoFile}]
         /\ capturing \in [Capturers -> [for : Purposes \cup {"nothing"},
                                         todo : SUBSET Files, items : Plannings]]
         /\ shown \in [Capturers -> SUBSET CopyWrites]
         /\ reported \in [Capturers -> Plannings]
         /\ committed \subseteq SUBSET CopyWrites
         /\ fileSaves \in Nat /\ captures \in Nat
         /\ MaxFileSaves \in Nat /\ MaxCaptures \in Nat
         /\ NoFile \notin FileContents /\ NoItem \notin Items
         /\ InboxFiles \subseteq Files /\ RawFiles \subseteq Files
         /\ Files = InboxFiles \cup RawFiles /\ InboxFiles \cap RawFiles = {}
  BY FilesystemCaptureAssumption DEF FilesystemCaptureTypeOK, Files

LEMMA CapturingFacts ==
  ASSUME FilesystemCaptureTypeOK, NEW k \in Capturers
  PROVE  /\ capturing[k] = [for |-> capturing[k].for, todo |-> capturing[k].todo,
                            items |-> capturing[k].items]
         /\ capturing[k].for \in Purposes \cup {"nothing"}
         /\ capturing[k].todo \subseteq Files
         /\ capturing[k].items \in Plannings
         /\ reported[k] \in Plannings
  BY CaptureFacts

LEMMA ItemFacts ==
  ASSUME NEW items \in Plannings, NEW f \in Files, items[f] # NoItem
  PROVE  /\ items[f] \in Items
         /\ items[f].digest \in FileContents
         /\ items[f].at \in Copies \cup RawFiles
         /\ items[f].changed \in BOOLEAN
  BY DEF Plannings, Items

LEMMA NoItemsPlanned ==
  /\ NoItems \in Plannings /\ \A f \in Files : NoItems[f] = NoItem
  /\ NoCapture \in [for : Purposes \cup {"nothing"}, todo : SUBSET Files,
                    items : Plannings]
  /\ NoCapture.items = NoItems /\ NoCapture.for = "nothing" /\ NoCapture.todo = {}
<1>1. NoItems \in Plannings /\ \A f \in Files : NoItems[f] = NoItem
  BY DEF NoItems, Plannings
<1> HIDE DEF NoItems, Plannings
<1> QED BY <1>1 DEF NoCapture

\* Where a new copy goes.
LEMMA NewCopyPlace ==
  ASSUME NEW d \in FileContents, NEW f \in Files
  PROVE  /\ StoredSuffix(f) \in Suffixes
         /\ <<d, StoredSuffix(f)>> \in Copies
         /\ <<d, StoredSuffix(f)>>[1] = d
  BY DEF StoredSuffix, Suffixes, Copies

\* A new command, and what a step makes of a command that ends.
LEMMA EndedCommand ==
  ASSUME FilesystemCaptureTypeOK, NEW k \in Capturers, Refuse(k)
  PROVE  /\ capturing' \in [Capturers -> [for : Purposes \cup {"nothing"},
                                          todo : SUBSET Files, items : Plannings]]
         /\ \A j \in Capturers : capturing'[j] = IF j = k THEN NoCapture ELSE capturing[j]
         /\ \A j \in Capturers, f \in Files :
              capturing'[j].items[f] # NoItem => j # k /\ capturing'[j] = capturing[j]
<1> HIDE DEF NoCapture
<1>1. capturing' = [capturing EXCEPT ![k] = NoCapture]
  BY DEF Refuse
<1> QED BY <1>1, CaptureFacts, NoItemsPlanned

LEMMA StartedCommand ==
  ASSUME FilesystemCaptureTypeOK, NEW k \in Capturers, NEW purpose \in Purposes,
         NEW fs \in SUBSET Files, StartCapture(k, purpose, fs)
  PROVE  /\ capturing' \in [Capturers -> [for : Purposes \cup {"nothing"},
                                          todo : SUBSET Files, items : Plannings]]
         /\ \A j \in Capturers, f \in Files :
              capturing'[j].items[f] # NoItem => j # k /\ capturing'[j] = capturing[j]
         /\ reported' \in [Capturers -> Plannings]
         /\ \A j \in Capturers, f \in Files :
              reported'[j][f] # NoItem => reported'[j] = reported[j]
         /\ UNCHANGED <<files, copies, shown, committed, fileSaves>>
         /\ captures' \in 0..MaxCaptures
<1> DEFINE new == [for |-> purpose, todo |-> fs, items |-> NoItems]
<1>1. new \in [for : Purposes \cup {"nothing"}, todo : SUBSET Files, items : Plannings]
      /\ new.items = NoItems
  BY NoItemsPlanned
<1>2. /\ capturing' = [capturing EXCEPT ![k] = new]
      /\ reported' = [reported EXCEPT ![k] = NoItems]
      /\ UNCHANGED <<files, copies, shown, committed, fileSaves>>
      /\ captures < MaxCaptures /\ captures' = captures + 1
  BY DEF StartCapture
<1> HIDE DEF new, NoItems
<1>3. captures' \in 0..MaxCaptures
  BY <1>2, CaptureFacts
<1> QED BY <1>1, <1>2, <1>3, CaptureFacts, NoItemsPlanned

\* Where PlanFile puts a file with this content.
GoesTo(items, f, d, where, changed) ==
  \/ f \in RawFiles /\ where = f /\ ~changed
  \/ f \in InboxFiles /\ where \in CopiesOf(d) /\ ~changed
  \/ /\ f \in InboxFiles /\ ~changed
     /\ \E g \in PlannedIn(items, d) : where = items[g].at
  \/ /\ f \in InboxFiles /\ changed /\ PlannedIn(items, d) = {}
     /\ where = <<d, StoredSuffix(f)>>

LEMMA PlannedItemType ==
  ASSUME NEW items \in Plannings, NEW f \in Files, NEW d \in FileContents,
         NEW changed \in BOOLEAN, NEW where, GoesTo(items, f, d, where, changed)
  PROVE  [digest |-> d, at |-> where, changed |-> changed] \in Items
<1>1. where \in Copies \cup RawFiles
  <2>1. CASE \E g \in PlannedIn(items, d) : where = items[g].at
    BY <2>1, ItemFacts DEF PlannedIn
  <2>2. CASE where \in CopiesOf(d)
    BY <2>2 DEF CopiesOf
  <2>3. CASE where = <<d, StoredSuffix(f)>>
    BY <2>3, NewCopyPlace
  <2> QED BY <2>1, <2>2, <2>3 DEF GoesTo
<1> QED BY <1>1 DEF Items

LEMMA PlannedOne ==
  ASSUME FilesystemCaptureTypeOK, NEW k \in Capturers, NEW f \in Files, PlanFile(k, f)
  PROVE  \/ Refuse(k)
         \/ \E d \in FileContents, changed \in BOOLEAN :
              \E where :
                /\ GoesTo(capturing[k].items, f, d, where, changed)
                /\ capturing' = [capturing EXCEPT
                     ![k].todo = @ \ {f},
                     ![k].items[f] = [digest |-> d, at |-> where, changed |-> changed]]
<1>1. CASE files[f] = NoFile \/ SizeOf[files[f]] > MaxFileBytes
  BY <1>1 DEF PlanFile
<1>2. CASE ~(files[f] = NoFile \/ SizeOf[files[f]] > MaxFileBytes)
  <2> DEFINE d == files[f]
             items == capturing[k].items
             Plan(where, changed) ==
               capturing' = [capturing EXCEPT
                 ![k].todo = @ \ {f},
                 ![k].items[f] = [digest |-> d, at |-> where, changed |-> changed]]
  <2>1. d \in FileContents
    BY <1>2, CaptureFacts
  <2>2. \/ f \in RawFiles /\ Plan(f, FALSE)
        \/ /\ f \in InboxFiles
           /\ \E p \in CopiesOf(d) : Plan(p, FALSE)
        \/ /\ f \in InboxFiles /\ CopiesOf(d) = {}
           /\ \E g \in PlannedIn(items, d) : Plan(items[g].at, FALSE)
        \/ /\ f \in InboxFiles /\ CopiesOf(d) = {} /\ PlannedIn(items, d) = {}
           /\ Plan(<<d, StoredSuffix(f)>>, TRUE)
    BY <1>2 DEF PlanFile
  <2> HIDE DEF d, items, Plan
  <2>3. \E changed \in BOOLEAN : \E where :
          GoesTo(items, f, d, where, changed) /\ Plan(where, changed)
    <3>1. CASE f \in RawFiles /\ Plan(f, FALSE)
      BY <3>1 DEF GoesTo
    <3>2. CASE f \in InboxFiles /\ \E p \in CopiesOf(d) : Plan(p, FALSE)
      BY <3>2 DEF GoesTo
    <3>3. CASE f \in InboxFiles /\ \E g \in PlannedIn(items, d) : Plan(items[g].at, FALSE)
      BY <3>3 DEF GoesTo
    <3>4. CASE f \in InboxFiles /\ PlannedIn(items, d) = {}
               /\ Plan(<<d, StoredSuffix(f)>>, TRUE)
      BY <3>4 DEF GoesTo
    <3> QED BY <2>2, <3>1, <3>2, <3>3, <3>4
  <2>4. PICK changed \in BOOLEAN : \E where :
          GoesTo(items, f, d, where, changed) /\ Plan(where, changed)
    BY <2>3
  <2>5. \E where :
          /\ GoesTo(items, f, d, where, changed)
          /\ capturing' = [capturing EXCEPT
               ![k].todo = @ \ {f},
               ![k].items[f] = [digest |-> d, at |-> where, changed |-> changed]]
    BY <2>4 DEF Plan
  <2> QED BY <2>1, <2>5 DEF items
<1> QED BY <1>1, <1>2

\* A planned file: the others stay where they are.
WithItem(items, f, item) == [items EXCEPT ![f] = item]
PlansFile(k, f, item) ==
  capturing' = [capturing EXCEPT ![k].todo = @ \ {f}, ![k].items[f] = item]

LEMMA PlannedCommand ==
  ASSUME FilesystemCaptureTypeOK, NEW k \in Capturers, NEW f \in Files,
         NEW item \in Items, PlansFile(k, f, item)
  PROVE  /\ capturing' \in [Capturers -> [for : Purposes \cup {"nothing"},
                                          todo : SUBSET Files, items : Plannings]]
         /\ \A j \in Capturers \ {k} : capturing'[j] = capturing[j]
         /\ capturing'[k].todo = capturing[k].todo \ {f}
         /\ capturing'[k].items = WithItem(capturing[k].items, f, item)
<1> DEFINE items == [capturing[k].items EXCEPT ![f] = item]
           todo  == capturing[k].todo \ {f}
           new   == [for |-> capturing[k].for, todo |-> todo, items |-> items]
<1>1. items \in Plannings /\ todo \subseteq Files
  BY CapturingFacts DEF Plannings
<1>2. capturing' = [capturing EXCEPT ![k] = new]
  <2> DEFINE less == [capturing[k] EXCEPT !.todo = todo]
  <2>1. /\ capturing[k] = [for |-> capturing[k].for, todo |-> capturing[k].todo,
                           items |-> capturing[k].items]
        /\ k \in DOMAIN capturing
    BY CapturingFacts, CaptureFacts
  <2>2. less = [for |-> capturing[k].for, todo |-> todo, items |-> capturing[k].items]
    BY <2>1
  <2>3. capturing' = [[capturing EXCEPT ![k] = less] EXCEPT
                        ![k] = [less EXCEPT !.items = [less.items EXCEPT ![f] = item]]]
    BY <2>1 DEF PlansFile
  <2> HIDE DEF less
  <2>4. [less.items EXCEPT ![f] = item] = items
    BY <2>2
  <2> HIDE DEF items, todo
  <2>5. [less EXCEPT !.items = items] = new
    BY <2>2
  <2>6. [less EXCEPT !.items = [less.items EXCEPT ![f] = item]] = new
    BY <2>4, <2>5
  <2> HIDE DEF new
  <2> QED BY <2>3, <2>6
<1> HIDE DEF items, todo
<1>3. new \in [for : Purposes \cup {"nothing"}, todo : SUBSET Files, items : Plannings]
      /\ new.items = items /\ new.todo = todo
  BY <1>1, CapturingFacts
<1> HIDE DEF new
<1>4. capturing \in [Capturers -> [for : Purposes \cup {"nothing"},
                                   todo : SUBSET Files, items : Plannings]]
  BY CaptureFacts
<1>5. /\ capturing' \in [Capturers -> [for : Purposes \cup {"nothing"},
                                       todo : SUBSET Files, items : Plannings]]
      /\ \A j \in Capturers \ {k} : capturing'[j] = capturing[j]
      /\ capturing'[k] = new
  BY <1>2, <1>3, <1>4
<1> QED BY <1>3, <1>5 DEF items, todo, WithItem

LEMMA PlannedPlaces ==
  ASSUME FilesystemCaptureTypeOK, StoreInv,
         NEW items \in Plannings, NEW f \in Files, items[f] = NoItem,
         NEW d \in FileContents, NEW changed \in BOOLEAN, NEW where,
         GoesTo(items, f, d, where, changed),
         \A g \in Files : items[g] # NoItem => Placed(copies, items, g),
         NEW more, more = [items EXCEPT ![f] = [digest |-> d, at |-> where,
                                                changed |-> changed]]
  PROVE  \A g \in Files : more[g] # NoItem => Placed(copies, more, g)
<1> DEFINE item == [digest |-> d, at |-> where, changed |-> changed]
<1>1. item \in Items /\ item # NoItem
  BY PlannedItemType, CaptureFacts
<1>2. /\ more[f] = item
      /\ \A g \in Files : g # f => more[g] = items[g]
  BY DEF Plannings
<1>3. item.digest = d /\ item.at = where /\ item.changed = changed
  OBVIOUS
<1> HIDE DEF item
<1>4. ASSUME NEW c, ~changed \/ c # d
      PROVE  PlannedIn(more, c) = PlannedIn(items, c)
  BY <1>1, <1>2, <1>3, <1>4 DEF PlannedIn
<1>5. changed => PlannedIn(more, d) = {f}
  <2>1. changed => PlannedIn(items, d) = {} /\ f \in InboxFiles
    BY DEF GoesTo
  <2> QED BY <1>1, <1>2, <1>3, <2>1 DEF PlannedIn
<1>6. Placed(copies, more, f)
  <2>1. CASE changed
    <3>1. f \in InboxFiles /\ where = <<d, StoredSuffix(f)>>
      BY <2>1 DEF GoesTo
    <3> QED BY <1>2, <1>3, <1>5, <2>1, <3>1 DEF Placed
  <2>2. CASE ~changed /\ f \in InboxFiles
    <3>1. CASE where \in CopiesOf(d)
      <4>1. where \in Copies /\ copies[where] = d
        BY <3>1 DEF CopiesOf, StoreInv
      <4> QED BY <1>2, <1>3, <2>2, <4>1 DEF Placed
    <3>2. CASE \E g \in PlannedIn(items, d) : where = items[g].at
      <4>1. PICK g \in PlannedIn(items, d) : where = items[g].at
        BY <3>2
      <4>2. g \in PlannedIn(more, d) /\ g \in Files /\ g # f
        BY <1>4, <2>2, <4>1 DEF PlannedIn
      <4>3. more[g].at = where
        BY <1>2, <4>1, <4>2
      <4> QED BY <1>2, <1>3, <2>2, <4>2, <4>3 DEF Placed
    <3> QED BY <2>2, <3>1, <3>2, CaptureFacts DEF GoesTo
  <2>3. CASE ~changed /\ f \notin InboxFiles
    BY <1>2, <1>3, <2>3 DEF Placed
  <2> QED BY <2>1, <2>2, <2>3
<1>7. ASSUME NEW g \in Files, g # f, items[g] # NoItem PROVE Placed(copies, more, g)
  <2>1. Placed(copies, items, g) /\ more[g] = items[g]
    BY <1>2, <1>7
  <2>2. items[g].changed \in BOOLEAN
    BY <1>7, ItemFacts
  <2>3. CASE items[g].changed
    <3>1. g \in PlannedIn(items, items[g].digest)
      BY <1>7, <2>3 DEF PlannedIn
    <3>2. ~changed \/ items[g].digest # d
      BY <3>1 DEF GoesTo
    <3>3. PlannedIn(more, items[g].digest) = PlannedIn(items, items[g].digest)
      BY <1>4, <3>2
    <3> QED BY <2>1, <2>3, <3>3 DEF Placed
  <2>4. CASE ~items[g].changed /\ g \in InboxFiles
               /\ \E h \in PlannedIn(items, items[g].digest) : items[h].at = items[g].at
    <3>1. PICK h \in PlannedIn(items, items[g].digest) : items[h].at = items[g].at
      BY <2>4
    <3>2. h \in Files /\ h # f
      BY <3>1 DEF PlannedIn
    <3>3. h \in PlannedIn(more, items[g].digest) /\ more[h].at = items[g].at
      BY <1>2, <3>1, <3>2 DEF PlannedIn
    <3> QED BY <2>1, <2>4, <3>3 DEF Placed
  <2>5. CASE ~items[g].changed /\ items[g].at \in Copies
               /\ copies[items[g].at] = items[g].digest
    BY <2>1, <2>5 DEF Placed
  <2>6. CASE ~items[g].changed /\ g \notin InboxFiles
    BY <2>1, <2>6 DEF Placed
  <2> QED BY <2>1, <2>2, <2>3, <2>4, <2>5, <2>6 DEF Placed
<1> QED BY <1>2, <1>6, <1>7

\* The copies that a plan writes have the name of their content.
LEMMA WritesAreNamed ==
  ASSUME NEW items \in Plannings,
         \A f \in Files : items[f] # NoItem => Placed(copies, items, f)
  PROVE  /\ \A w \in WritesIn(items) :
              /\ w \in CopyWrites /\ w.digest \in FileContents /\ w.at \in Copies
              /\ w.at[1] = w.digest /\ w.source \in Files
         /\ \A f \in Files : items[f] # NoItem /\ items[f].changed =>
              \E w \in WritesIn(items) : w.at = items[f].at /\ w.digest = items[f].digest
<1>1. ASSUME NEW w \in WritesIn(items)
      PROVE  /\ w \in CopyWrites /\ w.digest \in FileContents /\ w.at \in Copies
             /\ w.at[1] = w.digest /\ w.source \in Files
  <2>1. PICK f \in Files :
          /\ items[f] # NoItem /\ items[f].changed
          /\ w = [source |-> f, at |-> items[f].at, digest |-> items[f].digest]
    BY DEF WritesIn
  <2>2. items[f].digest \in FileContents
    BY <2>1, ItemFacts
  <2>3. f \in InboxFiles /\ items[f].at = <<items[f].digest, StoredSuffix(f)>>
    BY <2>1 DEF Placed
  <2>4. items[f].at \in Copies /\ items[f].at[1] = items[f].digest
    BY <2>2, <2>3, NewCopyPlace
  <2>5. w.source = f /\ w.at = items[f].at /\ w.digest = items[f].digest
    BY <2>1
  <2> QED BY <2>1, <2>2, <2>3, <2>4, <2>5 DEF CopyWrites
<1>2. ASSUME NEW f \in Files, items[f] # NoItem, items[f].changed
      PROVE  \E w \in WritesIn(items) : w.at = items[f].at /\ w.digest = items[f].digest
  <2> DEFINE w == [source |-> f, at |-> items[f].at, digest |-> items[f].digest]
  <2>1. w \in WritesIn(items)
    BY <1>2 DEF WritesIn
  <2>2. w.at = items[f].at /\ w.digest = items[f].digest
    OBVIOUS
  <2> QED BY <2>1, <2>2
<1> QED BY <1>1, <1>2

\* A capture writes nothing, or each absent copy with the content of its name.
LEMMA CapturedCopies ==
  ASSUME FilesystemCaptureTypeOK, StoreInv, NEW items \in Plannings,
         \A f \in Files : items[f] # NoItem => Placed(copies, items, f),
         AsPlanned(WritesIn(items)),
         copies' = [p \in Copies |->
           IF \E w \in WritesIn(items) : w.at = p
           THEN files[(CHOOSE w \in WritesIn(items) : w.at = p).source] ELSE copies[p]]
  PROVE  /\ copies' \in [Copies -> FileContents \cup {NoFile}]
         /\ \A p \in Copies : copies'[p] \in {p[1], NoFile}
         /\ \A p \in Copies : copies[p] # NoFile => copies'[p] = copies[p]
         /\ \A w \in WritesIn(items) : copies'[w.at] = w.digest
<1> DEFINE writes == WritesIn(items)
<1>1. \A w \in writes : /\ w.digest \in FileContents /\ w.at \in Copies
                        /\ w.at[1] = w.digest
  BY WritesAreNamed
<1>2. \A w \in writes : copies[w.at] = NoFile /\ files[w.source] = w.digest
  BY DEF AsPlanned
<1> HIDE DEF writes
<1>3. ASSUME NEW p \in Copies, \E w \in writes : w.at = p
      PROVE  copies'[p] = p[1] /\ copies[p] = NoFile /\ p[1] \in FileContents
  <2> DEFINE v == CHOOSE w \in writes : w.at = p
  <2>1. v \in writes /\ v.at = p
    BY <1>3
  <2>2. copies'[p] = files[v.source]
    BY <1>3 DEF writes
  <2> HIDE DEF v
  <2> QED BY <1>1, <1>2, <2>1, <2>2
<1>4. ASSUME NEW p \in Copies, ~\E w \in writes : w.at = p
      PROVE  copies'[p] = copies[p]
  BY <1>4 DEF writes
<1>5. \A p \in Copies : copies'[p] \in {p[1], NoFile}
  BY <1>3, <1>4 DEF StoreInv
<1>6. \A p \in Copies : copies[p] # NoFile => copies'[p] = copies[p]
  BY <1>3, <1>4
<1>7. \A w \in writes : copies'[w.at] = w.digest
  BY <1>1, <1>3
<1>8. copies' = [p \in Copies |-> copies'[p]]
  OBVIOUS
<1>9. \A p \in Copies : copies'[p] \in FileContents \cup {NoFile}
  BY <1>3, <1>4, CaptureFacts
<1>10. copies' \in [Copies -> FileContents \cup {NoFile}]
  BY <1>8, <1>9
<1> QED BY <1>5, <1>6, <1>7, <1>10 DEF writes

LEMMA CaptureOutcome ==
  ASSUME NEW k \in Capturers, Capture(k)
  PROVE  /\ Refuse(k) /\ UNCHANGED <<files, shown, fileSaves, captures>>
         /\ capturing[k].todo = {}
         /\ \/ UNCHANGED <<copies, reported>>
            \/ /\ \A w \in WritesIn(capturing[k].items) : copies[w.at] = w.digest
               /\ UNCHANGED copies
               /\ reported' = [reported EXCEPT ![k] = capturing[k].items]
            \/ /\ AsPlanned(WritesIn(capturing[k].items))
               /\ copies' = [p \in Copies |->
                    IF \E w \in WritesIn(capturing[k].items) : w.at = p
                    THEN files[(CHOOSE w \in WritesIn(capturing[k].items) :
                                  w.at = p).source]
                    ELSE copies[p]]
               /\ reported' = [reported EXCEPT ![k] = capturing[k].items]
         /\ committed' \subseteq committed \cup {WritesIn(capturing[k].items)}
<1> HIDE DEF AsPlanned, WritesIn
<1> QED BY DEF Capture, Planned, Replays

\* What has been placed or stored stays so while stored copies stay.
LEMMA PlacesStay ==
  ASSUME NEW store, NEW later, NEW items \in Plannings, NEW f \in Files,
         items[f] # NoItem, NoFile \notin FileContents,
         \A p \in Copies : store[p] # NoFile => later[p] = store[p]
  PROVE  /\ Placed(store, items, f) => Placed(later, items, f)
         /\ InStore(store, items, f) => InStore(later, items, f)
<1>1. items[f].digest \in FileContents
  BY ItemFacts
<1>2. ASSUME items[f].at \in Copies, store[items[f].at] = items[f].digest
      PROVE  later[items[f].at] = items[f].digest
  BY <1>1, <1>2
<1> QED BY <1>2 DEF Placed, InStore

\* A report of a capture that wrote its plan is true.
LEMMA CapturedItems ==
  ASSUME NEW later, NEW items \in Plannings, NEW f \in InboxFiles, items[f] # NoItem,
         NoFile \notin FileContents,
         \A g \in Files : items[g] # NoItem => Placed(copies, items, g),
         \A p \in Copies : copies[p] # NoFile => later[p] = copies[p],
         \A w \in WritesIn(items) : later[w.at] = w.digest
  PROVE  InStore(later, items, f)
<1>1. f \in Files /\ Placed(copies, items, f)
  BY DEF Files
<1>2. items[f].changed \in BOOLEAN /\ items[f].digest \in FileContents
  BY <1>1, ItemFacts
<1>3. ASSUME NEW g \in Files, items[g] # NoItem, items[g].changed
      PROVE  items[g].at \in Copies /\ later[items[g].at] = items[g].digest
  <2>1. PICK w \in WritesIn(items) : w.at = items[g].at /\ w.digest = items[g].digest
    BY <1>3, WritesAreNamed
  <2>2. w.at \in Copies
    BY WritesAreNamed
  <2> QED BY <2>1, <2>2
<1>4. CASE items[f].changed
  BY <1>1, <1>3, <1>4 DEF InStore, Placed
<1>5. CASE ~items[f].changed
  <2>1. CASE items[f].at \in Copies /\ copies[items[f].at] = items[f].digest
    BY <1>2, <1>5, <2>1 DEF InStore
  <2>2. CASE \E g \in PlannedIn(items, items[f].digest) : items[g].at = items[f].at
    <3>1. PICK g \in PlannedIn(items, items[f].digest) : items[g].at = items[f].at
      BY <2>2
    <3>2. /\ g \in Files /\ items[g] # NoItem /\ items[g].changed
          /\ items[g].digest = items[f].digest
      BY <3>1 DEF PlannedIn
    <3> QED BY <1>3, <1>5, <3>1, <3>2 DEF InStore
  <2> QED BY <1>1, <1>5, <2>1, <2>2 DEF Placed
<1> QED BY <1>2, <1>4, <1>5

\* Who changes what.
Starting(k) == \E purpose \in Purposes, fs \in SUBSET Files : StartCapture(k, purpose, fs)
Stopping(k) == SourceChanges(k) \/ Show(k)

LEMMA CaptureByStep ==
  ASSUME [FilesystemCaptureNext]_captureVars
  PROVE  \/ \E k \in Capturers :
              \/ Starting(k) \/ Stopping(k) \/ Capture(k)
              \/ \E f \in Files : PlanFile(k, f)
         \/ \E f \in Files : SaveFile(f)
         \/ UNCHANGED captureVars
<1>1. ASSUME NEW k \in Capturers, NEW purpose \in Purposes,
             \/ StartCapture(k, purpose, {f \in Files : files[f] # NoFile})
             \/ \E f \in Files : StartCapture(k, purpose, {f})
      PROVE  Starting(k)
  <2>1. CASE StartCapture(k, purpose, {f \in Files : files[f] # NoFile})
    <3>1. {f \in Files : files[f] # NoFile} \in SUBSET Files
      OBVIOUS
    <3> HIDE DEF StartCapture
    <3> QED BY <2>1, <3>1 DEF Starting
  <2>2. CASE \E f \in Files : StartCapture(k, purpose, {f})
    <3>1. PICK f \in Files : StartCapture(k, purpose, {f})
      BY <2>2
    <3>2. {f} \in SUBSET Files
      OBVIOUS
    <3> QED BY <3>1, <3>2 DEF Starting
  <2> QED BY <1>1, <2>1, <2>2
<1> QED BY <1>1 DEF FilesystemCaptureNext, Stopping

LEMMA WritesInType ==
  ASSUME NEW items \in Plannings,
         \A f \in Files : items[f] # NoItem => Placed(copies, items, f)
  PROVE  WritesIn(items) \subseteq CopyWrites
  BY WritesAreNamed

CapturingType == [Capturers -> [for : Purposes \cup {"nothing"}, todo : SUBSET Files,
                                items : Plannings]]

\* What a step makes of the commands: it keeps what a command has planned, ends the
\* command or starts a new one, or plans a file more.
LEMMA CommandsAfter ==
  ASSUME FilesystemCaptureTypeOK, StoreInv, ItemsInv, [FilesystemCaptureNext]_captureVars
  PROVE  /\ capturing' \in CapturingType
         /\ \A j \in Capturers :
              LET items == capturing'[j].items
              IN /\ \A f \in capturing'[j].todo : items[f] = NoItem
                 /\ \A f \in Files : items[f] # NoItem => Placed(copies, items, f)
<1> DEFINE Good == 
      /\ capturing' \in CapturingType
      /\ \A j \in Capturers :
           /\ \A f \in capturing'[j].todo : capturing'[j].items[f] = NoItem
           /\ \A f \in Files : capturing'[j].items[f] # NoItem =>
                                 Placed(copies, capturing'[j].items, f)
<1>1. /\ capturing \in CapturingType
      /\ \A j \in Capturers :
           /\ \A f \in capturing[j].todo : capturing[j].items[f] = NoItem
           /\ \A f \in Files : capturing[j].items[f] # NoItem =>
                                 Placed(copies, capturing[j].items, f)
  BY CaptureFacts DEF ItemsInv, CapturingType
<1>2. ASSUME NEW k \in Capturers, Refuse(k) PROVE Good
  <2>1. capturing' \in CapturingType
    BY <1>2, EndedCommand DEF CapturingType
  <2>2. \A j \in Capturers : capturing'[j] = IF j = k THEN NoCapture ELSE capturing[j]
    BY <1>2, EndedCommand
  <2>3. NoCapture.items = NoItems /\ NoCapture.todo = {}
        /\ \A f \in Files : NoItems[f] = NoItem
    BY NoItemsPlanned
  <2> HIDE DEF NoCapture, NoItems
  <2> QED BY <1>1, <2>1, <2>2, <2>3
<1>3. ASSUME NEW k \in Capturers, Starting(k) PROVE Good
  <2>1. PICK purpose \in Purposes, fs \in SUBSET Files : StartCapture(k, purpose, fs)
    BY <1>3 DEF Starting
  <2> DEFINE new == [for |-> purpose, todo |-> fs, items |-> NoItems]
  <2>2. capturing' \in CapturingType
    BY <2>1, StartedCommand DEF CapturingType
  <2>3. capturing' = [capturing EXCEPT ![k] = new] /\ new.items = NoItems /\ new.todo = fs
    BY <2>1 DEF StartCapture
  <2>4. \A f \in Files : NoItems[f] = NoItem
    BY NoItemsPlanned
  <2> HIDE DEF new, NoItems
  <2>5. \A j \in Capturers : capturing'[j] = IF j = k THEN new ELSE capturing[j]
    BY <1>1, <2>3 DEF CapturingType
  <2> QED BY <1>1, <2>2, <2>3, <2>4, <2>5
<1>4. ASSUME NEW k \in Capturers, NEW f \in Files, PlanFile(k, f) PROVE Good
  <2>1. CASE Refuse(k)
    BY <1>2, <2>1
  <2>2. CASE ~Refuse(k)
    <3>1. PICK d \in FileContents, changed \in BOOLEAN :
            \E where :
              /\ GoesTo(capturing[k].items, f, d, where, changed)
              /\ capturing' = [capturing EXCEPT
                   ![k].todo = @ \ {f},
                   ![k].items[f] = [digest |-> d, at |-> where, changed |-> changed]]
      BY <1>4, <2>2, PlannedOne
    <3>2. PICK where :
            /\ GoesTo(capturing[k].items, f, d, where, changed)
            /\ capturing' = [capturing EXCEPT
                 ![k].todo = @ \ {f},
                 ![k].items[f] = [digest |-> d, at |-> where, changed |-> changed]]
      BY <3>1
    <3> DEFINE item == [digest |-> d, at |-> where, changed |-> changed]
               items == capturing[k].items
               more == [items EXCEPT ![f] = item]
    <3>3. items \in Plannings /\ f \in capturing[k].todo
      BY <1>4, CapturingFacts DEF PlanFile
    <3>4. item \in Items
      BY <3>2, <3>3, PlannedItemType
    <3>5. /\ capturing' \in CapturingType
          /\ \A j \in Capturers \ {k} : capturing'[j] = capturing[j]
          /\ capturing'[k].todo = capturing[k].todo \ {f}
          /\ capturing'[k].items = more
      <4> HIDE DEF item
      <4>1. PlansFile(k, f, item)
        BY <3>2 DEF PlansFile, item
      <4>2. /\ capturing' \in CapturingType
            /\ \A j \in Capturers \ {k} : capturing'[j] = capturing[j]
            /\ capturing'[k].todo = capturing[k].todo \ {f}
        BY <3>4, <4>1, PlannedCommand DEF CapturingType
      <4>3. capturing'[k].items = WithItem(capturing[k].items, f, item)
        BY <3>4, <4>1, PlannedCommand
      <4> QED BY <4>2, <4>3 DEF WithItem
    <3>6. items[f] = NoItem
      BY <1>1, <3>3
    <3>7. \A g \in Files : more[g] # NoItem => Placed(copies, more, g)
      BY <1>1, <3>2, <3>3, <3>6, PlannedPlaces
    <3>8. \A g \in capturing'[k].todo : more[g] = NoItem
      <4>1. \A g \in capturing[k].todo \ {f} : g \in Files /\ items[g] = NoItem
        BY <1>1, CapturingFacts
      <4> QED BY <3>3, <3>5, <4>1 DEF Plannings
    <3> HIDE DEF more
    <3> QED BY <1>1, <3>5, <3>7, <3>8
  <2> QED BY <2>1, <2>2
<1>5. CASE UNCHANGED capturing
  BY <1>1, <1>5
<1>6. ASSUME NEW k \in Capturers, Stopping(k) \/ Capture(k) PROVE Good
  BY <1>2, <1>6, CaptureOutcome DEF Stopping, SourceChanges, Show
<1>7. Good
  BY <1>2, <1>3, <1>4, <1>5, <1>6, CaptureByStep DEF SaveFile, captureVars
<1> QED BY <1>7

\* Only a capture changes the store, and no copy that is there.
LEMMA StoreAfter ==
  ASSUME FilesystemCaptureTypeOK, StoreInv, ItemsInv, [FilesystemCaptureNext]_captureVars
  PROVE  /\ copies' \in [Copies -> FileContents \cup {NoFile}]
         /\ StoreInv'
         /\ \A p \in Copies : copies[p] # NoFile => copies'[p] = copies[p]
<1>1. CASE UNCHANGED copies
  BY <1>1, CaptureFacts DEF StoreInv
<1>2. ASSUME NEW k \in Capturers, Capture(k), copies' # copies
      PROVE  /\ copies' \in [Copies -> FileContents \cup {NoFile}]
             /\ StoreInv'
             /\ \A p \in Copies : copies[p] # NoFile => copies'[p] = copies[p]
  <2> DEFINE items == capturing[k].items
  <2>1. items \in Plannings
        /\ \A f \in Files : items[f] # NoItem => Placed(copies, items, f)
    BY CapturingFacts DEF ItemsInv
  <2>2. /\ AsPlanned(WritesIn(items))
        /\ copies' = [p \in Copies |->
             IF \E w \in WritesIn(items) : w.at = p
             THEN files[(CHOOSE w \in WritesIn(items) : w.at = p).source] ELSE copies[p]]
    BY <1>2, CaptureOutcome
  <2> HIDE DEF items
  <2> QED BY <2>1, <2>2, CapturedCopies DEF StoreInv
<1>3. UNCHANGED copies \/ \E k \in Capturers : Capture(k)
  BY CaptureByStep DEF Starting, StartCapture, Stopping, SourceChanges, Show, PlanFile,
     SaveFile, captureVars
<1> QED BY <1>1, <1>2, <1>3

LEMMA CaptureKeepsItemsInv ==
  ASSUME FilesystemCaptureTypeOK, StoreInv, ItemsInv, [FilesystemCaptureNext]_captureVars
  PROVE  ItemsInv'
<1> SUFFICES ASSUME NEW j \in Capturers
             PROVE  /\ \A f \in capturing'[j].todo : capturing'[j].items[f] = NoItem
                    /\ \A f \in Files : capturing'[j].items[f] # NoItem =>
                         Placed(copies', capturing'[j].items, f)
  BY DEF ItemsInv
<1> DEFINE items == capturing'[j].items
<1>1. /\ \A f \in capturing'[j].todo : items[f] = NoItem
      /\ \A f \in Files : items[f] # NoItem => Placed(copies, items, f)
  BY CommandsAfter
<1>2. items \in Plannings
  BY CommandsAfter DEF CapturingType
<1>3. \A p \in Copies : copies[p] # NoFile => copies'[p] = copies[p]
  BY StoreAfter
<1> HIDE DEF items
<1>4. \A f \in Files : items[f] # NoItem => Placed(copies', items, f)
  BY <1>1, <1>2, <1>3, PlacesStay, CaptureFacts
<1> QED BY <1>1, <1>4 DEF items

\* What a step makes of a report: it keeps it, forgets it, or it is of a capture that
\* wrote all that it reports.
LEMMA ReportsAfter ==
  ASSUME FilesystemCaptureTypeOK, StoreInv, ItemsInv, ReportInv,
         [FilesystemCaptureNext]_captureVars
  PROVE  reported' \in [Capturers -> Plannings] /\ ReportInv'
<1>1. /\ reported \in [Capturers -> Plannings] /\ NoFile \notin FileContents
      /\ InboxFiles \subseteq Files
  BY CaptureFacts
<1>2. \A p \in Copies : copies[p] # NoFile => copies'[p] = copies[p]
  BY StoreAfter
<1>3. ASSUME NEW j \in Capturers, NEW f \in InboxFiles, reported[j][f] # NoItem
      PROVE  InStore(copies', reported[j], f)
  BY <1>1, <1>2, <1>3, PlacesStay DEF ReportInv
<1>4. ASSUME NEW k \in Capturers, Starting(k)
      PROVE  reported' \in [Capturers -> Plannings] /\ ReportInv'
  <2>1. PICK purpose \in Purposes, fs \in SUBSET Files : StartCapture(k, purpose, fs)
    BY <1>4 DEF Starting
  <2>2. /\ reported' \in [Capturers -> Plannings]
        /\ \A j \in Capturers, f \in Files :
             reported'[j][f] # NoItem => reported'[j] = reported[j]
    BY <2>1, StartedCommand
  <2> QED BY <1>1, <1>3, <2>2 DEF ReportInv
<1>5. ASSUME NEW k \in Capturers, Capture(k), reported' # reported
      PROVE  reported' \in [Capturers -> Plannings] /\ ReportInv'
  <2> DEFINE items == capturing[k].items
  <2>1. items \in Plannings
        /\ \A f \in Files : items[f] # NoItem => Placed(copies, items, f)
    BY CapturingFacts DEF ItemsInv
  <2>2. /\ reported' = [reported EXCEPT ![k] = items]
        /\ \/ (\A w \in WritesIn(items) : copies[w.at] = w.digest) /\ UNCHANGED copies
           \/ /\ AsPlanned(WritesIn(items))
              /\ copies' = [p \in Copies |->
                   IF \E w \in WritesIn(items) : w.at = p
                   THEN files[(CHOOSE w \in WritesIn(items) : w.at = p).source]
                   ELSE copies[p]]
    BY <1>5, CaptureOutcome
  <2> HIDE DEF items
  <2>3. \A w \in WritesIn(items) : copies'[w.at] = w.digest
    BY <2>1, <2>2, CapturedCopies
  <2>4. \A f \in InboxFiles : items[f] # NoItem => InStore(copies', items, f)
    BY <1>1, <1>2, <2>1, <2>3, CapturedItems
  <2>5. reported' \in [Capturers -> Plannings]
        /\ \A j \in Capturers : reported'[j] = IF j = k THEN items ELSE reported[j]
    BY <1>1, <2>1, <2>2
  <2> QED BY <1>3, <2>4, <2>5 DEF ReportInv
<1>6. CASE UNCHANGED reported
  BY <1>1, <1>3, <1>6 DEF ReportInv
<1>7. UNCHANGED reported \/ \E k \in Capturers : Starting(k) \/ Capture(k)
  BY CaptureByStep DEF Stopping, SourceChanges, Show, PlanFile, SaveFile, captureVars
<1> QED BY <1>4, <1>5, <1>6, <1>7

\* The rest of the state: what has been shown, the files, and the counters.
LEMMA FilesystemCaptureTypes ==
  ASSUME FilesystemCaptureTypeOK, StoreInv, ItemsInv, ReportInv,
         [FilesystemCaptureNext]_captureVars
  PROVE  FilesystemCaptureTypeOK'
<1>1. capturing' \in CapturingType /\ reported' \in [Capturers -> Plannings]
      /\ copies' \in [Copies -> FileContents \cup {NoFile}]
  BY CommandsAfter, ReportsAfter, StoreAfter
<1>2. files' \in [Files -> FileContents \cup {NoFile}] /\ fileSaves' \in 0..MaxFileSaves
  <2>1. ASSUME NEW f \in Files, SaveFile(f)
        PROVE  /\ files' \in [Files -> FileContents \cup {NoFile}]
               /\ fileSaves' \in 0..MaxFileSaves
    BY <2>1, CaptureFacts DEF SaveFile
  <2>2. CASE UNCHANGED <<files, fileSaves>>
    BY <2>2 DEF FilesystemCaptureTypeOK
  <2> QED BY <2>1, <2>2, CaptureByStep DEF Starting, StartCapture, Stopping,
          SourceChanges, Show, Capture, PlanFile, captureVars
<1>3. shown' \in [Capturers -> SUBSET CopyWrites]
  <2>1. ASSUME NEW k \in Capturers, Show(k)
        PROVE  shown' \in [Capturers -> SUBSET CopyWrites]
    <3>1. WritesIn(capturing[k].items) \subseteq CopyWrites
      BY WritesInType, CapturingFacts DEF ItemsInv
    <3> QED BY <2>1, <3>1, CaptureFacts DEF Show
  <2>2. CASE UNCHANGED shown
    BY <2>2, CaptureFacts
  <2> QED BY <2>1, <2>2, CaptureByStep DEF Starting, StartCapture, Stopping,
          SourceChanges, Capture, PlanFile, SaveFile, captureVars
<1>4. captures' \in 0..MaxCaptures
  <2>1. ASSUME NEW k \in Capturers, Starting(k) PROVE captures' \in 0..MaxCaptures
    BY <2>1, StartedCommand DEF Starting
  <2>2. CASE UNCHANGED captures
    BY <2>2 DEF FilesystemCaptureTypeOK
  <2> QED BY <2>1, <2>2, CaptureByStep DEF Stopping, SourceChanges, Show, Capture,
          PlanFile, SaveFile, captureVars
<1>5. committed' \subseteq SUBSET CopyWrites
  <2>1. ASSUME NEW k \in Capturers, Capture(k)
        PROVE  committed' \subseteq SUBSET CopyWrites
    <3>1. WritesIn(capturing[k].items) \subseteq CopyWrites
      BY WritesInType, CapturingFacts DEF ItemsInv
    <3> QED BY <2>1, <3>1, CaptureFacts, CaptureOutcome
  <2>2. CASE UNCHANGED committed
    BY <2>2, CaptureFacts
  <2> QED BY <2>1, <2>2, CaptureByStep DEF Starting, StartCapture, Stopping,
          SourceChanges, Show, PlanFile, SaveFile, captureVars
<1> QED BY <1>1, <1>2, <1>3, <1>4, <1>5 DEF FilesystemCaptureTypeOK, CapturingType

\* The invariant of the capture is inductive.
THEOREM FilesystemCaptureInductive == FilesystemCaptureSpec => []FilesystemCaptureInv
<1>1. FilesystemCaptureInit => FilesystemCaptureInv
  <2> SUFFICES ASSUME FilesystemCaptureInit PROVE FilesystemCaptureInv
    OBVIOUS
  <2>1. NoItems \in Plannings /\ (\A f \in Files : NoItems[f] = NoItem)
        /\ NoCapture \in [for : Purposes \cup {"nothing"}, todo : SUBSET Files,
                          items : Plannings]
        /\ NoCapture.items = NoItems /\ NoCapture.todo = {}
    BY NoItemsPlanned
  <2>2. 0 \in 0..MaxFileSaves /\ 0 \in 0..MaxCaptures
    BY FilesystemCaptureAssumption
  <2>3. /\ capturing = [k \in Capturers |-> NoCapture]
        /\ reported = [k \in Capturers |-> NoItems]
        /\ shown = [k \in Capturers |-> {}]
        /\ copies = [p \in Copies |-> NoFile]
        /\ files \in [Files -> FileContents] /\ fileSaves = 0 /\ captures = 0
        /\ committed = {}
    BY DEF FilesystemCaptureInit
  <2> HIDE DEF NoItems, NoCapture
  <2>4. FilesystemCaptureTypeOK
    BY <2>1, <2>2, <2>3 DEF FilesystemCaptureTypeOK
  <2>5. ItemsInv /\ ReportInv
    BY <2>1, <2>3, CaptureFacts, <2>4 DEF ItemsInv, ReportInv
  <2>6. StoreInv
    BY <2>3 DEF StoreInv
  <2> QED BY <2>4, <2>5, <2>6 DEF FilesystemCaptureInv
<1>2. FilesystemCaptureInv /\ [FilesystemCaptureNext]_captureVars => FilesystemCaptureInv'
  BY FilesystemCaptureTypes, StoreAfter, CaptureKeepsItemsInv, ReportsAfter
  DEF FilesystemCaptureInv
<1> QED BY <1>1, <1>2, PTL DEF FilesystemCaptureSpec

\* What the capture commands of claude_obsidian/capture.py report is stored with the
\* content that was hashed, and no content is stored twice by one command, however
\* many commands run over however many files that the person saves and removes.
THEOREM ReportsAreTrue == FilesystemCaptureSpec => []ReportedIsStoredOnce
<1>1. FilesystemCaptureInv => ReportedIsStoredOnce
  <2> SUFFICES ASSUME FilesystemCaptureInv, NEW k \in Capturers, NEW f \in InboxFiles,
                      reported[k][f] # NoItem
               PROVE  /\ copies[reported[k][f].at] = reported[k][f].digest
                      /\ \A g \in InboxFiles \ {f} :
                           /\ reported[k][f].changed /\ reported[k][g] # NoItem
                           /\ reported[k][g].changed
                           => reported[k][g].digest # reported[k][f].digest
    BY DEF ReportedIsStoredOnce
  <2>1. InStore(copies, reported[k], f)
    BY DEF FilesystemCaptureInv, ReportInv
  <2>2. InboxFiles \subseteq Files
    BY DEF Files
  <2> QED BY <2>1, <2>2 DEF InStore, PlannedIn
<1> QED BY <1>1, FilesystemCaptureInductive, PTL

-----------------------------------------------------------------------------
(***************************************************************************)
(* The public archive                                                      *)
(***************************************************************************)
LEMMA NewBuild ==
  /\ SomeTree \in Trees
  /\ NoBuild.at = "idle" /\ NoBuild.second = FALSE /\ NoBuild.moved = 0
  /\ NoBuild.first \in Snapshots /\ NoBuild.now \in Snapshots
  /\ NoBuild.todo = {} /\ NoBuild.payload \in Trees
<1>1. [f \in Tracked |-> CHOOSE b \in Blobs : TRUE] \in Trees
  BY ReleaseAssumption DEF Trees
<1>2. SomeTree \in Trees
  BY <1>1 DEF SomeTree
<1> QED BY <1>2 DEF NoBuild, Snapshots

LEMMA BuildFacts ==
  ASSUME ReleaseTypeOK
  PROVE  /\ build = [at |-> build.at, second |-> build.second, first |-> build.first,
                     now |-> build.now, todo |-> build.todo,
                     payload |-> build.payload, moved |-> build.moved]
         /\ build.at \in {"idle", "collect", "pack"} \cup Asking
         /\ build.second \in BOOLEAN
         /\ build.first \in Snapshots /\ build.now \in Snapshots
         /\ build.todo \subseteq Tracked /\ build.payload \in Trees
         /\ build.moved \in Nat /\ moves \in Nat /\ MaxMoves \in Nat
         /\ worktree \in Trees /\ staged \in Trees /\ head \in Trees
  BY ReleaseAssumption DEF ReleaseTypeOK

LEMMA SnapshotFacts ==
  ASSUME NEW s \in Snapshots
  PROVE  /\ s = [commit |-> s.commit, oids |-> s.oids]
         /\ s.commit \in Trees /\ s.oids \in Trees
  BY DEF Snapshots

AuditIs(a) ==
  /\ a = [at |-> a.at, inode |-> a.inode, archive |-> a.archive, ok |-> a.ok,
          replaced |-> a.replaced, byHand |-> a.byHand]
  /\ a.at \in {"idle", "open", "judge"} /\ a.inode \in Inodes
  /\ a.archive \in Archives \cup {NoArchive}
  /\ a.ok \in BOOLEAN /\ a.byHand \in BOOLEAN

LEMMA OutputFacts ==
  ASSUME ReleaseTypeOK
  PROVE  /\ output = [archive |-> output.archive, inode |-> output.inode,
                      number |-> output.number]
         /\ output.archive \in Archives \cup {NoArchive} /\ output.inode \in Inodes
         /\ output.number \in Nat /\ output.number <= MaxBuilds /\ MaxBuilds \in Nat
         /\ audit = [at |-> audit.at, inode |-> audit.inode, archive |-> audit.archive,
                     ok |-> audit.ok, replaced |-> audit.replaced,
                     byHand |-> audit.byHand]
         /\ AuditIs(audit)
         /\ audit.replaced \in Nat /\ audit.replaced <= MaxBuilds
  BY ReleaseAssumption DEF ReleaseTypeOK, AuditIs

LEMMA NoAuditFacts ==
  /\ AuditIs(NoAudit) /\ NoAudit.at = "idle" /\ NoAudit.replaced = 0 /\ ~NoAudit.ok
  /\ NoAudit.byHand = FALSE
<1>1. (CHOOSE i \in Inodes : TRUE) \in Inodes
  BY ReleaseAssumption
<1> QED BY <1>1 DEF NoAudit, AuditIs

LEMMA ReleaseOfType ==
  ASSUME NEW c \in Trees PROVE ReleaseOf(c) \in Archives
<1> DEFINE packed == [n \in Names |-> IF n \in DOMAIN OverlayOf THEN c[OverlayOf[n]]
                                     ELSE c[n]]
<1>1. packed \in [Names -> Blobs]
  BY ReleaseAssumption DEF Names, Trees
<1> HIDE DEF packed
<1>2. [commit |-> c, files |-> packed] \in Archives
  BY <1>1 DEF Archives
<1> QED BY <1>2 DEF packed, ReleaseOf

LEMMA PackedType ==
  ASSUME ReleaseTypeOK
  PROVE  PackedFiles \in [Names -> Blobs]
  BY BuildFacts, ReleaseAssumption DEF PackedFiles, Names, Trees

\* A build ends, or goes on.
GoesOn(at) ==
  /\ build'.at = at
  /\ build'.second = build.second /\ build'.first = build.first
  /\ build'.now = build.now /\ build'.todo = build.todo
  /\ build'.payload = build.payload /\ build'.moved = build.moved

BuildIs(b) ==
  /\ b = [at |-> b.at, second |-> b.second, first |-> b.first, now |-> b.now,
          todo |-> b.todo, payload |-> b.payload, moved |-> b.moved]
  /\ b.at \in {"idle", "collect", "pack"} \cup Asking /\ b.second \in BOOLEAN
  /\ b.first \in Snapshots /\ b.now \in Snapshots
  /\ b.todo \subseteq Tracked /\ b.payload \in Trees

LEMMA AfterAskStatus ==
  ASSUME ReleaseTypeOK, AskStatus
  PROVE  /\ BuildIs(build')
         /\ build' # NoBuild => Tidy /\ GoesOn("head")
  BY BuildFacts, NewBuild DEF AskStatus, BuildIs, GoesOn, Tidy, Asking, NoBuild

LEMMA AfterAskHead ==
  ASSUME ReleaseTypeOK, AskHead
  PROVE  /\ BuildIs(build')
         /\ build'.at = "index" /\ build'.second = build.second
         /\ build'.first = build.first /\ build'.todo = build.todo
         /\ build'.payload = build.payload /\ build'.moved = build.moved
         /\ build'.now.commit = head
<1> DEFINE now == [build.now EXCEPT !.commit = head]
<1>1. now \in Snapshots /\ now.commit = head
  BY BuildFacts DEF Snapshots
<1>2. build' = [build EXCEPT !.at = "index", !.now = now]
  BY BuildFacts DEF AskHead
<1> HIDE DEF now
<1> QED BY <1>1, <1>2, BuildFacts DEF BuildIs, Asking

LEMMA AfterAskIndex ==
  ASSUME ReleaseTypeOK, AskIndex
  PROVE  /\ BuildIs(build')
         /\ ~build.second =>
              /\ build'.at = "collect" /\ ~build'.second
              /\ build'.first.commit = build.now.commit /\ build'.first.oids = staged
              /\ build'.todo = Tracked /\ build'.payload = build.payload
              /\ build'.moved = build.moved
         /\ build.second /\ build' # NoBuild =>
              /\ build'.at = "pack" /\ build'.second /\ build'.first = build.first
              /\ build.first.commit = build.now.commit /\ build.first.oids = staged
              /\ build'.todo = build.todo /\ build'.payload = build.payload
              /\ build'.moved = build.moved
<1> DEFINE now == [build.now EXCEPT !.oids = staged]
<1>1. now \in Snapshots /\ now.commit = build.now.commit /\ now.oids = staged
  BY BuildFacts DEF Snapshots
<1>2. build' = IF ~build.second
               THEN [build EXCEPT !.at = "collect", !.first = now, !.now = now,
                                  !.todo = Tracked]
               ELSE IF build.first = now
                    THEN [build EXCEPT !.at = "pack", !.now = now]
                    ELSE NoBuild
  BY DEF AskIndex, SameTwo
<1> HIDE DEF now
<1> QED BY <1>1, <1>2, BuildFacts, NewBuild DEF BuildIs, NoBuild

LEMMA AfterCollect ==
  ASSUME ReleaseTypeOK, NEW f \in Tracked, Collect(f)
  PROVE  /\ BuildIs(build')
         /\ build' # NoBuild =>
              /\ build'.at = build.at /\ build'.second = build.second
              /\ build'.first = build.first /\ build'.now = build.now
              /\ build'.moved = build.moved /\ build'.todo = build.todo \ {f}
              /\ build'.payload = [build.payload EXCEPT ![f] = build.first.oids[f]]
<1> DEFINE payload == [build.payload EXCEPT ![f] = build.first.oids[f]]
<1>1. build.first.oids[f] \in Blobs
  BY BuildFacts, SnapshotFacts DEF Trees
<1>2. payload \in Trees
  BY <1>1, BuildFacts DEF Trees
<1>3. \/ build' = [build EXCEPT !.todo = @ \ {f}, !.payload = payload]
      \/ build' = NoBuild
  <2>1. CASE worktree[f] = build.first.oids[f]
    BY <2>1, BuildFacts DEF Collect, BlobIs
  <2>2. CASE worktree[f] # build.first.oids[f]
    BY <2>2 DEF Collect, BlobIs
  <2> QED BY <2>1, <2>2
<1> HIDE DEF payload
<1>4. payload \in Trees /\ BuildIs(NoBuild)
  BY <1>2, NewBuild DEF BuildIs, NoBuild
<1>5. CASE build' = NoBuild
  BY <1>4, <1>5
<1>6. CASE build' = [build EXCEPT !.todo = @ \ {f}, !.payload = payload]
  BY <1>2, <1>6, BuildFacts DEF BuildIs, payload
<1> QED BY <1>3, <1>5, <1>6

LEMMA AfterPackAndAudit ==
  ASSUME ReleaseTypeOK, PackAndAudit
  PROVE  /\ BuildIs(build')
         /\ build' # NoBuild =>
              /\ NoDrift /\ build'.at = "status" /\ build'.second
              /\ build'.first = build.first /\ build'.now = build.now
              /\ build'.todo = build.todo /\ build'.payload = build.payload
              /\ build'.moved = build.moved
<1> HIDE DEF NoDrift
<1> QED BY BuildFacts, NewBuild DEF PackAndAudit, BuildIs, NoBuild, Asking

\* What the developer does counts as a move of the build that runs.
LEMMA AfterMove ==
  ASSUME ReleaseTypeOK, Move
  PROVE  /\ BuildIs(build')
         /\ build.at = "idle" => build' = build
         /\ build.at # "idle" =>
              /\ build'.at = build.at
              /\ build'.second = build.second /\ build'.first = build.first
              /\ build'.now = build.now /\ build'.todo = build.todo
              /\ build'.payload = build.payload
              /\ build'.moved = build.moved + 1
         /\ build'.moved \in {build.moved, build.moved + 1}
  BY BuildFacts DEF Move, BuildIs

Moving == \/ \E f \in Tracked : EditFile(f)
          \/ StageAll \/ CommitStaged \/ CheckOut \/ ResetHead

LEMMA MovedRepository ==
  ASSUME ReleaseTypeOK, Moving
  PROVE  /\ Move
         /\ worktree' \in Trees /\ staged' \in Trees /\ head' \in Trees
         /\ history' \subseteq Trees
<1>1. ASSUME NEW f \in Tracked, EditFile(f)
      PROVE  /\ worktree' \in Trees
             /\ UNCHANGED <<staged, head, history>> /\ Move
  BY <1>1 DEF EditFile, ReleaseTypeOK, Trees
<1>2. CASE \E f \in Tracked : EditFile(f)
  BY <1>1, <1>2 DEF ReleaseTypeOK
<1>3. CASE StageAll
  BY <1>3 DEF StageAll, ReleaseTypeOK
<1>4. CASE CommitStaged
  BY <1>4 DEF CommitStaged, ReleaseTypeOK
<1>5. CASE CheckOut
  BY <1>5 DEF CheckOut, ReleaseTypeOK
<1>6. CASE ResetHead
  BY <1>6 DEF ResetHead, ReleaseTypeOK
<1> QED BY <1>2, <1>3, <1>4, <1>5, <1>6 DEF Moving

\* Who changes what.
Building == \/ AskStatus \/ AskHead \/ AskIndex \/ PackAndAudit \/ BuildFails
            \/ \E f \in Tracked : Collect(f)
Auditing == LookAtArchive \/ OpenArchive \/ Judge

LEMMA ReleaseByStep ==
  ASSUME [ReleaseNext]_releaseVars
  PROVE  StartRelease \/ Building \/ Publish \/ Auditing \/ Moving
         \/ ArchiveByHand \/ UNCHANGED releaseVars
  BY DEF ReleaseNext, Building, Auditing, Moving

LEMMA BuildingKeeps ==
  ASSUME Building
  PROVE  UNCHANGED <<worktree, staged, head, history, moves, output, audit, indexes>>
  BY DEF Building, AskStatus, AskHead, AskIndex, Collect, PackAndAudit, BuildFails,
         repository

LEMMA AuditingKeeps ==
  ASSUME Auditing
  PROVE  UNCHANGED <<worktree, staged, head, history, moves, build, output, indexes>>
  BY DEF Auditing, LookAtArchive, OpenArchive, Judge, repository

LEMMA AfterBuilding ==
  ASSUME ReleaseTypeOK, Building
  PROVE  BuildIs(build') /\ (build'.moved = build.moved \/ build'.moved = 0)
<1>1. BuildIs(NoBuild) /\ NoBuild.moved = 0
  BY NewBuild DEF BuildIs, NoBuild
<1>2. CASE build' = NoBuild
  BY <1>1, <1>2
<1>3. CASE build' # NoBuild
  <2>1. ~BuildFails
    BY <1>3 DEF BuildFails
  <2>2. ASSUME NEW f \in Tracked, Collect(f)
        PROVE  BuildIs(build') /\ build'.moved = build.moved
    BY <1>3, <2>2, AfterCollect
  <2>3. AskIndex => BuildIs(build') /\ build'.moved = build.moved
    BY <1>3, AfterAskIndex, BuildFacts
  <2> QED BY <1>3, <2>1, <2>2, <2>3, AfterAskStatus, AfterAskHead,
             AfterPackAndAudit DEF Building, GoesOn
<1> QED BY <1>2, <1>3

LEMMA BuildType ==
  ASSUME NEW b, BuildIs(b), b.moved \in 0..MaxMoves
  PROVE  b \in [at : {"idle", "collect", "pack"} \cup Asking, second : BOOLEAN,
                first : Snapshots, now : Snapshots, todo : SUBSET Tracked,
                payload : Trees, moved : 0..MaxMoves]
  BY DEF BuildIs

LEMMA StartedBuild ==
  ASSUME StartRelease
  PROVE  /\ BuildIs(build') /\ build'.at = "status" /\ ~build'.second
         /\ build'.moved = 0 /\ indexes' = {staged}
         /\ UNCHANGED <<worktree, staged, head, history, moves, output, audit>>
  BY NewBuild DEF StartRelease, BuildIs, NoBuild, Asking, repository

LEMMA PublishedBuild ==
  ASSUME ReleaseTypeOK, Publish
  PROVE  /\ BuildIs(build') /\ build'.at = "idle" /\ ~build'.second /\ build'.moved = 0
         /\ UNCHANGED <<worktree, staged, head, history, moves, indexes>>
         /\ output' = [archive |-> output'.archive, inode |-> output'.inode,
                       number |-> output.number + 1]
         /\ output'.archive = [commit |-> build.first.commit, files |-> PackedFiles]
         /\ output'.inode \in Inodes /\ output'.number = output.number + 1
         /\ output.archive = NoArchive \/ output'.inode # output.inode
         /\ build.at = "pack"
<1> HIDE DEF PackedFiles
<1> QED BY NewBuild DEF Publish, BuildIs, NoBuild, repository

\* What is done to the archive counts for the audit that has read it.
LEMMA PublishedAudit ==
  ASSUME ReleaseTypeOK, Publish
  PROVE  /\ AuditIs(audit') /\ audit'.at = audit.at /\ audit'.inode = audit.inode
         /\ audit'.archive = audit.archive /\ audit'.byHand = audit.byHand
         /\ audit'.replaced = IF audit.at = "judge" THEN audit.replaced + 1
                              ELSE audit.replaced
<1>1. audit' = IF audit.at = "judge" THEN [audit EXCEPT !.replaced = @ + 1] ELSE audit
  BY DEF Publish
<1> QED BY <1>1, OutputFacts DEF AuditIs

LEMMA HandledArchive ==
  ASSUME ReleaseTypeOK, ArchiveByHand
  PROVE  /\ output'.archive \in Archives \cup {NoArchive}
         /\ output'.inode = output.inode /\ output'.number = output.number
         /\ output' = [archive |-> output'.archive, inode |-> output'.inode,
                       number |-> output'.number]
         /\ AuditIs(audit') /\ audit'.at = audit.at
         /\ audit'.replaced = audit.replaced
         /\ audit.at = "judge" => audit'.byHand
         /\ moves' = moves + 1 /\ moves < MaxMoves
         /\ UNCHANGED <<worktree, staged, head, history, build, indexes>>
<1>1. PICK a \in {NoArchive} \cup {ReleaseOf(c) : c \in history} :
        output' = [output EXCEPT !.archive = a]
    BY DEF ArchiveByHand
<1>2. a \in Archives \cup {NoArchive}
  BY ReleaseOfType DEF ReleaseTypeOK
<1>3. audit' = IF audit.at = "judge" THEN [audit EXCEPT !.byHand = TRUE] ELSE audit
  BY DEF ArchiveByHand
<1>4. /\ AuditIs(audit') /\ audit'.at = audit.at /\ audit'.replaced = audit.replaced
      /\ audit.at = "judge" => audit'.byHand
  BY <1>3, OutputFacts DEF AuditIs
<1>5. /\ moves' = moves + 1 /\ moves < MaxMoves
      /\ UNCHANGED <<worktree, staged, head, history, build, indexes>>
  BY DEF ArchiveByHand
<1> QED BY <1>1, <1>2, <1>4, <1>5, OutputFacts

LEMMA AuditTypes ==
  ASSUME ReleaseTypeOK, Auditing
  PROVE  /\ AuditIs(audit')
         /\ audit'.replaced = 0 \/ audit'.replaced = audit.replaced
<1>1. AuditIs(NoAudit) /\ NoAudit.replaced = 0
  BY NoAuditFacts
<1>2. CASE LookAtArchive
  <2>1. audit' = [NoAudit EXCEPT !.at = "open", !.inode = output.inode]
    BY <1>2 DEF LookAtArchive
  <2> QED BY <1>1, <2>1, OutputFacts DEF AuditIs
<1>3. CASE OpenArchive
  <2>1. \/ audit' = [audit EXCEPT !.at = "judge", !.archive = output.archive]
        \/ audit' = NoAudit
    BY <1>3 DEF OpenArchive
  <2> QED BY <1>1, <2>1, OutputFacts DEF AuditIs
<1>4. CASE Judge
  <2>1. audit' = [NoAudit EXCEPT !.ok = StillThere(audit.inode)]
    BY <1>4 DEF Judge
  <2>2. StillThere(audit.inode) \in BOOLEAN
    BY DEF StillThere
  <2> QED BY <1>1, <2>1, <2>2 DEF AuditIs
<1> QED BY <1>2, <1>3, <1>4 DEF Auditing

LEMMA AuditType ==
  ASSUME NEW a, AuditIs(a), a.replaced \in 0..MaxBuilds
  PROVE  a \in [at : {"idle", "open", "judge"}, inode : Inodes,
                archive : Archives \cup {NoArchive}, ok : BOOLEAN,
                replaced : 0..MaxBuilds, byHand : BOOLEAN]
  BY DEF AuditIs

LEMMA ReleaseTypes ==
  ASSUME ReleaseTypeOK, PackInv, AuditInv, [ReleaseNext]_releaseVars
  PROVE  ReleaseTypeOK'
<1>1. CASE StartRelease
  <2>1. 0 \in 0..MaxMoves /\ indexes' \subseteq Trees
    BY <1>1, StartedBuild, BuildFacts, ReleaseAssumption
  <2> QED BY <1>1, <2>1, StartedBuild, BuildType DEF ReleaseTypeOK
<1>2. CASE Building
  <2>1. build'.moved \in 0..MaxMoves
    BY <1>2, AfterBuilding, BuildFacts, ReleaseAssumption DEF ReleaseTypeOK
  <2> QED BY <1>2, <2>1, AfterBuilding, BuildingKeeps, BuildType DEF ReleaseTypeOK
<1>3. CASE Publish
  <2>1. 0 \in 0..MaxMoves /\ output.number + 1 \in 0..MaxBuilds
    BY <1>3, PublishedBuild, OutputFacts, BuildFacts, ReleaseAssumption DEF PackInv
  <2>2. output'.archive \in Archives
    BY <1>3, PublishedBuild, PackedType, BuildFacts, SnapshotFacts DEF Archives
  <2>3. output' \in [archive : Archives \cup {NoArchive}, inode : Inodes,
                      number : 0..MaxBuilds]
    <3>1. output' = [archive |-> output'.archive, inode |-> output'.inode,
                     number |-> output.number + 1]
          /\ output'.inode \in Inodes
      BY <1>3, PublishedBuild
    <3> QED BY <2>1, <2>2, <3>1
  <2>4. audit'.replaced \in 0..MaxBuilds
    BY <1>3, <2>1, PublishedAudit, OutputFacts DEF AuditInv
  <2> QED BY <1>3, <2>1, <2>3, <2>4, PublishedBuild, PublishedAudit, BuildType, AuditType
          DEF ReleaseTypeOK
<1>4. CASE Auditing
  <2>1. audit'.replaced \in 0..MaxBuilds
    BY <1>4, AuditTypes, OutputFacts
  <2> QED BY <1>4, <2>1, AuditingKeeps, AuditTypes, AuditType DEF ReleaseTypeOK
<1>5. CASE Moving
  <2>1. Move
    BY <1>5, MovedRepository
  <2>2. moves' \in 0..MaxMoves /\ build'.moved \in 0..MaxMoves
    BY <2>1, AfterMove, BuildFacts DEF Move, ReleaseTypeOK, PackInv
  <2>3. UNCHANGED <<output, audit>> /\ indexes' \subseteq Trees
    BY <1>5, <2>1, MovedRepository DEF Move, ReleaseTypeOK
  <2> QED BY <1>5, <2>1, <2>2, <2>3, MovedRepository, AfterMove, BuildType
          DEF ReleaseTypeOK
<1>6. CASE ArchiveByHand
  <2>1. moves' \in 0..MaxMoves /\ audit'.replaced \in 0..MaxBuilds
    BY <1>6, HandledArchive, BuildFacts, OutputFacts
  <2>2. output' \in [archive : Archives \cup {NoArchive}, inode : Inodes,
                      number : 0..MaxBuilds]
    BY <1>6, HandledArchive, OutputFacts
  <2> QED BY <1>6, <2>1, <2>2, HandledArchive, AuditType DEF ReleaseTypeOK
<1>7. CASE UNCHANGED releaseVars
  BY <1>7 DEF releaseVars, ReleaseTypeOK
<1> QED BY <1>1, <1>2, <1>3, <1>4, <1>5, <1>6, <1>7, ReleaseByStep

LEMMA EndedBuildIsPacked ==
  ASSUME ReleaseTypeOK, build' = NoBuild, UNCHANGED moves
  PROVE  PackInv' /\ LookInv'
  BY NewBuild, BuildFacts DEF PackInv, LookInv

LEMMA ReleaseKeepsPackInv ==
  ASSUME ReleaseTypeOK, PackInv, [ReleaseNext]_releaseVars
  PROVE  PackInv'
<1>1. CASE StartRelease
  <2>1. output.number < MaxBuilds /\ staged \in {staged}
    BY <1>1 DEF StartRelease
  <2> QED BY <1>1, <2>1, StartedBuild, BuildFacts DEF PackInv
<1>2. CASE Building
  <2>1. UNCHANGED <<worktree, staged, head, history, moves, output, audit, indexes>>
    BY <1>2, BuildingKeeps
  <2>2. CASE build' = NoBuild
    BY <2>1, <2>2, EndedBuildIsPacked
  <2>3. CASE AskStatus /\ build' # NoBuild
    <3>1. build.at = "status"
      BY <2>3 DEF AskStatus
    <3>2. NoDrift' <=> NoDrift
      BY <2>3, AfterAskStatus DEF NoDrift, GoesOn
    <3> QED BY <2>1, <2>3, <3>1, <3>2, AfterAskStatus DEF PackInv, GoesOn
  <2>4. CASE AskHead
    <3>1. build.at = "head"
      BY <2>4 DEF AskHead
    <3>2. NoDrift' <=> NoDrift
      BY <2>4, AfterAskHead DEF NoDrift
    <3> QED BY <2>1, <2>4, <3>1, <3>2, AfterAskHead DEF PackInv
  <2>5. CASE AskIndex /\ build' # NoBuild
    <3>1. build.at = "index"
      BY <2>5 DEF AskIndex
    <3>2. NoDrift' <=> NoDrift
      BY <2>5, AfterAskIndex, BuildFacts DEF NoDrift
    <3>3. CASE build.second
      BY <2>1, <2>5, <3>1, <3>2, <3>3, AfterAskIndex DEF PackInv
    <3>4. CASE ~build.second
      BY <2>1, <2>5, <3>1, <3>2, <3>4, AfterAskIndex DEF PackInv
    <3> QED BY <3>3, <3>4
  <2>6. ASSUME NEW f \in Tracked, Collect(f), build' # NoBuild PROVE PackInv'
    <3>1. build.at = "collect" /\ f \in build.todo
      BY <2>6 DEF Collect
    <3>2. ~build.second
      BY <3>1 DEF PackInv
    <3>3. build.payload \in [Tracked -> Blobs]
      BY BuildFacts DEF Trees
    <3>4. /\ build'.first = build.first /\ build'.todo = build.todo \ {f}
          /\ build'.payload = [build.payload EXCEPT ![f] = build.first.oids[f]]
      BY <2>6, AfterCollect
    <3>5. \A g \in Tracked \ build.todo : build.payload[g] = build.first.oids[g]
      BY <3>1 DEF PackInv
    <3>6. \A g \in Tracked \ build'.todo : build'.payload[g] = build'.first.oids[g]
      BY <3>3, <3>4, <3>5
    <3> QED BY <2>1, <2>6, <3>1, <3>2, <3>6, AfterCollect DEF PackInv
  <2>7. CASE PackAndAudit /\ build' # NoBuild
    <3>1. build.at = "collect" /\ build.todo = {}
      BY <2>7 DEF PackAndAudit
    <3>2. NoDrift'
      BY <2>7, AfterPackAndAudit DEF NoDrift
    <3> QED BY <2>1, <2>7, <3>1, <3>2, AfterPackAndAudit DEF PackInv
  <2> QED BY <1>2, <2>2, <2>3, <2>4, <2>5, <2>6, <2>7 DEF Building, BuildFails
<1>3. CASE Publish
  BY <1>3, PublishedBuild, BuildFacts DEF PackInv
<1>4. CASE Auditing
  <2>1. UNCHANGED <<staged, moves, build, output, indexes>>
    BY <1>4, AuditingKeeps
  <2> QED BY <2>1 DEF PackInv, NoDrift
<1>5. CASE Moving
  <2>1. Move
    BY <1>5, MovedRepository
  <2>2. /\ moves' = moves + 1 /\ UNCHANGED output
        /\ build.at = "idle" => indexes' = indexes
        /\ build.at # "idle" => indexes' = indexes \cup {staged'}
    BY <2>1 DEF Move
  <2>3. NoDrift' <=> NoDrift
    BY <2>1, AfterMove DEF NoDrift
  <2>4. build'.moved <= moves'
    BY <2>1, <2>2, AfterMove, BuildFacts DEF PackInv
  <2>5. /\ build'.at = build.at /\ build'.second = build.second
        /\ build'.first = build.first /\ build'.todo = build.todo
        /\ build'.payload = build.payload
    BY <2>1, AfterMove
  <2>6. indexes \subseteq indexes' /\ (build.at # "idle" => staged' \in indexes')
    BY <2>2
  <2>7. output'.number = output.number
    BY <2>2
  <2> HIDE DEF NoDrift
  <2> QED BY <2>3, <2>4, <2>5, <2>6, <2>7 DEF PackInv
<1>6. CASE ArchiveByHand
  BY <1>6, HandledArchive, BuildFacts DEF PackInv, NoDrift
<1>7. CASE UNCHANGED releaseVars
  BY <1>7 DEF releaseVars, PackInv, NoDrift
<1> QED BY <1>1, <1>2, <1>3, <1>4, <1>5, <1>6, <1>7, ReleaseByStep

LEMMA ReleaseKeepsLookInv ==
  ASSUME ReleaseTypeOK, PackInv, LookInv, [ReleaseNext]_releaseVars
  PROVE  LookInv'
<1>1. CASE StartRelease
  BY <1>1, StartedBuild DEF LookInv
<1>2. CASE Building
  <2>1. UNCHANGED <<worktree, staged, head, history, moves, output, audit, indexes>>
    BY <1>2, BuildingKeeps
  <2>2. Tidy' <=> Tidy
    BY <2>1 DEF Tidy
  <2>3. build.moved \in Nat /\ build.second \in BOOLEAN
    BY BuildFacts
  <2>4. CASE build' = NoBuild
    BY <2>1, <2>4, EndedBuildIsPacked
  <2>5. CASE AskStatus /\ build' # NoBuild
    <3>1. build.at = "status" /\ Tidy
      BY <2>5, AfterAskStatus DEF AskStatus
    <3>2. GoesOn("head")
      BY <2>5, AfterAskStatus
    <3> QED BY <2>1, <2>2, <2>3, <3>1, <3>2 DEF LookInv, GoesOn
  <2>6. CASE AskHead
    <3>1. build.at = "head"
      BY <2>6 DEF AskHead
    <3>2. Tidy => staged = head
      BY DEF Tidy
    <3> QED BY <2>1, <2>2, <2>3, <2>6, <3>1, <3>2, AfterAskHead DEF LookInv
  <2>7. CASE AskIndex /\ build' # NoBuild
    <3>1. build.at = "index"
      BY <2>7 DEF AskIndex
    <3>2. Tidy => staged = head
      BY DEF Tidy
    <3>3. CASE build.second
      BY <2>1, <2>3, <2>7, <3>1, <3>3, AfterAskIndex DEF LookInv
    <3>4. CASE ~build.second
      BY <2>1, <2>2, <2>3, <2>7, <3>1, <3>2, <3>4, AfterAskIndex DEF LookInv
    <3> QED BY <2>3, <3>3, <3>4
  <2>8. ASSUME NEW f \in Tracked, Collect(f), build' # NoBuild PROVE LookInv'
    <3>1. build.at = "collect"
      BY <2>8 DEF Collect
    <3>2. /\ build'.at = "collect" /\ build'.first = build.first
          /\ build'.now = build.now /\ build'.moved = build.moved
      BY <2>8, <3>1, AfterCollect
    <3> QED BY <2>1, <2>2, <3>1, <3>2 DEF LookInv
  <2>9. CASE PackAndAudit /\ build' # NoBuild
    <3>1. build.at = "collect"
      BY <2>9 DEF PackAndAudit
    <3> QED BY <2>1, <2>2, <2>9, <3>1, AfterPackAndAudit DEF LookInv
  <2> QED BY <1>2, <2>4, <2>5, <2>6, <2>7, <2>8, <2>9 DEF Building, BuildFails
<1>3. CASE Publish
  BY <1>3, PublishedBuild DEF LookInv
<1>4. CASE Auditing
  <2>1. UNCHANGED <<worktree, staged, head, build>>
    BY <1>4, AuditingKeeps
  <2> QED BY <2>1 DEF LookInv, Tidy
<1>5. CASE Moving
  <2>1. Move
    BY <1>5, MovedRepository
  <2>2. build.moved \in Nat
    BY BuildFacts
  <2>3. CASE build.at = "idle"
    <3>1. build'.at = "idle"
      BY <2>1, <2>3, AfterMove
    <3> QED BY <3>1 DEF LookInv
  <2>4. CASE build.at # "idle"
    <3>1. /\ build'.at = build.at /\ build'.second = build.second
          /\ build'.first = build.first /\ build'.now = build.now
          /\ build'.moved = build.moved + 1
      BY <2>1, <2>4, AfterMove
    <3> QED BY <2>1, <2>2, <3>1 DEF LookInv
  <2> QED BY <2>3, <2>4
<1>6. CASE ArchiveByHand
  BY <1>6, HandledArchive DEF LookInv, Tidy
<1>7. CASE UNCHANGED releaseVars
  BY <1>7 DEF releaseVars, LookInv, Tidy
<1> QED BY <1>1, <1>2, <1>3, <1>4, <1>5, <1>6, <1>7, ReleaseByStep

LEMMA ReleaseKeepsAuditInv ==
  ASSUME ReleaseTypeOK, AuditInv, [ReleaseNext]_releaseVars
  PROVE  AuditInv'
<1>1. CASE StartRelease \/ Building \/ Moving
  <2>1. UNCHANGED <<output, audit>>
    BY <1>1, StartedBuild, BuildingKeeps, MovedRepository DEF Move
  <2> QED BY <2>1 DEF AuditInv
<1>2. CASE Publish
  BY <1>2, PublishedBuild, PublishedAudit, OutputFacts DEF AuditInv
<1>3. CASE Auditing
  <2>1. output' = output
    BY <1>3, AuditingKeeps
  <2>2. CASE LookAtArchive
    <3>1. audit'.at = "open" /\ audit'.replaced = 0
      BY <2>2, NoAuditFacts DEF LookAtArchive, AuditIs
    <3> QED BY <2>1, <3>1, OutputFacts DEF AuditInv
  <2>3. CASE OpenArchive
    <3>1. CASE output.archive # NoArchive /\ output.inode = audit.inode
      <4>1. /\ audit'.inode = audit.inode /\ audit'.archive = output.archive
            /\ audit'.replaced = audit.replaced
        BY <2>3, <3>1, OutputFacts DEF OpenArchive
      <4>2. audit.replaced = 0
        BY <2>3 DEF OpenArchive, AuditInv
      <4> QED BY <2>1, <3>1, <4>1, <4>2, OutputFacts DEF AuditInv
    <3>2. CASE ~(output.archive # NoArchive /\ output.inode = audit.inode)
      <4>1. audit'.at = "idle" /\ audit'.replaced = 0
        BY <2>3, <3>2, NoAuditFacts DEF OpenArchive
      <4> QED BY <2>1, <4>1, OutputFacts DEF AuditInv
    <3> QED BY <3>1, <3>2
  <2>4. CASE Judge
    <3>1. audit'.at = "idle" /\ audit'.replaced = 0
      BY <2>4, NoAuditFacts DEF Judge, AuditIs
    <3> QED BY <2>1, <3>1, OutputFacts DEF AuditInv
  <2> QED BY <1>3, <2>2, <2>3, <2>4 DEF Auditing
<1>4. CASE ArchiveByHand
  BY <1>4, HandledArchive DEF AuditInv
<1>5. CASE UNCHANGED releaseVars
  BY <1>5 DEF releaseVars, AuditInv
<1> QED BY <1>1, <1>2, <1>3, <1>4, <1>5, ReleaseByStep

\* The invariant of the build and the audit is inductive.
THEOREM ReleaseInductive == ReleaseSpec => []ReleaseInv
<1>1. ReleaseInit => ReleaseInv
  <2> SUFFICES ASSUME ReleaseInit PROVE ReleaseInv
    OBVIOUS
  <2>1. /\ BuildIs(build) /\ build.at = "idle" /\ ~build.second /\ build.moved = 0
        /\ moves = 0 /\ indexes = {}
    BY NewBuild DEF ReleaseInit, BuildIs, NoBuild
  <2>2. 0 \in 0..MaxMoves /\ 0 \in 0..MaxBuilds
    BY ReleaseAssumption
  <2>3. worktree \in Trees /\ staged \in Trees /\ head \in Trees /\ history \subseteq Trees
    BY DEF ReleaseInit
  <2>4. AuditIs(audit) /\ audit.at = "idle" /\ audit.replaced = 0
    BY NoAuditFacts DEF ReleaseInit
  <2>5. PICK a \in {NoArchive} \cup {ReleaseOf(c) : c \in history} :
          output = [archive |-> a, inode |-> CHOOSE i \in Inodes : TRUE, number |-> 0]
    BY DEF ReleaseInit
  <2>6. a \in Archives \cup {NoArchive} /\ (CHOOSE i \in Inodes : TRUE) \in Inodes
    BY <2>3, ReleaseOfType, ReleaseAssumption
  <2>7. output \in [archive : Archives \cup {NoArchive}, inode : Inodes,
                     number : 0..MaxBuilds] /\ output.number = 0
    BY <2>2, <2>5, <2>6
  <2>8. ReleaseTypeOK
    BY <2>1, <2>2, <2>3, <2>4, <2>7, BuildType, AuditType DEF ReleaseTypeOK
  <2>9. PackInv /\ LookInv /\ AuditInv
    BY <2>1, <2>4, <2>7 DEF PackInv, LookInv, AuditInv
  <2> QED BY <2>8, <2>9 DEF ReleaseInv
<1>2. ReleaseInv /\ [ReleaseNext]_releaseVars => ReleaseInv'
  BY ReleaseTypes, ReleaseKeepsPackInv, ReleaseKeepsLookInv, ReleaseKeepsAuditInv
  DEF ReleaseInv
<1> QED BY <1>1, <1>2, PTL DEF ReleaseSpec

LEMMA PublishedIsOneCommit ==
  ASSUME ReleaseTypeOK, PackInv, LookInv, Publish
  PROVE  LET packed == output'.archive.files
         IN /\ \E t \in indexes : \A f \in Tracked : packed[f] = t[f]
            /\ \A d \in DOMAIN OverlayOf : packed[d] = packed[OverlayOf[d]]
            /\ build.moved <= 1 =>
                 \A f \in Tracked : packed[f] = output'.archive.commit[f]
<1> DEFINE packed == output'.archive.files
<1>1. /\ build.at = "pack" /\ packed = PackedFiles
      /\ output'.archive.commit = build.first.commit
  BY PublishedBuild
<1>2. /\ build.first.oids \in indexes /\ build.todo = {} /\ NoDrift
      /\ \A f \in Tracked : build.payload[f] = build.first.oids[f]
  BY <1>1 DEF PackInv
<1>3. \A f \in Tracked : PackedFiles[f] = build.payload[f]
  BY DEF PackedFiles, Names
<1>4. \A d \in DOMAIN OverlayOf : PackedFiles[d] = build.payload[OverlayOf[d]]
  BY <1>2 DEF PackedFiles, Names, NoDrift
<1>5. \A d \in DOMAIN OverlayOf : OverlayOf[d] \in Tracked
  BY ReleaseAssumption
<1>6. build.first.commit = build.first.oids \/ build.moved >= 2
  BY <1>1 DEF LookInv
<1>7. build.moved \in Nat
  BY BuildFacts
<1> HIDE DEF packed, PackedFiles
<1>8. \E t \in indexes : \A f \in Tracked : packed[f] = t[f]
  BY <1>1, <1>2, <1>3
<1>9. \A d \in DOMAIN OverlayOf : packed[d] = packed[OverlayOf[d]]
  BY <1>1, <1>3, <1>4, <1>5
<1>10. build.moved <= 1 => \A f \in Tracked : packed[f] = output'.archive.commit[f]
  <2>1. build.moved <= 1 => build.first.commit = build.first.oids
    BY <1>6, <1>7
  <2> QED BY <1>1, <1>2, <1>3, <2>1
<1> QED BY <1>8, <1>9, <1>10 DEF packed

\* The archive that build_public_artifact puts in place has the files of one index,
\* overlays included, and with fewer than two moves of the developer those of the
\* commit that it names, whatever the files are and however many builds there were.
THEOREM ArchivesAreOneCommit == ReleaseSpec => ArchiveIsOneCommit
<1>1. ReleaseInv /\ [ReleaseNext]_releaseVars =>
        [Publish =>
           LET packed == output'.archive.files
           IN /\ \E t \in indexes : \A f \in Tracked : packed[f] = t[f]
              /\ \A d \in DOMAIN OverlayOf : packed[d] = packed[OverlayOf[d]]
              /\ build.moved <= 1 =>
                   \A f \in Tracked : packed[f] = output'.archive.commit[f]]_releaseVars
  BY PublishedIsOneCommit DEF ReleaseInv
<1> QED BY <1>1, ReleaseInductive, PTL DEF ReleaseSpec, ArchiveIsOneCommit

\* What audit_artifact calls good is the archive that is in place when it says so,
\* though it compares no more than inodes, which are used again: unless two builds
\* have replaced it since it was read, or somebody wrote into it or deleted it.
THEOREM AuditsAreOfTheArchive == ReleaseSpec => AuditedIsInPlace
<1>1. ReleaseInv /\ [ReleaseNext]_releaseVars =>
        [Judge /\ audit'.ok =>
           \/ audit.archive = output.archive
           \/ audit.replaced >= 2 \/ audit.byHand]_releaseVars
  <2> SUFFICES ASSUME ReleaseInv, Judge, audit'.ok, ~audit.byHand,
                      ~(audit.replaced >= 2)
               PROVE  audit.archive = output.archive
    OBVIOUS
  <2>1. audit' = [NoAudit EXCEPT !.ok = StillThere(audit.inode)] /\ audit.at = "judge"
    BY DEF Judge
  <2>2. StillThere(audit.inode)
    BY <2>1, NoAuditFacts DEF AuditIs
  <2>3. output.inode = audit.inode
    BY <2>2 DEF StillThere
  <2>4. audit.replaced \in {0, 1}
    BY OutputFacts DEF ReleaseInv
  <2> QED BY <2>1, <2>3, <2>4 DEF ReleaseInv, AuditInv
<1> QED BY <1>1, ReleaseInductive, PTL DEF ReleaseSpec, AuditedIsInPlace

-----------------------------------------------------------------------------
(***************************************************************************)
(* The provenance ledgers                                                  *)
(***************************************************************************)
LEMMA LedgerFacts ==
  ASSUME LedgersTypeOK
  PROVE  /\ today \in Nat /\ LastDay \in Nat /\ 0 \in Days
         /\ sources \in [Sources -> Records \cup {Unlisted}] /\ Unlisted \notin Records
         /\ claim \in Claims \cup {NoClaim} /\ NoClaim \notin Claims
         /\ fileBytes \in [FileOrigins -> {Bytes(s) : s \in Sources} \cup {NoBytes}]
         /\ present \subseteq {"sources", "claims"} /\ checked \in Days
  BY LedgersAssumption DEF LedgersTypeOK, Days

LEMMA RecordFacts ==
  ASSUME NEW r \in Records
  PROVE  r.observed \in Nat /\ r.due \in Nat /\ r.active \in BOOLEAN
  BY LedgersAssumption DEF Records, Days

LEMMA MigratedType == Migrated \in [Sources -> Records \cup {Unlisted}]
<1>1. [publisher |-> NoPublisher, observed |-> 0, due |-> LastDay,
       active |-> FALSE] \in Records
  BY LedgersAssumption DEF Records, Days
<1> QED BY <1>1 DEF Migrated

\* What a bundle commits has the types of ledgers.
LEMMA CommitTypes ==
  ASSUME LedgersTypeOK,
         NEW ledger \in [Sources -> Records \cup {Unlisted}],
         NEW c \in Claims \cup {NoClaim},
         NEW bytes \in [FileOrigins -> {Bytes(s) : s \in Sources} \cup {NoBytes}],
         Commit(ledger, c, bytes), present' \subseteq {"sources", "claims"}
  PROVE  LedgersTypeOK'
<1> HIDE DEF PairValid
<1> QED BY DEF Commit, LedgersTypeOK

LEMMA LedgersTypes ==
  ASSUME LedgersTypeOK, [LedgersNext]_ledgerVars
  PROVE  LedgersTypeOK'
<1>1. ASSUME NEW s \in Sources, NEW r \in Records, RecordSource(s, r)
      PROVE  LedgersTypeOK'
  <2> DEFINE ledger == [sources EXCEPT ![s] = r]
             bytes  == IF Origin(s) \in FileOrigins /\ fileBytes[Origin(s)] = NoBytes
                       THEN [fileBytes EXCEPT ![Origin(s)] = Bytes(s)] ELSE fileBytes
  <2>1. Commit(ledger, claim, bytes) /\ present' = present \cup {"sources"}
    BY <1>1 DEF RecordSource
  <2>2. ledger \in [Sources -> Records \cup {Unlisted}]
    BY LedgerFacts
  <2>3. bytes \in [FileOrigins -> {Bytes(t) : t \in Sources} \cup {NoBytes}]
    BY LedgerFacts
  <2>4. present' \subseteq {"sources", "claims"}
    BY <2>1, LedgerFacts
  <2> HIDE DEF ledger, bytes
  <2> QED BY <2>1, <2>2, <2>3, <2>4, CommitTypes, LedgerFacts
<1>2. ASSUME NEW c \in Claims, RecordClaim(c) PROVE LedgersTypeOK'
  BY <1>2, CommitTypes, LedgerFacts DEF RecordClaim
<1>3. CASE Migrate
  <2>1. AfterMigration \in [Sources -> Records \cup {Unlisted}]
    BY MigratedType, LedgerFacts DEF AfterMigration
  <2> QED BY <1>3, <2>1, CommitTypes, LedgerFacts DEF Migrate
<1>4. CASE DayPasses
  BY <1>4, LedgerFacts DEF DayPasses, LedgersTypeOK, Days
<1>5. ASSUME NEW o \in FileOrigins, NEW b \in {Bytes(s) : s \in Sources} \cup {NoBytes},
             EditSource(o, b)
      PROVE  LedgersTypeOK'
  BY <1>5 DEF EditSource, LedgersTypeOK
<1>6. CASE LoseSources
  BY <1>6 DEF LoseSources, LedgersTypeOK
<1>7. CASE UNCHANGED ledgerVars
  BY <1>7 DEF ledgerVars, LedgersTypeOK
<1> QED BY <1>1, <1>2, <1>3, <1>4, <1>5, <1>6, <1>7 DEF LedgersNext

\* The ledgers have their types.
THEOREM LedgersTypeCorrect == LedgersSpec => []LedgersTypeOK
<1>1. LedgersInit => LedgersTypeOK
  BY LedgersAssumption DEF LedgersInit, LedgersTypeOK, Days
<1>2. LedgersTypeOK /\ [LedgersNext]_ledgerVars => LedgersTypeOK'
  BY LedgersTypes
<1> QED BY <1>1, <1>2, PTL DEF LedgersSpec

\* A source that is due on neither of two days is as fresh on the one as on the other.
LEMMA NotDueStaysFresh ==
  ASSUME NEW r \in Records, NEW day \in Nat, r.observed <= day, r.due # day
  PROVE  Stale(r, day) <=> Stale(r, day + 1)
  BY RecordFacts DEF Stale

LEMMA ADayKeepsSupport ==
  ASSUME LedgersTypeOK, claim # NoClaim, ClaimValid(claim, sources, today),
         SourcesValid(sources, fileBytes, today),
         \A s \in Supporters : sources[s].due # today
  PROVE  FreshSupport(sources, claim, today + 1) = FreshSupport(sources, claim, today)
<1>1. ASSUME NEW s \in Supporters
      PROVE  Stale(sources[s], today) <=> Stale(sources[s], today + 1)
  <2>1. s \in Sources /\ sources[s] # Unlisted
    <3>1. claim.support \in Seq(Sources)
      BY LedgerFacts, LedgersAssumption DEF Claims
    <3>2. PICK i \in DOMAIN claim.support : s = claim.support[i]
      BY DEF Supporters
    <3> QED BY <3>1, <3>2 DEF ClaimValid
  <2>2. sources[s] \in Records /\ today \in Nat
    BY <2>1, LedgerFacts
  <2>3. sources[s].observed <= today /\ sources[s].due # today
    BY <2>1 DEF SourcesValid, SourceValid
  <2> QED BY <2>2, <2>3, NotDueStaysFresh
<1> QED BY <1>1 DEF FreshSupport, Supporters

LEMMA ADayKeepsThePair ==
  ASSUME LedgersTypeOK, PairValid(sources, claim, fileBytes, today),
         \A s \in Supporters : sources[s].due # today
  PROVE  PairValid(sources, claim, fileBytes, today + 1)
<1>1. SourcesValid(sources, fileBytes, today + 1)
  <2> SUFFICES ASSUME NEW s \in Sources, sources[s] # Unlisted
               PROVE  SourceValid(s, sources[s], fileBytes, today + 1)
    BY DEF SourcesValid
  <2>1. SourceValid(s, sources[s], fileBytes, today)
    BY DEF PairValid, SourcesValid
  <2>2. sources[s].observed \in Nat /\ today \in Nat
    BY LedgerFacts, RecordFacts
  <2>3. sources[s].observed <= today + 1
    BY <2>1, <2>2 DEF SourceValid
  <2> QED BY <2>1, <2>3 DEF SourceValid
<1>2. ASSUME claim # NoClaim PROVE ClaimValid(claim, sources, today + 1)
  <2>1. ClaimValid(claim, sources, today)
    BY <1>2 DEF PairValid
  <2>2. FreshSupport(sources, claim, today + 1) = FreshSupport(sources, claim, today)
    BY <1>2, <2>1, ADayKeepsSupport DEF PairValid
  <2>3. claim.reviewed \in Nat /\ today \in Nat
    BY <1>2, LedgerFacts, LedgersAssumption DEF Claims, Days
  <2>4. claim.reviewed <= today + 1
    BY <2>1, <2>3 DEF ClaimValid
  <2> HIDE DEF FreshSupport
  <2> QED BY <2>1, <2>2, <2>4 DEF ClaimValid
<1> QED BY <1>1, <1>2 DEF PairValid

\* Time alone takes the ledgers of claude_obsidian/ledgers.py their validity only
\* when a day has passed on which the refresh of a supporting source was due.
THEOREM TimeExpiresOnlyWhenDue == LedgersSpec => ExpiresOnlyWhenDue
<1>1. LedgersTypeOK /\ [LedgersNext]_ledgerVars =>
        [today' > today /\ "sources" \in present =>
           \/ PairValid(sources, claim, fileBytes, today')
           \/ ~PairValid(sources, claim, fileBytes, today)
           \/ \E s \in Supporters : sources[s].due = today]_ledgerVars
  <2> SUFFICES ASSUME LedgersTypeOK, LedgersNext, today' > today,
                      PairValid(sources, claim, fileBytes, today),
                      ~\E s \in Supporters : sources[s].due = today
               PROVE  PairValid(sources, claim, fileBytes, today')
    OBVIOUS
  <2>1. today' = today + 1
    <3>1. today' # today
      BY LedgerFacts
    <3> QED BY <3>1 DEF LedgersNext, RecordSource, RecordClaim, Migrate, Commit,
            DayPasses, EditSource, LoseSources
  <2> QED BY <2>1, ADayKeepsThePair
<1> QED BY <1>1, LedgersTypeCorrect, PTL DEF LedgersSpec, ExpiresOnlyWhenDue

-----------------------------------------------------------------------------
(***************************************************************************)
(* The union-find over evidence.  The library's induction theorems take an *)
(* operator; here a set does, and the least number outside of it.          *)
(***************************************************************************)
\* Induction, of a set.
LEMMA NatSet ==
  ASSUME NEW T, 0 \in T, \A n \in Nat : n \in T => n + 1 \in T
  PROVE  Nat \subseteq T
<1> SUFFICES ASSUME NEW k \in Nat, k \notin T PROVE FALSE
  OBVIOUS
<1> DEFINE Less == OpToRel(<, Nat)
           rest == {n \in Nat : n \notin T}
<1>1. IsWellFoundedOn(Less, Nat)
  BY NatLessThanWellFounded
<1>2. \A m, n \in Nat : m < n => <<m, n>> \in Less
  BY DEF OpToRel
<1> HIDE DEF Less
<1>3. \E n \in rest : \A m \in rest : <<m, n>> \notin Less
  <2>1. rest \subseteq Nat /\ rest # {}
    OBVIOUS
  <2> HIDE DEF rest
  <2> QED BY <1>1, <2>1, WFMin
<1>4. PICK n \in rest : \A m \in rest : <<m, n>> \notin Less
  BY <1>3
<1>5. n # 0 /\ n - 1 \in Nat /\ n - 1 < n
  BY <1>4
<1>6. n - 1 \in T
  BY <1>2, <1>4, <1>5
<1> QED BY <1>4, <1>5, <1>6

LEMMA Interval ==
  ASSUME NEW m \in Int, NEW n \in Int, NEW T,
         m \in T, \A k \in m + 1 .. n : k - 1 \in T => k \in T
  PROVE  m..n \subseteq T
<1> DEFINE reached == {k \in Nat : m + k <= n => m + k \in T}
<1>1. 0 \in reached
  OBVIOUS
<1>2. ASSUME NEW k \in Nat, k \in reached PROVE k + 1 \in reached
  <2> SUFFICES ASSUME m + k + 1 <= n PROVE m + k + 1 \in T
    OBVIOUS
  <2>1. m + k \in T /\ m + k + 1 \in m + 1 .. n
    BY <1>2
  <2> QED BY <2>1
<1> HIDE DEF reached
<1>3. Nat \subseteq reached
  BY <1>1, <1>2, NatSet
<1> USE DEF reached
<1>4. ASSUME NEW j \in m..n PROVE j \in T
  <2>1. j - m \in Nat /\ m + (j - m) = j
    OBVIOUS
  <2> QED BY <1>3, <2>1
<1> QED BY <1>4

\* f is the loop from a over turn, from m to n.
Loops(f, a, turn, m, n) ==
  /\ DOMAIN f = m..n
  /\ f = [k \in m..n |-> f[k]]
  /\ \A k \in m..n : f[k] = IF k = m THEN a ELSE turn[k][f[k - 1]]

\* A loop from m to n has a function that obeys its equation.
LEMMA LoopDefined ==
  ASSUME NEW S, NEW a \in S, NEW m \in Int, NEW n \in Int, m <= n,
         NEW turn \in [Int -> [S -> S]]
  PROVE  \E f \in [m..n -> S] : Loops(f, a, turn, m, n)
<1> DEFINE Done(j) == \E f \in [m..j -> S] : Loops(f, a, turn, m, j)
           done == {j \in Int : Done(j)}
<1>1. m \in done
  <2> DEFINE f == [k \in m..m |-> a]
  <2>1. f \in [m..m -> S] /\ Loops(f, a, turn, m, m)
    BY DEF Loops
  <2> HIDE DEF f
  <2>3. Done(m) BY <2>1
  <2> QED BY <2>3
<1>2. ASSUME NEW j \in m + 1 .. n, j - 1 \in done PROVE j \in done
  <2>0. Done(j - 1)
    BY <1>2
  <2>1. PICK f \in [m..j - 1 -> S] : Loops(f, a, turn, m, j - 1)
    BY <2>0
  <2> DEFINE g == [k \in m..j |-> IF k = j THEN turn[j][f[j - 1]] ELSE f[k]]
  <2>2. g \in [m..j -> S]
    <3>1. j - 1 \in m..j - 1 /\ f[j - 1] \in S
      OBVIOUS
    <3>2. turn[j][f[j - 1]] \in S
      BY <3>1
    <3>3. \A k \in m..j : k # j => f[k] \in S
      OBVIOUS
    <3> QED BY <3>2, <3>3
  <2>3. ASSUME NEW k \in m..j
        PROVE  g[k] = IF k = m THEN a ELSE turn[k][g[k - 1]]
    <3>1. CASE k = j
      <4>1. j # m /\ j - 1 \in m..j /\ j - 1 # j
        OBVIOUS
      <4>2. g[j - 1] = f[j - 1]
        BY <4>1
      <4> QED BY <3>1, <4>1, <4>2
    <3>2. CASE k # j
      <4>1. k \in m..j - 1 /\ g[k] = f[k]
        BY <3>2
      <4>2. f[k] = IF k = m THEN a ELSE turn[k][f[k - 1]]
        BY <2>1, <4>1 DEF Loops
      <4>3. k # m => k - 1 \in m..j /\ k - 1 # j /\ g[k - 1] = f[k - 1]
        BY <4>1
      <4> HIDE DEF g
      <4> QED BY <4>1, <4>2, <4>3
    <3> QED BY <3>1, <3>2
  <2>4. DOMAIN g = m..j /\ g = [k \in m..j |-> g[k]]
    OBVIOUS
  <2> HIDE DEF g
  <2>5. Loops(g, a, turn, m, j)
    BY <2>3, <2>4 DEF Loops
  <2>6. Done(j)
    BY <2>2, <2>5
  <2> HIDE DEF Done
  <2> QED BY <2>6
<1> HIDE DEF done
<1>3. m..n \subseteq done
  BY <1>1, <1>2, Interval
<1> USE DEF done
<1> HIDE DEF Done
<1>4. Done(n)
  BY <1>3
<1> USE DEF Done
<1> QED BY <1>4

-----------------------------------------------------------------------------
\* Places whose parents lead to a root.
Forests(D) == {p \in [D -> D] : \A i \in D : \E r \in Trail(p, i) : p[r] = r}

LEMMA PathFacts ==
  ASSUME NEW D, NEW p \in [D -> D], NEW i \in D
  PROVE  /\ i \in Trail(p, i) /\ Trail(p, i) \subseteq D
         /\ \A j \in Trail(p, i) : p[j] \in Trail(p, i)
<1>1. i \in Trail(p, i) /\ Trail(p, i) \subseteq D
  BY DEF Trail
<1>2. ASSUME NEW j \in Trail(p, i) PROVE p[j] \in Trail(p, i)
  <2>1. j \in D /\ p[j] \in D
    BY <1>1
  <2>2. ASSUME NEW seen \in SUBSET D, i \in seen, \A k \in seen : p[k] \in seen
        PROVE  p[j] \in seen
    BY <2>2 DEF Trail
  <2> QED BY <2>1, <2>2 DEF Trail
<1> QED BY <1>1, <1>2

LEMMA PathLeast ==
  ASSUME NEW D, NEW p \in [D -> D], NEW i \in D,
         NEW seen \in SUBSET D, i \in seen, \A k \in seen : p[k] \in seen
  PROVE  Trail(p, i) \subseteq seen
  BY DEF Trail

\* A path is its first place and the path of the parent.
LEMMA PathGoesOn ==
  ASSUME NEW D, NEW p \in [D -> D], NEW i \in D
  PROVE  /\ Trail(p, i) \subseteq {i} \cup Trail(p, p[i])
         /\ p[i] = i => Trail(p, i) = {i}
<1>1. p[i] \in D
  OBVIOUS
<1>2. Trail(p, i) \subseteq {i} \cup Trail(p, p[i])
  <2> DEFINE seen == {i} \cup Trail(p, p[i])
  <2>1. seen \in SUBSET D /\ i \in seen /\ \A k \in seen : p[k] \in seen
    BY <1>1, PathFacts
  <2> HIDE DEF seen
  <2>2. Trail(p, i) \subseteq seen
    BY <2>1, PathLeast
  <2> QED BY <2>2 DEF seen
<1>3. ASSUME p[i] = i PROVE Trail(p, i) = {i}
  <2> DEFINE seen == {i}
  <2>1. seen \in SUBSET D /\ i \in seen /\ \A k \in seen : p[k] \in seen
    BY <1>3
  <2> HIDE DEF seen
  <2>2. Trail(p, i) \subseteq seen
    BY <2>1, PathLeast
  <2> QED BY <2>2, PathFacts DEF seen
<1> QED BY <1>2, <1>3

\* No path has two roots.
LEMMA OneRoot ==
  ASSUME NEW D, NEW p \in [D -> D], NEW i \in D,
         NEW r \in Trail(p, i), p[r] = r, NEW s \in Trail(p, i), p[s] = s
  PROVE  r = s
<1> DEFINE seen == {k \in D : r \in Trail(p, k)}
<1>1. r \in D /\ s \in D
  BY PathFacts
<1>2. ASSUME NEW k \in seen PROVE p[k] \in seen
  <2>0. k \in D /\ p[k] \in D /\ r \in Trail(p, k)
    BY <1>2
  <2>1. CASE k = r
    BY <2>0, <2>1
  <2>2. CASE k # r
    BY <2>0, <2>2, PathGoesOn
  <2> QED BY <2>1, <2>2
<1>3. seen \in SUBSET D /\ i \in seen
  OBVIOUS
<1> HIDE DEF seen
<1>4. s \in seen
  BY <1>2, <1>3, PathLeast
<1>5. r \in Trail(p, s)
  BY <1>4 DEF seen
<1> QED BY <1>1, <1>5, PathGoesOn

\* find returns the root of the path, whatever place of it it is asked for.
LEMMA FindFacts ==
  ASSUME NEW D, NEW p \in Forests(D), NEW i \in D
  PROVE  /\ Find(p, i) \in Trail(p, i) /\ Find(p, i) \in D
         /\ p[Find(p, i)] = Find(p, i)
         /\ \A r \in Trail(p, i) : p[r] = r => r = Find(p, i)
<1>1. p \in [D -> D] /\ \E r \in Trail(p, i) : p[r] = r
  BY DEF Forests
<1>2. Find(p, i) \in Trail(p, i) /\ p[Find(p, i)] = Find(p, i)
  BY <1>1 DEF Find
<1>3. Find(p, i) \in D
  BY <1>1, <1>2, PathFacts
<1>4. ASSUME NEW r \in Trail(p, i), p[r] = r PROVE r = Find(p, i)
  BY <1>1, <1>2, <1>4, OneRoot
<1> QED BY <1>2, <1>3, <1>4

\* union hangs the root of r below that of l, and leaves every other group alone.
LEMMA UniteFinds ==
  ASSUME NEW D, NEW p \in Forests(D), NEW l \in D, NEW r \in D
  PROVE  /\ Unite(p, l, r) \in Forests(D)
         /\ \A i \in D : Find(Unite(p, l, r), i) =
              IF Find(p, i) = Find(p, r) THEN Find(p, l) ELSE Find(p, i)
<1> DEFINE q == Unite(p, l, r)
           a == Find(p, l)
           b == Find(p, r)
           root(i) == IF Find(p, i) = b THEN a ELSE Find(p, i)
<1>1. p \in [D -> D] /\ a \in D /\ b \in D /\ p[a] = a /\ p[b] = b
  BY FindFacts DEF Forests
<1>2. q \in [D -> D] /\ q[b] = a /\ \A k \in D : k # b => q[k] = p[k]
  BY <1>1 DEF Unite
<1>3. ASSUME NEW i \in D PROVE q[root(i)] = root(i) /\ root(i) \in D
  BY <1>1, <1>2, FindFacts
<1> HIDE DEF q
<1>4. ASSUME NEW i \in D PROVE root(i) \in Trail(q, i)
  <2> DEFINE c == Find(p, i)
  <2>0. c \in Trail(p, i) /\ c \in D /\ p[c] = c /\ root(i) \in D
    BY FindFacts, <1>3
  <2> SUFFICES ASSUME NEW seen \in SUBSET D, i \in seen, \A k \in seen : q[k] \in seen
               PROVE  root(i) \in seen
    <3>1. DOMAIN q = D
      BY <1>2
    <3> HIDE DEF root
    <3> QED BY <2>0, <3>1 DEF Trail
  <2>1. CASE c = b
    <3>1. b \in seen
      <4> SUFFICES ASSUME b \notin seen PROVE FALSE
        OBVIOUS
      <4>1. \A k \in seen : p[k] \in seen
        BY <1>2
      <4>2. Trail(p, i) \subseteq seen
        BY <1>1, <4>1, PathLeast
      <4> QED BY <2>0, <2>1, <4>2
    <3> QED BY <1>2, <2>1, <3>1
  <2>2. CASE c # b
    <3> DEFINE both == seen \cup {k \in D : b \in Trail(p, k)}
    <3>1. ASSUME NEW k \in both PROVE p[k] \in both
      <4>1. CASE b \in Trail(p, k)
        <5>1. CASE k = b
          BY <5>1, <1>1, PathFacts
        <5>2. CASE k # b
          BY <4>1, <5>2, <1>1, PathGoesOn
        <5> QED BY <5>1, <5>2
      <4>2. CASE b \notin Trail(p, k)
        <5>1. k \in seen /\ k # b
          BY <4>2, <1>1, PathFacts
        <5> QED BY <5>1, <1>2
      <4> QED BY <4>1, <4>2
    <3>2. both \in SUBSET D /\ i \in both
      OBVIOUS
    <3>3. c \in both
      <4> HIDE DEF both, c
      <4> QED BY <1>1, <2>0, <3>1, <3>2, PathLeast
    <3>4. b \notin Trail(p, c)
      BY <1>1, <2>0, <2>2, PathGoesOn
    <3> QED BY <2>2, <3>3, <3>4
  <2> QED BY <2>1, <2>2
<1>5. q \in Forests(D)
  <2> HIDE DEF root
  <2> QED BY <1>2, <1>3, <1>4 DEF Forests
<1>6. ASSUME NEW i \in D PROVE Find(q, i) = root(i)
  <2> HIDE DEF root
  <2> QED BY <1>3, <1>4, <1>5, FindFacts
<1> QED BY <1>5, <1>6 DEF q

-----------------------------------------------------------------------------
\* q has at least the groups of p together that p has.
Merges(D, p, q) ==
  \A i, j \in D : Find(p, i) = Find(p, j) => Find(q, i) = Find(q, j)

\* No group of p reaches out of the places.
Respects(D, p, places) == \A i \in D : i \in places <=> Find(p, i) \in places

LEMMA UniteMerges ==
  ASSUME NEW D, NEW p \in Forests(D), NEW l \in D, NEW r \in D
  PROVE  /\ Merges(D, p, Unite(p, l, r))
         /\ Find(Unite(p, l, r), l) = Find(Unite(p, l, r), r)
         /\ \A places : Respects(D, p, places) /\ (l \in places <=> r \in places)
                          => Respects(D, Unite(p, l, r), places)
<1> DEFINE q == Unite(p, l, r)
<1>1. \A i \in D : Find(q, i) = IF Find(p, i) = Find(p, r) THEN Find(p, l) ELSE Find(p, i)
  BY UniteFinds
<1> HIDE DEF q
<1>2. Merges(D, p, q) /\ Find(q, l) = Find(q, r)
  BY <1>1 DEF Merges
<1>3. ASSUME NEW places, Respects(D, p, places), l \in places <=> r \in places
      PROVE  Respects(D, q, places)
  BY <1>1, <1>3 DEF Respects
<1> QED BY <1>2, <1>3 DEF q

LEMMA MergesOn ==
  ASSUME NEW D, NEW p, NEW q, NEW r, Merges(D, p, q), Merges(D, q, r)
  PROVE  Merges(D, p, r)
  BY DEF Merges

\* What a loop of unions has made of the forest p it began with: it keeps the
\* groups and unites the places in pairs, and never across places that are apart.
Grouped(ledger, list, fresh, p, q, pairs) ==
  LET D == DOMAIN list
  IN /\ q \in Forests(D)
     /\ Merges(D, p, q)
     /\ \A m \in pairs : {m[1], m[2]} \subseteq fresh
                           /\ Share(ledger, list[m[1]], list[m[2]])
                           => Find(q, m[1]) = Find(q, m[2])
     /\ \A places : Apart(ledger, list, fresh, places) /\ Respects(D, p, places)
                      => Respects(D, q, places)

LEMMA GroupedNone ==
  ASSUME NEW ledger, NEW list, NEW fresh, NEW p \in Forests(DOMAIN list)
  PROVE  Grouped(ledger, list, fresh, p, p, {})
  BY DEF Grouped, Merges

LEMMA GroupedOn ==
  ASSUME NEW ledger, NEW list, NEW fresh, NEW p, NEW q, NEW r, NEW M, NEW N,
         Grouped(ledger, list, fresh, p, q, M), Grouped(ledger, list, fresh, q, r, N),
         \A m \in M : m[1] \in DOMAIN list /\ m[2] \in DOMAIN list
  PROVE  Grouped(ledger, list, fresh, p, r, M \cup N)
  BY DEF Grouped, Merges

\* One step of the inner loop.
UniteIf(ledger, list, fresh, p, l, r) ==
  IF {l, r} \subseteq fresh /\ Share(ledger, list[l], list[r]) THEN Unite(p, l, r) ELSE p

LEMMA ShareBoth ==
  ASSUME NEW ledger, NEW s, NEW t
  PROVE  Share(ledger, s, t) <=> Share(ledger, t, s)
  BY DEF Share

LEMMA GroupedPair ==
  ASSUME NEW ledger, NEW list, NEW fresh \in SUBSET DOMAIN list,
         NEW p \in Forests(DOMAIN list), NEW l, NEW r
  PROVE  Grouped(ledger, list, fresh, p, UniteIf(ledger, list, fresh, p, l, r), {<<l, r>>})
<1> DEFINE D == DOMAIN list
           q == UniteIf(ledger, list, fresh, p, l, r)
<1>1. CASE {l, r} \subseteq fresh /\ Share(ledger, list[l], list[r])
  <2>1. q = Unite(p, l, r) /\ l \in D /\ r \in D
    BY <1>1 DEF UniteIf
  <2>2. q \in Forests(D) /\ Merges(D, p, q) /\ Find(q, l) = Find(q, r)
    BY <2>1, UniteFinds, UniteMerges
  <2>3. ASSUME NEW places, Apart(ledger, list, fresh, places), Respects(D, p, places)
        PROVE  Respects(D, q, places)
    <3>1. l \in places <=> r \in places
      BY <1>1, <2>3, ShareBoth DEF Apart
    <3> QED BY <2>1, <2>3, <3>1, UniteMerges
  <2> HIDE DEF q, D
  <2>4. \A m \in {<<l, r>>} : Find(q, m[1]) = Find(q, m[2])
    BY <2>2
  <2> QED BY <2>2, <2>3, <2>4 DEF Grouped, q, D
<1>2. CASE ~({l, r} \subseteq fresh /\ Share(ledger, list[l], list[r]))
  <2>1. q = p
    BY <1>2 DEF UniteIf
  <2> HIDE DEF q
  <2> QED BY <1>2, <2>1 DEF Grouped, Merges, q
<1> QED BY <1>1, <1>2

-----------------------------------------------------------------------------
\* The inner loop obeys its equation.
LaterRuns(ledger, list, fresh, before, l) ==
  \E f \in [l..Len(list) -> Forests(DOMAIN list)] :
    /\ f[l] = before
    /\ \A r \in l + 1 .. Len(list) :
         f[r] = UniteIf(ledger, list, fresh, f[r - 1], l, r)
    /\ UniteLater(ledger, list, fresh, before, l) = f[Len(list)]

LEMMA LaterLoop ==
  ASSUME NEW ledger, NEW S, NEW list \in Seq(S), NEW fresh \in SUBSET DOMAIN list,
         NEW before \in Forests(DOMAIN list), NEW l \in DOMAIN list
  PROVE  LaterRuns(ledger, list, fresh, before, l)
<1> DEFINE F == Forests(DOMAIN list)
           n == Len(list)
           turn == [k \in Int |-> [p \in F |-> UniteIf(ledger, list, fresh, p, l, k)]]
           Next(f, r) == IF r = l THEN before
                         ELSE IF {l, r} \subseteq fresh /\ Share(ledger, list[l], list[r])
                              THEN Unite(f[r - 1], l, r) ELSE f[r - 1]
           Body(f) == [r \in l..n |-> Next(f, r)]
<1>1. l \in Int /\ n \in Int /\ l <= n /\ l \in l..n /\ before \in F
  OBVIOUS
<1>2. turn \in [Int -> [F -> F]]
  BY GroupedPair DEF Grouped
<1>3. PICK f \in [l..n -> F] : Loops(f, before, turn, l, n)
  <2> HIDE DEF turn, F, n
  <2> QED BY <1>1, <1>2, LoopDefined
<1>4. f[l] = before
  <2> HIDE DEF F, n, turn
  <2> QED BY <1>1, <1>3 DEF Loops
<1>5. ASSUME NEW r \in l + 1 .. n
      PROVE  f[r] = UniteIf(ledger, list, fresh, f[r - 1], l, r)
  <2>1. r \in l..n /\ r # l /\ r - 1 \in l..n /\ r \in Int
    BY <1>1
  <2>2. f[r - 1] \in F
    BY <2>1
  <2>3. f[r] = turn[r][f[r - 1]]
    BY <1>3, <2>1 DEF Loops
  <2> QED BY <2>1, <2>2, <2>3
<1>6. \A g, r : Next(g, r) = IF r = l THEN before
                               ELSE UniteIf(ledger, list, fresh, g[r - 1], l, r)
  BY DEF UniteIf
<1>7. f = Body(f)
  <2>1. ASSUME NEW r \in l..n PROVE f[r] = Next(f, r)
    <3>1. r # l => r \in l + 1 .. n
      BY <1>1
    <3> HIDE DEF Next
    <3> QED BY <1>4, <1>5, <1>6, <3>1
  <2> HIDE DEF F, Next
  <2> QED BY <2>1
<1>8. UniteLater(ledger, list, fresh, before, l) = (CHOOSE g : g = Body(g))[n]
  BY DEF UniteLater
<1> HIDE DEF Body, F, n, turn, Next
<1>9. PICK g : g = (CHOOSE h : h = Body(h)) /\ g = Body(g)
  BY <1>7
<1>10. ASSUME NEW r \in l..n PROVE g[r] = Next(g, r)
  BY <1>9 DEF Body
<1>11. \A r \in l..n : g[r] = f[r]
  <2> DEFINE same == {r \in Int : g[r] = f[r]}
  <2>1. l \in same
    BY <1>1, <1>4, <1>6, <1>10
  <2>2. ASSUME NEW r \in l + 1 .. n, r - 1 \in same PROVE r \in same
    <3>1. r \in l..n /\ r # l /\ r \in Int
      BY <1>1
    <3> QED BY <1>5, <1>6, <1>10, <2>2, <3>1
  <2> HIDE DEF same
  <2>3. l..n \subseteq same
    BY <1>1, <2>1, <2>2, Interval
  <2> QED BY <2>3 DEF same
<1>12. UniteLater(ledger, list, fresh, before, l) = f[n]
  BY <1>1, <1>8, <1>9, <1>11
<1> QED
  BY <1>3, <1>4, <1>5, <1>12 DEF F, n, LaterRuns

\* The inner loop unites place l with all the later ones it shares something with.
LEMMA LaterGrouped ==
  ASSUME NEW ledger, NEW S, NEW list \in Seq(S), NEW fresh \in SUBSET DOMAIN list,
         NEW before \in Forests(DOMAIN list), NEW l \in DOMAIN list
  PROVE  Grouped(ledger, list, fresh, before, UniteLater(ledger, list, fresh, before, l),
                 {l} \X (l + 1 .. Len(list)))
<1>1. PICK f \in [l..Len(list) -> Forests(DOMAIN list)] :
        /\ f[l] = before
        /\ \A r \in l + 1 .. Len(list) :
             f[r] = UniteIf(ledger, list, fresh, f[r - 1], l, r)
        /\ UniteLater(ledger, list, fresh, before, l) = f[Len(list)]
  <2>1. LaterRuns(ledger, list, fresh, before, l)
    BY LaterLoop
  <2> QED BY <2>1 DEF LaterRuns
<1> DEFINE n == Len(list)
           D == DOMAIN list
<1>0. D = 1..n /\ n \in Nat
  OBVIOUS
<1> DEFINE good == {r \in l..n : Grouped(ledger, list, fresh, before, f[r],
                                         {l} \X (l + 1 .. r))}
<1>2. l \in good
  <2>1. Grouped(ledger, list, fresh, before, before, {})
    BY GroupedNone
  <2>2. {l} \X (l + 1 .. l) = {} /\ l \in l..n
    BY <1>0
  <2> HIDE DEF n
  <2> QED BY <1>1, <2>1, <2>2
<1>3. ASSUME NEW r \in l + 1 .. n, r - 1 \in good PROVE r \in good
  <2>1. r \in l..n /\ r - 1 \in l..n /\ f[r - 1] \in Forests(D) /\ r \in D
    BY <1>0
  <2>2. Grouped(ledger, list, fresh, f[r - 1], f[r], {<<l, r>>})
    BY <1>1, <2>1, GroupedPair
  <2> DEFINE before_r == {l} \X (l + 1 .. r - 1)
  <2>3. Grouped(ledger, list, fresh, before, f[r - 1], before_r)
    BY <1>3
  <2>4. \A m \in before_r : m[1] \in D /\ m[2] \in D
    BY <1>0
  <2>5. before_r \cup {<<l, r>>} = {l} \X (l + 1 .. r)
    BY <1>0
  <2> HIDE DEF before_r, n, D
  <2>6. Grouped(ledger, list, fresh, before, f[r], before_r \cup {<<l, r>>})
    BY <2>2, <2>3, <2>4, GroupedOn DEF D
  <2> QED BY <2>1, <2>5, <2>6
<1> HIDE DEF good
<1>4. n \in good
  <2>1. l \in Int /\ n \in Int /\ n \in l..n
    BY <1>0
  <2> HIDE DEF n
  <2>2. l..n \subseteq good
    BY <1>2, <1>3, <2>1, Interval
  <2> QED BY <2>1, <2>2
<1> QED BY <1>1, <1>4 DEF good

\* The outer loop obeys its equation.
GroupsRun(ledger, list, fresh) ==
  \E f \in [0..Len(list) -> Forests(DOMAIN list)] :
    /\ f[0] = [i \in DOMAIN list |-> i]
    /\ \A l \in 1..Len(list) : f[l] = UniteLater(ledger, list, fresh, f[l - 1], l)
    /\ Groups(ledger, list, fresh) = f[Len(list)]

LEMMA GroupsLoop ==
  ASSUME NEW ledger, NEW S, NEW list \in Seq(S), NEW fresh \in SUBSET DOMAIN list
  PROVE  GroupsRun(ledger, list, fresh)
<1> DEFINE F == Forests(DOMAIN list)
           n == Len(list)
           alone == [i \in DOMAIN list |-> i]
           turn == [k \in Int |-> [p \in F |->
                      IF k \in DOMAIN list THEN UniteLater(ledger, list, fresh, p, k)
                      ELSE p]]
           Next(f, l) == IF l = 0 THEN alone
                         ELSE UniteLater(ledger, list, fresh, f[l - 1], l)
           Body(f) == [l \in 0..n |-> Next(f, l)]
<1>1. alone \in F
  <2>1. alone \in [DOMAIN list -> DOMAIN list]
    OBVIOUS
  <2>2. \A i \in DOMAIN list : i \in Trail(alone, i)
    BY <2>1, PathFacts
  <2>3. \A i \in DOMAIN list : alone[i] = i
    OBVIOUS
  <2> HIDE DEF alone
  <2> QED BY <2>1, <2>2, <2>3 DEF Forests
<1>2. turn \in [Int -> [F -> F]]
  BY LaterGrouped DEF Grouped
<1>3. n \in Nat /\ DOMAIN list = 1..n
  OBVIOUS
<1>4. PICK f \in [0..n -> F] : Loops(f, alone, turn, 0, n)
  <2> HIDE DEF turn, F, n, alone
  <2> QED BY <1>1, <1>2, <1>3, LoopDefined
<1>5. f[0] = alone
  <2> HIDE DEF F, n, turn, alone
  <2> QED BY <1>3, <1>4 DEF Loops
<1>6. ASSUME NEW l \in 1..n
      PROVE  f[l] = UniteLater(ledger, list, fresh, f[l - 1], l)
  <2>1. l \in 0..n /\ l # 0 /\ l - 1 \in 0..n /\ l \in Int /\ l \in DOMAIN list
    BY <1>3
  <2>2. f[l - 1] \in F
    BY <2>1
  <2>3. f[l] = turn[l][f[l - 1]]
    BY <1>4, <2>1 DEF Loops
  <2> QED BY <2>1, <2>2, <2>3
<1>7. f = Body(f)
  <2>1. ASSUME NEW l \in 0..n PROVE f[l] = Next(f, l)
    <3>1. l # 0 => l \in 1..n
      BY <1>3
    <3> HIDE DEF alone
    <3> QED BY <1>5, <1>6, <3>1
  <2> HIDE DEF F, Next
  <2> QED BY <2>1
<1>8. Groups(ledger, list, fresh) = (CHOOSE g : g = Body(g))[n]
  BY DEF Groups
<1>9. \A g, l : Next(g, l) = IF l = 0 THEN alone
                             ELSE UniteLater(ledger, list, fresh, g[l - 1], l)
  OBVIOUS
<1> HIDE DEF Body, F, n, turn, Next, alone
<1>10. PICK g : g = (CHOOSE h : h = Body(h)) /\ g = Body(g)
  BY <1>7
<1>11. ASSUME NEW l \in 0..n PROVE g[l] = Next(g, l)
  BY <1>10 DEF Body
<1>12. \A l \in 0..n : g[l] = f[l]
  <2> DEFINE same == {l \in Int : g[l] = f[l]}
  <2>1. 0 \in same
    BY <1>3, <1>5, <1>9, <1>11
  <2>2. ASSUME NEW l \in 0 + 1 .. n, l - 1 \in same PROVE l \in same
    <3>1. l \in 0..n /\ l # 0 /\ l \in Int /\ l \in 1..n
      BY <1>3
    <3> QED BY <1>6, <1>9, <1>11, <2>2, <3>1
  <2> HIDE DEF same
  <2>3. 0..n \subseteq same
    <3>1. \A k \in 0 + 1 .. n : k - 1 \in same => k \in same
      BY <2>2
    <3>2. 0 \in Int /\ n \in Int
      BY <1>3
    <3> QED BY <2>1, <3>1, <3>2, Interval, Zenon
  <2> QED BY <2>3 DEF same
<1>13. Groups(ledger, list, fresh) = f[n]
  BY <1>3, <1>8, <1>10, <1>12
<1> QED
  BY <1>4, <1>5, <1>6, <1>13 DEF F, n, alone, GroupsRun

\* All pairs of places, the earlier first.
Pairs(n) == {m \in (1..n) \X (1..n) : m[1] < m[2]}

\* Both loops together.
LEMMA GroupsGrouped ==
  ASSUME NEW ledger, NEW S, NEW list \in Seq(S), NEW fresh \in SUBSET DOMAIN list
  PROVE  Grouped(ledger, list, fresh, [i \in DOMAIN list |-> i],
                 Groups(ledger, list, fresh), Pairs(Len(list)))
<1>1. PICK f \in [0..Len(list) -> Forests(DOMAIN list)] :
        /\ f[0] = [i \in DOMAIN list |-> i]
        /\ \A l \in 1..Len(list) : f[l] = UniteLater(ledger, list, fresh, f[l - 1], l)
        /\ Groups(ledger, list, fresh) = f[Len(list)]
  <2>1. GroupsRun(ledger, list, fresh)
    BY GroupsLoop
  <2> QED BY <2>1 DEF GroupsRun
<1> DEFINE n == Len(list)
           D == DOMAIN list
           done(l) == {m \in Pairs(n) : m[1] <= l}
           good == {l \in 0..n : Grouped(ledger, list, fresh, f[0], f[l], done(l))}
<1>2. D = 1..n /\ n \in Nat
  OBVIOUS
<1>3. 0 \in good
  <2>1. f[0] \in Forests(D) /\ 0 \in 0..n
    BY <1>2
  <2>2. done(0) = {}
    BY <1>2 DEF Pairs
  <2> HIDE DEF n, done
  <2>3. Grouped(ledger, list, fresh, f[0], f[0], {})
    BY <2>1, GroupedNone
  <2> QED BY <2>1, <2>2, <2>3
<1>4. ASSUME NEW l \in 0 + 1 .. n, l - 1 \in good PROVE l \in good
  <2>1. l \in 0..n /\ l - 1 \in 0..n /\ f[l - 1] \in Forests(D) /\ l \in D /\ l \in 1..n
    BY <1>2
  <2> DEFINE more == {l} \X (l + 1 .. n)
  <2>2. Grouped(ledger, list, fresh, f[l - 1], f[l], more)
    BY <1>1, <2>1, LaterGrouped
  <2>3. Grouped(ledger, list, fresh, f[0], f[l - 1], done(l - 1))
    BY <1>4
  <2>4. \A m \in done(l - 1) : m[1] \in D /\ m[2] \in D
    BY <1>2 DEF Pairs
  <2>5. done(l - 1) \cup more = done(l)
    BY <1>2, <2>1 DEF Pairs
  <2> HIDE DEF done, more, n, D
  <2>6. Grouped(ledger, list, fresh, f[0], f[l], done(l - 1) \cup more)
    BY <2>2, <2>3, <2>4, GroupedOn DEF D
  <2> QED BY <2>1, <2>5, <2>6
<1> HIDE DEF good
<1>5. n \in good
  <2>1. \A l \in 0 + 1 .. n : l - 1 \in good => l \in good
    BY <1>4
  <2>2. 0 \in Int /\ n \in Int /\ n \in 0..n
    BY <1>2
  <2> HIDE DEF n
  <2>3. 0..n \subseteq good
    BY <1>3, <2>1, <2>2, Interval, Zenon
  <2> QED BY <2>2, <2>3
<1>6. done(n) = Pairs(n)
  BY <1>2 DEF Pairs
<1> HIDE DEF done, n
<1>7. Grouped(ledger, list, fresh, f[0], f[n], Pairs(n))
  BY <1>5, <1>6 DEF good
<1> QED BY <1>1, <1>7 DEF n

\* _independent_group_count of claude_obsidian/ledgers.py puts two places of the
\* fresh support in one group just if nothing parts them: no set of fresh places
\* that shares no origin, bytes or publisher with the others has only one of them.
THEOREM UnionFindGroups ==
  ASSUME NEW ledger, NEW S, NEW list \in Seq(S), NEW fresh \in SUBSET DOMAIN list
  PROVE  GroupsAreShared(ledger, list, fresh)
<1> DEFINE D == DOMAIN list
           groups == Groups(ledger, list, fresh)
           alone == [i \in DOMAIN list |-> i]
<1>1. D = 1..Len(list) /\ Len(list) \in Nat
  OBVIOUS
<1>2. Grouped(ledger, list, fresh, alone, groups, Pairs(Len(list)))
  BY GroupsGrouped
<1>3. \A i \in D : Find(alone, i) = i
  <2>1. alone \in [D -> D] /\ \A i \in D : alone[i] = i
    OBVIOUS
  <2> HIDE DEF alone
  <2>2. \A i \in D : Trail(alone, i) = {i}
    BY <2>1, PathGoesOn
  <2> QED BY <2>1, <2>2 DEF Find
<1> HIDE DEF D, groups, alone
<1>4. ASSUME NEW i \in fresh, NEW j \in fresh, Find(groups, i) = Find(groups, j),
             NEW places \in SUBSET fresh, Apart(ledger, list, fresh, places), i \in places
      PROVE  j \in places
  <2>1. Respects(D, alone, places)
    BY <1>3 DEF Respects
  <2>2. Respects(D, groups, places)
    BY <1>2, <1>4, <2>1 DEF Grouped, D
  <2> QED BY <1>4, <2>2 DEF Respects, D
<1>5. ASSUME NEW i \in fresh, NEW j \in fresh,
             \A places \in SUBSET fresh :
               Apart(ledger, list, fresh, places) /\ i \in places => j \in places
      PROVE  Find(groups, i) = Find(groups, j)
  <2> DEFINE places == {k \in fresh : Find(groups, k) = Find(groups, i)}
  <2>1. ASSUME NEW k \in fresh, NEW m \in fresh, Share(ledger, list[k], list[m])
        PROVE  Find(groups, k) = Find(groups, m)
    <3>1. k \in Int /\ m \in Int /\ k \in 1..Len(list) /\ m \in 1..Len(list)
      BY <1>1 DEF D
    <3>2. CASE k < m
      <4>1. <<k, m>> \in Pairs(Len(list))
        BY <3>1, <3>2 DEF Pairs
      <4> QED BY <1>2, <2>1, <4>1 DEF Grouped
    <3>3. CASE m < k
      <4>1. <<m, k>> \in Pairs(Len(list))
        BY <3>1, <3>3 DEF Pairs
      <4>2. Share(ledger, list[m], list[k])
        BY <2>1, ShareBoth
      <4> QED BY <1>2, <4>1, <4>2 DEF Grouped
    <3>4. CASE k = m
      BY <3>4
    <3> QED BY <3>1, <3>2, <3>3, <3>4
  <2>2. Apart(ledger, list, fresh, places)
    BY <2>1 DEF Apart
  <2>3. places \in SUBSET fresh /\ i \in places
    OBVIOUS
  <2> HIDE DEF places
  <2>4. j \in places
    BY <1>5, <2>2, <2>3
  <2> QED BY <2>4 DEF places
<1> QED BY <1>4, <1>5 DEF GroupsAreShared, groups

-----------------------------------------------------------------------------
(***************************************************************************)
(* Independent evidence                                                    *)
(***************************************************************************)
LEMMA CommitChecks ==
  ASSUME LedgersTypeOK, NEW ledger, NEW c, NEW bytes, Commit(ledger, c, bytes)
  PROVE  CheckedInv'
<1>1. /\ sources' = ledger /\ claim' = c /\ checked' = today
      /\ SourcesValid(ledger, bytes, today)
      /\ c # NoClaim => ClaimValid(c, ledger, today)
  BY DEF Commit, PairValid
<1>2. \A s \in Sources : ledger[s] # Unlisted => ledger[s].observed <= today
  BY <1>1 DEF SourcesValid, SourceValid
<1>3. claim' # NoClaim => ClaimValid(claim', sources', checked')
  BY <1>1
<1> QED BY <1>1, <1>2, <1>3 DEF CheckedInv

LEMMA CheckedStep ==
  ASSUME LedgersTypeOK, CheckedInv, [LedgersNext]_ledgerVars
  PROVE  CheckedInv'
<1>1. ASSUME NEW s \in Sources, NEW r \in Records, RecordSource(s, r)
      PROVE  CheckedInv'
  BY <1>1, CommitChecks DEF RecordSource
<1>2. ASSUME NEW c \in Claims, RecordClaim(c) PROVE CheckedInv'
  BY <1>2, CommitChecks DEF RecordClaim
<1>3. CASE Migrate
  BY <1>3, CommitChecks DEF Migrate
<1>4. CASE UNCHANGED <<sources, claim, present, checked>>
  BY <1>4 DEF CheckedInv
<1>5. CASE LoseSources
  BY <1>5 DEF LoseSources, CheckedInv
<1> QED
  BY <1>1, <1>2, <1>3, <1>4, <1>5 DEF LedgersNext, DayPasses, EditSource, ledgerVars

\* The invariant of the ledgers is inductive.
THEOREM LedgersInductive == LedgersSpec => []LedgersInv
<1>1. LedgersInit => LedgersInv
  BY LedgersAssumption DEF LedgersInit, LedgersInv, LedgersTypeOK, CheckedInv, Days
<1>2. LedgersInv /\ [LedgersNext]_ledgerVars => LedgersInv'
  BY LedgersTypes, CheckedStep DEF LedgersInv
<1> QED BY <1>1, <1>2, PTL DEF LedgersSpec

\* Two groups or more leave two places that are not in one.
LEMMA TwoGroups ==
  ASSUME NEW ledger, NEW list, NEW fresh, GroupCount(ledger, list, fresh) >= 2
  PROVE  \E i, j \in fresh : Find(Groups(ledger, list, fresh), i)
                               # Find(Groups(ledger, list, fresh), j)
<1> DEFINE root(i) == Find(Groups(ledger, list, fresh), i)
           roots == {root(i) : i \in fresh}
<1>1. Cardinality(roots) >= 2
  BY DEF GroupCount
<1> SUFFICES ASSUME \A i, j \in fresh : root(i) = root(j) PROVE FALSE
  OBVIOUS
<1>2. roots = {} \/ \E x : roots = {x}
  <2>1. CASE fresh = {}
    BY <2>1
  <2>2. CASE fresh # {}
    <3>1. PICK i \in fresh : TRUE
      BY <2>2
    <3>2. roots = {root(i)}
      BY <3>1
    <3> QED BY <3>2
  <2> QED BY <2>1, <2>2
<1> HIDE DEF roots
<1>3. Cardinality(roots) = 0 \/ Cardinality(roots) = 1
  BY <1>2, FS_EmptySet, FS_Singleton
<1> QED BY <1>1, <1>3

\* What is fresh support on the day of the check counted then.
LEMMA FreshIsCounted ==
  ASSUME LedgersInv, claim # NoClaim, "sources" \in present
  PROVE  Counted = {claim.support[i] : i \in FreshSupport(sources, claim, checked)}
<1> DEFINE list == claim.support
<1>1. list \in Seq(Sources) /\ \A i \in DOMAIN list : sources[list[i]] # Unlisted
  BY LedgerFacts, LedgersAssumption DEF LedgersInv, CheckedInv, ClaimValid, Claims
<1>2. ASSUME NEW i \in DOMAIN list
      PROVE  list[i] \in Counted <=> i \in FreshSupport(sources, claim, checked)
  <2> DEFINE r == sources[list[i]]
  <2>1. list[i] \in Sources /\ r # Unlisted
    BY <1>1
  <2>2. r \in Records /\ r.observed <= checked
    BY <2>1, LedgerFacts DEF LedgersInv, CheckedInv
  <2>3. r.observed \in Nat /\ r.due \in Nat /\ checked \in Nat
    BY <2>2, RecordFacts, LedgerFacts, LedgersAssumption DEF LedgersInv, Days
  <2>4. ~Stale(r, checked) <=> r.due >= checked
    BY <2>2, <2>3 DEF Stale
  <2>5. list[i] \in Supporters
    BY DEF Supporters
  <2> QED BY <2>4, <2>5 DEF Counted, FreshSupport
<1>3. \A s \in Counted : \E i \in DOMAIN list : s = list[i]
  BY DEF Counted, Supporters
<1>4. FreshSupport(sources, claim, checked) \subseteq DOMAIN list
  BY DEF FreshSupport
<1> HIDE DEF list
<1>5. Counted = {list[i] : i \in FreshSupport(sources, claim, checked)}
  BY <1>2, <1>3, <1>4
<1> QED BY <1>5 DEF list

\* An accepted claim of high risk rests on evidence that falls into two parts with
\* nothing in common, whatever the sources, the publishers and the length of the
\* list: the grouping of claude_obsidian/ledgers.py does not take two for one, and
\* no edit, day or migration after the bundle that was checked makes it wrong.
THEOREM EvidenceIsIndependent == LedgersSpec => []IndependentEvidence
<1>1. ASSUME LedgersInv, claim # NoClaim, claim.grade = "high", "sources" \in present
      PROVE  \E part \in SUBSET Counted :
               /\ part # {} /\ part # Counted
               /\ \A s \in part, t \in Counted \ part : ~Share(sources, s, t)
  <2> DEFINE list == claim.support
             fresh == FreshSupport(sources, claim, checked)
  <2>1. list \in Seq(Sources) /\ fresh \in SUBSET DOMAIN list
    BY <1>1, LedgerFacts, LedgersAssumption DEF LedgersInv, Claims, FreshSupport
  <2>2. GroupCount(sources, list, fresh) >= 2
    BY <1>1 DEF LedgersInv, CheckedInv, ClaimValid
  <2>3. Counted = {list[i] : i \in fresh}
    BY <1>1, FreshIsCounted
  <2> HIDE DEF list, fresh
  <2>4. PICK i \in fresh, j \in fresh :
          Find(Groups(sources, list, fresh), i) # Find(Groups(sources, list, fresh), j)
    BY <2>2, TwoGroups
  <2>5. PICK places \in SUBSET fresh :
          Apart(sources, list, fresh, places) /\ i \in places /\ j \notin places
    <3>1. GroupsAreShared(sources, list, fresh)
      BY <2>1, UnionFindGroups
    <3> QED BY <2>4, <3>1 DEF GroupsAreShared
  <2> DEFINE part == {list[k] : k \in places}
  <2>6. ASSUME NEW k \in places, NEW m \in fresh, list[m] \notin part \/ m \notin places
        PROVE  ~Share(sources, list[k], list[m])
    <3>1. m \notin places
      BY <2>6
    <3> QED BY <2>5, <3>1 DEF Apart
  <2>7. list[i] \in part /\ list[j] \in Counted
    BY <2>3, <2>5
  <2>8. list[j] \notin part
    <3> SUFFICES ASSUME NEW k \in places, list[j] = list[k] PROVE FALSE
      OBVIOUS
    <3>1. Share(sources, list[k], list[j])
      BY DEF Share
    <3> QED BY <2>5, <2>6, <3>1
  <2>9. part \in SUBSET Counted
    BY <2>3
  <2>10. ASSUME NEW s \in part, NEW t \in Counted, t \notin part
         PROVE  ~Share(sources, s, t)
    <3>1. PICK k \in places : s = list[k]
      BY <2>10
    <3>2. PICK m \in fresh : t = list[m]
      BY <2>3
    <3> QED BY <2>6, <2>10, <3>1, <3>2
  <2> HIDE DEF part
  <2> QED BY <2>7, <2>8, <2>9, <2>10
<1>2. LedgersInv => IndependentEvidence
  BY <1>1 DEF IndependentEvidence
<1> QED BY <1>2, LedgersInductive, PTL

-----------------------------------------------------------------------------
(***************************************************************************)
(* The page locks of the legacy scripts.  For every set of workers and     *)
(* pages, every threshold and every clock: a page is locked by one worker  *)
(* at a time, and only a release or the shell's clear-stale removes a lock *)
(* that is not stale.                                                      *)
(***************************************************************************)
\* What the assumption says of the constants.
LEMMA LockFacts ==
  /\ StaleAfter \in Nat /\ ClearAfter \in Nat /\ StaleAfter <= ClearAfter
  /\ NoLock \notin Locks /\ Corrupt \notin Locks /\ NoLock # Corrupt
  /\ Nobody \notin LockWorkers /\ MaxSeconds \in Nat /\ MaxKills \in Nat
  /\ Seconds = 0..MaxSeconds /\ 0 \in Seconds
  BY LegacyLockAssumption DEF Seconds

\* The steps of a command by name.
LEMMA StepNames ==
  \A s \in {"idle", "enter", "look", "create", "fill", "unlink", "sweep"} : s \in Steps
  BY DEF Steps

\* The command of an idle worker is a command.
LEMMA NoCommandType ==
  NoCommand \in Commands /\ NoCommand.now = 0
<1>1. (CHOOSE p \in LockPaths : TRUE) \in LockPaths
  BY LegacyLockAssumption
<1> QED
  BY <1>1, LockFacts DEF NoCommand, Commands

\* What the types say of one worker.
LEMMA WorkerTypes ==
  ASSUME LegacyLockTypeOK, NEW w \in LockWorkers
  PROVE  /\ step[w] \in Steps /\ command[w] \in Commands
         /\ Path(w) \in LockPaths /\ command[w].now \in Seconds
         /\ \A p \in LockPaths : has[w][p] \in Seconds \cup {Never}
  BY DEF LegacyLockTypeOK, Path, Commands

\* The records are locks with a time and an owner, or not locks.
LEMMA RecordTypes ==
  ASSUME LegacyLockTypeOK, NEW p \in LockPaths
  PROVE  /\ record[p] \in Locks \cup {NoLock, Corrupt}
         /\ IsLock(p) => record[p].epoch \in Seconds /\ record[p].by \in LockWorkers
  BY DEF LegacyLockTypeOK, IsLock, Locks

\* Steps and commands of one worker are changed alone.
LEMMA ToFacts ==
  ASSUME LegacyLockTypeOK, NEW w \in LockWorkers, NEW s \in Steps, To(w, s)
  PROVE  /\ step' \in [LockWorkers -> Steps]
         /\ \A v \in LockWorkers : step'[v] = IF v = w THEN s ELSE step[v]
  BY DEF To, LegacyLockTypeOK

\* So they are at the end of a command.
LEMMA EndFacts ==
  ASSUME LegacyLockTypeOK, NEW w \in LockWorkers, End(w)
  PROVE  /\ step' \in [LockWorkers -> Steps]
         /\ command' \in [LockWorkers -> Commands]
         /\ \A v \in LockWorkers :
              /\ step'[v] = IF v = w THEN "idle" ELSE step[v]
              /\ command'[v] = IF v = w THEN NoCommand ELSE command[v]
  BY ToFacts, StepNames, NoCommandType DEF End, LegacyLockTypeOK

\* A new lock is a lock of its worker.
LEMMA NewFacts ==
  ASSUME LegacyLockTypeOK, NEW w \in LockWorkers
  PROVE  New(w) \in Locks /\ New(w).by = w /\ New(w).epoch = command[w].now
  BY WorkerTypes DEF New, Locks

\* Who got a page has it since the time of the command.
LEMMA GotFacts ==
  ASSUME LegacyLockTypeOK, NEW w \in LockWorkers, Got(w)
  PROVE  /\ has' \in [LockWorkers -> [LockPaths -> Seconds \cup {Never}]]
         /\ \A v \in LockWorkers, p \in LockPaths :
              has'[v][p] = IF v = w /\ p = Path(w) THEN command[w].now ELSE has[v][p]
  BY WorkerTypes DEF Got, LegacyLockTypeOK

-----------------------------------------------------------------------------
\* The types hold initially.
LEMMA LockTypeInit == LegacyLockInit => LegacyLockTypeOK
<1> SUFFICES ASSUME LegacyLockInit PROVE LegacyLockTypeOK
  OBVIOUS
<1>1. /\ tool \in Tools /\ record \in [LockPaths -> Locks \cup {NoLock, Corrupt}]
      /\ meta \in LockWorkers \cup {Nobody} /\ foreign \in BOOLEAN
  BY DEF LegacyLockInit
<1>3. clock \in Seconds /\ kills \in 0..MaxKills
  BY LockFacts DEF LegacyLockInit
<1>2. /\ step \in [LockWorkers -> Steps]
      /\ command \in [LockWorkers -> Commands]
      /\ has \in [LockWorkers -> [LockPaths -> Seconds \cup {Never}]]
  BY StepNames, NoCommandType DEF LegacyLockInit
<1> QED
  BY <1>1, <1>2, <1>3 DEF LegacyLockTypeOK

\* Every step keeps the types.
LEMMA LockTypeStep ==
  ASSUME LegacyLockTypeOK, [LegacyLockNext]_lockVars
  PROVE  LegacyLockTypeOK'
<1> USE LockFacts, StepNames
<1>1. ASSUME NEW w \in LockWorkers, NEW p \in LockPaths,
             NEW op \in {"acquire", "release", "clear-stale"}, Call(w, op, p)
      PROVE  LegacyLockTypeOK'
  <2> DEFINE t == IF tool = "py" THEN clock ELSE 0
             c == [op |-> op, path |-> p, now |-> t]
  <2>1. t \in Seconds
    BY DEF LegacyLockTypeOK
  <2> HIDE DEF t
  <2>2. c \in Commands
    BY <2>1 DEF Commands
  <2> HIDE DEF c
  <2>3. command' = [command EXCEPT ![w] = c]
    BY <1>1 DEF Call, c, t
  <2>4. has' \in [LockWorkers -> [LockPaths -> Seconds \cup {Never}]]
    BY <1>1 DEF Call, LegacyLockTypeOK
  <2> QED
    BY <1>1, <2>2, <2>3, <2>4, ToFacts DEF Call, LegacyLockTypeOK
<1>2. ASSUME NEW w \in LockWorkers, Enter(w) PROVE LegacyLockTypeOK'
  <2>1. InsideStep(w) \in Steps
    BY DEF InsideStep
  <2>2. [command[w] EXCEPT !.now = clock] \in Commands
    BY WorkerTypes DEF LegacyLockTypeOK, Commands
  <2>3. command' \in [LockWorkers -> Commands]
    BY <1>2, <2>2 DEF Enter, LegacyLockTypeOK
  <2> QED
    BY <1>2, <2>1, <2>3, ToFacts DEF Enter, LegacyLockTypeOK
<1>3. ASSUME NEW w \in LockWorkers, EnterTimeout(w) PROVE LegacyLockTypeOK'
  BY <1>3, EndFacts DEF EnterTimeout, LegacyLockTypeOK
<1>4. ASSUME NEW w \in LockWorkers, Look(w) PROVE LegacyLockTypeOK'
  <2>1. CASE Excluded(w)
    BY <1>4, <2>1, EndFacts DEF Look, Leave, LegacyLockTypeOK
  <2>2. CASE ~Excluded(w)
    BY <1>4, <2>2, ToFacts DEF Look, LegacyLockTypeOK
  <2> QED
    BY <2>1, <2>2
<1>5. ASSUME NEW w \in LockWorkers, Create(w) PROVE LegacyLockTypeOK'
  <2>1. CASE Leave(w) /\ UNCHANGED <<record, has>>
    BY <1>5, <2>1, EndFacts DEF Create, Leave, LegacyLockTypeOK
  <2>2. CASE record' = [record EXCEPT ![Path(w)] = New(w)] /\ Got(w) /\ Leave(w)
    BY <1>5, <2>2, EndFacts, NewFacts, GotFacts DEF Create, Leave, LegacyLockTypeOK
  <2>3. CASE record' = [record EXCEPT ![Path(w)] = Corrupt] /\ To(w, "fill")
             /\ UNCHANGED <<meta, command, has>>
    BY <1>5, <2>3, ToFacts DEF Create, LegacyLockTypeOK
  <2> QED
    BY <1>5, <2>1, <2>2, <2>3 DEF Create
<1>6. ASSUME NEW w \in LockWorkers, Fill(w) PROVE LegacyLockTypeOK'
  BY <1>6, EndFacts, NewFacts, GotFacts DEF Fill, Leave, LegacyLockTypeOK
<1>7. ASSUME NEW w \in LockWorkers, Unlink(w) PROVE LegacyLockTypeOK'
  <2>1. foreign' \in BOOLEAN
    BY <1>7 DEF Unlink, LegacyLockTypeOK
  <2> QED
    BY <1>7, <2>1, EndFacts DEF Unlink, Leave, LegacyLockTypeOK
<1>8. ASSUME NEW w \in LockWorkers, Sweep(w) PROVE LegacyLockTypeOK'
  <2>1. foreign' \in BOOLEAN
    BY <1>8 DEF Sweep, LegacyLockTypeOK
  <2>2. record' \in [LockPaths -> Locks \cup {NoLock, Corrupt}]
    BY <1>8 DEF Sweep, LegacyLockTypeOK
  <2> QED
    BY <1>8, <2>1, <2>2, EndFacts DEF Sweep, Leave, LegacyLockTypeOK
<1>9. ASSUME NEW w \in LockWorkers, Kill(w) PROVE LegacyLockTypeOK'
  <2>1. kills' \in 0..MaxKills
    BY <1>9 DEF Kill, LegacyLockTypeOK
  <2> QED
    BY <1>9, <2>1, EndFacts DEF Kill, LegacyLockTypeOK
<1>10. CASE SecondPasses
  <2>1. clock' \in Seconds
    BY <1>10 DEF SecondPasses, LegacyLockTypeOK
  <2> QED
    BY <1>10, <2>1 DEF SecondPasses, LegacyLockTypeOK
<1>11. CASE UNCHANGED lockVars
  BY <1>11 DEF lockVars, LegacyLockTypeOK
<1> QED
  BY <1>1, <1>2, <1>3, <1>4, <1>5, <1>6, <1>7, <1>8, <1>9, <1>10, <1>11
     DEF LegacyLockNext
-----------------------------------------------------------------------------
(***************************************************************************)
(* InsideInv, worker by worker.                                            *)
(***************************************************************************)
Sees(w) ==
  /\ Inside(w) => meta = w
  /\ command[w].now <= clock
  /\ step[w] = "create" => ~Excluded(w)
  /\ step[w] = "fill" => tool = "sh" /\ record[Path(w)] = Corrupt
  /\ step[w] = "unlink" => Doing(w, "release")
  /\ step[w] # "idle" /\ Doing(w, "release") => has[w][Path(w)] = Never

\* The steps of a worker, but for its calls.
Acts(w) == \/ Enter(w) \/ EnterTimeout(w) \/ Look(w) \/ Create(w) \/ Fill(w)
           \/ Unlink(w) \/ Sweep(w) \/ Kill(w)

Calls(w) == \E p \in LockPaths, op \in {"acquire", "release", "clear-stale"} :
              Call(w, op, p)

\* A worker at the lock or at rest changes its own command and no record.
LEMMA OutsideActs ==
  ASSUME LegacyLockTypeOK, NEW w \in LockWorkers, Calls(w) \/ Acts(w), ~Inside(w)
  PROVE  /\ record' = record /\ clock' = clock /\ tool' = tool /\ foreign' = foreign
         /\ meta' = meta \/ (meta = Nobody /\ meta' = w)
         /\ \A v \in LockWorkers \ {w} :
              step'[v] = step[v] /\ command'[v] = command[v] /\ has'[v] = has[v]
<1>1. CASE Calls(w)
  <2>1. PICK p \in LockPaths, op \in {"acquire", "release", "clear-stale"} : Call(w, op, p)
    BY <1>1 DEF Calls
  <2> QED
    BY <2>1, ToFacts, StepNames DEF Call, LegacyLockTypeOK
<1>2. CASE Enter(w)
  <2>1. InsideStep(w) \in Steps
    BY StepNames DEF InsideStep
  <2> QED
    BY <1>2, <2>1, ToFacts DEF Enter, LegacyLockTypeOK
<1>3. CASE EnterTimeout(w)
  BY <1>3, EndFacts DEF EnterTimeout
<1> QED
  BY <1>1, <1>2, <1>3 DEF Acts, Inside, Look, Create, Fill, Unlink, Sweep, Kill

\* Inside it leaves the others' commands and pages alone, too.
LEMMA InsideActs ==
  ASSUME LegacyLockTypeOK, NEW w \in LockWorkers, Acts(w), Inside(w)
  PROVE  /\ clock' = clock /\ tool' = tool
         /\ \A v \in LockWorkers \ {w} :
              step'[v] = step[v] /\ command'[v] = command[v] /\ has'[v] = has[v]
<1>1. CASE Look(w)
  BY <1>1, ToFacts, EndFacts, StepNames DEF Look, Leave
<1>2. CASE Create(w)
  BY <1>2, ToFacts, EndFacts, GotFacts, StepNames DEF Create, Leave, Got, LegacyLockTypeOK
<1>3. CASE Fill(w)
  BY <1>3, EndFacts, GotFacts DEF Fill, Leave, Got, LegacyLockTypeOK
<1>4. CASE Unlink(w)
  BY <1>4, EndFacts DEF Unlink, Leave
<1>5. CASE Sweep(w)
  BY <1>5, EndFacts DEF Sweep, Leave
<1>6. CASE Kill(w)
  BY <1>6, EndFacts DEF Kill
<1> QED
  BY <1>1, <1>2, <1>3, <1>4, <1>5, <1>6 DEF Acts, Inside, Enter, EnterTimeout

\* What a worker sees depends on its command, its pages, and the records.
LEMMA SameSight ==
  ASSUME NEW v \in LockWorkers, Sees(v), step'[v] = step[v], command'[v] = command[v],
         has'[v] = has[v], record' = record, meta' = meta, tool' = tool, clock' = clock
  PROVE  Sees(v)'
  BY DEF Sees, Inside, Path, Doing, Excluded, Held, IsLock, Age

\* What a worker has seen, another's step leaves true.
LEMMA OtherSight ==
  ASSUME LegacyLockTypeOK, InsideInv, NEW w \in LockWorkers, Calls(w) \/ Acts(w),
         NEW v \in LockWorkers, v # w
  PROVE  Sees(v)'
<1>0. Sees(v)
  BY DEF InsideInv, Sees
<1>1. CASE Inside(v)
  <2>1. meta = v /\ v # Nobody
    BY <1>1, LockFacts DEF InsideInv
  <2>2. ~Inside(w)
    BY <2>1 DEF InsideInv
  <2> QED
    BY <1>0, <2>1, <2>2, OutsideActs, SameSight
<1>2. CASE ~Inside(v)
  <2>1. /\ clock' = clock /\ step'[v] = step[v] /\ command'[v] = command[v]
        /\ has'[v] = has[v]
    <3>1. Inside(w) => Acts(w)
      BY DEF Calls, Call, Inside
    <3> QED
      BY <3>1, OutsideActs, InsideActs
  <2> QED
    BY <1>0, <1>2, <2>1 DEF Sees, Inside, Path, Doing
<1> QED
  BY <1>1, <1>2

\* A command at its end has seen nothing.
LEMMA EndSight ==
  ASSUME LegacyLockTypeOK, NEW w \in LockWorkers, End(w), clock' = clock
  PROVE  Sees(w)'
<1>1. step'[w] = "idle" /\ command'[w].now = 0
  BY EndFacts, NoCommandType
<1>2. 0 <= clock
  BY LockFacts DEF LegacyLockTypeOK
<1> QED
  BY <1>1, <1>2 DEF Sees, Inside


\* Who has taken a stale record away finds no other that excludes it.
LEMMA LookSight ==
  ASSUME LegacyLockTypeOK, InsideInv, NEW w \in LockWorkers, Look(w)
  PROVE  Sees(w)'
<1>1. CASE Excluded(w)
  BY <1>1, EndSight DEF Look, Leave
<1>2. CASE ~Excluded(w)
  <2>1. /\ step'[w] = "create" /\ meta' = meta /\ command' = command /\ clock' = clock
        /\ has' = has /\ tool' = tool
    BY <1>2, ToFacts, StepNames DEF Look
  <2>2. Path(w)' = Path(w) /\ Path(w) \in LockPaths
    BY <2>1, WorkerTypes DEF Path
  <2>3. \A p \in LockPaths : record'[p] = IF p = Path(w) THEN NoLock ELSE record[p]
    BY <1>2 DEF Look, LegacyLockTypeOK
  <2>4. \A p \in LockPaths : Held(w, p)' => Held(w, p)
    BY <2>1, <2>3, LockFacts DEF Held, IsLock, Age
  <2>5. ~Excluded(w)'
    BY <1>2, <2>1, <2>2, <2>4 DEF Excluded
  <2>6. meta = w /\ command[w].now <= clock /\ (Doing(w, "release") => has[w][Path(w)] = Never)
    BY <1>2 DEF InsideInv, Look, Inside
  <2> QED
    BY <2>1, <2>2, <2>5, <2>6 DEF Sees, Inside, Doing
<1> QED
  BY <1>1, <1>2

\* Every step keeps what the worker that takes it has seen.
LEMMA OwnSight ==
  ASSUME LegacyLockTypeOK, InsideInv, NEW w \in LockWorkers, Calls(w) \/ Acts(w)
  PROVE  Sees(w)'
<1>0. command[w].now <= clock /\ (Inside(w) => meta = w)
  BY DEF InsideInv
<1>1. CASE Calls(w)
  <2>1. PICK p \in LockPaths, op \in {"acquire", "release", "clear-stale"} : Call(w, op, p)
    BY <1>1 DEF Calls
  <2>2. step'[w] = "enter" /\ clock' = clock
    BY <2>1, ToFacts, StepNames DEF Call
  <2>3. /\ command'[w].op = op /\ command'[w].path = p
        /\ command'[w].now = IF tool = "py" THEN clock ELSE 0
    BY <2>1 DEF Call, LegacyLockTypeOK
  <2>4. command'[w].now <= clock'
    BY <2>2, <2>3, LockFacts DEF LegacyLockTypeOK
  <2>5. op = "release" => has'[w][p] = Never
    BY <2>1 DEF Call, LegacyLockTypeOK
  <2> QED
    BY <2>2, <2>3, <2>4, <2>5 DEF Sees, Inside, Path, Doing
<1>2. CASE Enter(w)
  <2>0. InsideStep(w) \in Steps
    BY StepNames DEF InsideStep
  <2>1. step'[w] = InsideStep(w) /\ meta' = w /\ clock' = clock /\ has' = has
    BY <1>2, <2>0, ToFacts DEF Enter
  <2>2. /\ command'[w].op = command[w].op /\ command'[w].path = command[w].path
        /\ command'[w].now = clock \/ command'[w].now = command[w].now
    BY <1>2 DEF Enter, LegacyLockTypeOK, Commands
  <2>3. command'[w].now <= clock'
    BY <1>0, <2>1, <2>2, LockFacts DEF LegacyLockTypeOK
  <2>4. Doing(w, "release") => has[w][Path(w)] = Never
    BY <1>2 DEF InsideInv, Enter
  <2>5. InsideStep(w) \in {"look", "unlink", "sweep"} /\ (InsideStep(w) = "unlink" => Doing(w, "release"))
    BY DEF InsideStep
  <2> QED
    BY <2>1, <2>2, <2>3, <2>4, <2>5 DEF Sees, Path, Doing
<1>3. CASE EnterTimeout(w)
  BY <1>3, EndSight DEF EnterTimeout
<1>4. CASE Look(w)
  BY <1>4, LookSight
<1>5. CASE Create(w)
  <2>1. CASE Leave(w)
    BY <1>5, <2>1, EndSight DEF Create, Leave
  <2>2. CASE /\ tool = "sh"
             /\ record' = [record EXCEPT ![Path(w)] = Corrupt] /\ To(w, "fill")
             /\ UNCHANGED <<meta, command, has>>
    <3>1. step'[w] = "fill" /\ clock' = clock
      BY <1>5, <2>2, ToFacts, StepNames DEF Create
    <3>2. record'[Path(w)] = Corrupt
      BY <2>2, WorkerTypes DEF LegacyLockTypeOK
    <3>4. tool' = "sh"
      BY <1>5, <2>2 DEF Create
    <3>3. step[w] = "create" /\ (Doing(w, "release") => has[w][Path(w)] = Never)
      BY <1>5 DEF InsideInv, Create
    <3> QED
      BY <1>0, <2>2, <3>1, <3>2, <3>3, <3>4 DEF Sees, Inside, Path, Doing
  <2> QED
    BY <1>5, <2>1, <2>2 DEF Create
<1>6. CASE Fill(w) \/ Unlink(w) \/ Sweep(w) \/ Kill(w)
  BY <1>6, EndSight DEF Fill, Unlink, Sweep, Kill, Leave
<1> QED
  BY <1>1, <1>2, <1>3, <1>4, <1>5, <1>6 DEF Acts

\* What happens is a step of one worker, or a second, or nothing.
LEMMA LockNextCases ==
  ASSUME [LegacyLockNext]_lockVars
  PROVE  \/ \E w \in LockWorkers : Calls(w) \/ Acts(w)
         \/ SecondPasses
         \/ UNCHANGED lockVars
  BY DEF LegacyLockNext, Calls, Acts

LEMMA SightStep ==
  ASSUME LegacyLockTypeOK, InsideInv, [LegacyLockNext]_lockVars
  PROVE  InsideInv'
<1> SUFFICES ASSUME NEW v \in LockWorkers PROVE Sees(v)'
  BY DEF InsideInv, Sees
<1>0. Sees(v)
  BY DEF InsideInv, Sees
<1>1. ASSUME NEW w \in LockWorkers, Calls(w) \/ Acts(w) PROVE Sees(v)'
  BY <1>1, OwnSight, OtherSight
<1>2. CASE SecondPasses
  <2>1. command[v].now <= clock'
    BY <1>0, <1>2, WorkerTypes, LockFacts DEF SecondPasses, LegacyLockTypeOK, Sees
  <2> QED
    BY <1>0, <1>2, <2>1
       DEF SecondPasses, Sees, Inside, Path, Doing, Excluded, Held, IsLock, Age
<1>3. CASE UNCHANGED lockVars
  BY <1>0, <1>3, SameSight DEF lockVars
<1> QED
  BY <1>1, <1>2, <1>3, LockNextCases

-----------------------------------------------------------------------------
(***************************************************************************)
(* RecordInv: what each step does to a lock that holds.                    *)
(***************************************************************************)
\* A lock that holds is as young for a command inside, which has an older time.
LEMMA YoungForAll ==
  ASSUME LegacyLockTypeOK, InsideInv, NEW w \in LockWorkers,
         NEW v \in LockWorkers, NEW p \in LockPaths,
         Holds(v, p), IsLock(p), record[p].epoch = has[v][p]
  PROVE  Held(w, p) /\ ~(Age(w, p) > ClearAfter) /\ Fresh(p)
<1>1. /\ command[w].now \in Int /\ clock \in Int /\ record[p].epoch \in Int
      /\ command[w].now <= clock
  BY WorkerTypes, RecordTypes, LockFacts DEF InsideInv, LegacyLockTypeOK
<1>2. clock - record[p].epoch <= StaleAfter
  BY DEF Holds
<1>3. /\ command[w].now - record[p].epoch <= StaleAfter
      /\ command[w].now - record[p].epoch <= ClearAfter
  BY <1>1, <1>2, LockFacts
<1> QED
  BY <1>1, <1>2, <1>3, LockFacts DEF Held, Age, Fresh

\* Only a release and the shell's clear-stale remove a lock that holds, and both
\* say so: no worker releases the lock it still holds.
LEMMA LockKept ==
  ASSUME LegacyLockTypeOK, InsideInv, NEW w \in LockWorkers, Calls(w) \/ Acts(w),
         NEW v \in LockWorkers, NEW p \in LockPaths,
         Holds(v, p), IsLock(p), record[p].by = v, record[p].epoch = has[v][p]
  PROVE  \/ record'[p] = record[p]
         \/ foreign' /\ step[w] = "unlink"
         \/ foreign' /\ step[w] = "sweep" /\ tool = "sh"
<1>0. record[p] # NoLock /\ record[p] # Corrupt
  BY LockFacts DEF IsLock
<1>1. CASE Look(w)
  <2>1. Excluded(w) => record' = record
    BY <1>1 DEF Look
  <2>2. ~Excluded(w) => p # Path(w)
    BY YoungForAll DEF Excluded
  <2> QED
    BY <1>1, <2>1, <2>2 DEF Look, LegacyLockTypeOK
<1>2. CASE Create(w)
  <2>1. record[Path(w)] = NoLock => p # Path(w)
    BY <1>0
  <2> QED
    BY <1>2, <2>1 DEF Create, LegacyLockTypeOK
<1>3. CASE Fill(w)
  <2>1. p # Path(w)
    BY <1>0, <1>3 DEF Fill, InsideInv
  <2> QED
    BY <1>3, <2>1 DEF Fill, LegacyLockTypeOK
<1>4. CASE Unlink(w)
  <2>1. CASE p = Path(w)
    <3>1. has[w][p] = Never
      BY <1>4, <2>1 DEF Unlink, InsideInv
    <3>2. v # w
      BY <3>1 DEF Holds
    <3> QED
      BY <1>4, <2>1, <3>2 DEF Unlink
  <2>2. CASE p # Path(w)
    BY <1>4, <2>2 DEF Unlink, LegacyLockTypeOK
  <2> QED
    BY <2>1, <2>2
<1>5. CASE Sweep(w)
  <2>1. PICK gone \in SUBSET LockPaths :
          /\ record' = [q \in LockPaths |->
                          IF Sweeps(w, q, gone) THEN NoLock ELSE record[q]]
          /\ foreign' = (foreign \/ \E q \in LockPaths : Sweeps(w, q, gone) /\ Fresh(q))
    BY <1>5 DEF Sweep
  <2>2. CASE Sweeps(w, p, gone)
    <3>1. tool = "sh"
      BY <1>0, <2>2, YoungForAll DEF Sweeps
    <3>2. foreign'
      BY <2>1, <2>2, YoungForAll
    <3> QED
      BY <1>5, <3>1, <3>2 DEF Sweep
  <2>3. CASE ~Sweeps(w, p, gone)
    BY <2>1, <2>3
  <2> QED
    BY <2>2, <2>3
<1>6. CASE Calls(w) \/ Enter(w) \/ EnterTimeout(w) \/ Kill(w)
  BY <1>6 DEF Calls, Call, Enter, EnterTimeout, Kill
<1> QED
  BY <1>1, <1>2, <1>3, <1>4, <1>5, <1>6 DEF Acts

\* A page a worker has since this step is one it got, with its record.
LEMMA HasStep ==
  ASSUME LegacyLockTypeOK, InsideInv, NEW w \in LockWorkers, Calls(w) \/ Acts(w),
         NEW v \in LockWorkers, NEW p \in LockPaths,
         has'[v][p] # Never, has'[v][p] # has[v][p]
  PROVE  /\ v = w /\ p = Path(w)
         /\ has'[v][p] = command[w].now /\ record'[p] = New(w)
         /\ tool = "py" => step[w] = "create"
<1>1. CASE Calls(w)
  <2>1. PICK q \in LockPaths, op \in {"acquire", "release", "clear-stale"} : Call(w, op, q)
    BY <1>1 DEF Calls
  <2> QED
    BY <2>1 DEF Call, LegacyLockTypeOK
<1>2. CASE Acts(w) /\ Got(w) /\ record' = [record EXCEPT ![Path(w)] = New(w)]
  <2>1. v = w /\ p = Path(w) /\ has'[v][p] = command[w].now
    BY <1>2, GotFacts
  <2>2. record'[p] = New(w)
    BY <1>2, <2>1, WorkerTypes DEF LegacyLockTypeOK
  <2>3. step[w] # "fill" \/ tool = "sh"
    BY DEF InsideInv
  <2>4. step[w] \in {"create", "fill"}
    <3>1. has' # has
      OBVIOUS
    <3> QED
      BY <1>2, <3>1 DEF Acts, Enter, EnterTimeout, Look, Create, Fill, Unlink, Sweep, Kill
  <2> QED
    BY <2>1, <2>2, <2>3, <2>4
<1>3. CASE Acts(w) /\ has' = has
  BY <1>3
<1> QED
  BY <1>1, <1>2, <1>3
     DEF Acts, Enter, EnterTimeout, Look, Create, Fill, Unlink, Sweep, Kill


\* The history does not forget.
LEMMA ForeignStays ==
  ASSUME [LegacyLockNext]_lockVars, foreign
  PROVE  foreign'
<1>1. ASSUME NEW w \in LockWorkers, Acts(w) PROVE foreign'
  BY <1>1 DEF Acts, Enter, EnterTimeout, Look, Create, Fill, Unlink, Sweep, Kill
<1>2. ASSUME NEW w \in LockWorkers, Calls(w) PROVE foreign'
  BY <1>2 DEF Calls, Call
<1> QED
  BY <1>1, <1>2, LockNextCases DEF SecondPasses, lockVars

\* A lock that holds after a step and was there before it held before it.
LEMMA HeldBefore ==
  ASSUME LegacyLockTypeOK, [LegacyLockNext]_lockVars,
         NEW v \in LockWorkers, NEW p \in LockPaths,
         Holds(v, p)', has'[v][p] = has[v][p]
  PROVE  Holds(v, p)
<1>1. clock \in Int /\ clock' \in Int /\ clock <= clock'
  <2>1. ASSUME NEW w \in LockWorkers, Acts(w) PROVE clock' = clock
    BY <2>1 DEF Acts, Enter, EnterTimeout, Look, Create, Fill, Unlink, Sweep, Kill
  <2>2. ASSUME NEW w \in LockWorkers, Calls(w) PROVE clock' = clock
    BY <2>2 DEF Calls, Call
  <2> QED
    BY <2>1, <2>2, LockNextCases, LockFacts DEF SecondPasses, lockVars, LegacyLockTypeOK
<1>2. has[v][p] # Never /\ clock' - has[v][p] <= StaleAfter
  BY DEF Holds
<1>3. has[v][p] \in Int
  BY <1>2, WorkerTypes, LockFacts
<1>4. clock - has[v][p] <= StaleAfter
  BY <1>1, <1>2, <1>3, LockFacts
<1> QED
  BY <1>2, <1>4 DEF Holds

\* RecordInv, for one page of one worker.
OnRecord(v, p) == IsLock(p) /\ record[p].by = v /\ record[p].epoch = has[v][p]

LEMMA RecordStep ==
  ASSUME LegacyLockTypeOK, InsideInv, RecordInv, [LegacyLockNext]_lockVars
  PROVE  RecordInv'
<1> SUFFICES ASSUME ~foreign', NEW v \in LockWorkers, NEW p \in LockPaths, Holds(v, p)'
             PROVE  OnRecord(v, p)'
  BY DEF RecordInv, OnRecord
<1>0. has'[v][p] = has[v][p] => Holds(v, p) /\ OnRecord(v, p)
  BY HeldBefore, ForeignStays DEF RecordInv, OnRecord
<1>1. ASSUME NEW w \in LockWorkers, Calls(w) \/ Acts(w) PROVE OnRecord(v, p)'
  <2>1. CASE has'[v][p] = has[v][p]
    <3>1. record'[p] = record[p]
      BY <1>0, <1>1, <2>1, LockKept DEF OnRecord
    <3> QED
      BY <1>0, <2>1, <3>1 DEF OnRecord, IsLock
  <2>2. CASE has'[v][p] # has[v][p]
    <3>1. has'[v][p] # Never
      BY DEF Holds
    <3> QED
      BY <1>1, <2>2, <3>1, HasStep, NewFacts DEF OnRecord, IsLock
  <2> QED
    BY <2>1, <2>2
<1>2. CASE SecondPasses \/ UNCHANGED lockVars
  BY <1>0, <1>2 DEF SecondPasses, lockVars, OnRecord, IsLock
<1> QED
  BY <1>1, <1>2, LockNextCases

-----------------------------------------------------------------------------
\* Who gets a page in Python gets it after it has seen no lock on its file.
LEMMA AliasFree ==
  ASSUME LegacyLockTypeOK, InsideInv, RecordInv, ~foreign, tool = "py",
         NEW w \in LockWorkers, step[w] = "create",
         NEW u \in LockWorkers, NEW q \in LockPaths, Holds(u, q)
  PROVE  KeyOf[q] # KeyOf[Path(w)]
<1>1. Held(w, q)
  BY YoungForAll DEF RecordInv
<1>2. ~Excluded(w)
  BY DEF InsideInv
<1> QED
  BY <1>1, <1>2 DEF Excluded

\* Every step keeps OneHolder: in the shell by the record, which has one owner;
\* in Python by what the worker that gets the page has seen.
LEMMA HolderStep ==
  ASSUME LegacyLockTypeOK, InsideInv, RecordInv, OneHolder, [LegacyLockNext]_lockVars
  PROVE  OneHolder'
<1> SUFFICES ASSUME ~foreign', NEW v \in LockWorkers, NEW u \in LockWorkers,
                    NEW p \in LockPaths, NEW q \in LockPaths,
                    Holds(v, p)', Holds(u, q)', OneFile(p, q)', v # u
             PROVE  FALSE
  BY DEF OneHolder
<1>1. ~foreign
  BY ForeignStays
<1>2. tool' = tool
  <2>1. ASSUME NEW w \in LockWorkers, Calls(w) \/ Acts(w) PROVE tool' = tool
    BY <2>1 DEF Acts, Calls, Call, Enter, EnterTimeout, Look, Create, Fill, Unlink, Sweep, Kill
  <2> QED
    BY <2>1, LockNextCases DEF SecondPasses, lockVars
<1>3. p # q
  BY RecordStep DEF RecordInv
<1>4. tool = "py" /\ KeyOf[p] = KeyOf[q]
  BY <1>2, <1>3 DEF OneFile
<1>5. has'[v][p] = has[v][p] => Holds(v, p)
  BY HeldBefore
<1>6. has'[u][q] = has[u][q] => Holds(u, q)
  BY HeldBefore
<1>7. has'[v][p] # Never /\ has'[u][q] # Never
  BY DEF Holds
<1>8. CASE has'[v][p] = has[v][p] /\ has'[u][q] = has[u][q]
  BY <1>1, <1>4, <1>5, <1>6, <1>8 DEF OneHolder, OneFile
<1>9. ASSUME NEW w \in LockWorkers, Calls(w) \/ Acts(w),
             has'[v][p] # has[v][p] \/ has'[u][q] # has[u][q]
      PROVE  FALSE
  <2>1. CASE has'[v][p] # has[v][p]
    <3>1. v = w /\ p = Path(w) /\ step[w] = "create"
      BY <1>4, <1>7, <1>9, <2>1, HasStep
    <3>2. Holds(u, q)
      BY <1>6, <1>7, <1>9, <3>1, HasStep
    <3> QED
      BY <1>1, <1>4, <3>1, <3>2, AliasFree
  <2>2. CASE has'[u][q] # has[u][q]
    <3>1. u = w /\ q = Path(w) /\ step[w] = "create"
      BY <1>4, <1>7, <1>9, <2>2, HasStep
    <3>2. Holds(v, p)
      BY <1>5, <1>7, <1>9, <3>1, HasStep
    <3> QED
      BY <1>1, <1>4, <3>1, <3>2, AliasFree
  <2> QED
    BY <1>9, <2>1, <2>2
<1>10. CASE SecondPasses \/ UNCHANGED lockVars
  BY <1>8, <1>10 DEF SecondPasses, lockVars
<1> QED
  BY <1>8, <1>9, <1>10, LockNextCases

-----------------------------------------------------------------------------
(***************************************************************************)
(* The theorems.                                                           *)
(***************************************************************************)
\* The variables keep their types.
THEOREM LegacyLockTypeCorrect == LegacyLockSpec => []LegacyLockTypeOK
  BY LockTypeInit, LockTypeStep, PTL DEF LegacyLockSpec

\* The invariant holds initially, when nobody has a page or works.
LEMMA LegacyLockInvInit == LegacyLockInit => LegacyLockInv
<1> SUFFICES ASSUME LegacyLockInit PROVE LegacyLockInv
  OBVIOUS
<1>1. \A w \in LockWorkers, p \in LockPaths : ~Holds(w, p)
  BY DEF LegacyLockInit, Holds
<1>2. InsideInv
  <2>1. \A w \in LockWorkers : step[w] = "idle" /\ command[w].now = 0 /\ clock = 0
    BY NoCommandType DEF LegacyLockInit
  <2>2. ASSUME NEW w \in LockWorkers PROVE command[w].now <= clock
    <3>1. command[w].now = 0 /\ clock = 0
      BY <2>1
    <3> HIDE <2>1
    <3> QED
      BY <3>1
  <2> QED
    BY <2>1, <2>2 DEF InsideInv, Inside
<1> QED
  BY <1>1, <1>2, LockTypeInit DEF LegacyLockInv, RecordInv, OneHolder

\* The invariant is inductive.
THEOREM LegacyLockInductive == LegacyLockSpec => []LegacyLockInv
<1>1. LegacyLockInv /\ [LegacyLockNext]_lockVars => LegacyLockInv'
  BY LockTypeStep, SightStep, RecordStep, HolderStep DEF LegacyLockInv
<1> QED
  BY <1>1, LegacyLockInvInit, PTL DEF LegacyLockSpec

\* No page is locked by two workers at a time, under any name of its file,
\* unless a lock was removed that was not its remover's.
THEOREM OneWorkerHolds == LegacyLockSpec => []OneHolder
<1>1. LegacyLockInv => OneHolder
  BY DEF LegacyLockInv
<1> QED
  BY <1>1, LegacyLockInductive, PTL

\* Neither acquire nor the Python clear-stale removes a lock that is not stale,
\* although both judge its age by a time they took before they waited.
THEOREM FreshLocksKept == LegacyLockSpec => FreshRecordKept
<1> DEFINE Kept == \A w \in LockWorkers, p \in LockPaths :
              /\ IsLock(p) /\ record[p].by = w /\ Holds(w, p)
              /\ has[w][p] = record[p].epoch
              /\ record'[p] # record[p]
              => \E v \in LockWorkers :
                   \/ step[v] = "unlink"
                   \/ step[v] = "sweep" /\ tool = "sh"
<1>1. ASSUME LegacyLockInv, [LegacyLockNext]_lockVars
      PROVE  Kept
  <2>1. ASSUME NEW u \in LockWorkers, Calls(u) \/ Acts(u) PROVE Kept
    BY <1>1, <2>1, LockKept DEF LegacyLockInv
  <2>2. CASE SecondPasses \/ UNCHANGED lockVars
    BY <2>2 DEF SecondPasses, lockVars
  <2> QED
    BY <1>1, <2>1, <2>2, LockNextCases
<1>2. LegacyLockInv /\ [LegacyLockNext]_lockVars => [Kept]_lockVars
  BY <1>1
<1>3. [][Kept]_lockVars => FreshRecordKept
  BY DEF FreshRecordKept
<1> QED
  BY <1>2, <1>3, LegacyLockInductive, PTL DEF LegacyLockSpec

=============================================================================
