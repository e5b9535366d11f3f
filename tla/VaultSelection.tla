--------------------------- MODULE VaultSelection ---------------------------
(***************************************************************************)
(* Which vault a command works on, resolve_vault_root of                   *)
(* claude_obsidian/paths.py, and which vault's context the session hook    *)
(* hands to a model, session_start_context of claude_obsidian/             *)
(* hook_adapter.py.                                                        *)
(*                                                                         *)
(* The hook selects a vault, looks for the workspace configuration once    *)
(* more to judge whether the user consented to this one, and then reads.   *)
(* The person changes configurations meanwhile.  Paths are canonical: a    *)
(* directory stands for every spelling of it.                              *)
(***************************************************************************)
EXTENDS Naturals

CONSTANTS
  Directories, ParentOf,   \* the tree; the root is its own parent
  ProductRoot,             \* the installed plugin
  Layouts,                 \* which directories are vaults
  ConfigPlaces,            \* where a workspace configuration may be
  Projects,                \* where the session runs
  Nowhere, BadConfig,      \* no configuration or variable, and an unreadable one
  MaxConfigEdits           \* bound: the person changes configurations

Kinds   == {"plain", "adoptable", "initialized"}
Selectable == Directories \cup {Nowhere}
Selectors == {"environment", "workspace-config", "cwd-discovery"}

ASSUME VaultSelectionAssumption ==
  /\ ParentOf \in [Directories -> Directories]
  /\ ProductRoot \in Directories /\ ConfigPlaces \subseteq Directories
  /\ Projects \subseteq Directories
  /\ Layouts \subseteq [Directories -> Kinds]
  /\ {Nowhere, BadConfig} \cap Directories = {} /\ Nowhere # BadConfig
  /\ MaxConfigEdits \in Nat

VARIABLES
  kind,        \* what a directory is
  config,      \* what its workspace configuration names
  environment, \* CLAUDE_OBSIDIAN_VAULT
  exact,       \* CLAUDE_OBSIDIAN_SESSION_CONTEXT_VAULT
  session,     \* where the hook is, and what it selected
  configured,  \* history: where a configuration has been during the hook
  configEdits

selectionVars == <<kind, config, environment, exact, session, configured,
                   configEdits>>

VaultSelectionTypeOK ==
  /\ kind \in Layouts
  /\ config \in [Directories -> Selectable \cup {BadConfig}]
  /\ environment \in Selectable /\ exact \in Selectable
  /\ session \in [at : {"select", "consent", "read", "told", "silent"},
                  project : Projects, root : Selectable, source : Selectors]
  /\ session.at \in {"consent", "read", "told"} => session.root \in Directories
  /\ configured \subseteq Directories
  /\ configEdits \in 0..MaxConfigEdits

-----------------------------------------------------------------------------
\* The ancestors of a directory, itself included: what is in every set that has it
\* and with a directory its parent.
AncestorsOf ==
  [d \in Directories |->
     {a \in Directories :
        \A ds \in SUBSET Directories :
          d \in ds /\ (\A e \in ds : ParentOf[e] \in ds) => a \in ds}]
Ancestors(d) == AncestorsOf[d]
Under(d, e) == e \in Ancestors(d)

\* The nearest ancestor that is so.
Nearest(d, ds) ==
  IF Ancestors(d) \cap ds = {} THEN Nowhere
  ELSE CHOOSE e \in Ancestors(d) \cap ds :
         \A a \in Ancestors(d) \cap ds : Under(e, a)

Configured  == {d \in Directories : config[d] # Nowhere}
Initialized == {d \in Directories : kind[d] = "initialized"}
NearestConfig(d) == Nearest(d, Configured)
NearestVault(d)  == Nearest(d, Initialized)

\* resolve_vault_root: the first source there is decides; what it names must be a
\* vault (validate_vault_root) and no part of the product (assert_not_plugin_tree).
Refused == [root |-> Nowhere, source |-> "cwd-discovery"]

\* is_adoptable_vault: a workspace configuration of its own is enough.
Adoptable(root) == kind[root] # "plain" \/ config[root] # Nowhere

Accepted(root, source) ==
  IF root \notin Directories \/ ~Adoptable(root) \/ Under(root, ProductRoot)
  THEN Refused ELSE [root |-> root, source |-> source]

ResolveVaultRoot(cwd) ==
  IF environment # Nowhere THEN Accepted(environment, "environment")
  ELSE IF NearestConfig(cwd) # Nowhere
       THEN IF config[NearestConfig(cwd)] = BadConfig THEN Refused
            ELSE Accepted(config[NearestConfig(cwd)], "workspace-config")
       ELSE IF Under(cwd, ProductRoot) THEN Refused
            ELSE Accepted(NearestVault(cwd), "cwd-discovery")

\* Wrong variant: the opt-in holds for any vault.
OptedIn(root, source) == TRUE
\* _context_selection_is_consented: the opt-in is given for all vaults, and a
\* project's configuration may not spend it on a vault elsewhere.
Consented(root, source) ==
  \/ source # "workspace-config"
  \/ /\ NearestConfig(session.project) # Nowhere
     /\ Under(root, NearestConfig(session.project))
  \/ exact = root

VaultSelectionInit ==
  /\ kind \in Layouts
  /\ config \in {c \in [Directories -> Selectable \cup {BadConfig}] :
                   \A d \in Directories \ ConfigPlaces : c[d] = Nowhere}
  /\ environment \in Selectable /\ exact \in Selectable
  /\ \E p \in Projects :
       session = [at |-> "select", project |-> p, root |-> Nowhere,
                  source |-> "cwd-discovery"]
  /\ configured = Configured
  /\ configEdits = 0

-----------------------------------------------------------------------------
selectionWorld == <<kind, config, environment, exact, configured, configEdits>>

SelectVault ==
  /\ session.at = "select"
  /\ LET s == ResolveVaultRoot(session.project)
     IN  session' = [session EXCEPT
           !.at = IF s.root = Nowhere THEN "silent" ELSE "consent",
           !.root = s.root, !.source = s.source]
  /\ UNCHANGED selectionWorld

CheckConsent ==
  /\ session.at = "consent"
  /\ session' = [session EXCEPT
       !.at = IF Consented(session.root, session.source) THEN "read" ELSE "silent"]
  /\ UNCHANGED selectionWorld

\* wiki/hot.md, cut off at a limit; nothing when it cannot be read safely.
ReadHotPage ==
  /\ session.at = "read"
  /\ session' = [session EXCEPT !.at = "told"]
  /\ UNCHANGED selectionWorld

EditConfig(d) ==
  /\ session.at \in {"consent", "read"} /\ configEdits < MaxConfigEdits
  /\ \E c \in Selectable \cup {BadConfig} :
       c # config[d] /\ config' = [config EXCEPT ![d] = c]
  /\ configured' = configured \cup {e \in Directories : config'[e] # Nowhere}
  /\ configEdits' = configEdits + 1
  /\ UNCHANGED <<kind, environment, exact, session>>

VaultSelectionNext ==
  \/ SelectVault \/ CheckConsent \/ ReadHotPage
  \/ \E d \in ConfigPlaces : EditConfig(d)

VaultSelectionSpec == VaultSelectionInit /\ [][VaultSelectionNext]_selectionVars

-----------------------------------------------------------------------------
\* A project cannot make the hook hand over a vault elsewhere: the told vault
\* contains the project, or lies under a directory above the project that had a
\* configuration while the hook ran, or is one that the user's environment names.
OnlyConsentedContext ==
  session.at = "told" =>
    \/ Under(session.project, session.root)
    \/ \E d \in configured : Under(session.project, d) /\ Under(session.root, d)
    \/ session.root \in {environment, exact}

-----------------------------------------------------------------------------
(***************************************************************************)
(* The inductive invariant behind it.                                      *)
(***************************************************************************)
\* Whom a selected vault was selected by, and a configured one allowed by.
ConsentInv ==
  /\ Configured \subseteq configured
  /\ session.at \in {"consent", "read", "told"} =>
       /\ session.source = "environment" => session.root = environment
       /\ session.source = "cwd-discovery" => Under(session.project, session.root)
  /\ session.at \in {"read", "told"} /\ session.source = "workspace-config" =>
       \/ \E d \in configured : Under(session.project, d) /\ Under(session.root, d)
       \/ session.root = exact

VaultSelectionInv == VaultSelectionTypeOK /\ ConsentInv
=============================================================================
