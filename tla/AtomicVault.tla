---------------------------- MODULE AtomicVault -----------------------------
(***************************************************************************)
(* What the transaction engine promises about a vault whose pages a user   *)
(* may edit at any time: an operation changes the pages nobody else        *)
(* touched all at once or not at all, whatever crashes on the way.         *)
(*                                                                         *)
(* store is the vault as the promise sees it: while an operation is in     *)
(* flight its untouched pages still have their former content, although    *)
(* the files already differ.  A page that the user edits while it is part  *)
(* of an operation in flight is touched: the engine may finish or undo its *)
(* own write there, but never replaces content it does not know.           *)
(***************************************************************************)
CONSTANTS
  Bundles, Paths, Contents,
  Absent,    \* the content of a page that does not exist
  NoBundle,  \* no operation in flight
  PagesOf(_),\* the pages an operation writes
  Old,       \* content an operation expects on each page
  New        \* content it puts there

VARIABLES store, inflight, touched

avars == <<store, inflight, touched>>

Values == Contents \cup {Absent}

Init ==
  /\ store \in [Paths -> Values]
  /\ inflight = NoBundle
  /\ touched = {}

\* The operation becomes durable: what the user changed since it was checked
\* is touched from the start.
Begin(b) ==
  /\ inflight = NoBundle
  /\ inflight' = b
  /\ touched' = {p \in PagesOf(b) : store[p] # Old[b][p]}
  /\ UNCHANGED store

UserEdit(p, c) ==
  /\ store' = [store EXCEPT ![p] = c]
  /\ touched' = IF inflight # NoBundle /\ p \in PagesOf(inflight)
                THEN touched \cup {p} ELSE touched
  /\ UNCHANGED inflight

\* The engine writes a touched page whose content it knows.
Reconcile(p) ==
  /\ inflight # NoBundle
  /\ p \in touched
  /\ store[p] \in {Old[inflight][p], New[inflight][p], Absent}
  /\ \E c \in {Old[inflight][p], New[inflight][p]} :
       store' = [store EXCEPT ![p] = c]
  /\ UNCHANGED <<inflight, touched>>

Commit ==
  /\ inflight # NoBundle
  /\ store' = [p \in Paths |-> IF p \in PagesOf(inflight) \ touched
                               THEN New[inflight][p] ELSE store[p]]
  /\ inflight' = NoBundle
  /\ touched' = {}

Abort ==
  /\ inflight # NoBundle
  /\ inflight' = NoBundle
  /\ touched' = {}
  /\ UNCHANGED store

Next ==
  \/ \E b \in Bundles : Begin(b)
  \/ \E p \in Paths, c \in Values : UserEdit(p, c)
  \/ \E p \in Paths : Reconcile(p)
  \/ Commit
  \/ Abort

Spec == Init /\ [][Next]_avars
=============================================================================
