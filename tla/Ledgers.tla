------------------------------ MODULE Ledgers ------------------------------
(***************************************************************************)
(* The provenance ledgers: claude_obsidian/ledgers.py, and the check of    *)
(* every bundle that writes one of them (_validate_provenance_writes in    *)
(* transaction.py).                                                        *)
(*                                                                         *)
(* The source ledger says where a source comes from, what its bytes are    *)
(* and until when it counts as fresh; the claim ledger says which sources  *)
(* support a claim.  The pair is checked as it will be after a bundle.     *)
(* Days pass, and files change, without a bundle.                          *)
(*                                                                         *)
(* A source's id is a hash of its origin and bytes (stable_source_id), so  *)
(* the source ledger is a function on such pairs.  One claim stands for    *)
(* all: nothing relates two of them.  Titles, notes, confidence and the    *)
(* syntax of ids and URLs are left out; ill-formed records are refused     *)
(* before anything is compared.  That a claim's page exists and has its    *)
(* anchor is a check of the same kind as that of a source's bytes; sources *)
(* an assistant wrote itself never count as support and are left out too,  *)
(* and so is evidence that contradicts, which notes can always answer.     *)
(***************************************************************************)
EXTENDS Integers, Sequences, FiniteSets

CONSTANTS
  Sources,        \* pairs of an origin and the bytes found there
  FileOrigins,    \* origins that are files of the vault
  Evidence,       \* lists of sources a claim may name as its support
  Publishers, NoPublisher,
  PublishersOf,   \* whom an ingest may name as the publisher of a source
  Unlisted, NoClaim, NoBytes,
  LastDay         \* bound: the calendar

Origin(s) == s[1]
Bytes(s)  == s[2]
Days      == 0..LastDay
Records   == [publisher : Publishers \cup {NoPublisher}, observed : Days,
              due : Days, active : BOOLEAN]
\* "high" is an accepted claim of high risk, "accepted" any other accepted one.
Claims    == [grade : {"provisional", "accepted", "high"}, reviewed : Days,
              support : Evidence]

ASSUME LedgersAssumption ==
  /\ Evidence \subseteq Seq(Sources)
  /\ PublishersOf \in [Sources -> SUBSET (Publishers \cup {NoPublisher})]
  /\ NoPublisher \notin Publishers /\ Unlisted \notin Records
  /\ NoClaim \notin Claims /\ LastDay \in Nat

VARIABLES
  today,
  fileBytes,  \* the bytes of file sources
  sources,    \* the source ledger
  claim,      \* the claim ledger's claim
  present,    \* which of the two ledgers exist
  checked     \* history: the day of the last bundle with a ledger

ledgerVars == <<today, fileBytes, sources, claim, present, checked>>

LedgersTypeOK ==
  /\ today \in Days
  /\ fileBytes \in [FileOrigins -> {Bytes(s) : s \in Sources} \cup {NoBytes}]
  /\ sources \in [Sources -> Records \cup {Unlisted}]
  /\ claim \in Claims \cup {NoClaim}
  /\ present \subseteq {"sources", "claims"}
  /\ checked \in Days

LedgersInit ==
  /\ today = 0
  /\ fileBytes = [o \in FileOrigins |-> NoBytes]
  /\ sources = [s \in Sources |-> Unlisted]
  /\ claim = NoClaim
  /\ present = {}
  /\ checked = 0

-----------------------------------------------------------------------------
(***************************************************************************)
(* validate_source_ledger and validate_claim_ledger                        *)
(***************************************************************************)
\* Whatever a record's status is, a file that exists has the bytes recorded.
SourceValid(s, r, files, day) ==
  /\ r.observed <= day /\ r.observed <= r.due
  /\ Origin(s) \in FileOrigins =>
       \/ files[Origin(s)] = Bytes(s)
       \/ files[Origin(s)] = NoBytes /\ ~r.active

SourcesValid(ledger, files, day) ==
  \A s \in Sources : ledger[s] # Unlisted => SourceValid(s, ledger[s], files, day)

\* Wrong variant: a source is stale on the day its refresh is due.
StaleWhenDue(r, day) == r.due <= day \/ r.observed > day

\* source_is_stale
Stale(r, day) == r.due < day \/ r.observed > day

\* The places of the support that was there to be reviewed, and is still fresh.
FreshSupport(ledger, c, day) ==
  {i \in DOMAIN c.support :
     LET r == ledger[c.support[i]]
     IN r.active /\ ~Stale(r, day) /\ r.observed <= c.reviewed}

\* Two sources with one origin, the same bytes or the same publisher.
Share(ledger, s, t) ==
  \/ Origin(s) = Origin(t) \/ Bytes(s) = Bytes(t)
  \/ /\ ledger[s].publisher = ledger[t].publisher
     /\ ledger[s].publisher # NoPublisher

-----------------------------------------------------------------------------
(***************************************************************************)
(* _independent_group_count: union-find over the places of fresh support,  *)
(* each with its parent.  The shortcuts find makes change no root and are  *)
(* left out.                                                               *)
(***************************************************************************)
\* The places that find comes by: the least set with i and their parents.
Trail(parents, i) ==
  {j \in DOMAIN parents :
     \A seen \in SUBSET DOMAIN parents :
       i \in seen /\ (\A k \in seen : parents[k] \in seen) => j \in seen}

\* find goes on to a place that is its own parent.
Find(parents, i) == CHOOSE r \in Trail(parents, i) : parents[r] = r

\* Wrong variant: the later source is hung below the earlier, not root to root.
UniteLeaves(parents, l, r) == [parents EXCEPT ![r] = l]

\* union
Unite(parents, l, r) == [parents EXCEPT ![Find(parents, r)] = Find(parents, l)]

\* The inner loop: place l and every later one it shares something with.
UniteLater(ledger, list, fresh, before, l) ==
  LET after[r \in l..Len(list)] ==
        IF r = l THEN before
        ELSE IF {l, r} \subseteq fresh /\ Share(ledger, list[l], list[r])
             THEN Unite(after[r - 1], l, r) ELSE after[r - 1]
  IN after[Len(list)]

\* The outer loop.
Groups(ledger, list, fresh) ==
  LET after[l \in 0..Len(list)] ==
        IF l = 0 THEN [i \in DOMAIN list |-> i]
        ELSE UniteLater(ledger, list, fresh, after[l - 1], l)
  IN after[Len(list)]

GroupCount(ledger, list, fresh) ==
  Cardinality({Find(Groups(ledger, list, fresh), i) : i \in fresh})

ClaimValid(c, ledger, day) ==
  /\ \A i \in DOMAIN c.support : ledger[c.support[i]] # Unlisted
  /\ c.reviewed <= day
  /\ c.grade = "accepted" => FreshSupport(ledger, c, day) # {}
  /\ c.grade = "high" =>
       GroupCount(ledger, c.support, FreshSupport(ledger, c, day)) >= 2

\* _validate_provenance_writes: the pair as it will be, on the day of the apply.
PairValid(ledger, c, files, day) ==
  /\ SourcesValid(ledger, files, day)
  /\ c # NoClaim => ClaimValid(c, ledger, day)

-----------------------------------------------------------------------------
(***************************************************************************)
(* Bundles                                                                 *)
(***************************************************************************)
Commit(ledger, c, files) ==
  /\ PairValid(ledger, c, files, today)
  /\ sources' = ledger /\ claim' = c /\ fileBytes' = files
  /\ checked' = today
  /\ UNCHANGED today

\* An ingest lists a source, with a copy of it when it is a file, or retires one.
RecordSource(s, r) ==
  /\ r.publisher \in PublishersOf[s]
  /\ Commit([sources EXCEPT ![s] = r], claim,
            IF Origin(s) \in FileOrigins /\ fileBytes[Origin(s)] = NoBytes
            THEN [fileBytes EXCEPT ![Origin(s)] = Bytes(s)] ELSE fileBytes)
  /\ present' = present \cup {"sources"}

\* A claim is made or assessed anew; a bundle with a claim ledger needs sources.
RecordClaim(c) ==
  /\ "sources" \in present
  /\ Commit(sources, c, fileBytes)
  /\ present' = present \cup {"claims"}

\* migrate_legacy_manifest: a file listed there becomes an unreviewed source.
Migrated ==
  [s \in Sources |->
     IF Origin(s) \in FileOrigins /\ fileBytes[Origin(s)] = Bytes(s)
     THEN [publisher |-> NoPublisher, observed |-> 0, due |-> LastDay,
           active |-> FALSE]
     ELSE Unlisted]

\* The sources an existing claim ledger is validated against.
Effective == IF "sources" \in present THEN sources ELSE Migrated

\* migration_bundle validates what is there and what it adds, ...
MigrationPlanned ==
  /\ SourcesValid(Migrated, fileBytes, today)
  /\ "sources" \in present => SourcesValid(sources, fileBytes, today)
  /\ claim # NoClaim => ClaimValid(claim, Effective, today)

\* ... and writes only a ledger that is missing; its claim ledger is empty.
AfterMigration == IF "sources" \in present THEN sources ELSE Migrated

Migrate ==
  /\ MigrationPlanned
  /\ present # {"sources", "claims"}
  /\ Commit(AfterMigration, claim, fileBytes)
  /\ present' = {"sources", "claims"}

-----------------------------------------------------------------------------
(***************************************************************************)
(* Without a bundle                                                        *)
(***************************************************************************)
DayPasses ==
  /\ today < LastDay
  /\ today' = today + 1
  /\ UNCHANGED <<fileBytes, sources, claim, present, checked>>

\* The person edits or removes a file source.
EditSource(o, b) ==
  /\ b # fileBytes[o]
  /\ fileBytes' = [fileBytes EXCEPT ![o] = b]
  /\ UNCHANGED <<today, sources, claim, present, checked>>

LoseSources ==
  /\ "sources" \in present
  /\ present' = present \ {"sources"}
  /\ sources' = [s \in Sources |-> Unlisted]
  /\ UNCHANGED <<today, fileBytes, claim, checked>>

LedgersNext ==
  \/ \E s \in Sources, r \in Records : RecordSource(s, r)
  \/ \E c \in Claims : RecordClaim(c)
  \/ Migrate
  \/ DayPasses
  \/ \E o \in FileOrigins, b \in {Bytes(s) : s \in Sources} \cup {NoBytes} :
       EditSource(o, b)
  \/ LoseSources

LedgersSpec == LedgersInit /\ [][LedgersNext]_ledgerVars

-----------------------------------------------------------------------------
(***************************************************************************)
(* Properties                                                              *)
(***************************************************************************)
Supporters == {claim.support[i] : i \in DOMAIN claim.support}

\* What supported the claim when a ledger was last written.
Counted == {s \in Supporters :
              /\ sources[s].active /\ sources[s].due >= checked
              /\ sources[s].observed <= claim.reviewed}

\* A high-risk claim that is accepted rests on evidence that can be parted in
\* two, no source of one part sharing origin, bytes or publisher with any of the
\* other: a chain of sources that share something counts once, however the
\* claim lists it.
IndependentEvidence ==
  claim # NoClaim /\ claim.grade = "high" /\ "sources" \in present =>
    \E part \in SUBSET Counted :
      /\ part # {} /\ part # Counted
      /\ \A s \in part, t \in Counted \ part : ~Share(sources, s, t)

\* Time alone makes the ledgers invalid, and with them every later bundle that
\* writes one, only on the day after the refresh of a supporting source was due.
ExpiresOnlyWhenDue ==
  [][today' > today /\ "sources" \in present =>
       \/ PairValid(sources, claim, fileBytes, today')
       \/ ~PairValid(sources, claim, fileBytes, today)
       \/ \E s \in Supporters : sources[s].due = today]_ledgerVars

-----------------------------------------------------------------------------
(***************************************************************************)
(* What the grouping promises, and the invariant behind the first.         *)
(***************************************************************************)
\* A set of fresh places that nothing outside shares anything with.
Apart(ledger, list, fresh, places) ==
  /\ places \subseteq fresh
  /\ \A i \in places, j \in fresh \ places : ~Share(ledger, list[i], list[j])

\* Two places are in one group just if nothing sets the one apart from the other.
GroupsAreShared(ledger, list, fresh) ==
  LET groups == Groups(ledger, list, fresh)
  IN \A i, j \in fresh :
       Find(groups, i) = Find(groups, j) <=>
         \A places \in SUBSET fresh :
           Apart(ledger, list, fresh, places) /\ i \in places => j \in places

\* What the last bundle found is so of its day until a bundle changes it.
CheckedInv ==
  "sources" \in present =>
    /\ claim # NoClaim => ClaimValid(claim, sources, checked)
    /\ \A s \in Sources : sources[s] # Unlisted => sources[s].observed <= checked

LedgersInv == LedgersTypeOK /\ CheckedInv
=============================================================================
