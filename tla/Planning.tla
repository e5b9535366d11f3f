------------------------------ MODULE Planning ------------------------------
(***************************************************************************)
(* Plans, their approval, and page addresses: inspect_bundle, the approval *)
(* that apply_bundle asks for, and _expand_managed_metadata of             *)
(* claude_obsidian/transaction.py.                                         *)
(*                                                                         *)
(* An assistant drafts a bundle against the pages as it reads them.        *)
(* inspect shows what the bundle would do, addresses included, and gives a *)
(* hash of that; the user hands the hash to apply, which plans once more   *)
(* under the mutation lock and refuses when it comes to anything else.     *)
(* inspect takes no lock, and the person saves pages, the address map      *)
(* (in .raw/.manifest.json) and the counter beside both.                   *)
(*                                                                         *)
(* That an apply is atomic is the matter of Transaction; here its writes   *)
(* are one step.  The apply's own earlier inspect, before the lock, only   *)
(* refuses sooner what would be refused under it.  A call that is refused  *)
(* changes nothing.                                                        *)
(***************************************************************************)
EXTENDS Integers, Sequences

CONSTANTS
  Bundles, Notes, Prefixes,
  WritesOf,      \* the pages of a bundle
  RequestsOf,    \* its address requests, in order
  AddressLines,  \* what a bundle's content, or a page that the person writes, may
                 \* carry as address lines, besides those of the pages
  Person,        \* the author of what no bundle wrote
  NoAddress, NoNote, NoPlan, NoDraft,
  MaxAddress,    \* 999999
  SavesWhilePinning, \* may the map or the counter be saved between their two reads?
  MaxSaves       \* bound: what the person saves

Addresses == Prefixes \X (1..MaxAddress + 1)
Versions  == 0..1
Page      == [by : Bundles \cup {Person}, version : Versions,
              address : Addresses \cup {NoAddress}]
Pages     == [Notes -> Page \cup {NoNote}]
Maps      == [Notes -> Addresses \cup {NoAddress}]
Counters  == 0..MaxAddress + 1     \* 0: the file is missing
Texts     == [version : Versions, lines : Maps]
Callers   == {"inspect", "apply"}
Plans     == [root : 0..1, from : Pages, fromMap : Maps, fromCounter : Counters,
              to : Pages, map : Maps, counter : Counters]
Works     == [root : 0..1, bundle : Bundles, map : Maps, counter : Counters, to : Pages,
              next : 1..3, fromMap : Maps, fromCounter : Counters]

ASSUME PlanningAssumption ==
  /\ Bundles # {} /\ Person \notin Bundles
  /\ WritesOf \in [Bundles -> SUBSET Notes]
  /\ RequestsOf \in [Bundles -> Seq(Notes \X Prefixes)]
  /\ \A b \in Bundles : /\ Len(RequestsOf[b]) \in 1..2
                        /\ \A i \in 1..Len(RequestsOf[b]) :
                             RequestsOf[b][i][1] \in WritesOf[b]
  /\ AddressLines \in [Bundles \cup {Person} -> SUBSET Maps]
  /\ NoAddress \notin Addresses /\ NoNote \notin Page
  /\ NoPlan \notin Plans /\ NoDraft \notin Pages
  /\ MaxAddress \in Nat \ {0} /\ MaxSaves \in Nat
  /\ SavesWhilePinning \in BOOLEAN

VARIABLES
  notes,      \* the pages
  addressMap, \* address_map of the manifest; empty when there is no manifest
  counter,    \* address-counter.txt
  root,       \* which directory the vault's path names
  draft,      \* a bundle's expected pages, once it is drafted
  text,       \* a bundle's content: its version, and each page's address line
  approved,   \* what the user saw of a bundle and approved
  applied,    \* what a bundle's apply has done
  at, work,   \* where inspect and apply are, and what they have gathered
  mapHarmed,  \* history: the person dropped or doubled a map entry
  borrowed,   \* history: pages written without a request, or by the person,
              \* with an address line that is not the map's
  saves

planCalls == <<at, work>>
planVars  == <<notes, addressMap, counter, root, draft, text, approved, applied,
               planCalls, mapHarmed, borrowed, saves>>

PlanningTypeOK ==
  /\ notes \in Pages
  /\ addressMap \in Maps
  /\ counter \in Counters
  /\ root \in 0..1
  /\ draft \in [Bundles -> Pages \cup {NoDraft}]
  /\ text \in [Bundles -> Texts]
  /\ approved \in [Bundles -> Plans \cup {NoPlan}]
  /\ applied \in [Bundles -> Plans \cup {NoPlan}]
  /\ at \in [Callers -> {"idle", "counter", "allocate", "conclude"}]
  /\ work \in [Callers -> Works]
  /\ mapHarmed \in BOOLEAN
  /\ borrowed \subseteq Notes
  /\ saves \in 0..MaxSaves

EmptyMap == [n \in Notes |-> NoAddress]
NoWork   == [root |-> 0, bundle |-> CHOOSE b \in Bundles : TRUE, map |-> EmptyMap,
             counter |-> 0, to |-> [n \in Notes |-> NoNote], next |-> 1,
             fromMap |-> EmptyMap, fromCounter |-> 0]

PlanningInit ==
  /\ notes = [n \in Notes |-> NoNote]
  /\ addressMap = EmptyMap
  /\ counter = 0
  /\ root = 0
  /\ draft = [b \in Bundles |-> NoDraft]
  /\ text = [b \in Bundles |-> [version |-> 0, lines |-> EmptyMap]]
  /\ approved = [b \in Bundles |-> NoPlan]
  /\ applied = [b \in Bundles |-> NoPlan]
  /\ at = [k \in Callers |-> "idle"]
  /\ work = [k \in Callers |-> NoWork]
  /\ mapHarmed = FALSE /\ borrowed = {}
  /\ saves = 0

-----------------------------------------------------------------------------
(***************************************************************************)
(* The bundle, and the expansion of its requests                           *)
(***************************************************************************)
\* _validate_address_map: no address is given to two pages.
Unique(map) == \A m, n \in Notes :
                 map[m] = map[n] /\ map[m] # NoAddress => m = n
Used(map) == {map[n] : n \in Notes} \ {NoAddress}

Quit(k) == /\ at' = [at EXCEPT ![k] = "idle"]
           /\ work' = [work EXCEPT ![k] = NoWork]
GoOn(k, where) == at' = [at EXCEPT ![k] = where]

\* The address lines that the pages have now.
PageLines == [n \in Notes |-> IF notes[n] = NoNote THEN NoAddress
                              ELSE notes[n].address]
OfferedLines(who) == AddressLines[who] \cup {PageLines}

\* The assistant reads the pages and writes the bundle; its content carries the
\* address lines of the pages or any other, which the engine compares with the
\* map for the pages with a request only.  A new draft voids the old approval.
Draft(b, lines) ==
  /\ applied[b] = NoPlan
  /\ \A k \in Callers : at[k] # "idle" => work[k].bundle # b
  /\ draft' = [draft EXCEPT ![b] = notes]
  /\ text' = [text EXCEPT ![b].lines = lines]
  /\ approved' = [approved EXCEPT ![b] = NoPlan]
  /\ UNCHANGED <<notes, addressMap, counter, root, applied, planCalls,
                 mapHarmed, borrowed, saves>>

\* The vault is pinned, and its manifest is read first.
Begin(k, b) ==
  /\ at[k] = "idle"
  /\ draft[b] # NoDraft /\ applied[b] = NoPlan
  /\ k = "apply" => approved[b] # NoPlan
  /\ Unique(addressMap)
  /\ work' = [work EXCEPT ![k] = [NoWork EXCEPT !.root = root, !.bundle = b,
                                                  !.map = addressMap]]
  /\ GoOn(k, "counter")
  /\ UNCHANGED <<notes, addressMap, counter, root, draft, text, approved,
                 applied, mapHarmed, borrowed, saves>>

ReadCounter(k) ==
  /\ at[k] = "counter"
  /\ IF counter > MaxAddress
     THEN Quit(k)
     ELSE /\ work' = [work EXCEPT ![k].counter = IF counter = 0 THEN 1 ELSE counter]
          /\ GoOn(k, "allocate")
  /\ UNCHANGED <<notes, addressMap, counter, root, draft, text, approved,
                 applied, mapHarmed, borrowed, saves>>

\* The page as the bundle writes it, with the address given or declared.
Rewritten(b, address) ==
  [by |-> b, version |-> text[b].version, address |-> address]
Declared(b, n)  == text[b].lines[n]
Requested(b)    == {RequestsOf[b][i][1] : i \in DOMAIN RequestsOf[b]}

\* _inject_address: a page that declares another address is refused.
Agrees(b, n, address) == Declared(b, n) \in {NoAddress, address}

More(k) == work[k].next <= Len(RequestsOf[work[k].bundle])

Give(k, n, address, taken) ==
  work' = [work EXCEPT ![k].map[n] = address,
                       ![k].counter = @ + taken,
                       ![k].to[n] = Rewritten(work[k].bundle, address),
                       ![k].next = @ + 1]

\* Wrong variant: an address in use is not noticed.
AvailableTwice(w, address) == w.counter <= MaxAddress

Available(w, address) ==
  w.counter <= MaxAddress /\ address \notin Used(w.map)

\* One request after the other: a page keeps the address of the map, another
\* one gets the counter's.
Allocate(k) ==
  /\ at[k] = "allocate"
  /\ More(k)
  /\ LET w      == work[k]
         n      == RequestsOf[w.bundle][w.next][1]
         prefix == RequestsOf[w.bundle][w.next][2]
         known  == w.map[n]
         fresh  == <<prefix, w.counter>>
         may    == IF known = NoAddress
                   THEN Available(w, fresh) /\ Agrees(w.bundle, n, fresh)
                   ELSE known[1] = prefix /\ Agrees(w.bundle, n, known)
     IN \/ may /\ known = NoAddress /\ Give(k, n, fresh, 1) /\ UNCHANGED at
        \/ may /\ known # NoAddress /\ Give(k, n, known, 0) /\ UNCHANGED at
        \/ ~may /\ Quit(k)
  /\ UNCHANGED <<notes, addressMap, counter, root, draft, text, approved,
                 applied, mapHarmed, borrowed, saves>>

\* expected_hashes of the two managed files come from a second read; the pages
\* without a request are read now, and keep the line that they declare.
Pin(k) ==
  /\ at[k] = "allocate"
  /\ ~More(k)
  /\ work' = [work EXCEPT
       ![k].fromMap = addressMap, ![k].fromCounter = counter,
       ![k].to = [n \in Notes |->
         IF n \in WritesOf[work[k].bundle] \ Requested(work[k].bundle)
         THEN Rewritten(work[k].bundle, Declared(work[k].bundle, n)) ELSE @[n]]]
  /\ GoOn(k, "conclude")
  /\ UNCHANGED <<notes, addressMap, counter, root, draft, text, approved,
                 applied, mapHarmed, borrowed, saves>>

-----------------------------------------------------------------------------
(***************************************************************************)
(* _prepare_writes and plan_approval_sha256                                *)
(***************************************************************************)

\* Every file a plan writes is as it expects it.
AsExpected(w) ==
  /\ addressMap = w.fromMap /\ counter = w.fromCounter
  /\ \A n \in WritesOf[w.bundle] : notes[n] = draft[w.bundle][n]

PlanOf(w) ==
  [root |-> w.root, from |-> draft[w.bundle], fromMap |-> w.fromMap,
   fromCounter |-> w.fromCounter, to |-> w.to, map |-> w.map,
   counter |-> w.counter]

\* inspect_bundle ends, still in the same vault; the user approves what it shows.
Inspected(b) ==
  LET w == work["inspect"]
  IN /\ at["inspect"] = "conclude" /\ w.bundle = b
     /\ approved' = IF AsExpected(w) /\ w.root = root /\ applied[b] = NoPlan
                    THEN [approved EXCEPT ![b] = PlanOf(w)] ELSE approved
     /\ Quit("inspect")
     /\ UNCHANGED <<notes, addressMap, counter, root, draft, text, applied,
                    mapHarmed, borrowed, saves>>

\* A line that is not the page's own by the map w.map.
NotOwn(line, map, n) == line \notin {NoAddress, map[n]}

Write(b, w) ==
  /\ notes' = [n \in Notes |-> IF n \in WritesOf[b] THEN w.to[n] ELSE notes[n]]
  /\ addressMap' = w.map /\ counter' = w.counter
  /\ applied' = [applied EXCEPT ![b] = PlanOf(w)]
  /\ borrowed' = (borrowed \ WritesOf[b])
       \cup {n \in WritesOf[b] \ Requested(b) : NotOwn(w.to[n].address, w.map, n)}

\* Wrong variant: the hash is of the bundle as drafted, not as expanded.
SameBundle(w) == approved[w.bundle].from = draft[w.bundle]

\* The hash of the plan is the one handed to apply.
IsApproved(w) == PlanOf(w) = approved[w.bundle]

\* apply_bundle, with the lock: the plan must be the approved one.
Apply(b) ==
  LET w == work["apply"]
  IN /\ at["apply"] = "conclude" /\ w.bundle = b
     /\ IF AsExpected(w) /\ IsApproved(w) THEN Write(b, w)
        ELSE UNCHANGED <<notes, addressMap, counter, applied, borrowed>>
     /\ Quit("apply")
     /\ UNCHANGED <<root, draft, text, approved, mapHarmed, saves>>

-----------------------------------------------------------------------------
(***************************************************************************)
(* The person, a sync tool, the assistant with its draft files             *)
(***************************************************************************)
Save == saves < MaxSaves /\ saves' = saves + 1

Pinning == at["apply"] \in {"counter", "allocate"}
SaveManaged == Save /\ (SavesWhilePinning \/ ~Pinning)

\* A page is written by hand, with whatever address line, or goes.
SavePage(n, line) ==
  /\ Save
  /\ notes' = [notes EXCEPT ![n] = [by |-> Person, version |-> 0, address |-> line]]
  /\ borrowed' = IF NotOwn(line, addressMap, n) THEN borrowed \cup {n}
                 ELSE borrowed \ {n}
  /\ UNCHANGED <<addressMap, counter, root, draft, text, approved, applied,
                 planCalls, mapHarmed>>

DeletePage(n) ==
  /\ Save
  /\ notes[n] # NoNote
  /\ notes' = [notes EXCEPT ![n] = NoNote]
  /\ borrowed' = borrowed \ {n}
  /\ UNCHANGED <<addressMap, counter, root, draft, text, approved, applied,
                 planCalls, mapHarmed>>

\* An older or merged manifest comes back: an entry is gone, or stands twice.
SaveMap(m, n) ==
  /\ SaveManaged
  /\ \/ addressMap' = [addressMap EXCEPT ![m] = NoAddress]
     \/ addressMap' = [addressMap EXCEPT ![m] = addressMap[n]]
  /\ addressMap' # addressMap
  /\ mapHarmed' = TRUE
  /\ UNCHANGED <<notes, counter, root, draft, text, approved, applied, planCalls,
                 borrowed>>

SaveCounter(c) ==
  /\ SaveManaged
  /\ counter' = c /\ c # counter
  /\ UNCHANGED <<notes, addressMap, root, draft, text, approved, applied,
                 planCalls, mapHarmed, borrowed>>

\* The content of a bundle that waits is written anew, with or without new lines.
RewriteText(b, lines) ==
  /\ Save
  /\ draft[b] # NoDraft /\ applied[b] = NoPlan
  /\ text' = [text EXCEPT ![b] = [version |-> 1 - @.version, lines |-> lines]]
  /\ UNCHANGED <<notes, addressMap, counter, root, draft, approved, applied,
                 planCalls, mapHarmed, borrowed>>

\* The vault is replaced by a copy; a call under way stays with its directory,
\* and an apply notices that its lock has gone.
ReplaceVault ==
  /\ Save
  /\ at["apply"] = "idle"
  /\ root' = 1 - root
  /\ UNCHANGED <<notes, addressMap, counter, draft, text, approved, applied,
                 planCalls, mapHarmed, borrowed>>

PlanningNext ==
  \/ \E b \in Bundles : \/ Inspected(b) \/ Apply(b)
                        \/ \E l \in OfferedLines(b) : Draft(b, l) \/ RewriteText(b, l)
  \/ \E k \in Callers : \/ \E b \in Bundles : Begin(k, b)
                        \/ ReadCounter(k) \/ Allocate(k) \/ Pin(k)
  \/ \E n \in Notes : \/ DeletePage(n) \/ \E m \in Notes : SaveMap(m, n)
                      \/ \E l \in OfferedLines(Person) : SavePage(n, l[n])
  \/ \E c \in Counters : SaveCounter(c)
  \/ ReplaceVault

PlanningSpec == PlanningInit /\ [][PlanningNext]_planVars

-----------------------------------------------------------------------------
(***************************************************************************)
(* Properties                                                              *)
(***************************************************************************)
Applies(b) == applied[b] = NoPlan /\ applied'[b] # NoPlan

\* However the counter was lost or set back, and whatever the map looked like
\* before: an apply writes no map in which two pages have one address, changes or
\* loses no address that is there, gives one only to a page that its bundle asks
\* about, and none beyond the last six-digit one.
MapStaysSound ==
  [][\A b \in Bundles : Applies(b) =>
       /\ Unique(addressMap')
       /\ \A n \in Notes : addressMap'[n] # addressMap[n] =>
            /\ addressMap[n] = NoAddress
            /\ addressMap'[n][2] <= MaxAddress
            /\ \E i \in DOMAIN RequestsOf[b] : RequestsOf[b][i][1] = n]_planVars

\* Nor do two pages ever declare one address, as long as nobody harmed the map
\* (it makes up for a lost counter), unless one of them was written with the
\* other's line by hand or without a request, where nothing compares the two.
OneAddressPerPage ==
  \A m, n \in Notes :
    /\ m # n /\ notes[m] # NoNote /\ notes[n] # NoNote
    /\ notes[m].address = notes[n].address
    => notes[m].address = NoAddress \/ mapHarmed \/ {m, n} \cap borrowed # {}

\* What an apply changes is what the user saw: the pages, the map and the
\* counter were, when they were shown, as the apply finds them, in the same
\* vault, and become what was shown.
ReviewedIsWritten ==
  [][\A b \in Bundles : Applies(b) =>
       LET shown == approved[b]
       IN /\ shown # NoPlan /\ shown.root = root
          /\ addressMap = shown.fromMap /\ addressMap' = shown.map
          /\ counter = shown.fromCounter /\ counter' = shown.counter
          /\ \A n \in WritesOf[b] : notes[n] = shown.from[n]
                                    /\ notes'[n] = shown.to[n]]_planVars

-----------------------------------------------------------------------------
(***************************************************************************)
(* The inductive invariant behind the three.                               *)
(***************************************************************************)
\* A map that is one of a bundle's plans for the base it was read from.
Extends(b, map, base) ==
  \A n \in Notes : map[n] # base[n] =>
    /\ base[n] = NoAddress
    /\ map[n][2] <= MaxAddress
    /\ \E i \in DOMAIN RequestsOf[b] : RequestsOf[b][i][1] = n

\* What both callers have gathered: a bundle that is drafted, a map in which no
\* two pages have one address, a counter that can be an address.
GatheredInv ==
  \A k \in Callers : at[k] # "idle" =>
    /\ draft[work[k].bundle] # NoDraft
    /\ Unique(work[k].map)
    /\ at[k] = "allocate" => work[k].counter >= 1

\* What an apply has: its vault, under the lock; pages with the addresses of its
\* map, as far as there are requests for them; and a map that extends the one it
\* expects, unless that was saved between the two reads.
ApplyInv ==
  LET w == work["apply"]
      unsaved == SavesWhilePinning => ~mapHarmed
  IN /\ at["apply"] # "idle" => w.root = root
     /\ at["apply"] \in {"counter", "allocate"} =>
          /\ unsaved => Extends(w.bundle, w.map, addressMap)
          /\ \A n \in Notes : w.to[n] # NoNote => w.to[n].address = w.map[n]
     /\ at["apply"] = "conclude" =>
          /\ unsaved => Extends(w.bundle, w.map, w.fromMap)
          /\ \A n \in Requested(w.bundle) :
               w.to[n] # NoNote => w.to[n].address = w.map[n]

\* Pages declare what the map says, until somebody harms it, or their line is
\* borrowed.
DeclaredInv ==
  ~mapHarmed =>
    /\ Unique(addressMap)
    /\ \A n \in Notes \ borrowed : notes[n] # NoNote =>
         notes[n].address \in {NoAddress, addressMap[n]}

PlanningInv == PlanningTypeOK /\ GatheredInv /\ ApplyInv /\ DeclaredInv
=============================================================================
