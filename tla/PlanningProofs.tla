--------------------------- MODULE PlanningProofs ---------------------------
(***************************************************************************)
(* For every set of bundles, pages and requests, and every last address:   *)
(* what an apply writes is what the user saw, no two pages come to one     *)
(* address by the requests that bundles make, and the map only grows.      *)
(***************************************************************************)
EXTENDS Planning, TLAPS

\* What the assumption says of the constants.
LEMMA PlanningFacts ==
  /\ MaxAddress \in Nat /\ MaxAddress >= 1 /\ MaxSaves \in Nat
  /\ NoAddress \notin Addresses /\ NoNote \notin Page
  /\ NoPlan \notin Plans /\ NoDraft \notin Pages
  /\ Callers = {"inspect", "apply"} /\ Versions = {0, 1}
  /\ \A w \in Bundles \cup {Person} : AddressLines[w] \subseteq Maps
  BY PlanningAssumption DEF Callers, Versions

\* A request is for a page that the bundle writes.
LEMMA RequestFacts ==
  ASSUME NEW b \in Bundles, NEW i \in 1..Len(RequestsOf[b])
  PROVE  /\ Len(RequestsOf[b]) \in 1..2 /\ i \in DOMAIN RequestsOf[b]
         /\ RequestsOf[b][i] \in Notes \X Prefixes
         /\ RequestsOf[b][i][1] \in WritesOf[b]
<1>1. RequestsOf[b] \in Seq(Notes \X Prefixes)
  BY PlanningAssumption
<1>2. DOMAIN RequestsOf[b] = 1..Len(RequestsOf[b])
  BY <1>1
<1>3. RequestsOf[b][i] \in Notes \X Prefixes
  BY <1>1
<1> QED
  BY <1>2, <1>3, PlanningAssumption

\* The bundle's pages are pages.
LEMMA WritesFacts ==
  ASSUME NEW b \in Bundles
  PROVE  WritesOf[b] \subseteq Notes
  BY PlanningAssumption

\* What the types say of a call's work.
LEMMA WorkTypes ==
  ASSUME PlanningTypeOK, NEW k \in Callers
  PROVE  /\ work[k] \in Works /\ work[k].bundle \in Bundles
         /\ work[k].root \in 0..1 /\ work[k].map \in Maps
         /\ work[k].counter \in Counters /\ work[k].to \in Pages
         /\ work[k].next \in 1..3 /\ work[k].fromMap \in Maps
         /\ work[k].fromCounter \in Counters
  BY DEF PlanningTypeOK, Works

\* The lines that the pages have, or that content may carry, are lines.
LEMMA LineTypes ==
  ASSUME PlanningTypeOK
  PROVE  /\ \A w \in Bundles \cup {Person} : OfferedLines(w) \subseteq Maps
         /\ \A b \in Bundles : /\ text[b].version \in Versions
                              /\ text[b].lines \in Maps
         /\ \A b \in Bundles, n \in Notes : Declared(b, n) \in Addresses \cup {NoAddress}
<1>1. \A n \in Notes : notes[n] # NoNote => notes[n].address \in Addresses \cup {NoAddress}
  BY DEF PlanningTypeOK, Pages, Page
<1>2. PageLines \in Maps
  BY <1>1 DEF PageLines, Maps
<1>3. \A b \in Bundles : text[b].version \in Versions /\ text[b].lines \in Maps
  BY DEF PlanningTypeOK, Texts
<1> QED
  BY <1>2, <1>3, PlanningFacts DEF OfferedLines, Declared, Maps

\* Pages with a request are pages of the bundle.
LEMMA RequestedFacts ==
  ASSUME NEW b \in Bundles
  PROVE  Requested(b) \subseteq WritesOf[b]
<1>1. DOMAIN RequestsOf[b] = 1..Len(RequestsOf[b])
  BY PlanningAssumption
<1> QED
  BY <1>1, RequestFacts DEF Requested

\* A page as a bundle writes it.
LEMMA RewrittenFacts ==
  ASSUME PlanningTypeOK, NEW b \in Bundles, NEW a \in Addresses \cup {NoAddress}
  PROVE  Rewritten(b, a) \in Page /\ Rewritten(b, a).address = a
  BY LineTypes DEF Rewritten, Page

\* An empty-handed caller.
LEMMA NoWorkType ==
  /\ NoWork \in Works /\ EmptyMap \in Maps
  /\ [n \in Notes |-> NoNote] \in Pages
<1>1. (CHOOSE b \in Bundles : TRUE) \in Bundles
  BY PlanningAssumption
<1>2. EmptyMap \in Maps
  BY DEF EmptyMap, Maps
<1>3. [n \in Notes |-> NoNote] \in Pages
  BY DEF Pages
<1>4. 0 \in 0..1 /\ 0 \in Counters /\ 1 \in 1..3
  BY PlanningFacts DEF Counters
<1> QED
  BY <1>1, <1>2, <1>3, <1>4 DEF NoWork, Works

\* Who stops is idle and empty-handed; the other goes on.
LEMMA QuitFacts ==
  ASSUME PlanningTypeOK, NEW k \in Callers, Quit(k)
  PROVE  /\ at' \in [Callers -> {"idle", "counter", "allocate", "conclude"}]
         /\ work' \in [Callers -> Works]
         /\ at'[k] = "idle" /\ work'[k] = NoWork
         /\ \A j \in Callers \ {k} : at'[j] = at[j] /\ work'[j] = work[j]
  BY NoWorkType DEF Quit, PlanningTypeOK

\* So is who goes on.
LEMMA GoOnFacts ==
  ASSUME PlanningTypeOK, NEW k \in Callers,
         NEW where \in {"idle", "counter", "allocate", "conclude"},
         GoOn(k, where)
  PROVE  /\ at' \in [Callers -> {"idle", "counter", "allocate", "conclude"}]
         /\ at'[k] = where /\ \A j \in Callers \ {k} : at'[j] = at[j]
  BY DEF GoOn, PlanningTypeOK

-----------------------------------------------------------------------------
(***************************************************************************)
(* What the steps of a call put into its work.                             *)
(***************************************************************************)
LEMMA BeginFacts ==
  ASSUME PlanningTypeOK, NEW k \in Callers, NEW b \in Bundles, Begin(k, b)
  PROVE  /\ at' \in [Callers -> {"idle", "counter", "allocate", "conclude"}]
         /\ work' \in [Callers -> Works]
         /\ at'[k] = "counter"
         /\ work'[k].root = root /\ work'[k].bundle = b /\ work'[k].map = addressMap
         /\ \A n \in Notes : work'[k].to[n] = NoNote
         /\ \A j \in Callers \ {k} : at'[j] = at[j] /\ work'[j] = work[j]
<1> DEFINE w == [NoWork EXCEPT !.root = root, !.bundle = b, !.map = addressMap]
<1>1. w \in Works
  BY NoWorkType DEF Works, PlanningTypeOK
<1>2. w.root = root /\ w.bundle = b /\ w.map = addressMap /\ w.to = [n \in Notes |-> NoNote]
  BY DEF NoWork
<1> HIDE DEF w
<1>3. work' = [work EXCEPT ![k] = w] /\ GoOn(k, "counter")
  BY DEF Begin, w
<1> QED
  BY <1>1, <1>2, <1>3, GoOnFacts DEF PlanningTypeOK

LEMMA CounterFacts ==
  ASSUME PlanningTypeOK, NEW k \in Callers, ReadCounter(k), ~Quit(k)
  PROVE  /\ at' \in [Callers -> {"idle", "counter", "allocate", "conclude"}]
         /\ work' \in [Callers -> Works]
         /\ at'[k] = "allocate"
         /\ work'[k].root = work[k].root /\ work'[k].bundle = work[k].bundle
         /\ work'[k].map = work[k].map /\ work'[k].to = work[k].to
         /\ work'[k].counter >= 1
         /\ \A j \in Callers \ {k} : at'[j] = at[j] /\ work'[j] = work[j]
<1> DEFINE c == IF counter = 0 THEN 1 ELSE counter
<1>1. c \in Counters /\ c >= 1
  BY PlanningFacts DEF PlanningTypeOK, Counters
<1> HIDE DEF c
<1>2. work' = [work EXCEPT ![k].counter = c] /\ GoOn(k, "allocate")
  BY DEF ReadCounter, c
<1>3. [work[k] EXCEPT !.counter = c] \in Works
  BY <1>1, WorkTypes DEF Works
<1>4. work' = [work EXCEPT ![k] = [work[k] EXCEPT !.counter = c]]
  BY <1>2, WorkTypes DEF PlanningTypeOK, Works
<1>5. work'[k] = [work[k] EXCEPT !.counter = c]
  BY <1>4 DEF PlanningTypeOK
<1> QED
  BY <1>1, <1>2, <1>3, <1>4, <1>5, WorkTypes, GoOnFacts DEF PlanningTypeOK, Works

\* A page gets its address, and the call goes to the next request.
Given(k, n, a, taken) ==
  /\ work' \in [Callers -> Works]
  /\ work'[k].root = work[k].root /\ work'[k].bundle = work[k].bundle
  /\ work'[k].map = [work[k].map EXCEPT ![n] = a]
  /\ work'[k].to = [work[k].to EXCEPT ![n] = Rewritten(work[k].bundle, a)]
  /\ work'[k].counter = work[k].counter + taken
  /\ \A j \in Callers \ {k} : work'[j] = work[j]

LEMMA GiveFacts ==
  ASSUME PlanningTypeOK, NEW k \in Callers, NEW n \in Notes, NEW a \in Addresses,
         NEW taken \in {0, 1}, Give(k, n, a, taken),
         work[k].counter + taken \in Counters, work[k].next \in 1..2
  PROVE  Given(k, n, a, taken)
<1> DEFINE m == [work[k].map EXCEPT ![n] = a]
           t == [work[k].to EXCEPT ![n] = Rewritten(work[k].bundle, a)]
           w == [work[k] EXCEPT !.map = m, !.counter = work[k].counter + taken,
                                !.to = t, !.next = work[k].next + 1]
<1>1. m \in Maps
  BY WorkTypes DEF Maps
<1>2. Rewritten(work[k].bundle, a) \in Page
  BY WorkTypes, RewrittenFacts
<1>3. t \in Pages
  BY <1>2, WorkTypes DEF Pages
<1>4. work[k].next + 1 \in 1..3
  OBVIOUS
<1>5. work' = [work EXCEPT ![k] = w]
  BY WorkTypes DEF Give, PlanningTypeOK, Works
<1> HIDE DEF m, t
<1>6. w \in Works
  BY <1>1, <1>3, <1>4, WorkTypes DEF Works
<1>7. /\ w.root = work[k].root /\ w.bundle = work[k].bundle /\ w.map = m /\ w.to = t
      /\ w.counter = work[k].counter + taken
  BY WorkTypes DEF Works
<1> HIDE DEF w
<1>8. work'[k] = w /\ \A j \in Callers \ {k} : work'[j] = work[j]
  BY <1>5 DEF PlanningTypeOK
<1> QED
  BY <1>5, <1>6, <1>7, <1>8 DEF m, t, Given, PlanningTypeOK

LEMMA PinFacts ==
  ASSUME PlanningTypeOK, NEW k \in Callers, Pin(k), draft[work[k].bundle] # NoDraft
  PROVE  /\ at' \in [Callers -> {"idle", "counter", "allocate", "conclude"}]
         /\ work' \in [Callers -> Works]
         /\ at'[k] = "conclude"
         /\ work'[k].root = work[k].root /\ work'[k].bundle = work[k].bundle
         /\ work'[k].map = work[k].map /\ work'[k].counter = work[k].counter
         /\ work'[k].fromMap = addressMap
         /\ \A n \in Notes : work'[k].to[n] =
              IF n \in WritesOf[work[k].bundle] \ Requested(work[k].bundle)
              THEN Rewritten(work[k].bundle, Declared(work[k].bundle, n))
              ELSE work[k].to[n]
         /\ \A j \in Callers \ {k} : at'[j] = at[j] /\ work'[j] = work[j]
<1> DEFINE b == work[k].bundle
           t == [n \in Notes |-> IF n \in WritesOf[b] \ Requested(b)
                                 THEN Rewritten(b, Declared(b, n)) ELSE work[k].to[n]]
           w == [work[k] EXCEPT !.fromMap = addressMap, !.fromCounter = counter, !.to = t]
<1>1. ASSUME NEW n \in Notes PROVE Rewritten(b, Declared(b, n)) \in Page
  BY WorkTypes, LineTypes, RewrittenFacts
<1>2. t \in Pages
  BY <1>1, WorkTypes DEF Pages
<1>3. work' = [work EXCEPT ![k] = w] /\ GoOn(k, "conclude")
  BY WorkTypes DEF Pin, PlanningTypeOK, Works
<1> HIDE DEF t
<1>4. w \in Works
  BY <1>2, WorkTypes DEF Works, PlanningTypeOK
<1>5. /\ w.root = work[k].root /\ w.bundle = b /\ w.map = work[k].map /\ w.to = t
      /\ w.counter = work[k].counter /\ w.fromMap = addressMap
  BY WorkTypes DEF Works
<1> HIDE DEF w
<1>6. work'[k] = w /\ \A j \in Callers \ {k} : work'[j] = work[j]
  BY <1>3 DEF PlanningTypeOK
<1> QED
  BY <1>3, <1>4, <1>5, <1>6, GoOnFacts DEF t, PlanningTypeOK

\* A request ends the call or gives its page an address: the one the map has, or
\* the counter's, which no page has.
LEMMA AllocateFacts ==
  ASSUME PlanningTypeOK, GatheredInv, NEW k \in Callers, Allocate(k), ~Quit(k)
  PROVE  /\ UNCHANGED at
         /\ \E n \in Notes, a \in Addresses, taken \in {0, 1} :
              /\ Given(k, n, a, taken)
              /\ \E i \in DOMAIN RequestsOf[work[k].bundle] :
                   RequestsOf[work[k].bundle][i][1] = n
              /\ \/ a = work[k].map[n]
                 \/ /\ work[k].map[n] = NoAddress
                    /\ a \notin Used(work[k].map) /\ a[2] <= MaxAddress
<1> DEFINE w      == work[k]
           i      == w.next
           n      == RequestsOf[w.bundle][i][1]
           prefix == RequestsOf[w.bundle][i][2]
           fresh  == <<prefix, w.counter>>
<1>1. w.bundle \in Bundles /\ i \in 1..Len(RequestsOf[w.bundle]) /\ i \in 1..2
  <2> DEFINE last == Len(RequestsOf[w.bundle])
  <2>1. w.bundle \in Bundles /\ i \in 1..3 /\ i <= last
    BY WorkTypes DEF Allocate, More
  <2>2. last \in 1..2
    BY <2>1, PlanningAssumption
  <2> HIDE DEF last, i
  <2>3. i \in 1..last /\ i \in 1..2
    BY <2>1, <2>2
  <2> QED
    BY <2>1, <2>3 DEF last
<1>2. n \in Notes /\ prefix \in Prefixes /\ i \in DOMAIN RequestsOf[w.bundle]
  BY <1>1, RequestFacts
<1>3. w.counter >= 1 /\ w.counter \in Counters
  BY WorkTypes DEF GatheredInv, Allocate
<1>4. w.counter <= MaxAddress =>
        /\ fresh \in Addresses /\ fresh[2] <= MaxAddress
        /\ w.counter + 1 \in Counters
  BY <1>2, <1>3, PlanningFacts DEF Addresses, Counters
<1>5. w.counter + 0 \in Counters
  BY <1>3 DEF Counters
<1>6. w.map[n] # NoAddress => w.map[n] \in Addresses
  BY <1>2, WorkTypes DEF Maps
<1>7. UNCHANGED at
  BY DEF Allocate
<1>8. CASE w.map[n] = NoAddress /\ Available(w, fresh) /\ Give(k, n, fresh, 1)
  <2>1. fresh \in Addresses /\ fresh[2] <= MaxAddress /\ fresh \notin Used(w.map)
        /\ w.counter + 1 \in Counters
    BY <1>4, <1>8 DEF Available
  <2> HIDE DEF fresh
  <2>2. Given(k, n, fresh, 1)
    BY <1>1, <1>2, <1>8, <2>1, GiveFacts
  <2> QED
    BY <1>2, <1>7, <1>8, <2>1, <2>2
<1>9. CASE w.map[n] # NoAddress /\ Give(k, n, w.map[n], 0)
  <2>1. Given(k, n, w.map[n], 0)
    BY <1>1, <1>2, <1>5, <1>6, <1>9, GiveFacts
  <2> QED
    BY <1>2, <1>6, <1>7, <1>9, <2>1
<1> QED
  BY <1>8, <1>9 DEF Allocate

\* The plan of a work in hand is a plan.
LEMMA PlanType ==
  ASSUME PlanningTypeOK, NEW k \in Callers, draft[work[k].bundle] # NoDraft
  PROVE  PlanOf(work[k]) \in Plans
<1>1. draft[work[k].bundle] \in Pages
  BY WorkTypes DEF PlanningTypeOK
<1> QED
  BY <1>1, WorkTypes DEF PlanOf, Plans

\* The variables keep their types initially, and in every step.
LEMMA PlanningTypeInit == PlanningInit => PlanningTypeOK
<1> SUFFICES ASSUME PlanningInit PROVE PlanningTypeOK
  OBVIOUS
<1>1. notes \in Pages /\ addressMap \in Maps /\ work \in [Callers -> Works]
  BY NoWorkType DEF PlanningInit
<1>2. counter \in Counters /\ root \in 0..1 /\ saves \in 0..MaxSaves
  BY PlanningFacts DEF PlanningInit, Counters
<1>3. text \in [Bundles -> Texts] /\ mapHarmed \in BOOLEAN /\ borrowed \subseteq Notes
  BY PlanningFacts, NoWorkType DEF PlanningInit, Texts
<1>4. /\ draft \in [Bundles -> Pages \cup {NoDraft}]
      /\ approved \in [Bundles -> Plans \cup {NoPlan}]
      /\ applied \in [Bundles -> Plans \cup {NoPlan}]
      /\ at \in [Callers -> {"idle", "counter", "allocate", "conclude"}]
  BY DEF PlanningInit
<1> QED
  BY <1>1, <1>2, <1>3, <1>4 DEF PlanningTypeOK

LEMMA SaveType ==
  ASSUME PlanningTypeOK, Save
  PROVE  saves' \in 0..MaxSaves
  BY PlanningFacts DEF Save, PlanningTypeOK

LEMMA PlanningTypeStep ==
  ASSUME PlanningTypeOK, GatheredInv, [PlanningNext]_planVars
  PROVE  PlanningTypeOK'
<1>1. ASSUME NEW b \in Bundles, NEW l \in OfferedLines(b), Draft(b, l) PROVE PlanningTypeOK'
  <2>1. l \in Maps
    BY LineTypes
  <2>2. text' \in [Bundles -> Texts]
    BY <1>1, <2>1 DEF Draft, PlanningTypeOK, Texts
  <2> QED
    BY <1>1, <2>2 DEF Draft, planCalls, PlanningTypeOK
<1>2. ASSUME NEW b \in Bundles, Inspected(b) PROVE PlanningTypeOK'
  <2>0. "inspect" \in Callers
    BY PlanningFacts
  <2>1. draft[work["inspect"].bundle] # NoDraft
    BY <1>2, <2>0 DEF Inspected, GatheredInv
  <2>2. PlanOf(work["inspect"]) \in Plans
    BY <2>0, <2>1, PlanType
  <2>3. approved' \in [Bundles -> Plans \cup {NoPlan}]
    BY <1>2, <2>2 DEF Inspected, PlanningTypeOK
  <2>4. Quit("inspect")
    BY <1>2 DEF Inspected
  <2> QED
    BY <1>2, <2>0, <2>3, <2>4, QuitFacts DEF Inspected, PlanningTypeOK
<1>3. ASSUME NEW b \in Bundles, Apply(b) PROVE PlanningTypeOK'
  <2> DEFINE w == work["apply"]
  <2>0. "apply" \in Callers
    BY PlanningFacts
  <2>1. draft[w.bundle] # NoDraft
    BY <1>3, <2>0 DEF Apply, GatheredInv
  <2>2. PlanOf(w) \in Plans /\ w.map \in Maps /\ w.counter \in Counters /\ w.to \in Pages
    BY <2>0, <2>1, PlanType, WorkTypes
  <2>3. ASSUME Write(b, w)
        PROVE  /\ notes' \in Pages /\ addressMap' \in Maps /\ counter' \in Counters
               /\ applied' \in [Bundles -> Plans \cup {NoPlan}]
               /\ borrowed' \subseteq Notes
    BY <2>2, <2>3, WritesFacts DEF Write, PlanningTypeOK, Pages
  <2>4. Quit("apply") /\ UNCHANGED <<root, draft, text, approved, mapHarmed, saves>>
    BY <1>3 DEF Apply
  <2>5. Write(b, w) \/ UNCHANGED <<notes, addressMap, counter, applied, borrowed>>
    BY <1>3 DEF Apply
  <2>6. /\ notes' \in Pages /\ addressMap' \in Maps /\ counter' \in Counters
        /\ applied' \in [Bundles -> Plans \cup {NoPlan}] /\ borrowed' \subseteq Notes
    BY <2>3, <2>5 DEF PlanningTypeOK
  <2> QED
    BY <2>0, <2>4, <2>6, QuitFacts DEF PlanningTypeOK
<1>4. ASSUME NEW b \in Bundles, NEW l \in OfferedLines(b), RewriteText(b, l)
      PROVE  PlanningTypeOK'
  <2>1. 1 - text[b].version \in Versions /\ l \in Maps
    BY PlanningFacts, LineTypes
  <2>2. [version |-> 1 - text[b].version, lines |-> l] \in Texts
    BY <2>1 DEF Texts
  <2>3. text' \in [Bundles -> Texts]
    BY <1>4, <2>2 DEF RewriteText, PlanningTypeOK
  <2> QED
    BY <1>4, <2>3, SaveType DEF RewriteText, planCalls, PlanningTypeOK
<1>5. ASSUME NEW k \in Callers, NEW b \in Bundles, Begin(k, b) PROVE PlanningTypeOK'
  <2>1. UNCHANGED <<notes, addressMap, counter, root, draft, text, approved,
                    applied, mapHarmed, borrowed, saves>>
    BY <1>5 DEF Begin
  <2> QED
    BY <1>5, <2>1, BeginFacts DEF PlanningTypeOK
<1>6. ASSUME NEW k \in Callers, ReadCounter(k) PROVE PlanningTypeOK'
  <2>1. UNCHANGED <<notes, addressMap, counter, root, draft, text, approved,
                    applied, mapHarmed, borrowed, saves>>
    BY <1>6 DEF ReadCounter
  <2> QED
    BY <1>6, <2>1, QuitFacts, CounterFacts DEF PlanningTypeOK
<1>7. ASSUME NEW k \in Callers, Allocate(k) PROVE PlanningTypeOK'
  <2>1. UNCHANGED <<notes, addressMap, counter, root, draft, text, approved,
                    applied, mapHarmed, borrowed, saves>>
    BY <1>7 DEF Allocate
  <2>2. CASE Quit(k)
    BY <2>1, <2>2, QuitFacts DEF PlanningTypeOK
  <2>3. CASE ~Quit(k)
    <3>1. work' \in [Callers -> Works] /\ UNCHANGED at
      BY <1>7, <2>3, AllocateFacts DEF Given
    <3> QED
      BY <2>1, <3>1 DEF PlanningTypeOK
  <2> QED
    BY <2>2, <2>3
<1>8. ASSUME NEW k \in Callers, Pin(k) PROVE PlanningTypeOK'
  <2>1. UNCHANGED <<notes, addressMap, counter, root, draft, text, approved,
                    applied, mapHarmed, borrowed, saves>>
    BY <1>8 DEF Pin
  <2>2. draft[work[k].bundle] # NoDraft
    BY <1>8 DEF Pin, GatheredInv
  <2> QED
    BY <1>8, <2>1, <2>2, PinFacts DEF PlanningTypeOK
<1>9. ASSUME NEW n \in Notes, NEW l \in OfferedLines(Person), SavePage(n, l[n])
      PROVE  PlanningTypeOK'
  <2>1. l[n] \in Addresses \cup {NoAddress}
    BY LineTypes DEF Maps
  <2>2. [by |-> Person, version |-> 0, address |-> l[n]] \in Page
    BY <2>1, PlanningFacts DEF Page
  <2>3. notes' \in Pages /\ borrowed' \subseteq Notes
    BY <1>9, <2>2 DEF SavePage, DeletePage, PlanningTypeOK, Pages
  <2> QED
    BY <1>9, <2>3, SaveType DEF SavePage, DeletePage, planCalls, PlanningTypeOK
<1>10. ASSUME NEW n \in Notes, NEW m \in Notes, SaveMap(m, n) PROVE PlanningTypeOK'
  <2>1. addressMap' \in Maps
    BY <1>10 DEF SaveMap, PlanningTypeOK, Maps
  <2> QED
    BY <1>10, <2>1, SaveType DEF SaveMap, SaveManaged, planCalls, PlanningTypeOK
<1>11. ASSUME NEW c \in Counters, SaveCounter(c) PROVE PlanningTypeOK'
  BY <1>11, SaveType DEF SaveCounter, SaveManaged, planCalls, PlanningTypeOK
<1>12. CASE ReplaceVault
  <2>1. root' \in 0..1
    BY <1>12 DEF ReplaceVault, PlanningTypeOK
  <2> QED
    BY <1>12, <2>1, SaveType DEF ReplaceVault, planCalls, PlanningTypeOK
<1>13. CASE UNCHANGED planVars
  BY <1>13 DEF planVars, planCalls, PlanningTypeOK
<1>14. ASSUME NEW n \in Notes, DeletePage(n) PROVE PlanningTypeOK'
  <2>1. notes' \in Pages
    BY <1>14 DEF DeletePage, PlanningTypeOK, Pages
  <2> QED
    BY <1>14, <2>1, SaveType DEF DeletePage, planCalls, PlanningTypeOK
<1> QED
  BY <1>1, <1>2, <1>3, <1>4, <1>5, <1>6, <1>7, <1>8, <1>9, <1>10, <1>11, <1>12, <1>13,
     <1>14 DEF PlanningNext

-----------------------------------------------------------------------------
(***************************************************************************)
(* GatheredInv: what each caller has gathered.                             *)
(***************************************************************************)
Gathered(k) ==
  at[k] # "idle" =>
    /\ draft[work[k].bundle] # NoDraft
    /\ Unique(work[k].map)
    /\ at[k] = "allocate" => work[k].counter >= 1

\* The steps of a call, and the others.
CallSteps(k) == \/ \E b \in Bundles : Begin(k, b)
                \/ ReadCounter(k) \/ Allocate(k) \/ Pin(k)
                \/ k = "inspect" /\ \E b \in Bundles : Inspected(b)
                \/ k = "apply" /\ \E b \in Bundles : Apply(b)

OtherSteps == \/ \E b \in Bundles : \E l \in OfferedLines(b) :
                   Draft(b, l) \/ RewriteText(b, l)
              \/ \E n \in Notes : \/ DeletePage(n) \/ \E m \in Notes : SaveMap(m, n)
                                  \/ \E l \in OfferedLines(Person) : SavePage(n, l[n])
              \/ \E c \in Counters : SaveCounter(c)
              \/ ReplaceVault
              \/ UNCHANGED planVars

LEMMA PlanningNextCases ==
  ASSUME [PlanningNext]_planVars
  PROVE  OtherSteps \/ \E k \in Callers : CallSteps(k)
  BY PlanningFacts DEF PlanningNext, OtherSteps, CallSteps

\* A call changes no draft, and nothing of the other call's.
LEMMA CallAlone ==
  ASSUME PlanningTypeOK, GatheredInv, NEW k \in Callers, CallSteps(k)
  PROVE  /\ draft' = draft /\ root' = root /\ mapHarmed' = mapHarmed
         /\ \A j \in Callers \ {k} : at'[j] = at[j] /\ work'[j] = work[j]
<1>1. CASE \E b \in Bundles : Begin(k, b)
  BY <1>1, BeginFacts DEF Begin
<1>2. CASE ReadCounter(k)
  <2>1. draft' = draft /\ root' = root /\ mapHarmed' = mapHarmed
    BY <1>2 DEF ReadCounter
  <2> QED
    BY <1>2, <2>1, QuitFacts, CounterFacts
<1>3. CASE Allocate(k)
  <2>1. draft' = draft /\ root' = root /\ mapHarmed' = mapHarmed
    BY <1>3 DEF Allocate
  <2>2. CASE Quit(k)
    BY <2>1, <2>2, QuitFacts
  <2>3. CASE ~Quit(k)
    <3>1. /\ UNCHANGED at
          /\ \A j \in Callers \ {k} : work'[j] = work[j]
      BY <1>3, <2>3, AllocateFacts DEF Given
    <3> QED
      BY <2>1, <3>1
  <2> QED
    BY <2>2, <2>3
<1>4. CASE Pin(k)
  <2>1. draft' = draft /\ root' = root /\ mapHarmed' = mapHarmed
    BY <1>4 DEF Pin
  <2>2. draft[work[k].bundle] # NoDraft
    BY <1>4 DEF Pin, GatheredInv
  <2> QED
    BY <1>4, <2>1, <2>2, PinFacts
<1>5. CASE k = "inspect" /\ \E b \in Bundles : Inspected(b)
  BY <1>5, QuitFacts DEF Inspected
<1>6. CASE k = "apply" /\ \E b \in Bundles : Apply(b)
  BY <1>6, QuitFacts DEF Apply
<1> QED
  BY <1>1, <1>2, <1>3, <1>4, <1>5, <1>6 DEF CallSteps

\* The rest of the world leaves both calls alone, and does not take back a draft.
LEMMA OthersAlone ==
  ASSUME PlanningTypeOK, OtherSteps
  PROVE  /\ at' = at /\ work' = work
         /\ \A b \in Bundles : draft[b] # NoDraft => draft'[b] # NoDraft
         /\ \A k \in Callers : at[k] # "idle" =>
              draft'[work[k].bundle] = draft[work[k].bundle]
<1>1. ASSUME NEW b \in Bundles, NEW l, Draft(b, l)
      PROVE  /\ \A c \in Bundles : draft[c] # NoDraft => draft'[c] # NoDraft
             /\ \A k \in Callers : at[k] # "idle" =>
                  draft'[work[k].bundle] = draft[work[k].bundle]
  <2>1. draft' = [draft EXCEPT ![b] = notes] /\ notes # NoDraft
    BY <1>1, PlanningFacts DEF Draft, PlanningTypeOK
  <2>2. \A k \in Callers : at[k] # "idle" => work[k].bundle # b
    BY <1>1 DEF Draft
  <2> QED
    BY <2>1, <2>2, WorkTypes DEF PlanningTypeOK
<1>2. at' = at /\ work' = work /\ ((\E b \in Bundles : \E l \in OfferedLines(b) : Draft(b, l)) \/ draft' = draft)
  BY DEF OtherSteps, Draft, RewriteText, SavePage, DeletePage, SaveMap, SaveCounter, ReplaceVault,
         planCalls, planVars
<1> QED
  BY <1>1, <1>2

\* A map in which every page has its own address has another one for a new one.
LEMMA UniqueGiven ==
  ASSUME NEW map \in Maps, Unique(map), NEW n \in Notes, NEW a \in Addresses,
         a = map[n] \/ a \notin Used(map)
  PROVE  Unique([map EXCEPT ![n] = a])
<1> DEFINE given == [map EXCEPT ![n] = a]
<1>1. \A m \in Notes : given[m] = IF m = n THEN a ELSE map[m]
  BY DEF Maps
<1>2. a # NoAddress
  BY PlanningFacts
<1> HIDE DEF given
<1>3. ASSUME NEW l \in Notes, NEW m \in Notes, given[l] = given[m], given[l] # NoAddress
      PROVE  l = m
  <2>1. CASE a = map[n]
    BY <1>1, <1>3, <2>1 DEF Unique
  <2>2. CASE a \notin Used(map)
    <3>1. \A p \in Notes : map[p] # a
      BY <1>2, <2>2 DEF Used
    <3> QED
      BY <1>1, <1>3, <3>1 DEF Unique
  <2> QED
    BY <2>1, <2>2
<1>4. Unique(given)
  BY <1>3 DEF Unique
<1> QED
  BY <1>4 DEF given

LEMMA GatheredStep ==
  ASSUME PlanningTypeOK, GatheredInv, [PlanningNext]_planVars
  PROVE  GatheredInv'
<1> SUFFICES ASSUME NEW k \in Callers PROVE Gathered(k)'
  BY DEF GatheredInv, Gathered
<1>0. Gathered(k)
  BY DEF GatheredInv, Gathered
<1>1. CASE OtherSteps
  BY <1>0, <1>1, OthersAlone, WorkTypes DEF Gathered, Unique
<1>2. ASSUME NEW j \in Callers, CallSteps(j), j # k PROVE Gathered(k)'
  <2>1. draft' = draft /\ at'[k] = at[k] /\ work'[k] = work[k]
    BY <1>2, CallAlone
  <2> QED
    BY <1>0, <2>1 DEF Gathered, Unique
<1>3. CASE CallSteps(k)
  <2>0. draft' = draft
    BY <1>3, CallAlone
  <2>1. ASSUME NEW b \in Bundles, Begin(k, b) PROVE Gathered(k)'
    <3>1. draft[b] # NoDraft /\ Unique(addressMap)
      BY <2>1 DEF Begin
    <3> QED
      BY <2>0, <2>1, <3>1, BeginFacts DEF Gathered, Unique
  <2>2. CASE Quit(k)
    BY <2>2, QuitFacts DEF Gathered
  <2>3. CASE ReadCounter(k) /\ ~Quit(k)
    <3>1. at[k] # "idle"
      BY <2>3 DEF ReadCounter
    <3> QED
      BY <1>0, <2>0, <2>3, <3>1, CounterFacts DEF Gathered, Unique
  <2>4. CASE Allocate(k) /\ ~Quit(k)
    <3>1. PICK n \in Notes, a \in Addresses, taken \in {0, 1} :
            /\ Given(k, n, a, taken)
            /\ \/ a = work[k].map[n]
               \/ a \notin Used(work[k].map)
      BY <2>4, AllocateFacts
    <3>2. /\ work'[k].bundle = work[k].bundle
          /\ work'[k].map = [work[k].map EXCEPT ![n] = a]
          /\ work'[k].counter = work[k].counter + taken
      BY <3>1 DEF Given
    <3>3. at[k] = "allocate" /\ at' = at
      BY <2>4 DEF Allocate
    <3>4. draft[work[k].bundle] # NoDraft /\ Unique(work[k].map) /\ work[k].counter >= 1
      BY <1>0, <3>3 DEF Gathered
    <3>5. Unique(work'[k].map)
      BY <3>1, <3>2, <3>4, UniqueGiven, WorkTypes
    <3>6. work'[k].counter >= 1
      BY <3>2, <3>4, WorkTypes, PlanningFacts DEF Counters
    <3> QED
      BY <2>0, <3>2, <3>4, <3>5, <3>6 DEF Gathered, Unique
  <2>5. CASE Pin(k)
    <3>1. at[k] # "idle" /\ draft[work[k].bundle] # NoDraft
      BY <1>0, <2>5 DEF Pin, Gathered
    <3>2. at'[k] = "conclude" /\ work'[k].bundle = work[k].bundle /\ work'[k].map = work[k].map
      BY <2>5, <3>1, PinFacts
    <3> QED
      BY <1>0, <2>0, <3>1, <3>2 DEF Gathered, Unique
  <2> QED
    BY <1>3, <2>1, <2>2, <2>3, <2>4, <2>5 DEF CallSteps, Inspected, Apply
<1> QED
  BY <1>1, <1>2, <1>3, PlanningNextCases

-----------------------------------------------------------------------------
(***************************************************************************)
(* ApplyInv and DeclaredInv.                                               *)
(***************************************************************************)
\* The call of apply that goes on, and the one that ends.
Applying == \/ \E b \in Bundles : Begin("apply", b)
            \/ ReadCounter("apply") \/ Allocate("apply") \/ Pin("apply")

LEMMA MapBeforeApply ==
  ASSUME NEW k \in Callers, CallSteps(k), ~\E b \in Bundles : Apply(b)
  PROVE  addressMap' = addressMap /\ notes' = notes
  BY DEF CallSteps, Begin, ReadCounter, Allocate, Pin, Inspected

\* A new address extends a plan's map.
LEMMA ExtendsGiven ==
  ASSUME NEW b \in Bundles, NEW map \in Maps, NEW base, Extends(b, map, base),
         NEW n \in Notes, NEW a \in Addresses,
         \E i \in DOMAIN RequestsOf[b] : RequestsOf[b][i][1] = n,
         a = map[n] \/ (map[n] = NoAddress /\ a[2] <= MaxAddress)
  PROVE  Extends(b, [map EXCEPT ![n] = a], base)
<1> DEFINE given == [map EXCEPT ![n] = a]
<1>1. \A m \in Notes : given[m] = IF m = n THEN a ELSE map[m]
  BY DEF Maps
<1> HIDE DEF given
<1>2. ASSUME NEW m \in Notes, given[m] # base[m]
      PROVE  /\ base[m] = NoAddress
             /\ given[m][2] <= MaxAddress
             /\ \E i \in DOMAIN RequestsOf[b] : RequestsOf[b][i][1] = m
  <2>1. CASE m # n \/ a = map[n]
    <3>1. given[m] = map[m]
      BY <1>1, <2>1
    <3> QED
      BY <1>2, <3>1 DEF Extends
  <2>2. CASE m = n /\ map[n] = NoAddress /\ a[2] <= MaxAddress
    <3>1. base[n] = NoAddress
      BY <2>2 DEF Extends
    <3> QED
      BY <1>1, <2>2, <3>1
  <2> QED
    BY <2>1, <2>2
<1>3. Extends(b, given, base)
  BY <1>2 DEF Extends
<1> QED
  BY <1>3 DEF given

\* The invariant of an apply by its parts.
ApplyRoot == at["apply"] # "idle" => work["apply"].root = root
ApplyPlanning ==
  LET w == work["apply"]
  IN at["apply"] \in {"counter", "allocate"} =>
       /\ (SavesWhilePinning => ~mapHarmed) => Extends(w.bundle, w.map, addressMap)
       /\ \A n \in Notes : w.to[n] # NoNote => w.to[n].address = w.map[n]
ApplyPlanned ==
  LET w == work["apply"]
  IN at["apply"] = "conclude" =>
       /\ (SavesWhilePinning => ~mapHarmed) => Extends(w.bundle, w.map, w.fromMap)
       /\ \A n \in Requested(w.bundle) :
            w.to[n] # NoNote => w.to[n].address = w.map[n]

LEMMA ApplyParts == ApplyInv <=> ApplyRoot /\ ApplyPlanning /\ ApplyPlanned
  BY DEF ApplyInv, ApplyRoot, ApplyPlanning, ApplyPlanned

LEMMA ApplyPartsNext == ApplyRoot' /\ ApplyPlanning' /\ ApplyPlanned' => ApplyInv'
  BY DEF ApplyInv, ApplyRoot, ApplyPlanning, ApplyPlanned

\* Others leave an apply's work alone, and the map under its hands too, unless
\* they harm it.
LEMMA ApplyOthers ==
  ASSUME PlanningTypeOK, ApplyInv, OtherSteps
  PROVE  ApplyInv'
<1> USE PlanningFacts
<1>0. ApplyRoot /\ ApplyPlanning /\ ApplyPlanned /\ "apply" \in Callers
  BY ApplyParts
<1>1. at' = at /\ work' = work
  BY OthersAlone
<1>2. root' = root \/ at["apply"] = "idle"
  BY DEF OtherSteps, Draft, RewriteText, SavePage, DeletePage, SaveMap, SaveCounter, ReplaceVault, planVars
<1>3. mapHarmed => mapHarmed'
  BY DEF OtherSteps, Draft, RewriteText, SavePage, DeletePage, SaveMap, SaveCounter, ReplaceVault, planVars
<1>4. addressMap' = addressMap \/ (mapHarmed' /\ (SavesWhilePinning \/ ~Pinning))
  BY DEF OtherSteps, Draft, RewriteText, SavePage, DeletePage, SaveMap, SaveManaged, SaveCounter,
         ReplaceVault, planVars
<1>6. ApplyRoot'
  BY <1>0, <1>1, <1>2 DEF ApplyRoot
<1>7. ApplyPlanning'
  <2>1. CASE addressMap' = addressMap
    BY <1>0, <1>1, <1>3, <2>1 DEF ApplyPlanning, Extends
  <2>2. CASE mapHarmed' /\ SavesWhilePinning
    BY <1>0, <1>1, <2>2 DEF ApplyPlanning
  <2>3. CASE ~Pinning
    BY <1>1, <2>3 DEF ApplyPlanning, Pinning
  <2> QED
    BY <1>4, <2>1, <2>2, <2>3
<1>8. ApplyPlanned'
  BY <1>0, <1>1, <1>3 DEF ApplyPlanned, Extends
<1> QED
  BY <1>6, <1>7, <1>8, ApplyPartsNext

\* So does an inspect.
LEMMA ApplyInspect ==
  ASSUME PlanningTypeOK, GatheredInv, ApplyInv, CallSteps("inspect")
  PROVE  ApplyInv'
<1> USE PlanningFacts
<1>1. /\ at'["apply"] = at["apply"] /\ work'["apply"] = work["apply"]
      /\ draft' = draft /\ root' = root /\ mapHarmed' = mapHarmed
  BY CallAlone
<1>2. addressMap' = addressMap
  BY DEF CallSteps, Begin, ReadCounter, Allocate, Pin, Inspected
<1> QED
  BY <1>1, <1>2 DEF ApplyInv, Extends

\* The apply itself, step by step.
LEMMA ApplyOwn ==
  ASSUME PlanningTypeOK, GatheredInv, ApplyInv, CallSteps("apply")
  PROVE  ApplyInv'
<1> DEFINE w == work["apply"]
<1>0. ApplyRoot /\ ApplyPlanning /\ ApplyPlanned /\ "apply" \in Callers
  BY ApplyParts, PlanningFacts
<1>1. draft' = draft /\ root' = root /\ mapHarmed' = mapHarmed
  BY <1>0, CallAlone
<1>2. ASSUME NEW b \in Bundles, Begin("apply", b) PROVE ApplyInv'
  <2>1. /\ at'["apply"] = "counter" /\ w'.root = root /\ w'.bundle = b
        /\ w'.map = addressMap /\ \A n \in Notes : w'.to[n] = NoNote
    BY <1>0, <1>2, BeginFacts
  <2>2. addressMap' = addressMap
    BY <1>2 DEF Begin
  <2> QED
    BY <1>1, <2>1, <2>2 DEF ApplyInv, Extends
<1>3. CASE Quit("apply")
  <2>1. at'["apply"] = "idle"
    BY <1>0, <1>3, QuitFacts
  <2> QED
    BY <2>1 DEF ApplyInv
<1>4. CASE ReadCounter("apply") /\ ~Quit("apply")
  <2>1. /\ at'["apply"] = "allocate" /\ w'.root = w.root /\ w'.bundle = w.bundle
        /\ w'.map = w.map /\ w'.to = w.to
    BY <1>0, <1>4, CounterFacts
  <2>2. at["apply"] = "counter" /\ addressMap' = addressMap
    BY <1>4 DEF ReadCounter
  <2> QED
    BY <1>0, <1>1, <2>1, <2>2 DEF ApplyInv, ApplyRoot, ApplyPlanning, Extends
<1>5. CASE Allocate("apply") /\ ~Quit("apply")
  <2>1. PICK n \in Notes, a \in Addresses, taken \in {0, 1} :
          /\ Given("apply", n, a, taken)
          /\ \E i \in DOMAIN RequestsOf[w.bundle] : RequestsOf[w.bundle][i][1] = n
          /\ \/ a = w.map[n]
             \/ w.map[n] = NoAddress /\ a[2] <= MaxAddress
    BY <1>0, <1>5, AllocateFacts
  <2>2. /\ w'.root = w.root /\ w'.bundle = w.bundle
        /\ w'.map = [w.map EXCEPT ![n] = a]
        /\ w'.to = [w.to EXCEPT ![n] = Rewritten(w.bundle, a)]
    BY <2>1 DEF Given
  <2>3. at["apply"] = "allocate" /\ at' = at /\ addressMap' = addressMap
    BY <1>5 DEF Allocate
  <2>4. w.map \in Maps /\ w.bundle \in Bundles /\ w.to \in Pages
    BY <1>0, WorkTypes
  <2>5. Extends(w.bundle, w.map, addressMap) => Extends(w.bundle, w'.map, addressMap)
    <3>1. ASSUME Extends(w.bundle, w.map, addressMap)
          PROVE  Extends(w.bundle, [w.map EXCEPT ![n] = a], addressMap)
      BY <2>1, <2>4, <3>1, ExtendsGiven
    <3> QED
      BY <2>2, <3>1
  <2>6. ASSUME NEW m \in Notes, w'.to[m] # NoNote PROVE w'.to[m].address = w'.map[m]
    <3>1. CASE m = n
      BY <1>0, <2>1, <2>2, <2>4, <3>1, RewrittenFacts DEF Maps, Pages
    <3>2. CASE m # n
      <4>1. w'.to[m] = w.to[m] /\ w'.map[m] = w.map[m]
        BY <2>2, <2>4, <3>2 DEF Maps, Pages
      <4> QED
        BY <1>0, <2>3, <2>6, <4>1 DEF ApplyPlanning
    <3> QED
      BY <3>1, <3>2
  <2>7. (SavesWhilePinning => ~mapHarmed) => Extends(w.bundle, w'.map, addressMap)
    BY <1>0, <2>3, <2>5 DEF ApplyPlanning
  <2>8. ApplyPlanning'
    BY <1>1, <2>2, <2>3, <2>6, <2>7 DEF ApplyPlanning, Extends
  <2>9. ApplyRoot' /\ ApplyPlanned'
    BY <1>0, <1>1, <2>2, <2>3 DEF ApplyRoot, ApplyPlanned
  <2> QED
    BY <2>8, <2>9, ApplyPartsNext
<1>6. CASE Pin("apply")
  <2>1. at["apply"] = "allocate" /\ draft[w.bundle] # NoDraft
    BY <1>0, <1>6 DEF Pin, GatheredInv
  <2>2. /\ at'["apply"] = "conclude" /\ w'.root = w.root /\ w'.bundle = w.bundle
        /\ w'.map = w.map /\ w'.fromMap = addressMap
        /\ \A n \in Notes : w'.to[n] =
             IF n \in WritesOf[w.bundle] \ Requested(w.bundle)
             THEN Rewritten(w.bundle, Declared(w.bundle, n)) ELSE w.to[n]
    BY <1>0, <1>6, <2>1, PinFacts
  <2>3. ASSUME NEW n \in Requested(w.bundle), w'.to[n] # NoNote
        PROVE  w'.to[n].address = w.map[n]
    <3>1. n \in Notes /\ w'.to[n] = w.to[n]
      BY <1>0, <2>2, WorkTypes, WritesFacts, RequestedFacts
    <3> QED
      BY <1>0, <2>1, <2>3, <3>1 DEF ApplyPlanning
  <2>4. (SavesWhilePinning => ~mapHarmed) => Extends(w.bundle, w.map, addressMap)
    BY <1>0, <2>1 DEF ApplyPlanning
  <2>5. ApplyPlanned'
    <3>1. Extends(w.bundle, w.map, addressMap) => Extends(w.bundle, w.map, w.fromMap)'
      BY <2>2 DEF Extends
    <3> QED
      BY <1>1, <2>2, <2>3, <2>4, <3>1 DEF ApplyPlanned
  <2>6. ApplyRoot' /\ ApplyPlanning'
    BY <1>0, <1>1, <2>1, <2>2 DEF ApplyRoot, ApplyPlanning
  <2> QED
    BY <2>5, <2>6, ApplyPartsNext
<1> QED
  BY <1>2, <1>3, <1>4, <1>5, <1>6 DEF CallSteps, Apply

LEMMA ApplyStep ==
  ASSUME PlanningTypeOK, GatheredInv, ApplyInv, [PlanningNext]_planVars
  PROVE  ApplyInv'
  BY ApplyOthers, ApplyInspect, ApplyOwn, PlanningNextCases, PlanningFacts


\* What an apply that writes does, and what held before it.
LEMMA WriteFacts ==
  ASSUME PlanningTypeOK, GatheredInv, ApplyInv, NEW b \in Bundles, Apply(b),
         AsExpected(work["apply"]), IsApproved(work["apply"]), Write(b, work["apply"])
  PROVE  LET w == work["apply"]
         IN /\ w.bundle = b /\ w.root = root /\ w.map \in Maps /\ w.to \in Pages
            /\ addressMap = w.fromMap /\ counter = w.fromCounter
            /\ addressMap' = w.map /\ counter' = w.counter
            /\ Unique(w.map)
            /\ (SavesWhilePinning => ~mapHarmed) => Extends(b, w.map, addressMap)
            /\ draft[b] \in Pages
            /\ \A n \in WritesOf[b] :
                 /\ n \in Notes
                 /\ notes[n] = draft[b][n] /\ notes'[n] = w.to[n]
            /\ \A n \in Requested(b) :
                 n \in Notes /\ (w.to[n] # NoNote => w.to[n].address = w.map[n])
            /\ \A n \in Notes \ WritesOf[b] : notes'[n] = notes[n]
            /\ approved[b] = PlanOf(w) /\ PlanOf(w) \in Plans
<1> DEFINE w == work["apply"]
<1>1. "apply" \in Callers /\ at["apply"] = "conclude" /\ w.bundle = b
  BY PlanningFacts DEF Apply
<1>2. w.map \in Maps /\ w.to \in Pages
  BY <1>1, WorkTypes
<1>3. Unique(w.map) /\ draft[b] # NoDraft
  BY <1>1 DEF GatheredInv
<1>4. draft[b] \in Pages
  BY <1>3 DEF PlanningTypeOK
<1>5. /\ w.root = root
      /\ (SavesWhilePinning => ~mapHarmed) => Extends(b, w.map, w.fromMap)
      /\ \A n \in Requested(b) : w.to[n] # NoNote => w.to[n].address = w.map[n]
  BY <1>1 DEF ApplyInv
<1>6. /\ addressMap = w.fromMap /\ counter = w.fromCounter
      /\ \A n \in WritesOf[b] : notes[n] = draft[b][n]
  BY <1>1 DEF AsExpected
<1>7. addressMap' = w.map /\ counter' = w.counter
  BY DEF Write
<1>8. WritesOf[b] \subseteq Notes /\ Requested(b) \subseteq WritesOf[b]
  BY WritesFacts, RequestedFacts
<1>9. \A n \in Notes : notes'[n] = IF n \in WritesOf[b] THEN w.to[n] ELSE notes[n]
  BY DEF Write
<1>10. approved[b] = PlanOf(w) /\ PlanOf(w) \in Plans
  BY <1>1, <1>3, PlanType DEF IsApproved
<1> QED
  BY <1>1, <1>2, <1>3, <1>4, <1>5, <1>6, <1>7, <1>8, <1>9, <1>10

\* Without an apply, nothing but harm changes the map, and a page that is not
\* borrowed is as it was, or has its own line or none.
LEMMA MapAlone ==
  ASSUME PlanningTypeOK, [PlanningNext]_planVars, ~mapHarmed',
         ~\E b \in Bundles : Apply(b)
  PROVE  /\ ~mapHarmed /\ addressMap' = addressMap
         /\ \A n \in Notes \ borrowed' : notes'[n] # NoNote =>
              \/ n \notin borrowed /\ notes'[n] = notes[n]
              \/ notes'[n].address \in {NoAddress, addressMap[n]}
<1>1. ASSUME NEW n \in Notes, NEW l \in OfferedLines(Person), SavePage(n, l[n]),
             NEW m \in Notes \ borrowed'
      PROVE  \/ m \notin borrowed /\ notes'[m] = notes[m]
             \/ notes'[m].address \in {NoAddress, addressMap[m]}
  <2>1. CASE m = n
    <3>1. notes'[n].address = l[n]
      BY <1>1 DEF SavePage, PlanningTypeOK, Pages
    <3>2. ~NotOwn(l[n], addressMap, n)
      BY <1>1, <2>1 DEF SavePage
    <3> QED
      BY <2>1, <3>1, <3>2 DEF NotOwn
  <2>2. CASE m # n
    BY <1>1, <2>2 DEF SavePage, PlanningTypeOK, Pages
  <2> QED
    BY <2>1, <2>2
<1>2. ASSUME NEW n \in Notes, DeletePage(n), NEW m \in Notes \ borrowed',
             notes'[m] # NoNote
      PROVE  m \notin borrowed /\ notes'[m] = notes[m]
  BY <1>2 DEF DeletePage, PlanningTypeOK, Pages
<1>3. \/ UNCHANGED <<notes, borrowed>>
      \/ \E n \in Notes : \E l \in OfferedLines(Person) : SavePage(n, l[n])
      \/ \E n \in Notes : DeletePage(n)
  BY DEF PlanningNext, Draft, Inspected, RewriteText, Begin, ReadCounter, Allocate, Pin,
         SaveMap, SaveCounter, ReplaceVault, planVars
<1>4. ~\E m, n \in Notes : SaveMap(m, n)
  BY DEF SaveMap
<1>5. mapHarmed' = mapHarmed /\ addressMap' = addressMap
  BY <1>4 DEF PlanningNext, Draft, Inspected, RewriteText, Begin, ReadCounter, Allocate, Pin,
              SavePage, DeletePage, SaveCounter, ReplaceVault, planVars
<1> QED
  BY <1>1, <1>2, <1>3, <1>5

LEMMA DeclaredStep ==
  ASSUME PlanningTypeOK, GatheredInv, ApplyInv, DeclaredInv, [PlanningNext]_planVars
  PROVE  DeclaredInv'
<1> DEFINE w == work["apply"]
           Own(n) == notes'[n] # NoNote => notes'[n].address \in {NoAddress, addressMap'[n]}
<1> SUFFICES ASSUME ~mapHarmed'
             PROVE  Unique(addressMap') /\ \A n \in Notes \ borrowed' : Own(n)
  BY DEF DeclaredInv, Unique
<1>1. CASE ~\E b \in Bundles : Apply(b)
  <2>1. ~mapHarmed /\ addressMap' = addressMap
    BY <1>1, MapAlone
  <2>2. Unique(addressMap) /\ \A n \in Notes \ borrowed : notes[n] # NoNote =>
                                notes[n].address \in {NoAddress, addressMap[n]}
    BY <2>1 DEF DeclaredInv
  <2> QED
    BY <1>1, <2>1, <2>2, MapAlone
<1>2. ASSUME NEW b \in Bundles, Apply(b)
      PROVE  Unique(addressMap') /\ \A n \in Notes \ borrowed' : Own(n)
  <2>1. ~mapHarmed
    BY <1>2 DEF Apply
  <2>2. Unique(addressMap) /\ \A n \in Notes \ borrowed : notes[n] # NoNote =>
                                notes[n].address \in {NoAddress, addressMap[n]}
    BY <2>1 DEF DeclaredInv
  <2>3. CASE UNCHANGED <<notes, addressMap, borrowed>>
    BY <2>2, <2>3
  <2>4. CASE AsExpected(w) /\ IsApproved(w) /\ Write(b, w)
    <3>1. Unique(addressMap')
      BY <1>2, <2>4, WriteFacts
    <3>2. Extends(b, w.map, addressMap) /\ addressMap' = w.map
      BY <1>2, <2>1, <2>4, WriteFacts
    <3>3. \A n \in Notes : addressMap[n] \in {NoAddress, addressMap'[n]}
      BY <3>2 DEF Extends
    <3>4. ASSUME NEW n \in Notes, n \notin borrowed' PROVE Own(n)
      <4>1. CASE n \in Requested(b)
        <5>1. notes'[n] = w.to[n]
          BY <1>2, <2>4, <4>1, WriteFacts, RequestedFacts
        <5>2. w.to[n] # NoNote => w.to[n].address = w.map[n]
          BY <1>2, <2>4, <4>1, WriteFacts
        <5> QED
          BY <3>2, <5>1, <5>2
      <4>2. CASE n \in WritesOf[b] \ Requested(b)
        <5>1. notes'[n] = w.to[n]
          BY <1>2, <2>4, <4>2, WriteFacts
        <5>2. ~NotOwn(w.to[n].address, w.map, n)
          BY <2>4, <3>4, <4>2 DEF Write
        <5> QED
          BY <3>2, <5>1, <5>2 DEF NotOwn
      <4>3. CASE n \notin WritesOf[b]
        <5>1. notes'[n] = notes[n] /\ n \notin borrowed
          BY <1>2, <2>4, <3>4, <4>3, WriteFacts DEF Write
        <5> QED
          BY <2>2, <3>3, <5>1
      <4> QED
        BY <4>1, <4>2, <4>3
    <3> QED
      BY <3>1, <3>4
  <2> QED
    BY <1>2, <2>3, <2>4 DEF Apply
<1> QED
  BY <1>1, <1>2

-----------------------------------------------------------------------------
(***************************************************************************)
(* The theorems.                                                           *)
(***************************************************************************)
LEMMA PlanningInvInit == PlanningInit => PlanningInv
<1> SUFFICES ASSUME PlanningInit PROVE PlanningInv
  OBVIOUS
<1>1. PlanningTypeOK
  BY PlanningTypeInit
<1>2. GatheredInv
  BY DEF PlanningInit, GatheredInv
<1>3. at["apply"] = "idle" /\ \A m \in Notes : addressMap[m] = NoAddress /\ notes[m] = NoNote
  BY PlanningFacts DEF PlanningInit, EmptyMap
<1>4. ApplyInv
  BY <1>3 DEF ApplyInv
<1>5. DeclaredInv
  BY <1>3 DEF DeclaredInv, Unique
<1> QED
  BY <1>1, <1>2, <1>4, <1>5 DEF PlanningInv

\* The invariant is inductive.
THEOREM PlanningInductive == PlanningSpec => []PlanningInv
<1>1. PlanningInv /\ [PlanningNext]_planVars => PlanningInv'
  BY PlanningTypeStep, GatheredStep, ApplyStep, DeclaredStep DEF PlanningInv
<1> QED
  BY <1>1, PlanningInvInit, PTL DEF PlanningSpec

\* The variables keep their types; in particular no request takes an address
\* beyond the last one, and no counter passes the one after it.
THEOREM PlanningTypeCorrect == PlanningSpec => []PlanningTypeOK
<1>1. PlanningInv => PlanningTypeOK
  BY DEF PlanningInv
<1> QED
  BY <1>1, PlanningInductive, PTL

\* No two pages declare one address, whatever becomes of the counter, of pages and
\* of drafts, unless somebody harmed the map or one of the two was written with
\* the other's line by hand or without a request.
THEOREM AddressesAreOwn == PlanningSpec => []OneAddressPerPage
<1>1. ASSUME PlanningInv PROVE OneAddressPerPage
  <2> SUFFICES ASSUME NEW m \in Notes, NEW n \in Notes, m # n, ~mapHarmed,
                      notes[m] # NoNote, notes[n] # NoNote,
                      m \notin borrowed, n \notin borrowed,
                      notes[m].address = notes[n].address, notes[m].address # NoAddress
               PROVE  FALSE
    BY DEF OneAddressPerPage
  <2>1. notes[m].address = addressMap[m] /\ notes[n].address = addressMap[n]
    BY <1>1 DEF PlanningInv, DeclaredInv
  <2> QED
    BY <1>1, <2>1 DEF PlanningInv, DeclaredInv, Unique
<1> QED
  BY <1>1, PlanningInductive, PTL

\* An apply is the step of a plan that was expected, approved, and written.
LEMMA AppliesFacts ==
  ASSUME PlanningInv, [PlanningNext]_planVars, NEW b \in Bundles, Applies(b)
  PROVE  /\ Apply(b) /\ AsExpected(work["apply"]) /\ IsApproved(work["apply"])
         /\ Write(b, work["apply"])
<1>1. applied'[b] # applied[b]
  BY DEF Applies
<1>2. PICK c \in Bundles : Apply(c)
  BY <1>1 DEF PlanningNext, Draft, Inspected, RewriteText, Begin, ReadCounter, Allocate, Pin,
              SavePage, DeletePage, SaveMap, SaveCounter, ReplaceVault, planVars
<1>3. /\ AsExpected(work["apply"]) /\ IsApproved(work["apply"])
      /\ Write(c, work["apply"])
  BY <1>1, <1>2 DEF Apply
<1>4. c = b
  BY <1>1, <1>3 DEF Write, PlanningInv, PlanningTypeOK
<1> QED
  BY <1>2, <1>3, <1>4

\* What an apply changes is what the user saw and approved.
THEOREM ApprovedIsWritten == PlanningSpec => ReviewedIsWritten
<1> DEFINE Reviewed == \A b \in Bundles : Applies(b) =>
       LET shown == approved[b]
       IN /\ shown # NoPlan /\ shown.root = root
          /\ addressMap = shown.fromMap /\ addressMap' = shown.map
          /\ counter = shown.fromCounter /\ counter' = shown.counter
          /\ \A n \in WritesOf[b] : notes[n] = shown.from[n]
                                    /\ notes'[n] = shown.to[n]
<1>1. ASSUME PlanningInv, [PlanningNext]_planVars PROVE Reviewed
  <2> SUFFICES ASSUME NEW b \in Bundles, Applies(b)
               PROVE  LET shown == approved[b]
                      IN /\ shown # NoPlan /\ shown.root = root
                         /\ addressMap = shown.fromMap /\ addressMap' = shown.map
                         /\ counter = shown.fromCounter /\ counter' = shown.counter
                         /\ \A n \in WritesOf[b] : notes[n] = shown.from[n]
                                                   /\ notes'[n] = shown.to[n]
    OBVIOUS
  <2> DEFINE w == work["apply"]
  <2>1. /\ Apply(b) /\ AsExpected(w) /\ IsApproved(w) /\ Write(b, w)
    BY <1>1, AppliesFacts
  <2>2. PlanningTypeOK /\ GatheredInv /\ ApplyInv
    BY <1>1 DEF PlanningInv
  <2>3. approved[b] # NoPlan /\ approved[b] = PlanOf(w) /\ w.bundle = b
    BY <2>1, <2>2, WriteFacts, PlanningFacts
  <2>4. /\ approved[b].root = w.root /\ approved[b].from = draft[b]
        /\ approved[b].fromMap = w.fromMap /\ approved[b].fromCounter = w.fromCounter
        /\ approved[b].map = w.map /\ approved[b].counter = w.counter
        /\ approved[b].to = w.to
    BY <2>3 DEF PlanOf
  <2>5. /\ w.root = root /\ addressMap = w.fromMap /\ counter = w.fromCounter
        /\ addressMap' = w.map /\ counter' = w.counter
        /\ \A n \in WritesOf[b] : notes[n] = draft[b][n] /\ notes'[n] = w.to[n]
    BY <2>1, <2>2, WriteFacts
  <2> QED
    BY <2>3, <2>4, <2>5
<1>2. PlanningInv /\ [PlanningNext]_planVars => [Reviewed]_planVars
  BY <1>1
<1>3. [][Reviewed]_planVars => ReviewedIsWritten
  BY DEF ReviewedIsWritten
<1> QED
  BY <1>2, <1>3, PlanningInductive, PTL DEF PlanningSpec

\* No apply loses, changes or doubles an address of the map, or writes one that
\* its bundle does not ask for or that has seven digits: in a vault whose map
\* nobody saves while an apply is between its two reads of it.
THEOREM MapOnlyGrows ==
  ASSUME ~SavesWhilePinning
  PROVE  PlanningSpec => MapStaysSound
<1> DEFINE Sound == \A b \in Bundles : Applies(b) =>
       /\ Unique(addressMap')
       /\ \A n \in Notes : addressMap'[n] # addressMap[n] =>
            /\ addressMap[n] = NoAddress
            /\ addressMap'[n][2] <= MaxAddress
            /\ \E i \in DOMAIN RequestsOf[b] : RequestsOf[b][i][1] = n
<1>1. ASSUME PlanningInv, [PlanningNext]_planVars PROVE Sound
  <2> SUFFICES ASSUME NEW b \in Bundles, Applies(b)
               PROVE  Unique(addressMap') /\ Extends(b, addressMap', addressMap)
    BY DEF Extends
  <2> DEFINE w == work["apply"]
  <2>1. /\ Apply(b) /\ AsExpected(w) /\ IsApproved(w) /\ Write(b, w)
    BY <1>1, AppliesFacts
  <2>2. PlanningTypeOK /\ GatheredInv /\ ApplyInv
    BY <1>1 DEF PlanningInv
  <2>3. addressMap' = w.map /\ Unique(w.map) /\ Extends(b, w.map, addressMap)
    BY <2>1, <2>2, WriteFacts
  <2> QED
    BY <2>3
<1>2. PlanningInv /\ [PlanningNext]_planVars => [Sound]_planVars
  BY <1>1
<1>3. [][Sound]_planVars => MapStaysSound
  BY DEF MapStaysSound
<1> QED
  BY <1>2, <1>3, PlanningInductive, PTL DEF PlanningSpec
=============================================================================
