--------------------------- MODULE MCTransaction ----------------------------
(***************************************************************************)
(* Instances of Transaction.  Operation A has two bundles that share its   *)
(* id: a1 creates page x and replaces page y, a2 replaces y alone.         *)
(* Operation B (b1) writes y back to what a user may have put there, or    *)
(* (b2) continues from a1.                                                 *)
(***************************************************************************)
EXTENDS Transaction

CONSTANTS A, B, a1, a2, b1, b2, x, y, c0, c1, c2

MCIdOf == [b \in Bundles |-> IF b \in {a1, a2} THEN A ELSE B]

MCOrder == [b \in Bundles |-> CASE b = a1 -> <<x, y>>
                                [] b = a2 -> <<y>>
                                [] b = b1 -> <<y>>
                                [] b = b2 -> <<y, x>>]

\* What each bundle expects and writes on <<x, y>>.
Pair(vx, vy) == [p \in Paths |-> IF p = x THEN vx ELSE vy]

MCOld == [b \in Bundles |-> CASE b = a1 -> Pair(Absent, c0)
                              [] b = a2 -> Pair(Absent, c0)
                              [] b = b1 -> Pair(Absent, c2)
                              [] b = b2 -> Pair(c1, c1)]

MCNew == [b \in Bundles |-> CASE b = a1 -> Pair(c1, c1)
                              [] b = a2 -> Pair(c1, c1)
                              [] b = b1 -> Pair(c1, c1)
                              [] b = b2 -> Pair(c2, c0)]

MCStart == Pair(Absent, c0)
=============================================================================
