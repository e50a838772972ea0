------------------------------ MODULE MCWindows ------------------------------
(* The instance of InputFocus: whose ids the windows are, and which of its  *)
(* states are looked at.                                                    *)
EXTENDS InputFocus, FiniteSets, TLC

CONSTANTS a, b, w1, w2, w3

\* The client with two windows may have the other's between them.
OwnerOfThree == [w \in {w1, w2, w3} |-> IF w = w2 THEN b ELSE a]

\* Of the windows, those of the same client are alike.
AlikeWindows == Permutations({w1, w3})

AtRest == focus = PointerRoot /\ revertTo = "None"
Calm == AtRest /\ grab = NoGrab
Many == {w1, w3} \subseteq exists
CowMoved == torn \/ parent[Cow] # Root

\* Three windows, or a second claim of the COW, or a COW that is moved, while
\* nothing points into the tree; a window of each client and one claim with
\* every focus and every grab of a, which no step looks at together.
Smaller == /\ Many \/ cowRefs = MaxClaims \/ CowMoved => Calm
           /\ Many \/ CowMoved => cowRefs < MaxClaims
           /\ Many => ~CowMoved
           /\ torn => Cardinality(exists) < 3
           /\ AtRest \/ grab = NoGrab
           /\ grab.owner # b
=============================================================================
