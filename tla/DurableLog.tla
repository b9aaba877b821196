----------------------------- MODULE DurableLog -----------------------------
(***************************************************************************)
(* What a logger promises of its files: once a flush has returned, what    *)
(* was printed before it can be read from the card for ever, whatever      *)
(* happens to the processor; what was printed since may or may not be      *)
(* there.                                                                  *)
(***************************************************************************)
EXTENDS SequencesExt

CONSTANT Names

VARIABLES
  promised,   \* for each file, the cells printed before its last flush that returned
  readable    \* for each file, the cells that a reader of the card would get

vars == <<promised, readable>>

Init == promised = [f \in Names |-> <<>>] /\ readable = [f \in Names |-> <<>>]

Kept == \A f \in Names : IsPrefix(promised'[f], readable'[f])

\* Something reaches the card, or is lost.
CardChanges == UNCHANGED promised /\ Kept

\* A flush of f returns: everything printed is on the card.
Flushed(f) == /\ IsPrefix(promised[f], readable'[f])
              /\ promised' = [promised EXCEPT ![f] = readable'[f]]
              /\ Kept

Next == CardChanges \/ \E f \in Names : Flushed(f)

Spec == Init /\ [][Next]_vars
=============================================================================
