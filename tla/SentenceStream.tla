--------------------------- MODULE SentenceStream ---------------------------
(***************************************************************************)
(* What the reader of a GPS receiver promises: of the sentences that the   *)
(* receiver has sent it takes some, whole, in the order in which they were *)
(* sent, each at most once.  A sentence is known by its number.            *)
(***************************************************************************)
EXTENDS Naturals, Sequences

VARIABLES
  sent,     \* sentences sent so far
  parsed    \* the numbers of those that were taken, in the order of taking

vars == <<sent, parsed>>

Init == sent \in Nat /\ parsed = <<>>

Send == sent' >= sent /\ UNCHANGED parsed

LastTaken == IF parsed = <<>> THEN 0 ELSE parsed[Len(parsed)]

Take == /\ \E s \in (LastTaken + 1)..sent : parsed' = Append(parsed, s)
        /\ UNCHANGED sent

Next == Send \/ Take
Spec == Init /\ [][Next]_vars
=============================================================================
