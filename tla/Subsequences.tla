------------------------------ MODULE Subsequences ------------------------------
(***************************************************************************)
(* Parts of a sequence, given by the set of their places: what the code    *)
(* filters, deduplicates or squeezes in one pass, said without one.        *)
(***************************************************************************)
EXTENDS Naturals, SequencesExt

\* The k-th of a set of numbers.
Nth(places, k) == CHOOSE i \in places : Cardinality({j \in places : j <= i}) = k

\* What stands at some places of a sequence, in its order.
Picked(seq, places) == [k \in 1..Cardinality(places) |-> seq[Nth(places, k)]]

\* Each element once, where it first stood.
Once(seq) == Picked(seq, {i \in DOMAIN seq : \A j \in DOMAIN seq : j < i => seq[j] # seq[i]})
=============================================================================
