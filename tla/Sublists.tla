------------------------------ MODULE Sublists ------------------------------
(* Lists by comprehension. *)
EXTENDS SequencesExt

\* What seq has at the numbers of S, in order.
Sublist(seq, S) == FlattenSeq([i \in DOMAIN seq |-> IF i \in S THEN <<seq[i]>> ELSE <<>>])
=============================================================================
