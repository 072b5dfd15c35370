-------------------------- MODULE MCQuorumConsumer --------------------------
(* Instances of QuorumConsumer for TLC. *)
EXTENDS QuorumConsumer, TLC

Symmetry == Permutations(Instances)

CONSTANTS f1, f2, i1, i2, i3

\* Two findings of the same alert with the same text, of different blocks.
SameBody == [f \in {f1, f2} |-> "text"]
OwnBody  == [f \in {f1, f2} |-> f]
OnlyBody == [f \in {f1} |-> f]
=============================================================================
