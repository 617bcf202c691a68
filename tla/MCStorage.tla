------------------------------ MODULE MCStorage ------------------------------
(* Instances of Storage for TLC: a key of each kind, used one by one, and  *)
(* two values.                                                             *)
EXTENDS Storage

CONSTANTS node, replicas, actors, x, y

JustValues  == {node}
JustSets    == {replicas}
JustIndexes == {actors}
TwoValues   == {x, y}

SeqExt == INSTANCE SequencesExt

(* HeldAfter is what handling the calls one after the other gives.         *)
ASSUME HeldAfterAssumption ==
  LET Sent == {Call(op, values, "none") :
                 op \in {"set", "append", "remove", "delete", "get"}, values \in SUBSET Values}
  IN  \A held \in SUBSET Values : \A n \in 0..3 : \A s \in [1..n -> Sent] :
        HeldAfter(held, s, n) = SeqExt!FoldLeft(Applied, held, s)

OneByOne == {{node}, {replicas}, {actors}}
=============================================================================
