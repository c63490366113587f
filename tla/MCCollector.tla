--------------------------- MODULE MCCollector ---------------------------
(* Small instances of Collector for TLC. *)
EXTENDS Collector, TLC

CONSTANTS w1, w2, A, B, Bad, d0, d1

\* A watched file, named through a directory that is an alias of another.
OneThroughAlias == [w \in Watch |-> d0]
OneReally == [w \in Watch |-> d1]

\* A content without a result of the condition.
Results == [w \in Watch |-> [c \in Content |-> IF c = Bad THEN None ELSE c]]

\* Contents are only compared.
Contents == Permutations({A, B})

OneWatch == <<w1>>

TwoChanges == [w \in Watch |-> 2]
ThreeChanges == [w \in Watch |-> 3]
TwoEpochs == [w \in Watch |-> 2]
=============================================================================
