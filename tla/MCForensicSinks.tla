--------------------------- MODULE MCForensicSinks ---------------------------
(* Two runs, interchangeable, with up to two events each, started at       *)
(* instants whose texts have fractions of different lengths.               *)
EXTENDS ForensicSinks, TLC

MCTimes ==
    {[second |-> 0, digits |-> d] : d \in {<<0, 0>>, <<1, 0>>, <<0, 1>>, <<1, 1>>}}
        \union {[second |-> 1, digits |-> <<0, 0>>]}

Symmetry == Permutations(Runs)
=============================================================================
