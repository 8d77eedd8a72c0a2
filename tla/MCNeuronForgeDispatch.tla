------------------------ MODULE MCNeuronForgeDispatch ------------------------
(* Texts on both sides of the limit, of one and of three bytes a           *)
(* character; ids that are empty, ordinary, at the limit and beyond it.    *)
EXTENDS NeuronForgeDispatch

MCTexts ==
    {[chars |-> n, bytes |-> n * w] : n \in {0, 60, 160, 161}, w \in {1, 3}}
=============================================================================
