----------------------------- MODULE MCTransfer -----------------------------
(* Model values for Transfer: files as tuples of their sizes.              *)
EXTENDS Transfer

FiveAndEmpty  == <<5, 0>>
FiveAndThree  == <<5, 3>>
OnlyThree     == <<3>>
=============================================================================
