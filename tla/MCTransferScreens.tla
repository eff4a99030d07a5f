-------------------------- MODULE MCTransferScreens --------------------------
(* Two names: "a" and the name "a (1)" that deduplication may also give.   *)
EXTENDS TransferScreens, TLC

CONSTANTS b1, b2

AnyBatch == Permutations(Batches)

MCNames == {<<0>>, <<0, 1>>}
=============================================================================
