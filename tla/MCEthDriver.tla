---------------------------- MODULE MCEthDriver -----------------------------
(***************************************************************************)
(* Instances of EthDriver for TLC.                                         *)
(***************************************************************************)
EXTENDS EthDriverProps, TLC

\* Buffers are interchangeable as long as no temporal property names them.
BufferSymmetry == Permutations(RxBufs) \cup Permutations(TxBufs)
=============================================================================
