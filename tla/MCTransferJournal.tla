-------------------------- MODULE MCTransferJournal --------------------------
(* TransferJournal with small constants for TLC. *)
EXTENDS TransferJournal, TLC

Symmetry == Permutations(Transfers)
=============================================================================
