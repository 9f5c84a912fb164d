--------------------------- MODULE MCDraftAutosave ---------------------------
(* TLC instance of DraftAutosave: drafts are interchangeable.              *)
EXTENDS DraftAutosave, TLC

Symmetry == Permutations(Contexts)
=============================================================================
