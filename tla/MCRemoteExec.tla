---------------------------- MODULE MCRemoteExec -----------------------------
(* Two cells and a reset, and an executor that remembers two nonces. *)
EXTENDS RemoteExec, TLC

CONSTANTS cell1, cell2, reset1

AllRequests == {cell1, cell2, reset1}
ResetCalls  == {reset1}

\* The two cells are interchangeable.
Symmetry == Permutations({cell1, cell2})
==============================================================================
