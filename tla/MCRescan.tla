------------------------------ MODULE MCRescan ------------------------------
(* Instances of Rescan for TLC. *)
EXTENDS Rescan

CONSTANTS board, riser

\* riser is a template configuration behind host power; board is fixed.
MCDevice == {board, riser}
MCTemplated == {riser}
MCNeedsPower == {riser}

\* One configuration is enough for the pruning run.
MCBoardOnly == {board}
MCNone == {}

=============================================================================
