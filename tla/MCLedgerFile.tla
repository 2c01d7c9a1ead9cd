---------------------------- MODULE MCLedgerFile ----------------------------
(***************************************************************************)
(* LedgerFile with a scheduled run and a person's run on one path.         *)
(***************************************************************************)
EXTENDS LedgerFile, TLC

CONSTANTS scheduled, manual

Processes == {scheduled, manual}

Interchangeable == Permutations(Processes)

=============================================================================
