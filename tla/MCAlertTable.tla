---------------------------- MODULE MCAlertTable ----------------------------
(* Small instances of AlertTable.                                           *)
EXTENDS AlertTable

OnlyMerges == {{"merge"}}
=============================================================================
