------------------------- MODULE MCPersistentStore --------------------------
(* Small instances of PersistentStore.                                      *)
EXTENDS PersistentStore

EnoughInodes == 1 .. Cardinality(Writers) + 2
=============================================================================
