--------------------------- MODULE MCAlertManager ---------------------------
(* Small instances of AlertManager.  A key is named after its category.     *)
EXTENDS AlertManager

OneKey == {"memory"}
TwoKeys == {"memory", "queries"}

OneInstance == [k \in Keys |-> CHOOSE i \in Instances : TRUE]
KeyAsCategory == [k \in Keys |-> k]
OnlyCritical ==
    [k \in Keys |-> IF k = "memory" THEN {"critical"} ELSE {"warn"}]

OnlyAcks == {"ack"}

=============================================================================
