------------------------------ MODULE MCAuditLog ------------------------------
(* Handlers of the sizes that occur: one statement (order_created) to      *)
(* three (several of the others), in all orders that matter.               *)
EXTENDS AuditLog

MCGroupSize == [g \in 1..MaxGroups |-> 1 + (g % 3)]
=============================================================================
