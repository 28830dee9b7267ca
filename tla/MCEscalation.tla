---------------------------- MODULE MCEscalation ----------------------------
(* Escalation for TLC: all the issues are one customer's. *)
EXTENDS Escalation

MCCustomerOf == [issue \in Issues |-> CHOOSE c \in Customers : TRUE]

=============================================================================
