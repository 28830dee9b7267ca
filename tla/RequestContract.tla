-------------------------- MODULE RequestContract --------------------------
(***************************************************************************)
(* What the agent promises about one request, whatever it does inside:     *)
(*   - it changes the database only while it is open and only by the kinds *)
(*     of write that its user's roles allow;                               *)
(*   - it ends once, in one of three ways. Answered: and only then its     *)
(*     event is in the session, unless the store may lose it. Declined     *)
(*     (blocked, refused, sent back to choose a customer, or served from   *)
(*     the cache): and then it has changed nothing. Lost (the client went, *)
(*     or the agent failed): and then its writes stay, unrecorded.         *)
(***************************************************************************)
EXTENDS Naturals

CONSTANT Kinds      \* kinds of write

VARIABLES
    allowed,        \* the kinds the user may use
    lossy,          \* the session's store may lose an event
    status,
    changes,        \* writes made, per kind
    recorded

contractVars == <<allowed, lossy, status, changes, recorded>>

ContractInit ==
    /\ allowed \subseteq Kinds
    /\ lossy \in BOOLEAN
    /\ status = "open"
    /\ changes = [k \in Kinds |-> 0]
    /\ recorded = FALSE

Change(kind) ==
    /\ status = "open"
    /\ changes' = [changes EXCEPT ![kind] = @ + 1]
    /\ UNCHANGED <<allowed, lossy, status, recorded>>

Answer ==
    /\ status = "open"
    /\ status' = "answered"
    /\ recorded' = TRUE \/ (lossy /\ UNCHANGED recorded)
    /\ UNCHANGED <<allowed, lossy, changes>>

Decline ==
    /\ status = "open"
    /\ changes = [k \in Kinds |-> 0]
    /\ status' = "declined"
    /\ UNCHANGED <<allowed, lossy, changes, recorded>>

Lose ==
    /\ status = "open"
    /\ status' = "lost"
    /\ UNCHANGED <<allowed, lossy, changes, recorded>>

ContractNext == (\E kind \in allowed : Change(kind)) \/ Answer \/ Decline \/ Lose

ContractSpec == ContractInit /\ [][ContractNext]_contractVars

=============================================================================
