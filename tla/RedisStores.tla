---------------------------- MODULE RedisStores ----------------------------
(***************************************************************************)
(* The session history and the alert marks in the one Redis that holds     *)
(* them: docker-compose.yml runs it in memory, without a volume, so that a *)
(* restart loses both at once.                                             *)
(***************************************************************************)
EXTENDS SessionMemory, AlertDedup

vars == <<sessionVars, alertVars>>

TypeOK == SessionTypeOK /\ AlertTypeOK

Init == SessionInit /\ AlertInit

Tick == SessionAges /\ AlertsAge

RedisRestarts == SessionLost /\ MarksLost

Next ==
    \/ SessionStep /\ UNCHANGED alertVars
    \/ AlertStep /\ UNCHANGED sessionVars
    \/ Tick
    \/ RedisRestarts

Spec == Init /\ [][Next]_vars

=============================================================================
