--------------------------- MODULE MCRedisStores ---------------------------
(* RedisStores for TLC. Every user sees every customer. *)
EXTENDS RedisStores, TLC

CONSTANT first      \* the request that the session has begun with

MCEarlier == <<first>>

\* The other requests differ in nothing but their name, nor do the polls that are
\* not on time.
MCSymmetry == Permutations(Requests \ {first}) \cup Permutations(Polls \ Watching)

\* The polls of one user overlap.
MCUserOf == [g \in Polls |-> CHOOSE u \in Users : TRUE]

MCVisible == [u \in Users |-> Customers]

=============================================================================
