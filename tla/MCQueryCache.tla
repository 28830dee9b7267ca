---------------------------- MODULE MCQueryCache ----------------------------
(***************************************************************************)
(* QueryCache for TLC: a query that names its customer in full and one     *)
(* whose name is ambiguous, each like the other.                           *)
(***************************************************************************)
EXTENDS QueryCache

CONSTANTS ann, bob, status, fragment

\* Each user asks one of them: a key without the user would mix them up, the two
\* queries being alike.
MCAsked == {<<ann, status>>, <<bob, fragment>>}

MCCustomerOf == [q \in Queries |-> CHOOSE c \in Customers : TRUE]

\* Every query is like every other.
MCSimilar == [q \in Queries |-> Queries]

=============================================================================
