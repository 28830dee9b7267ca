---------------------------- MODULE MCJwksCache -----------------------------
(* Two keys, so that one is published while the other is withdrawn; requests *)
(* in two threads overlap. Neither keys nor threads are told apart.          *)
EXTENDS JwksCache, TLC

MCSymmetry == Permutations(KeyIds) \cup Permutations(Threads)

=============================================================================
