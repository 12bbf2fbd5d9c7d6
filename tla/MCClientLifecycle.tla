------------------------- MODULE MCClientLifecycle -------------------------
(* Small instances of ClientLifecycle for TLC. *)
EXTENDS ClientLifecycle, TLC

Symmetry == Permutations(Users) \cup Permutations(Clients)
              \cup Permutations(Locks)
============================================================================
