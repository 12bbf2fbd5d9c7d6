-------------------------- MODULE MCAccountSharing --------------------------
(* Small instances of AccountSharing for TLC: which services share the     *)
(* account is chosen in the configuration.                                 *)
EXTENDS AccountSharing, TLC

CONSTANTS SignRuns, Monitors, MangaWorkers, StatusChecks

KindOf == [u \in Users |-> CASE u \in SignRuns     -> "sign"
                             [] u \in Monitors     -> "monitor"
                             [] u \in MangaWorkers -> "manga"
                             [] u \in StatusChecks -> "status"]

(* Bounds: at most one service has been outside the discipline of the       *)
(* account lock, and an unused Client object is left.                       *)
Bounded == Cardinality(strays) <= 1 /\ Spare

Symmetry == Permutations(SignRuns) \cup Permutations(Clients)
              \cup Permutations(Locks)
=============================================================================
