-------------------------- MODULE MCAlertDelivery --------------------------
(* Small instances of AlertDelivery for TLC: two keys. *)
EXTENDS AlertDelivery, TLC

CONSTANTS Same, Other   \* the events about the first and the second key

KeyOf == [e \in Events |-> IF e \in Same THEN "job" ELSE "login"]

(* Bound: both channels are open to every call. *)
BothOpen == {Channels}

Symmetry == Permutations(Same)
=============================================================================
