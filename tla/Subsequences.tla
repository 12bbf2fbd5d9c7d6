----------------------------- MODULE Subsequences -----------------------------
(* What a comprehension with a condition makes of a list. *)
EXTENDS Naturals, Sequences

Elements(s) == {s[i] : i \in DOMAIN s}

(* [x for x in s if x in S], as a function of the length that was read, so that
   theorems can be proved about it. *)
Keeping(s, S) ==
  LET kept[n \in 0..Len(s)] ==
        IF n = 0 THEN <<>>
        ELSE IF s[n] \in S THEN Append(kept[n - 1], s[n])
        ELSE kept[n - 1]
  IN kept[Len(s)]
===============================================================================
