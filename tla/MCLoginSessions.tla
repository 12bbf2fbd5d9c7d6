-------------------------- MODULE MCLoginSessions --------------------------
(* Instances of LoginSessions for TLC. *)
EXTENDS LoginSessions

OwnKeys == {<<a, a>> : a \in Accounts}
PrefixKeys == OwnKeys \cup {<<"a", "a_b">>}

QrMayOverlap == {{}, {"qr"}}
PhoneMayOverlap == {{"phone"}}
=============================================================================
