-------------------------- MODULE SharedConnection --------------------------
(***************************************************************************)
(* What the shared client of tg_signer/core/client.py promises: many       *)
(* coroutines use one connection, the first one starts it, the last one    *)
(* stops it, nobody gets in while it starts or stops, and it is never      *)
(* stopped while somebody uses it.                                         *)
(***************************************************************************)
CONSTANT Users

VARIABLES
  members,   \* the coroutines that use the connection or are opening it
  link       \* "down", "starting", "up" or "stopping"

sharedVars == <<members, link>>

Init == members = {} /\ link = "down"

(* The first one in starts the connection and is alone until it is up. *)
Start(u) ==
  /\ link = "down"
  /\ members' = {u}
  /\ link' = "starting"

Started ==
  /\ link = "starting"
  /\ link' = "up"
  /\ UNCHANGED members

Failed ==
  /\ link = "starting"
  /\ members' = {}
  /\ link' = "stopping"

Join(u) ==
  /\ link = "up"
  /\ u \notin members
  /\ members' = members \cup {u}
  /\ UNCHANGED link

(* The last one out stops the connection. *)
Leave(u) ==
  /\ link = "up"
  /\ u \in members
  /\ members' = members \ {u}
  /\ link' = IF members = {u} THEN "stopping" ELSE "up"

Down ==
  /\ link = "stopping"
  /\ link' = "down"
  /\ UNCHANGED members

Next ==
  \/ \E u \in Users : Start(u) \/ Join(u) \/ Leave(u)
  \/ Started
  \/ Failed
  \/ Down

Spec == Init /\ [][Next]_sharedVars
=============================================================================
