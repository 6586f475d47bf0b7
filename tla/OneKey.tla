------------------------------- MODULE OneKey -------------------------------
(***************************************************************************)
(* What the persisted API key promises: one key is chosen, once, and every *)
(* start of the server that serves at all serves with that key             *)
(* (README.md:180 of the repository).                                      *)
(***************************************************************************)
CONSTANTS Starts, Keys, NoKey

VARIABLES chosen,   \* the key, once there is one
          adopted   \* adopted[s]: the key start s serves with

vars == <<chosen, adopted>>

Init ==
  /\ chosen = NoKey
  /\ adopted = [s \in Starts |-> NoKey]

Choose ==
  /\ chosen = NoKey
  /\ chosen' \in Keys
  /\ UNCHANGED adopted

Adopt(s) ==
  /\ chosen # NoKey /\ adopted[s] = NoKey
  /\ adopted' = [adopted EXCEPT ![s] = chosen]
  /\ UNCHANGED chosen

Next == Choose \/ \E s \in Starts : Adopt(s)

Spec == Init /\ [][Next]_vars
=============================================================================
