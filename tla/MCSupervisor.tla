---------------------------- MODULE MCSupervisor ----------------------------
(***************************************************************************)
(* Instances of Supervisor: one unit, a unit with its requirement, and a   *)
(* chain of three whose table order is not its start order.                *)
(***************************************************************************)
EXTENDS Supervisor

One == <<<<>>>>
OnePolicy == <<"always">>
OneOrder == <<1>>

\* Unit 1 requires unit 2.
Pair == <<<<2>>, <<>>>>
PairPolicy == <<"always", "always">>
PairOrder == <<2, 1>>

\* Unit 1 requires unit 3, and unit 3 requires unit 2, a one-shot.
Chain == <<<<3>>, <<>>, <<2>>>>
ChainPolicy == <<"on-failure", "never", "always">>
ChainOrder == <<2, 3, 1>>

Delays == <<0, 1>>

\* The file is reloaded as it was, or without its marker and to be restarted
\* only after a failure.
OneEdits == <<{[requires |-> <<>>, ready |-> FALSE, respawn |-> "on-failure"]}>>
NoEdits == [u \in Unit |-> {}]
=============================================================================
