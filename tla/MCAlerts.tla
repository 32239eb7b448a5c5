------------------------------ MODULE MCAlerts ------------------------------
(***************************************************************************)
(* A small instance of Alerts: alerts switched off and on by reloads.      *)
(***************************************************************************)
EXTENDS Alerts, TLC

AlertConfigs == {[on |-> TRUE, Cooldown |-> 2], [on |-> FALSE, Cooldown |-> 2]}

MCSymmetry == Permutations(Handlers) \cup Permutations(AlertKeys)

=============================================================================
