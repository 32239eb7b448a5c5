---------------------------- MODULE MCPanelOAuth ----------------------------
(***************************************************************************)
(* Small instances of PanelOAuth: a store of one attempt, two lifetimes.   *)
(***************************************************************************)
EXTENDS PanelOAuth, TLC

Panel == [Enabled |-> TRUE, AuthMaxAge |-> 1, TokenTTL |-> 3, realm |-> "a", actors |-> Actors]

\* A reload shortens the sessions, or lengthens them again.
PanelConfigs == {Panel, [Panel EXCEPT !.TokenTTL = 1]}
OnePanel     == {Panel}

MCSymmetry == Permutations(Handlers) \cup Permutations(Browsers) \cup Permutations(OAuthStates)

=============================================================================
