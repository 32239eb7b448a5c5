-------------------------- MODULE MCGatewayWrites --------------------------
(***************************************************************************)
(* The runs in which every write is a restricted one.                      *)
(***************************************************************************)
EXTENDS MCGateway, GatewayService

=============================================================================
