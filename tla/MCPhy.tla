--------------------------------- MODULE MCPhy ---------------------------------
(***************************************************************************)
(* The phy with three signals at most in the air: one too weak to be heard *)
(* alone, one that only makes CCA busy and one that can be received.       *)
(***************************************************************************)
EXTENDS OvnisWifiPhy

MCPowers == {1, 2, 4}
=============================================================================
