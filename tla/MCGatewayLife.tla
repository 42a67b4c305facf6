--------------------------- MODULE MCGatewayLife ---------------------------
(* GatewayLife instantiated for TLC; the .cfg file gives the constants. *)
EXTENDS GatewayLife
=============================================================================
