---------------------------- MODULE MCPaperExchange ----------------------------
(***************************************************************************)
(* A paper account that affords two buys at the lower price, or an OCO.    *)
(***************************************************************************)
EXTENDS PaperExchange

MCFee == [price \in Prices |-> price - 1]

=============================================================================
