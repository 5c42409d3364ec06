------------------------- MODULE MCTrustExchange -------------------------
(* A small instance of TrustExchange. *)
EXTENDS TrustExchange

MCOffsets == {-1, 0, 2}
=============================================================================
