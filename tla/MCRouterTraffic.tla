--------------------------- MODULE MCRouterTraffic ---------------------------
EXTENDS RouterTraffic

(* An element-sized and a line-sized request.                              *)
MCRequestBytes == {16, 64}
=============================================================================
