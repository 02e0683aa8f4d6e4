----------------------------- MODULE MCHttpServer -----------------------------
(* Two slots and three clients: a slot has to be taken a second time.      *)
EXTENDS HttpServer

CONSTANTS c1, c2, c3

MCConns == {c1, c2, c3}
==============================================================================
