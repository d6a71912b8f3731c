---------------------------- MODULE MCRpaGateway ----------------------------
(* Small instances of RpaGateway for TLC.                                   *)
EXTENDS RpaGateway, TLC

CONSTANTS h1, h2, b1, b2

HandlerSymmetry == Permutations(Handlers)
=============================================================================
