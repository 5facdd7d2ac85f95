---------------------------- MODULE MCPairWriter ----------------------------
(* Three invocations on two output names: two analyses of one name and one  *)
(* of another.                                                               *)
EXTENDS PairWriter
CONSTANTS w1, w2, w3, a, b

MCWriters == {w1, w2, w3}
MCStems == {a, b}
MCStemOf == [w \in MCWriters |-> IF w = w3 THEN b ELSE a]
=============================================================================
