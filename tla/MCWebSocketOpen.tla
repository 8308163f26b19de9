---------------------------- MODULE MCWebSocketOpen ----------------------------
(* A Broker's open with a local candidate and the pool, and an open of      *)
(* another Host with the pool and the upstream: both want the pool stream.  *)
EXTENDS WebSocketOpen

CONSTANTS o1, o2, l1, l2, p1, p2, u1
MCPlan == [o \in Opens |-> IF o = o1 THEN <<"local", "pool">> ELSE <<"back", "pool", "up">>]
================================================================================
