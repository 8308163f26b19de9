-------------------------- MODULE MCWebSocketEndpoint --------------------------
(* Queues of two messages.  Three sends of the Guest overflow the queue in    *)
(* front of its accept frame, or are on both sides of that frame; four of the *)
(* Broker overflow its own queue (one is being written, two wait) or the      *)
(* inbound queue of the Guest (one is with an async listener, two wait).      *)
EXTENDS WebSocketEndpoint

MCMaxSends == [e \in Ends |-> IF e = "guest" THEN 3 ELSE 4]
MCNative == {"broker"}
================================================================================
