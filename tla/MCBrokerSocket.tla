----------------------------- MODULE MCBrokerSocket -----------------------------
(* Heads and bodies cut anywhere, limits that a single write can pass, and *)
(* streams that refuse after one chunk.                                    *)
EXTENDS BrokerSocket
=================================================================================
