---------------------------- MODULE MCBrokerRequests ----------------------------
(* Uploads below, at and above the replay limit, through a tee that holds   *)
(* one chunk less than the longest; two redirects.                          *)
EXTENDS BrokerRequests
================================================================================
