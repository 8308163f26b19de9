------------------------------ MODULE MCNodeGuest ------------------------------
(* Small instances of NodeGuest: two sessions and three lease streams, each   *)
(* used again once its 'close' event has come.                              *)
EXTENDS NodeGuest

CONSTANTS s1, s2, l1, l2, l3
=============================================================================
