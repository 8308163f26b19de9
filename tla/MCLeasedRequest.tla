----------------------------- MODULE MCLeasedRequest -----------------------------
(* One request with two chunks and one write after the end. *)
EXTENDS LeasedRequest
==================================================================================
