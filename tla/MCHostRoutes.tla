----------------------------- MODULE MCHostRoutes -----------------------------
(* A small instance of HostRoutes *)
EXTENDS HostRoutes

CONSTANTS g1, g2, d1, d2, s1, s2, rb, lb

\* A Guest registers one route or all of them (the first one by symmetry).
SomeRoutes == {{d1}, Domains}
=============================================================================
