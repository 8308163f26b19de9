--------------------------- MODULE MCFederationRoutes ---------------------------
(* Three Hosts in a line; the first one knows the second under an alias, and *)
(* the Guest of the route is at the last.                                    *)
EXTENDS FederationRoutes

Line == {<<1, 2>>, <<2, 3>>}
FirstLink == {<<1, 2>>}
AtLast == [r \in {"a"} |-> 3]
================================================================================
