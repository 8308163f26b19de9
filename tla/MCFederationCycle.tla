--------------------------- MODULE MCFederationCycle ---------------------------
(* Three Hosts that are all connected to each other, where no connection      *)
(* breaks: the Guest of the route, at the last one, comes and goes.           *)
EXTENDS FederationRoutes

Triangle == {<<1, 2>>, <<1, 3>>, <<2, 3>>}
AtLast == [r \in {"a"} |-> 3]

(* FederationInit, but every link was dialled, admitted and stored, and the   *)
(* empty tables were read.                                                    *)
ConnectedInit ==
    /\ local = [h \in Hosts |-> {}]
    /\ imported = [h \in Hosts |-> [k \in Owners |-> {}]]
    /\ seen = [h \in Hosts |-> {}]
    /\ counter = [h \in Hosts |-> 0]
    /\ view = [h \in Hosts |-> {}]
    /\ upstream = [l \in Links |-> 1] /\ inbound = upstream /\ dialled = upstream
    /\ pending = [l \in Links |-> 0]
    /\ failed = {} /\ closes = {} /\ overtaken = {}
    /\ handlers = Links \X {1} \X {"session", "stream"}
    /\ routed = Links
    /\ alive = Links \X {1}
    /\ wire = [p \in Pipes |-> <<>>]
    /\ changes = 0 /\ faults = 0

UnbrokenNext == FederationNext /\ UNCHANGED links

UnbrokenSpec == ConnectedInit /\ [][UnbrokenNext]_federationVars
================================================================================
