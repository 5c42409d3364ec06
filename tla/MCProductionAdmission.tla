----------------------- MODULE MCProductionAdmission -----------------------
(* Instances of ProductionAdmission for TLC. *)
EXTENDS ProductionAdmission

CONSTANTS s1, s2

P(s, i, b, e, f) == [audience |-> s, id |-> i, body |-> b, expires |-> e, fault |-> f]

\* Two bodies under one message id with different expiries, the same id for
\* another audience, a packet whose lifetime is too long, and one packet
\* for each fault.
MCPacket ==
    {P(s1, 1, "a", 1, "none"), P(s1, 1, "b", 2, "none"),
     P(s2, 1, "a", 3, "none"), P(s2, 2, "a", 5, "none")}
    \cup {P(s2, 3, "a", 2, f) : f \in Fault \ {"none"}}

\* Two messages on two subjects.
MCRacePacket == {P(s1, 1, "a", 1, "none"), P(s2, 2, "a", 3, "none")}
============================================================================
