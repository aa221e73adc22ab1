---------------------------- MODULE CrewRescueMC ----------------------------
(* A lone ship and a convoy that share a tavern, and a lead too small.       *)
EXTENDS CrewRescue

MCMinSailors == [s \in Fleet |-> 1]
\* Full crews that reach the leader's minimum, and one that does not.
MCFullCrew == [s \in Fleet |-> 2]
MCFullCrewSmall == [s \in Fleet |-> IF s \in Leads THEN 1 ELSE 2]
=============================================================================
