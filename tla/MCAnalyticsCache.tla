-------------------------- MODULE MCAnalyticsCache --------------------------
(* One user o, who owns every project.                                     *)
EXTENDS AnalyticsCache

CONSTANTS o, p, q, e1

MCOwnerOf == [s \in Scopes |-> o]
MCProjectOf == [e \in Events |-> p]
=============================================================================
