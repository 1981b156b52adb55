------------------------ MODULE MCIncidentLifecycle ------------------------
(* Model values for IncidentLifecycle. *)
EXTENDS IncidentLifecycle

CONSTANTS i1, i2, q1, q2, t1

MCOneIncident == {i1}
MCTwoIncidents == {i1, i2}
MCNoRequest == {}
MCOneRequest == {q1}
MCTwoRequests == {q1, q2}
MCOneTarget == {t1}
MCSound == {"sound"}
MCAnyProfile == {"sound", "misfit", "missing"}
=============================================================================
