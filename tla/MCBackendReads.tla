-------------------------- MODULE MCBackendReads --------------------------
(* A small instance of BackendReads for TLC: the sizes of prompts are those *)
(* of the code, the smallest context that may be configured among them.     *)
EXTENDS BackendReads

CONSTANTS r1, r2, cpu, tailscale, web, api, db, cron, c1, c2, i1, i2, q1, q2

MCRequests == {r1, r2}
MCSignals == {cpu, tailscale}
MCOptional == {tailscale}
MCPolicies == {{cpu, tailscale}, {}}
MCServices == {web, api, db, cron}
MCChecked == {web, db, cron}
MCCallers == {c1, c2}
MCIncidents == {i1, i2}
MCSlots == {q1, q2}

\* Nothing, a chain, a cycle and a diamond; cron is nobody's dependency, or api's.
MCTopologies ==
  {[s \in MCServices |-> {}],
   [s \in MCServices |-> IF s = web THEN {api} ELSE IF s = api THEN {db} ELSE {}],
   [s \in MCServices |-> IF s = web THEN {api} ELSE IF s = api THEN {db, web} ELSE {api}],
   [s \in MCServices |-> IF s = web THEN {api, cron} ELSE IF s = api THEN {db, cron} ELSE {}]}

\* Small, with documents to drop, too large, and one of wide and narrow results
\* whose least shares overrun the budget.
MCContexts ==
  {[frame |-> 1500, clipped |-> 0, retrieved |-> 900, results |-> <<300>>],
   [frame |-> 2500, clipped |-> 900, retrieved |-> 1200, results |-> <<2500, 80>>],
   [frame |-> 3900, clipped |-> 0, retrieved |-> 0, results |-> <<400>>],
   [frame |-> 3660, clipped |-> 0, retrieved |-> 0, results |-> <<120, 90, 3000>>]}
MCSchemaChars == {600, 2400}
=============================================================================
