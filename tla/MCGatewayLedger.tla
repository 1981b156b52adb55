-------------------------- MODULE MCGatewayLedger --------------------------
(* Model values for GatewayLedger: an action the policy grants and one whose *)
(* target it does not grant, two threads, a current and a rotated secret.    *)
EXTENDS GatewayLedger

CONSTANTS a1, a2, j1, j2, current, rotated

MCActionIds == {a1, a2}
MCInScope == {a1}
MCJobs == {j1, j2}
MCSecrets == {current, rotated}
=============================================================================
