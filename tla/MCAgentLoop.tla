---------------------------- MODULE MCAgentLoop ----------------------------
(* Model values for AgentLoop: one container with its state and its logs, and one *)
(* process that may be looked for again and again.                               *)
EXTENDS AgentLoop

CONSTANTS web, few, daemon

MCTargets == {web}
MCKnobs == {few}
MCNames == {daemon}
MCNeeds == [t \in MCTargets |-> {}]
MCChecks == <<web>>
MCResults == {"failed", "stopped", "sick", "fine"}
MCBothModes == BOOLEAN
MCManual == {FALSE}
=============================================================================
