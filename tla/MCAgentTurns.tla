---------------------------- MODULE MCAgentTurns ----------------------------
\* A primary agent with a durable store, alone or with a second one.
EXTENDS AgentTurns, TLC

CONSTANTS a1, a2, c1, c2
=============================================================================
