--------------------------- MODULE MCAgentClient ---------------------------
EXTENDS AgentClient
=============================================================================
