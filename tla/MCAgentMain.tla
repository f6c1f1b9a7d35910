---------------------------- MODULE MCAgentMain ----------------------------
\* AgentMain for TLC: its constants are in the cfg.
EXTENDS AgentMain
============================================================================
