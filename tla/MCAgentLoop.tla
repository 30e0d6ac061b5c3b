----------------------------- MODULE MCAgentLoop -----------------------------
(* AgentLoop on a small conversation: one querying tool, one document tool,  *)
(* and a name outside the registry.                                          *)
EXTENDS AgentLoop

CONSTANTS query, docs, unknown, n1, n2

MCNames      == {query, docs, unknown}
MCTools      == {query, docs}
MCReferences == {docs}
MCRaising    == {docs}
MCNumbers    == {n1, n2}
==============================================================================
