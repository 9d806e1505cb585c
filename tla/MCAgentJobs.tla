---------------------------- MODULE MCAgentJobs ----------------------------
(* Small instances of AgentJobs for TLC.                                    *)
EXTENDS AgentJobs, TLC

Symmetry == Permutations(Jobs)
=============================================================================
