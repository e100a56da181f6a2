----------------------------- MODULE MCRegistry -----------------------------
(* Two registries, a module and a fork id, two run ids.                     *)
EXTENDS Registry, TLC

CONSTANTS k1, k2

MCKeys == {k1, k2}

\* Two bytes of version to one, metadata that outgrows the padding, and metadata
\* with a blank name.
MCMetas == { [name |-> 10, version |-> 5, description |-> 20, uri |-> 20],
             [name |-> 10, version |-> 6, description |-> 40, uri |-> 20],
             [name |-> 0, version |-> 5, description |-> 20, uri |-> 20] }

MCPolicies ==
  { [allow_forks |-> TRUE, allow_unverified |-> TRUE,
     max_artifact_bytes |-> 2, max_runs_per_module |-> 2],
    [allow_forks |-> FALSE, allow_unverified |-> FALSE,
     max_artifact_bytes |-> 1, max_runs_per_module |-> 1] }

\* With MaxCount = 1, so that the counters of the registry saturate.
MCTinyPolicies ==
  { [allow_forks |-> TRUE, allow_unverified |-> FALSE,
     max_artifact_bytes |-> 1, max_runs_per_module |-> 1] }

Symmetry == Permutations(MCKeys)
=============================================================================
