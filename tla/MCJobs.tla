------------------------------- MODULE MCJobs -------------------------------
(* Small instances of Jobs for TLC. *)
EXTENDS Jobs, TLC

MCShape == {"small", "large"}
MCWorkerBytes == [s \in MCShape |-> IF s = "small" THEN 1 ELSE 2]
MCCacheBytes == [s \in MCShape |-> IF s = "small" THEN 1 ELSE 2]
MCScratchBytes == [s \in MCShape |-> 1]
MCOneShape == {"small"}
MCOneUnit == [s \in MCOneShape |-> 1]

\* Two slots, memory for three units of workers, one job beyond the slots.
MCDefault == [max_workers |-> 2, memory_bytes |-> 8, coordinator_bytes |-> 5,
              max_queue |-> 1, max_jobs |-> 4, scratch_bytes |-> 3]
\* One slot and no queue: a second submission must be refused.
MCNarrow == [max_workers |-> 1, memory_bytes |-> 4, coordinator_bytes |-> 3,
             max_queue |-> 0, max_jobs |-> 2, scratch_bytes |-> 2]
\* One slot and one waiting job: the second job runs when the first has let go.
MCSingle == [max_workers |-> 1, memory_bytes |-> 4, coordinator_bytes |-> 3,
             max_queue |-> 1, max_jobs |-> 2, scratch_bytes |-> 2]
MCSingleConfig == {MCSingle}
MCConfig == {MCDefault, MCNarrow}
MCOneConfig == {MCDefault}
JobSymmetry == Permutations(Job)
=============================================================================
