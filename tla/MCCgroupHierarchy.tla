------------------------ MODULE MCCgroupHierarchy ------------------------
(***************************************************************************)
(* Instances of CgroupHierarchy: two pids for two or three runs, so that a *)
(* pid is used again, and flags that ask for nothing, for one limit, for   *)
(* two of which the later may be refused, and for a controller that is not *)
(* delegated.                                                              *)
(***************************************************************************)
EXTENDS CgroupHierarchy, TLC

MCDelegated == {"memory", "cpuset", "io"}
MCWants == {{}, {"memory.max"}, {"cpuset.cpus", "io.max"}, {"pids.max"}}

Symmetry == Permutations(Runs) \cup Permutations(Pids)

==========================================================================
