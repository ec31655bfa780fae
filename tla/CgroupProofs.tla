--------------------------- MODULE CgroupProofs ---------------------------
(***************************************************************************)
(* Proofs about CgroupHierarchy, for any number of runs and of pids.       *)
(*                                                                         *)
(* The argument: a pid names one process at a time (PidsDistinct), so      *)
(* while a run's child has its pid no other run writes to the directory of *)
(* that name (Written, NothingElse); a run that had the pid before may     *)
(* still remove the directory, but not once a live process is inside, and  *)
(* before that the removal makes the next write fail.  So no step of       *)
(* another run touches what is in force for a live container (ForceKept),  *)
(* which is all that Isolation, the refinement, takes.                     *)
(***************************************************************************)
EXTENDS CgroupHierarchy, TLAPS

\* The first of a set's members is one of them.
LEMMA FirstIn == ASSUME NEW l, NEW S, First(l, S) PROVE l \in S
BY DEF First

\* Every limit has its controller.
LEMMA ControllerType == \A l : ControllerOf(l) \in Controllers
BY DEF ControllerOf, Controllers

USE DEF vars, config, kernel, Goes, HoldsPid, Live

\* Every step keeps the variables in their types.
LEMMA TypeStep ==
  ASSUME HierarchyInv, NEW a \in Runs, Step(a) PROVE TypeOK'
<1> USE DEF HierarchyInv, TypeOK, ChildKnown, PC
<1>1. CASE Validate(a)
  BY <1>1 DEF Validate
<1>2. CASE Clone(a)
  BY <1>2 DEF Clone
<1>3. CASE Probe(a)
  BY <1>3 DEF Probe
<1>4. CASE Enable(a)
  BY <1>4, ControllerType DEF Enable, Required
<1>5. CASE MakeDir(a)
  BY <1>5 DEF MakeDir, DirOf
<1>6. CASE WriteLimit(a)
  BY <1>6 DEF WriteLimit, DirOf, Rejected
<1>7. CASE Join(a)
  BY <1>7 DEF Join, RemoveDir, DirOf
<1>8. CASE Go(a)
  BY <1>8 DEF Go
<1>9. CASE Reap(a)
  BY <1>9 DEF Reap, ChildOver
<1>10. CASE DropCgroup(a)
  BY <1>10 DEF DropCgroup, RemoveDir, DirOf
<1>11. CASE ChildEnds(a)
  BY <1>11 DEF ChildEnds
<1>12. CASE KillBoxed(a)
  BY <1>12 DEF KillBoxed
<1> QED
  BY <1>1, <1>2, <1>3, <1>4, <1>5, <1>6, <1>7, <1>8, <1>9, <1>10, <1>11, <1>12 DEF Step

\* A pid is given out only while nobody has it.
LEMMA PidsStep ==
  ASSUME HierarchyInv, NEW a \in Runs, Step(a) PROVE PidsDistinct' /\ ChildKnown'
<1> USE DEF HierarchyInv, TypeOK, PidsDistinct, ChildKnown
<1>1. CASE Validate(a)
  BY <1>1 DEF Validate
<1>2. CASE Clone(a)
  BY <1>2 DEF Clone
<1>3. CASE Probe(a)
  BY <1>3 DEF Probe
<1>4. CASE Enable(a)
  BY <1>4 DEF Enable
<1>5. CASE MakeDir(a)
  BY <1>5 DEF MakeDir
<1>6. CASE WriteLimit(a)
  BY <1>6 DEF WriteLimit, Rejected
<1>7. CASE Join(a)
  BY <1>7 DEF Join
<1>8. CASE Go(a)
  BY <1>8 DEF Go
<1>9. CASE Reap(a)
  BY <1>9 DEF Reap, ChildOver
<1>10. CASE DropCgroup(a)
  BY <1>10 DEF DropCgroup
<1>11. CASE ChildEnds(a)
  BY <1>11 DEF ChildEnds
<1>12. CASE KillBoxed(a)
  BY <1>12 DEF KillBoxed
<1> QED
  BY <1>1, <1>2, <1>3, <1>4, <1>5, <1>6, <1>7, <1>8, <1>9, <1>10, <1>11, <1>12 DEF Step

\* A run goes through the stages of its cgroup in order.
LEMMA StageStep ==
  ASSUME HierarchyInv, NEW a \in Runs, Step(a) PROVE CgroupStage'
<1> USE DEF HierarchyInv, TypeOK, ChildKnown, CgroupStage
<1>1. CASE Validate(a)
  BY <1>1 DEF Validate, Required
<1>2. CASE Clone(a)
  BY <1>2 DEF Clone, Required
<1>3. CASE Probe(a)
  BY <1>3 DEF Probe, Required
<1>4. CASE Enable(a)
  BY <1>4 DEF Enable, Required
<1>5. CASE MakeDir(a)
  BY <1>5 DEF MakeDir, Required
<1>6. CASE WriteLimit(a)
  BY <1>6 DEF WriteLimit, Rejected, Required
<1>7. CASE Join(a)
  BY <1>7 DEF Join, Required
<1>8. CASE Go(a)
  BY <1>8 DEF Go, Required
<1>9. CASE Reap(a)
  BY <1>9 DEF Reap, ChildOver, Required
<1>10. CASE DropCgroup(a)
  BY <1>10 DEF DropCgroup, Required
<1>11. CASE ChildEnds(a)
  BY <1>11 DEF ChildEnds, Required
<1>12. CASE KillBoxed(a)
  BY <1>12 DEF KillBoxed, Required
<1> QED
  BY <1>1, <1>2, <1>3, <1>4, <1>5, <1>6, <1>7, <1>8, <1>9, <1>10, <1>11, <1>12 DEF Step

\* What a run has written stays written while its child has the pid.
LEMMA WrittenStep ==
  ASSUME HierarchyInv, NEW a \in Runs, Step(a) PROVE Written'
<1> USE DEF HierarchyInv, TypeOK, PidsDistinct, ChildKnown, CgroupStage, Written
<1>1. CASE Validate(a)
  BY <1>1 DEF Validate
<1>2. CASE Clone(a)
  BY <1>2 DEF Clone
<1>3. CASE Probe(a)
  BY <1>3 DEF Probe
<1>4. CASE Enable(a)
  BY <1>4 DEF Enable
<1>5. CASE MakeDir(a)
  BY <1>5 DEF MakeDir, DirOf
<1>6. CASE WriteLimit(a)
  BY <1>6, FirstIn DEF WriteLimit, DirOf, Rejected
<1>7. CASE Join(a)
  BY <1>7 DEF Join, RemoveDir, Busy, DirOf
<1>8. CASE Go(a)
  BY <1>8 DEF Go
<1>9. CASE Reap(a)
  BY <1>9 DEF Reap, ChildOver
<1>10. CASE DropCgroup(a)
  BY <1>10 DEF DropCgroup, RemoveDir, Busy, DirOf
<1>11. CASE ChildEnds(a)
  BY <1>11 DEF ChildEnds
<1>12. CASE KillBoxed(a)
  BY <1>12 DEF KillBoxed
<1> QED
  BY <1>1, <1>2, <1>3, <1>4, <1>5, <1>6, <1>7, <1>8, <1>9, <1>10, <1>11, <1>12 DEF Step

\* Nobody else writes there, and a directory starts empty.
LEMMA NothingElseStep ==
  ASSUME HierarchyInv, NEW a \in Runs, Step(a) PROVE NothingElse'
<1> USE DEF HierarchyInv, TypeOK, PidsDistinct, ChildKnown, CgroupStage, Written, NothingElse
<1>1. CASE Validate(a)
  BY <1>1 DEF Validate
<1>2. CASE Clone(a)
  BY <1>2 DEF Clone
<1>3. CASE Probe(a)
  BY <1>3 DEF Probe
<1>4. CASE Enable(a)
  BY <1>4 DEF Enable
<1>5. CASE MakeDir(a)
  BY <1>5 DEF MakeDir, DirOf
<1>6. CASE WriteLimit(a)
  BY <1>6, FirstIn DEF WriteLimit, DirOf, Rejected
<1>7. CASE Join(a)
  BY <1>7 DEF Join, RemoveDir, Busy, DirOf
<1>8. CASE Go(a)
  BY <1>8 DEF Go
<1>9. CASE Reap(a)
  BY <1>9 DEF Reap, ChildOver
<1>10. CASE DropCgroup(a)
  BY <1>10 DEF DropCgroup, RemoveDir, Busy, DirOf
<1>11. CASE ChildEnds(a)
  BY <1>11 DEF ChildEnds
<1>12. CASE KillBoxed(a)
  BY <1>12 DEF KillBoxed
<1> QED
  BY <1>1, <1>2, <1>3, <1>4, <1>5, <1>6, <1>7, <1>8, <1>9, <1>10, <1>11, <1>12 DEF Step

\* A limit is written only where its controller is enabled, and none is disabled.
LEMMA EnabledStep ==
  ASSUME HierarchyInv, NEW a \in Runs, Step(a) PROVE EnabledFirst'
<1> USE DEF HierarchyInv, TypeOK, EnabledFirst
<1>1. enabled \subseteq enabled'
  BY DEF Step, Validate, Clone, Probe, Enable, MakeDir, WriteLimit, Join, Go, Reap,
         DropCgroup, ChildEnds, KillBoxed
<1>2. CASE WriteLimit(a)
  BY <1>2 DEF WriteLimit
<1>3. CASE ~ WriteLimit(a)
  <2>1. \A p \in Pids : limits'[p] \subseteq limits[p]
    BY <1>3 DEF Step, Validate, Clone, Probe, Enable, MakeDir, Join, Go, Reap,
                DropCgroup, RemoveDir, ChildEnds, KillBoxed
  <2> QED
    BY ONLY <1>1, <2>1, HierarchyInv DEF HierarchyInv, EnabledFirst
<1> QED
  BY <1>2, <1>3

\* A directory that survives a Drop belongs to the run whose process is inside.
LEMMA AccountedStep ==
  ASSUME HierarchyInv, NEW a \in Runs, Step(a) PROVE DirsAccounted'
<1> USE DEF HierarchyInv, TypeOK, PidsDistinct, ChildKnown, CgroupStage, DirsAccounted
<1>1. CASE Validate(a)
  BY <1>1 DEF Validate
<1>2. CASE Clone(a)
  BY <1>2 DEF Clone
<1>3. CASE Probe(a)
  BY <1>3 DEF Probe
<1>4. CASE Enable(a)
  BY <1>4 DEF Enable
<1>5. CASE MakeDir(a)
  BY <1>5 DEF MakeDir, DirOf
<1>6. CASE WriteLimit(a)
  BY <1>6, FirstIn DEF WriteLimit, DirOf, Rejected
<1>7. CASE Join(a)
  BY <1>7 DEF Join, RemoveDir, Busy, DirOf
<1>8. CASE Go(a)
  BY <1>8 DEF Go
<1>9. CASE Reap(a)
  BY <1>9 DEF Reap, ChildOver
<1>10. CASE DropCgroup(a)
  BY <1>10 DEF DropCgroup, RemoveDir, Busy, DirOf
<1>11. CASE ChildEnds(a)
  BY <1>11 DEF ChildEnds
<1>12. CASE KillBoxed(a)
  BY <1>12 DEF KillBoxed
<1> QED
  BY <1>1, <1>2, <1>3, <1>4, <1>5, <1>6, <1>7, <1>8, <1>9, <1>10, <1>11, <1>12 DEF Step

\* A container in its cgroup is under all that is written there.
LEMMA ForceIsWritten ==
  ASSUME HierarchyInv, NEW r \in Runs, child[r] = "running", r \in joined
  PROVE  InForce(r) = limits[pid[r]]
<1>1. pid[r] \in Pids
  BY DEF HierarchyInv, ChildKnown
<1> QED
  BY <1>1 DEF HierarchyInv, EnabledFirst, InForce, DirOf

\* No step touches the limits of a container that runs before it and after it.
LEMMA ForceKept ==
  ASSUME HierarchyInv, HierarchyInv', NEW a \in Runs, Step(a), NEW r \in Runs,
         child[r] = "running", child'[r] = "running"
  PROVE  InForce(r)' = InForce(r)
<1> USE DEF HierarchyInv, TypeOK, PidsDistinct, ChildKnown, CgroupStage
<1>1. r \in joined' <=> r \in joined
  BY DEF Step, Validate, Clone, Probe, Enable, MakeDir, WriteLimit, Join, Go, Reap,
         DropCgroup, ChildEnds, KillBoxed
<1>2. CASE r \in joined
  <2>1. pid'[r] = pid[r]
    BY DEF Step, Validate, Clone, Probe, Enable, MakeDir, WriteLimit, Join, Go, Reap,
           DropCgroup, ChildEnds, KillBoxed
  <2>2. limits'[pid[r]] = limits[pid[r]]
    <3>1. CASE WriteLimit(a)
      BY <3>1 DEF WriteLimit, DirOf
    <3>2. CASE Join(a) \/ DropCgroup(a)
      BY <1>2, <3>2 DEF Join, DropCgroup, RemoveDir, Busy, DirOf
    <3>3. CASE UNCHANGED limits
      BY <3>3
    <3> QED
      BY <3>1, <3>2, <3>3 DEF Step, Validate, Clone, Probe, Enable, MakeDir, Go, Reap,
                              ChildEnds, KillBoxed
  <2>3. r \in joined'
    BY ONLY <1>1, <1>2
  <2>4. InForce(r) = limits[pid[r]]
    BY ONLY <1>2, HierarchyInv, child[r] = "running", r \in Runs, ForceIsWritten
  <2>5. pid'[r] \in Pids
    BY DEF HierarchyInv
  <2>6. InForce(r)' = limits'[pid'[r]]
    BY ONLY <2>3, <2>5, HierarchyInv', child'[r] = "running" DEF HierarchyInv, EnabledFirst, InForce, DirOf
  <2> QED
    BY ONLY <2>1, <2>2, <2>4, <2>6
<1>3. CASE r \notin joined
  BY ONLY <1>1, <1>3 DEF InForce
<1> QED
  BY ONLY <1>2, <1>3

\* A container starts with all its limits, and with none if it asked for none.
LEMMA ForceAtStart ==
  ASSUME HierarchyInv', NEW r \in Runs, child'[r] = "running"
  PROVE  /\ want'[r] \X {r} \subseteq InForce(r)'
         /\ InForce(r)' \subseteq Limits \X Runs
         /\ want'[r] = {} => InForce(r)' = {}
<1>1. CASE want'[r] = {}
  <2>1. r \notin joined'
    BY <1>1 DEF HierarchyInv, CgroupStage
  <2> QED
    BY ONLY <1>1, <2>1 DEF InForce
<1>2. CASE want'[r] # {}
  <2>1. r \in joined' /\ pid'[r] \in Pids
    BY <1>2 DEF HierarchyInv, ChildKnown, CgroupStage
  <2>2. InForce(r)' = limits'[pid'[r]]
    BY ONLY <2>1, HierarchyInv', child'[r] = "running" DEF HierarchyInv, EnabledFirst, InForce, DirOf
  <2>3. \A l \in want'[r] : <<l, r>> \in limits'[pid'[r]]
    BY <2>1 DEF HierarchyInv, Written
  <2>4. limits'[pid'[r]] \subseteq Limits \X Runs
    BY <2>1 DEF HierarchyInv, TypeOK
  <2> QED
    BY ONLY <1>2, <2>2, <2>3, <2>4
<1> QED
  BY <1>1, <1>2

\* A step of the hierarchy is, for each container, its start, its end or nothing.
LEMMA PrivateStep ==
  ASSUME HierarchyInv, HierarchyInv', NEW a \in Runs, Step(a)
  PROVE  [Private!Next]_(Private!vars)
<1>1. want' = want
  BY DEF Step, Validate, Clone, Probe, Enable, MakeDir, WriteLimit, Join, Go, Reap,
         DropCgroup, ChildEnds, KillBoxed
<1>2. \A r \in Runs \ {a} : child'[r] = child[r]
  BY DEF HierarchyInv, TypeOK, Step, Validate, Clone, Probe, Enable, MakeDir, WriteLimit, Join,
         Go, Reap, DropCgroup, ChildEnds, KillBoxed
<1>3. \/ child'[a] = child[a]
      \/ child[a] = "none" /\ child'[a] = "waiting"
      \/ child[a] = "waiting" /\ child'[a] = "running"
      \/ child[a] \in {"waiting", "running", "zombie"} /\ child'[a] \in {"zombie", "reaped"}
  BY DEF HierarchyInv, TypeOK, ChildKnown, Step, Validate, Clone, Probe, Enable, MakeDir,
         WriteLimit, Join, Go, Reap, ChildOver, DropCgroup, ChildEnds, KillBoxed
<1>4. ASSUME NEW r \in Runs, child'[r] = child[r]
      PROVE  Phase(r)' = Phase(r) /\ InForce(r)' = InForce(r)
  <2>1. CASE child[r] = "running"
    BY ONLY <1>4, <2>1, HierarchyInv, HierarchyInv', a \in Runs, Step(a), ForceKept DEF Phase
  <2>2. CASE child[r] # "running"
    BY ONLY <1>4, <2>2 DEF InForce, Phase
  <2> QED
    BY ONLY <2>1, <2>2
<1>5. \A r \in Runs \ {a} : Phase(r)' = Phase(r) /\ InForce(r)' = InForce(r)
  BY ONLY <1>2, <1>4
<1>6. CASE Phase(a)' = Phase(a) /\ InForce(a)' = InForce(a)
  <2>1. \A r \in Runs : Phase(r)' = Phase(r) /\ InForce(r)' = InForce(r)
    BY ONLY <1>5, <1>6
  <2> QED
    BY ONLY <1>1, <2>1 DEF Private!vars
<1>7. CASE child[a] = "waiting" /\ child'[a] = "running"
  <2>1. /\ want'[a] \X {a} \subseteq InForce(a)'
        /\ InForce(a)' \subseteq Limits \X Runs
        /\ want'[a] = {} => InForce(a)' = {}
    BY ONLY <1>7, HierarchyInv', a \in Runs, ForceAtStart
  <2>2. Phase(a) = "before" /\ Phase(a)' = "running"
    BY ONLY <1>7 DEF Phase
  <2>3. Private!Start(a)
    BY ONLY <1>1, <1>5, <2>1, <2>2, a \in Runs DEF Private!Start
  <2> QED
    BY ONLY <2>3, a \in Runs DEF Private!Next
<1>8. CASE child[a] \in {"waiting", "running"} /\ child'[a] \in {"zombie", "reaped"}
  <2>1. InForce(a)' = {}
    BY ONLY <1>8 DEF InForce
  <2>2. Phase(a) \in {"before", "running"} /\ Phase(a)' = "over"
    BY ONLY <1>8 DEF Phase
  <2>3. Private!End(a)
    BY ONLY <1>1, <1>5, <2>1, <2>2, a \in Runs DEF Private!End
  <2> QED
    BY ONLY <2>3, a \in Runs DEF Private!Next
<1>9. CASE \/ child[a] = "none" /\ child'[a] = "waiting"
           \/ child[a] = "zombie" /\ child'[a] \in {"zombie", "reaped"}
  <2>1. Phase(a)' = Phase(a) /\ InForce(a)' = InForce(a)
    BY ONLY <1>9 DEF Phase, InForce
  <2> QED
    BY ONLY <1>6, <2>1
<1>10. CASE child'[a] = child[a]
  BY ONLY <1>4, <1>6, <1>10, a \in Runs
<1> QED
  BY ONLY <1>3, <1>7, <1>8, <1>9, <1>10

----------------------------------------------------------------------------
\* HierarchyInv holds of every reachable state, for all runs, pids and flags.
THEOREM Invariance == Spec => []HierarchyInv
<1>1. Init => HierarchyInv
  <2> SUFFICES ASSUME Init PROVE HierarchyInv
    OBVIOUS
  <2>1. TypeOK
    BY WantsAssumption DEF Init, TypeOK, PC
  <2>2. PidsDistinct /\ ChildKnown /\ CgroupStage
    BY DEF Init, PidsDistinct, ChildKnown, CgroupStage
  <2>3. Written /\ NothingElse /\ EnabledFirst /\ DirsAccounted
    BY DEF Init, Written, NothingElse, EnabledFirst, DirsAccounted
  <2> QED
    BY <2>1, <2>2, <2>3 DEF HierarchyInv
<1>2. HierarchyInv /\ [Next]_vars => HierarchyInv'
  <2> SUFFICES ASSUME HierarchyInv, [Next]_vars PROVE HierarchyInv'
    OBVIOUS
  <2>1. ASSUME NEW a \in Runs, Step(a) PROVE HierarchyInv'
    BY ONLY HierarchyInv, <2>1, TypeStep, PidsStep, StageStep, WrittenStep, NothingElseStep,
            EnabledStep, AccountedStep DEF HierarchyInv
  <2>2. CASE UNCHANGED vars
    BY <2>2 DEF HierarchyInv, TypeOK, PidsDistinct, ChildKnown, CgroupStage, Written,
                NothingElse, EnabledFirst, DirsAccounted, Required, DirOf
  <2> QED
    BY <2>1, <2>2 DEF Next, Finished
<1> QED
  BY <1>1, <1>2, PTL DEF Spec

\* Whatever other runs do, a running container is under all its limits.
THEOREM LimitsHold == Spec => []LimitsInForce
<1>1. HierarchyInv => LimitsInForce
  <2> SUFFICES ASSUME HierarchyInv, NEW r \in Runs, child[r] = "running", want[r] # {}
               PROVE  /\ r \in joined /\ pid[r] \in dirs
                      /\ \A l \in want[r] : /\ <<l, r>> \in limits[pid[r]]
                                           /\ ControllerOf(l) \in enabled
    BY DEF LimitsInForce
  <2>1. r \in joined /\ Required(r) \subseteq enabled
    BY DEF HierarchyInv, ChildKnown, CgroupStage
  <2>2. pid[r] \in dirs /\ \A l \in want[r] : <<l, r>> \in limits[pid[r]]
    BY <2>1 DEF HierarchyInv, Written
  <2> QED
    BY <2>1, <2>2 DEF Required
<1> QED
  BY <1>1, Invariance, PTL

\* A directory the run made itself carries no other run's limits.
THEOREM NoOtherLimits == Spec => []LimitsExact
<1>1. HierarchyInv => LimitsExact
  <2> SUFFICES ASSUME HierarchyInv, NEW r \in Runs, child[r] = "running",
                      r \notin adopted, want[r] # {}
               PROVE  limits[pid[r]] = want[r] \X {r}
    BY DEF LimitsExact
  <2>1. r \in joined /\ pid[r] \in Pids
    BY DEF HierarchyInv, ChildKnown, CgroupStage
  <2>2. \A l \in want[r] : <<l, r>> \in limits[pid[r]]
    BY <2>1 DEF HierarchyInv, Written
  <2>3. \A w \in limits[pid[r]] : w[1] \in want[r] /\ w[2] = r
    BY <2>1 DEF HierarchyInv, NothingElse
  <2>4. limits[pid[r]] \subseteq Limits \X Runs
    BY <2>1 DEF HierarchyInv, TypeOK
  <2> QED
    BY <2>2, <2>3, <2>4
<1> QED
  BY <1>1, Invariance, PTL

\* Runs that share the hierarchy and its pids are, to their containers, alone: the
\* hierarchy implements PrivateLimits.
THEOREM Isolation == Spec => ImplementsPrivateLimits
<1>1. Init => Private!Init
  BY DEF Init, Private!Init, Phase, InForce
<1>2. HierarchyInv /\ HierarchyInv' /\ [Next]_vars => [Private!Next]_(Private!vars)
  <2> SUFFICES ASSUME HierarchyInv, HierarchyInv', [Next]_vars PROVE [Private!Next]_(Private!vars)
    OBVIOUS
  <2>1. CASE UNCHANGED vars
    BY ONLY <2>1 DEF vars, config, kernel, Private!vars, Phase, InForce, DirOf
  <2> QED
    BY ONLY HierarchyInv, HierarchyInv', [Next]_vars, <2>1, PrivateStep DEF Next, Finished
<1> QED
  BY <1>1, <1>2, Invariance, PTL DEF Spec, ImplementsPrivateLimits, Private!Spec

\* No directory is left but by a run that still owns it, was killed, or failed in
\* the middle of create.
THEOREM NoStrayDirectory == Spec => []DirsAccounted
<1>1. HierarchyInv => DirsAccounted
  BY DEF HierarchyInv
<1> QED
  BY <1>1, Invariance, PTL

============================================================================
