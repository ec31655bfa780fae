------------------------- MODULE ConfinementProofs -------------------------
(***************************************************************************)
(* Proofs about Confinement, for any capabilities, any number of layers    *)
(* and any number of runs with the same pid.                               *)
(*                                                                         *)
(* ConfineInv says what each call finds done when it is next: the maps written   *)
(* (MapsWritten), the directories made (DirsMade), how far the root has    *)
(* been moved (RootMoved), and which capabilities have left which sets     *)
(* (CapsDropped).  Then the kernel accepts whatever is next (Accepted),    *)
(* and no failure is of the order's making.  FilesAccounted adds what the  *)
(* upper directory keeps between runs, and NarrowerStep looks at single    *)
(* steps: none of them gives a container back what it was denied.          *)
(***************************************************************************)
EXTENDS Confinement, WellFoundedInduction, TLAPS

----------------------------------------------------------------------------
(***************************************************************************)
(* The inductive invariant.                                                *)
(***************************************************************************)
BeforeRoot == MapCalls \cup {"hostname", "layers", "upper", "work", "merged",
                             "overlay"}
RootCalls  == {"private", "bind", "proc", "chdir", "pivot", "detach", "chdirRoot"}
CapCalls   == {"bounding", "effective", "permitted", "inheritable"}
LockCalls  == {"nnp", "filter", "exec"}
Moved      == CapCalls \cup LockCalls \cup {"running"}

\* boxed writes the maps in order, and the child starts when all are written.
MapsWritten ==
    /\ pc = "setgroups" => c.maps = {}
    /\ pc = "uid_map" => c.maps = {"setgroups"}
    /\ pc = "gid_map" => c.maps = {"setgroups", "uid_map"}
    /\ pc \in ShimCalls \cup {"running"} /\ "rootless" \in opts => c.maps = Maps

\* Only an image has a scratch directory; overlayfs is asked for when it is whole.
DirsMade ==
    /\ pc \in {"layers", "upper", "work", "merged", "overlay"} => "image" \in opts
    /\ pc \in {"work", "merged", "overlay"} => "upper" \in dirs
    /\ pc \in {"merged", "overlay"} => "work" \in dirs
    /\ pc = "overlay" => "merged" \in dirs

\* setup_rootfs: private before anything else, a mount point to stand in, and the
\* old root first under, then gone.
RootMoved ==
    /\ c.peers = "shared" => "shared" \in opts /\ "rootless" \notin opts
    /\ pc \in RootCalls \ {"private"} => c.peers = "private"
    /\ pc \in RootCalls \ {"private", "bind"} => "bind" \in c.mounts
    /\ pc \in {"chdir", "pivot", "detach", "chdirRoot"} => "proc" \in c.mounts
    /\ pc = "pivot" => c.cwd = "mount"
    /\ pc \in BeforeRoot \cup {"private", "bind", "proc", "chdir", "pivot"} =>
           c.root = "host"
    /\ pc = "detach" => c.root = "stacked"
    /\ pc = "chdirRoot" => c.root = "new"
    /\ pc \in Moved /\ opts \cap {"rootfs", "image"} # {} =>
           c.root = "new" /\ c.cwd = "root" /\ "proc" \in c.mounts

\* What is dropped has left every set that the loop has passed; it keeps what the
\* loop itself needs.
CapsDropped ==
    /\ pc \in BeforeRoot \cup RootCalls => c.caps["effective"] = Caps
    /\ pc \in BeforeRoot \cup RootCalls \cup CapCalls \cup LockCalls =>
           RETAINED_CAPS \subseteq c.caps["effective"]
    /\ pc \in BeforeRoot \cup RootCalls => c.todo = Caps \ RETAINED_CAPS
    /\ pc \in {"effective", "permitted", "inheritable"} =>
           c.cap \notin c.todo /\ c.cap \notin RETAINED_CAPS
    /\ pc \in LockCalls => c.todo = {}
    /\ pc \in CapCalls \cup LockCalls =>
           /\ c.caps["bounding"] \subseteq RETAINED_CAPS \cup c.todo
           /\ \A k \in c.caps["effective"] :
                 k \in RETAINED_CAPS \cup c.todo \/ (k = c.cap /\ pc = "effective")
           /\ \A k \in c.caps["permitted"] :
                 \/ k \in RETAINED_CAPS \cup c.todo
                 \/ k = c.cap /\ pc \in {"effective", "permitted"}
           /\ \A k \in c.caps["inheritable"] :
                 \/ k \in RETAINED_CAPS \cup c.todo
                 \/ k = c.cap /\ pc \in {"effective", "permitted", "inheritable"}

\* The locks are put on last, no_new_privs first.
Locked ==
    /\ pc \in BeforeRoot \cup RootCalls \cup CapCalls \cup {"nnp"} => c.locks = {}
    /\ pc = "filter" => "nnp" \in c.locks
    /\ pc \in {"exec", "running"} => c.locks = {"nnp", "filter"}

\* Whose files the upper directory has, and who is excused.
FilesAccounted ==
    /\ boxed = "killed" => run \in lost
    /\ boxed = "exited" => pc = "done"
    /\ pc \in BeforeRoot => run \notin upper
    /\ upper # {} => "image" \in opts /\ "upper" \in dirs
    /\ pc = "remove" => sealed # "000"
    /\ FilesLeftForAReason

\* The layers are listed before the directories are made.
LayersListed ==
    pc \in {"upper", "work", "merged", "overlay"} \/ "overlay" \in c.mounts =>
        c.lower = LowerDirs

ConfineInv == /\ TypeOK /\ MapsWritten /\ DirsMade /\ RootMoved /\ CapsDropped /\ Locked
              /\ FilesAccounted /\ LayersListed /\ NeverOutOfOrder /\ CapsWithin
              /\ OnlyOverlayLeaks

USE DEF Does, Alone, Mount

\* The control points that the sets of PC name, spelled out.
LEMMA Points ==
  /\ MapCalls = {"setgroups", "uid_map", "gid_map"} /\ Maps = MapCalls
  /\ BoxedCalls = {"chmod", "remove"}
  /\ ShimCalls = {"hostname", "layers", "upper", "work", "merged", "chdir",
                  "chdirRoot", "bounding", "effective", "permitted",
                  "inheritable", "nnp", "filter", "exec", "overlay", "private",
                  "bind", "proc", "pivot", "detach"}
BY DEF MapCalls, Maps, BoxedCalls, ShimCalls, MountCalls

\* The retained capabilities, and the one that a mount needs, exist.
LEMMA CapsExist ==
  /\ RETAINED_CAPS \subseteq Caps
  /\ "CAP_SYS_ADMIN" \in Caps /\ "CAP_SETPCAP" \in RETAINED_CAPS
BY CapsAssumption DEF RETAINED_CAPS

\* Every step is one of these.
LEMMA StepCases ==
  ASSUME [Next]_vars
  PROVE  \/ WriteMap \/ SetHostname \/ DiscoverLayers \/ MakeDir \/ MountOverlay
         \/ MakePrivate \/ BindRoot \/ MountProc \/ EnterRoot \/ PivotRoot
         \/ DetachOld \/ AnchorCwd \/ DropBounding \/ DropRest \/ Lock \/ Exec
         \/ ShimFails \/ MapFails \/ ProgramEnds \/ Reap \/ Chmod \/ RemoveEntry
         \/ Removed \/ TeardownFails \/ KillBoxed \/ Again \/ UNCHANGED vars
BY DEF Next, ShimStep, BoxedStep, RootSteps, OverlaySteps, Finished

\* The kernel accepts the call that is next, whichever it is.
LEMMA Accepted ==
  ASSUME ConfineInv, pc \in ShimCalls \cup MapCalls
  PROVE  Accepts(pc)
<1> USE DEF ConfineInv, Maps
<1>1. CASE pc \in MapCalls
  BY <1>1, Points DEF Accepts, MapsWritten, Scratch
<1>2. CASE pc \in {"hostname", "private", "bind", "proc", "pivot", "detach"}
  <2>1. MayMount
    BY <1>2, CapsExist DEF MayMount, CapsDropped, Locked, BeforeRoot, RootCalls
  <2>2. CASE pc \in {"hostname", "private", "bind"}
    BY <2>1, <2>2 DEF Accepts, Scratch
  <2>3. CASE pc \in {"proc", "pivot", "detach"}
    BY <2>1, <2>3 DEF Accepts, Scratch, RootMoved, RootCalls
  <2> QED
    BY <1>2, <2>2, <2>3
<1>3. CASE pc \in {"upper", "work", "merged", "overlay"}
  <2>1. Mapped
    BY <1>3, Points DEF Mapped, MapsWritten
  <2>2. CASE pc = "overlay"
    <3>1. MayMount
      BY <2>2, CapsExist DEF MayMount, CapsDropped, Locked, BeforeRoot
    <3> QED
      BY <2>1, <2>2, <3>1 DEF Accepts, Scratch, DirsMade
  <2>3. CASE pc # "overlay"
    BY <1>3, <2>1, <2>3 DEF Accepts, Scratch
  <2> QED
    BY <2>2, <2>3
<1>4. CASE pc \in CapCalls \cup LockCalls
  BY <1>4, CapsExist DEF Accepts, Scratch, CapsDropped, CapCalls, LockCalls, Locked
<1>5. CASE pc \in {"layers", "chdir", "chdirRoot"}
  BY <1>5 DEF Accepts, Scratch
<1> QED
  BY <1>1, <1>2, <1>3, <1>4, <1>5, Points DEF CapCalls, LockCalls

----------------------------------------------------------------------------
(***************************************************************************)
(* The steps preserve the invariant.                                       *)
(***************************************************************************)
\* A container is a record of these fields.
Container == [maps : SUBSET Maps,
              caps : [{"bounding", "effective", "permitted", "inheritable"}
                         -> SUBSET Caps],
              todo : SUBSET (Caps \ RETAINED_CAPS),
              cap : (Caps \ RETAINED_CAPS) \cup {"none"},
              locks : SUBSET {"nnp", "filter"},
              peers : {"shared", "slave", "private"},
              root : {"host", "stacked", "new"},
              cwd : {"host", "mount", "root"},
              mounts : SUBSET {"overlay", "bind", "proc"},
              lower : {<<>>} \cup [1..Depth -> 1..Depth]]

\* A clone makes a container without maps, mounts and locks.
LEMMA NewType ==
  ASSUME opts \in Options
  PROVE  NewContainer(opts) \in Container
BY CapsExist DEF NewContainer, Container

\* Every call keeps the fields of the container in their types.
LEMMA ContainerStep ==
  ASSUME TypeOK, [Next]_vars PROVE c' \in Container
<1>1. c \in Container /\ opts \in Options
  BY DEF TypeOK, Container
<1>2. CASE WriteMap
  BY <1>1, <1>2 DEF WriteMap, Container
<1>3. CASE DiscoverLayers
  <2>1. LowerDirs \in [1..Depth -> 1..Depth]
    BY DepthAssumption DEF LowerDirs
  <2> QED
    BY <1>1, <1>3, <2>1 DEF DiscoverLayers, Container
<1>4. CASE MountOverlay \/ MakePrivate \/ BindRoot \/ MountProc
  BY <1>1, <1>4 DEF MountOverlay, MakePrivate, BindRoot, MountProc, Container
<1>5. CASE EnterRoot \/ PivotRoot \/ DetachOld \/ AnchorCwd
  BY <1>1, <1>5 DEF EnterRoot, PivotRoot, DetachOld, AnchorCwd, Container
<1>6. CASE DropBounding \/ DropRest
  <2>1. ASSUME NEW s, NEW k
        PROVE  Without(s, k) \in
                 [{"bounding", "effective", "permitted", "inheritable"} -> SUBSET Caps]
    BY <1>1 DEF Without, Container
  <2>2. CASE DropBounding
    <3>1. PICK k \in c.todo :
            c' = [c EXCEPT !.cap = k, !.todo = @ \ {k}, !.caps = Without("bounding", k)]
      BY <2>2 DEF DropBounding
    <3> QED
      BY <1>1, <2>1, <3>1 DEF Container
  <2>3. CASE DropRest
    BY <1>1, <2>1, <2>3 DEF DropRest, DropInheritable, Container
  <2> QED
    BY <1>6, <2>2, <2>3
<1>7. CASE Lock
  BY <1>1, <1>7 DEF Lock, Container
<1>8. CASE Exec
  <2>1. \E all \in SUBSET Caps :
            AfterExec = [c.caps EXCEPT !["permitted"] = all, !["effective"] = all]
    BY <1>1 DEF AfterExec, Container
  <2>2. AfterExec \in [{"bounding", "effective", "permitted", "inheritable"}
                          -> SUBSET Caps]
    BY <1>1, <2>1 DEF Container
  <2> QED
    BY <1>1, <1>8, <2>2 DEF Exec, Container
<1>9. CASE Again
  BY <1>1, <1>9, NewType DEF Again
<1>10. CASE c' = c
  BY <1>1, <1>10
<1> QED
  BY <1>2, <1>3, <1>4, <1>5, <1>6, <1>7, <1>8, <1>9, <1>10, StepCases
     DEF SetHostname, MakeDir, ShimFails, MapFails, ProgramEnds, Reap, Chmod,
         RemoveEntry, Removed, TeardownFails, KillBoxed, vars

USE DEF WriteMap, SetHostname, DiscoverLayers, MakeDir, MountOverlay, MakePrivate,
        BindRoot, MountProc, EnterRoot, PivotRoot, DetachOld, AnchorCwd,
        DropBounding, DropRest, Lock, Exec, ShimFails, MapFails, ProgramEnds, Reap,
        Chmod, RemoveEntry, Removed, TeardownFails, KillBoxed, Again, vars, scratch,
        AfterMap, AfterHostname, AfterDir, RootSetup, AfterPivot, TeardownCall,
        FirstCall

\* Every step keeps the variables in their types.
LEMMA TypeStep ==
  ASSUME TypeOK, [Next]_vars PROVE TypeOK'
<1>1. c' \in Container
  BY ContainerStep
<1>2. opts' \in Options /\ boxed' \in {"up", "exited", "killed"}
  BY StepCases DEF TypeOK
<1>3. pc' \in PC
  <2>1. PC = Maps \cup {"hostname", "layers", "upper", "work", "merged", "chdir",
                "chdirRoot", "bounding", "effective", "permitted",
                "inheritable", "nnp", "filter", "exec", "overlay", "private",
                "bind", "proc", "pivot", "detach", "chmod", "remove", "running",
                "over", "done"}
    BY Points DEF PC
  <2>2. CASE WriteMap
    BY <2>1, <2>2 DEF Maps
  <2>3. CASE MakeDir
    BY <2>1, <2>3 DEF Scratch
  <2>4. CASE SetHostname \/ DiscoverLayers \/ MountOverlay \/ MakePrivate \/ BindRoot
             \/ MountProc \/ EnterRoot \/ PivotRoot \/ DetachOld \/ AnchorCwd
    BY <2>1, <2>4
  <2>5. CASE DropBounding \/ DropRest \/ Lock \/ Exec
    BY <2>1, <2>5
  <2>6. CASE ShimFails \/ MapFails \/ ProgramEnds \/ Reap \/ Chmod \/ Removed
             \/ TeardownFails \/ Again
    BY <2>1, <2>6 DEF Maps
  <2>7. CASE KillBoxed \/ RemoveEntry \/ UNCHANGED vars
    BY <2>1, <2>7 DEF TypeOK
  <2> QED
    BY ONLY <2>2, <2>3, <2>4, <2>5, <2>6, <2>7, [Next]_vars, StepCases
<1>4. run' \in 1..MaxRuns /\ run' >= run
  <2>1. run' = run \/ (run < MaxRuns /\ run' = run + 1)
    BY StepCases
  <2>2. run \in 1..MaxRuns
    BY DEF TypeOK
  <2> QED
    BY ONLY <2>1, <2>2, MaxRunsAssumption
<1>5. upper' \subseteq 1..run' /\ lost' \subseteq 1..run'
  <2>1. upper' \subseteq upper \cup {run} /\ lost' \subseteq lost \cup {run}
    BY StepCases DEF TypeOK
  <2>2. run \in 1..MaxRuns /\ upper \subseteq 1..run /\ lost \subseteq 1..run
    BY DEF TypeOK
  <2>3. run \in 1..run' /\ 1..run \subseteq 1..run'
    BY <1>4, <2>2, MaxRunsAssumption
  <2> QED
    BY <2>1, <2>2, <2>3
<1>6. dirs' \subseteq Scratch /\ sealed' \in {"none", "000", "700"}
  BY StepCases DEF TypeOK
<1>7. onHost' \subseteq {"overlay", "bind", "proc"}
  BY StepCases DEF TypeOK, Propagates
<1>8. faults' \subseteq {"outside", "order", "leak"}
  BY StepCases DEF TypeOK, Refused
<1> QED
  BY ONLY <1>1, <1>2, <1>3, <1>4, <1>5, <1>6, <1>7, <1>8 DEF TypeOK, Container

\* The maps are written one after another, before the child takes its first step.
LEMMA MapsWrittenStep ==
  ASSUME ConfineInv, [Next]_vars PROVE MapsWritten'
<1> USE DEF ConfineInv, MapsWritten, TypeOK, Maps
<1>1. CASE WriteMap
  BY <1>1, Points DEF Scratch
<1>2. CASE SetHostname \/ DiscoverLayers \/ MakeDir \/ MountOverlay
  BY <1>2, Points DEF Scratch
<1>3. CASE MakePrivate \/ BindRoot \/ MountProc \/ EnterRoot \/ PivotRoot
             \/ DetachOld \/ AnchorCwd
  BY <1>3, Points
<1>4. CASE DropBounding \/ DropRest
  BY <1>4, Points
<1>5. CASE Lock \/ Exec
  BY <1>5, Points
<1>6. CASE ShimFails \/ MapFails \/ ProgramEnds \/ Reap \/ Chmod \/ Removed
             \/ TeardownFails
  BY <1>6, Points
<1>7. CASE RemoveEntry \/ KillBoxed \/ UNCHANGED vars
  BY <1>7, Points
<1>8. CASE Again
  BY <1>8, Points DEF NewContainer
<1> QED
  BY ONLY <1>1, <1>2, <1>3, <1>4, <1>5, <1>6, <1>7, <1>8, [Next]_vars, StepCases

\* Only a teardown takes a directory away, and no container is then before its root.
LEMMA DirsMadeStep ==
  ASSUME ConfineInv, [Next]_vars PROVE DirsMade'
<1> USE DEF ConfineInv, DirsMade, TypeOK
<1>1. CASE WriteMap
  BY <1>1 DEF Maps
<1>2. CASE SetHostname \/ DiscoverLayers \/ MakeDir \/ MountOverlay
  BY <1>2 DEF Scratch
<1>3. CASE MakePrivate \/ BindRoot \/ MountProc \/ EnterRoot \/ PivotRoot
             \/ DetachOld \/ AnchorCwd
  BY <1>3
<1>4. CASE DropBounding \/ DropRest
  BY <1>4
<1>5. CASE Lock \/ Exec
  BY <1>5
<1>6. CASE ShimFails \/ MapFails \/ ProgramEnds \/ Reap \/ Chmod \/ Removed
             \/ TeardownFails
  BY <1>6
<1>7. CASE RemoveEntry \/ KillBoxed \/ UNCHANGED vars
  BY <1>7
<1>8. CASE Again
  BY <1>8
<1> QED
  BY ONLY <1>1, <1>2, <1>3, <1>4, <1>5, <1>6, <1>7, <1>8, [Next]_vars, StepCases

\* The loop of drop_capabilities leaves everything but the capabilities alone.
LEMMA LoopFrame ==
  ASSUME TypeOK, DropBounding \/ DropRest
  PROVE  /\ pc \in CapCalls /\ pc' \in CapCalls \cup {"nnp"}
         /\ UNCHANGED <<opts, run, boxed, dirs, sealed, upper, onHost, faults, lost>>
         /\ c'.maps = c.maps /\ c'.peers = c.peers /\ c'.root = c.root
         /\ c'.cwd = c.cwd /\ c'.mounts = c.mounts /\ c'.locks = c.locks
         /\ c'.lower = c.lower
<1> USE DEF CapCalls, TypeOK
<1>1. CASE DropBounding
  <2>1. PICK k \in c.todo :
          c' = [c EXCEPT !.cap = k, !.todo = @ \ {k}, !.caps = Without("bounding", k)]
    BY <1>1
  <2> QED
    BY <1>1, <2>1
<1>2. ASSUME NEW x, c' = [c EXCEPT !.caps = x]
      PROVE  /\ c'.maps = c.maps /\ c'.peers = c.peers /\ c'.root = c.root
             /\ c'.cwd = c.cwd /\ c'.mounts = c.mounts /\ c'.locks = c.locks
             /\ c'.lower = c.lower
  BY <1>2
<1>3. CASE DropRest
  <2>1. /\ pc \in CapCalls /\ pc' \in CapCalls \cup {"nnp"}
        /\ UNCHANGED <<opts, run, boxed, dirs, sealed, upper, onHost, faults, lost>>
    BY <1>3
  <2>2. \/ c' = [c EXCEPT !.caps = Without("effective", c.cap)]
        \/ c' = [c EXCEPT !.caps = Without("permitted", c.cap)]
        \/ c' = [c EXCEPT !.caps = DropInheritable]
    BY <1>3
  <2> QED
    BY ONLY <1>2, <2>1, <2>2
<1> QED
  BY <1>1, <1>3

\* The steps of setup_rootfs follow one another, and nothing else touches the tree.
LEMMA RootMovedStep ==
  ASSUME ConfineInv, [Next]_vars PROVE RootMoved'
<1> USE DEF ConfineInv, RootMoved, TypeOK, BeforeRoot, RootCalls, Moved, CapCalls, LockCalls
<1>1. CASE WriteMap
  BY <1>1, Points DEF Maps
<1>2. CASE SetHostname \/ DiscoverLayers \/ MakeDir \/ MountOverlay
  BY <1>2, Points DEF DirsMade, Scratch
<1>3. CASE MakePrivate \/ BindRoot \/ MountProc \/ EnterRoot \/ PivotRoot
             \/ DetachOld \/ AnchorCwd
  <2>1. CASE MakePrivate
    BY <2>1, Points
  <2>2. CASE BindRoot
    BY <2>2, Points
  <2>3. CASE MountProc
    BY <2>3, Points
  <2>4. CASE EnterRoot
    BY <2>4, Points
  <2>5. CASE PivotRoot
    BY <2>5, Points
  <2>6. CASE DetachOld
    BY <2>6, Points
  <2>7. CASE AnchorCwd
    BY <2>7, Points
  <2> QED
    BY ONLY <1>3, <2>1, <2>2, <2>3, <2>4, <2>5, <2>6, <2>7
<1>4. CASE DropBounding \/ DropRest
  BY <1>4, LoopFrame, Points
<1>5. CASE Lock \/ Exec
  BY <1>5, Points
<1>6. CASE ShimFails \/ MapFails \/ ProgramEnds \/ Reap \/ Chmod \/ Removed
             \/ TeardownFails
  BY <1>6, Points
<1>7. CASE RemoveEntry \/ KillBoxed \/ UNCHANGED vars
  BY <1>7, Points
<1>8. CASE Again
  BY <1>8, Points DEF NewContainer
<1> QED
  BY ONLY <1>1, <1>2, <1>3, <1>4, <1>5, <1>6, <1>7, <1>8, [Next]_vars, StepCases

\* The locks are put on at the end, and nothing takes one off.
LEMMA LockedStep ==
  ASSUME ConfineInv, [Next]_vars PROVE Locked'
<1> USE DEF ConfineInv, Locked, TypeOK, BeforeRoot, RootCalls, CapCalls
<1>1. CASE WriteMap
  BY <1>1, Points DEF Maps
<1>2. CASE SetHostname \/ DiscoverLayers \/ MakeDir \/ MountOverlay
  BY <1>2, Points DEF Scratch
<1>3. CASE MakePrivate \/ BindRoot \/ MountProc \/ EnterRoot \/ PivotRoot
             \/ DetachOld \/ AnchorCwd
  BY <1>3, Points
<1>4. CASE DropBounding \/ DropRest
  BY <1>4, Points
<1>5. CASE Lock \/ Exec
  BY <1>5, Points
<1>6. CASE ShimFails \/ MapFails \/ ProgramEnds \/ Reap \/ Chmod \/ Removed
             \/ TeardownFails
  BY <1>6, Points
<1>7. CASE RemoveEntry \/ KillBoxed \/ UNCHANGED vars
  BY <1>7, Points
<1>8. CASE Again
  BY <1>8, Points DEF NewContainer
<1> QED
  BY ONLY <1>1, <1>2, <1>3, <1>4, <1>5, <1>6, <1>7, <1>8, [Next]_vars, StepCases

\* The loop takes a capability out of one set after another; what it has passed is
\* gone, and what it needs itself stays.
LEMMA CapsDroppedStep ==
  ASSUME ConfineInv, [Next]_vars PROVE CapsDropped'
<1> USE DEF ConfineInv, CapsDropped, TypeOK, BeforeRoot, RootCalls, CapCalls, LockCalls
<1>0. ASSUME UNCHANGED <<c.caps, c.todo, c.cap>>,
             pc \in BeforeRoot \cup RootCalls, pc' \in BeforeRoot \cup RootCalls \cup {"bounding"}
      PROVE  CapsDropped'
  <2>1. Caps = RETAINED_CAPS \cup c.todo
    BY <1>0, CapsExist
  <2>2. \A s \in {"bounding", "effective", "permitted", "inheritable"} :
            c.caps[s] \subseteq Caps
    OBVIOUS
  <2>3. pc \notin CapCalls \cup LockCalls /\ pc' \notin LockCalls
        /\ pc' \notin {"effective", "permitted", "inheritable"}
    BY <1>0, Points
  <2>4. c.caps["effective"] = Caps /\ c.todo = Caps \ RETAINED_CAPS
    BY <1>0
  <2> HIDE DEF ConfineInv, TypeOK
  <2> QED
    BY <1>0, <2>1, <2>2, <2>3, <2>4, CapsExist
<1>1. CASE WriteMap
  <2>1. UNCHANGED <<c.caps, c.todo, c.cap>>
    BY <1>1
  <2>2. pc \in BeforeRoot /\ pc' \in BeforeRoot
    BY <1>1, Points DEF Maps
  <2> QED
    BY <1>0, <2>1, <2>2
<1>2. CASE SetHostname \/ DiscoverLayers \/ MakeDir \/ MountOverlay
  <2>1. UNCHANGED <<c.caps, c.todo, c.cap>>
    BY <1>2
  <2>2. pc \in BeforeRoot /\ pc' \in BeforeRoot \cup RootCalls \cup {"bounding"}
    BY <1>2, Points DEF Scratch
  <2> QED
    BY <1>0, <2>1, <2>2
<1>3. CASE MakePrivate \/ BindRoot \/ MountProc \/ EnterRoot \/ PivotRoot
             \/ DetachOld \/ AnchorCwd
  <2>1. UNCHANGED <<c.caps, c.todo, c.cap>>
    BY <1>3
  <2>2. pc \in RootCalls /\ pc' \in RootCalls \cup {"bounding"}
    BY <1>3
  <2> QED
    BY <1>0, <2>1, <2>2
<1>4. CASE DropBounding
  <2>1. PICK k \in c.todo :
          c' = [c EXCEPT !.cap = k, !.todo = @ \ {k}, !.caps = Without("bounding", k)]
    BY <1>4
  <2>2. /\ c'.cap = k /\ c'.todo = c.todo \ {k}
        /\ c'.caps = [c.caps EXCEPT !["bounding"] = @ \ {k}]
    BY <2>1 DEF Without
  <2>3. /\ c'.caps["bounding"] = c.caps["bounding"] \ {k}
        /\ c'.caps["effective"] = c.caps["effective"]
        /\ c'.caps["permitted"] = c.caps["permitted"]
        /\ c'.caps["inheritable"] = c.caps["inheritable"]
    BY <2>2
  <2>4. pc = "bounding" /\ pc' = "effective" /\ k \notin RETAINED_CAPS
    BY <1>4, <2>1
  <2>5. CapsDropped
    OBVIOUS
  <2> HIDE DEF ConfineInv, TypeOK
  <2> QED
    BY ONLY <2>2, <2>3, <2>4, <2>5, Points
       DEF CapsDropped, BeforeRoot, RootCalls, CapCalls, LockCalls
<1>5. CASE DropRest
  <2>1. ASSUME NEW s \in {"effective", "permitted", "inheritable"},
               c' = [c EXCEPT !.caps = Without(s, c.cap)]
        PROVE  /\ c'.cap = c.cap /\ c'.todo = c.todo
               /\ c'.caps[s] = c.caps[s] \ {c.cap}
               /\ \A t \in {"bounding", "effective", "permitted", "inheritable"} :
                     t # s => c'.caps[t] = c.caps[t]
    <3>1. c'.cap = c.cap /\ c'.todo = c.todo /\ c'.caps = Without(s, c.cap)
      BY <2>1
    <3> QED
      BY <3>1 DEF Without
  <2>2. CapsDropped
    OBVIOUS
  <2>3. CASE pc = "effective"
    <3>1. pc' = "permitted" /\ c' = [c EXCEPT !.caps = Without("effective", c.cap)]
      BY <1>5, <2>3
    <3>2. c'.caps["effective"] = c.caps["effective"] \ {c.cap}
      BY <2>1, <3>1
    <3>3. /\ c'.cap = c.cap /\ c'.todo = c.todo
          /\ c'.caps["bounding"] = c.caps["bounding"]
          /\ c'.caps["permitted"] = c.caps["permitted"]
          /\ c'.caps["inheritable"] = c.caps["inheritable"]
      BY <2>1, <3>1
    <3> QED
      BY ONLY <2>2, <2>3, <3>1, <3>2, <3>3, Points
         DEF CapsDropped, BeforeRoot, RootCalls, CapCalls, LockCalls
  <2>4. CASE pc = "permitted"
    <3>1. pc' = "inheritable" /\ c' = [c EXCEPT !.caps = Without("permitted", c.cap)]
      BY <1>5, <2>4
    <3>2. c'.caps["permitted"] = c.caps["permitted"] \ {c.cap}
      BY <2>1, <3>1
    <3>3. /\ c'.cap = c.cap /\ c'.todo = c.todo
          /\ c'.caps["bounding"] = c.caps["bounding"]
          /\ c'.caps["effective"] = c.caps["effective"]
          /\ c'.caps["inheritable"] = c.caps["inheritable"]
      BY <2>1, <3>1
    <3> QED
      BY ONLY <2>2, <2>4, <3>1, <3>2, <3>3, Points
         DEF CapsDropped, BeforeRoot, RootCalls, CapCalls, LockCalls
  <2>5. CASE pc = "inheritable"
    <3>1. /\ pc' = IF c.todo = {} THEN "nnp" ELSE "bounding"
          /\ c' = [c EXCEPT !.caps = Without("inheritable", c.cap)]
      BY <1>5, <2>5 DEF DropInheritable
    <3>2. c'.caps["inheritable"] = c.caps["inheritable"] \ {c.cap}
      BY <2>1, <3>1
    <3>3. /\ c'.cap = c.cap /\ c'.todo = c.todo
          /\ c'.caps["bounding"] = c.caps["bounding"]
          /\ c'.caps["effective"] = c.caps["effective"]
          /\ c'.caps["permitted"] = c.caps["permitted"]
      BY <2>1, <3>1
    <3> QED
      BY ONLY <2>2, <2>5, <3>1, <3>2, <3>3, Points
         DEF CapsDropped, BeforeRoot, RootCalls, CapCalls, LockCalls
  <2> QED
    BY <1>5, <2>3, <2>4, <2>5
<1>6. CASE Lock
  <2>1. UNCHANGED <<c.caps, c.todo, c.cap>>
    BY <1>6
  <2>2. pc \in LockCalls /\ pc' \in LockCalls
    BY <1>6
  <2>3. CapsDropped
    OBVIOUS
  <2> QED
    BY ONLY <2>1, <2>2, <2>3, Points
       DEF CapsDropped, BeforeRoot, RootCalls, CapCalls, LockCalls
<1>7. CASE Exec
  BY <1>7, Points
<1>8. CASE ShimFails \/ MapFails \/ ProgramEnds \/ Reap \/ Chmod \/ Removed
             \/ TeardownFails
  BY <1>8, Points
<1>9. CASE RemoveEntry \/ KillBoxed \/ UNCHANGED vars
  BY <1>9, Points
<1>10. CASE Again
  <2>1. /\ c'.caps["effective"] = Caps /\ c'.todo = Caps \ RETAINED_CAPS
    BY <1>10 DEF NewContainer
  <2>2. pc' \in {"setgroups", "hostname"}
    BY <1>10
  <2> QED
    BY ONLY <2>1, <2>2, Points, CapsExist
       DEF CapsDropped, BeforeRoot, RootCalls, CapCalls, LockCalls
<1> QED
  BY ONLY <1>1, <1>2, <1>3, <1>4, <1>5, <1>6, <1>7, <1>8, <1>9, <1>10, [Next]_vars,
          StepCases

\* A program runs with no more than the retained capabilities: exec adds up sets from
\* which all others have gone.
LEMMA CapsWithinStep ==
  ASSUME ConfineInv, [Next]_vars PROVE CapsWithin'
<1> USE DEF ConfineInv, CapsWithin
<1>1. CASE Exec
  <2>1. \A s \in {"bounding", "effective", "permitted", "inheritable"} :
            c.caps[s] \subseteq RETAINED_CAPS
    BY <1>1 DEF CapsDropped, LockCalls
  <2>2. DOMAIN c.caps = {"bounding", "effective", "permitted", "inheritable"}
    BY DEF TypeOK
  <2>3. PICK all \in SUBSET RETAINED_CAPS :
            AfterExec = [c.caps EXCEPT !["permitted"] = all, !["effective"] = all]
    BY <2>1 DEF AfterExec
  <2>4. \A s \in DOMAIN AfterExec : AfterExec[s] \subseteq RETAINED_CAPS
    BY <2>1, <2>2, <2>3
  <2>5. c'.caps = AfterExec
    BY <1>1 DEF TypeOK
  <2> QED
    BY <2>4, <2>5
<1>2. CASE pc' = "running" /\ ~Exec
  <2>1. pc = "running" /\ c' = c
    <3>1. CASE WriteMap
      BY <1>2, <3>1 DEF Maps
    <3>2. CASE MakeDir
      BY <1>2, <3>2 DEF Scratch
    <3>3. CASE ~WriteMap /\ ~MakeDir
      BY <1>2, <3>3, StepCases
    <3> QED
      BY <3>1, <3>2, <3>3
  <2> QED
    BY <2>1
<1>3. CASE pc' # "running"
  BY <1>3
<1> QED
  BY <1>1, <1>2, <1>3

\* Each call takes away or leaves alone: exec gives no more than the permitted set
\* has kept, and the effective set has kept all of that.
LEMMA NarrowerStep ==
  ASSUME ConfineInv, [Next]_vars, run' = run
  PROVE  /\ \A s \in DOMAIN c.caps : c'.caps[s] \subseteq c.caps[s]
         /\ c.locks \subseteq c'.locks /\ c.maps \subseteq c'.maps
         /\ c.peers # "shared" => c'.peers # "shared"
         /\ c.root = "new" => c'.root = "new"
<1> DEFINE Sets == {"bounding", "effective", "permitted", "inheritable"}
<1>0. c \in Container /\ DOMAIN c.caps = Sets
  BY DEF ConfineInv, TypeOK, Container
<1>1. CASE c' = c
  BY <1>1
<1>2. CASE WriteMap \/ DiscoverLayers \/ MountOverlay \/ MakePrivate \/ BindRoot
           \/ MountProc \/ EnterRoot \/ AnchorCwd \/ Lock
  BY <1>0, <1>2 DEF Container
<1>3. CASE PivotRoot \/ DetachOld
  BY <1>0, <1>3 DEF Container, ConfineInv, RootMoved, RootCalls
<1>4. CASE DropBounding \/ DropRest
  <2>1. ASSUME NEW t \in Sets, NEW k, NEW s \in Sets
        PROVE  Without(t, k)[s] \subseteq c.caps[s]
    BY <1>0 DEF Without, Container
  <2>2. \E t \in Sets : \E k : c'.caps = Without(t, k)
    <3>1. CASE DropBounding
      <4>1. PICK k \in c.todo :
              c' = [c EXCEPT !.cap = k, !.todo = @ \ {k}, !.caps = Without("bounding", k)]
        BY <3>1
      <4>2. c'.caps = Without("bounding", k)
        BY <1>0, <4>1 DEF Container
      <4> QED
        BY <4>2
    <3>2. CASE DropRest
      <4>1. \/ c' = [c EXCEPT !.caps = Without("effective", c.cap)]
            \/ c' = [c EXCEPT !.caps = Without("permitted", c.cap)]
            \/ c' = [c EXCEPT !.caps = Without("inheritable", c.cap)]
        BY <3>2 DEF DropInheritable
      <4>2. \/ c'.caps = Without("effective", c.cap)
            \/ c'.caps = Without("permitted", c.cap)
            \/ c'.caps = Without("inheritable", c.cap)
        BY <1>0, <4>1 DEF Container
      <4> QED
        BY <4>2
    <3> QED
      BY <1>4, <3>1, <3>2
  <2>3. \A s \in Sets : c'.caps[s] \subseteq c.caps[s]
    BY ONLY <2>1, <2>2
  <2>4. /\ c'.locks = c.locks /\ c'.maps = c.maps
        /\ c'.peers = c.peers /\ c'.root = c.root
    BY <1>4, LoopFrame DEF ConfineInv
  <2> QED
    BY ONLY <1>0, <2>3, <2>4
<1>5. CASE Exec
  <2>1. /\ pc = "exec" /\ c' = [c EXCEPT !.caps = AfterExec]
    BY <1>5
  <2>2. c.caps["permitted"] \subseteq RETAINED_CAPS
        /\ RETAINED_CAPS \subseteq c.caps["effective"] /\ "nnp" \in c.locks
    BY <2>1 DEF ConfineInv, CapsDropped, LockCalls, Locked
  <2>3. \E all \in SUBSET c.caps["permitted"] :
            AfterExec = [c.caps EXCEPT !["permitted"] = all, !["effective"] = all]
    BY <2>2 DEF AfterExec
  <2>4. \A s \in Sets : AfterExec[s] \subseteq c.caps[s]
    BY <1>0, <2>2, <2>3 DEF Container
  <2>5. /\ c'.caps = AfterExec /\ c'.locks = c.locks /\ c'.maps = c.maps
        /\ c'.peers = c.peers /\ c'.root = c.root
    BY <1>0, <2>1 DEF Container
  <2> QED
    BY ONLY <1>0, <2>4, <2>5
<1>6. ~ Again
  <2>1. run \in Nat
    BY MaxRunsAssumption DEF ConfineInv, TypeOK
  <2> QED
    BY <2>1
<1>7. CASE SetHostname \/ MakeDir \/ ShimFails \/ MapFails \/ ProgramEnds \/ Reap
           \/ Chmod \/ RemoveEntry \/ Removed \/ TeardownFails \/ KillBoxed
           \/ UNCHANGED vars
  BY <1>1, <1>7
<1> QED
  BY ONLY <1>2, <1>3, <1>4, <1>5, <1>6, <1>7, [Next]_vars, StepCases

\* No call is refused, so no failure is of the order's making; the teardown finds
\* work readable.
LEMMA OrderStep ==
  ASSUME ConfineInv, [Next]_vars PROVE NeverOutOfOrder'
<1> USE DEF ConfineInv, NeverOutOfOrder
<1>1. CASE ShimFails \/ MapFails
  <2>1. Refused(pc) = "outside"
    BY <1>1, Accepted DEF Refused
  <2> QED
    BY <1>1, <2>1
<1>2. CASE TeardownFails
  BY <1>2 DEF FilesAccounted, Removable
<1>3. CASE faults' \in {faults, {}}
  BY <1>3
<1> QED
  BY <1>1, <1>2, <1>3, StepCases

\* A mount propagates from the shared tree only; it is private from rootfs's first
\* call on.
LEMMA LeakStep ==
  ASSUME ConfineInv, [Next]_vars PROVE OnlyOverlayLeaks'
<1> USE DEF ConfineInv, OnlyOverlayLeaks
<1>1. CASE MountOverlay
  BY <1>1 DEF Propagates, RootMoved, DirsMade
<1>2. CASE BindRoot \/ MountProc
  BY <1>2 DEF Propagates, RootMoved, RootCalls
<1>3. CASE UNCHANGED <<onHost, opts>>
  BY <1>3
<1> QED
  BY <1>1, <1>2, <1>3, StepCases

\* The files of a run leave the upper directory in its teardown, or it is excused.
LEMMA FilesStep ==
  ASSUME ConfineInv, [Next]_vars PROVE FilesAccounted'
<1> USE DEF ConfineInv, FilesAccounted, FilesLeftForAReason, TypeOK, BeforeRoot
<1>1. CASE WriteMap
  BY <1>1, Points DEF Maps
<1>2. CASE SetHostname \/ DiscoverLayers \/ MakeDir
  BY <1>2, Points DEF Scratch, AfterDir
<1>3. CASE MountOverlay
  BY <1>3, Points DEF DirsMade, Scratch
<1>4. CASE MakePrivate \/ BindRoot \/ MountProc \/ EnterRoot \/ PivotRoot
             \/ DetachOld \/ AnchorCwd
  BY <1>4, Points
<1>5. CASE DropBounding \/ DropRest
  BY <1>5, LoopFrame, Points DEF CapCalls
<1>6. CASE Lock \/ Exec
  BY <1>6, Points
<1>7. CASE ShimFails \/ MapFails \/ ProgramEnds
  BY <1>7, Points
<1>8. CASE Reap \/ Chmod \/ Removed
  <2>1. CASE Reap
    <3>1. \A r \in upper : r \in lost \/ (r = run /\ pc # "done")
      OBVIOUS
    <3>2. /\ upper # {} => "image" \in opts /\ "upper" \in dirs
          /\ boxed = "killed" => run \in lost
          /\ boxed # "exited"
      BY <2>1
    <3>3. boxed \in {"up", "exited", "killed"}
      OBVIOUS
    <3> QED
      BY <2>1, <3>1, <3>2, <3>3, Points
  <2>2. CASE Chmod
    BY <2>2, Points
  <2>3. CASE Removed
    BY <2>3, Points
  <2> QED
    BY <1>8, <2>1, <2>2, <2>3
<1>9. CASE TeardownFails
  BY <1>9, Points DEF Removable
<1>10. CASE RemoveEntry
  BY <1>10, Points
<1>11. CASE KillBoxed
  BY <1>11, Points
<1>12. CASE Again
  <2>1. run + 1 \notin 1..run
    BY MaxRunsAssumption
  <2> QED
    BY <1>12, <2>1, Points
<1>13. CASE UNCHANGED vars
  BY <1>13
<1> HIDE DEF WriteMap, SetHostname, DiscoverLayers, MakeDir, MountOverlay,
             MakePrivate, BindRoot, MountProc, EnterRoot, PivotRoot, DetachOld,
             AnchorCwd, DropBounding, DropRest, Lock, Exec, ShimFails, MapFails,
             ProgramEnds, Reap, Chmod, RemoveEntry, Removed, TeardownFails,
             KillBoxed, Again, vars, FilesAccounted
<1> QED
  BY ONLY <1>1, <1>2, <1>3, <1>4, <1>5, <1>6, <1>7, <1>8, <1>9, <1>10, <1>11, <1>12,
          <1>13, [Next]_vars, StepCases

\* The list of layers is made in one step, and read by overlayfs as it is.
LEMMA LayersStep ==
  ASSUME ConfineInv, [Next]_vars PROVE LayersListed'
<1> USE DEF ConfineInv, LayersListed, TypeOK, LowerDirs
<1>1. CASE WriteMap
  BY <1>1 DEF Maps
<1>2. CASE DiscoverLayers
  BY <1>2
<1>3. CASE SetHostname \/ MakeDir \/ MountOverlay
  BY <1>3 DEF Scratch
<1>4. CASE MakePrivate \/ EnterRoot \/ PivotRoot \/ DetachOld \/ AnchorCwd
  BY <1>4
<1>10. CASE BindRoot \/ MountProc
  <2>1. /\ c'.mounts \subseteq c.mounts \cup {"bind", "proc"}
        /\ c'.lower = c.lower
    BY <1>10
  <2>2. pc' \in {"proc", "chdir"}
    BY <1>10
  <2> QED
    BY <2>1, <2>2
<1>5. CASE DropBounding \/ DropRest
  BY <1>5, LoopFrame DEF CapCalls
<1>6. CASE Lock \/ Exec
  BY <1>6
<1>7. CASE ShimFails \/ MapFails \/ ProgramEnds \/ Reap \/ Chmod \/ Removed
             \/ TeardownFails
  BY <1>7
<1>8. CASE RemoveEntry \/ KillBoxed \/ UNCHANGED vars
  BY <1>8
<1>9. CASE Again
  BY <1>9 DEF NewContainer
<1> QED
  BY ONLY <1>1, <1>2, <1>3, <1>4, <1>5, <1>6, <1>7, <1>8, <1>9,
          <1>10, [Next]_vars, StepCases

\* Of the layers in P, the first in the list is the last by name.
LEMMA LastLayerFirst ==
  ASSUME NEW P \in SUBSET (1..Depth), P # {}
  PROVE  \E i \in DOMAIN LowerDirs :
            /\ LowerDirs[i] \in P /\ \A j \in 1..(i - 1) : LowerDirs[j] \notin P
            /\ \A l \in P : l <= LowerDirs[i]
<1> DEFINE Less == OpToRel(<, Nat)
           T == {Depth + 1 - l : l \in P}
<1>1. \A l \in P : l \in 1..Depth /\ Depth + 1 - l \in 1..Depth
  BY DepthAssumption
<1>2. T \subseteq Nat /\ T # {}
  <2>1. \A x \in T : x \in Nat
    BY <1>1
  <2>2. PICK l \in P : TRUE
    OBVIOUS
  <2>3. Depth + 1 - l \in T
    BY <2>2
  <2> QED
    BY <2>1, <2>3
<1>3. \A x, y \in Nat : x < y => <<x, y>> \in Less
  BY DEF OpToRel
<1>4. IsWellFoundedOn(Less, Nat)
  BY NatLessThanWellFounded
<1> HIDE DEF Less
<1>5. PICK m \in T : \A j \in T : ~ (<<j, m>> \in Less)
  <2> HIDE DEF T
  <2> QED
    BY <1>2, <1>4, WFMin
<1>6. m \in 1..Depth /\ Depth + 1 - m \in P
  BY <1>1, DepthAssumption
<1>7. \A j \in T : m <= j
  <2> SUFFICES ASSUME NEW j \in T PROVE m <= j
    OBVIOUS
  <2>1. j \in Nat /\ m \in Nat
    BY <1>2
  <2>2. ~ (j < m)
    BY <1>3, <1>5, <2>1
  <2> QED
    BY ONLY <2>1, <2>2
<1>8. \A l \in P : l <= Depth + 1 - m
  BY <1>1, <1>6, <1>7, DepthAssumption
<1>9. \A j \in 1..(m - 1) : Depth + 1 - j \notin P
  BY <1>6, <1>8, DepthAssumption
<1>10. /\ DOMAIN LowerDirs = 1..Depth
       /\ \A j \in 1..Depth : LowerDirs[j] = Depth + 1 - j
  BY DEF LowerDirs
<1>11. \A j \in 1..(m - 1) : j \in 1..Depth
  BY <1>6, DepthAssumption
<1> HIDE DEF T
<1> QED
  BY <1>6, <1>8, <1>9, <1>10, <1>11

----------------------------------------------------------------------------
(***************************************************************************)
(* The theorems.                                                           *)
(***************************************************************************)
\* At the start there is no scratch directory, and the container is a new one.
LEMMA InitHolds == Init => ConfineInv
<1> SUFFICES ASSUME Init PROVE ConfineInv
  OBVIOUS
<1> USE DEF Init
<1>1. c \in Container
  BY NewType
<1>2. TypeOK
  <2>1. pc \in PC
    BY Points DEF PC
  <2>2. run \in 1..MaxRuns /\ upper \subseteq 1..run /\ lost \subseteq 1..run
    BY MaxRunsAssumption
  <2> QED
    BY <1>1, <2>1, <2>2 DEF TypeOK, Container
<1>3. pc \in {"setgroups", "hostname"} /\ ("rootless" \in opts => pc = "setgroups")
  OBVIOUS
<1>4. /\ c.maps = {} /\ c.locks = {} /\ c.root = "host"
      /\ c.caps["effective"] = Caps /\ c.todo = Caps \ RETAINED_CAPS
      /\ c.peers = "shared" => "shared" \in opts /\ "rootless" \notin opts
  BY DEF NewContainer
<1>5. MapsWritten /\ DirsMade /\ Locked
  BY <1>3, <1>4, Points DEF MapsWritten, DirsMade, Locked, BeforeRoot, RootCalls, CapCalls
<1>6. RootMoved
  BY <1>3, <1>4, Points DEF RootMoved, RootCalls, Moved, CapCalls, LockCalls
<1>7. CapsDropped
  BY <1>3, <1>4, Points, CapsExist
     DEF CapsDropped, BeforeRoot, RootCalls, CapCalls, LockCalls
<1>9. LayersListed
  BY <1>3 DEF NewContainer, LayersListed
<1>8. FilesAccounted /\ NeverOutOfOrder /\ CapsWithin /\ OnlyOverlayLeaks
  BY <1>3 DEF FilesAccounted, FilesLeftForAReason, NeverOutOfOrder, CapsWithin,
              OnlyOverlayLeaks
<1> QED
  BY ONLY <1>2, <1>5, <1>6, <1>7, <1>8, <1>9 DEF ConfineInv

HIDE DEF Next, vars

\* ConfineInv holds of every reachable state.
THEOREM Invariance == Spec => []ConfineInv
<1>1. ConfineInv /\ [Next]_vars => ConfineInv'
  <2> SUFFICES ASSUME ConfineInv, [Next]_vars PROVE ConfineInv'
    OBVIOUS
  <2>1. TypeOK' /\ MapsWritten' /\ DirsMade'
    BY ONLY ConfineInv, [Next]_vars, TypeStep, MapsWrittenStep, DirsMadeStep DEF ConfineInv
  <2>2. RootMoved' /\ CapsDropped' /\ Locked'
    BY ONLY ConfineInv, [Next]_vars, RootMovedStep, CapsDroppedStep, LockedStep
  <2>3. FilesAccounted' /\ NeverOutOfOrder'
    BY ONLY ConfineInv, [Next]_vars, FilesStep, OrderStep
  <2>4. CapsWithin' /\ OnlyOverlayLeaks' /\ LayersListed'
    BY ONLY ConfineInv, [Next]_vars, CapsWithinStep, LeakStep, LayersStep
  <2> QED
    BY ONLY <2>1, <2>2, <2>3, <2>4 DEF ConfineInv
<1> QED
  BY <1>1, InitHolds, PTL DEF Spec

\* Every variable keeps its type.
THEOREM TypeCorrect == Spec => []TypeOK
<1>1. ConfineInv => TypeOK
  BY DEF ConfineInv
<1> QED
  BY <1>1, Invariance, PTL

\* For any flags and host, and any order of the capabilities, no call is refused for
\* coming too early or too late.
THEOREM OrderIsRight == Spec => []NeverOutOfOrder
<1>1. ConfineInv => NeverOutOfOrder
  BY DEF ConfineInv
<1> QED
  BY <1>1, Invariance, PTL

\* The program starts under both locks, with its ids mapped if --rootless asks for it,
\* and in a new root with a proc of its own if --rootfs or --image does.
THEOREM IsContained == Spec => []Contained
<1>1. ConfineInv => Contained
  BY DEF ConfineInv, MapsWritten, RootMoved, Moved, Locked, Contained
<1> QED
  BY <1>1, Invariance, PTL

\* Whatever the program executes, its capabilities are retained ones.
THEOREM CapsConfined == Spec => []CapsWithin
<1>1. ConfineInv => CapsWithin
  BY DEF ConfineInv
<1> QED
  BY <1>1, Invariance, PTL

\* In the life of a container nothing it has been denied comes back.
THEOREM OneWay == Spec => NoWayBack
<1>1. ConfineInv /\ [Next]_vars =>
        [run' = run =>
          /\ \A s \in DOMAIN c.caps : c'.caps[s] \subseteq c.caps[s]
          /\ c.locks \subseteq c'.locks /\ c.maps \subseteq c'.maps
          /\ c.peers # "shared" => c'.peers # "shared"
          /\ c.root = "new" => c'.root = "new"]_vars
  BY NarrowerStep
<1> QED
  BY <1>1, Invariance, PTL DEF Spec, NoWayBack

\* Of the layers that have a file, the program sees the one of the last by name.
THEOREM LastLayerShows == Spec => []TopLayerWins
<1>1. ConfineInv => TopLayerWins
  <2> SUFFICES ASSUME ConfineInv, "overlay" \in c.mounts,
                      NEW P \in (SUBSET (1..Depth)) \ {{}}
               PROVE  \E i \in DOMAIN c.lower :
                         /\ c.lower[i] \in P
                         /\ \A j \in 1..(i - 1) : c.lower[j] \notin P
                         /\ \A l \in P : l <= c.lower[i]
    BY DEF TopLayerWins
  <2>1. c.lower = LowerDirs
    BY DEF ConfineInv, LayersListed
  <2>2. P \in SUBSET (1..Depth) /\ P # {}
    BY ONLY P \in (SUBSET (1..Depth)) \ {{}}
  <2> QED
    BY ONLY <2>1, <2>2, LastLayerFirst
<1> QED
  BY <1>1, Invariance, PTL

\* Of the container's mounts only the overlay ever reaches the host, and only from a
\* shared root without a user namespace.
THEOREM MountsStayInside == Spec => []OnlyOverlayLeaks
<1>1. ConfineInv => OnlyOverlayLeaks
  BY DEF ConfineInv
<1> QED
  BY <1>1, Invariance, PTL

\* A run meets files of an earlier one with its pid only if that one has an excuse.
THEOREM FilesAreOwn == Spec => []FilesLeftForAReason
<1>1. ConfineInv => FilesLeftForAReason
  BY DEF ConfineInv, FilesAccounted
<1> QED
  BY <1>1, Invariance, PTL

============================================================================
