-------------------------- MODULE CgroupHierarchy --------------------------
(***************************************************************************)
(* Several `boxed run` at once in the cgroup hierarchy they share:         *)
(* src/src/cgroups.rs, called from src/src/namespace.rs.                   *)
(*                                                                         *)
(* /sys/fs/cgroup/boxed has one directory per container, named after the   *)
(* host pid of the container's first process.  Nothing locks it, and a pid *)
(* is free for the next fork as soon as its process is reaped, which is    *)
(* before the cgroup named after it is removed.                            *)
(***************************************************************************)
EXTENDS Naturals, Sequences

CONSTANTS Runs,       \* the `boxed run` processes
          Pids,       \* the host's pids
          NoPid,      \* the pid of a run that has no child
          Delegated,  \* what /sys/fs/cgroup/boxed/cgroup.controllers lists
          Wants       \* the sets of limits the runs' flags may ask for

\* The files create writes, in its order.
LimitOrder == <<"cpu.max", "memory.max", "pids.max", "cpuset.cpus",
                "cpuset.mems", "io.max">>
Limits == {LimitOrder[i] : i \in DOMAIN LimitOrder}

\* required_controllers: both cpuset files belong to one controller.
ControllerOf(l) == CASE l = "cpu.max"    -> "cpu"
                     [] l = "memory.max" -> "memory"
                     [] l = "pids.max"   -> "pids"
                     [] l = "io.max"     -> "io"
                     [] OTHER            -> "cpuset"
Controllers == {"cpu", "memory", "pids", "cpuset", "io"}

\* The limits whose value may be malformed: no list of CPUs, or no --io-max that parses.
MayBeMalformed == {"cpuset.cpus", "cpuset.mems", "io.max"}

ASSUME PidAssumption       == NoPid \notin Pids
ASSUME DelegatedAssumption == Delegated \subseteq Controllers
ASSUME WantsAssumption     == Wants \subseteq SUBSET Limits

VARIABLES want,       \* the limits each run asks for
          malformed,  \* those among them whose value no kernel accepts
          pc,         \* control state of each boxed
          child,      \* state of each run's container
          pid,        \* its host pid, kept after it has been reaped
          todo,       \* limits create has still to write
          cg,         \* the run's Cgroup: "partial" until create returns it
          joined,     \* the runs whose container was put into its cgroup
          adopted,    \* the runs whose directory was there before them
          enabled,    \* cgroup.subtree_control of /sys/fs/cgroup/boxed
          dirs,       \* the directories under it
          limits      \* per directory, <<l, r>> where r wrote limit l

config == <<want, malformed>>
kernel == <<enabled, dirs, limits>>
vars == <<want, malformed, pc, child, pid, todo, cg, joined, adopted, enabled,
          dirs, limits>>

PC == {"validate", "clone", "probe", "enable", "mkdir", "limits", "go",
       "wait", "abort", "drop", "done", "killed"}

Live(r)     == child[r] \in {"waiting", "running"}
HoldsPid(r) == child[r] \in {"waiting", "running", "zombie"}
Required(r) == {ControllerOf(l) : l \in want[r]}

Goes(r, to) == pc' = [pc EXCEPT ![r] = to]

----------------------------------------------------------------------------
(***************************************************************************)
(* From the command line to the clone.                                     *)
(***************************************************************************)
\* main: CgroupConfig::validate looks at --io-max only.
Validate(r) ==
    /\ pc[r] = "validate"
    /\ Goes(r, IF "io.max" \in malformed[r] THEN "done" ELSE "clone")
    /\ UNCHANGED <<config, child, pid, todo, cg, joined, adopted, kernel>>

\* is_noop decides whether there will be a cgroup at all.
Clone(r) ==
    /\ pc[r] = "clone"
    /\ \/ \E p \in Pids :
             /\ \A s \in Runs : HoldsPid(s) => pid[s] # p
             /\ pid' = [pid EXCEPT ![r] = p]
             /\ child' = [child EXCEPT ![r] = "waiting"]
             /\ Goes(r, IF want[r] = {} THEN "go" ELSE "probe")
       \/ Goes(r, "done") /\ UNCHANGED <<pid, child>>
    /\ UNCHANGED <<config, todo, cg, joined, adopted, kernel>>

----------------------------------------------------------------------------
(***************************************************************************)
(* Cgroup::create, while the child waits at the sync pipe.                 *)
(***************************************************************************)
\* The parent directory is made, and its controllers are compared to the flags.
Probe(r) ==
    /\ pc[r] = "probe"
    /\ \/ Required(r) \subseteq Delegated /\ Goes(r, "enable")
       \/ Goes(r, "abort")
    /\ UNCHANGED <<config, child, pid, todo, cg, joined, adopted, kernel>>

\* "+c" enables c for every directory, whoever asked; nothing disables it.
Enable(r) ==
    /\ pc[r] = "enable"
    /\ \/ enabled' = enabled \cup Required(r) /\ Goes(r, "mkdir")
       \/ Goes(r, "abort") /\ UNCHANGED enabled
    /\ UNCHANGED <<config, child, pid, todo, cg, joined, adopted, dirs, limits>>

\* mutant: named after the pid the child itself sees
SharedDir(r) == CHOOSE p \in Pids : TRUE
DirOf(r)     == pid[r]

\* create_dir_all is content with a directory that is there already.
MakeDir(r) ==
    /\ pc[r] = "mkdir"
    /\ \/ /\ dirs' = dirs \cup {DirOf(r)}
          /\ adopted' = IF DirOf(r) \in dirs THEN adopted \cup {r} ELSE adopted
          /\ cg' = [cg EXCEPT ![r] = "partial"]
          /\ todo' = [todo EXCEPT ![r] = want[r]]
          /\ Goes(r, "limits")
       \/ Goes(r, "abort") /\ UNCHANGED <<dirs, adopted, cg, todo>>
    /\ UNCHANGED <<config, child, pid, joined, enabled, limits>>

\* l is the first of S in create's order.
First(l, S) ==
    \E i \in DOMAIN LimitOrder :
        /\ l = LimitOrder[i] /\ l \in S
        /\ \A j \in 1..(i - 1) : LimitOrder[j] \notin S

\* mutant: a rejected limit is passed over
PassOver(r, l)  == pc' = pc /\ todo' = [todo EXCEPT ![r] = @ \ {l}]
\* The `?` of each write: create returns Err, no Cgroup value is ever made, and
\* the directory keeps what was written so far.
Rejected(r, l)  == Goes(r, "abort") /\ UNCHANGED todo

WriteLimit(r) ==
    /\ pc[r] = "limits"
    /\ \E l \in want[r] :
          /\ First(l, todo[r])
          /\ \/ /\ l \notin malformed[r]
                /\ DirOf(r) \in dirs /\ ControllerOf(l) \in enabled
                /\ limits' = [limits EXCEPT ![DirOf(r)] =
                                 {w \in @ : w[1] # l} \cup {<<l, r>>}]
                /\ todo' = [todo EXCEPT ![r] = @ \ {l}]
                /\ UNCHANGED pc
             \/ Rejected(r, l) /\ UNCHANGED limits
    /\ UNCHANGED <<config, child, pid, cg, joined, adopted, enabled, dirs>>

----------------------------------------------------------------------------
(***************************************************************************)
(* add_process, the go-ahead, the reaping and the Drop.                    *)
(***************************************************************************)
\* rmdir of r's path, whoever made the directory; it fails with EBUSY while a
\* live process is inside, and with ENOENT if it is gone.
Busy(p) == \E s \in joined : Live(s) /\ DirOf(s) = p
RemoveDir(r) ==
    IF Busy(DirOf(r)) THEN UNCHANGED <<dirs, limits>>
    ELSE /\ dirs' = dirs \ {DirOf(r)}
         /\ limits' = [limits EXCEPT ![DirOf(r)] = {}]

\* create returns its Cgroup; if add_process fails the `?` drops it.
Join(r) ==
    /\ pc[r] = "limits" /\ todo[r] = {}
    /\ \/ /\ DirOf(r) \in dirs
          /\ joined' = joined \cup {r}
          /\ cg' = [cg EXCEPT ![r] = "owned"]
          /\ Goes(r, "go")
          /\ UNCHANGED <<dirs, limits>>
       \/ /\ RemoveDir(r)
          /\ cg' = [cg EXCEPT ![r] = "dropped"]
          /\ Goes(r, "abort")
          /\ UNCHANGED joined
    /\ UNCHANGED <<config, child, pid, todo, adopted, enabled>>

\* setup_signals and the go-ahead byte; either may fail.
Go(r) ==
    /\ pc[r] = "go"
    /\ \/ /\ child[r] = "waiting"
          /\ child' = [child EXCEPT ![r] = "running"]
          /\ Goes(r, "wait")
       \/ Goes(r, "abort") /\ UNCHANGED child
    /\ UNCHANGED <<config, pid, todo, cg, joined, adopted, kernel>>

\* mutant: the cgroup is dropped without waiting for the child
AtOnce(r)    == child[r] # "none"
ChildOver(r) == child[r] = "zombie"

\* wait_for_child, on both paths: from here on the pid is free.
Reap(r) ==
    /\ pc[r] \in {"wait", "abort"}
    /\ ChildOver(r)
    /\ child' = [child EXCEPT ![r] = IF @ = "zombie" THEN "reaped" ELSE @]
    /\ Goes(r, "drop")
    /\ UNCHANGED <<config, pid, todo, cg, joined, adopted, kernel>>

\* run_in_namespace returns: Drop for Cgroup, where there is one.
DropCgroup(r) ==
    /\ pc[r] = "drop"
    /\ \/ /\ cg[r] = "owned"
          /\ RemoveDir(r)
          /\ cg' = [cg EXCEPT ![r] = "dropped"]
       \/ cg[r] # "owned" /\ UNCHANGED <<cg, dirs, limits>>
    /\ Goes(r, "done")
    /\ UNCHANGED <<config, child, pid, todo, joined, adopted, enabled>>

----------------------------------------------------------------------------
\* The container ends: by itself, killed, or at end-of-file on the sync pipe.  If
\* its boxed is gone, the host's init reaps it.
ChildEnds(r) ==
    /\ Live(r)
    /\ child' = [child EXCEPT ![r] = IF pc[r] = "killed" THEN "reaped" ELSE "zombie"]
    /\ UNCHANGED <<config, pc, pid, todo, cg, joined, adopted, kernel>>

\* SIGKILL: no Drop runs.
KillBoxed(r) ==
    /\ pc[r] \notin {"done", "killed"}
    /\ Goes(r, "killed")
    /\ child' = [child EXCEPT ![r] = IF @ = "zombie" THEN "reaped" ELSE @]
    /\ UNCHANGED <<config, pid, todo, cg, joined, adopted, kernel>>

Finished ==
    /\ \A r \in Runs : pc[r] \in {"done", "killed"} /\ ~Live(r)
    /\ UNCHANGED vars

Init ==
    /\ want \in [Runs -> Wants]
    /\ malformed \in [Runs -> SUBSET MayBeMalformed]
    /\ \A r \in Runs : malformed[r] \subseteq want[r]
    /\ pc = [r \in Runs |-> "validate"]
    /\ child = [r \in Runs |-> "none"]
    /\ pid = [r \in Runs |-> NoPid]
    /\ todo = [r \in Runs |-> {}]
    /\ cg = [r \in Runs |-> "none"]
    /\ joined = {} /\ adopted = {}
    /\ enabled = {} /\ dirs = {}
    /\ limits = [p \in Pids |-> {}]

Step(r) ==
    \/ Validate(r) \/ Clone(r) \/ Probe(r) \/ Enable(r) \/ MakeDir(r)
    \/ WriteLimit(r) \/ Join(r) \/ Go(r) \/ Reap(r) \/ DropCgroup(r)
    \/ ChildEnds(r) \/ KillBoxed(r)

Next == Finished \/ \E r \in Runs : Step(r)

Spec == Init /\ [][Next]_vars

----------------------------------------------------------------------------
(***************************************************************************)
(* Properties.                                                             *)
(***************************************************************************)
\* A running container is under every limit its flags asked for, whatever other
\* runs do: its controllers stay enabled, its directory cannot be removed by a
\* run that had its pid before, and no limit was lost on the way.
LimitsInForce ==
    \A r \in Runs : child[r] = "running" /\ want[r] # {} =>
        /\ r \in joined /\ pid[r] \in dirs
        /\ \A l \in want[r] : <<l, r>> \in limits[pid[r]] /\ ControllerOf(l) \in enabled

\* In a directory that create made itself, these are all the limits there are.
LimitsExact ==
    \A r \in Runs : child[r] = "running" /\ r \notin adopted /\ want[r] # {} =>
        limits[pid[r]] = want[r] \X {r}

\* A directory is there for a reason: a run still owns it, or lost it by failing
\* inside create or by being killed.  A Cgroup dropped in time leaves nothing, even
\* where the next run with that pid was faster.
DirsAccounted ==
    \A p \in dirs : \E r \in Runs : pid[r] = p /\ cg[r] \in {"partial", "owned"}

\* What a running container is under: the limits of the directory its process was
\* put in, as far as their controllers are enabled.
InForce(r) ==
    IF child[r] = "running" /\ r \in joined
    THEN {w \in limits[DirOf(r)] : ControllerOf(w[1]) \in enabled}
    ELSE {}

\* Where a container is in its life.
Phase(r) == CASE child[r] \in {"none", "waiting"} -> "before"
              [] child[r] = "running"           -> "running"
              [] OTHER                          -> "over"

\* Of all the steps of all the runs, a container sees only its own start and end:
\* its limits come into force at once and nothing touches them while it lives.
Private == INSTANCE PrivateLimits WITH
    phase <- [r \in Runs |-> Phase(r)],
    force <- [r \in Runs |-> InForce(r)]

ImplementsPrivateLimits == Private!Spec

\* README.md: a run "creates a cgroup under /sys/fs/cgroup/boxed/<pid>", with
\* "per-pid isolation": no container is under a limit of another run.
OwnLimitsOnly ==
    \A r \in Runs : child[r] = "running" /\ want[r] # {} =>
        limits[pid[r]] \subseteq want[r] \X {r}

\* CHANGELOG.md:32-34: "Malformed limits are rejected immediately after argument
\* parsing, before the container is cloned, so a typo no longer costs a spawned and
\* killed child process."  If it does, at least, CHANGELOG.md:78-79, "the cgroup is
\* removed" when the child has left it: a directory with its pid is another run's.
MalformedCostsNothing ==
    \A r \in Runs : malformed[r] # {} /\ pc[r] = "done" =>
        \/ child[r] = "none"
        \/ DirOf(r) \notin dirs
        \/ \E s \in Runs \ {r} : pid[s] = pid[r]

----------------------------------------------------------------------------
(***************************************************************************)
(* The inductive invariant.                                                *)
(***************************************************************************)
TypeOK ==
    /\ want \in [Runs -> SUBSET Limits]
    /\ malformed \in [Runs -> SUBSET MayBeMalformed]
    /\ pc \in [Runs -> PC]
    /\ child \in [Runs -> {"none", "waiting", "running", "zombie", "reaped"}]
    /\ pid \in [Runs -> Pids \cup {NoPid}]
    /\ todo \in [Runs -> SUBSET Limits]
    /\ cg \in [Runs -> {"none", "partial", "owned", "dropped"}]
    /\ joined \subseteq Runs /\ adopted \subseteq Runs
    /\ enabled \subseteq Controllers
    /\ dirs \subseteq Pids
    /\ limits \in [Pids -> SUBSET (Limits \X Runs)]

\* A pid names one process at a time.
PidsDistinct ==
    \A r, s \in Runs : HoldsPid(r) /\ HoldsPid(s) /\ pid[r] = pid[s] => r = s

\* What a boxed knows of its child.
ChildKnown ==
    \A r \in Runs :
        /\ child[r] # "none" => pid[r] \in Pids
        /\ pc[r] \in {"validate", "clone"} => child[r] = "none"
        /\ pc[r] \in {"probe", "enable", "mkdir", "limits", "go"}
               => child[r] \in {"waiting", "zombie"}
        /\ pc[r] = "wait" => child[r] \in {"running", "zombie"}
        /\ pc[r] = "abort" => child[r] \in {"waiting", "zombie"}
        /\ pc[r] \in {"drop", "done"} => child[r] \in {"none", "reaped"}

\* How far a run is with its cgroup.
CgroupStage ==
    \A r \in Runs :
        /\ pc[r] \in {"validate", "clone", "probe", "enable", "mkdir"}
               => cg[r] = "none" /\ r \notin joined
        /\ pc[r] \in {"probe", "enable", "mkdir", "limits"} => want[r] # {}
        /\ pc[r] = "limits" => cg[r] = "partial" /\ r \notin joined
        /\ pc[r] \in {"limits", "go", "wait"} /\ want[r] # {} => Required(r) \subseteq enabled
        /\ pc[r] \in {"mkdir"} => Required(r) \subseteq enabled
        /\ r \in joined => want[r] # {} /\ Required(r) \subseteq enabled
                           /\ cg[r] \in {"owned", "dropped"}
        /\ r \in joined /\ Live(r) => cg[r] = "owned"
        /\ pc[r] \in {"go", "wait"} /\ want[r] # {} => r \in joined
        /\ pc[r] # "limits" /\ r \notin joined /\ want[r] # {} => child[r] # "running"

\* While a run's child has the pid, nobody else writes to the directory.
Written ==
    \A r \in Runs :
        /\ pc[r] = "limits" => todo[r] \subseteq want[r]
        /\ pc[r] = "limits" /\ pid[r] \in dirs =>
               \A l \in want[r] \ todo[r] : <<l, r>> \in limits[pid[r]]
        /\ r \in joined /\ Live(r) =>
               /\ pid[r] \in dirs
               /\ \A l \in want[r] : <<l, r>> \in limits[pid[r]]

\* A new directory has no limits; one the run made itself has only the run's.
NothingElse ==
    /\ \A p \in Pids \ dirs : limits[p] = {}
    /\ \A r \in Runs \ adopted :
          pc[r] = "limits" \/ (r \in joined /\ Live(r)) =>
              \A w \in limits[pid[r]] : w[1] \in want[r] /\ w[2] = r

\* A limit is in a directory only because its file was there to be written.
EnabledFirst ==
    \A p \in Pids : \A w \in limits[p] : ControllerOf(w[1]) \in enabled

HierarchyInv ==
    /\ TypeOK
    /\ PidsDistinct
    /\ ChildKnown
    /\ CgroupStage
    /\ Written
    /\ NothingElse
    /\ EnabledFirst
    /\ DirsAccounted

============================================================================
