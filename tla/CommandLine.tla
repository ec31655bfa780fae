----------------------------- MODULE CommandLine -----------------------------
(***************************************************************************)
(* What `boxed run` does with its flags before the clone, and what is left *)
(* to be found wrong after it: main in src/src/main.rs, and the --io-max   *)
(* path through src/src/cgroups.rs, which is taken twice.  validate parses *)
(* each value and looks its device up; create, after the clone, does both  *)
(* again and writes the limits to the kernel.  The flag may be repeated,   *)
(* also for one device, and /dev may change at any time.                   *)
(*                                                                         *)
(* create's other steps are in CgroupHierarchy, and never fail here.       *)
(***************************************************************************)
EXTENDS Integers, Sequences

CONSTANTS Lines,    \* the command lines; see Line
          Paths,    \* the paths of devices
          Disks,    \* the numbers of the disks
          MaxU32,   \* u32::MAX
          MaxU64    \* u64::MAX

ASSUME WidthAssumption == MaxU32 \in Nat /\ MaxU64 \in Nat /\ MaxU32 <= MaxU64
ASSUME DisksAssumption == {"partition", "char", "gone"} \cap Disks = {}

\* mutant: a key that the kernel does not know is let pass
LooseKeys == {"rbps", "wbps", "riops", "wiops", "bps"}
IO_MAX_KEYS == {"rbps", "wbps", "riops", "wiops"}

\* An --io-max value, cut where parse_io_max cuts it: `colon` is "no" if there is
\* none, path is "" if nothing is before it.  A pair without `=` has the key "";
\* -1 stands for a value that is not a number.
Pair  == [key : IO_MAX_KEYS \cup {"bps", ""}, value : -1..(MaxU64 + 1)]
IoMax == [colon : {"yes", "no"}, path : Paths \cup {""}, pairs : Seq(Pair)]
Line  == [io      : Seq(IoMax),
          \* a list the kernel takes, no list at all, or one of CPUs or nodes
          \* that this host does not have to give
          cpuset  : {"none", "good", "malformed", "refused"},
          profile : {"none", "good", "bad"},
          id      : {-1} \cup 0..MaxU32]      \* --uid or --gid, -1 if not given

ASSUME LinesAssumption == Lines \subseteq Line

VARIABLES line,     \* the command line
          pc,       \* the next step of boxed
          i,        \* the --io-max value it has reached
          udev,     \* what each path of /dev is
          seen,     \* the device validate found for each --io-max value
          used,     \* the device create has written each one for
          changed,  \* the paths that changed after validate had looked
          child,    \* "none", "waiting" at the sync pipe, or "running"
          ioMax     \* the kernel's io.max of the container's cgroup

vars == <<line, pc, i, udev, seen, used, changed, child, ioMax>>

Block == Disks \cup {"partition"}
Nodes == Block \cup {"char", "gone"}
Over  == {"failed", "wait"}

----------------------------------------------------------------------------
\* parse_io_max: the value and each of its pairs.
Parses(v) ==
    /\ v.colon = "yes" /\ v.path # "" /\ v.pairs # <<>>
    /\ \A j \in DOMAIN v.pairs :
          v.pairs[j].key \in IO_MAX_KEYS /\ v.pairs[j].value \in 0..MaxU64

\* mutant: validate is content with the syntax
AnyDevice(p) == TRUE
\* resolve_device, the half that refuses: what is there, and a block device.
Resolves(p)  == udev[p] \in Block

Goes(to)    == pc' = to /\ UNCHANGED child
Fails(at)   == pc = at /\ Goes("failed") /\ UNCHANGED <<i, seen, used, ioMax>>
Passes(at, to) == pc = at /\ Goes(to) /\ UNCHANGED <<i, seen, used, ioMax>>

\* create_config_dir: HOME is not set, or the directory cannot be made.
ConfigDir == Passes("config", "profile") \/ Fails("config")

\* SeccompProfile::from_file
LoadProfile ==
    IF line.profile = "bad" THEN Fails("profile") ELSE Passes("profile", "validate")

\* mutant: the last value is not looked at
AllButLast == i >= Len(line.io)
EachValue  == i > Len(line.io)

\* CgroupConfig::validate, one --io-max value a step.
Validate ==
    /\ pc = "validate"
    /\ IF EachValue THEN Goes("ids") /\ i' = 1 /\ UNCHANGED seen
       ELSE IF Parses(line.io[i]) /\ Resolves(line.io[i].path)
       THEN i' = i + 1 /\ seen' = Append(seen, udev[line.io[i].path]) /\ Goes("validate")
       ELSE Goes("failed") /\ UNCHANGED <<i, seen>>
    /\ UNCHANGED <<used, ioMax>>

\* RootlessConfig::new: u32::MAX is (uid_t)-1, no id at all.
ValidateIds == IF line.id = MaxU32 THEN Fails("ids") ELSE Passes("ids", "clone")

Clone ==
    \/ Fails("clone")
    \/ /\ pc = "clone"
       /\ child' = "waiting" /\ pc' = "cpuset"
       /\ UNCHANGED <<i, seen, used, ioMax>>

\* The flag is a free string; the write says whether the kernel takes it.
WriteCpuset ==
    IF line.cpuset \in {"malformed", "refused"} THEN Fails("cpuset") ELSE Passes("cpuset", "io.max")

----------------------------------------------------------------------------
\* mutant: only the first pair gets into the line
FirstPair(pairs)   == SubSeq(pairs, 1, 1)
\* render_io_max: the pairs of one value, as they were given.
RenderIoMax(pairs) == pairs

\* The kernel's side of a write.  It takes a line for a whole disk, with keys it
\* knows and no zeros, or nothing of it; of two values for a key the later counts;
\* what is not named stays; an operation limit has 32 bits.  The maximum is no
\* limit.
Keys == {"rbps", "wbps", "riops", "wiops"}
Unlimited(k) == IF k \in {"riops", "wiops"} THEN MaxU32 ELSE MaxU64
Stored(k, n) == IF n > Unlimited(k) THEN Unlimited(k) ELSE n
KernelTakes(d, pairs) ==
    d \in Disks /\ \A j \in DOMAIN pairs : pairs[j].key \in Keys /\ pairs[j].value # 0
Sets(pairs, k) == {j \in DOMAIN pairs : pairs[j].key = k}
AfterWrite(old, pairs) ==
    [k \in Keys |->
        IF Sets(pairs, k) = {} THEN old[k]
        ELSE LET j == CHOOSE j \in Sets(pairs, k) : \A m \in Sets(pairs, k) : m <= j
             IN  Stored(k, pairs[j].value)]

\* mutant: the device is looked up once, before the loop
FirstDevice(j) == udev[line.io[1].path]
DeviceOf(j)    == udev[line.io[j].path]

\* create's loop: each value is parsed and resolved again, and written.
WriteIoMax ==
    /\ pc = "io.max" /\ i <= Len(line.io)
    /\ LET v == line.io[i]
           d == DeviceOf(i)
       IN  IF Parses(v) /\ d \in Block /\ KernelTakes(d, RenderIoMax(v.pairs))
           THEN /\ ioMax' = [ioMax EXCEPT ![d] = AfterWrite(@, RenderIoMax(v.pairs))]
                /\ used' = Append(used, d)
                /\ i' = i + 1
                /\ Goes("io.max")
           ELSE Goes("failed") /\ UNCHANGED <<ioMax, used, i>>
    /\ UNCHANGED seen

\* add_process and the go-ahead
GoAhead ==
    /\ pc = "io.max" /\ i > Len(line.io)
    /\ child' = "running" /\ pc' = "wait"
    /\ UNCHANGED <<i, seen, used, ioMax>>

\* A device goes, or comes back with another number.
UdevChange(p, n) ==
    /\ pc \notin Over /\ udev[p] # n
    /\ udev' = [udev EXCEPT ![p] = n]
    /\ changed' = IF \E j \in DOMAIN seen : line.io[j].path = p
                  THEN changed \cup {p} ELSE changed
    /\ UNCHANGED <<line, pc, i, seen, used, child, ioMax>>

Finished == pc \in Over /\ UNCHANGED vars

Init ==
    /\ line \in Lines
    /\ pc = "config" /\ i = 1
    /\ udev \in [Paths -> Nodes]
    /\ seen = <<>> /\ used = <<>> /\ changed = {}
    /\ child = "none"
    /\ ioMax = [d \in Disks |-> [k \in Keys |-> Unlimited(k)]]

Step ==
    /\ \/ ConfigDir \/ LoadProfile \/ Validate \/ ValidateIds \/ Clone
       \/ WriteCpuset \/ WriteIoMax \/ GoAhead
    /\ UNCHANGED <<line, udev, changed>>

Next == Step \/ Finished \/ \E p \in Paths, n \in Nodes : UdevChange(p, n)

Spec == Init /\ [][Next]_vars

----------------------------------------------------------------------------
(***************************************************************************)
(* Properties.                                                             *)
(***************************************************************************)
TypeOK ==
    /\ line \in Lines
    /\ pc \in {"config", "profile", "validate", "ids", "clone", "cpuset", "io.max"}
             \cup Over
    /\ i \in 1..(Len(line.io) + 1)
    /\ udev \in [Paths -> Nodes]
    /\ \A s \in {seen, used} : s \in Seq(Block) /\ Len(s) <= Len(line.io)
    /\ changed \subseteq Paths
    /\ child \in {"none", "waiting", "running"}
    /\ ioMax \in [Disks -> [Keys -> 0..MaxU64]]

\* cgroups.rs: validate "turns a typo into an immediate error instead of one
\* reported after a process has been spawned and killed."  Neither a malformed
\* --io-max, nor a bad profile, nor the id that is none ever costs a clone.
TyposCostNoClone ==
    child # "none" =>
        /\ \A j \in DOMAIN line.io : Parses(line.io[j])
        /\ line.profile # "bad" /\ line.id # MaxU32

\* Malformed limits that validate lets pass, whatever the CPUs and devices: it looks at
\* --io-max alone, and takes a 0.  CHANGELOG.md:32-34 has them rejected before the
\* clone, which MalformedCostsNothing of CgroupHierarchy refutes.
NeverTaken ==
    \/ line.cpuset = "malformed"
    \/ \E j \in DOMAIN line.io : \E m \in DOMAIN line.io[j].pairs :
          line.io[j].pairs[m].value = 0

\* But for those, what fails after the clone is due to the host: it has not the CPUs
\* of the list, or the very value that is refused names a part of a disk, or a path
\* that is not any more what validate saw.
LateFailureIsTheHosts ==
    pc = "failed" /\ child = "waiting" /\ ~ NeverTaken =>
        \/ line.cpuset = "refused"
        \/ /\ i \in DOMAIN line.io
           /\ line.io[i].path \in changed \/ seen[i] = "partition"

\* For each disk and key the container runs under the last value given for it, in
\* whatever flags, under whatever paths; and under no limit that was not given.
LimitsAsAsked ==
    LET Given(d, k) == UNION {{<<j, m>> : m \in Sets(line.io[j].pairs, k)} :
                                 j \in {j \in DOMAIN line.io : used[j] = d}}
        Last(S, g) == \A h \in S : h[1] < g[1] \/ (h[1] = g[1] /\ h[2] <= g[2])
    IN  child = "running" => \A d \in Disks, k \in Keys :
            /\ Given(d, k) = {} => ioMax[d][k] = Unlimited(k)
            /\ \A g \in Given(d, k) : Last(Given(d, k), g) =>
                  ioMax[d][k] = Stored(k, line.io[g[1]].pairs[g[2]].value)

\* The device that was limited is the one that was validated, unless the path has
\* come to mean another in between; then it is the later one.
ValidatedIsLimited ==
    \A j \in DOMAIN used : used[j] = seen[j] \/ line.io[j].path \in changed

=============================================================================
