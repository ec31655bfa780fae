----------------------------- MODULE Confinement -----------------------------
(***************************************************************************)
(* From the id maps to the user's program, call by call: rootless.rs,      *)
(* overlay.rs, rootfs.rs and capabilities.rs, in the order in which        *)
(* namespace.rs reaches them, against the kernel's rules for each call.    *)
(* The order is all there is to it: half of the calls need a privilege or  *)
(* a view of the host that a later one takes away.                         *)
(*                                                                         *)
(* The scratch directory of an image is named after the pid of boxed: the  *)
(* runs of a behaviour are those that are given the same pid one after     *)
(* another, by one user, and meet what the earlier ones left.  The next    *)
(* one starts when boxed is gone and its container, if that has survived   *)
(* it, has started its program.                                            *)
(***************************************************************************)
EXTENDS Naturals

CONSTANTS Caps,     \* the capabilities of caps::all
          Depth,    \* the number of layers of the image
          MaxRuns   \* how many runs get the pid

\* mutant: one that the loop itself needs is dropped with the others
LessRetained == {"CAP_SETUID"}
RETAINED_CAPS == {"CAP_SETPCAP", "CAP_SETUID"}  \* standing for the thirteen

ASSUME CapsAssumption ==
    RETAINED_CAPS \cup {"CAP_SYS_ADMIN", "CAP_SETPCAP"} \subseteq Caps
ASSUME DepthAssumption   == Depth \in Nat
ASSUME MaxRunsAssumption == MaxRuns \in Nat \ {0}

VARIABLES opts,     \* the flags, the uid inside, and what the host is like
          run,      \* the run under way
          boxed,    \* whether boxed is "up", has "exited" or was "killed"
          pc,       \* the next call of the container, or of boxed for it
          c,        \* the container: its namespaces and its credentials
          dirs,     \* what there is of the scratch directory
          sealed,   \* overlayfs's work/work: "none", mode "000" or mode "700"
          upper,    \* the runs whose files are in the upper directory
          onHost,   \* the container's mounts that the host has too
          faults,   \* why calls of this run have failed
          lost      \* runs with an excuse for leaving their scratch directory

scratch == <<dirs, sealed, upper>>
vars == <<opts, run, boxed, pc, c, dirs, sealed, upper, onHost, faults, lost>>

\* "rootfs" and "image" are exclusive; "otherUid" is a --uid but 0.  The host's
\* root may be a "shared" mount, and boxed may have "inheritable" capabilities.
Options == {o \in SUBSET {"rootfs", "image", "rootless", "otherUid", "shared",
                          "inheritable"} :
                /\ ~ {"rootfs", "image"} \subseteq o
                /\ "otherUid" \in o => "rootless" \in o
                /\ "rootless" \in o => "inheritable" \notin o}

Maps    == {"setgroups", "uid_map", "gid_map"}
Scratch == {"upper", "work", "merged"}
MapCalls    == {"setgroups", "uid_map", "gid_map"}
MountCalls  == {"overlay", "private", "bind", "proc", "pivot", "detach"}
ShimCalls   == {"hostname", "layers", "upper", "work", "merged", "chdir",
                "chdirRoot", "bounding", "effective", "permitted",
                "inheritable", "nnp", "filter", "exec"} \cup MountCalls
BoxedCalls  == {"chmod", "remove"}
PC == MapCalls \cup ShimCalls \cup BoxedCalls \cup {"running", "over", "done"}

----------------------------------------------------------------------------
(***************************************************************************)
(* The kernel.                                                             *)
(***************************************************************************)
\* A clone: CLONE_NEWUSER comes with all capabilities, and with mounts that are
\* slaves of the host's; without it the credentials and the propagation are
\* those of boxed.
NewContainer(o) ==
    [maps    |-> {},
     caps    |-> [s \in {"bounding", "effective", "permitted", "inheritable"} |->
                     IF s # "inheritable" \/ "inheritable" \in o THEN Caps ELSE {}],
     todo    |-> Caps \ RETAINED_CAPS,
     cap     |-> "none",
     locks   |-> {},
     peers   |-> IF "rootless" \in o THEN "slave"
                 ELSE IF "shared" \in o THEN "shared" ELSE "private",
     root    |-> "host",
     cwd     |-> "host",
     mounts  |-> {},
     lower   |-> <<>>]

\* The default filter denies what CAP_SYS_ADMIN would still allow.
MayMount == "CAP_SYS_ADMIN" \in c.caps["effective"] /\ "filter" \notin c.locks
\* Who has no id in the user namespace can make no file.
Mapped == "rootless" \in opts => {"uid_map", "gid_map"} \subseteq c.maps

\* When the kernel accepts a call, other things being well.  gid_map is for
\* those who have given up setgroups, which they can only before it; a user
\* namespace gets a new proc while the host's is in view; pivot_root wants a
\* mount point that is nobody's peer, and umount2(".") the roots stacked at it;
\* a capability leaves the permitted set after the effective one.
Accepts(call) ==
    CASE call = "setgroups" -> "gid_map" \notin c.maps
      [] call = "gid_map"   -> "setgroups" \in c.maps
      [] call \in {"hostname", "private", "bind"} -> MayMount
      [] call \in Scratch   -> Mapped
      [] call = "overlay"   -> MayMount /\ Mapped /\ Scratch \subseteq dirs
      [] call = "proc"      -> MayMount /\ ("rootless" \in opts => c.root # "new")
      [] call = "pivot"     -> MayMount /\ c.cwd = "mount" /\ c.peers # "shared"
      [] call = "detach"    -> MayMount /\ c.root = "stacked"
      [] call = "bounding"  -> "CAP_SETPCAP" \in c.caps["effective"]
      [] call = "permitted" -> c.cap \notin c.caps["effective"]
      [] call = "filter"    -> "nnp" \in c.locks \/ MayMount
      [] OTHER              -> TRUE

\* rmdir: no mount point of the host, and nothing that cannot be listed.  (Root
\* may list what it likes, CAP_DAC_OVERRIDE.)
Removable(d) ==
    /\ d = "merged" => "overlay" \notin onHost
    /\ d = "work" => "rootless" \notin opts \/ sealed # "000"

\* A mount appears on the host as long as the container's tree is its peer.
Propagates(m) == onHost' = IF c.peers = "shared" THEN onHost \cup {m} ELSE onHost

\* execve: root is given what it may inherit and what bounds it, but never more
\* than it had under no_new_privs; others lose what they had.
AfterExec ==
    LET given == c.caps["inheritable"] \cup c.caps["bounding"]
        all   == IF "otherUid" \in opts THEN {}
                 ELSE IF "nnp" \in c.locks THEN given \cap c.caps["permitted"] ELSE given
    IN  [c.caps EXCEPT !["permitted"] = all, !["effective"] = all]

----------------------------------------------------------------------------
(***************************************************************************)
(* The calls.  Each is followed by a `?`.                                  *)
(***************************************************************************)
Does(call, next) ==
    /\ pc = call /\ Accepts(call)
    /\ pc' = next
    /\ UNCHANGED <<opts, run, boxed, faults, lost>>

\* A call that changes nothing but the container.
Alone(call, next) == Does(call, next) /\ UNCHANGED <<scratch, onHost>>

AfterMap == [setgroups |-> "uid_map", uid_map |-> "gid_map", gid_map |-> "hostname"]

\* setup_mappings, by boxed; the go-ahead lets the child take the next call.
WriteMap == \E m \in Maps :
    Alone(m, AfterMap[m]) /\ c' = [c EXCEPT !.maps = @ \cup {m}]

\* config_fs
AfterHostname == IF "image" \in opts THEN "layers"
                 ELSE IF "rootfs" \in opts THEN "private" ELSE "bounding"

SetHostname == Alone("hostname", AfterHostname) /\ UNCHANGED c

\* mutant: the layers stay as they were sorted
BottomFirst == [i \in 1..Depth |-> i]
\* mutant: an index that counts from 0
CountFrom0  == [i \in 1..Depth |-> Depth - i]
\* Layer i is the i-th by name: sorted, then reversed, and joined in that order.
LowerDirs   == [i \in 1..Depth |-> Depth + 1 - i]

DiscoverLayers ==
    /\ Depth > 0
    /\ Alone("layers", "upper") /\ c' = [c EXCEPT !.lower = LowerDirs]

AfterDir == [upper |-> "work", work |-> "merged", merged |-> "overlay"]

\* create_overlay_scratch: create_dir_all takes what is there already.
MakeDir == \E d \in Scratch :
    /\ Does(d, AfterDir[d])
    /\ dirs' = dirs \cup {d}
    /\ UNCHANGED <<c, sealed, upper, onHost>>

\* mutant: the tree is not made private
SharedStays == "bind"
RootSetup   == "private"

\* The files of the upper directory show in the container, and those it writes
\* stay there.
MountOverlay ==
    /\ Does("overlay", RootSetup)
    /\ c' = [c EXCEPT !.mounts = @ \cup {"overlay"}]
    /\ sealed' = "000"
    /\ upper' = upper \cup {run}
    /\ Propagates("overlay")
    /\ UNCHANGED dirs

MakePrivate == Alone("private", "bind") /\ c' = [c EXCEPT !.peers = "private"]

\* The tree onto itself; and a proc of the container's own.
Mount(m, next) ==
    /\ Does(m, next)
    /\ c' = [c EXCEPT !.mounts = @ \cup {m}]
    /\ Propagates(m)
    /\ UNCHANGED scratch

BindRoot  == Mount("bind", "proc")
MountProc == Mount("proc", "chdir")

\* "." is a mount point only if one was there to enter.
EnterRoot == Alone("chdir", "pivot") /\
    c' = [c EXCEPT !.cwd = IF c.mounts \cap {"overlay", "bind"} # {} THEN "mount" ELSE "host"]

\* mutant: the old root stays stacked on the new one
LeaveStacked == "chdirRoot"
AfterPivot   == "detach"

\* pivot_root(".", "."): the old root is now on top of the new one.
PivotRoot == Alone("pivot", AfterPivot) /\ c' = [c EXCEPT !.root = "stacked"]

DetachOld == Alone("detach", "chdirRoot") /\ c' = [c EXCEPT !.root = "new"]

AnchorCwd == Alone("chdirRoot", "bounding") /\
    c' = [c EXCEPT !.cwd = IF c.root = "new" THEN "root" ELSE "host"]

\* mutant: whatever the call, it is the effective set that loses k
SameSet(set, k) == [c.caps EXCEPT !["effective"] = @ \ {k}]
Without(set, k) == [c.caps EXCEPT ![set] = @ \ {k}]

\* drop_capabilities: caps::all is a hash set, so any capability may be next.
DropBounding == \E k \in c.todo :
    /\ Alone("bounding", "effective")
    /\ c' = [c EXCEPT !.cap = k, !.todo = @ \ {k}, !.caps = Without("bounding", k)]

\* mutant: the inheritable set is left as it is
ForgetInheritable == c.caps
DropInheritable   == Without("inheritable", c.cap)

DropRest ==
    \/ Alone("effective", "permitted")
       /\ c' = [c EXCEPT !.caps = Without("effective", c.cap)]
    \/ Alone("permitted", "inheritable")
       /\ c' = [c EXCEPT !.caps = Without("permitted", c.cap)]
    \/ Alone("inheritable", IF c.todo = {} THEN "nnp" ELSE "bounding")
       /\ c' = [c EXCEPT !.caps = DropInheritable]

Lock ==
    \/ Alone("nnp", "filter") /\ c' = [c EXCEPT !.locks = @ \cup {"nnp"}]
    \/ Alone("filter", "exec") /\ c' = [c EXCEPT !.locks = @ \cup {"filter"}]

Exec == Alone("exec", "running") /\ c' = [c EXCEPT !.caps = AfterExec]

\* The shim returns the error of a call, or the code of the program.  A failure of
\* boxed's own calls closes the pipe instead, and the abort has no teardown.
Refused(call) == IF Accepts(call) THEN "outside" ELSE "order"

ShimFails ==
    /\ pc \in ShimCalls
    /\ pc' = "over"
    /\ faults' = faults \cup {Refused(pc)}
    /\ UNCHANGED <<opts, run, boxed, c, scratch, onHost, lost>>

MapFails ==
    /\ pc \in MapCalls
    /\ pc' = "done" /\ boxed' = "exited"
    /\ faults' = faults \cup {Refused(pc)}
    /\ UNCHANGED <<opts, run, c, scratch, onHost, lost>>

ProgramEnds ==
    /\ pc = "running"
    /\ pc' = "over"
    /\ UNCHANGED <<opts, run, boxed, c, scratch, onHost, faults, lost>>

----------------------------------------------------------------------------
(***************************************************************************)
(* overlay::teardown, by boxed.                                            *)
(***************************************************************************)
\* mutant: remove_dir_all without the chmod
RemoveAtOnce == "remove"
TeardownCall == "chmod"

\* wait_for_child returns; without boxed the host's init reaps the container.
Reap ==
    /\ pc = "over"
    /\ IF boxed = "up" /\ "image" \in opts
       THEN pc' = TeardownCall /\ UNCHANGED boxed
       ELSE pc' = "done" /\ boxed' = IF boxed = "up" THEN "exited" ELSE boxed
    /\ UNCHANGED <<opts, run, c, scratch, onHost, faults, lost>>

\* NotFound is as good.
Chmod ==
    /\ Does("chmod", "remove")
    /\ sealed' = IF sealed = "000" THEN "700" ELSE sealed
    /\ UNCHANGED <<c, dirs, upper, onHost>>

\* remove_dir_all, in the order in which read_dir lists the directory ...
RemoveEntry == \E d \in dirs :
    /\ pc = "remove" /\ Removable(d)
    /\ dirs' = dirs \ {d}
    /\ sealed' = IF d = "work" THEN "none" ELSE sealed
    /\ upper' = IF d = "upper" THEN {} ELSE upper
    /\ UNCHANGED <<opts, run, boxed, pc, c, onHost, faults, lost>>

\* ... until nothing is left,
Removed ==
    /\ pc = "remove" /\ dirs = {}
    /\ pc' = "done" /\ boxed' = "exited"
    /\ UNCHANGED <<opts, run, c, scratch, onHost, faults, lost>>

\* or until an entry cannot be removed.  The error is logged.
TeardownFails ==
    /\ pc \in BoxedCalls
    /\ pc' = "done" /\ boxed' = "exited"
    /\ \/ faults' = faults \cup {"outside"} /\ lost' = lost \cup {run}
       \/ /\ pc = "remove" /\ "merged" \in dirs /\ ~Removable("merged")
          /\ faults' = faults \cup {"leak"} /\ lost' = lost \cup {run}
       \/ /\ pc = "remove" /\ "work" \in dirs /\ ~Removable("work")
          /\ faults' = faults \cup {"order"} /\ UNCHANGED lost
    /\ UNCHANGED <<opts, run, c, scratch, onHost>>

----------------------------------------------------------------------------
(***************************************************************************)
(* The environment, and the specification.                                 *)
(***************************************************************************)
\* SIGKILL.  Before the go-ahead the container ends with boxed, later it goes on.
KillBoxed ==
    /\ boxed = "up" /\ pc # "done"
    /\ boxed' = "killed"
    /\ pc' = IF pc \in MapCalls \cup BoxedCalls THEN "done" ELSE pc
    /\ lost' = lost \cup {run}
    /\ UNCHANGED <<opts, run, c, scratch, onHost, faults>>

FirstCall == IF "rootless" \in opts THEN "setgroups" ELSE "hostname"

\* The pid is free, and given to another `boxed run` with the same flags.
Again ==
    /\ run < MaxRuns
    /\ pc = "done" \/ (pc = "running" /\ boxed = "killed")
    /\ run' = run + 1
    /\ boxed' = "up" /\ pc' = FirstCall
    /\ c' = NewContainer(opts)
    /\ faults' = {}
    /\ UNCHANGED <<opts, scratch, onHost, lost>>

Finished ==
    /\ pc = "done" /\ run = MaxRuns
    /\ UNCHANGED vars

Init ==
    /\ opts \in Options
    /\ run = 1 /\ boxed = "up" /\ pc = FirstCall
    /\ c = NewContainer(opts)
    /\ dirs = {} /\ sealed = "none" /\ upper = {}
    /\ onHost = {} /\ faults = {} /\ lost = {}

RootSteps == MakePrivate \/ BindRoot \/ MountProc \/ EnterRoot \/ PivotRoot
             \/ DetachOld \/ AnchorCwd
OverlaySteps == DiscoverLayers \/ MakeDir \/ MountOverlay
ShimStep ==
    \/ SetHostname \/ OverlaySteps \/ RootSteps \/ DropBounding \/ DropRest
    \/ Lock \/ Exec \/ ShimFails
BoxedStep ==
    \/ WriteMap \/ MapFails \/ Reap \/ Chmod \/ RemoveEntry \/ Removed
    \/ TeardownFails

Next == ShimStep \/ BoxedStep \/ ProgramEnds \/ KillBoxed \/ Again \/ Finished

Spec == Init /\ [][Next]_vars

----------------------------------------------------------------------------
(***************************************************************************)
(* Properties.                                                             *)
(***************************************************************************)
TypeOK ==
    /\ opts \in Options /\ run \in 1..MaxRuns
    /\ boxed \in {"up", "exited", "killed"} /\ pc \in PC
    /\ c \in [maps : SUBSET Maps,
              caps : [{"bounding", "effective", "permitted", "inheritable"}
                         -> SUBSET Caps],
              todo : SUBSET (Caps \ RETAINED_CAPS),
              cap : (Caps \ RETAINED_CAPS) \cup {"none"},
              locks : SUBSET {"nnp", "filter"},
              peers : {"shared", "slave", "private"},
              root : {"host", "stacked", "new"},
              cwd : {"host", "mount", "root"},
              mounts : SUBSET {"overlay", "bind", "proc"},
              lower : {<<>>} \cup [1..Depth -> 1..Depth]]
    /\ dirs \subseteq Scratch /\ sealed \in {"none", "000", "700"}
    /\ upper \subseteq 1..run /\ lost \subseteq 1..run
    /\ onHost \subseteq {"overlay", "bind", "proc"}
    /\ faults \subseteq {"outside", "order", "leak"}

\* rootfs.rs, rootless.rs and capabilities.rs explain their order call by call; no
\* call, for any flags, host and order of the capabilities, is ever refused for
\* coming too early or too late: whatever fails has a reason outside boxed.
NeverOutOfOrder == "order" \notin faults

\* namespace.rs, rootfs.rs: the program starts under both locks, under --rootless with
\* its ids mapped, and under --rootfs or --image in a new root, where its working
\* directory is too, with a proc of its own.  Without one it has the host's tree.
Contained ==
    pc = "running" =>
        /\ "rootless" \in opts => c.maps = Maps
        /\ opts \cap {"rootfs", "image"} # {} =>
               c.root = "new" /\ c.cwd = "root" /\ "proc" \in c.mounts
        /\ c.locks = {"nnp", "filter"}

\* capabilities.rs: whatever the program executes, as whatever user, it has a
\* retained capability or none; no set could give a dropped one back.
CapsWithin ==
    pc = "running" => \A s \in DOMAIN c.caps : c.caps[s] \subseteq RETAINED_CAPS

\* Nothing that a container has been denied comes back in its life, by whatever
\* call: no capability to any set, not even by the exec that recomputes them; no
\* lock is opened, no tree is a peer of the host's again, no old root returns.
NoWayBack ==
    [][run' = run =>
          /\ \A s \in DOMAIN c.caps : c'.caps[s] \subseteq c.caps[s]
          /\ c.locks \subseteq c'.locks /\ c.maps \subseteq c'.maps
          /\ c.peers # "shared" => c'.peers # "shared"
          /\ c.root = "new" => c'.root = "new"]_vars

\* overlay.rs: for a file that several layers have (the set P), the program sees
\* the one of the last layer by name; overlayfs looks at lowerdir from the left.
TopLayerWins ==
    "overlay" \in c.mounts =>
        \A P \in (SUBSET (1..Depth)) \ {{}} :
            \E i \in DOMAIN c.lower :
                /\ c.lower[i] \in P /\ \A j \in 1..(i - 1) : c.lower[j] \notin P
                /\ \A l \in P : l <= c.lower[i]

\* rootfs.rs: "mounts inside the container do not leak back to the host."  The tree
\* and its proc never do; the overlay, mounted before, does where the host's root
\* is shared and there is no user namespace.
OnlyOverlayLeaks ==
    onHost # {} => /\ onHost = {"overlay"}
                   /\ "image" \in opts /\ "shared" \in opts /\ "rootless" \notin opts

\* A run finds files of an earlier one in its upper directory only if that one was
\* killed, or could not remove them for a reason of the host's; its own are gone
\* when it is over, but for the same reasons.
FilesLeftForAReason == \A r \in upper : r \in lost \/ (r = run /\ pc # "done")

\* CHANGELOG.md: "Ephemeral scratch directories are torn down on the host after the
\* container exits", at least as long as nothing outside makes a call fail.
TornDown ==
    (pc = "done" /\ boxed = "exited" /\ "outside" \notin faults /\ lost \subseteq {run})
        => dirs = {}

=============================================================================
