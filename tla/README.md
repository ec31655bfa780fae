# boxed: a TLA+ verification of the container runtime

`boxed` runs a command in a container: it clones a process into new namespaces,
sets up limits, filesystem, capabilities and a system call filter, starts the
command under a small init process, relays signals to it, and cleans up. This
directory models the parts in which several processes, or several runs, meet, the
order of the calls that confine the container, what the command line can get wrong,
and the compiler of the system call filter.
Source lines are those of `src/` in this repository; `PROJECT.json` maps each
definition to the lines it translates.

## The system

Three processes take part in a run.

| process | code | what it does |
|---|---|---|
| boxed | `main.rs`, `run_in_namespace` (`namespace.rs:233-296`) | parses and validates, clones the shim, writes id maps and cgroup, installs signal handlers, sends the go-ahead, waits, cleans up |
| shim | `ChildContext::enter` (`namespace.rs:72-133`) | PID 1 of the container: waits for the go-ahead, confines itself, forks the command, relays signals, reaps |
| command | `exec_command` (`namespace.rs:138-155`) | lifts the signal mask and execs the user's program |

They interact through a pipe (one byte: go; end-of-file: abort), through signals
and `waitpid`, through the cgroup hierarchy under `/sys/fs/cgroup/boxed`, and
through an overlay scratch directory in the temporary directory. Several runs on
a host share the hierarchy, the temporary directory and the pids.

### Inventory

| component | state | operations | what makes it correct |
|---|---|---|---|
| container run, `namespace.rs` | control points of the three processes, ends of the pipe, steps in force, exit status | spawn, map, cgroup, signals, go-ahead, close, wait, teardown, release; read, confine, fork, relay, reap; exec | the command starts only after its whole setup; boxed returns only with the container gone, nothing of it left, and the right exit code; nobody waits for ever, and what the command leaves behind is reaped |
| supervision and signals, `process.rs` | handlers, masks, `CHILD_PID`, pending signals | install, forward, block, unblock, wait, reap | no signal ends boxed under a live container, none is lost on the way, none ends a wait, none hits a stranger, the command can be interrupted |
| cgroups, `cgroups.rs` | directories, controllers enabled, limits, members | validate, create, add_process, drop | a running container is under its limits and no others; no directory stays behind |
| overlay, `overlay.rs` | scratch directory, mount | setup, teardown | an upper layer is one run's own; the first layer wins; the directory goes last |
| rootfs, `rootfs.rs` | mount namespace, root, cwd | seven mount calls | no mount leaks to the host, the host's root is out of reach |
| id maps, `rootless.rs` | uid and gid map, setgroups | validate, write in order | the maps are written before the go-ahead; -1 is refused |
| capabilities, `capabilities.rs` | four sets | drop | only the retained ones are left, also after exec |
| seccomp, `seccomp.rs` | resolved profile, BPF program | from_file, resolve, build, install | the program decides as the profile says, first match first |
| command line, `main.rs` | flags | parse, validate | what can be known to be wrong costs no clone; the limits are those asked for |
| configuration directory, `config.rs` | a directory | create | a run without it ends at once; nothing reads it later |

What is hard: two processes that may each fail or be killed at any step and hold
each other's pipe ends; a PID 1, to which the kernel gives no default signal
actions; signals at every instant between handler, mask, fork and exec; cleanup
in `Drop`, which no error path names; pids that are given out again between the
reaping of a child and the removal of the directory named after it. The list,
line by line, is under "hazards" in `PROJECT.json`.

## The modules

| module | models |
|---|---|
| `ContainerRun` | one run: `namespace.rs`, and the waits of `process.rs` |
| `RunContract` | what a run promises its user; the abstract specification of `ContainerRun` |
| `MCContainerRun` | its instance |
| `ContainerRunProofs` | its theorems |
| `ContractProofs` | what follows from the contract alone |
| `Confinement` | successive runs with one pid, call by call: `rootless.rs`, `overlay.rs`, `rootfs.rs`, `capabilities.rs` |
| `MCConfinement` | its instance |
| `ConfinementProofs` | its theorems |
| `CommandLine` | what is checked before the clone and found wrong after it: `main.rs`, `config.rs`, the `--io-max` path of `cgroups.rs` |
| `MCCommandLine` | its instance |
| `CommandLineProofs` | its theorems |
| `SignalForwarding` | three processes and the signals between them: `process.rs`, at the points where `namespace.rs` calls it |
| `MCSignalForwarding` | its instance |
| `SignalProofs` | its theorems |
| `CgroupHierarchy` | several runs in one cgroup hierarchy: `cgroups.rs` |
| `PrivateLimits` | what a run's limits are to its own container; the abstract specification of `CgroupHierarchy` |
| `MCCgroupHierarchy` | its instance |
| `CgroupProofs` | its theorems |
| `SeccompFilter` | a profile, the BPF program made of it, and the kernel that runs it: `seccomp.rs` |
| `FilterPolicy` | a table of answers to system calls; the abstract specification of `SeccompFilter` |
| `MCSeccompFilter` | its instance |
| `SeccompProofs` | its theorems |

### ContainerRun

`boxed`, `shim` and `cmd` are program counters; each value is the call the
process makes next. `writers` is who holds the pipe's write end: both, after
`clone`, and the shim drops its copy first (`namespace.rs:80`). `applied`
is the set of setup steps in force, `cgroup` and `scratch` the run's two directories
(`unowned`: made by a `Cgroup::create` that failed later; `stuck`: its removal
was tried and failed). Every call followed by `?` may fail: in boxed it leaves the
setup closure for `close`, in the shim it ends the process with code 1. `KillBoxed`
and `KillShim` are enabled at every point. The end of the shim is the end of its
PID namespace, so `ShimDies` also ends the command. `orphan` is a process that the
command has left behind: PID 1 is its parent, and `ShimReapOrphan` takes its status, which
is not the command's, and goes on waiting (`process.rs:84`). An inherited ignored
SIGCHLD, under which the kernel reaps, and a profile whose default action is
`SCMP_ACT_ERRNO` are options of a run.

`ImplementsContract` is refinement: `RunContract` knows only the host process,
the container, the command's status, the exit code and what is held, and has no
pipe, no pid and no order of setup. It stands in the run for what the contract says
outright: that boxed returns with nothing held (`CgroupReleased`, `ScratchReleased`) and
returns 0 only for a command that exited 0 (`ZeroMeansSuccess`). The mutants that would break
these three are run against the contract.

Two properties say without fairness what the liveness properties rest on.
`NobodyWaitsInCircle`: whoever is blocked, boxed in its wait or the shim at the pipe or in its
own, has somebody on the way to release it. `StepsRunOut`: every step but the program's own
lowers `Left`, the number of calls and ends still to come, of which there are at most 35.

### SignalForwarding

The same three processes, with `target` (`CHILD_PID`), the number of
`installed` handlers, `blocked` masks and `pending` signals. `Signal` is what the
kernel does with a signal: held if blocked or handled, discarded at a PID 1 that
does neither, deadly elsewhere unless the program catches it. `owed` and
`discarded` are history: what the container has accepted and the command not yet
seen, and what PID 1 dropped; `stray` is what may have gone to a process that has
been given the pid in `CHILD_PID` after its reaping (`MayHitStranger`).
`OwedOnItsWay` says that what is owed is held by a live process that knows whom to send
it to: boxed with the shim's pid, or the shim behind its mask or with the command's. Ctrl-C is
such a signal too: before the fork the terminal's copies reach boxed and the shim only. Handlers are installed one at a time. A handler runs
whenever a signal is pending and unblocked, between any two steps. Failures and
kills other than by a signal are left to `ContainerRun`, but for a failed setup; so is
an inherited ignored SIGCHLD, under which the kernel reaps by itself.

### Confinement

`pc` is the next call: the three writes of `setup_mappings`, then what `enter` does in
the child (`config_fs` with the overlay and the seven mount calls, the loop of
`drop_capabilities`, no_new_privs, the filter, exec), then boxed's teardown. `c` is
the container: its maps, its four capability sets, its root, cwd and propagation.
`Accepts` is the kernel's rule for each call, taken from how the code relies on it and
marked external: which privilege it needs, and which earlier call. A call may fail
although the kernel would accept it ("outside": disk full, an image that is gone), and
fails if the kernel refuses it ("order"). `NeverOutOfOrder` says that the second never
happens: every failure has a cause outside, and none is of the code's own making.
`dirs`, `sealed` and `upper` are the scratch directory, entry by entry; they and
`onHost`, the mounts that have propagated, outlive a run, and `Again` is the next run
to which the kernel gives the same pid. Its predecessor's container may still be alive then:
that is how an upper directory may go from under a container whose boxed was
killed, a case `lost` excuses. What lies between the filter and exec, the fork and the
masks, is in `ContainerRun` and `SignalForwarding`.

Two things the model makes plain: at exec, for uid 0, the cut of the bounding set
adds nothing under no_new_privs to what the cut of the permitted set has done already, so it
is a second lock and not the one that holds; and `clone` with CLONE_NEWUSER makes the
tree a slave of the host's, so the overlay leaks only without `--rootless`.

### CommandLine

`pc` follows `main` from `create_config_dir` over the profile, `validate` and
`RootlessConfig::new` to the clone, and from there `Cgroup::create`, which parses and
resolves each `--io-max` again. A value is a record with what `parse_io_max` cuts it
into, `udev` is what each path of `/dev` is, and `UdevChange` may change it at any
time. `KernelTakes` and `AfterWrite` are the kernel's side of a write to `io.max`
(external): merged key by key, the later of two counts. A cpuset may be one the kernel takes,
`malformed`, which no kernel takes, or `refused`: a list of CPUs that this host has not.

`CHANGELOG.md:32-34` has malformed limits rejected before the container is cloned.
`TyposCostNoClone` holds of what boxed looks at before: the syntax of each `--io-max`, the
profile, the id. `validate` (`cgroups.rs:41-47`) looks at no other limit: a cpuset that is no
list is first looked at by the writes (`cgroups.rs:278-286`), and a 0, which parses, goes to a
kernel that refuses it, both with the child already cloned. `NeverTaken` names these
lines, and the run `malformed_limit` shows what one of them costs. `LateFailureIsTheHosts` says
that there are no others: without them, a run that fails after the clone does so for a
reason in the host, and at the value concerned.

### CgroupHierarchy

`Runs` share `enabled` (subtree_control), `dirs` and `limits`; `limits[p]` is the
set of pairs of a limit and the run that wrote it last. Each run has its
program counter and a pid, chosen at `Clone` among the free ones; a pid is
free as soon as its process has been reaped, which is before the `Drop`. `adopted` is
history: the runs whose `create_dir_all` found a directory. A pair is only ever
replaced by the next writer of the same limit, as in the kernel's files. The values of the
limits are left out: whose they are tells all the properties tell.

`ImplementsPrivateLimits` is refinement: in `PrivateLimits` a container starts with its
limits in force, all at once, and they are then what they are until its end, whatever other
runs do. There are no directories, controllers or pids, and no order of writes. What
the contract admits, and `cgroup_adopted` shows, is that further limits may be in force from the start.

`MalformedCostsNothing` is an *or* of two promises, that a malformed limit costs no clone and that
a failed setup leaves no cgroup, so that the state that violates it violates both: the
cpuset is refused when the child is there (`cgroups.rs:278`), and the `?` leaves `create` before
there is a `Cgroup` to drop.

### SeccompFilter

`phase` runs from `resolve`, in boxed, over `build` and `install`, in the shim, to
the kernel's `deciding` of each system call. `Resolve` is `from_file`; a profile is
a record with what serde keeps of it. `Initialize`, `Emit`, `NextRule` and
`Finish` are the loops of `build_filter`, `next` the rule and the number they are
at, and `origin` is history: the rule and number each pair of instructions
stands for. `Install` cuts the length and asks the kernel's `Accepts`; `RunLoad`,
`RunJump` and `RunReturn` execute the program, one instruction a step, for a
call `SysCall` has chosen. Without a profile the loop walks `DANGEROUS_SYSCALLS` and
falls through to ALLOW (`seccomp.rs:361-369`): the filter that `README.md:92` calls
"deny-by-default" is a deny list. `DecisionFollowsProfile` compares a decision with what
the profile as written says, `ProfileSays`, which knows no program.

`ImplementsPolicy` is refinement: in `FilterPolicy` a table has at most one answer for each
system call, a call is answered in one step, and a table with a gap can only be refused.
The loops, the cut and the BPF machine are steps that are not to be seen there.

## The runs

| run | checks | states (distinct) |
|---|---|---|
| `run_lifecycle` | a run from clone to return: the inductive invariant, who may start, end and clean up when, that nobody waits in a circle and that the steps run out, the contract, and `ChildReleased`, `RunEnds`, `OrphansReaped`: all options, failures, kills | 27816 |
| `run_command_init` | violated: the command as PID 1 under an ERRNO profile | |
| `signals` | the inductive invariant, whom a signal may end, who holds what is owed, `OnlyEarlyLoss`, `StrayOnlyAtTheEnd`, and `Reaches` | 40344 |
| `signals_lost` | violated: a signal before the shim's block is lost | |
| `signals_uid` | violated: SIGTERM and a command with another user id | |
| `cgroup_runs` | limits and directories of concurrent runs, and that to its container each is alone | 1.39 million |
| `cgroup_adopted` | violated: limits of an earlier run are in force | |
| `malformed_limit` | violated: a malformed cpuset costs a clone, and leaves a cgroup directory | |
| `confinement` | no call comes too early or too late; the container has the root, the capabilities and the layers it should, and nothing it was denied comes back; what stays on the host | 98570 |
| `overlay_leak` | violated: on a shared host root the overlay outlives its container | |
| `command_line` | what costs no clone, that a later failure is the host's, which limits are in force | 75633 |
| `seccomp` | that what runs is the profile's table, and when it is installed | 30287 |

The six violated runs show seven places where a document says one thing and the code does
another, `malformed_limit` two in one; each is described, with both lines, under "findings" in `PROJECT.json`.

### Bounds, and why they are enough

- `ContainerRun` has no bound on its behaviour: the program has no loop but the
  waits. `Codes` is {0, 1, 42}: success, the code of an internal error, and one
  that is neither. `Sigs` is {9, 31}: a kill from outside and the seccomp one.
- `SignalForwarding` installs two handlers, not three: signals do not look at each
  other, and two have a first, a last and a gap. Signals may come any number of
  times; the kernel keeps at most one of each pending.
- `Confinement` has three runs with one pid: the second may meet a container that is
  alive, and the third what both have left. Three layers have a first, a last and
  a middle; the capabilities are two that are retained, for the thirteen, and two that are
  dropped, in either order: the loop looks at one at a time, and only CAP_SETPCAP
  and CAP_SYS_ADMIN have a rule in the kernel that a call needs.
- `CommandLine` has up to two `--io-max` values for two paths and two disks: the
  same disk twice by one path or by two, a key once or twice in one value. u32::MAX is
  2 and u64::MAX is 3, so that a number fits neither, one, or both. Disks are
  interchangeable, and only invariants are checked.
- `CgroupHierarchy` has three runs on two pids: two runs at once and a third that gets a
  pid again while its former owner still has its Drop to come. Its flags are none, one
  limit, two limits of which the later may be refused, and one whose
  controller is not delegated. Runs and pids are interchangeable: symmetry is sound for the
  invariants, and for the refinement too, which is a property of single steps
  (`PrivateLimits` has no fairness) and treats all runs alike.

- `SeccompFilter` has three system calls, one of them in no table, and profiles of at
  most two rules of one or two names: enough for a call to be named twice, by
  one rule or by two, and not at all. The length has a width of 16 instead of
  65536, and `MaxInsns` is 13: programs of up to four names fit, one of five
  is too long by its true length, and with six to nine names the length is cut, to 1, 3, 5 and
  7, so that the cut falls on the gate and on pairs. The proofs hold for any width.

### Fairness

boxed, the shim and the command's own steps up to exec are weakly fair: the kernel
schedules every runnable process, and a blocked call (`read`, `waitpid`) is a
disabled action. A pending unblocked signal's handler is weakly fair for the same
reason. Nothing obliges a user to send a signal, a program to end or anybody to kill a
process. The liveness properties are therefore conditional: a run *whose command
is over* ends; a zombie is taken by a shim that looks, whether or not the command
ever ends; a signal *that was accepted* reaches the command unless the
container is over first.

## The proofs

Checked by TLAPS for all values of the constants. In each model the same plan: an inductive
invariant, named for its model (`RunInv`, `SignalInv`, `HierarchyInv`, `FilterInv`,
`ConfineInv`, `LineInv`), the theorem `Invariance`, and from it the rest.

`ContainerRunProofs`: from `Invariance` follow `TypeCorrect`, `SetupBeforeCommand`,
`ChildrenReaped`, `StatusReported`, `ZeroIsSuccess`, `CgroupIsReleased`,
`ScratchIsReleased`, `CleanupLast`, `NoDeadlock`, `StepsAreFinite` and the refinement
`Implements`. Assumptions: `Codes` are exit codes, `Sigs` are signal numbers.
`CommandOnlyAfterSetup` alone is not
inductive: nothing in it says that the byte in the pipe stands for the host's
steps. `RunInv` adds what each control point knows: `HostOrder` and `ShimOrder`
(what is in force when a process is about to make a given call), `Handshake` (a byte in
the pipe, or a shim past the read, means the host's steps are done; in a failed
setup nobody is past the read), `Lifetimes` (who outlives whom), `StatusChain` (where
the status is on its way) and `PipeEnds` (who can still hold a write end).
`NoDeadlock` needs the last: the shim at the pipe waits for boxed, and boxed in its wait
for the shim, and this is no circle only because the shim has given up the end it
inherited (`namespace.rs:80`) and boxed closes its own before it waits. `StepsAreFinite` is the
variant: `LeftStep` goes through the actions and finds `Left` lower after each.
Together they are `ChildReleased` and `RunEnds` without the clause that
somebody takes the steps there are, which is fairness and stays with TLC.

`ContractProofs`: `PromiseHolds` and `LivesOnce` are proved of `RunContract`, so that with
`Implements` they hold of a run: a boxed that has returned leaves no container and no
directory, its 0 is the command's, and a container lives once.

`CgroupProofs`: `LimitsHold`, `NoOtherLimits`,
`NoStrayDirectory` and the refinement `Isolation`, for any set of runs, pids, flags and
delegated controllers. The core is that pids
are distinct while held (`PidsDistinct`): a late Drop may then find the directory
of a run that has the pid now, but a directory with a live member is busy, and a
directory without one is not yet needed (`Written`, `CgroupStage`). For `Isolation`
the controllers matter as well: a limit is in force if its controller is enabled, and
`EnabledFirst` says that a run past `enable` has all it needs, forever, as nobody
disables one. The lemma `ForceKept` is what another run's step leaves of a live container's limits:
everything; `ForceAtStart` is what the container finds.

`SeccompProofs`: `FollowsProfile`, `WholeProgram`,
`FitsIsInstalled` and the refinement `Implements`, for any profile, any table of numbers, any
deny list and any even
width of the length above `MaxInsns`. The argument: the pairs are the numbers met by the loops so far, in
the loops' order (`Layout`, `InOrder`), and all of them at the end (`Complete`). A
machine at the m-th pair has therefore compared the call with every number before
it (`Machine`), so the first pair that matches belongs to the first rule that has
the call. `WholeProgram` is a matter of parity: the program has an odd length and the
width is even, so a prefix has odd length too and ends with the gate's load, the gate's
return, which the gate's jump passes, or the first half of a pair, and
the kernel refuses all three. For `Implements`, a profile says at most one thing of a call
(`SaysOnce`) and, if it can be resolved, at least one (`SaysSomething`: of the rules about
the call there is a first, from the well-foundedness of < on the naturals).

`SignalProofs`: `TypeCorrect`, `NoOrphan`, `CommandListens`,
`WaitsToTheEnd`, `OwedIsHeld`, `LossIsEarly` and `StrayIsLate`, for any non-empty sequence of forwarded
signals, coming in any order and number. None of the properties says where the processes are
with respect to one another, which is what decides whom a signal kills. `SignalInv` adds it:
`Together` (nobody is past the pipe before the go-ahead, and boxed is past its wait exactly when
the shim has been reaped), `Family` (the same for the shim and the command), `Handlers`
(who waits has all its handlers), `Masks` (who holds back what) and `Route` (who has a handler
knows whom to forward to; a shim short of its block has taken nothing in). `OwedOnItsWay` is
a conjunct of its own, being inductive only with all the others: a debt changes hands in
every handler, and `ShimHolds` and `BoxedHolds` show that it arrives where it is sent. It is
`Reaches` without fairness: what is owed is always one enabled handler nearer or further from
the command, never nowhere.

`ConfinementProofs`: `TypeCorrect`, `OrderIsRight`, `IsContained`,
`CapsConfined`, `LastLayerShows`, `MountsStayInside`, `FilesAreOwn` and the action property
`OneWay`, for any finite number of
layers and runs and any set of capabilities with the retained ones and the one that a mount needs.
`NeverOutOfOrder` alone says nothing of what the next call needs. `ConfineInv` says it, in one
conjunct per subsystem: `MapsWritten`, `DirsMade`, `RootMoved`, `CapsDropped`, `Locked`,
`LayersListed`. The lemma `Accepted` is the core: under `ConfineInv` the kernel accepts
whatever call is next. `FilesAccounted` carries the upper directory from run to run, and
`LastLayerFirst` needs that every non-empty set of layers has a last one. `OneWay` is about
single steps: most calls take something away by what they are, but exec computes
the sets anew, and adds nothing only because of what `CapsDropped` and `Locked` say of them
by then, and pivot_root and detach never meet a root that is new already (`RootMoved`).

`CommandLineProofs`: `Invariance`, and `TypeCorrect`, `TyposAreEarly`, `LateFailures`,
`SameDevice` and `LimitsAreAsked`, for any command lines with any number of values of any length,
any paths and disks, and any two widths of which the first is not the greater. `LineInv` says how
far each of the two loops has come (`Progress`), what the steps passed have ruled out
(`Checked`), that a path means what was seen at it unless it is among those that have changed
(`Known`), and that the limits in the kernel are those of the values written *so far*
(`InForce`), of which `LimitsAsAsked` is the case where all have been written. The lemma
`WriteEffect` says what one write leaves: of the pairs with a key, the last counts.

Model-checked only: liveness (`ChildReleased`, `RunEnds`, `OrphansReaped`, `Reaches`),
which is out of the prover's reach under fairness, and of course what the violated runs
refute. All other properties of the runs, in all six models, are proved. TLC checks the inductive invariants
themselves in four of the six models; those of `Confinement` and `CommandLine` are stated
in the proof modules, the latter with sets over all numbers, which TLC cannot enumerate.

## Not modelled

Every component of the inventory is modelled, and every invariant proved. What
could be added is a finer grain, not another part: in `Confinement` two runs with one pid
overlap only where a container outlives its boxed, and of the failures in
`ContainerRun` only a failed setup is met by the signals of `SignalForwarding`.

Left out for good: clap and the wording of errors, logging, the parsing of
`--io-max` character by character, names of layers with a `:` or a `,` (which overlayfs would take for
separators), the numbers behind system call names, the tests and the build. How often a command
sees one Ctrl-C is not counted: pending signals are sets, as in the kernel, and
the copies that arrive at different times are not told apart.
