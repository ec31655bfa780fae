--------------------------- MODULE ContainerRun ---------------------------
(***************************************************************************)
(* One `boxed run`: src/src/namespace.rs, with the waits of process.rs.    *)
(*                                                                         *)
(*   boxed   the host process: run_in_namespace                            *)
(*   shim    the process made by clone(): ChildContext::enter, PID 1 of    *)
(*           the container's PID namespace                                 *)
(*   cmd     the shim's fork: exec_command, then the user's program        *)
(*                                                                         *)
(* boxed and the shim synchronise over a pipe: the shim blocks in read()   *)
(* until boxed has finished the setup only the host side can do.  One byte *)
(* means go; end-of-file means boxed gave up.  Every fallible call may     *)
(* fail, and either process may be killed at any moment.                   *)
(***************************************************************************)
EXTENDS Integers

CONSTANTS Codes,    \* exit codes the user's program may end with
          Sigs      \* signals that may kill a process

ASSUME CodesAssumption == Codes \subseteq 0..255
ASSUME SigsAssumption  == Sigs \subseteq 1..64

VARIABLES opts,         \* the command line, fixed for the run
          boxed,        \* control state of run_in_namespace
          shim,         \* control state of ChildContext::enter
          cmd,          \* control state of the forked command
          orphan,       \* a process the command has left to PID 1
          writers,      \* the processes holding the sync pipe's write end
          pipe,         \* "go" while the go-ahead byte is in the sync pipe
          applied,      \* the setup and confinement steps in force
          cgroup,       \* the run's cgroup directory
          scratch,      \* the run's overlay scratch directory
          setup,        \* result of the parent-side setup block, so far
          exitCode,     \* the exit code boxed has settled on, or NotYet
          shimStatus,   \* how the shim ended
          cmdStatus     \* how the command ended by itself

vars == <<opts, boxed, shim, cmd, orphan, writers, pipe, applied, cgroup,
          scratch, setup, exitCode, shimStatus, cmdStatus>>

(***************************************************************************)
(* Data.                                                                   *)
(***************************************************************************)
\* What decides control flow before the run starts, as a set of flags; clap
\* makes --rootfs and --image exclusive.  "errno" is a --seccomp-profile whose
\* default action is SCMP_ACT_ERRNO: the filter then answers every system call
\* the profile does not name with SECCOMP_RET_ERRNO and errno 0, that is, with
\* success.  Such a profile cannot name clone, wait4 or rt_*: syscall_number
\* knows none of them.  "nochld" is no flag: it is an ignored SIGCHLD inherited
\* by boxed; the kernel then reaps children itself and waitpid ends in ECHILD.
Options == {o \in SUBSET {"rootless", "limits", "rootfs", "image", "errno",
                          "nochld"} : ~ {"rootfs", "image"} \subseteq o}

NotYet   == -1
NoStatus == [how |-> "none", n |-> 0]
Exited(c)   == [how |-> "exited", n |-> c]
Signaled(s) == [how |-> "signaled", n |-> s]
Status == [how : {"exited"}, n : 0..255] \cup [how : {"signaled"}, n : 1..64]

BoxedPC == {"spawn", "mapping", "create", "join", "signals", "go", "close",
            "abort", "wait", "teardown", "release", "exited", "killed"}
ShimPC  == {"none", "closeCopy", "read", "hostname", "overlay", "root", "caps",
            "nnp", "filter", "args", "block", "fork", "relay", "reap",
            "exec", "command", "zombie", "reaped"}
CmdPC   == {"none", "forked", "running", "zombie", "reaped"}

ParentSteps == {"idmap", "cgroup", "signals"}
ChildSteps  == {"hostname", "overlay", "root", "caps", "nnp", "filter",
                "args", "block", "relay"}

BoxedAlive == boxed \notin {"exited", "killed"}
ShimAlive  == shim \notin {"none", "zombie", "reaped"}
CmdAlive   == cmd \in {"forked", "running"}

\* process.rs exit_code: the shell convention.  waitpid without options
\* reports no stopped or continued child, so its third arm is never taken.
ExitCode(st) == IF st.how = "signaled" THEN 128 + st.n ELSE st.n

\* The exit code of an Err returned to spawn_child's closure, or to main.
ErrCode == 1

----------------------------------------------------------------------------
(***************************************************************************)
(* The host side: run_in_namespace.                                        *)
(***************************************************************************)
\* pipe2 and clone.  The read end moves into the closure, so the parent drops
\* it; clone copies the write end into the shim.
BoxedSpawn ==
    /\ boxed = "spawn"
    /\ \/ /\ boxed' = "mapping"
          /\ shim' = "closeCopy"
          /\ writers' = {"boxed", "shim"}
          /\ UNCHANGED exitCode
       \/ /\ boxed' = "exited"
          /\ exitCode' = ErrCode
          /\ UNCHANGED <<shim, writers>>
    /\ UNCHANGED <<opts, orphan, cmd, pipe, applied, cgroup, scratch, setup,
                   shimStatus, cmdStatus>>

\* The first `?` to fail leaves the setup closure with its error.
SetupFails == setup' = "err" /\ boxed' = "close"

SetupGoesOn(next) == setup' = "ok" /\ boxed' = next

\* RootlessConfig::setup_mappings: nothing to do unless --rootless.
BoxedMap ==
    /\ boxed = "mapping"
    /\ \/ /\ SetupGoesOn("create")
          /\ applied' = IF "rootless" \in opts THEN applied \cup {"idmap"}
                                         ELSE applied
       \/ /\ "rootless" \in opts
          /\ SetupFails
          /\ UNCHANGED applied
    /\ UNCHANGED <<opts, orphan, shim, cmd, writers, pipe, cgroup, scratch,
                   exitCode, shimStatus, cmdStatus>>

\* setup_cgroup, first half: Cgroup::create.  It may fail before the mkdir, or
\* after it; then no Cgroup value exists whose Drop would remove the directory.
BoxedCreateCgroup ==
    /\ boxed = "create"
    /\ \/ /\ "limits" \notin opts
          /\ SetupGoesOn("signals")
          /\ UNCHANGED cgroup
       \/ /\ "limits" \in opts
          /\ SetupGoesOn("join")
          /\ cgroup' = "owned"
       \/ /\ "limits" \in opts
          /\ SetupFails
          /\ cgroup' \in {"absent", "unowned"}
    /\ UNCHANGED <<opts, orphan, shim, cmd, writers, pipe, applied, scratch,
                   exitCode, shimStatus, cmdStatus>>

\* rmdir succeeds only on a cgroup with no live task; Drop ignores its error.
TasksInCgroup == "cgroup" \in applied /\ (ShimAlive \/ CmdAlive)
DropCgroup ==
    cgroup' = IF cgroup = "owned" /\ ~TasksInCgroup THEN "absent" ELSE cgroup

\* setup_cgroup, second half: add_process.  On failure the local Cgroup is
\* dropped by the `?`, before the shim has joined anything.
BoxedJoinCgroup ==
    /\ boxed = "join"
    /\ \/ /\ SetupGoesOn("signals")
          /\ applied' = applied \cup {"cgroup"}
          /\ UNCHANGED cgroup
       \/ /\ SetupFails
          /\ DropCgroup
          /\ UNCHANGED applied
    /\ UNCHANGED <<opts, orphan, shim, cmd, writers, pipe, scratch, exitCode,
                   shimStatus, cmdStatus>>

\* setup_signals: from here SIGINT, SIGTERM and SIGHUP no longer end boxed.
BoxedSignals ==
    /\ boxed = "signals"
    /\ \/ /\ SetupGoesOn("go")
          /\ applied' = applied \cup {"signals"}
       \/ /\ SetupFails
          /\ UNCHANGED applied
    /\ UNCHANGED <<opts, orphan, shim, cmd, writers, pipe, cgroup, scratch,
                   exitCode, shimStatus, cmdStatus>>

\* The go-ahead byte.  With the shim gone no read end is left: EPIPE.
BoxedGo ==
    /\ boxed = "go"
    /\ \/ /\ ShimAlive
          /\ SetupGoesOn("close")
          /\ pipe' = "go"
       \/ /\ ~ShimAlive
          /\ SetupFails
          /\ UNCHANGED pipe
    /\ UNCHANGED <<opts, orphan, shim, cmd, writers, applied, cgroup, scratch,
                   exitCode, shimStatus, cmdStatus>>

\* mutant: the setup error is returned at once, the child is left to itself
ReturnAtOnce == IF setup = "err" THEN "release" ELSE "wait"
\* mutant: a failed setup is tried again
TryAgain     == IF setup = "err" THEN "mapping" ELSE "wait"
AfterClose   == IF setup = "err" THEN "abort" ELSE "wait"

\* mutant: the parent keeps its write end open while it waits
KeepWriteEnd == writers
DropWriteEnd == writers \ {"boxed"}

\* drop(write_fd): cleanup after the go-ahead, the abort signal otherwise.
BoxedClose ==
    /\ boxed = "close"
    /\ writers' = DropWriteEnd
    /\ boxed' = AfterClose
    /\ UNCHANGED <<opts, orphan, shim, cmd, pipe, applied, cgroup, scratch,
                   setup, exitCode, shimStatus, cmdStatus>>

\* mutant: an error of the wait is reported as success
WaitErrIsZero == IF shim = "zombie" THEN ExitCode(shimStatus) ELSE 0
\* wait_for_child blocks while the shim lives.  A shim the kernel has reaped
\* itself leaves ECHILD, an Err.
WaitResult == IF shim = "zombie" THEN ExitCode(shimStatus) ELSE ErrCode

\* The abort path: reap the shim, whatever the wait says return the setup's Err.
BoxedAbort ==
    /\ boxed = "abort"
    /\ shim \in {"zombie", "reaped"}
    /\ shim' = "reaped"
    /\ exitCode' = ErrCode
    /\ boxed' = "release"
    /\ UNCHANGED <<opts, orphan, cmd, writers, pipe, applied, cgroup, scratch,
                   setup, shimStatus, cmdStatus>>

\* mutant: the scratch directory is removed without waiting for the container
MayStopWaitingNow == shim # "none"
MayStopWaiting    == shim \in {"zombie", "reaped"}

BoxedWait ==
    /\ boxed = "wait"
    /\ MayStopWaiting
    /\ shim' = IF shim = "zombie" THEN "reaped" ELSE shim
    /\ exitCode' = WaitResult
    /\ boxed' = "teardown"
    /\ UNCHANGED <<opts, orphan, cmd, writers, pipe, applied, cgroup, scratch,
                   setup, shimStatus, cmdStatus>>

\* mutant: the scratch directory is removed only after a successful run
TeardownIfOk  == "image" \in opts /\ exitCode = 0
NeedsTeardown == "image" \in opts

\* overlay::teardown; a failure is logged, and leaves the directory behind.
BoxedTeardown ==
    /\ boxed = "teardown"
    /\ \/ ~NeedsTeardown /\ UNCHANGED scratch
       \/ /\ NeedsTeardown
          /\ scratch' \in IF scratch = "made" THEN {"absent", "stuck"}
                                              ELSE {scratch}
    /\ boxed' = "release"
    /\ UNCHANGED <<opts, orphan, shim, cmd, writers, pipe, applied, cgroup,
                   setup, exitCode, shimStatus, cmdStatus>>

\* run_in_namespace returns: _cgroup is dropped, then main exits.
BoxedRelease ==
    /\ boxed = "release"
    /\ DropCgroup
    /\ boxed' = "exited"
    /\ exitCode' = IF setup = "err" THEN ErrCode ELSE exitCode
    /\ UNCHANGED <<opts, orphan, shim, cmd, writers, pipe, applied, scratch,
                   setup, shimStatus, cmdStatus>>

----------------------------------------------------------------------------
(***************************************************************************)
(* The container side: ChildContext::enter and exec_command.               *)
(***************************************************************************)
\* A dead shim waits to be reaped, by boxed or, with boxed gone, by the host's
\* init; with SIGCHLD ignored the kernel drops it at once.
Autoreaped == "nochld" \in opts \/ ~BoxedAlive

\* The end of PID 1 is the end of its namespace: the kernel kills and reaps
\* whatever else runs there, and closes the shim's descriptors.
ShimDies(st) ==
    /\ shim' = IF Autoreaped THEN "reaped" ELSE "zombie"
    /\ shimStatus' = st
    /\ writers' = writers \ {"shim"}
    /\ cmd' = IF cmd = "none" THEN "none" ELSE "reaped"
    /\ orphan' = "none"

\* An Err from enter() is logged and becomes the shim's exit code.
ShimFails == ShimDies(Exited(ErrCode))

ShimStays == UNCHANGED <<writers, cmd, orphan, shimStatus>>

\* mutant: the child keeps the write end clone() gave it
KeepInheritedEnd == writers
DropInheritedEnd == writers \ {"shim"}

ShimCloseCopy ==
    /\ shim = "closeCopy"
    /\ writers' = DropInheritedEnd
    /\ shim' = "read"
    /\ UNCHANGED <<opts, orphan, boxed, cmd, pipe, applied, cgroup, scratch,
                   setup, exitCode, shimStatus, cmdStatus>>

\* mutant: a read of 0 bytes is taken for the go-ahead
AnyReadIsGo    == shim' = "hostname" /\ ShimStays /\ UNCHANGED pipe
\* read returned 0: every write end is closed, boxed gave up or died.
EndOfFileAborts == ShimFails /\ UNCHANGED pipe

\* read blocks until there is a byte or no writer is left; it may also fail.
ShimRead ==
    /\ shim = "read"
    /\ pipe = "go" \/ writers = {}
    /\ \/ pipe = "go" /\ pipe' = "empty" /\ shim' = "hostname" /\ ShimStays
       \/ pipe = "empty" /\ EndOfFileAborts
       \/ ShimFails /\ UNCHANGED pipe
    /\ UNCHANGED <<opts, boxed, applied, cgroup, scratch, setup, exitCode,
                   cmdStatus>>

\* A call of enter() followed by `?`: it takes effect and the shim goes on, or
\* the shim ends.
Confine(step, next) ==
    /\ shim = step
    /\ \/ /\ applied' = applied \cup {step}
          /\ shim' = next
          /\ ShimStays
       \/ ShimFails /\ UNCHANGED applied
    /\ UNCHANGED <<opts, boxed, pipe, cgroup, setup, exitCode, cmdStatus>>

\* config_fs: with neither --image nor --rootfs the filesystem stays as it is.
ConfigFs == IF "image" \in opts THEN "overlay"
            ELSE IF "rootfs" \in opts THEN "root" ELSE "caps"

ShimHostname == Confine("hostname", ConfigFs) /\ UNCHANGED scratch

\* overlay::setup.  It may fail before the scratch directory is made, while it
\* is being made, or in the mount that follows.
ShimOverlay ==
    /\ Confine("overlay", "root")
    /\ scratch' \in IF shim' = "root" THEN {"made"} ELSE {"absent", "made"}

ShimRoot   == Confine("root", "caps")   /\ UNCHANGED scratch
ShimCaps   == Confine("caps", "nnp")    /\ UNCHANGED scratch
ShimNnp    == Confine("nnp", "filter")  /\ UNCHANGED scratch
ShimFilter == Confine("filter", "args") /\ UNCHANGED scratch
ShimArgs   == Confine("args", "block")  /\ UNCHANGED scratch

\* block_forwarded_signals.  Under an ERRNO profile the call is answered with 0
\* and nothing is blocked.
ShimBlock ==
    /\ shim = "block"
    /\ \/ /\ applied' = IF "errno" \in opts THEN applied ELSE applied \cup {"block"}
          /\ shim' = "fork"
          /\ ShimStays
       \/ "errno" \notin opts /\ ShimFails /\ UNCHANGED applied
    /\ UNCHANGED <<opts, boxed, pipe, cgroup, scratch, setup, exitCode,
                   cmdStatus>>

\* fork().  Under an ERRNO profile clone is answered with 0, which the shim reads
\* as "I am the child": it runs exec_command itself, as PID 1.
ShimFork ==
    /\ shim = "fork"
    /\ \/ /\ "errno" \notin opts
          /\ shim' = "relay"
          /\ cmd' = "forked"
          /\ UNCHANGED <<writers, orphan, shimStatus>>
       \/ "errno" \notin opts /\ ShimFails
       \/ "errno" \in opts /\ shim' = "exec" /\ ShimStays
    /\ UNCHANGED <<opts, boxed, pipe, applied, cgroup, scratch, setup,
                   exitCode, cmdStatus>>

\* setup_signal_forwarding and unblock_forwarded_signals in the shim: a failure
\* ends the container with the command already running.
ShimRelay == Confine("relay", "reap") /\ UNCHANGED scratch

\* mutant: a command killed by a signal is reported by the bare number
SignalAsCode(st) == st.n
\* enter() returns Ok(code); the kernel keeps its low byte.
ShimExitCode(st) == ExitCode(st) % 256

\* reap_until_exit: the tracked child's status, or ECHILD once no child is left.
ShimReap ==
    /\ shim = "reap"
    /\ \/ cmd = "zombie" /\ ShimDies(Exited(ShimExitCode(cmdStatus)))
       \/ cmd = "reaped" /\ orphan = "none" /\ ShimFails
    /\ UNCHANGED <<opts, boxed, pipe, applied, cgroup, scratch, setup,
                   exitCode, cmdStatus>>

\* mutant: waitpid for the tracked child alone
OnlyTracked == cmd = "zombie"
\* waitpid(-1) returns whichever child has ended.
AnyChild    == orphan = "zombie"

\* A child that is not the tracked one: its status is dropped, the loop goes on.
ShimReapOrphan ==
    /\ shim = "reap" /\ orphan = "zombie"
    /\ AnyChild
    /\ orphan' = "none"
    /\ UNCHANGED <<opts, boxed, shim, cmd, writers, pipe, applied, cgroup,
                   scratch, setup, exitCode, shimStatus, cmdStatus>>

----------------------------------------------------------------------------
\* The forked child's own end, and the shim's zombie to reap.
CmdEnds(st) ==
    /\ cmd' = IF "nochld" \in opts THEN "reaped" ELSE "zombie"
    /\ cmdStatus' = st
    /\ UNCHANGED <<opts, orphan, boxed, shim, writers, pipe, applied, cgroup,
                   scratch, setup, exitCode, shimStatus>>

\* exec_command: unblock the signals and exec; either failing is _exit(127).
CmdExec ==
    /\ cmd = "forked"
    /\ \/ /\ cmd' = "running"
          /\ UNCHANGED <<opts, orphan, boxed, shim, writers, pipe, applied,
                         cgroup, scratch, setup, exitCode, shimStatus,
                         cmdStatus>>
       \/ CmdEnds(Exited(127))

\* The user's program exits, or a signal ends it.
CmdExits    == cmd = "running" /\ \E c \in Codes : CmdEnds(Exited(c))
CmdSignaled == CmdAlive /\ \E s \in Sigs : CmdEnds(Signaled(s))

\* The user's program leaves a process behind, at once or by ending: PID 1 is its
\* parent then.  It ends by itself or is killed.
CmdLeavesOrphan ==
    /\ cmd = "running" /\ orphan = "none"
    /\ orphan' = "alive"
    /\ UNCHANGED <<opts, boxed, shim, cmd, writers, pipe, applied, cgroup,
                   scratch, setup, exitCode, shimStatus, cmdStatus>>

OrphanEnds ==
    /\ orphan = "alive"
    /\ orphan' = IF "nochld" \in opts THEN "none" ELSE "zombie"
    /\ UNCHANGED <<opts, boxed, shim, cmd, writers, pipe, applied, cgroup,
                   scratch, setup, exitCode, shimStatus, cmdStatus>>

\* The command's end, where the shim itself became the command.
InitCommandEnds(st) ==
    /\ ShimDies(st)
    /\ cmdStatus' = st
    /\ UNCHANGED <<opts, boxed, pipe, applied, cgroup, scratch, setup,
                   exitCode>>

InitExec ==
    /\ shim = "exec"
    /\ \/ /\ shim' = "command"
          /\ UNCHANGED <<opts, orphan, boxed, cmd, writers, pipe, applied,
                         cgroup, scratch, setup, exitCode, shimStatus,
                         cmdStatus>>
       \/ InitCommandEnds(Exited(127))

InitExits == shim = "command" /\ \E c \in Codes : InitCommandEnds(Exited(c))

----------------------------------------------------------------------------
(***************************************************************************)
(* The environment, and the specification.                                 *)
(***************************************************************************)
\* SIGKILL at any time, or a signal boxed has no handler for.
KillBoxed ==
    /\ BoxedAlive
    /\ boxed' = "killed"
    /\ writers' = writers \ {"boxed"}
    /\ shim' = IF shim = "zombie" THEN "reaped" ELSE shim
    /\ UNCHANGED <<opts, orphan, cmd, pipe, applied, cgroup, scratch, setup,
                   exitCode, shimStatus, cmdStatus>>

\* SIGKILL from the host, the OOM killer, or SIGSYS from a killing profile.
KillShim ==
    /\ ShimAlive
    /\ \E s \in Sigs : ShimDies(Signaled(s))
    /\ UNCHANGED <<opts, boxed, pipe, applied, cgroup, scratch, setup,
                   exitCode, cmdStatus>>

\* Nothing is left to happen: boxed is over and the container is dead.
Finished ==
    /\ ~BoxedAlive /\ ~ShimAlive /\ ~CmdAlive
    /\ UNCHANGED vars

Init ==
    /\ opts \in Options
    /\ boxed = "spawn"
    /\ shim = "none"
    /\ cmd = "none"
    /\ orphan = "none"
    /\ writers = {}
    /\ pipe = "empty"
    /\ applied = {}
    /\ cgroup = "absent"
    /\ scratch = "absent"
    /\ setup = "ok"
    /\ exitCode = NotYet
    /\ shimStatus = NoStatus
    /\ cmdStatus = NoStatus

BoxedStep ==
    \/ BoxedSpawn \/ BoxedMap \/ BoxedCreateCgroup \/ BoxedJoinCgroup
    \/ BoxedSignals \/ BoxedGo \/ BoxedClose \/ BoxedAbort \/ BoxedWait
    \/ BoxedTeardown \/ BoxedRelease

ShimStep ==
    \/ ShimCloseCopy \/ ShimRead \/ ShimHostname \/ ShimOverlay \/ ShimRoot
    \/ ShimCaps \/ ShimNnp \/ ShimFilter \/ ShimArgs \/ ShimBlock \/ ShimFork
    \/ ShimRelay \/ ShimReap \/ ShimReapOrphan

\* The user's program and whoever kills processes: never obliged to act.
Environment ==
    \/ CmdExits \/ CmdSignaled \/ CmdLeavesOrphan \/ OrphanEnds \/ InitExits
    \/ KillBoxed \/ KillShim \/ Finished

Next == BoxedStep \/ ShimStep \/ CmdExec \/ InitExec \/ Environment

Fairness ==
    /\ WF_vars(BoxedStep)
    /\ WF_vars(ShimStep)
    /\ WF_vars(CmdExec)
    /\ WF_vars(InitExec)

Spec == Init /\ [][Next]_vars /\ Fairness

----------------------------------------------------------------------------
(***************************************************************************)
(* Properties.                                                             *)
(***************************************************************************)
TypeOK ==
    /\ opts \in Options
    /\ boxed \in BoxedPC
    /\ shim \in ShimPC
    /\ cmd \in CmdPC
    /\ orphan \in {"none", "alive", "zombie"}
    /\ writers \subseteq {"boxed", "shim"}
    /\ pipe \in {"empty", "go"}
    /\ applied \subseteq ParentSteps \cup ChildSteps
    /\ cgroup \in {"absent", "owned", "unowned"}
    /\ scratch \in {"absent", "made", "stuck"}
    /\ setup \in {"ok", "err"}
    /\ exitCode \in {NotYet} \cup 0..255
    /\ shimStatus \in {NoStatus} \cup Status
    /\ cmdStatus \in {NoStatus} \cup Status

\* A process has been created for the user's command, or has become it.
Started == cmd # "none" \/ shim \in {"exec", "command"}

ContainerDead == ~ShimAlive /\ ~CmdAlive /\ orphan # "alive"

\* What must be in force before the user's program may run.
Required ==
    {"signals", "hostname", "caps", "nnp", "filter"}
        \cup (IF "rootless" \in opts THEN {"idmap"} ELSE {})
        \cup (IF "limits" \in opts THEN {"cgroup"} ELSE {})
        \cup (IF opts \cap {"rootfs", "image"} # {} THEN {"root"} ELSE {})
        \cup (IF "image" \in opts THEN {"overlay"} ELSE {})

\* The user's command never exists without every step of its setup, the host's
\* (id maps, cgroup, signal handlers) as well as the container's, whatever
\* fails or dies on the way: an aborted setup must not look like a go-ahead.
CommandOnlyAfterSetup == Started => Required \subseteq applied

\* boxed returns only once it has waited for its container: every error path
\* reaps the child, and with it the whole PID namespace is gone, the processes
\* that the command has left included.
NoLeakedChild ==
    boxed = "exited" =>
        shim \in {"none", "reaped"} /\ cmd \in {"none", "reaped"} /\ orphan = "none"

\* The exit code travels from the command through waitpid in the shim, the
\* shim's own exit and waitpid in boxed: it must arrive as the shell convention
\* has it, and a shim that was killed is reported as killed.  With SIGCHLD
\* ignored there is no status to report.
ReportedStatus ==
    boxed = "exited" /\ setup = "ok" /\ "nochld" \notin opts =>
        /\ shimStatus.how = "signaled" => exitCode = 128 + shimStatus.n
        /\ shimStatus.how = "exited" /\ "relay" \in applied =>
                exitCode = ExitCode(cmdStatus)

\* boxed exits 0 only if the command ran and exited 0: no failure of the setup,
\* of the waits or of either process is ever reported as success.
ZeroMeansSuccess ==
    boxed = "exited" /\ exitCode = 0 => cmdStatus = Exited(0)

\* When boxed returns, the cgroup it owned is gone: rmdir came after the last
\* task left, on the success path and on every error path.
CgroupReleased == boxed = "exited" => cgroup # "owned"

\* When boxed returns, the overlay scratch directory is gone, or its removal was
\* tried and failed.  The abort path has no teardown: it relies on a child that
\* was never told to go.
ScratchReleased == boxed = "exited" => scratch # "made"

\* The run's directories are never taken from under a live container.
CleanupAfterContainer ==
    [][ /\ scratch = "made" /\ scratch' # "made" => ContainerDead
        /\ cgroup = "owned" /\ cgroup' # "owned" =>
               ContainerDead \/ "cgroup" \notin applied ]_vars

\* A child blocked on the sync pipe is always released, by the go-ahead or by
\* end-of-file, even if boxed fails or dies before writing.
ChildReleased == shim = "read" ~> shim # "read"

\* A run whose setup failed, or whose command or container is over, ends.
RunEnds ==
    setup = "err" \/ cmd = "zombie" \/ (boxed = "wait" /\ ~ShimAlive) ~> ~BoxedAlive

\* PID 1 inherits what the command leaves behind: a zombie never stays for longer
\* than the shim needs to look, however long the command runs.
OrphansReaped == orphan = "zombie" ~> orphan # "zombie"

\* Where a call blocks: the waits for the shim; the read of a pipe with a writer
\* and no byte; the shim's wait for a child while none has ended.
BoxedWaits == boxed \in {"abort", "wait"} /\ ShimAlive
ShimAtPipe == shim = "read" /\ pipe = "empty" /\ writers # {}
ShimAtReap ==
    /\ shim = "reap" /\ cmd # "zombie" /\ orphan # "zombie"
    /\ ~ (cmd = "reaped" /\ orphan = "none")

\* Nobody waits for who waits for him: a child at the pipe has a boxed that is on
\* its way to the write or the close, and one at the wait a process of the user's
\* that waits for nobody.  With StepsRunOut this is why a run ends.
NobodyWaitsInCircle ==
    /\ ShimAtPipe => BoxedAlive /\ ~BoxedWaits
    /\ ShimAtReap => CmdAlive \/ orphan = "alive"

\* How much is left to do at each control point; every call is made at most once.
BoxedLeft == [spawn |-> 12, mapping |-> 11, create |-> 10, join |-> 9,
              signals |-> 8, go |-> 7, close |-> 6, abort |-> 4, wait |-> 4,
              teardown |-> 3, release |-> 2, exited |-> 0, killed |-> 0]
ShimLeft  == [none |-> 19, closeCopy |-> 17, read |-> 16, hostname |-> 15,
              overlay |-> 14, root |-> 13, caps |-> 12, nnp |-> 11, filter |-> 10,
              args |-> 9, block |-> 8, fork |-> 7, relay |-> 6, reap |-> 5,
              exec |-> 6, command |-> 5, zombie |-> 1, reaped |-> 0]
CmdLeft    == [none |-> 4, forked |-> 3, running |-> 2, zombie |-> 1, reaped |-> 0]
OrphanLeft == [alive |-> 2, zombie |-> 1, none |-> 0]
Left == BoxedLeft[boxed] + ShimLeft[shim] + CmdLeft[cmd] + OrphanLeft[orphan]

\* No step of a run is ever made twice, whatever fails or dies: but for the user's
\* program, which may leave process after process, a run is over after 35 steps.
StepsRunOut == [][Left' < Left \/ CmdLeavesOrphan]_vars

\* CHANGELOG.md: "The container command now runs under a minimal init shim
\* instead of being PID 1 itself."
CommandNeverInit == shim # "command"

----------------------------------------------------------------------------
(***************************************************************************)
(* The inductive invariant behind the safety properties.                   *)
(***************************************************************************)
\* The parent's share of Required.
HostSteps ==
    {"signals"} \cup (IF "rootless" \in opts THEN {"idmap"} ELSE {})
                \cup (IF "limits" \in opts THEN {"cgroup"} ELSE {})

\* Each control point of boxed knows the setup before it done.
HostOrder ==
    /\ "rootless" \in opts /\ boxed \in {"create", "join", "signals", "go"}
           => "idmap" \in applied
    /\ "limits" \in opts /\ boxed \in {"signals", "go"} => "cgroup" \in applied
    /\ boxed = "go" => "signals" \in applied

SettingUp == boxed \in {"spawn", "mapping", "create", "join", "signals", "go"}

AfterRead == {"hostname", "overlay", "root", "caps", "nnp", "filter", "args",
              "block", "fork", "relay", "reap", "exec", "command"}

\* The handshake: nothing is past the read before every host step is done, and
\* nothing ever gets past it in a run whose setup failed.
Handshake ==
    /\ pipe = "go" \/ shim \in AfterRead => HostSteps \subseteq applied
    /\ SettingUp \/ setup = "err" =>
          /\ pipe = "empty"
          /\ shim \in {"none", "closeCopy", "read", "zombie", "reaped"}
          /\ cmd = "none"
          /\ scratch = "absent"
    /\ SettingUp => setup = "ok"
    /\ boxed = "abort" => setup = "err"
    /\ boxed \in {"wait", "teardown"} => setup = "ok"
    /\ boxed = "spawn" => shim = "none"
    /\ boxed \in {"spawn", "mapping", "create"} => cgroup = "absent"
    /\ shim = "none" => boxed \in {"spawn", "exited", "killed"} /\ cmd = "none"
                        /\ scratch = "absent" /\ applied = {}

\* Each control point of the shim knows the confinement before it in force.
ShimOrder ==
    /\ shim \in AfterRead \ {"hostname"} => "hostname" \in applied
    /\ "image" \in opts /\ shim \in AfterRead \ {"hostname", "overlay"}
           => "overlay" \in applied
    /\ opts \cap {"rootfs", "image"} # {} /\ shim \in AfterRead \ {"hostname", "overlay", "root"}
           => "root" \in applied
    /\ shim \in {"nnp", "filter", "args", "block", "fork", "relay", "reap",
                 "exec", "command"} => "caps" \in applied
    /\ shim \in {"filter", "args", "block", "fork", "relay", "reap", "exec",
                 "command"} => "nnp" \in applied
    /\ shim \in {"args", "block", "fork", "relay", "reap", "exec", "command"}
           => "filter" \in applied
    /\ "relay" \in applied => shim \in {"reap", "zombie", "reaped"}
    /\ shim = "overlay" \/ scratch # "absent" => "image" \in opts
    /\ shim \in {"closeCopy", "read", "hostname", "overlay"} => scratch = "absent"

\* Who outlives whom: the command lives inside the shim's life, boxed is past
\* its wait only when the shim has been reaped, directories go last.
Lifetimes ==
    /\ cmd # "none" => shim \in {"relay", "reap", "zombie", "reaped"}
    /\ shim \in {"zombie", "reaped"} => cmd \in {"none", "reaped"}
    /\ shim \in {"relay", "reap"} => cmd # "none"
    /\ orphan # "none" => shim \in {"relay", "reap"}
    /\ boxed \in {"teardown", "release"} => shim = "reaped"
    /\ boxed = "exited" => shim \in {"none", "reaped"}
    /\ shim = "reaped" /\ "nochld" \notin opts
           => boxed \in {"teardown", "release", "exited", "killed"}
    /\ boxed \in {"release", "exited"} => scratch # "made"
    /\ boxed = "exited" => cgroup # "owned"

\* How a status travels from the command to boxed.
StatusChain ==
    /\ cmd \in {"none", "forked", "running"} /\ shim \notin {"zombie", "reaped"}
           => cmdStatus = NoStatus
    /\ cmd = "zombie" => cmdStatus \in Status
    /\ cmd = "reaped" /\ ShimAlive => "nochld" \in opts
    /\ shim \in {"zombie", "reaped"} <=> shimStatus # NoStatus
    /\ shimStatus = Exited(0) => cmdStatus = Exited(0)
    /\ "nochld" \notin opts /\ shimStatus.how = "exited" /\ "relay" \in applied
           => shimStatus.n = ExitCode(cmdStatus)
    /\ boxed \in {"teardown", "release", "exited"} => exitCode # NotYet
    /\ exitCode # NotYet => boxed \in {"teardown", "release", "exited", "killed"}
    /\ exitCode # NotYet => shim \in {"none", "reaped"}
    /\ exitCode = 0 => cmdStatus = Exited(0)
    /\ boxed \in {"teardown", "release", "exited"} /\ setup = "ok" /\ "nochld" \notin opts
           /\ shim = "reaped" => exitCode = ExitCode(shimStatus)

\* Who holds an end of the pipe is still on its way to closing it.
PipeEnds ==
    /\ "boxed" \in writers => boxed \in {"mapping", "create", "join", "signals", "go", "close"}
    /\ "shim" \in writers => shim = "closeCopy"

\* CommandOnlyAfterSetup is its own strengthening: a command once started stays
\* accounted for after the shim has left every control point above.
RunInv ==
    /\ TypeOK
    /\ CommandOnlyAfterSetup
    /\ HostOrder
    /\ Handshake
    /\ ShimOrder
    /\ Lifetimes
    /\ StatusChain
    /\ PipeEnds

----------------------------------------------------------------------------
\* The contract a user of boxed sees: RunContract, of which only the container's
\* life, the command's status, boxed's own fate and what it holds are visible.
Contract == INSTANCE RunContract WITH
    host      <- IF boxed = "killed" THEN "lost"
                 ELSE IF boxed = "exited" THEN "returned" ELSE "up",
    container <- IF shim = "none" THEN "none"
                 ELSE IF ~ShimAlive THEN "dead"
                 ELSE IF Started THEN "running" ELSE "setup",
    status    <- cmdStatus,
    report    <- IF boxed = "exited" THEN exitCode ELSE NotYet,
    held      <- {r \in {"cgroup", "scratch"} :
                    \/ r = "cgroup" /\ cgroup = "owned"
                    \/ r = "scratch" /\ scratch = "made"}

\* Every step of the two-process protocol is a step of the contract or invisible.
ImplementsContract == Contract!Spec

============================================================================
