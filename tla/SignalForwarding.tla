------------------------- MODULE SignalForwarding -------------------------
(***************************************************************************)
(* SIGINT, SIGTERM and SIGHUP on their way to the user's command: the      *)
(* handlers, masks and waits of src/src/process.rs, at the points where    *)
(* src/src/namespace.rs installs and lifts them.                           *)
(*                                                                         *)
(* A signal sent to boxed is caught and sent on to the shim, which catches *)
(* it and sends it on to the command.  What a signal meets depends on the  *)
(* instant: a boxed without a handler dies of it; the shim is PID 1 of its *)
(* namespace, and the kernel discards what PID 1 neither handles nor       *)
(* blocks; a process that blocks a signal holds it pending.                *)
(*                                                                         *)
(* Failures and kills are the subject of ContainerRun; here the setup may  *)
(* fail once, and every other event is a signal.                           *)
(***************************************************************************)
EXTENDS Integers, Sequences

CONSTANT Order  \* the forwarded signals, in the order they are installed

ASSUME OrderAssumption == Order \in Seq(STRING) /\ Order # <<>>

Forwarded == {Order[i] : i \in DOMAIN Order}
Procs     == {"boxed", "shim", "cmd"}

VARIABLES boxed,      \* control state of run_in_namespace
          shim,       \* control state of ChildContext::enter
          cmd,        \* control state of the forked command
          target,     \* CHILD_PID of boxed and of the shim
          installed,  \* how many of Order's handlers boxed and the shim have
          blocked,    \* the processes whose mask holds the forwarded signals
          pending,    \* the signals each process holds undelivered
          program,    \* what the user's program did: "catches" the signals,
                      \* runs under "otherUid"
          owed,       \* signals accepted for a container past its block, and
                      \* not yet seen by the command
          discarded,  \* signals the kernel dropped at PID 1
          stray       \* signals that may have hit another process with the pid

procVars == <<boxed, shim, cmd>>
maskVars == <<target, installed, blocked>>
fateVars == <<owed, discarded, stray>>
vars == <<boxed, shim, cmd, target, installed, blocked, pending, program,
          owed, discarded, stray>>

BoxedPC == {"setup", "install", "go", "abort", "wait", "teardown", "exited",
            "killed"}
ShimPC  == {"read", "confine", "block", "fork", "store", "install", "unblock",
            "reap", "exit", "zombie", "reaped"}
CmdPC   == {"none", "forked", "unmasked", "running", "zombie", "reaped"}

Alive(p) == \/ p = "boxed" /\ boxed \notin {"exited", "killed"}
            \/ p = "shim"  /\ shim \notin {"zombie", "reaped"}
            \/ p = "cmd"   /\ cmd \in {"forked", "unmasked", "running"}

Installed(p) == {Order[i] : i \in 1..installed[p]}

----------------------------------------------------------------------------
(***************************************************************************)
(* The kernel.                                                             *)
(***************************************************************************)
\* A live process keeps s for delivery if it blocks or handles it.
Holds(p, s) ==
    /\ Alive(p)
    /\ \/ p \in blocked
       \/ p # "cmd" /\ s \in Installed(p)

\* From the mask on, a forwarded signal is owed to the command.
ShimAccepts == "shim" \in blocked \/ shim \in {"fork", "store", "install",
                                             "unblock", "reap"}
CommandOver == cmd \in {"zombie", "reaped"} \/ ~Alive("shim")

\* s is sent to the processes in R, and taken from the pending signals of
\* `from`, whose handler sends it (or from nobody's).
Signal(from, R, s) ==
    /\ pending' = [p \in Procs |->
          (IF p = from THEN pending[p] \ {s} ELSE pending[p])
              \cup {t \in {s} : p \in R /\ Holds(p, s)}]
    \* the default action, where nothing holds the signal back
    /\ boxed' = IF "boxed" \in R /\ Alive("boxed") /\ ~Holds("boxed", s)
                THEN "killed" ELSE boxed
    /\ cmd' = IF /\ "cmd" \in R /\ Alive("cmd") /\ ~Holds("cmd", s)
                 /\ "catches" \notin program
              THEN "zombie" ELSE cmd
    /\ discarded' = IF "shim" \in R /\ Alive("shim") /\ ~Holds("shim", s)
                    THEN discarded \cup {s} ELSE discarded
    /\ owed' = IF "cmd" \in R THEN owed \ {s}
               ELSE IF \/ "boxed" \in R /\ Holds("boxed", s) /\ ShimAccepts
                       \/ "shim" \in R /\ Holds("shim", s)
                    THEN owed \cup {s}
                    ELSE owed

----------------------------------------------------------------------------
(***************************************************************************)
(* boxed.                                                                  *)
(***************************************************************************)
\* mapping and cgroup setup, before setup_signals
BoxedSetup ==
    /\ boxed = "setup"
    /\ boxed' \in {"install", "abort"}
    /\ target' = IF boxed' = "install" THEN [target EXCEPT !["boxed"] = "shim"]
                                       ELSE target
    /\ UNCHANGED <<shim, cmd, installed, blocked, pending, program, fateVars>>

\* mutant: the go-ahead is written before the last handler is in place
ArmedEarly == installed["boxed"] >= Len(Order) - 1
Armed      == installed["boxed"] = Len(Order)

\* setup_signal_forwarding: CHILD_PID is stored already; one signal() a step.
BoxedInstall ==
    /\ boxed = "install"
    /\ IF Armed THEN boxed' = "go" /\ UNCHANGED installed
                ELSE /\ installed' = [installed EXCEPT !["boxed"] = @ + 1]
                     /\ UNCHANGED boxed
    /\ UNCHANGED <<shim, cmd, target, blocked, pending, program, fateVars>>

\* The byte, and the close of the pipe: the shim reads the one or the other.
BoxedGo ==
    /\ boxed = "go"
    /\ boxed' = "wait"
    /\ UNCHANGED <<shim, cmd, maskVars, pending, program, fateVars>>

\* wait_for_child, after the go-ahead or on the abort path; then the teardown,
\* during which the handlers and CHILD_PID are still in place.
BoxedReap ==
    /\ boxed \in {"wait", "abort"} /\ shim = "zombie"
    /\ shim' = "reaped"
    /\ boxed' = "teardown"
    /\ UNCHANGED <<cmd, maskVars, pending, program, fateVars>>

BoxedExit ==
    /\ boxed = "teardown"
    /\ boxed' = "exited"
    /\ UNCHANGED <<shim, cmd, maskVars, pending, program, fateVars>>

\* mutant: an interrupted waitpid is taken for the end of the container
GiveUpOnEintr == IF boxed = "wait" THEN "teardown" ELSE boxed
\* The handler interrupts waitpid: EINTR, and the loop waits again.
AfterEintr    == boxed

\* Whom the pid in CHILD_PID belongs to, p having been its process: to nobody,
\* or to a stranger, once p has been reaped.
MayHitStranger(p, s) ==
    IF p \in {"shim", "cmd"} /\ (IF p = "shim" THEN shim ELSE cmd) = "reaped"
    THEN stray' \in {stray, stray \cup {s}} ELSE UNCHANGED stray

\* forward_signal in boxed: kill(CHILD_PID, s); a zombie ignores it.
BoxedForward(s) ==
    /\ Alive("boxed") /\ "boxed" \notin blocked
    /\ s \in pending["boxed"]
    /\ target["boxed"] = "shim"
    /\ boxed' = AfterEintr
    /\ pending' = [pending EXCEPT
          !["boxed"] = @ \ {s},
          !["shim"]  = IF Holds("shim", s) THEN @ \cup {s} ELSE @]
    /\ discarded' = IF Alive("shim") /\ ~Holds("shim", s)
                    THEN discarded \cup {s} ELSE discarded
    /\ MayHitStranger("shim", s)
    /\ UNCHANGED <<shim, cmd, maskVars, program, owed>>

----------------------------------------------------------------------------
(***************************************************************************)
(* The shim.                                                               *)
(***************************************************************************)
ShimGoes(from, to) ==
    /\ shim = from /\ shim' = to
    /\ UNCHANGED <<boxed, cmd, pending, program, fateVars>>

\* End-of-file if boxed gave up or died, else the byte.
ShimRead ==
    /\ shim = "read"
    /\ \/ boxed \in {"wait", "teardown", "exited"} /\ shim' = "confine"
       \/ boxed \in {"abort", "killed"} /\ shim' = "zombie"
    /\ UNCHANGED <<boxed, cmd, maskVars, pending, program, fateVars>>

\* Hostname, filesystem, capabilities, seccomp, arguments.
ShimConfine == ShimGoes("confine", "block") /\ UNCHANGED maskVars

\* mutant: nothing is blocked across the fork
NoBlock   == UNCHANGED blocked
BlockMask == blocked' = blocked \cup {"shim"}

ShimBlock ==
    /\ ShimGoes("block", "fork")
    /\ BlockMask
    /\ UNCHANGED <<target, installed>>

\* fork: the child has the shim's mask, and no pending signal.
ShimFork ==
    /\ shim = "fork"
    /\ shim' = "store"
    /\ cmd' = "forked"
    /\ blocked' = IF "shim" \in blocked THEN blocked \cup {"cmd"} ELSE blocked
    /\ UNCHANGED <<boxed, target, installed, pending, program, fateVars>>

\* setup_signal_forwarding in the shim: CHILD_PID, then the handlers.
ShimStore ==
    /\ ShimGoes("store", "install")
    /\ target' = [target EXCEPT !["shim"] = "cmd"]
    /\ UNCHANGED <<installed, blocked>>

ShimInstall ==
    /\ shim = "install"
    /\ IF installed["shim"] = Len(Order)
       THEN shim' = "unblock" /\ UNCHANGED installed
       ELSE /\ installed' = [installed EXCEPT !["shim"] = @ + 1]
            /\ UNCHANGED shim
    /\ UNCHANGED <<boxed, cmd, target, blocked, pending, program, fateVars>>

\* mutant: the mask is never lifted in the shim
StayBlocked == UNCHANGED blocked
UnblockMask == blocked' = blocked \ {"shim"}

ShimUnblock ==
    /\ ShimGoes("unblock", "reap")
    /\ UnblockMask
    /\ UNCHANGED <<target, installed>>

\* kill(2) needs the same user id or CAP_KILL, which drop_capabilities has taken
\* from the shim; forward_signal ignores the error.
MayKill == "otherUid" \notin program

\* forward_signal in the shim.
ShimForward(s) ==
    /\ Alive("shim") /\ "shim" \notin blocked
    /\ s \in pending["shim"]
    /\ IF target["shim"] = "cmd" /\ MayKill
       THEN Signal("shim", {"cmd"}, s)
       ELSE /\ pending' = [pending EXCEPT !["shim"] = @ \ {s}]
            /\ UNCHANGED <<boxed, cmd, owed, discarded>>
    /\ MayHitStranger(target["shim"], s)
    /\ UNCHANGED <<shim, maskVars, program>>

\* mutant: the shim goes on as an init, for the children that are left
KeepReaping == "reap"
AfterReap   == "exit"

\* reap_until_exit returns, ...
ShimReap ==
    /\ shim = "reap" /\ cmd = "zombie"
    /\ cmd' = "reaped"
    /\ shim' = AfterReap
    /\ UNCHANGED <<boxed, maskVars, pending, program, fateVars>>

\* ... and the shim with it, its handlers in place to the end.
ShimExit == ShimGoes("exit", "zombie") /\ UNCHANGED maskVars

----------------------------------------------------------------------------
(***************************************************************************)
(* The command.                                                            *)
(***************************************************************************)
\* mutant: the child execs under the mask it inherited
KeepMask == UNCHANGED blocked
LiftMask == blocked' = blocked \ {"cmd"}

\* exec_command unblocks: a signal held meanwhile takes its default action.
CmdUnblock ==
    /\ cmd = "forked"
    /\ LiftMask
    /\ cmd' = IF pending["cmd"] # {} /\ "cmd" \notin blocked'
              THEN "zombie" ELSE "unmasked"
    /\ UNCHANGED <<boxed, shim, target, installed, pending, program, fateVars>>

\* execvp, or _exit(127).
CmdExec ==
    /\ cmd = "unmasked"
    /\ cmd' \in {"running", "zombie"}
    /\ UNCHANGED <<boxed, shim, maskVars, pending, program, fateVars>>

\* The user's program: it may install handlers, change user, or end.
CmdCatches ==
    /\ cmd = "running"
    /\ program' = program \cup {"catches"}
    /\ UNCHANGED <<procVars, maskVars, pending, fateVars>>

CmdSetuid ==
    /\ cmd = "running"
    /\ program' = program \cup {"otherUid"}
    /\ UNCHANGED <<procVars, maskVars, pending, fateVars>>

CmdEnds ==
    /\ cmd = "running"
    /\ cmd' = "zombie"
    /\ UNCHANGED <<boxed, shim, maskVars, pending, program, fateVars>>

----------------------------------------------------------------------------
(***************************************************************************)
(* The environment, and the specification.                                 *)
(***************************************************************************)
\* kill(1) on boxed or, from the host, on the shim.
UserSignal(s) ==
    /\ \E p \in {"boxed", "shim"} : Alive(p) /\ Signal("nobody", {p}, s)
    /\ UNCHANGED <<shim, maskVars, program, stray>>

\* Ctrl-C: nothing leaves boxed's process group, so the terminal signals all.
CtrlC(s) ==
    /\ Alive("boxed")
    /\ Signal("nobody", {p \in Procs : Alive(p)}, s)
    /\ UNCHANGED <<shim, maskVars, program, stray>>

Finished ==
    /\ \A p \in Procs : ~Alive(p)
    /\ UNCHANGED vars

Init ==
    /\ boxed = "setup" /\ shim = "read" /\ cmd = "none"
    /\ target = [p \in {"boxed", "shim"} |-> "none"]
    /\ installed = [p \in {"boxed", "shim"} |-> 0]
    /\ blocked = {}
    /\ pending = [p \in Procs |-> {}]
    /\ program = {}
    /\ owed = {} /\ discarded = {} /\ stray = {}

BoxedStep == BoxedSetup \/ BoxedInstall \/ BoxedGo \/ BoxedReap \/ BoxedExit
ShimStep ==
    \/ ShimRead \/ ShimConfine \/ ShimBlock \/ ShimFork \/ ShimStore
    \/ ShimInstall \/ ShimUnblock \/ ShimReap \/ ShimExit
CmdStep == CmdUnblock \/ CmdExec
Handler(s) == BoxedForward(s) \/ ShimForward(s)
Environment ==
    \/ \E s \in Forwarded : UserSignal(s) \/ CtrlC(s)
    \/ CmdCatches \/ CmdSetuid \/ CmdEnds \/ Finished

Next ==
    \/ BoxedStep \/ ShimStep \/ CmdStep
    \/ \E s \in Forwarded : Handler(s)
    \/ Environment

\* boxed and the shim are scheduled, and a pending handler is run; nobody is
\* obliged to send a signal, and the user's program to do anything.
Fairness ==
    /\ WF_vars(BoxedStep) /\ WF_vars(ShimStep) /\ WF_vars(CmdStep)
    /\ \A s \in Forwarded : WF_vars(BoxedForward(s)) /\ WF_vars(ShimForward(s))

Spec == Init /\ [][Next]_vars /\ Fairness

----------------------------------------------------------------------------
(***************************************************************************)
(* Properties.                                                             *)
(***************************************************************************)
TypeOK ==
    /\ boxed \in BoxedPC /\ shim \in ShimPC /\ cmd \in CmdPC
    /\ target \in [{"boxed", "shim"} -> Procs \cup {"none"}]
    /\ installed \in [{"boxed", "shim"} -> 0..Len(Order)]
    /\ blocked \subseteq Procs
    /\ pending \in [Procs -> SUBSET Forwarded]
    /\ program \subseteq {"catches", "otherUid"}
    /\ owed \subseteq Forwarded /\ discarded \subseteq Forwarded
    /\ stray \subseteq Forwarded

\* A signal that ends boxed never leaves a container running behind it: boxed
\* dies of one only before its handlers are in, and then the shim is still at
\* the pipe, where it finds end-of-file.
NeverOrphaned == boxed = "killed" => shim \in {"read", "zombie", "reaped"}

\* tests/cli.rs: boxed "installs its handlers before letting the container start,
\* and the shim holds signals pending from before its fork, so nothing sent from
\* this point on can be dropped."  Whatever PID 1 drops, it drops before that.
OnlyEarlyLoss ==
    [][discarded' # discarded => shim \in {"read", "confine", "block"}]_vars

\* The command never runs with Ctrl-C blocked: the mask survives execve, and the
\* shim, which holds it across the fork, must not pass it on.
CommandUnmasked == cmd = "running" => "cmd" \notin blocked /\ pending["cmd"] = {}

\* A forwarded signal interrupts waitpid, in boxed at any moment of the wait:
\* it must not be taken for the end of the container.
SignalNeverEndsWait == boxed \in {"teardown", "exited"} => shim = "reaped"

\* CHILD_PID is never cleared, and a pid may be given out again: a forwarded
\* signal can hit a stranger, but only between a reaping and the end of the
\* process that did it, when it has nothing left to wait for.
StrayOnlyAtTheEnd ==
    [][stray' # stray =>
          (boxed = "teardown" /\ shim = "reaped") \/ (shim = "exit" /\ cmd = "reaped")]_vars

\* Whoever holds s passes it on: boxed's handler to the shim, the shim's to the
\* command.
OnItsWay(s) ==
    \/ s \in pending["boxed"] /\ Alive("boxed") /\ target["boxed"] = "shim"
    \/ s \in pending["shim"]  /\ Alive("shim")  /\ ("shim" \in blocked \/ target["shim"] = "cmd")

\* What is owed to the command is never lost between two processes: however the
\* fork, the handlers and the masks fall together with it, a live process holds it
\* that knows where to send it.
OwedOnItsWay == \A s \in owed : OnItsWay(s) \/ CommandOver \/ ~MayKill

\* A signal taken in for a container past its block reaches the command, late
\* perhaps, unless the command is over first or has changed its user id.
Reaches ==
    \A s \in Forwarded :
        s \in owed ~> (s \notin owed \/ CommandOver \/ ~MayKill)

\* CHANGELOG.md: "one that arrives before forwarding is ready is delivered late
\* rather than lost."  What boxed's handler forwards is never dropped.
NothingLost ==
    [][pending'["boxed"] \subseteq pending["boxed"] /\ pending'["boxed"] # pending["boxed"]
         => discarded' = discarded]_vars

\* CHANGELOG.md: "Ctrl-C and `SIGTERM` now stop a running container."  Stop or, if
\* the program catches it, at least reach: under another user id neither.
TermReaches == "TERM" \in owed ~> ("TERM" \notin owed \/ CommandOver)

----------------------------------------------------------------------------
(***************************************************************************)
(* The inductive invariant.                                                *)
(***************************************************************************)
\* boxed and the shim: nobody passes the pipe before the go-ahead, and boxed is
\* past its wait exactly when the shim has been reaped.
Together ==
    /\ boxed \in {"setup", "install", "go"} => shim = "read"
    /\ boxed = "abort" => shim \in {"read", "zombie"}
    /\ boxed = "killed" => shim \in {"read", "zombie", "reaped"}
    /\ boxed \in {"teardown", "exited"} => shim = "reaped"
    /\ shim = "reaped" => boxed \in {"teardown", "exited", "killed"}

\* The shim and the command: it is there from the fork on, and reaped last.
Family ==
    /\ shim \in {"read", "confine", "block", "fork"} => cmd = "none"
    /\ cmd = "reaped" => shim \in {"exit", "zombie", "reaped"}
    /\ target["shim"] \in {"none", "cmd"}

\* Who waits has all its handlers.
Handlers ==
    /\ boxed \in {"go", "wait"} => installed["boxed"] = Len(Order)
    /\ shim \in {"unblock", "reap", "exit"} => installed["shim"] = Len(Order)

\* The mask is on in the shim until then, and off in the command before its exec.
Masks ==
    /\ shim \in {"fork", "store", "install", "unblock"} => "shim" \in blocked
    /\ "boxed" \notin blocked
    /\ cmd \in {"unmasked", "running"} => "cmd" \notin blocked /\ pending["cmd"] = {}

\* Who has a handler knows whom to forward to, and a shim short of its block has
\* taken nothing in.
Route ==
    /\ boxed = "install" \/ installed["boxed"] # 0 => target["boxed"] = "shim"
    /\ shim \in {"install", "unblock", "reap", "exit"} => target["shim"] = "cmd"
    /\ shim \in {"read", "confine", "block"} =>
          /\ installed["shim"] = 0 /\ "shim" \notin blocked
          /\ pending["shim"] = {} /\ owed = {}

SignalInv == TypeOK /\ Together /\ Family /\ Handlers /\ Masks /\ Route /\ OwedOnItsWay

============================================================================
