------------------------ MODULE ContainerRunProofs ------------------------
(***************************************************************************)
(* Proofs about ContainerRun, for all exit codes and all signals.          *)
(*                                                                         *)
(* The safety properties are not inductive.  RunInv is: it says what each    *)
(* control point of boxed and of the shim knows (HostOrder, ShimOrder),    *)
(* that the pipe carries that knowledge from one to the other (Handshake), *)
(* who outlives whom (Lifetimes), how a status travels (StatusChain) and   *)
(* who may still hold a write end of the pipe (PipeEnds).                  *)
(* One lemma per conjunct of RunInv shows that every step preserves it; each *)
(* goes through the steps of boxed, of the shim, of the command and of the *)
(* environment in turn.  LeftStep goes through them once more, for the     *)
(* measure that every step lowers.                                         *)
(***************************************************************************)
EXTENDS ContainerRun, TLAPS

\* The transition relation is looked into by every step lemma.
USE DEF Next, BoxedStep, ShimStep, Environment, Finished, vars,
        BoxedSpawn, BoxedMap, BoxedCreateCgroup, BoxedJoinCgroup, BoxedSignals,
        BoxedGo, BoxedClose, BoxedAbort, BoxedWait, BoxedTeardown, BoxedRelease,
        SetupFails, SetupGoesOn, DropCgroup, TasksInCgroup, AfterClose,
        DropWriteEnd, MayStopWaiting, NeedsTeardown,
        ShimCloseCopy, ShimRead, ShimHostname, ShimOverlay, ShimRoot, ShimCaps,
        ShimNnp, ShimFilter, ShimArgs, ShimBlock, ShimFork, ShimRelay, ShimReap,
        ShimReapOrphan, AnyChild, CmdLeavesOrphan, OrphanEnds,
        Confine, ConfigFs, EndOfFileAborts, DropInheritedEnd, ShimFails,
        ShimStays, ShimDies, Autoreaped,
        CmdExec, CmdExits, CmdSignaled, CmdEnds, InitExec, InitExits,
        InitCommandEnds, KillBoxed, KillShim,
        ErrCode, BoxedAlive, ShimAlive, CmdAlive

\* A step that starts the command finds every setup step in force, and no step
\* ever takes one back.
LEMMA CommandOnlyAfterSetupStep ==
  ASSUME RunInv, [Next]_vars PROVE CommandOnlyAfterSetup'
<1> USE DEF RunInv, CommandOnlyAfterSetup, Started, Required, Handshake, HostSteps, ShimOrder, Lifetimes, AfterRead
<1>1. CASE BoxedStep
  BY <1>1
<1>2. CASE ShimStep
  BY <1>2
<1>3. CASE CmdExec \/ InitExec
  BY <1>3
<1>4. CASE Environment
  BY <1>4
<1>5. CASE UNCHANGED vars
  BY <1>5
<1> QED
  BY <1>1, <1>2, <1>3, <1>4, <1>5

\* boxed moves from one setup call to the next only past a success.
LEMMA HostOrderStep ==
  ASSUME RunInv, [Next]_vars PROVE HostOrder'
<1> USE DEF RunInv, HostOrder
<1>1. CASE BoxedStep
  BY <1>1
<1>2. CASE ShimStep
  BY <1>2
<1>3. CASE CmdExec \/ InitExec
  BY <1>3
<1>4. CASE Environment
  BY <1>4
<1>5. CASE UNCHANGED vars
  BY <1>5
<1> QED
  BY <1>1, <1>2, <1>3, <1>4, <1>5

\* The byte is written only after the host's steps, and read only as a byte.
LEMMA HandshakeStep ==
  ASSUME RunInv, [Next]_vars PROVE Handshake'
<1> USE DEF RunInv, TypeOK, HostOrder, Handshake, HostSteps, AfterRead, SettingUp
<1>1. CASE BoxedStep
  BY <1>1
<1>2. CASE ShimStep
  BY <1>2
<1>3. CASE CmdExec \/ InitExec
  BY <1>3
<1>4. CASE Environment
  BY <1>4
<1>5. CASE UNCHANGED vars
  BY <1>5
<1> QED
  BY <1>1, <1>2, <1>3, <1>4, <1>5

\* The shim moves from one confinement call to the next only past a success.
LEMMA ShimOrderStep ==
  ASSUME RunInv, [Next]_vars PROVE ShimOrder'
<1> USE DEF RunInv, ShimOrder, Handshake, AfterRead, SettingUp
<1>1. CASE BoxedStep
  BY <1>1
<1>2. CASE ShimStep
  BY <1>2
<1>3. CASE CmdExec \/ InitExec
  BY <1>3
<1>4. CASE Environment
  BY <1>4
<1>5. CASE UNCHANGED vars
  BY <1>5
<1> QED
  BY <1>1, <1>2, <1>3, <1>4, <1>5

\* The command dies with the shim, and boxed outwaits both.
LEMMA LifetimesStep ==
  ASSUME RunInv, [Next]_vars PROVE Lifetimes'
<1> USE DEF RunInv, TypeOK, Lifetimes, Handshake, SettingUp
<1>1. CASE BoxedStep
  <2>1. /\ cmd' # "none" => shim' \in {"relay", "reap", "zombie", "reaped"}
        /\ shim' \in {"zombie", "reaped"} => cmd' \in {"none", "reaped"}
        /\ shim' \in {"relay", "reap"} => cmd' # "none"
    BY <1>1
  <2>2. boxed' \in {"teardown", "release"} => shim' = "reaped"
    BY <1>1
  <2>3. boxed' = "exited" => shim' \in {"none", "reaped"}
    BY <1>1
  <2>6. shim' = "reaped" /\ "nochld" \notin opts'
           => boxed' \in {"teardown", "release", "exited", "killed"}
    BY <1>1
  <2>4. boxed' \in {"release", "exited"} => scratch' # "made"
    BY <1>1 DEF ShimOrder
  <2>5. boxed' = "exited" => cgroup' # "owned"
    BY <1>1
  <2>7. orphan' # "none" => shim' \in {"relay", "reap"}
    BY <1>1
  <2> QED
    BY ONLY <2>1, <2>2, <2>3, <2>4, <2>5, <2>6, <2>7 DEF Lifetimes
<1>2. CASE ShimStep
  BY <1>2
<1>3. CASE CmdExec \/ InitExec
  BY <1>3
<1>4. CASE Environment
  BY <1>4
<1>5. CASE UNCHANGED vars
  BY <1>5
<1> QED
  BY <1>1, <1>2, <1>3, <1>4, <1>5

\* An exit and a signal are statuses, and no status yet is neither.
LEMMA StatusType ==
    /\ \A c \in 0..255 : Exited(c) \in Status
    /\ \A s \in 1..64 : Signaled(s) \in Status
    /\ NoStatus \notin Status
BY DEF Exited, Signaled, Status, NoStatus

\* An exit code fits the byte the kernel keeps of it.
LEMMA ExitCodeType ==
    ASSUME NEW st \in {NoStatus} \cup Status
    PROVE  ExitCode(st) \in 0..255 /\ ShimExitCode(st) \in 0..255
BY DEF ExitCode, ShimExitCode, Status, NoStatus

\* Every step keeps the variables in their types.
LEMMA TypeStep ==
  ASSUME TypeOK, [Next]_vars PROVE TypeOK'
<1> USE DEF TypeOK
<1>1. opts' \in Options /\ boxed' \in BoxedPC
  BY DEF BoxedPC
<1>2. shim' \in ShimPC
  BY DEF ShimPC
<1>3. cmd' \in CmdPC /\ writers' \subseteq {"boxed", "shim"} /\ pipe' \in {"empty", "go"}
  BY DEF CmdPC
<1>4. applied' \subseteq ParentSteps \cup ChildSteps
  <2>1. {"idmap", "cgroup", "signals", "hostname", "overlay", "root", "caps",
         "nnp", "filter", "args", "block", "relay"} = ParentSteps \cup ChildSteps
    BY ONLY DEF ParentSteps, ChildSteps
  <2> DEFINE All == ParentSteps \cup ChildSteps
  <2> HIDE DEF All
  <2>2. applied \subseteq All
    BY DEF All
  <2>3. applied' \subseteq All
    BY <2>1, <2>2 DEF All
  <2> QED
    BY <2>3 DEF All
<1>5. cgroup' \in {"absent", "owned", "unowned"} /\ setup' \in {"ok", "err"}
  OBVIOUS
<1>8. scratch' \in {"absent", "made", "stuck"}
  OBVIOUS
<1>10. orphan' \in {"none", "alive", "zombie"}
  OBVIOUS
<1>6. cmdStatus' \in {NoStatus} \cup Status
  BY StatusType, CodesAssumption, SigsAssumption
<1>9. shimStatus' \in {NoStatus} \cup Status
  <2>1. Exited(ErrCode) \in Status /\ Exited(127) \in Status
    BY StatusType
  <2>2. Exited(ShimExitCode(cmdStatus)) \in Status
    BY StatusType, ExitCodeType
  <2>3. \A c \in Codes : Exited(c) \in Status
    BY StatusType, CodesAssumption
  <2>4. \A n \in Sigs : Signaled(n) \in Status
    BY StatusType, SigsAssumption
  <2> QED
    BY <2>1, <2>2, <2>3, <2>4
<1>7. exitCode' \in {NotYet} \cup 0..255
  <2>1. WaitResult \in 0..255
    BY ExitCodeType DEF WaitResult
  <2> QED
    BY <2>1
<1> QED
  BY ONLY <1>1, <1>2, <1>3, <1>4, <1>5, <1>6, <1>7, <1>8, <1>9, <1>10
     DEF TypeOK

\* A status is passed on unchanged, and zero only for the command's own zero.
LEMMA StatusChainStep ==
  ASSUME RunInv, [Next]_vars PROVE StatusChain'
<1> USE DEF RunInv, TypeOK, Handshake, Lifetimes, StatusChain
<1>1. cmd' \in {"none", "forked", "running"} /\ shim' \notin {"zombie", "reaped"}
         => cmdStatus' = NoStatus
  OBVIOUS
<1>2. cmd' = "zombie" => cmdStatus' \in Status
  BY StatusType, CodesAssumption, SigsAssumption
<1>3. cmd' = "reaped" /\ ShimAlive' => "nochld" \in opts'
  OBVIOUS
<1>4. shim' \in {"zombie", "reaped"} <=> shimStatus' # NoStatus
  BY DEF Exited, Signaled, NoStatus
<1>5. shimStatus' = Exited(0) => cmdStatus' = Exited(0)
  <2>1. /\ Exited(ErrCode) # Exited(0) /\ NoStatus # Exited(0)
        /\ \A n \in Sigs : Signaled(n) # Exited(0)
    BY DEF Exited, Signaled, NoStatus
  <2>2. CASE ShimReap
    <3>1. cmdStatus \in Status /\ ShimExitCode(cmdStatus) = 0 => cmdStatus = Exited(0)
      BY DEF ShimExitCode, ExitCode, Status, Exited
    <3>2. ASSUME NEW n, Exited(n) = Exited(0) PROVE n = 0
      BY <3>2 DEF Exited
    <3> QED
      BY <2>1, <2>2, <3>1, <3>2
  <2>3. CASE ~ShimReap
    BY <2>1, <2>3
  <2> QED
    BY <2>2, <2>3
<1>6. "nochld" \notin opts' /\ shimStatus'.how = "exited" /\ "relay" \in applied'
         => shimStatus'.n = ExitCode(cmdStatus')
  <2>1. /\ Exited(ErrCode).how = "exited" /\ NoStatus.how = "none"
        /\ \A n \in Sigs : Signaled(n).how = "signaled"
    BY DEF Exited, Signaled, NoStatus
  <2>2. CASE ShimReap
    <3>1. cmdStatus \in Status => ShimExitCode(cmdStatus) = ExitCode(cmdStatus)
      BY ExitCodeType DEF ShimExitCode
    <3>2. \A n : Exited(n).n = n
      BY DEF Exited
    <3> QED
      BY <2>1, <2>2, <3>1, <3>2
  <2>3. CASE ~ShimReap
    BY <2>1, <2>3 DEF ShimOrder
  <2> QED
    BY <2>2, <2>3
<1>7. boxed' \in {"teardown", "release", "exited"} => exitCode' # NotYet
  BY ExitCodeType DEF WaitResult, NotYet
<1>8. exitCode' # NotYet => boxed' \in {"teardown", "release", "exited", "killed"}
  OBVIOUS
<1>9. exitCode' # NotYet => shim' \in {"none", "reaped"}
  OBVIOUS
<1>10. exitCode' = 0 => cmdStatus' = Exited(0)
  BY DEF WaitResult, ExitCode, Exited, Status, NoStatus
<1>11. boxed' \in {"teardown", "release", "exited"} /\ setup' = "ok"
         /\ "nochld" \notin opts' /\ shim' = "reaped" => exitCode' = ExitCode(shimStatus')
  BY DEF WaitResult
<1> QED
  BY ONLY <1>1, <1>2, <1>3, <1>4, <1>5, <1>6, <1>7, <1>8, <1>9, <1>10, <1>11
     DEF StatusChain

\* An end of the pipe is closed no later than its holder's control point says.
LEMMA PipeEndsStep ==
  ASSUME RunInv, [Next]_vars PROVE PipeEnds'
<1> USE DEF RunInv, TypeOK, Handshake, PipeEnds
<1>1. CASE BoxedStep
  BY <1>1
<1>2. CASE ShimStep
  BY <1>2
<1>3. CASE CmdExec \/ InitExec
  BY <1>3
<1>4. CASE Environment
  BY <1>4
<1>5. CASE UNCHANGED vars
  BY <1>5
<1> QED
  BY <1>1, <1>2, <1>3, <1>4, <1>5

\* A directory is removed by a step taken after the container's death, or, for
\* a cgroup, before the container entered it.
LEMMA CleanupStep ==
  ASSUME RunInv, [Next]_vars
  PROVE  [/\ scratch = "made" /\ scratch' # "made" => ContainerDead
          /\ cgroup = "owned" /\ cgroup' # "owned" =>
                 ContainerDead \/ "cgroup" \notin applied]_vars
<1>1. scratch = "made" /\ scratch' # "made" => ContainerDead
  BY DEF RunInv, TypeOK, Lifetimes, Handshake, ShimOrder, ContainerDead
<1>2. cgroup = "owned" /\ cgroup' # "owned" => ContainerDead \/ "cgroup" \notin applied
  BY DEF RunInv, TypeOK, Lifetimes, Handshake, ContainerDead
<1> QED
  BY ONLY <1>1, <1>2

\* A step of the run, seen through the contract's variables, is a step of the
\* contract or changes nothing there.
LEMMA ViewStep ==
  ASSUME RunInv, RunInv', [Next]_vars
  PROVE  [Contract!Next]_(Contract!vars)
<1> USE DEF Contract!Next, Contract!vars, Contract!NoReport, Contract!NoEnd,
            Contract!Grows, RunInv, TypeOK, Started, Lifetimes, Handshake
<1>1. CASE BoxedSpawn
  BY <1>1 DEF Contract!Create, Contract!Return
<1>2. CASE BoxedMap
  BY <1>2
<1>3. CASE BoxedCreateCgroup
  BY <1>3 DEF Contract!Acquire
<1>4. CASE BoxedJoinCgroup
  BY <1>4 DEF Contract!Release
<1>5. CASE BoxedSignals
  BY <1>5
<1>6. CASE BoxedGo
  BY <1>6
<1>7. CASE BoxedClose
  BY <1>7
<1>8. CASE BoxedAbort
  BY <1>8
<1>9. CASE BoxedWait
  BY <1>9
<1>10. CASE BoxedTeardown
  BY <1>10 DEF Contract!Release
<1>11. CASE ShimCloseCopy
  BY <1>11
<1>12. CASE ShimRead
  BY <1>12 DEF Contract!Die
<1>13. CASE ShimHostname
  BY <1>13 DEF Contract!Die
<1>14. CASE ShimRoot
  BY <1>14 DEF Contract!Die
<1>15. CASE ShimCaps
  BY <1>15 DEF Contract!Die
<1>16. CASE ShimNnp
  BY <1>16 DEF Contract!Die
<1>17. CASE ShimFilter
  BY <1>17 DEF Contract!Die
<1>18. CASE ShimArgs
  BY <1>18 DEF Contract!Die
<1>19. CASE ShimBlock
  BY <1>19 DEF Contract!Die
<1>20. CASE ShimFork
  BY <1>20 DEF Contract!Start, Contract!Die
<1>21. CASE ShimRelay
  BY <1>21 DEF Contract!Die
<1>22. CASE ShimReap
  BY <1>22 DEF Contract!Die
<1>23. CASE KillBoxed
  BY <1>23 DEF Contract!Lose
<1>24. CASE KillShim
  BY <1>24 DEF Contract!Die
<1>25. CASE BoxedRelease
  <2>1. exitCode' \in 0..255 /\ (exitCode' = 0 => cmdStatus = Exited(0))
    BY <1>25 DEF StatusChain, NotYet
  <2>2. cgroup' # "owned" /\ scratch' # "made"
    BY <1>25
  <2>3. /\ shim = "reaped" /\ boxed = "release" /\ boxed' = "exited"
        /\ UNCHANGED <<shim, cmd, cmdStatus>>
    BY <1>25
  <2> QED
    BY ONLY <2>1, <2>2, <2>3
       DEF Contract!Next, Contract!Return, Contract!Success, Exited, ShimAlive,
           Started
<1>26. CASE ShimOverlay
  <2>1. /\ UNCHANGED <<boxed, cmdStatus, exitCode, cgroup, cmd>>
        /\ cmd = "none" /\ shim = "overlay"
    BY <1>26
  <2>2. scratch # "made" /\ boxed # "exited"
    BY <1>26 DEF ShimOrder
  <2>3. shim' \in {"root", "zombie", "reaped"}
    BY <1>26
  <2> QED
    BY ONLY <2>1, <2>2, <2>3
       DEF Contract!Next, Contract!vars, Contract!Die, Contract!Acquire,
           Contract!Grows, ShimAlive, Started
<1>27. CASE CmdExec \/ InitExec \/ CmdExits \/ CmdSignaled \/ InitExits
  <2>1. UNCHANGED <<boxed, exitCode, cgroup, scratch>>
    BY <1>27
  <2>2. shim \in {"relay", "reap", "exec", "command"} /\ Started
    BY <1>27
  <2>3. \/ shim' = shim /\ Started'
        \/ shim = "exec" /\ shim' = "command"
        \/ shim' \in {"zombie", "reaped"} /\ cmdStatus' # NoStatus
    <3>1. \A c \in Codes \cup {127} : Exited(c) # NoStatus
      BY DEF Exited, NoStatus
    <3> QED
      BY <1>27, <3>1
  <2>4. cmdStatus = NoStatus /\ cmdStatus' \in {NoStatus} \cup Status
    BY <1>27 DEF StatusChain
  <2>5. Contract!Ends = Status /\ Contract!NoEnd = NoStatus
    BY DEF Status, NoStatus, Contract!Ends, Contract!NoEnd
  <2> QED
    BY ONLY <2>1, <2>2, <2>3, <2>4, <2>5
       DEF Contract!Next, Contract!vars, Contract!End, ShimAlive, Started
<1>29. CASE CmdLeavesOrphan \/ OrphanEnds \/ ShimReapOrphan
  BY <1>29
<1>28. CASE UNCHANGED vars
  BY <1>28
<1> QED
  BY <1>1, <1>2, <1>3, <1>4, <1>5, <1>6, <1>7, <1>8, <1>9, <1>10, <1>11,
     <1>12, <1>13, <1>14, <1>15, <1>16, <1>17, <1>18, <1>19, <1>20, <1>21,
     <1>22, <1>23, <1>24, <1>25, <1>26, <1>27, <1>28, <1>29

\* The tables of what is left, field by field.
LEMMA LeftValues ==
  /\ BoxedLeft["spawn"] = 12 /\ BoxedLeft["mapping"] = 11 /\ BoxedLeft["create"] = 10
  /\ BoxedLeft["join"] = 9 /\ BoxedLeft["signals"] = 8 /\ BoxedLeft["go"] = 7
  /\ BoxedLeft["close"] = 6 /\ BoxedLeft["abort"] = 4 /\ BoxedLeft["wait"] = 4
  /\ BoxedLeft["teardown"] = 3 /\ BoxedLeft["release"] = 2
  /\ BoxedLeft["exited"] = 0 /\ BoxedLeft["killed"] = 0
  /\ ShimLeft["none"] = 19 /\ ShimLeft["closeCopy"] = 17 /\ ShimLeft["read"] = 16
  /\ ShimLeft["hostname"] = 15 /\ ShimLeft["overlay"] = 14 /\ ShimLeft["root"] = 13
  /\ ShimLeft["caps"] = 12 /\ ShimLeft["nnp"] = 11 /\ ShimLeft["filter"] = 10
  /\ ShimLeft["args"] = 9 /\ ShimLeft["block"] = 8 /\ ShimLeft["fork"] = 7
  /\ ShimLeft["relay"] = 6 /\ ShimLeft["reap"] = 5 /\ ShimLeft["exec"] = 6
  /\ ShimLeft["command"] = 5 /\ ShimLeft["zombie"] = 1 /\ ShimLeft["reaped"] = 0
  /\ CmdLeft["none"] = 4 /\ CmdLeft["forked"] = 3 /\ CmdLeft["running"] = 2
  /\ CmdLeft["zombie"] = 1 /\ CmdLeft["reaped"] = 0
  /\ OrphanLeft["alive"] = 2 /\ OrphanLeft["zombie"] = 1 /\ OrphanLeft["none"] = 0
BY DEF BoxedLeft, ShimLeft, CmdLeft, OrphanLeft

\* All of them are numbers.
LEMMA LeftTypes ==
  /\ \A p \in BoxedPC : BoxedLeft[p] \in Nat
  /\ \A p \in ShimPC : ShimLeft[p] \in Nat
  /\ \A p \in CmdPC : CmdLeft[p] \in Nat
  /\ \A p \in {"none", "alive", "zombie"} : OrphanLeft[p] \in Nat
BY LeftValues DEF BoxedPC, ShimPC, CmdPC

\* Each step takes one of the processes on, and brings none back.
LEMMA LeftStep ==
  ASSUME RunInv, TypeOK', [Next]_vars
  PROVE  Left' < Left \/ CmdLeavesOrphan \/ UNCHANGED vars
<1> DEFINE B(p) == BoxedLeft[p]
           S(p) == ShimLeft[p]
           C(p) == CmdLeft[p]
           O(p) == OrphanLeft[p]
<1>1. /\ B(boxed) \in Nat /\ S(shim) \in Nat /\ C(cmd) \in Nat /\ O(orphan) \in Nat
      /\ B(boxed') \in Nat /\ S(shim') \in Nat /\ C(cmd') \in Nat /\ O(orphan') \in Nat
  BY ONLY LeftTypes, TypeOK, TypeOK', RunInv DEF RunInv, TypeOK
<1>2. /\ Left = B(boxed) + S(shim) + C(cmd) + O(orphan)
      /\ Left' = B(boxed') + S(shim') + C(cmd') + O(orphan')
  BY ONLY Left = Left DEF Left, BoxedLeft, ShimLeft, CmdLeft, OrphanLeft
<1>3. CASE BoxedStep
  <2>1. \/ boxed = "spawn" /\ boxed' \in {"mapping", "exited"}
        \/ boxed = "mapping" /\ boxed' \in {"create", "close"}
        \/ boxed = "create" /\ boxed' \in {"signals", "join", "close"}
        \/ boxed = "join" /\ boxed' \in {"signals", "close"}
        \/ boxed = "signals" /\ boxed' \in {"go", "close"}
        \/ boxed = "go" /\ boxed' = "close"
        \/ boxed = "close" /\ boxed' \in {"abort", "wait"}
        \/ boxed \in {"abort", "teardown"} /\ boxed' = "release"
        \/ boxed = "wait" /\ boxed' = "teardown"
        \/ boxed = "release" /\ boxed' = "exited"
    BY <1>3
  <2>2. \/ shim' = shim
        \/ shim = "none" /\ shim' = "closeCopy"
        \/ shim = "zombie" /\ shim' = "reaped"
    BY <1>3 DEF RunInv, Handshake
  <2>3. cmd' = cmd /\ orphan' = orphan
    BY <1>3
  <2>4. B(boxed') < B(boxed)
    BY ONLY <2>1, LeftValues
  <2>5. S(shim') <= S(shim)
    BY ONLY <2>2, <1>1, LeftValues
  <2> HIDE DEF B, S, C, O
  <2> QED
    BY ONLY <1>1, <1>2, <2>3, <2>4, <2>5
<1>4. CASE ShimStep \/ InitExec \/ InitExits \/ KillShim
  <2>1. boxed' = boxed
    BY <1>4
  <2>2. \/ shim' = shim /\ orphan = "zombie" /\ orphan' = "none" /\ cmd' = cmd
        \/ /\ shim = "fork" /\ shim' = "relay" /\ orphan' = orphan
           /\ cmd' = "forked"
        \/ /\ ShimAlive /\ shim' \in {"zombie", "reaped"} /\ orphan' = "none"
           /\ cmd' \in {cmd, "reaped"}
        \/ orphan' = orphan /\ cmd' = cmd
    BY <1>4
  <2>3. \/ shim' = shim /\ orphan = "zombie" /\ orphan' = "none"
        \/ ShimAlive /\ shim' \in {"zombie", "reaped"}
        \/ shim = "closeCopy" /\ shim' = "read"
        \/ shim = "read" /\ shim' = "hostname"
        \/ shim = "hostname" /\ shim' \in {"overlay", "root", "caps"}
        \/ shim = "overlay" /\ shim' = "root"
        \/ shim = "root" /\ shim' = "caps"
        \/ shim = "caps" /\ shim' = "nnp"
        \/ shim = "nnp" /\ shim' = "filter"
        \/ shim = "filter" /\ shim' = "args"
        \/ shim = "args" /\ shim' = "block"
        \/ shim = "block" /\ shim' = "fork"
        \/ shim = "fork" /\ shim' \in {"relay", "exec"}
        \/ shim = "relay" /\ shim' = "reap"
        \/ shim = "exec" /\ shim' = "command"
    BY <1>4
  <2>4. shim = "fork" => cmd = "none"
    BY DEF RunInv, Lifetimes
  <2>5. shim \in ShimPC /\ cmd \in CmdPC /\ orphan \in {"none", "alive", "zombie"}
    BY DEF RunInv, TypeOK
  <2>6. C(cmd') <= C(cmd)
    BY ONLY <2>2, <2>4, <2>5, <1>1, LeftValues DEF CmdPC
  <2>7. O(orphan') <= O(orphan)
    BY ONLY <2>2, <2>5, <1>1, LeftValues
  <2>8. \/ S(shim') < S(shim)
        \/ shim' = shim /\ O(orphan') < O(orphan)
    <3>1. CASE ShimAlive /\ shim' \in {"zombie", "reaped"}
      <4>1. S(shim) > 1
        BY ONLY <3>1, <2>5, LeftValues DEF ShimPC, ShimAlive
      <4>2. S(shim') \in {0, 1}
        BY ONLY <3>1, LeftValues
      <4> HIDE DEF S, O
      <4> QED
        BY ONLY <4>1, <4>2, <1>1
    <3>2. CASE ~ (ShimAlive /\ shim' \in {"zombie", "reaped"})
      BY ONLY <3>2, <2>3, LeftValues
    <3> QED
      BY ONLY <3>1, <3>2
  <2> HIDE DEF B, S, C, O
  <2> QED
    BY ONLY <1>1, <1>2, <2>1, <2>6, <2>7, <2>8
<1>5. CASE CmdExec \/ CmdExits \/ CmdSignaled \/ OrphanEnds
  <2>1. boxed' = boxed /\ shim' = shim
    BY <1>5
  <2>2. \/ cmd = "forked" /\ cmd' = "running" /\ orphan' = orphan
        \/ CmdAlive /\ cmd' \in {"zombie", "reaped"} /\ orphan' = orphan
        \/ cmd' = cmd /\ orphan = "alive" /\ orphan' \in {"none", "zombie"}
    BY <1>5
  <2>3. \/ C(cmd') < C(cmd) /\ orphan' = orphan
        \/ cmd' = cmd /\ O(orphan') < O(orphan)
    BY ONLY <2>2, LeftValues DEF CmdAlive
  <2> HIDE DEF B, S, C, O
  <2> QED
    BY ONLY <1>1, <1>2, <2>1, <2>3
<1>6. CASE KillBoxed
  <2>1. /\ boxed \in BoxedPC \ {"exited", "killed"} /\ boxed' = "killed"
        /\ cmd' = cmd /\ orphan' = orphan
        /\ \/ shim' = shim
           \/ shim = "zombie" /\ shim' = "reaped"
    BY <1>6 DEF RunInv, TypeOK
  <2>2. B(boxed') < B(boxed)
    BY ONLY <2>1, LeftValues DEF BoxedPC
  <2>3. S(shim') <= S(shim)
    BY ONLY <2>1, <1>1, LeftValues
  <2> HIDE DEF B, S, C, O
  <2> QED
    BY ONLY <1>1, <1>2, <2>1, <2>2, <2>3
<1>7. Finished => UNCHANGED vars
  OBVIOUS
<1> QED
  <2> HIDE DEF vars, Finished, ShimStep, BoxedStep
  <2> QED
    BY ONLY [Next]_vars, <1>3, <1>4, <1>5, <1>6, <1>7 DEF Next, Environment

----------------------------------------------------------------------------
(***************************************************************************)
(* The theorems.                                                           *)
(***************************************************************************)
HIDE DEF Next, vars

\* RunInv holds of every reachable state, for any codes and signals.
THEOREM Invariance == Spec => []RunInv
<1>1. Init => RunInv
  <2>1. Init => TypeOK
    BY DEF Init, TypeOK, BoxedPC, ShimPC, CmdPC, NotYet, NoStatus
  <2>2. Init => CommandOnlyAfterSetup /\ HostOrder /\ Handshake /\ ShimOrder
    BY DEF Init, CommandOnlyAfterSetup, Started, HostOrder, Handshake, ShimOrder,
           AfterRead, SettingUp
  <2>3. Init => Lifetimes
    BY DEF Init, Lifetimes
  <2>4. Init => StatusChain
    BY DEF Init, StatusChain, NoStatus, Exited, NotYet
  <2>5. Init => PipeEnds
    BY DEF Init, PipeEnds
  <2> QED
    BY <2>1, <2>2, <2>3, <2>4, <2>5 DEF RunInv
<1>2. RunInv /\ [Next]_vars => RunInv'
  <2> SUFFICES ASSUME RunInv, [Next]_vars PROVE RunInv'
    OBVIOUS
  <2>1. TypeOK'
    BY ONLY RunInv, [Next]_vars, TypeStep DEF RunInv
  <2>2. CommandOnlyAfterSetup' /\ HostOrder' /\ Handshake'
    BY ONLY RunInv, [Next]_vars, CommandOnlyAfterSetupStep, HostOrderStep, HandshakeStep
  <2>3. ShimOrder' /\ Lifetimes' /\ StatusChain'
    BY ONLY RunInv, [Next]_vars, ShimOrderStep, LifetimesStep, StatusChainStep
  <2>4. PipeEnds'
    BY ONLY RunInv, [Next]_vars, PipeEndsStep
  <2> QED
    BY ONLY <2>1, <2>2, <2>3, <2>4 DEF RunInv
<1> QED
  BY <1>1, <1>2, PTL DEF Spec

\* The run is well typed.
THEOREM TypeCorrect == Spec => []TypeOK
<1>1. RunInv => TypeOK
  BY DEF RunInv
<1> QED
  BY <1>1, Invariance, PTL

\* No command without its whole setup.
THEOREM SetupBeforeCommand == Spec => []CommandOnlyAfterSetup
<1>1. RunInv => CommandOnlyAfterSetup
  BY DEF RunInv
<1> QED
  BY <1>1, Invariance, PTL

\* boxed never returns with a child or a container left.
THEOREM ChildrenReaped == Spec => []NoLeakedChild
<1>1. RunInv => NoLeakedChild
  BY DEF RunInv, Lifetimes, NoLeakedChild, Handshake
<1> QED
  BY <1>1, Invariance, PTL

\* boxed never returns owning a cgroup.
THEOREM CgroupIsReleased == Spec => []CgroupReleased
<1>1. RunInv => CgroupReleased
  BY DEF RunInv, Lifetimes, CgroupReleased
<1> QED
  BY <1>1, Invariance, PTL

\* boxed never returns with a scratch directory that it has not tried to remove.
THEOREM ScratchIsReleased == Spec => []ScratchReleased
<1>1. RunInv => ScratchReleased
  BY DEF RunInv, Lifetimes, ScratchReleased
<1> QED
  BY <1>1, Invariance, PTL

\* The exit code boxed returns is the command's, or names the shim's killer.
THEOREM StatusReported == Spec => []ReportedStatus
<1>1. RunInv => ReportedStatus
  <2> SUFFICES ASSUME RunInv, boxed = "exited", setup = "ok", "nochld" \notin opts
               PROVE  /\ shimStatus.how = "signaled" => exitCode = 128 + shimStatus.n
                      /\ shimStatus.how = "exited" /\ "relay" \in applied =>
                            exitCode = ExitCode(cmdStatus)
    BY DEF ReportedStatus
  <2>1. CASE shim = "none"
    <3>1. shimStatus = NoStatus
      BY <2>1 DEF RunInv, StatusChain
    <3> QED
      BY <3>1 DEF NoStatus
  <2>2. CASE shim = "reaped"
    <3>1. exitCode = ExitCode(shimStatus)
      BY <2>2 DEF RunInv, StatusChain
    <3> QED
      BY <3>1 DEF RunInv, StatusChain, ExitCode
  <2> QED
    BY <2>1, <2>2 DEF RunInv, Lifetimes
<1> QED
  BY <1>1, Invariance, PTL

\* No failure anywhere is reported as success.
THEOREM ZeroIsSuccess == Spec => []ZeroMeansSuccess
<1>1. RunInv => ZeroMeansSuccess
  BY DEF RunInv, StatusChain, ZeroMeansSuccess
<1> QED
  BY <1>1, Invariance, PTL

\* A run's directories are taken away only once the container is dead.
THEOREM CleanupLast == Spec => CleanupAfterContainer
BY CleanupStep, Invariance, PTL DEF Spec, CleanupAfterContainer

\* Whoever blocks waits for somebody who does not: there is no deadlock between boxed,
\* the shim and the command, whatever has failed.
THEOREM NoDeadlock == Spec => []NobodyWaitsInCircle
<1>1. RunInv => NobodyWaitsInCircle
  <2> SUFFICES ASSUME RunInv PROVE NobodyWaitsInCircle
    OBVIOUS
  <2> USE DEF RunInv, TypeOK
  <2>1. ShimAtPipe => BoxedAlive /\ ~BoxedWaits
    BY DEF PipeEnds, ShimAtPipe, BoxedWaits
  <2>2. ShimAtReap => CmdAlive \/ orphan = "alive"
    BY DEF Lifetimes, CmdPC, ShimAtReap
  <2> QED
    BY <2>1, <2>2 DEF NobodyWaitsInCircle
<1> QED
  BY <1>1, Invariance, PTL

\* Every step but the user's own forks brings the run nearer to its end.
THEOREM StepsAreFinite == Spec => StepsRunOut
<1>1. RunInv /\ RunInv' /\ [Next]_vars => [Left' < Left \/ CmdLeavesOrphan]_vars
  BY LeftStep DEF RunInv
<1> QED
  BY <1>1, Invariance, PTL DEF Spec, StepsRunOut


\* Every behaviour of the run is one the contract allows: the two-process
\* protocol, with its failures and kills, keeps the promises made to the user.
THEOREM Implements == Spec => ImplementsContract
<1>1. Init => Contract!Init
  BY DEF Init, Contract!Init, NoStatus, NotYet, Contract!NoEnd, Contract!NoReport
<1>2. RunInv /\ RunInv' /\ [Next]_vars => [Contract!Next]_(Contract!vars)
  BY ONLY ViewStep
<1> QED
  BY <1>1, <1>2, Invariance, PTL DEF Spec, ImplementsContract, Contract!Spec

====
