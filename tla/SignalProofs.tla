--------------------------- MODULE SignalProofs ---------------------------
(***************************************************************************)
(* Proofs about SignalForwarding, for any number of forwarded signals in   *)
(* any order.                                                              *)
(*                                                                         *)
(* SignalInv adds to the type what each control point knows: how far the other  *)
(* processes are (Together, Family), which handlers are in (Handlers), who *)
(* holds a mask (Masks) and where a handler sends what it gets (Route).  A *)
(* signal then finds a live process that would discard it, or die of it,   *)
(* only where the properties allow that, and what is owed to the command   *)
(* changes hands without being dropped (OwedOnItsWay).                     *)
(* Each conjunct has a lemma that goes through the transition relation;    *)
(* Signal, which four of the actions share, is dealt with once.            *)
(***************************************************************************)
EXTENDS SignalForwarding, TLAPS

\* The transition relation is looked into by every step lemma.
USE DEF Next, BoxedStep, ShimStep, CmdStep, Handler, Environment, Finished, vars,
        procVars, maskVars, fateVars,
        BoxedSetup, BoxedInstall, BoxedGo, BoxedReap, BoxedExit, BoxedForward,
        Armed, AfterEintr, ShimGoes,
        ShimRead, ShimConfine, ShimBlock, ShimFork, ShimStore, ShimInstall,
        ShimUnblock, ShimReap, ShimExit, ShimForward,
        BlockMask, UnblockMask, AfterReap, LiftMask,
        CmdUnblock, CmdExec, CmdCatches, CmdSetuid, CmdEnds, UserSignal, CtrlC

\* All handlers in means a handler for every forwarded signal.
LEMMA AllInstalled ==
  ASSUME NEW p \in {"boxed", "shim"}, installed[p] = Len(Order)
  PROVE  Installed(p) = Forwarded
<1>1. DOMAIN Order = 1..Len(Order)
  BY OrderAssumption
<1> QED
  BY <1>1 DEF Installed, Forwarded

\* What a signal sent to the processes in R can do to boxed and the command: it
\* ends a boxed without the handler, and a live command; the rest is bookkeeping.
LEMMA SignalEffect ==
  ASSUME TypeOK, NEW s \in Forwarded, NEW R \in SUBSET Procs,
         NEW from \in Procs \cup {"nobody"}, Signal(from, R, s)
  PROVE  /\ boxed' = boxed \/ (boxed' = "killed" /\ "boxed" \in R /\ Alive("boxed")
                                 /\ ~Holds("boxed", s))
         /\ cmd' = cmd \/ (cmd' = "zombie" /\ Alive("cmd"))
         /\ discarded' = discarded \/ (discarded' = discarded \cup {s}
                                         /\ Alive("shim") /\ ~Holds("shim", s))
         /\ owed' \subseteq owed \cup {s}
         /\ pending' \in [Procs -> SUBSET Forwarded]
         /\ pending'["cmd"] \subseteq pending["cmd"]
              \cup {t \in {s} : "cmd" \in R /\ Holds("cmd", s)}
<1>1. pending \in [Procs -> SUBSET Forwarded]
  BY DEF TypeOK
<1>2. pending' = [p \in Procs |->
          (IF p = from THEN pending[p] \ {s} ELSE pending[p])
              \cup {t \in {s} : p \in R /\ Holds(p, s)}]
  BY DEF Signal
<1>3. pending' \in [Procs -> SUBSET Forwarded]
  BY <1>1, <1>2
<1>4. pending'["cmd"] \subseteq pending["cmd"]
              \cup {t \in {s} : "cmd" \in R /\ Holds("cmd", s)}
  BY <1>2 DEF Procs
<1>5. /\ boxed' = boxed \/ (boxed' = "killed" /\ "boxed" \in R /\ Alive("boxed")
                                 /\ ~Holds("boxed", s))
      /\ cmd' = cmd \/ (cmd' = "zombie" /\ Alive("cmd"))
      /\ discarded' = discarded \/ (discarded' = discarded \cup {s}
                                      /\ Alive("shim") /\ ~Holds("shim", s))
      /\ owed' \subseteq owed \cup {s}
  BY DEF Signal
<1> QED
  BY <1>3, <1>4, <1>5

\* Every step is one of a process of its own, a handler's, or a signal's sending.
LEMMA StepCases ==
  ASSUME [Next]_vars
  PROVE  \/ BoxedStep \/ ShimStep \/ CmdStep
         \/ CmdCatches \/ CmdSetuid \/ CmdEnds \/ UNCHANGED vars
         \/ \E s \in Forwarded : BoxedForward(s)
         \/ \E s \in Forwarded : ShimForward(s)
         \/ \E s \in Forwarded : UserSignal(s) \/ CtrlC(s)
BY ONLY [Next]_vars DEF Next, Handler, Environment, Finished

\* A user's signal is a Signal to some processes, and nothing else.
LEMMA Sending ==
  ASSUME TypeOK, NEW s \in Forwarded, UserSignal(s) \/ CtrlC(s)
  PROVE  /\ \E R \in SUBSET Procs : Signal("nobody", R, s)
         /\ UNCHANGED <<shim, maskVars, program, stray>>
BY DEF Procs

----------------------------------------------------------------------------
(***************************************************************************)
(* The steps preserve the invariant.                                       *)
(***************************************************************************)
\* Every step keeps the variables in their types.
LEMMA TypeStep ==
  ASSUME TypeOK, [Next]_vars PROVE TypeOK'
<1> USE DEF TypeOK
<1>1. CASE BoxedStep
  <2>1. CASE BoxedInstall
    <3>1. Len(Order) \in Nat
      BY OrderAssumption
    <3>2. installed' \in [{"boxed", "shim"} -> 0..Len(Order)]
      BY <2>1, <3>1
    <3> QED
      BY <2>1, <3>2 DEF BoxedPC
  <2>2. CASE BoxedSetup
    <3>1. target' \in [{"boxed", "shim"} -> Procs \cup {"none"}]
      BY <2>2 DEF Procs
    <3> QED
      BY <2>2, <3>1 DEF BoxedPC
  <2>3. CASE BoxedGo \/ BoxedReap \/ BoxedExit
    BY <2>3 DEF BoxedPC, ShimPC
  <2> QED
    BY <1>1, <2>1, <2>2, <2>3
<1>2. CASE ShimStep
  <2>1. CASE ShimInstall
    <3>1. Len(Order) \in Nat
      BY OrderAssumption
    <3>2. installed' \in [{"boxed", "shim"} -> 0..Len(Order)]
      BY <2>1, <3>1
    <3> QED
      BY <2>1, <3>2 DEF ShimPC
  <2>2. CASE ShimRead \/ ShimConfine \/ ShimReap \/ ShimExit
    BY <2>2 DEF ShimPC, CmdPC
  <2>3. CASE ShimBlock \/ ShimFork \/ ShimUnblock
    BY <2>3 DEF ShimPC, CmdPC, Procs
  <2>4. CASE ShimStore
    BY <2>4 DEF ShimPC, Procs
  <2> QED
    BY <1>2, <2>1, <2>2, <2>3, <2>4
<1>3. CASE CmdStep \/ CmdCatches \/ CmdSetuid \/ CmdEnds
  BY <1>3 DEF CmdPC
<1>4. CASE UNCHANGED vars
  BY <1>4
<1>5. ASSUME NEW s \in Forwarded, BoxedForward(s) PROVE TypeOK'
  BY <1>5 DEF MayHitStranger, Procs
<1>6. ASSUME NEW s \in Forwarded, ShimForward(s) PROVE TypeOK'
  <2>1. stray' \subseteq Forwarded
    BY <1>6 DEF MayHitStranger
  <2>2. UNCHANGED <<shim, target, installed, blocked, program>>
    BY <1>6
  <2>3. CASE Signal("shim", {"cmd"}, s)
    <3> HIDE DEF ShimForward
    <3>1. {"cmd"} \in SUBSET Procs /\ "shim" \in Procs \cup {"nobody"}
      BY DEF Procs
    <3>2. /\ boxed' \in BoxedPC /\ cmd' \in CmdPC
          /\ discarded' \subseteq Forwarded /\ owed' \subseteq Forwarded
          /\ pending' \in [Procs -> SUBSET Forwarded]
      BY <2>3, <3>1, SignalEffect DEF BoxedPC, CmdPC
    <3> QED
      BY <2>1, <2>2, <3>2
  <2>4. CASE UNCHANGED <<boxed, cmd, owed, discarded>>
             /\ pending' = [pending EXCEPT !["shim"] = @ \ {s}]
    BY <2>1, <2>2, <2>4
  <2> QED
    BY <1>6, <2>3, <2>4
<1>7. ASSUME NEW s \in Forwarded, UserSignal(s) \/ CtrlC(s) PROVE TypeOK'
  <2>1. PICK R \in SUBSET Procs : Signal("nobody", R, s)
    BY <1>7, Sending
  <2>2. /\ boxed' \in BoxedPC /\ cmd' \in CmdPC
        /\ discarded' \subseteq Forwarded /\ owed' \subseteq Forwarded
        /\ pending' \in [Procs -> SUBSET Forwarded]
    BY <2>1, SignalEffect DEF BoxedPC, CmdPC
  <2> QED
    BY <1>7, <2>2, Sending
<1> QED
  BY ONLY <1>1, <1>2, <1>3, <1>4, <1>5, <1>6, <1>7, [Next]_vars, StepCases

\* The shim is at the pipe until the go-ahead, and boxed in its wait until the
\* shim is reaped: with all handlers in, a signal does not end that wait.
LEMMA TogetherStep ==
  ASSUME SignalInv, [Next]_vars PROVE Together'
<1> USE DEF SignalInv, Together
<1>1. CASE BoxedStep
  BY <1>1
<1>2. CASE ShimStep
  BY <1>2
<1>3. CASE CmdStep \/ CmdCatches \/ CmdSetuid \/ CmdEnds
  BY <1>3
<1>4. CASE UNCHANGED vars
  BY <1>4
<1>5. ASSUME NEW s \in Forwarded, BoxedForward(s) PROVE Together'
  BY <1>5
<1>8. ASSUME NEW s \in Forwarded, NEW R \in SUBSET Procs,
             NEW from \in Procs \cup {"nobody"}, Signal(from, R, s), shim' = shim
      PROVE  Together'
  <2>1. boxed' = boxed \/ (boxed' = "killed" /\ Alive("boxed") /\ ~Holds("boxed", s))
    BY <1>8, SignalEffect
  <2>2. ~Holds("boxed", s) /\ Alive("boxed") => boxed # "wait"
    BY AllInstalled DEF Holds, Handlers
  <2>3. Alive("boxed") => boxed # "exited"
    BY DEF Alive
  <2>4. boxed \in BoxedPC
    BY DEF TypeOK
  <2> QED
    BY <1>8, <2>1, <2>2, <2>3, <2>4 DEF BoxedPC
<1>6. ASSUME NEW s \in Forwarded, ShimForward(s) PROVE Together'
  <2>1. CASE Signal("shim", {"cmd"}, s)
    BY <1>6, <1>8, <2>1 DEF Procs
  <2>2. CASE UNCHANGED <<boxed, shim>>
    BY <2>2
  <2> QED
    BY <1>6, <2>1, <2>2
<1>7. ASSUME NEW s \in Forwarded, UserSignal(s) \/ CtrlC(s) PROVE Together'
  BY <1>7, <1>8, Sending
<1> QED
  BY ONLY <1>1, <1>2, <1>3, <1>4, <1>5, <1>6, <1>7, [Next]_vars, StepCases

\* The command comes with the fork, and is reaped by the last of the shim's waits.
LEMMA FamilyStep ==
  ASSUME SignalInv, [Next]_vars PROVE Family'
<1> USE DEF SignalInv, Family
<1>1. CASE BoxedStep
  <2>1. target'["shim"] = target["shim"]
    BY <1>1 DEF TypeOK
  <2> QED
    BY <1>1, <2>1 DEF Together
<1>2. CASE ShimStep
  <2>1. CASE ShimStore
    <3>1. target'["shim"] = "cmd"
      BY <2>1 DEF TypeOK
    <3> QED
      BY <2>1, <3>1
  <2>2. CASE ~ShimStore
    <3>1. target' = target
      BY <1>2, <2>2
    <3> QED
      BY <1>2, <2>2, <3>1
  <2> QED
    BY <2>1, <2>2
<1>3. CASE CmdStep \/ CmdCatches \/ CmdSetuid \/ CmdEnds
  BY <1>3
<1>4. CASE UNCHANGED vars
  BY <1>4
<1>5. ASSUME NEW s \in Forwarded, BoxedForward(s) PROVE Family'
  BY <1>5
<1>8. ASSUME NEW s \in Forwarded, NEW R \in SUBSET Procs,
             NEW from \in Procs \cup {"nobody"}, Signal(from, R, s),
             UNCHANGED <<shim, target>>
      PROVE  Family'
  <2>1. cmd' = cmd \/ (cmd' = "zombie" /\ Alive("cmd"))
    BY <1>8, SignalEffect
  <2>2. Alive("cmd") => cmd # "none"
    BY DEF Alive
  <2> QED
    BY <1>8, <2>1, <2>2
<1>6. ASSUME NEW s \in Forwarded, ShimForward(s) PROVE Family'
  <2>1. CASE Signal("shim", {"cmd"}, s)
    BY <1>6, <1>8, <2>1 DEF Procs
  <2>2. CASE UNCHANGED <<cmd, shim, target>>
    BY <2>2
  <2> QED
    BY <1>6, <2>1, <2>2
<1>7. ASSUME NEW s \in Forwarded, UserSignal(s) \/ CtrlC(s) PROVE Family'
  BY <1>7, <1>8, Sending
<1> QED
  BY ONLY <1>1, <1>2, <1>3, <1>4, <1>5, <1>6, <1>7, [Next]_vars, StepCases

\* Nobody leaves its install loop before the last handler.
LEMMA HandlersStep ==
  ASSUME SignalInv, [Next]_vars PROVE Handlers'
<1> USE DEF SignalInv, Handlers
<1>1. CASE BoxedStep
  BY <1>1 DEF Together, TypeOK
<1>2. CASE ShimStep
  BY <1>2 DEF TypeOK, Together
<1>3. CASE CmdStep \/ CmdCatches \/ CmdSetuid \/ CmdEnds
  BY <1>3
<1>4. CASE UNCHANGED vars
  BY <1>4
<1>5. ASSUME NEW s \in Forwarded, BoxedForward(s) PROVE Handlers'
  BY <1>5
<1>8. ASSUME NEW s \in Forwarded, NEW R \in SUBSET Procs,
             NEW from \in Procs \cup {"nobody"}, Signal(from, R, s),
             UNCHANGED <<shim, installed>>
      PROVE  Handlers'
  BY <1>8, SignalEffect
<1>6. ASSUME NEW s \in Forwarded, ShimForward(s) PROVE Handlers'
  <2>1. CASE Signal("shim", {"cmd"}, s)
    BY <1>6, <1>8, <2>1 DEF Procs
  <2>2. CASE UNCHANGED <<boxed, shim, installed>>
    BY <2>2
  <2> QED
    BY <1>6, <2>1, <2>2
<1>7. ASSUME NEW s \in Forwarded, UserSignal(s) \/ CtrlC(s) PROVE Handlers'
  BY <1>7, <1>8, Sending
<1> QED
  BY ONLY <1>1, <1>2, <1>3, <1>4, <1>5, <1>6, <1>7, [Next]_vars, StepCases

\* The mask is on in the shim from before the fork to after its handlers, and a
\* command that has lifted it never holds a signal again.
LEMMA MasksStep ==
  ASSUME SignalInv, [Next]_vars PROVE Masks'
<1> USE DEF SignalInv, Masks
<1>1. CASE BoxedStep
  BY <1>1 DEF Together
<1>2. CASE ShimStep
  BY <1>2 DEF Family
<1>3. CASE CmdStep \/ CmdCatches \/ CmdSetuid \/ CmdEnds
  BY <1>3
<1>4. CASE UNCHANGED vars
  BY <1>4
<1>5. ASSUME NEW s \in Forwarded, BoxedForward(s) PROVE Masks'
  BY <1>5 DEF TypeOK, Procs
<1>8. ASSUME NEW s \in Forwarded, NEW R \in SUBSET Procs,
             NEW from \in Procs \cup {"nobody"}, Signal(from, R, s),
             UNCHANGED <<shim, blocked>>
      PROVE  Masks'
  <2>1. cmd' \in {"unmasked", "running"} => cmd' = cmd
    BY <1>8, SignalEffect
  <2>2. pending'["cmd"] \subseteq pending["cmd"]
              \cup {t \in {s} : "cmd" \in R /\ Holds("cmd", s)}
    BY <1>8, SignalEffect
  <2>3. "cmd" \notin blocked => ~Holds("cmd", s)
    BY DEF Holds
  <2> QED
    BY <1>8, <2>1, <2>2, <2>3
<1>6. ASSUME NEW s \in Forwarded, ShimForward(s) PROVE Masks'
  <2>1. CASE Signal("shim", {"cmd"}, s)
    BY <1>6, <1>8, <2>1 DEF Procs
  <2>2. CASE /\ UNCHANGED <<cmd, shim, blocked>>
             /\ pending' = [pending EXCEPT !["shim"] = @ \ {s}]
    BY <2>2 DEF TypeOK, Procs
  <2> QED
    BY <1>6, <2>1, <2>2
<1>7. ASSUME NEW s \in Forwarded, UserSignal(s) \/ CtrlC(s) PROVE Masks'
  BY <1>7, <1>8, Sending
<1> QED
  BY ONLY <1>1, <1>2, <1>3, <1>4, <1>5, <1>6, <1>7, [Next]_vars, StepCases

\* A shim short of its block holds nothing back and handles nothing.
LEMMA ShimEarly ==
  ASSUME Route, NEW s \in Forwarded, shim \in {"read", "confine", "block"}
  PROVE  ~Holds("shim", s) /\ ~ShimAccepts
BY DEF Route, Holds, Installed, ShimAccepts

\* The handlers' targets are set before the handlers, and nothing is taken in for a
\* container before its block.
LEMMA RouteStep ==
  ASSUME SignalInv, [Next]_vars PROVE Route'
<1> USE DEF SignalInv, Route
<1>1. CASE BoxedStep
  BY <1>1 DEF Together, TypeOK
<1>2. CASE ShimStep
  BY <1>2 DEF Together, TypeOK
<1>3. CASE CmdStep \/ CmdCatches \/ CmdSetuid \/ CmdEnds
  BY <1>3
<1>4. CASE UNCHANGED vars
  BY <1>4
<1>9. ASSUME NEW s \in Forwarded, shim \in {"read", "confine", "block"}
      PROVE  ~Holds("shim", s)
  BY <1>9, ShimEarly
<1>5. ASSUME NEW s \in Forwarded, BoxedForward(s) PROVE Route'
  <2>1. ~Holds("shim", s) => pending'["shim"] = pending["shim"]
    BY <1>5 DEF TypeOK, Procs
  <2> QED
    BY <1>5, <1>9, <2>1
<1>8. ASSUME NEW s \in Forwarded, NEW R \in SUBSET Procs,
             NEW from \in Procs \cup {"nobody"}, Signal(from, R, s),
             UNCHANGED <<shim, maskVars>>
      PROVE  Route'
  <2>1. boxed' = "install" => boxed = "install"
    BY <1>8, SignalEffect
  <2>2. ~Holds("shim", s) => pending'["shim"] \subseteq pending["shim"]
    BY <1>8 DEF Signal, Procs
  <2>3. shim \in {"read", "confine", "block"} => owed' = {}
    BY <1>8, <1>9 DEF Signal, ShimAccepts
  <2> QED
    BY <1>8, <1>9, <2>1, <2>2, <2>3
<1>6. ASSUME NEW s \in Forwarded, ShimForward(s) PROVE Route'
  <2>1. CASE Signal("shim", {"cmd"}, s)
    BY <1>6, <1>8, <2>1 DEF Procs
  <2>2. CASE /\ UNCHANGED <<boxed, shim, maskVars, owed>>
             /\ pending' = [pending EXCEPT !["shim"] = @ \ {s}]
    BY <2>2 DEF TypeOK, Procs
  <2> QED
    BY <1>6, <2>1, <2>2
<1>7. ASSUME NEW s \in Forwarded, UserSignal(s) \/ CtrlC(s) PROVE Route'
  BY <1>7, <1>8, Sending
<1> QED
  BY ONLY <1>1, <1>2, <1>3, <1>4, <1>5, <1>6, <1>7, [Next]_vars, StepCases

\* A shim past its block holds every forwarded signal, by its mask or a handler,
\* and knows whom to send it to before it lifts the mask.
LEMMA ShimHolds ==
  ASSUME SignalInv, ~CommandOver, shim \notin {"read", "confine", "block"}
  PROVE  /\ Alive("shim") /\ ("shim" \in blocked \/ target["shim"] = "cmd")
         /\ \A s \in Forwarded : Holds("shim", s)
<1>1. Alive("shim")
  BY DEF CommandOver
<1>2. shim \in {"fork", "store", "install", "unblock", "reap", "exit"}
  BY <1>1 DEF SignalInv, TypeOK, ShimPC, Alive
<1>3. CASE shim \in {"fork", "store", "install", "unblock"}
  BY <1>1, <1>3 DEF SignalInv, Masks, Holds
<1>4. CASE shim \in {"reap", "exit"}
  BY <1>1, <1>4, AllInstalled DEF SignalInv, Handlers, Holds, Route
<1> QED
  BY <1>2, <1>3, <1>4

\* While something is owed to a live command boxed waits, with all its handlers.
LEMMA BoxedHolds ==
  ASSUME SignalInv, ~CommandOver, shim \notin {"read", "confine", "block"}
  PROVE  /\ boxed = "wait" /\ Alive("boxed") /\ target["boxed"] = "shim"
         /\ \A s \in Forwarded : Holds("boxed", s)
<1>1. shim \notin {"zombie", "reaped"}
  BY DEF CommandOver, Alive
<1>2. boxed = "wait"
  BY <1>1 DEF SignalInv, TypeOK, BoxedPC, Together
<1>3. installed["boxed"] = Len(Order)
  BY <1>2 DEF SignalInv, Handlers
<1>4. Len(Order) # 0
  BY OrderAssumption
<1> QED
  BY <1>2, <1>3, <1>4, AllInstalled DEF SignalInv, Route, Alive, Holds

\* A command that is over stays so, and so does its user id.
LEMMA OverForGood ==
  ASSUME SignalInv, [Next]_vars
  PROVE  (CommandOver => CommandOver') /\ (~MayKill => ~MayKill')
<1> USE DEF CommandOver, Alive, MayKill
<1>1. CASE BoxedStep
  BY <1>1
<1>2. CASE ShimStep
  BY <1>2 DEF SignalInv, Family
<1>3. CASE CmdStep \/ CmdCatches \/ CmdSetuid \/ CmdEnds
  BY <1>3
<1>4. CASE UNCHANGED vars
  BY <1>4
<1>5. ASSUME NEW s \in Forwarded, BoxedForward(s)
      PROVE  (CommandOver => CommandOver') /\ (~MayKill => ~MayKill')
  BY <1>5
<1>8. ASSUME NEW s \in Forwarded, NEW R \in SUBSET Procs,
             NEW from \in Procs \cup {"nobody"}, Signal(from, R, s),
             UNCHANGED <<shim, program>>
      PROVE  (CommandOver => CommandOver') /\ (~MayKill => ~MayKill')
  <2>1. cmd' = cmd \/ (cmd' = "zombie" /\ cmd \in {"forked", "unmasked", "running"})
    BY <1>8, SignalEffect DEF SignalInv
  <2> QED
    BY ONLY <1>8, <2>1 DEF CommandOver, Alive, MayKill
<1>6. ASSUME NEW s \in Forwarded, ShimForward(s)
      PROVE  (CommandOver => CommandOver') /\ (~MayKill => ~MayKill')
  <2>1. CASE Signal("shim", {"cmd"}, s)
    BY <1>6, <1>8, <2>1 DEF Procs
  <2>2. CASE UNCHANGED <<cmd, shim, program>>
    BY <2>2
  <2> QED
    BY <1>6, <2>1, <2>2
<1>7. ASSUME NEW s \in Forwarded, UserSignal(s) \/ CtrlC(s)
      PROVE  (CommandOver => CommandOver') /\ (~MayKill => ~MayKill')
  BY <1>7, <1>8, Sending DEF SignalInv
<1> QED
  BY ONLY <1>1, <1>2, <1>3, <1>4, <1>5, <1>6, <1>7, [Next]_vars, StepCases

\* What is owed goes from boxed to the shim and from there to the command, and is
\* dropped on neither way.
LEMMA OwedStep ==
  ASSUME SignalInv, [Next]_vars PROVE OwedOnItsWay'
<1> SUFFICES ASSUME ~CommandOver', MayKill', NEW t \in owed'
             PROVE  OnItsWay(t)'
  BY DEF OwedOnItsWay
<1>a. ~CommandOver /\ MayKill
  BY OverForGood
<1>b. t \in owed => OnItsWay(t) /\ shim \notin {"read", "confine", "block"}
  BY <1>a DEF SignalInv, OwedOnItsWay, Route
<1>c. shim \notin {"read", "confine", "block"} =>
         /\ boxed = "wait" /\ target["boxed"] = "shim" /\ Alive("boxed") /\ Alive("shim")
         /\ "shim" \in blocked \/ target["shim"] = "cmd"
         /\ \A s \in Forwarded : Holds("boxed", s) /\ Holds("shim", s)
  BY ONLY SignalInv, <1>a, ShimHolds, BoxedHolds
<1>d. Alive("shim")'
  BY DEF CommandOver
<1>1. CASE BoxedStep
  <2>1. t \in owed
    BY <1>1
  <2>2. boxed = "wait" /\ Alive("shim")
    BY ONLY <2>1, <1>b, <1>c
  <2> QED
    BY <1>1, <2>2 DEF Alive
<1>2. CASE ShimStep
  <2>1. t \in owed /\ UNCHANGED <<boxed, pending, owed>>
    BY <1>2, <1>d DEF Alive
  <2>2. target'["boxed"] = target["boxed"]
    BY <1>2 DEF SignalInv, TypeOK
  <2>3. "shim" \in blocked' \/ target'["shim"] = "cmd"
    <3>1. CASE ShimUnblock
      BY <3>1 DEF SignalInv, Route
    <3>2. CASE ShimStore
      BY <3>2 DEF SignalInv, TypeOK
    <3>3. CASE ~ (ShimUnblock \/ ShimStore)
      <4>1. target' = target /\ blocked \subseteq blocked'
        BY <1>2, <3>3
      <4> QED
        BY ONLY <1>b, <1>c, <2>1, <4>1
    <3> QED
      BY <3>1, <3>2, <3>3
  <2> QED
    BY ONLY <1>b, <1>d, <2>1, <2>2, <2>3 DEF OnItsWay, Alive
<1>3. CASE CmdStep \/ CmdCatches \/ CmdSetuid \/ CmdEnds
  <2>1. /\ t \in owed /\ UNCHANGED <<boxed, shim, pending, target>>
        /\ "shim" \in blocked => "shim" \in blocked'
    BY <1>3
  <2> QED
    BY ONLY <1>b, <2>1 DEF OnItsWay, Alive
<1>4. CASE UNCHANGED vars
  BY ONLY <1>b, <1>4 DEF vars, procVars, maskVars, fateVars, OnItsWay, Alive
<1>5. ASSUME NEW s \in Forwarded, BoxedForward(s) PROVE OnItsWay(t)'
  <2>1. t \in owed /\ UNCHANGED <<boxed, shim, maskVars>>
    BY <1>5
  <2>2. OnItsWay(t) /\ Holds("shim", s) /\ ("shim" \in blocked \/ target["shim"] = "cmd")
    BY ONLY <1>b, <1>c, <2>1, s \in Forwarded
  <2>3. /\ t # s /\ t \in pending["boxed"] => t \in pending'["boxed"]
        /\ t \in pending["shim"] \/ t = s => t \in pending'["shim"]
    BY <1>5, <2>2 DEF SignalInv, TypeOK, Procs
  <2> QED
    BY ONLY <1>d, <2>1, <2>2, <2>3 DEF OnItsWay, Alive, maskVars
<1>6. ASSUME NEW s \in Forwarded, ShimForward(s) PROVE OnItsWay(t)'
  <2>1. t \in owed /\ UNCHANGED <<shim, maskVars>>
    BY <1>6 DEF Signal
  <2>2. target["shim"] = "cmd" /\ boxed = "wait" /\ Alive("boxed") /\ OnItsWay(t)
    BY <1>6, <1>b, <1>c, <2>1
  <2>3. Signal("shim", {"cmd"}, s)
    BY <1>6, <1>a, <2>2
  <2>4. t # s /\ boxed' = boxed
    BY <2>3, <2>2 DEF Signal
  <2>5. /\ t \in pending["boxed"] => t \in pending'["boxed"]
        /\ t \in pending["shim"] => t \in pending'["shim"]
    BY <2>3, <2>4 DEF Signal, Procs
  <2> QED
    BY ONLY <2>1, <2>2, <2>4, <2>5 DEF OnItsWay, Alive, maskVars
<1>7. ASSUME NEW s \in Forwarded, UserSignal(s) \/ CtrlC(s) PROVE OnItsWay(t)'
  <2>0. PICK R \in SUBSET Procs : Signal("nobody", R, s)
    BY <1>7, Sending DEF SignalInv
  <2>1. UNCHANGED <<shim, maskVars>>
    BY <1>7, Sending DEF SignalInv
  <2>2. \A p \in {"boxed", "shim"} : pending[p] \subseteq pending'[p]
                                   /\ (p \in R /\ Holds(p, s) => s \in pending'[p])
    BY <2>0 DEF Signal, Procs
  <2> DEFINE TakenIn == \/ "boxed" \in R /\ Holds("boxed", s) /\ ShimAccepts
                        \/ "shim" \in R /\ Holds("shim", s)
  <2>a. t \in owed \/ (t = s /\ TakenIn)
    <3>1. owed' = IF "cmd" \in R THEN owed \ {s}
                  ELSE IF TakenIn THEN owed \cup {s} ELSE owed
      BY ONLY <2>0 DEF Signal
    <3> HIDE DEF TakenIn
    <3> QED
      BY ONLY <3>1, t \in owed'
  <2>3. shim \notin {"read", "confine", "block"}
    <3>1. CASE t \in owed
      BY ONLY <3>1, <1>b
    <3>2. CASE TakenIn
      BY ONLY <3>2, SignalInv, s \in Forwarded, ShimEarly DEF SignalInv
    <3> QED
      BY ONLY <2>a, <3>1, <3>2
  <2>4. boxed' = boxed
    BY <2>0, <2>3, <1>c DEF Signal
  <2>5. \/ OnItsWay(t)
        \/ t = s /\ (\/ "boxed" \in R /\ Holds("boxed", s)
                     \/ "shim" \in R /\ Holds("shim", s))
    BY ONLY <2>a, <1>b
  <2>6. t \in pending'["boxed"] \/ t \in pending'["shim"]
    BY ONLY <2>2, <2>5 DEF OnItsWay
  <2> QED
    BY ONLY <1>c, <2>1, <2>3, <2>4, <2>6 DEF OnItsWay, Alive, maskVars
<1> QED
  BY ONLY <1>1, <1>2, <1>3, <1>4, <1>5, <1>6, <1>7, [Next]_vars, StepCases

\* PID 1 drops a signal only if it neither holds its mask nor has its handlers,
\* that is, before its block.
LEMMA LossStep ==
  ASSUME SignalInv, [Next]_vars, discarded' # discarded
  PROVE  shim \in {"read", "confine", "block"}
<1>1. ASSUME NEW s \in Forwarded, Alive("shim"), ~Holds("shim", s)
      PROVE  shim \in {"read", "confine", "block"}
  <2>1. shim \in ShimPC \ {"zombie", "reaped"}
    BY <1>1 DEF Alive, SignalInv, TypeOK
  <2>2. shim \notin {"fork", "store", "install", "unblock"}
    BY <1>1 DEF Holds, SignalInv, Masks
  <2>3. shim \notin {"reap", "exit"}
    BY <1>1, AllInstalled DEF Holds, SignalInv, Handlers
  <2> QED
    BY <2>1, <2>2, <2>3 DEF ShimPC
<1>2. ASSUME NEW s \in Forwarded, NEW R \in SUBSET Procs,
             NEW from \in Procs \cup {"nobody"}, Signal(from, R, s)
      PROVE  shim \in {"read", "confine", "block"}
  BY <1>1, <1>2, SignalEffect DEF SignalInv
<1>3. CASE BoxedStep \/ ShimStep \/ CmdStep \/ CmdCatches \/ CmdSetuid \/ CmdEnds
           \/ UNCHANGED vars
  BY <1>3
<1>4. ASSUME NEW s \in Forwarded, BoxedForward(s)
      PROVE  shim \in {"read", "confine", "block"}
  BY <1>1, <1>4
<1>5. ASSUME NEW s \in Forwarded, ShimForward(s)
      PROVE  shim \in {"read", "confine", "block"}
  BY <1>2, <1>5 DEF Procs
<1>6. ASSUME NEW s \in Forwarded, UserSignal(s) \/ CtrlC(s)
      PROVE  shim \in {"read", "confine", "block"}
  BY <1>2, <1>6, Sending DEF SignalInv
<1> QED
  BY ONLY <1>3, <1>4, <1>5, <1>6, [Next]_vars, StepCases

\* A handler can hit a stranger only where its target has been reaped, and the
\* process it runs in is then past its wait.
LEMMA StrayStep ==
  ASSUME SignalInv, [Next]_vars, stray' # stray
  PROVE  (boxed = "teardown" /\ shim = "reaped") \/ (shim = "exit" /\ cmd = "reaped")
<1> DEFINE AtTheEnd == (boxed = "teardown" /\ shim = "reaped")
                         \/ (shim = "exit" /\ cmd = "reaped")
<1>3. CASE BoxedStep \/ ShimStep \/ CmdStep \/ CmdCatches \/ CmdSetuid \/ CmdEnds
           \/ UNCHANGED vars
  BY <1>3
<1>4. ASSUME NEW s \in Forwarded, BoxedForward(s) PROVE AtTheEnd
  <2>1. shim = "reaped" /\ Alive("boxed")
    BY <1>4 DEF MayHitStranger
  <2> QED
    BY <2>1 DEF SignalInv, Together, Alive
<1>5. ASSUME NEW s \in Forwarded, ShimForward(s) PROVE AtTheEnd
  <2>1. target["shim"] = "cmd" /\ cmd = "reaped" /\ Alive("shim")
    BY <1>5 DEF MayHitStranger, SignalInv, Family
  <2> QED
    BY <2>1 DEF SignalInv, Family, Alive
<1>6. ASSUME NEW s \in Forwarded, UserSignal(s) \/ CtrlC(s) PROVE AtTheEnd
  BY <1>6, Sending DEF SignalInv
<1> QED
  BY ONLY <1>3, <1>4, <1>5, <1>6, [Next]_vars, StepCases

----------------------------------------------------------------------------
(***************************************************************************)
(* The theorems.                                                           *)
(***************************************************************************)
HIDE DEF Next, vars

\* SignalInv holds of every reachable state, for any signals in any order.
THEOREM Invariance == Spec => []SignalInv
<1>1. Init => SignalInv
  <2>1. Init => TypeOK
    BY OrderAssumption DEF Init, TypeOK, BoxedPC, ShimPC, CmdPC, Procs
  <2>2. Init => Together /\ Family /\ Handlers /\ Masks /\ Route /\ OwedOnItsWay
    BY DEF Init, Together, Family, Handlers, Masks, Route, OwedOnItsWay, Procs
  <2> QED
    BY <2>1, <2>2 DEF SignalInv
<1>2. SignalInv /\ [Next]_vars => SignalInv'
  <2> SUFFICES ASSUME SignalInv, [Next]_vars PROVE SignalInv'
    OBVIOUS
  <2>1. TypeOK'
    BY ONLY SignalInv, [Next]_vars, TypeStep DEF SignalInv
  <2>2. Together' /\ Family'
    BY ONLY SignalInv, [Next]_vars, TogetherStep, FamilyStep
  <2>3. Handlers' /\ Masks'
    BY ONLY SignalInv, [Next]_vars, HandlersStep, MasksStep
  <2>4. Route' /\ OwedOnItsWay'
    BY ONLY SignalInv, [Next]_vars, RouteStep, OwedStep
  <2> QED
    BY ONLY <2>1, <2>2, <2>3, <2>4 DEF SignalInv
<1> QED
  BY <1>1, <1>2, PTL DEF Spec

\* Every variable keeps its type.
THEOREM TypeCorrect == Spec => []TypeOK
<1>1. SignalInv => TypeOK
  BY DEF SignalInv
<1> QED
  BY <1>1, Invariance, PTL

\* A signal that ends boxed never leaves a container running behind it: boxed dies
\* of one only while a handler is missing, and the shim is then at the pipe.
THEOREM NoOrphan == Spec => []NeverOrphaned
<1>1. SignalInv => NeverOrphaned
  BY DEF SignalInv, Together, NeverOrphaned
<1> QED
  BY <1>1, Invariance, PTL

\* The command never runs with the forwarded signals blocked or held.
THEOREM CommandListens == Spec => []CommandUnmasked
<1>1. SignalInv => CommandUnmasked
  BY DEF SignalInv, Masks, CommandUnmasked
<1> QED
  BY <1>1, Invariance, PTL

\* However often a signal interrupts waitpid, boxed is past it only when the shim
\* has been reaped.
THEOREM WaitsToTheEnd == Spec => []SignalNeverEndsWait
<1>1. SignalInv => SignalNeverEndsWait
  BY DEF SignalInv, Together, SignalNeverEndsWait
<1> QED
  BY <1>1, Invariance, PTL

\* Between boxed's handler and the command's nothing that is owed gets lost.
THEOREM OwedIsHeld == Spec => []OwedOnItsWay
<1>1. SignalInv => OwedOnItsWay
  BY DEF SignalInv
<1> QED
  BY <1>1, Invariance, PTL

\* What PID 1 drops, it drops before it has blocked the signals.
THEOREM LossIsEarly == Spec => OnlyEarlyLoss
<1>1. SignalInv /\ [Next]_vars =>
        [discarded' # discarded => shim \in {"read", "confine", "block"}]_vars
  BY LossStep
<1> QED
  BY <1>1, Invariance, PTL DEF Spec, OnlyEarlyLoss

\* A forwarded signal hits a stranger only when its sender waits for nothing more.
THEOREM StrayIsLate == Spec => StrayOnlyAtTheEnd
<1>1. SignalInv /\ [Next]_vars =>
        [stray' # stray => (boxed = "teardown" /\ shim = "reaped")
                             \/ (shim = "exit" /\ cmd = "reaped")]_vars
  BY StrayStep
<1> QED
  BY <1>1, Invariance, PTL DEF Spec, StrayOnlyAtTheEnd

===========================================================================
