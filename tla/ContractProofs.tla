--------------------------- MODULE ContractProofs ---------------------------
(***************************************************************************)
(* What follows from RunContract alone.  ContainerRun implements it        *)
(* (Implements in ContainerRunProofs), so all of this holds of the code's  *)
(* two-process protocol too, and would of any other that implements it.    *)
(***************************************************************************)
EXTENDS RunContract, TLAPS

\* Promise says nothing of an exit code before the return; there is none.
Reported == host # "returned" => report = NoReport

\* Promise, strengthened by Reported, is inductive.
LEMMA PromiseKept == Promise /\ Reported /\ [Next]_vars => Promise' /\ Reported'
<1> SUFFICES ASSUME Promise, Reported, [Next]_vars PROVE Promise' /\ Reported'
  OBVIOUS
<1> USE DEF Promise, Reported, NoReport, NoEnd, Success
<1>1. CASE Create \/ Start
  BY <1>1 DEF Create, Start
<1>2. CASE End
  \* Only a container that runs, and so a boxed that has not returned, has a
  \* command that may end: there is no exit code yet.
  BY <1>2 DEF End, Ends
<1>3. CASE Die \/ Acquire \/ Release
  BY <1>3 DEF Die, Acquire, Release, Grows
<1>4. CASE Return
  BY <1>4 DEF Return
<1>5. CASE Lose \/ UNCHANGED vars
  BY <1>5 DEF Lose, vars
<1> QED
  BY <1>1, <1>2, <1>3, <1>4, <1>5 DEF Next

\* A boxed that has returned leaves no container and no directory, and returns 0
\* only for a command that exited 0.
THEOREM PromiseHolds == Spec => []Promise
<1>1. Init => Promise /\ Reported
  BY DEF Init, Promise, Reported, NoReport, NoEnd, Success
<1> QED
  BY <1>1, PromiseKept, PTL DEF Spec

\* A container lives once, ends once, and keeps its directories while it runs; a
\* boxed that has returned or is lost does not come back.
THEOREM LivesOnce == Spec => OneLife
<1> DEFINE Once == /\ container # "none" => container' # "none"
                   /\ container = "dead" => container' = "dead"
                   /\ container = "running" => container' # "setup" /\ held \subseteq held'
                   /\ status # NoEnd => status' = status
                   /\ host # "up" => host' = host /\ report' = report
<1>1. [Next]_vars => [Once]_vars
  <2> SUFFICES ASSUME Next PROVE Once
    OBVIOUS
  <2> QED
    BY DEF Next, Create, Start, End, Die, Acquire, Release, Return, Lose, Grows
<1> QED
  BY <1>1, PTL DEF Spec, OneLife

=============================================================================
