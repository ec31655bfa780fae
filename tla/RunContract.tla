---------------------------- MODULE RunContract ----------------------------
(***************************************************************************)
(* What `boxed run` promises its user, with no word on how: the promises   *)
(* of src/README.md and CHANGELOG.md that ContainerRun is shown to keep.   *)
(*                                                                         *)
(*   - a container is created at most once, and never comes back;          *)
(*   - its command starts at most once, and not after it is dead;          *)
(*   - boxed returns only when the container is gone and nothing it holds  *)
(*     is left, and returns 0 only for a command that exited 0;            *)
(*   - nothing held is given up while the command runs.                    *)
(***************************************************************************)
EXTENDS Integers

VARIABLES host,       \* the boxed process: "up", "returned" or "lost"
          container,  \* "none", "setup", "running" or "dead"
          status,     \* how the command ended by itself
          report,     \* the exit code boxed returned
          held        \* the directories made for the run and still owned

vars == <<host, container, status, report, held>>

NoReport == -1
NoEnd    == [how |-> "none", n |-> 0]
Ends     == [how : {"exited"}, n : 0..255] \cup [how : {"signaled"}, n : 1..64]
Success  == [how |-> "exited", n |-> 0]

Init ==
    /\ host = "up"
    /\ container = "none"
    /\ status = NoEnd
    /\ report = NoReport
    /\ held = {}

Create ==
    /\ host = "up" /\ container = "none"
    /\ container' = "setup"
    /\ UNCHANGED <<host, status, report, held>>

Start ==
    /\ container = "setup"
    /\ container' = "running"
    /\ UNCHANGED <<host, status, report, held>>

\* The command ends by itself, the container with it or some time later.
End ==
    /\ container = "running" /\ status = NoEnd
    /\ container' \in {"running", "dead"}
    /\ status' \in Ends
    /\ UNCHANGED <<host, report, held>>

Grows == held \subseteq held' /\ held' \subseteq {"cgroup", "scratch"}

\* The container dies; it may have made a directory on its way out.
Die ==
    /\ container \in {"setup", "running"}
    /\ container' = "dead"
    /\ Grows
    /\ UNCHANGED <<host, status, report>>

\* Directories are made for a container that exists, and before boxed returns.
Acquire ==
    /\ container # "none" /\ host # "returned"
    /\ Grows
    /\ UNCHANGED <<host, container, status, report>>

Release ==
    /\ host = "up" /\ container # "running"
    /\ held' \subseteq held
    /\ UNCHANGED <<host, container, status, report>>

Return ==
    /\ host = "up" /\ container \in {"none", "dead"}
    /\ host' = "returned"
    /\ report' \in IF status = Success THEN 0..255 ELSE 1..255
    /\ held' = {}
    /\ UNCHANGED <<container, status>>

\* boxed is killed: it makes no promise about what it leaves behind.
Lose ==
    /\ host = "up"
    /\ host' = "lost"
    /\ UNCHANGED <<container, status, report, held>>

Next == Create \/ Start \/ End \/ Die \/ Acquire \/ Release \/ Return \/ Lose

Spec == Init /\ [][Next]_vars

----------------------------------------------------------------------------
\* What a user takes from it: a boxed that has returned leaves no container and no
\* directory, and its 0 is the command's.
Promise ==
    /\ host = "returned" => container \in {"none", "dead"} /\ held = {}
    /\ report = 0 => status = Success
    /\ status # NoEnd => container \in {"running", "dead"}

\* A container lives once, ends once, and keeps its directories while it runs.
OneLife ==
    [][/\ container # "none" => container' # "none"
       /\ container = "dead" => container' = "dead"
       /\ container = "running" => container' # "setup" /\ held \subseteq held'
       /\ status # NoEnd => status' = status
       /\ host # "up" => host' = host /\ report' = report]_vars

=============================================================================
