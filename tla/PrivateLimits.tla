--------------------------- MODULE PrivateLimits ---------------------------
(***************************************************************************)
(* What `boxed run --cpu-max ... --io-max ...` promises of its limits.     *)
(*                                                                         *)
(* Each run is on its own: its container starts with all its limits in     *)
(* force, they stay what they were until it ends, and what another run     *)
(* does meanwhile is not to be seen.  The promise has one gap, which the   *)
(* contract admits: besides its own limits a container may find others in  *)
(* force at its start.                                                     *)
(***************************************************************************)
CONSTANTS Runs,     \* the runs
          Limits,   \* the limits there are
          Wants     \* the sets of limits a run may ask for

VARIABLES want,     \* the limits each run asks for
          phase,    \* before, during or after its container's life
          force     \* <<l, s>> where the container is under s's limit l

vars == <<want, phase, force>>

Init ==
    /\ want \in [Runs -> Wants]
    /\ phase = [r \in Runs |-> "before"]
    /\ force = [r \in Runs |-> {}]

\* All at once; a run that asks for nothing gets nothing, not even another's.
Start(r) ==
    /\ phase[r] = "before"
    /\ phase' = [phase EXCEPT ![r] = "running"]
    /\ force' = [force EXCEPT ![r] = force'[r]]
    /\ want[r] \X {r} \subseteq force'[r]
    /\ force'[r] \subseteq Limits \X Runs
    /\ want[r] = {} => force'[r] = {}
    /\ UNCHANGED want

\* The container is over, or will never be.
End(r) ==
    /\ phase[r] \in {"before", "running"}
    /\ phase' = [phase EXCEPT ![r] = "over"]
    /\ force' = [force EXCEPT ![r] = {}]
    /\ UNCHANGED want

Next == \E r \in Runs : Start(r) \/ End(r)

Spec == Init /\ [][Next]_vars

============================================================================
