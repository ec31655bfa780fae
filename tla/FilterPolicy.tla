---------------------------- MODULE FilterPolicy ----------------------------
(***************************************************************************)
(* What a user expects of a --seccomp-profile, or of boxed without one: a  *)
(* table that says what becomes of each system call, and that is           *)
(* consulted, as a whole, whenever the container makes one.                *)
(*                                                                         *)
(* There is no program here, no order of rules and no length: an answer is *)
(* a single step, once per call, and always the same for the same call.    *)
(* Before that boxed may refuse the profile, and has to refuse one that    *)
(* leaves a call undecided.                                                *)
(***************************************************************************)
CONSTANTS Calls,    \* the system calls the container may make
          Answers   \* what may become of one

VARIABLES policy,   \* the set of what becomes of each: one answer or none
          state,    \* "open", in "force", "asked", or "over"
          call,     \* the call that is asked for, once there is one
          answer    \* what has become of it, or "none"

vars == <<policy, state, call, answer>>

\* The answers that let the caller live.
Lets == {"ALLOW", "ERRNO"}

Init ==
    /\ policy \in [Calls -> {A \in SUBSET Answers : \A a, b \in A : a = b}]
    /\ state = "open"
    /\ answer = "none"

\* From here on no call passes unseen.
Enforce ==
    /\ state = "open"
    /\ \A k \in Calls : policy[k] # {}
    /\ state' = "force"
    /\ UNCHANGED <<policy, call, answer>>

\* The profile cannot be enforced; there will be no container.
Refuse ==
    /\ state = "open"
    /\ state' = "over"
    /\ UNCHANGED <<policy, call, answer>>

Ask ==
    /\ state = "force"
    /\ state' = "asked" /\ call' \in Calls /\ answer' = "none"
    /\ UNCHANGED policy

Answer ==
    /\ state = "asked"
    /\ answer' \in policy[call]
    /\ state' = IF answer' \in Lets THEN "force" ELSE "over"
    /\ UNCHANGED <<policy, call>>

Next == Enforce \/ Refuse \/ Ask \/ Answer

Spec == Init /\ [][Next]_vars

=============================================================================
