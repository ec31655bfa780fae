--------------------------- MODULE SeccompFilter ---------------------------
(***************************************************************************)
(* From a --seccomp-profile to the fate of a system call: src/src/         *)
(* seccomp.rs, and the kernel's side of it.                                *)
(*                                                                         *)
(* boxed reads and resolves the profile before the clone; the shim         *)
(* compiles it into a BPF program and installs that with prctl.  The       *)
(* kernel checks the program, then runs it on every system call.           *)
(***************************************************************************)
EXTENDS Integers, Sequences

CONSTANTS Names,      \* the names of the kernel's system calls
          Number,     \* their numbers
          Known,      \* the names syscall_number has in its table
          Dangerous,  \* DANGEROUS_SYSCALLS
          Profiles,   \* what may be in a --seccomp-profile
          NoProfile,  \* no --seccomp-profile
          Calls,      \* the system calls the container may make
          HalfU16,    \* half the values of a u16
          MaxInsns    \* BPF_MAXINSNS

\* What resolve_action knows, and what it does not.
Actions    == {"ALLOW", "ERRNO", "KILL", "KILL_PROCESS"}
AnyAction  == Actions \cup {"LOG"}
X86_64     == 62

\* A profile as serde reads it: of the conditions on arguments no more than
\* whether there are any, of the architectures whether they include this one.
IsProfile(p) ==
    /\ p.forX86 \in BOOLEAN
    /\ p.default \in AnyAction
    /\ p.rules \in Seq([names : Seq(Names), action : AnyAction, args : BOOLEAN])

ASSUME TableAssumption   == Number \in [Names -> Nat] /\ Known \subseteq Names
ASSUME DangerAssumption  == Dangerous \in Seq(Nat)
ASSUME ProfileAssumption == NoProfile \notin Profiles /\ \A p \in Profiles : IsProfile(p)
ASSUME CallAssumption    == Calls \subseteq [arch : Nat, nr : Nat]
ASSUME WidthAssumption   == /\ HalfU16 \in Nat \ {0}
                            /\ MaxInsns \in Nat /\ MaxInsns < 2 * HalfU16

VARIABLES phase,    \* how far the filter is
          profile,  \* the command line's profile, or NoProfile
          rules,    \* the resolved rules
          default,  \* the resolved default action
          next,     \* the rule and the number build_filter is at
          prog,     \* the BPF program
          origin,   \* the rule and the number each pair of prog is for
          len,      \* sock_fprog.len
          call,     \* the system call being decided
          pc, acc,  \* the BPF machine's program counter and accumulator
          verdict   \* what the machine returned for call, or "none"

given   == <<profile>>
built   == <<rules, default, next, prog, origin>>
machine == <<call, pc, acc, verdict>>
vars == <<phase, given, built, len, machine>>

Phase == {"resolve", "rejected", "build", "install", "refused", "installed",
          "deciding", "killed"}

----------------------------------------------------------------------------
(***************************************************************************)
(* from_file and resolve, in boxed.                                        *)
(***************************************************************************)
Resolvable(p) ==
    /\ p.forX86
    /\ p.default \in Actions
    /\ \A i \in DOMAIN p.rules :
          /\ p.rules[i].names # <<>>
          /\ ~p.rules[i].args
          /\ p.rules[i].action \in Actions
          /\ \A j \in DOMAIN p.rules[i].names : p.rules[i].names[j] \in Known

ResolveRule(r) == [numbers |-> [j \in DOMAIN r.names |-> Number[r.names[j]]],
                   action  |-> r.action]

\* Without a profile build_filter walks DANGEROUS_SYSCALLS instead, in the same
\* way: one rule, and what falls through is allowed.
DefaultRules == <<[numbers |-> Dangerous, action |-> "KILL_PROCESS"]>>

Resolve ==
    /\ phase = "resolve"
    /\ \/ /\ profile = NoProfile
          /\ rules' = DefaultRules /\ default' = "ALLOW"
          /\ phase' = "build"
       \/ /\ profile # NoProfile /\ Resolvable(profile)
          /\ rules' = [i \in DOMAIN profile.rules |-> ResolveRule(profile.rules[i])]
          /\ default' = profile.default
          /\ phase' = "build"
       \/ /\ profile # NoProfile /\ ~Resolvable(profile)
          /\ phase' = "rejected"
          /\ UNCHANGED <<rules, default>>
    /\ UNCHANGED <<given, next, prog, origin, len, machine>>

----------------------------------------------------------------------------
(***************************************************************************)
(* build_filter, in the shim.                                              *)
(***************************************************************************)
\* A jump at n goes to n + 1 plus jt if the accumulator is k, or plus jf if not.
Load(field)    == [op |-> "ld", field |-> field]
Jump(k, jt, jf) == [op |-> "jeq", k |-> k, jt |-> jt, jf |-> jf]
Return(action) == [op |-> "ret", action |-> action]

\* mutant: the architecture gate does not skip its own return
ArchJumpShort == Jump(X86_64, 0, 0)
ArchJump      == Jump(X86_64, 1, 0)
Gate == <<Load("arch"), ArchJump, Return("KILL_PROCESS"), Load("nr")>>

\* mutant: the branches are swapped
MatchInverted(nr) == Jump(nr, 1, 0)
\* mutant: a call that does not match skips an instruction too many
MatchTooFar(nr)   == Jump(nr, 0, 2)
Match(nr)         == Jump(nr, 0, 1)

Initialize ==
    /\ phase = "build" /\ prog = <<>>
    /\ prog' = Gate
    /\ UNCHANGED <<phase, given, rules, default, next, origin, len, machine>>

\* mutant: a rule's last number is left out
AtNumberShort(i, j) == i \in DOMAIN rules /\ j < Len(rules[i].numbers)
AtNumber(i, j)      == i \in DOMAIN rules /\ j \in DOMAIN rules[i].numbers

\* The inner loop's body.
Emit ==
    /\ phase = "build" /\ prog # <<>>
    /\ AtNumber(next[1], next[2])
    /\ prog' = prog \o <<Match(rules[next[1]].numbers[next[2]]),
                         Return(rules[next[1]].action)>>
    /\ origin' = Append(origin, next)
    /\ next' = <<next[1], next[2] + 1>>
    /\ UNCHANGED <<phase, given, rules, default, len, machine>>

NextRule ==
    /\ phase = "build" /\ prog # <<>>
    /\ next[1] \in DOMAIN rules /\ ~AtNumber(next[1], next[2])
    /\ next' = <<next[1] + 1, 1>>
    /\ UNCHANGED <<phase, given, rules, default, prog, origin, len, machine>>

Finish ==
    /\ phase = "build" /\ prog # <<>>
    /\ next[1] \notin DOMAIN rules
    /\ prog' = Append(prog, Return(default))
    /\ phase' = "install"
    /\ UNCHANGED <<given, rules, default, next, origin, len, machine>>

----------------------------------------------------------------------------
(***************************************************************************)
(* install_filter, and the kernel.                                         *)
(***************************************************************************)
\* `prog.len() as u16`
Cut(n) == n % (2 * HalfU16)

\* bpf_check_classic on the first n instructions: they end in a return, and
\* every jump stays among them.
Accepts(n) ==
    /\ n \in 1..MaxInsns
    /\ prog[n].op = "ret"
    /\ \A x \in 1..n : prog[x].op = "jeq" =>
           x + 1 + prog[x].jt <= n /\ x + 1 + prog[x].jf <= n

Install ==
    /\ phase = "install"
    /\ len' = Cut(Len(prog))
    /\ phase' = IF Accepts(len') THEN "installed" ELSE "refused"
    /\ UNCHANGED <<given, built, machine>>

\* The shim, or the command after it, makes a system call.
SysCall ==
    /\ phase = "installed"
    /\ call' \in Calls
    /\ pc' = 1 /\ acc' = 0 /\ verdict' = "none"
    /\ phase' = "deciding"
    /\ UNCHANGED <<given, built, len>>

Fetch(op) == phase = "deciding" /\ prog[pc].op = op

RunLoad ==
    /\ Fetch("ld")
    /\ acc' = IF prog[pc].field = "arch" THEN call.arch ELSE call.nr
    /\ pc' = pc + 1
    /\ UNCHANGED <<phase, given, built, len, call, verdict>>

RunJump ==
    /\ Fetch("jeq")
    /\ pc' = pc + 1 + (IF acc = prog[pc].k THEN prog[pc].jt ELSE prog[pc].jf)
    /\ UNCHANGED <<phase, given, built, len, call, acc, verdict>>

\* KILL ends the calling thread and KILL_PROCESS its process: the caller is over.
RunReturn ==
    /\ Fetch("ret")
    /\ verdict' = prog[pc].action
    /\ phase' = IF verdict' \in {"ALLOW", "ERRNO"} THEN "installed" ELSE "killed"
    /\ UNCHANGED <<given, built, len, call, pc, acc>>

\* Err, in boxed or in the shim, or the death of the container.
Finished == phase \in {"rejected", "refused", "killed"} /\ UNCHANGED vars

----------------------------------------------------------------------------
Init ==
    /\ phase = "resolve"
    /\ profile \in Profiles \cup {NoProfile}
    /\ rules = <<>> /\ default = "ALLOW"
    /\ next = <<1, 1>>
    /\ prog = <<>> /\ origin = <<>>
    /\ len = 0
    /\ call = [arch |-> 0, nr |-> 0] /\ pc = 1 /\ acc = 0 /\ verdict = "none"

Next ==
    \/ Resolve
    \/ Initialize \/ Emit \/ NextRule \/ Finish
    \/ Install
    \/ SysCall \/ RunLoad \/ RunJump \/ RunReturn
    \/ Finished

Spec == Init /\ [][Next]_vars

----------------------------------------------------------------------------
(***************************************************************************)
(* Properties.                                                             *)
(***************************************************************************)
\* A profile's i-th rule is about the system call nr.
About(i, nr) == \E j \in DOMAIN profile.rules[i].names :
                    Number[profile.rules[i].names[j]] = nr

\* What the profile means: the first rule about a call decides it, whatever
\* comes later; a rule with conditions cannot decide by the number alone.
ProfileSays(nr, a) ==
    \/ \E i \in DOMAIN profile.rules :
          /\ About(i, nr)
          /\ \A h \in 1..(i - 1) : ~About(h, nr)
          /\ a = profile.rules[i].action /\ ~profile.rules[i].args
    \/ /\ \A i \in DOMAIN profile.rules : ~About(i, nr)
       /\ a = profile.default

DefaultSays(nr, a) ==
    LET dangerous == \E j \in DOMAIN Dangerous : Dangerous[j] = nr
    IN  a = IF dangerous THEN "KILL_PROCESS" ELSE "ALLOW"

Says(k, a) ==
    IF k.arch # X86_64 THEN a = "KILL_PROCESS"
    ELSE IF profile = NoProfile THEN DefaultSays(k.nr, a)
    ELSE ProfileSays(k.nr, a)

\* The program decides every system call as the profile the user gave reads, or
\* the deny list where there is none: through the resolution, the order of the
\* pairs, the jumps and the cut of the length.  Other architectures die.
DecisionFollowsProfile == verdict # "none" => Says(call, verdict)

\* The program is not to be told from the profile it was made of: a table with one
\* answer for each system call, looked up as a whole, and refused if it has a gap.
Policy == INSTANCE FilterPolicy WITH
    Answers <- Actions,
    policy  <- [k \in Calls |-> {a \in Actions : Says(k, a)}],
    state   <- CASE phase \in {"resolve", "build", "install"} -> "open"
                 [] phase = "installed" -> "force"
                 [] phase = "deciding"  -> "asked"
                 [] OTHER               -> "over",
    answer  <- verdict

ImplementsPolicy == Policy!Spec

\* The length is cut to 16 bits without a look: the kernel would then see only the
\* first instructions of a large profile.  No such prefix is ever accepted.
NoPrefixInstalled ==
    phase \in {"installed", "deciding", "killed"} => len = Len(prog)

\* A program that boxed builds is refused for its size alone: every profile small
\* enough is in force after install_filter, not an error in the shim.
RefusedOnlyForSize == phase = "refused" => Len(prog) > MaxInsns

----------------------------------------------------------------------------
(***************************************************************************)
(* The inductive invariant.                                                *)
(***************************************************************************)
Insns == [op : {"ld"}, field : {"arch", "nr"}]
           \cup [op : {"jeq"}, k : Nat, jt : Nat, jf : Nat]
           \cup [op : {"ret"}, action : Actions]

TypeOK ==
    /\ phase \in Phase
    /\ profile \in Profiles \cup {NoProfile}
    /\ rules \in Seq([numbers : Seq(Nat), action : Actions])
    /\ default \in Actions
    /\ next \in (Nat \ {0}) \X (Nat \ {0})
    /\ prog \in Seq(Insns)
    /\ origin \in Seq((Nat \ {0}) \X (Nat \ {0}))
    /\ len \in Nat
    /\ call \in [arch : Nat, nr : Nat]
    /\ pc \in Nat \ {0}
    /\ acc \in Nat
    /\ verdict \in Actions \cup {"none"}

\* What build_filter works on is the profile, or the deny list.
Resolved ==
    IF phase \in {"resolve", "rejected"} THEN prog = <<>>
    ELSE \/ profile = NoProfile /\ rules = DefaultRules /\ default = "ALLOW"
         \/ /\ profile # NoProfile /\ Resolvable(profile)
            /\ rules = [i \in DOMAIN profile.rules |-> ResolveRule(profile.rules[i])]
            /\ default = profile.default

\* p comes before q in the nested loops.
Before(p, q) == p[1] < q[1] \/ (p[1] = q[1] /\ p[2] < q[2])

\* The number and the action of the k-th pair.
NumberOf(k) == rules[origin[k][1]].numbers[origin[k][2]]
ActionOf(k) == rules[origin[k][1]].action

\* The program is the gate, then a pair for each number met so far, then, in the
\* end, the default action.
Layout ==
    IF prog = <<>> THEN origin = <<>> /\ next = <<1, 1>> /\ phase \in {"resolve", "rejected", "build"}
    ELSE /\ Len(prog) = 4 + 2 * Len(origin) + (IF phase = "build" THEN 0 ELSE 1)
         /\ \A x \in 1..4 : prog[x] = Gate[x]
         /\ \A k \in 1..Len(origin) : /\ prog[3 + 2 * k] = Match(NumberOf(k))
                                       /\ prog[4 + 2 * k] = Return(ActionOf(k))
         /\ phase # "build" => /\ prog[Len(prog)] = Return(default)
                               /\ next[1] = Len(rules) + 1

\* The pairs are those of the numbers before the cursor, in the loops' order.
InOrder ==
    /\ next[1] \in 1..(Len(rules) + 1)
    /\ \A k \in 1..Len(origin) : /\ AtNumber(origin[k][1], origin[k][2])
                                  /\ Before(origin[k], next)
    /\ \A k, l \in 1..Len(origin) : k < l => Before(origin[k], origin[l])

Complete ==
    \A i \in 1..Len(rules) : \A j \in 1..Len(rules[i].numbers) :
        Before(<<i, j>>, next) => \E k \in 1..Len(origin) : origin[k] = <<i, j>>

\* Where the machine is, and what it has learned about the call on its way.
InGate ==
    \/ pc = 1
    \/ pc = 2 /\ acc = call.arch
    \/ pc = 3 /\ call.arch # X86_64
    \/ pc = 4 /\ call.arch = X86_64
NoneBefore(m) == \A k \in 1..(m - 1) : NumberOf(k) # call.nr
InPairs ==
    /\ call.arch = X86_64
    /\ \/ \E m \in 1..(Len(origin) + 1) : pc = 3 + 2 * m /\ acc = call.nr /\ NoneBefore(m)
       \/ \E m \in 1..Len(origin) : pc = 4 + 2 * m /\ NumberOf(m) = call.nr /\ NoneBefore(m)
Machine == phase = "deciding" => (InGate \/ InPairs) /\ call \in Calls /\ verdict = "none"

Decided == phase \notin {"installed", "killed"} => verdict = "none"

FilterInv ==
    /\ TypeOK
    /\ Resolved
    /\ Layout
    /\ InOrder
    /\ Complete
    /\ Machine
    /\ Decided
    /\ DecisionFollowsProfile
    /\ NoPrefixInstalled
    /\ RefusedOnlyForSize

============================================================================
