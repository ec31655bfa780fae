--------------------------- MODULE SeccompProofs ---------------------------
(***************************************************************************)
(* Proofs about SeccompFilter, for any profile, any table of numbers and   *)
(* any width of the length.                                                *)
(*                                                                         *)
(* The argument: the pairs of the program are the numbers of the rules in  *)
(* the order of the loops (Layout, InOrder), and all of them once the      *)
(* loops are over (Complete).  A machine at the m-th pair has therefore    *)
(* compared the call with every number before it (Machine), and the first  *)
(* pair that matches belongs to the first rule that has the number.  The   *)
(* profile has one answer for each call (SaysOnce, SaysSomething), so the  *)
(* machine's steps together are one look into a table (PolicyStep).        *)
(***************************************************************************)
EXTENDS SeccompFilter, SequenceTheorems, WellFoundedInduction, TLAPS

\* A function on 1..n is a sequence.
LEMMA FunctionIsSeq ==
  ASSUME NEW n \in Nat, NEW S, NEW f \in [1..n -> S] PROVE f \in Seq(S) /\ Len(f) = n
OBVIOUS

\* Appending two elements.
LEMMA ConcatTwo ==
  ASSUME NEW S, NEW s \in Seq(S), NEW t \in Seq(S), Len(t) = 2
  PROVE  /\ s \o t \in Seq(S) /\ Len(s \o t) = Len(s) + 2
         /\ \A i \in 1..Len(s) : (s \o t)[i] = s[i]
         /\ (s \o t)[Len(s) + 1] = t[1] /\ (s \o t)[Len(s) + 2] = t[2]
<1> DEFINE u == s \o t
<1>1. /\ u \in Seq(S) /\ Len(u) = Len(s) + Len(t)
      /\ \A i \in 1..(Len(s) + Len(t)) : u[i] = IF i <= Len(s) THEN s[i] ELSE t[i - Len(s)]
  BY ConcatProperties
<1>2. Len(s) \in Nat
  BY LenProperties
<1> HIDE DEF u
<1> DEFINE m == Len(s)
<1>3. \A i \in 1..m : u[i] = s[i]
  BY <1>1, <1>2
<1>4. /\ m + 1 \in 1..(m + Len(t)) /\ m + 2 \in 1..(m + Len(t))
      /\ ~(m + 1 <= m) /\ ~(m + 2 <= m)
      /\ (m + 1) - m = 1 /\ (m + 2) - m = 2
  BY <1>2
<1>5. u[m + 1] = t[1] /\ u[m + 2] = t[2]
  BY <1>1, <1>4
<1> QED
  BY <1>1, <1>3, <1>4, <1>5 DEF u

\* The gate's instructions, one by one.
LEMMA GateIs ==
    /\ Gate \in Seq(Insns) /\ Len(Gate) = 4
    /\ Gate[1] = Load("arch") /\ Gate[2] = Jump(X86_64, 1, 0)
    /\ Gate[3] = Return("KILL_PROCESS") /\ Gate[4] = Load("nr")
BY DEF Gate, ArchJump, Load, Jump, Return, Insns, X86_64, Actions

\* A pair's instructions.
LEMMA PairIs ==
  ASSUME NEW nr \in Nat, NEW a \in Actions
  PROVE  /\ <<Match(nr), Return(a)>> \in Seq(Insns) /\ Len(<<Match(nr), Return(a)>>) = 2
         /\ <<Match(nr), Return(a)>>[1] = Match(nr)
         /\ <<Match(nr), Return(a)>>[2] = Return(a)
BY DEF Match, Jump, Return, Insns

\* Resolving a profile's rule gives a rule of numbers.
LEMMA ResolvedRules ==
  ASSUME NEW p \in Profiles, Resolvable(p)
  PROVE  /\ [i \in DOMAIN p.rules |-> ResolveRule(p.rules[i])]
               \in Seq([numbers : Seq(Nat), action : Actions])
         /\ p.default \in Actions
<1> DEFINE n == Len(p.rules)
<1>1. p.rules \in Seq([names : Seq(Names), action : AnyAction, args : BOOLEAN])
  BY ProfileAssumption DEF IsProfile
<1>2. n \in Nat /\ DOMAIN p.rules = 1..n
  BY <1>1, LenProperties
<1>3. ASSUME NEW i \in 1..n
      PROVE  ResolveRule(p.rules[i]) \in [numbers : Seq(Nat), action : Actions]
  <2>1. p.rules[i] \in [names : Seq(Names), action : AnyAction, args : BOOLEAN]
    BY <1>1, <1>3, ElementOfSeq
  <2> DEFINE names == p.rules[i].names
  <2>2. names \in Seq(Names) /\ p.rules[i].action \in Actions
    BY <1>2, <2>1 DEF Resolvable
  <2>3. Len(names) \in Nat /\ DOMAIN names = 1..Len(names)
    BY <2>2, LenProperties
  <2>4. \A j \in 1..Len(names) : Number[names[j]] \in Nat
    BY <2>2, <2>3, ElementOfSeq, TableAssumption
  <2>5. [j \in 1..Len(names) |-> Number[names[j]]] \in [1..Len(names) -> Nat]
    BY <2>4
  <2>6. [j \in 1..Len(names) |-> Number[names[j]]] \in Seq(Nat)
    BY <2>3, <2>5, FunctionIsSeq
  <2> DEFINE numbers == [j \in 1..Len(names) |-> Number[names[j]]]
             action  == p.rules[i].action
  <2>7. numbers \in Seq(Nat) /\ action \in Actions
    BY <2>2, <2>6
  <2>8. ResolveRule(p.rules[i]) = [numbers |-> numbers, action |-> action]
    BY <2>3 DEF ResolveRule
  <2> HIDE DEF numbers, action
  <2> QED
    BY <2>7, <2>8
<1>4. [i \in 1..n |-> ResolveRule(p.rules[i])] \in [1..n -> [numbers : Seq(Nat), action : Actions]]
  BY <1>3
<1>5. [i \in 1..n |-> ResolveRule(p.rules[i])] \in Seq([numbers : Seq(Nat), action : Actions])
  BY <1>2, <1>4, FunctionIsSeq
<1> QED
  BY <1>2, <1>5 DEF Resolvable

\* The deny list as a rule.
LEMMA DefaultIs == DefaultRules \in Seq([numbers : Seq(Nat), action : Actions])
BY DangerAssumption DEF DefaultRules, Actions

\* The number and the action at a place of the loops.
LEMMA AtNumberType ==
  ASSUME TypeOK, NEW i, NEW j, AtNumber(i, j)
  PROVE  /\ i \in 1..Len(rules) /\ j \in 1..Len(rules[i].numbers)
         /\ rules[i].numbers \in Seq(Nat)
         /\ rules[i].numbers[j] \in Nat /\ rules[i].action \in Actions
<1> rules \in Seq([numbers : Seq(Nat), action : Actions])
  BY DEF TypeOK
<1>1. i \in 1..Len(rules)
  BY LenProperties DEF AtNumber
<1> rules[i] \in [numbers : Seq(Nat), action : Actions]
  BY <1>1, ElementOfSeq
<1>2. rules[i].numbers \in Seq(Nat) /\ rules[i].action \in Actions
  BY <1>1
<1>3. j \in 1..Len(rules[i].numbers)
  BY <1>2, LenProperties DEF AtNumber
<1> QED
  BY <1>1, <1>2, <1>3, ElementOfSeq

----------------------------------------------------------------------------
USE DEF vars, given, built, machine

\* What the loop's body adds to the program, and to the record of its pairs.
LEMMA EmitAdds ==
  ASSUME TypeOK, Emit
  PROVE  /\ next \in (Nat \ {0}) \X (Nat \ {0})
         /\ next[1] \in 1..Len(rules) /\ next[2] \in 1..Len(rules[next[1]].numbers)
         /\ prog' \in Seq(Insns) /\ Len(prog') = Len(prog) + 2
         /\ \A x \in 1..Len(prog) : prog'[x] = prog[x]
         /\ prog'[Len(prog) + 1] = Match(rules[next[1]].numbers[next[2]])
         /\ prog'[Len(prog) + 2] = Return(rules[next[1]].action)
         /\ origin' \in Seq((Nat \ {0}) \X (Nat \ {0})) /\ Len(origin') = Len(origin) + 1
         /\ \A k \in 1..Len(origin) : origin'[k] = origin[k]
         /\ origin'[Len(origin) + 1] = next
<1> DEFINE nr == rules[next[1]].numbers[next[2]]
           a  == rules[next[1]].action
           pair == <<Match(nr), Return(a)>>
<1>1. /\ nr \in Nat /\ a \in Actions
      /\ next[1] \in 1..Len(rules) /\ next[2] \in 1..Len(rules[next[1]].numbers)
  BY AtNumberType DEF Emit
<1>2. /\ pair \in Seq(Insns) /\ Len(pair) = 2
      /\ pair[1] = Match(nr) /\ pair[2] = Return(a)
  BY <1>1, PairIs
<1>3. prog \in Seq(Insns) /\ prog' = prog \o pair
  BY DEF Emit, TypeOK
<1>4. origin \in Seq((Nat \ {0}) \X (Nat \ {0})) /\ origin' = Append(origin, next)
      /\ next \in (Nat \ {0}) \X (Nat \ {0})
  BY DEF Emit, TypeOK
<1> HIDE DEF nr, a, pair
<1>5. /\ prog' \in Seq(Insns) /\ Len(prog') = Len(prog) + 2
      /\ \A x \in 1..Len(prog) : prog'[x] = prog[x]
      /\ prog'[Len(prog) + 1] = Match(nr) /\ prog'[Len(prog) + 2] = Return(a)
  BY <1>2, <1>3, ConcatTwo
<1>6. /\ origin' \in Seq((Nat \ {0}) \X (Nat \ {0})) /\ Len(origin') = Len(origin) + 1
      /\ \A k \in 1..Len(origin) : origin'[k] = origin[k]
      /\ origin'[Len(origin) + 1] = next
  BY <1>4, AppendProperties
<1> QED
  BY <1>1, <1>4, <1>5, <1>6 DEF nr, a

\* The return of the default action, after the loops.
LEMMA FinishAdds ==
  ASSUME TypeOK, Finish
  PROVE  /\ prog' \in Seq(Insns) /\ Len(prog') = Len(prog) + 1
         /\ \A x \in 1..Len(prog) : prog'[x] = prog[x]
         /\ prog'[Len(prog) + 1] = Return(default)
<1>1. prog \in Seq(Insns) /\ Return(default) \in Insns
  BY DEF TypeOK, Return, Insns
<1> QED
  BY <1>1, AppendProperties DEF Finish

----------------------------------------------------------------------------
\* A pair stands for a number of a rule.
LEMMA PairType ==
  ASSUME TypeOK, InOrder, NEW k \in 1..Len(origin)
  PROVE  /\ origin[k] \in (Nat \ {0}) \X (Nat \ {0})
         /\ origin[k][1] \in 1..Len(rules)
         /\ origin[k][2] \in 1..Len(rules[origin[k][1]].numbers)
         /\ NumberOf(k) \in Nat /\ ActionOf(k) \in Actions
<1>1. origin[k] \in (Nat \ {0}) \X (Nat \ {0})
  BY ElementOfSeq DEF TypeOK
<1>2. AtNumber(origin[k][1], origin[k][2])
  BY DEF InOrder
<1> QED
  BY <1>1, <1>2, AtNumberType DEF NumberOf, ActionOf

\* What the machine is about to execute, and what it knows.
AtMatch(m) == /\ pc = 3 + 2 * m /\ acc = call.nr /\ NoneBefore(m)
              /\ prog[pc] = Match(NumberOf(m))
AtAction(m) == /\ pc = 4 + 2 * m /\ NumberOf(m) = call.nr /\ NoneBefore(m)
               /\ prog[pc] = Return(ActionOf(m))
AtDefault == /\ pc = 5 + 2 * Len(origin) /\ acc = call.nr /\ NoneBefore(Len(origin) + 1)
             /\ prog[pc] = Return(default)

\* Wherever the machine is, its next instruction is one of the gate's, a pair's or the
\* default, and it knows of the call what it takes to be there.
LEMMA Fetched ==
  ASSUME FilterInv, phase = "deciding"
  PROVE  \/ pc = 1 /\ prog[pc] = Load("arch")
         \/ pc = 2 /\ acc = call.arch /\ prog[pc] = Jump(X86_64, 1, 0)
         \/ pc = 3 /\ call.arch # X86_64 /\ prog[pc] = Return("KILL_PROCESS")
         \/ pc = 4 /\ call.arch = X86_64 /\ prog[pc] = Load("nr")
         \/ call.arch = X86_64 /\ \E m \in 1..Len(origin) : AtMatch(m)
         \/ call.arch = X86_64 /\ \E m \in 1..Len(origin) : AtAction(m)
         \/ call.arch = X86_64 /\ AtDefault
<1>1. Len(origin) \in Nat
  BY LenProperties DEF FilterInv, TypeOK
<1>2. prog # <<>>
  BY DEF FilterInv, Layout
<1>3. /\ Len(prog) = 5 + 2 * Len(origin)
      /\ prog[Len(prog)] = Return(default)
      /\ \A k \in 1..Len(origin) : /\ prog[3 + 2 * k] = Match(NumberOf(k))
                                    /\ prog[4 + 2 * k] = Return(ActionOf(k))
  BY <1>1, <1>2 DEF FilterInv, Layout
<1>4. /\ prog[1] = Load("arch") /\ prog[2] = Jump(X86_64, 1, 0)
      /\ prog[3] = Return("KILL_PROCESS") /\ prog[4] = Load("nr")
  BY <1>2, GateIs DEF FilterInv, Layout
<1>5. CASE InGate
  BY <1>4, <1>5 DEF InGate
<1>6. CASE InPairs
  <2>1. CASE \E m \in 1..(Len(origin) + 1) : pc = 3 + 2 * m /\ acc = call.nr /\ NoneBefore(m)
    <3>1. PICK m \in 1..(Len(origin) + 1) : pc = 3 + 2 * m /\ acc = call.nr /\ NoneBefore(m)
      BY <2>1
    <3>2. CASE m = Len(origin) + 1
      <4>1. pc = 5 + 2 * Len(origin)
        BY <1>1, <3>1, <3>2
      <4> QED
        BY <1>3, <1>6, <3>1, <3>2, <4>1 DEF InPairs, AtDefault
    <3>3. CASE m \in 1..Len(origin)
      BY <1>3, <1>6, <3>1, <3>3 DEF InPairs, AtMatch
    <3> QED
      BY <1>1, <3>2, <3>3
  <2>2. CASE \E m \in 1..Len(origin) : pc = 4 + 2 * m /\ NumberOf(m) = call.nr /\ NoneBefore(m)
    BY <1>3, <1>6, <2>2 DEF InPairs, AtAction
  <2> QED
    BY <1>6, <2>1, <2>2 DEF InPairs
<1> QED
  BY <1>5, <1>6 DEF FilterInv, Machine

----------------------------------------------------------------------------
\* The operations of the three kinds of instruction.
LEMMA Ops ==
  /\ \A f : Load(f).op = "ld" /\ Load(f).field = f
  /\ \A k, t, f : /\ Jump(k, t, f).op = "jeq" /\ Jump(k, t, f).k = k
                  /\ Jump(k, t, f).jt = t /\ Jump(k, t, f).jf = f
  /\ \A nr : Match(nr) = Jump(nr, 0, 1)
  /\ \A a : Return(a).op = "ret" /\ Return(a).action = a
BY DEF Load, Jump, Match, Return

\* What the pairs say of a call is untouched by the machine's steps.
LEMMA PairsStay ==
  ASSUME UNCHANGED <<built, call>>
  PROVE  /\ \A m : NumberOf(m)' = NumberOf(m)
         /\ \A m : NoneBefore(m)' <=> NoneBefore(m)
BY DEF NumberOf, NoneBefore

\* A load takes the machine on in the gate, or to the first pair.
LEMMA LoadStep == ASSUME FilterInv, RunLoad PROVE TypeOK' /\ Machine'
<1>1. /\ phase = "deciding" /\ prog[pc].op = "ld" /\ phase' = phase /\ verdict' = verdict
      /\ UNCHANGED <<built, call>>
      /\ acc' = IF prog[pc].field = "arch" THEN call.arch ELSE call.nr
      /\ pc' = pc + 1 /\ pc \in Nat \ {0} /\ verdict = "none" /\ call \in Calls
  BY DEF RunLoad, Fetch, FilterInv, TypeOK, Machine
<1>2. TypeOK'
  BY <1>1 DEF RunLoad, FilterInv, TypeOK
<1>3. Len(origin) \in Nat
  BY LenProperties DEF FilterInv, TypeOK
<1>4. CASE pc = 1 /\ prog[pc] = Load("arch")
  <2>1. InGate'
    BY <1>1, <1>4, Ops DEF InGate
  <2> QED
    BY <1>1, <1>2, <2>1 DEF Machine
<1>5. CASE pc = 4 /\ call.arch = X86_64 /\ prog[pc] = Load("nr")
  <2>1. pc' = 3 + 2 * 1 /\ acc' = call.nr
    BY <1>1, <1>5, Ops
  <2>2. NoneBefore(1)' /\ 1 \in 1..(Len(origin') + 1)
    BY <1>1, <1>3 DEF NoneBefore
  <2> QED
    BY <1>1, <1>2, <1>5, <2>1, <2>2 DEF Machine, InPairs
<1> QED
  BY <1>1, <1>2, <1>4, <1>5, Fetched, Ops DEF AtMatch, AtAction, AtDefault

\* A jump takes the machine on in the gate, to a pair's action, or to the next pair
\* with one more number ruled out.
LEMMA JumpStep == ASSUME FilterInv, RunJump PROVE TypeOK' /\ Machine'
<1>1. /\ phase = "deciding" /\ prog[pc].op = "jeq" /\ phase' = phase /\ verdict' = verdict
      /\ UNCHANGED <<built, call, acc>>
      /\ pc' = pc + 1 + (IF acc = prog[pc].k THEN prog[pc].jt ELSE prog[pc].jf)
      /\ pc \in Nat \ {0} /\ verdict = "none" /\ call \in Calls
  BY DEF RunJump, Fetch, FilterInv, TypeOK, Machine
<1>2. Len(origin) \in Nat
  BY LenProperties DEF FilterInv, TypeOK
<1>3. CASE pc = 2 /\ acc = call.arch /\ prog[pc] = Jump(X86_64, 1, 0)
  <2>1. \/ pc' = 4 /\ call.arch = X86_64
        \/ pc' = 3 /\ call.arch # X86_64
    BY <1>1, <1>3, Ops
  <2>2. InGate'
    BY <1>1, <2>1 DEF InGate
  <2>3. TypeOK'
    BY <1>1, <2>1 DEF RunJump, FilterInv, TypeOK
  <2> QED
    BY <1>1, <2>2, <2>3 DEF Machine
<1>4. CASE call.arch = X86_64 /\ \E m \in 1..Len(origin) : AtMatch(m)
  <2>1. PICK m \in 1..Len(origin) : AtMatch(m)
    BY <1>4
  <2>2. CASE NumberOf(m) = call.nr
    <3>1. pc' = 4 + 2 * m
      BY <1>1, <2>1, <2>2, Ops DEF AtMatch
    <3>2. NumberOf(m)' = call'.nr /\ NoneBefore(m)' /\ m \in 1..Len(origin')
      BY <1>1, <2>1, <2>2, PairsStay DEF AtMatch
    <3>3. InPairs'
      BY <1>1, <1>4, <3>1, <3>2 DEF InPairs
    <3>4. pc' \in Nat \ {0}
      BY <1>2, <2>1, <3>1
    <3> QED
      BY <1>1, <3>3, <3>4 DEF Machine, RunJump, FilterInv, TypeOK
  <2>3. CASE NumberOf(m) # call.nr
    <3>1. pc' = 3 + 2 * (m + 1) /\ acc' = call'.nr
      BY <1>1, <1>2, <2>1, <2>3, Ops DEF AtMatch
    <3>2. NoneBefore(m + 1)
      BY <1>2, <2>1, <2>3 DEF AtMatch, NoneBefore
    <3>3. NoneBefore(m + 1)' /\ m + 1 \in 1..(Len(origin') + 1)
      BY <1>1, <1>2, <2>1, <3>2, PairsStay
    <3>4. InPairs'
      BY <1>1, <1>4, <3>1, <3>3 DEF InPairs
    <3>5. pc' \in Nat \ {0}
      BY <1>2, <2>1, <3>1
    <3> QED
      BY <1>1, <3>4, <3>5 DEF Machine, RunJump, FilterInv, TypeOK
  <2> QED
    BY <2>2, <2>3
<1> QED
  BY <1>1, <1>3, <1>4, Fetched, Ops DEF AtAction, AtDefault

----------------------------------------------------------------------------
\* The i-th resolved rule has the number nr.
Has(i, nr) == \E j \in 1..Len(rules[i].numbers) : rules[i].numbers[j] = nr

\* The pair that matches belongs to the first rule that has the number.
LEMMA FirstRule ==
  ASSUME FilterInv, phase = "deciding", NEW m \in 1..Len(origin), AtAction(m)
  PROVE  /\ origin[m][1] \in 1..Len(rules)
         /\ Has(origin[m][1], call.nr)
         /\ \A h \in 1..(origin[m][1] - 1) : ~Has(h, call.nr)
<1> TypeOK /\ InOrder /\ Complete
  BY DEF FilterInv
<1> DEFINE i == origin[m][1]
<1>1. /\ i \in 1..Len(rules) /\ origin[m][2] \in 1..Len(rules[i].numbers)
      /\ origin[m] \in (Nat \ {0}) \X (Nat \ {0})
  BY PairType
<1>2. Has(i, call.nr)
  BY <1>1 DEF AtAction, NumberOf, Has
<1>3. ASSUME NEW h \in 1..(i - 1), Has(h, call.nr)
      PROVE  FALSE
  <2> Len(rules) \in Nat
    BY LenProperties DEF TypeOK
  <2>1. h \in 1..Len(rules) /\ h < i
    BY <1>1, <1>3
  <2>2. PICK j \in 1..Len(rules[h].numbers) : rules[h].numbers[j] = call.nr
    BY <1>3 DEF Has
  <2> Before(origin[m], next) /\ next[1] \in Nat
    BY DEF InOrder, TypeOK
  <2>3. i <= next[1]
    BY <1>1 DEF Before
  <2>4. Before(<<h, j>>, next)
    BY <2>1, <2>3, <1>1 DEF Before
  <2>5. PICK k \in 1..Len(origin) : origin[k] = <<h, j>>
    BY <2>1, <2>4 DEF Complete
  <2>6. NumberOf(k) = call.nr
    BY <2>2, <2>5 DEF NumberOf
  <2>7. ~ (k < m)
    <3>1. Len(origin) \in Nat
      BY LenProperties DEF TypeOK
    <3> QED
      BY <2>6, <3>1 DEF AtAction, NoneBefore
  <2>8. k # m
    BY <2>1, <2>5, <1>1
  <2>9. Before(origin[m], origin[k])
    BY <2>7, <2>8 DEF InOrder
  <2> QED
    BY <1>1, <2>1, <2>5, <2>9 DEF Before
<1> QED
  BY <1>1, <1>2, <1>3

\* A call that no pair has matched is in no rule.
LEMMA NoRule ==
  ASSUME FilterInv, phase = "deciding", AtDefault, NEW i \in 1..Len(rules)
  PROVE  ~Has(i, call.nr)
<1> TypeOK /\ InOrder /\ Complete /\ Layout
  BY DEF FilterInv
<1> SUFFICES ASSUME Has(i, call.nr) PROVE FALSE
  OBVIOUS
<1>1. PICK j \in 1..Len(rules[i].numbers) : rules[i].numbers[j] = call.nr
  BY DEF Has
<1>2. next[1] = Len(rules) + 1 /\ Len(rules) \in Nat /\ Len(origin) \in Nat
  BY LenProperties DEF Layout, TypeOK
<1>3. Before(<<i, j>>, next)
  BY <1>2 DEF Before
<1>4. PICK k \in 1..Len(origin) : origin[k] = <<i, j>>
  BY <1>3 DEF Complete
<1> QED
  BY <1>1, <1>2, <1>4 DEF AtDefault, NoneBefore, NumberOf

\* The resolved rules are about the calls the profile's rules are about.
LEMMA RulesMean ==
  ASSUME TypeOK, Resolved, phase = "deciding", profile # NoProfile
  PROVE  /\ DOMAIN profile.rules = 1..Len(rules)
         /\ default = profile.default
         /\ \A i \in 1..Len(rules) :
               /\ \A nr : About(i, nr) <=> Has(i, nr)
               /\ rules[i].action = profile.rules[i].action
               /\ ~profile.rules[i].args
<1>1. /\ Resolvable(profile) /\ default = profile.default /\ profile \in Profiles
      /\ rules = [i \in DOMAIN profile.rules |-> ResolveRule(profile.rules[i])]
  BY DEF Resolved, TypeOK
<1>2. profile.rules \in Seq([names : Seq(Names), action : AnyAction, args : BOOLEAN])
  BY <1>1, ProfileAssumption DEF IsProfile
<1>3. DOMAIN profile.rules = 1..Len(rules)
  <2>1. DOMAIN rules = DOMAIN profile.rules
    BY <1>1
  <2> QED
    BY <2>1, LenProperties DEF TypeOK
<1>4. ASSUME NEW i \in 1..Len(rules)
      PROVE  /\ \A nr : About(i, nr) <=> Has(i, nr)
             /\ rules[i].action = profile.rules[i].action
             /\ ~profile.rules[i].args
  <2> DEFINE names == profile.rules[i].names
  <2>1. names \in Seq(Names)
    <3>1. DOMAIN profile.rules = 1..Len(profile.rules)
      BY <1>2, LenProperties
    <3>2. profile.rules[i] \in [names : Seq(Names), action : AnyAction, args : BOOLEAN]
      BY <1>2, <1>3, <3>1, ElementOfSeq
    <3> QED
      BY <3>2
  <2>2. DOMAIN names = 1..Len(names) /\ Len(names) \in Nat
    BY <2>1, LenProperties
  <2>3. rules[i] = ResolveRule(profile.rules[i])
    BY <1>1, <1>3
  <2>4. /\ rules[i].numbers = [j \in DOMAIN names |-> Number[names[j]]]
        /\ rules[i].action = profile.rules[i].action
    BY <2>3 DEF ResolveRule
  <2>5. DOMAIN rules[i].numbers = DOMAIN names
    BY <2>4
  <2>6. Len(rules[i].numbers) \in Nat /\ DOMAIN rules[i].numbers = 1..Len(rules[i].numbers)
    <3>1. rules[i] \in [numbers : Seq(Nat), action : Actions]
      BY ElementOfSeq DEF TypeOK
    <3>2. rules[i].numbers \in Seq(Nat)
      BY <3>1
    <3> QED
      BY <3>2, LenProperties
  <2>7. ASSUME NEW nr PROVE About(i, nr) <=> Has(i, nr)
    BY <2>2, <2>4, <2>5, <2>6 DEF About, Has
  <2> QED
    BY <1>1, <1>3, <2>4, <2>7 DEF Resolvable
<1> QED
  BY <1>1, <1>3, <1>4

\* The deny list is the one rule there is.
LEMMA DenyListMeans ==
  ASSUME TypeOK, Resolved, phase = "deciding", profile = NoProfile
  PROVE  /\ Len(rules) = 1 /\ rules[1].action = "KILL_PROCESS" /\ default = "ALLOW"
         /\ \A nr : Has(1, nr) <=> \E j \in DOMAIN Dangerous : Dangerous[j] = nr
<1>1. rules = DefaultRules /\ default = "ALLOW"
  BY DEF Resolved
<1>2. /\ Len(rules) = 1 /\ rules[1].action = "KILL_PROCESS"
      /\ rules[1].numbers = Dangerous
  BY <1>1 DEF DefaultRules
<1>3. DOMAIN Dangerous = 1..Len(Dangerous)
  BY DangerAssumption, LenProperties
<1> QED
  BY <1>1, <1>2, <1>3 DEF Has

\* What a return instruction returns is what the profile says of the call.
LEMMA Returned ==
  ASSUME FilterInv, RunReturn PROVE verdict' \in Actions /\ Says(call, verdict')
<1> TypeOK /\ Resolved /\ InOrder
  BY DEF FilterInv
<1>1. /\ phase = "deciding" /\ prog[pc].op = "ret" /\ verdict' = prog[pc].action
      /\ UNCHANGED <<given, built, len, call, pc, acc>>
      /\ phase' \in {"installed", "killed"}
  BY DEF RunReturn, Fetch
<1>2. SUFFICES /\ verdict' \in Actions
               /\ IF call.arch # X86_64 THEN verdict' = "KILL_PROCESS"
                  ELSE IF profile = NoProfile THEN DefaultSays(call.nr, verdict')
                  ELSE ProfileSays(call.nr, verdict')
  BY <1>2 DEF Says
<1>3. CASE pc = 3 /\ call.arch # X86_64 /\ prog[pc] = Return("KILL_PROCESS")
  BY <1>1, <1>3, Ops DEF Actions
<1>4. CASE call.arch = X86_64 /\ \E m \in 1..Len(origin) : AtAction(m)
  <2>1. PICK m \in 1..Len(origin) : AtAction(m)
    BY <1>4
  <2> DEFINE i == origin[m][1]
  <2>2. verdict' = rules[i].action /\ verdict' \in Actions
    BY <1>1, <2>1, Ops, PairType DEF AtAction, ActionOf
  <2>3. /\ i \in 1..Len(rules) /\ Has(i, call.nr)
        /\ \A h \in 1..(i - 1) : ~Has(h, call.nr)
    BY <1>1, <2>1, FirstRule
  <2>4. Len(rules) \in Nat
    BY LenProperties DEF TypeOK
  <2> HIDE DEF i
  <2>5. CASE profile = NoProfile
    <3> Len(rules) = 1
      BY <1>1, <2>5, DenyListMeans
    <3>1. i = 1
      BY <2>3
    <3> QED
      BY <1>1, <1>4, <2>2, <2>3, <2>5, <3>1, DenyListMeans DEF DefaultSays
  <2>6. CASE profile # NoProfile
    <3>1. \A h \in 1..(i - 1) : h \in 1..Len(rules)
      BY <2>3, <2>4
    <3>2. ProfileSays(call.nr, verdict')
      BY <1>1, <2>2, <2>3, <2>6, <3>1, RulesMean DEF ProfileSays
    <3> QED
      BY <1>4, <2>2, <2>6, <3>2
  <2> QED
    BY <2>5, <2>6
<1>5. CASE call.arch = X86_64 /\ AtDefault
  <2>1. verdict' = default /\ verdict' \in Actions
    BY <1>1, <1>5, Ops DEF AtDefault, TypeOK
  <2>2. \A i \in 1..Len(rules) : ~Has(i, call.nr)
    BY <1>1, <1>5, NoRule
  <2>3. CASE profile = NoProfile
    <3>1. Len(rules) = 1 /\ default = "ALLOW"
          /\ \A nr : Has(1, nr) <=> \E j \in DOMAIN Dangerous : Dangerous[j] = nr
      BY <1>1, <2>3, DenyListMeans
    <3>2. ~Has(1, call.nr)
      BY <2>2, <3>1
    <3>3. DefaultSays(call.nr, verdict')
      BY <2>1, <3>1, <3>2 DEF DefaultSays
    <3> QED
      BY <1>5, <2>1, <2>3, <3>3
  <2>4. CASE profile # NoProfile
    <3>1. ProfileSays(call.nr, verdict')
      BY <1>1, <2>1, <2>2, <2>4, RulesMean DEF ProfileSays
    <3> QED
      BY <1>5, <2>1, <2>4, <3>1
  <2> QED
    BY <2>3, <2>4
<1> QED
  BY <1>1, <1>3, <1>4, <1>5, Fetched, Ops DEF AtMatch

LEMMA ReturnStep == ASSUME FilterInv, RunReturn PROVE TypeOK' /\ DecisionFollowsProfile'
<1>1. /\ UNCHANGED <<given, built, len, call, pc, acc>>
      /\ phase' \in {"installed", "killed"}
  BY DEF RunReturn
<1>2. verdict' \in Actions /\ Says(call, verdict')
  BY Returned
<1>3. TypeOK'
  BY <1>1, <1>2 DEF FilterInv, TypeOK, Phase
<1>4. Says(call, verdict') => Says(call, verdict)'
  BY <1>1 DEF Says, DefaultSays, ProfileSays, About
<1> QED
  BY <1>2, <1>3, <1>4 DEF DecisionFollowsProfile

----------------------------------------------------------------------------
\* build_filter: the loops add the pairs in order, and miss none.
Building == TypeOK /\ Resolved /\ Layout /\ InOrder /\ Complete

\* Resolving the profile, or the lack of one, starts with no program.
LEMMA ResolveStep == ASSUME FilterInv, Resolve PROVE Building'
<1> TypeOK /\ Resolved /\ Layout
  BY DEF FilterInv
<1>1. /\ prog = <<>> /\ origin = <<>> /\ next = <<1, 1>>
      /\ UNCHANGED <<given, next, prog, origin, len, machine>>
  BY DEF Resolve, Resolved, Layout
<1>2. /\ rules' \in Seq([numbers : Seq(Nat), action : Actions]) /\ default' \in Actions
      /\ phase' \in {"build", "rejected"}
  BY ResolvedRules, DefaultIs DEF Resolve, TypeOK, Actions
<1>3. TypeOK'
  BY <1>1, <1>2 DEF TypeOK, Phase
<1>4. Resolved'
  BY <1>1 DEF Resolve, Resolved
<1>5. Layout'
  BY <1>1, <1>2 DEF Layout
<1>6. Len(rules') \in Nat
  BY <1>2, LenProperties
<1>7. InOrder'
  BY <1>1, <1>6 DEF InOrder
<1>8. Complete'
  BY <1>1, <1>6 DEF Complete, Before
<1> QED
  BY <1>3, <1>4, <1>5, <1>7, <1>8 DEF Building

\* The gate is put first.
LEMMA InitializeStep == ASSUME FilterInv, Initialize PROVE Building'
<1> TypeOK /\ Resolved /\ Layout /\ InOrder /\ Complete
  BY DEF FilterInv
<1>1. /\ phase = "build" /\ prog = <<>> /\ prog' = Gate /\ origin = <<>>
      /\ UNCHANGED <<phase, given, rules, default, next, origin, len, machine>>
  BY DEF Initialize, Layout
<1>2. TypeOK'
  BY <1>1, GateIs DEF TypeOK
<1>3. Resolved'
  BY <1>1 DEF Resolved
<1>4. prog' # <<>> /\ Len(prog') = 4 /\ Len(origin') = 0
  BY <1>1, GateIs
<1>5. Layout'
  BY <1>1, <1>4 DEF Layout, Gate
<1>6. InOrder' /\ Complete'
  BY <1>1 DEF InOrder, Complete, AtNumber
<1> QED
  BY <1>2, <1>3, <1>5, <1>6 DEF Building

\* Going on to the next rule passes over no number.
LEMMA NextRuleStep == ASSUME FilterInv, NextRule PROVE Building'
<1> TypeOK /\ Resolved /\ Layout /\ InOrder /\ Complete
  BY DEF FilterInv
<1>1. /\ phase = "build" /\ prog # <<>> /\ next' = <<next[1] + 1, 1>>
      /\ ~AtNumber(next[1], next[2])
      /\ UNCHANGED <<phase, given, rules, default, prog, origin, len, machine>>
  BY DEF NextRule
<1>2. /\ Len(rules) \in Nat /\ DOMAIN rules = 1..Len(rules)
      /\ next \in (Nat \ {0}) \X (Nat \ {0})
  BY LenProperties DEF TypeOK
<1>3. next[1] \in 1..Len(rules) /\ next'[1] = next[1] + 1 /\ next'[2] = 1
  BY <1>1, <1>2 DEF NextRule
<1>4. TypeOK'
  BY <1>1, <1>2 DEF TypeOK
<1>5. Resolved'
  BY <1>1 DEF Resolved
<1>6. Layout'
  BY <1>1 DEF Layout, NumberOf, ActionOf
<1>7. ASSUME NEW p \in (Nat \ {0}) \X (Nat \ {0}), Before(p, next) PROVE Before(p, next')
  BY <1>2, <1>3, <1>7, SMT DEF Before
<1>8. InOrder'
  <2>1. next'[1] \in 1..(Len(rules') + 1)
    BY <1>1, <1>2, <1>3
  <2>2. \A k \in 1..Len(origin') : /\ AtNumber(origin[k][1], origin[k][2])'
                                   /\ Before(origin[k], next')
    <3>1. \A k \in 1..Len(origin) : origin[k] \in (Nat \ {0}) \X (Nat \ {0})
      BY ElementOfSeq DEF TypeOK
    <3> QED
      BY <1>1, <1>7, <3>1 DEF InOrder, AtNumber
  <2> QED
    BY <1>1, <2>1, <2>2 DEF InOrder
<1>9. Complete'
  <2> SUFFICES ASSUME NEW i \in 1..Len(rules), NEW j \in 1..Len(rules[i].numbers),
                      Before(<<i, j>>, next')
               PROVE  Before(<<i, j>>, next)
    BY <1>1 DEF Complete
  <2>1. i < next[1] \/ i = next[1]
    BY <1>2, <1>3 DEF Before
  <2>2. CASE i = next[1]
    <3>1. rules[i] \in [numbers : Seq(Nat), action : Actions]
      BY ElementOfSeq DEF TypeOK
    <3>2. Len(rules[i].numbers) \in Nat /\ DOMAIN rules[i].numbers = 1..Len(rules[i].numbers)
      BY <3>1, LenProperties
    <3>3. next[2] \notin 1..Len(rules[i].numbers)
      BY <1>1, <1>2, <1>3, <2>2, <3>2 DEF AtNumber
    <3> QED
      BY <1>2, <2>2, <3>2, <3>3 DEF Before
  <2> QED
    BY <1>2, <2>1, <2>2 DEF Before
<1> QED
  BY <1>4, <1>5, <1>6, <1>8, <1>9 DEF Building

\* The loop's body adds the pair of the number it is at, after all the others.
LEMMA EmitStep == ASSUME FilterInv, Emit PROVE Building'
<1> TypeOK /\ Resolved /\ Layout /\ InOrder /\ Complete
  BY DEF FilterInv
<1> DEFINE Places == (Nat \ {0}) \X (Nat \ {0})
           n == Len(origin)
<1>1. /\ phase = "build" /\ prog # <<>> /\ next' = <<next[1], next[2] + 1>>
      /\ AtNumber(next[1], next[2])
      /\ UNCHANGED <<phase, given, rules, default, len, machine>>
  BY DEF Emit
<1>2. /\ next \in Places
      /\ next[1] \in 1..Len(rules) /\ next[2] \in 1..Len(rules[next[1]].numbers)
      /\ prog' \in Seq(Insns) /\ Len(prog') = Len(prog) + 2
      /\ \A x \in 1..Len(prog) : prog'[x] = prog[x]
      /\ prog'[Len(prog) + 1] = Match(rules[next[1]].numbers[next[2]])
      /\ prog'[Len(prog) + 2] = Return(rules[next[1]].action)
      /\ origin' \in Seq(Places) /\ Len(origin') = n + 1
      /\ \A k \in 1..n : origin'[k] = origin[k]
      /\ origin'[n + 1] = next
  BY EmitAdds
<1>3. /\ n \in Nat /\ Len(rules) \in Nat
      /\ \A k \in 1..n : origin[k] \in Places
  BY LenProperties, ElementOfSeq DEF TypeOK
<1>4. next'[1] = next[1] /\ next'[2] = next[2] + 1
  BY <1>1
<1>5. TypeOK'
  <2>1. next' \in Places
    BY <1>1, <1>2
  <2> QED
    BY <1>1, <1>2, <2>1 DEF TypeOK
<1>6. Resolved'
  BY <1>1 DEF Resolved
<1>7. Layout'
  <2>1. /\ Len(prog) = 4 + 2 * n
        /\ \A x \in 1..4 : prog[x] = Gate[x]
        /\ \A k \in 1..n : /\ prog[3 + 2 * k] = Match(NumberOf(k))
                            /\ prog[4 + 2 * k] = Return(ActionOf(k))
    BY <1>1, <1>3 DEF Layout
  <2>2. prog' # <<>> /\ Len(prog') = 4 + 2 * Len(origin')
    BY <1>2, <1>3, <2>1
  <2>3. \A x \in 1..4 : prog'[x] = Gate[x]
    BY <1>2, <1>3, <2>1
  <2>4. ASSUME NEW k \in 1..Len(origin')
        PROVE  /\ prog'[3 + 2 * k] = Match(NumberOf(k)')
               /\ prog'[4 + 2 * k] = Return(ActionOf(k)')
    <3>1. CASE k \in 1..n
      <4>1. NumberOf(k)' = NumberOf(k) /\ ActionOf(k)' = ActionOf(k)
        BY <1>1, <1>2, <3>1 DEF NumberOf, ActionOf
      <4>2. 3 + 2 * k \in 1..Len(prog) /\ 4 + 2 * k \in 1..Len(prog)
        BY <1>3, <2>1, <3>1
      <4> QED
        BY <1>2, <2>1, <3>1, <4>1, <4>2
    <3>2. CASE k = n + 1
      <4>1. 3 + 2 * k = Len(prog) + 1 /\ 4 + 2 * k = Len(prog) + 2
        BY <1>3, <2>1, <3>2
      <4>2. /\ NumberOf(k)' = rules[next[1]].numbers[next[2]]
            /\ ActionOf(k)' = rules[next[1]].action
        BY <1>1, <1>2, <3>2 DEF NumberOf, ActionOf
      <4> QED
        BY <1>2, <4>1, <4>2
    <3> QED
      BY <1>2, <1>3, <3>1, <3>2
  <2>5. Match(NumberOf(1))' = Match(NumberOf(1)')
    BY DEF Match, Jump
  <2> QED
    BY <1>1, <2>2, <2>3, <2>4 DEF Layout, Match, Jump, Return, Gate, Load, ArchJump
<1>8. InOrder'
  <2>1. ASSUME NEW p \in Places, Before(p, next) PROVE Before(p, next')
    BY <1>2, <1>4, <2>1 DEF Before
  <2>2. Before(next, next')
    BY <1>2, <1>4 DEF Before
  <2>3. ASSUME NEW k \in 1..Len(origin')
        PROVE  AtNumber(origin'[k][1], origin'[k][2]) /\ Before(origin'[k], next')
    <3>1. CASE k \in 1..n
      BY <1>2, <1>3, <2>1, <3>1 DEF InOrder
    <3>2. CASE k = n + 1
      BY <1>1, <1>2, <2>2, <3>2
    <3> QED
      BY <1>2, <1>3, <3>1, <3>2
  <2>4. ASSUME NEW k \in 1..Len(origin'), NEW l \in 1..Len(origin'), k < l
        PROVE  Before(origin'[k], origin'[l])
    <3>1. k \in 1..n
      BY <1>2, <1>3, <2>4
    <3>2. CASE l \in 1..n
      BY <1>2, <2>4, <3>1, <3>2 DEF InOrder
    <3>3. CASE l = n + 1
      BY <1>2, <3>1, <3>3 DEF InOrder
    <3> QED
      BY <1>2, <1>3, <3>2, <3>3
  <2>5. next'[1] \in 1..(Len(rules) + 1)
    BY <1>2, <1>3, <1>4
  <2> QED
    BY <1>1, <2>3, <2>4, <2>5 DEF InOrder, AtNumber, Before
<1>9. Complete'
  <2> SUFFICES ASSUME NEW i \in 1..Len(rules), NEW j \in 1..Len(rules[i].numbers),
                      Before(<<i, j>>, next')
               PROVE  \E k \in 1..Len(origin') : origin'[k] = <<i, j>>
    BY <1>1 DEF Complete, Before
  <2>1. CASE Before(<<i, j>>, next)
    <3>1. PICK k \in 1..n : origin[k] = <<i, j>>
      BY <2>1 DEF Complete
    <3>2. k \in 1..Len(origin')
      BY <1>2, <1>3
    <3>3. origin'[k] = origin[k]
      BY <1>2
    <3> QED
      BY <3>1, <3>2, <3>3
  <2>2. CASE ~Before(<<i, j>>, next)
    <3>1. rules[i] \in [numbers : Seq(Nat), action : Actions]
      BY ElementOfSeq DEF TypeOK
    <3>2. Len(rules[i].numbers) \in Nat
      BY <3>1, LenProperties
    <3>3. i = next[1] /\ j = next[2]
      BY <1>2, <1>4, <2>2, <3>2 DEF Before
    <3>4. next = <<i, j>>
      BY <1>2, <3>3
    <3>5. n + 1 \in 1..Len(origin') /\ origin'[n + 1] = <<i, j>>
      BY <1>2, <1>3, <3>4
    <3> QED
      BY <3>5
  <2> QED
    BY <2>1, <2>2
<1> QED
  BY <1>5, <1>6, <1>7, <1>8, <1>9 DEF Building

\* The default action is put last.
LEMMA FinishStep == ASSUME FilterInv, Finish PROVE Building'
<1> TypeOK /\ Resolved /\ Layout /\ InOrder /\ Complete
  BY DEF FilterInv
<1>1. /\ phase = "build" /\ prog # <<>> /\ phase' = "install"
      /\ next[1] \notin DOMAIN rules
      /\ UNCHANGED <<given, rules, default, next, origin, len, machine>>
  BY DEF Finish
<1>2. /\ prog' \in Seq(Insns) /\ Len(prog') = Len(prog) + 1
      /\ \A x \in 1..Len(prog) : prog'[x] = prog[x]
      /\ prog'[Len(prog) + 1] = Return(default)
  BY FinishAdds
<1>3. /\ Len(origin) \in Nat /\ Len(rules) \in Nat /\ DOMAIN rules = 1..Len(rules)
      /\ Len(prog) = 4 + 2 * Len(origin)
  BY <1>1, LenProperties DEF TypeOK, Layout
<1>4. TypeOK'
  BY <1>1, <1>2 DEF TypeOK, Phase
<1>5. Resolved'
  BY <1>1 DEF Resolved
<1>6. Layout'
  <2>1. next[1] = Len(rules) + 1
    BY <1>1, <1>3 DEF InOrder
  <2>2. prog' # <<>> /\ Len(prog') = 5 + 2 * Len(origin)
    BY <1>2, <1>3
  <2>3. \A x \in 1..4 : prog'[x] = Gate[x]
    BY <1>1, <1>2, <1>3 DEF Layout
  <2>4. \A k \in 1..Len(origin) : /\ prog'[3 + 2 * k] = Match(NumberOf(k))
                                  /\ prog'[4 + 2 * k] = Return(ActionOf(k))
    <3> SUFFICES ASSUME NEW k \in 1..Len(origin)
                 PROVE  /\ prog'[3 + 2 * k] = Match(NumberOf(k))
                        /\ prog'[4 + 2 * k] = Return(ActionOf(k))
      OBVIOUS
    <3>1. prog[3 + 2 * k] = Match(NumberOf(k)) /\ prog[4 + 2 * k] = Return(ActionOf(k))
      BY <1>1 DEF Layout
    <3>2. 3 + 2 * k \in 1..Len(prog) /\ 4 + 2 * k \in 1..Len(prog)
      BY <1>3
    <3> QED
      BY <1>2, <3>1, <3>2
  <2>5. \A k : NumberOf(k)' = NumberOf(k) /\ ActionOf(k)' = ActionOf(k)
    BY <1>1 DEF NumberOf, ActionOf
  <2> QED
    BY <1>1, <1>2, <1>3, <2>1, <2>2, <2>3, <2>4, <2>5
       DEF Layout, Match, Jump, Return, Gate, Load, ArchJump
<1>7. InOrder' /\ Complete'
  BY <1>1 DEF InOrder, Complete, AtNumber, Before
<1> QED
  BY <1>4, <1>5, <1>6, <1>7 DEF Building

----------------------------------------------------------------------------
\* The cut takes a whole number of 65536s off the length: it stays odd.
LEMMA CutOdd ==
  ASSUME NEW n \in Nat
  PROVE  /\ Cut(5 + 2 * n) \in Nat /\ Cut(5 + 2 * n) <= 5 + 2 * n
         /\ \E d \in Nat : Cut(5 + 2 * n) = 2 * d + 1
         /\ 5 + 2 * n < 2 * HalfU16 => Cut(5 + 2 * n) = 5 + 2 * n
<1> DEFINE w == 2 * HalfU16
           x == 5 + 2 * n
           q == x \div w
           c == x % w
<1>1. HalfU16 \in Nat /\ w \in Nat /\ w > 0 /\ x \in Nat
  BY WidthAssumption
<1> HIDE DEF w, x
<1>2. c \in 0..(w - 1) /\ q \in Nat /\ x = w * q + c
  BY <1>1
<1>3. x < w => c = x
  BY <1>1
<1>4. c <= x
  BY <1>1, <1>3, <1>2
<1>5. \E d \in Nat : c = 2 * d + 1
  <2> DEFINE h == HalfU16 * q
  <2>1. h \in Nat
    BY <1>1, <1>2
  <2>2. w * q = 2 * h
    BY <1>1, <1>2 DEF w
  <2> HIDE DEF h, c, q
  <2>3. c = 5 + 2 * n - 2 * h /\ c \in Nat
    BY <1>2, <2>1, <2>2, <1>1 DEF x
  <2>4. c = 2 * (2 + n - h) + 1 /\ 2 + n - h \in Nat
    BY <2>1, <2>3
  <2> QED
    BY <2>4
<1>6. Cut(5 + 2 * n) = c
  BY DEF Cut, w, x
<1> HIDE DEF c, q
<1> QED
  BY <1>2, <1>3, <1>4, <1>5, <1>6, <1>1 DEF w, x

\* The kernel takes the whole program or none of it, and takes it if it fits.
LEMMA InstallStep ==
  ASSUME FilterInv, Install
  PROVE  TypeOK' /\ NoPrefixInstalled' /\ RefusedOnlyForSize'
<1> TypeOK /\ Layout
  BY DEF FilterInv
<1> DEFINE n == Len(origin)
<1>1. /\ phase = "install" /\ len' = Cut(Len(prog))
      /\ phase' = IF Accepts(len') THEN "installed" ELSE "refused"
      /\ UNCHANGED <<given, built, machine>>
  BY DEF Install
<1>2. n \in Nat /\ prog # <<>>
  BY <1>1, LenProperties DEF TypeOK, Layout
<1>3. /\ Len(prog) = 5 + 2 * n
      /\ prog[Len(prog)] = Return(default)
      /\ prog[1] = Load("arch") /\ prog[2] = Jump(X86_64, 1, 0)
      /\ prog[3] = Return("KILL_PROCESS") /\ prog[4] = Load("nr")
      /\ \A k \in 1..n : /\ prog[3 + 2 * k] = Match(NumberOf(k))
                          /\ prog[4 + 2 * k] = Return(ActionOf(k))
  BY <1>1, <1>2, GateIs DEF Layout
<1>4. /\ len' \in Nat /\ len' <= Len(prog)
      /\ Len(prog) < 2 * HalfU16 => len' = Len(prog)
  BY <1>1, <1>2, <1>3, CutOdd
<1>5. PICK d \in Nat : len' = 2 * d + 1
  BY <1>1, <1>2, <1>3, CutOdd
<1>6. Accepts(len') => len' = Len(prog)
  <2> SUFFICES ASSUME Accepts(len') PROVE d = n + 2
    BY <1>2, <1>3, <1>5
  <2>1. /\ prog[len'].op = "ret" /\ len' \in 1..MaxInsns
        /\ \A x \in 1..len' : prog[x].op = "jeq" => x + 1 + prog[x].jt <= len'
    BY DEF Accepts
  <2>2. d # 0
    BY <1>3, <1>5, <2>1, Ops
  <2>3. d # 1
    BY <1>3, <1>5, <2>1, Ops
  <2>4. ASSUME d \in 2..(n + 1) PROVE FALSE
    <3>1. d - 1 \in 1..n /\ 3 + 2 * (d - 1) = len'
      BY <1>2, <1>5, <2>4
    <3>2. prog[len'] = Match(NumberOf(d - 1))
      BY <1>3, <3>1
    <3> QED
      BY <2>1, <3>2, Ops
  <2>5. d <= n + 2
    BY <1>2, <1>3, <1>4, <1>5
  <2> QED
    BY <1>2, <2>2, <2>3, <2>4, <2>5
<1>7. Len(prog) <= MaxInsns => Accepts(len')
  <2> SUFFICES ASSUME Len(prog) <= MaxInsns PROVE Accepts(len')
    OBVIOUS
  <2>1. len' = Len(prog) /\ len' \in 1..MaxInsns
    BY <1>2, <1>3, <1>4, WidthAssumption
  <2>2. prog[len'].op = "ret"
    BY <1>3, <2>1, Ops
  <2>3. ASSUME NEW x \in 1..len', prog[x].op = "jeq"
        PROVE  x + 1 + prog[x].jt <= len' /\ x + 1 + prog[x].jf <= len'
    <3>1. x # 1 /\ x # 3 /\ x # 4 /\ x # 5 + 2 * n
      BY <1>3, <2>3, Ops
    <3>2. CASE x = 2
      BY <1>2, <1>3, <2>1, <3>2, Ops
    <3>3. CASE \E k \in 1..n : x = 3 + 2 * k
      <4>1. PICK k \in 1..n : x = 3 + 2 * k
        BY <3>3
      <4>2. prog[x].jt = 0 /\ prog[x].jf = 1
        BY <1>3, <4>1, Ops
      <4> QED
        BY <1>2, <1>3, <2>1, <4>1, <4>2
    <3>4. CASE \E k \in 1..n : x = 4 + 2 * k
      BY <1>3, <2>3, <3>4, Ops
    <3>5. \/ x \in 1..4 \/ x = 5 + 2 * n
          \/ \E k \in 1..n : x = 3 + 2 * k
          \/ \E k \in 1..n : x = 4 + 2 * k
      <4>1. x \in Nat /\ 1 <= x /\ x <= 5 + 2 * n
        BY <1>2, <1>3, <2>1
      <4>2. \E k \in Int : x = 3 + 2 * k \/ x = 4 + 2 * k
        <5>1. (x - 3) \div 2 \in Int
              /\ (x = 3 + 2 * ((x - 3) \div 2) \/ x = 4 + 2 * ((x - 3) \div 2))
          BY <4>1
        <5> QED
          BY <5>1
      <4>3. PICK k \in Int : x = 3 + 2 * k \/ x = 4 + 2 * k
        BY <4>2
      <4>4. k \in 1..n \/ x \in 1..4 \/ x = 5 + 2 * n
        BY <1>2, <4>1, <4>3
      <4> QED
        BY <4>3, <4>4
    <3> QED
      BY <3>1, <3>2, <3>3, <3>4, <3>5
  <2> QED
    BY <2>1, <2>2, <2>3 DEF Accepts
<1>8. TypeOK'
  BY <1>1, <1>4 DEF TypeOK, Phase
<1>9. NoPrefixInstalled'
  BY <1>1, <1>6 DEF NoPrefixInstalled
<1>10. RefusedOnlyForSize'
  <2>1. Len(prog) \in Nat /\ MaxInsns \in Nat
    BY <1>2, <1>3, WidthAssumption
  <2> QED
    BY <1>1, <1>7, <2>1 DEF RefusedOnlyForSize
<1> QED
  BY <1>8, <1>9, <1>10

----------------------------------------------------------------------------
\* While the program is built there is no decision, and nothing is installed.
LEMMA NothingYet ==
  ASSUME FilterInv, phase \notin {"installed", "killed"}, UNCHANGED verdict,
         phase' \notin {"installed", "deciding", "killed", "refused"}
  PROVE  Machine' /\ Decided' /\ DecisionFollowsProfile' /\ NoPrefixInstalled' /\ RefusedOnlyForSize'
<1>1. verdict' = "none"
  BY DEF FilterInv, Decided
<1> QED
  BY <1>1 DEF Machine, Decided, DecisionFollowsProfile, NoPrefixInstalled, RefusedOnlyForSize

\* Once it is built, nothing changes the program, or what it was built from.
LEMMA BuiltStays ==
  ASSUME FilterInv, UNCHANGED <<given, built>>,
         phase \notin {"resolve", "rejected", "build"},
         phase' \notin {"resolve", "rejected", "build"}
  PROVE  Resolved' /\ Layout' /\ InOrder' /\ Complete'
<1> Resolved /\ Layout /\ InOrder /\ Complete
  BY DEF FilterInv
<1>1. Resolved'
  BY DEF Resolved
<1>2. Layout'
  BY DEF Layout, NumberOf, ActionOf, Match, Jump, Return, Gate, ArchJump, Load
<1>3. InOrder' /\ Complete'
  BY DEF InOrder, Complete, AtNumber, Before
<1> QED
  BY <1>1, <1>2, <1>3

\* A system call starts the machine at the gate, with no decision.
LEMMA SysCallStep == ASSUME FilterInv, SysCall PROVE TypeOK' /\ Machine'
<1>1. /\ call' \in [arch : Nat, nr : Nat] /\ call' \in Calls
      /\ pc' = 1 /\ acc' = 0 /\ verdict' = "none" /\ phase' = "deciding"
  BY CallAssumption DEF SysCall
<1> QED
  BY <1>1 DEF SysCall, FilterInv, TypeOK, Phase, Machine, InGate

\* A system call, and the machine's steps, undo nothing of what was installed.
LEMMA RunningStays ==
  ASSUME FilterInv, phase \in {"installed", "deciding"}, UNCHANGED <<given, built, len>>,
         phase' \in {"installed", "deciding", "killed"}
  PROVE  /\ Resolved' /\ Layout' /\ InOrder' /\ Complete'
         /\ NoPrefixInstalled' /\ RefusedOnlyForSize'
<1>1. NoPrefixInstalled' /\ RefusedOnlyForSize'
  BY DEF FilterInv, NoPrefixInstalled, RefusedOnlyForSize
<1> QED
  BY <1>1, BuiltStays

----------------------------------------------------------------------------
\* The invariant holds before the profile is read.
LEMMA InitIInv == Init => FilterInv
<1> SUFFICES ASSUME Init PROVE FilterInv
  OBVIOUS
<1>1. TypeOK
  BY DEF Init, TypeOK, Phase, Actions
<1>2. Len(rules) = 0 /\ Len(origin) = 0
  BY DEF Init
<1>3. Resolved /\ Layout
  BY DEF Init, Resolved, Layout
<1>4. InOrder /\ Complete
  BY <1>2 DEF Init, InOrder, Complete
<1>5. Machine /\ Decided /\ DecisionFollowsProfile /\ NoPrefixInstalled /\ RefusedOnlyForSize
  BY DEF Init, Machine, Decided, DecisionFollowsProfile, NoPrefixInstalled, RefusedOnlyForSize
<1> QED
  BY <1>1, <1>3, <1>4, <1>5 DEF FilterInv

\* A step that changes nothing keeps it.
LEMMA StutterIInv == FilterInv /\ UNCHANGED vars => FilterInv'
<1> SUFFICES ASSUME FilterInv, UNCHANGED vars PROVE FilterInv'
  OBVIOUS
<1> TypeOK /\ Resolved /\ Layout /\ InOrder /\ Complete
  BY DEF FilterInv
<1>1. TypeOK' /\ Resolved'
  BY DEF TypeOK, Resolved
<1>2. InOrder' /\ Complete'
  <2>1. InOrder'
    BY DEF InOrder, AtNumber, Before
  <2>2. Complete'
    BY DEF Complete, Before
  <2> QED
    BY <2>1, <2>2
<1>3. Layout'
  BY DEF Layout, NumberOf, ActionOf, Match, Jump, Return, Gate, ArchJump, Load
<1>4. Machine'
  BY DEF FilterInv, Machine, InGate, InPairs, NoneBefore, NumberOf
<1>5. Decided' /\ NoPrefixInstalled' /\ RefusedOnlyForSize'
  BY DEF FilterInv, Decided, NoPrefixInstalled, RefusedOnlyForSize
<1>6. DecisionFollowsProfile'
  BY DEF FilterInv, DecisionFollowsProfile, Says, ProfileSays, DefaultSays, About
<1> QED
  BY <1>1, <1>2, <1>3, <1>4, <1>5, <1>6 DEF FilterInv

\* Every step keeps it.
LEMMA NextIInv == FilterInv /\ [Next]_vars => FilterInv'
<1> SUFFICES ASSUME FilterInv, [Next]_vars PROVE FilterInv'
  OBVIOUS
<1>1. CASE Resolve
  <2>1. /\ phase = "resolve" /\ phase' \in {"build", "rejected"} /\ UNCHANGED verdict
    BY <1>1 DEF Resolve
  <2> QED
    BY <1>1, <2>1, ResolveStep, NothingYet DEF Building, FilterInv
<1>2. CASE Initialize
  <2>1. phase = "build" /\ UNCHANGED <<phase, verdict>>
    BY <1>2 DEF Initialize
  <2> QED
    BY <1>2, <2>1, InitializeStep, NothingYet DEF Building, FilterInv
<1>3. CASE Emit
  <2>1. phase = "build" /\ UNCHANGED <<phase, verdict>>
    BY <1>3 DEF Emit
  <2> QED
    BY <1>3, <2>1, EmitStep, NothingYet DEF Building, FilterInv
<1>4. CASE NextRule
  <2>1. phase = "build" /\ UNCHANGED <<phase, verdict>>
    BY <1>4 DEF NextRule
  <2> QED
    BY <1>4, <2>1, NextRuleStep, NothingYet DEF Building, FilterInv
<1>5. CASE Finish
  <2>1. phase = "build" /\ phase' = "install" /\ UNCHANGED verdict
    BY <1>5 DEF Finish
  <2> QED
    BY <1>5, <2>1, FinishStep, NothingYet DEF Building, FilterInv
<1>6. CASE Install
  <2>1. /\ phase = "install" /\ phase' \in {"installed", "refused"}
        /\ UNCHANGED <<given, built, verdict>> /\ verdict = "none"
    BY <1>6 DEF Install, FilterInv, Decided
  <2>2. Machine' /\ Decided' /\ DecisionFollowsProfile'
    BY <2>1 DEF Machine, Decided, DecisionFollowsProfile
  <2> QED
    BY <1>6, <2>1, <2>2, InstallStep, BuiltStays DEF FilterInv
<1>7. CASE SysCall
  <2>1. /\ phase = "installed" /\ phase' = "deciding" /\ verdict' = "none"
        /\ UNCHANGED <<given, built, len>>
    BY <1>7 DEF SysCall
  <2>2. Decided' /\ DecisionFollowsProfile'
    BY <2>1 DEF Decided, DecisionFollowsProfile
  <2> QED
    BY <1>7, <2>1, <2>2, SysCallStep, RunningStays DEF FilterInv
<1>8. CASE RunLoad \/ RunJump
  <2>1. /\ phase = "deciding" /\ UNCHANGED <<phase, given, built, len, verdict>>
        /\ verdict = "none"
    BY <1>8 DEF RunLoad, RunJump, Fetch, FilterInv, Decided
  <2>2. Decided' /\ DecisionFollowsProfile'
    BY <2>1 DEF Decided, DecisionFollowsProfile
  <2> QED
    BY <1>8, <2>1, <2>2, LoadStep, JumpStep, RunningStays DEF FilterInv
<1>9. CASE RunReturn
  <2>1. /\ phase = "deciding" /\ phase' \in {"installed", "killed"}
        /\ UNCHANGED <<given, built, len>>
    BY <1>9 DEF RunReturn, Fetch
  <2>2. Machine' /\ Decided'
    BY <2>1 DEF Machine, Decided
  <2> QED
    BY <1>9, <2>1, <2>2, ReturnStep, RunningStays DEF FilterInv
<1>10. CASE Finished \/ UNCHANGED vars
  BY <1>10, StutterIInv DEF Finished
<1> QED
  BY <1>1, <1>2, <1>3, <1>4, <1>5, <1>6, <1>7, <1>8, <1>9, <1>10 DEF Next

----------------------------------------------------------------------------
\* The refinement.  The profile as written says at most one thing of a call ...
LEMMA SaysOnce ==
  ASSUME TypeOK, NEW k, NEW a, NEW b, Says(k, a), Says(k, b) PROVE a = b
<1>1. CASE k.arch # X86_64 \/ profile = NoProfile
  BY <1>1 DEF Says, DefaultSays
<1>2. CASE k.arch = X86_64 /\ profile # NoProfile
  <2>1. ProfileSays(k.nr, a) /\ ProfileSays(k.nr, b)
    BY <1>2 DEF Says
  <2>2. DOMAIN profile.rules = 1..Len(profile.rules) /\ Len(profile.rules) \in Nat
    BY <1>2, ProfileAssumption, LenProperties DEF TypeOK, IsProfile
  <2>3. ASSUME NEW i \in DOMAIN profile.rules, NEW j \in DOMAIN profile.rules,
               About(i, k.nr), \A h \in 1..(i - 1) : ~About(h, k.nr),
               About(j, k.nr), \A h \in 1..(j - 1) : ~About(h, k.nr)
        PROVE  i = j
    <3>1. ~ (i < j) /\ ~ (j < i)
      BY ONLY <2>2, <2>3
    <3> QED
      BY ONLY <2>2, <3>1
  <2> QED
    BY ONLY <2>1, <2>3 DEF ProfileSays
<1> QED
  BY <1>1, <1>2

\* ... and, if it can be resolved, at least one: of the rules about the call there
\* is a first.
LEMMA SaysSomething ==
  ASSUME TypeOK, profile # NoProfile => Resolvable(profile), NEW k
  PROVE  \E a \in Actions : Says(k, a)
<1>1. CASE k.arch # X86_64 \/ profile = NoProfile
  BY <1>1 DEF Says, DefaultSays, Actions
<1>2. CASE k.arch = X86_64 /\ profile # NoProfile
  <2> DEFINE T == {i \in DOMAIN profile.rules : About(i, k.nr)}
             Less == OpToRel(<, Nat)
  <2>1. DOMAIN profile.rules = 1..Len(profile.rules) /\ Len(profile.rules) \in Nat
    BY <1>2, ProfileAssumption, LenProperties DEF TypeOK, IsProfile
  <2>2. CASE T = {}
    <3>1. ProfileSays(k.nr, profile.default) /\ profile.default \in Actions
      BY <1>2, <2>2 DEF ProfileSays, Resolvable
    <3> QED
      BY <1>2, <3>1 DEF Says
  <2>3. CASE T # {}
    <3>1. T \subseteq Nat
      BY <2>1
    <3>2. \A x, y \in Nat : x < y => <<x, y>> \in Less
      BY DEF OpToRel
    <3>3. IsWellFoundedOn(Less, Nat)
      BY NatLessThanWellFounded
    <3> HIDE DEF Less
    <3>4. PICK m \in T : \A j \in T : ~ (<<j, m>> \in Less)
      <4> HIDE DEF T
      <4> QED
        BY <2>3, <3>1, <3>3, WFMin
    <3>5. \A h \in 1..(m - 1) : ~About(h, k.nr)
      <4> SUFFICES ASSUME NEW h \in 1..(m - 1), About(h, k.nr) PROVE FALSE
        OBVIOUS
      <4>1. m \in 1..Len(profile.rules)
        BY <2>1
      <4>2. h \in 1..Len(profile.rules) /\ h < m /\ h \in Nat /\ m \in Nat
        BY ONLY <2>1, <4>1, h \in 1..(m - 1)
      <4>3. h \in T
        BY <2>1, <4>2
      <4> QED
        BY ONLY <3>2, <3>4, <4>2, <4>3
    <3>6. ~profile.rules[m].args /\ profile.rules[m].action \in Actions
      BY <1>2 DEF Resolvable
    <3>7. ProfileSays(k.nr, profile.rules[m].action)
      BY <3>5, <3>6 DEF ProfileSays
    <3> QED
      BY <1>2, <3>6, <3>7 DEF Says
  <2> QED
    BY <2>2, <2>3
<1> QED
  BY <1>1, <1>2

\* The table of the policy is that of the profile, which stays what it is.
Table == [k \in Calls |-> {a \in Actions : Says(k, a)}]

LEMMA TableStays == ASSUME UNCHANGED profile PROVE Table' = Table
<1>1. \A k, a : Says(k, a)' <=> Says(k, a)
  BY DEF Says, DefaultSays, ProfileSays, About
<1> QED
  BY <1>1 DEF Table

LEMMA PolicyStart == ASSUME Init PROVE Policy!Init
<1>1. TypeOK
  BY InitIInv DEF FilterInv
<1>2. Table \in [Calls -> {A \in SUBSET Actions : \A a, b \in A : a = b}]
  BY <1>1, SaysOnce DEF Table
<1> QED
  BY <1>2 DEF Policy!Init, Init, Table

\* A step of boxed, of the shim or of the BPF machine is a step of the policy or
\* is not to be seen.
LEMMA PolicyStep ==
  ASSUME FilterInv, FilterInv', [Next]_vars
  PROVE  [Policy!Next]_(Policy!vars)
<1> DEFINE State == CASE phase \in {"resolve", "build", "install"} -> "open"
                      [] phase = "installed" -> "force"
                      [] phase = "deciding"  -> "asked"
                      [] OTHER               -> "over"
<1>1. Table' = Table
  <2>1. UNCHANGED profile
    BY DEF Next, vars, given, Resolve, Initialize, Emit, NextRule, Finish, Install,
           SysCall, RunLoad, RunJump, RunReturn, Finished
  <2> QED
    BY <2>1, TableStays
<1>2. CASE Resolve
  <2>1. UNCHANGED <<call, verdict>> /\ phase = "resolve" /\ phase' \in {"build", "rejected"}
    BY <1>2 DEF Resolve, machine
  <2> QED
    BY <1>1, <2>1 DEF Policy!Next, Policy!vars, Policy!Refuse, Table
<1>3. CASE Initialize \/ Emit \/ NextRule \/ Finish
  <2>1. /\ UNCHANGED <<call, verdict>> /\ phase \in {"build", "install"}
        /\ phase' \in {"build", "install"}
    BY <1>3 DEF Initialize, Emit, NextRule, Finish, machine
  <2> QED
    BY <1>1, <2>1 DEF Policy!vars, Table
<1>4. CASE Install
  <2>1. /\ UNCHANGED <<call, verdict>> /\ phase = "install"
        /\ phase' \in {"installed", "refused"}
    BY <1>4 DEF Install, machine
  <2>2. \A k \in Calls : Table[k] # {}
    <3>1. profile # NoProfile => Resolvable(profile)
      BY <2>1 DEF FilterInv, Resolved
    <3> QED
      BY <3>1, SaysSomething DEF FilterInv, Table
  <2> QED
    BY <1>1, <2>1, <2>2 DEF Policy!Next, Policy!Enforce, Policy!Refuse, Table
<1>5. CASE SysCall
  BY <1>1, <1>5 DEF SysCall, Policy!Next, Policy!Ask, Table
<1>6. CASE RunLoad \/ RunJump
  <2>1. UNCHANGED <<phase, call, verdict>>
    BY <1>6 DEF RunLoad, RunJump
  <2> QED
    BY <1>1, <2>1 DEF Policy!vars, Table
<1>7. CASE RunReturn
  <2>1. /\ phase = "deciding" /\ call' = call
        /\ phase' = IF verdict' \in {"ALLOW", "ERRNO"} THEN "installed" ELSE "killed"
    BY <1>7 DEF RunReturn, Fetch
  <2>2. call \in Calls
    BY <2>1 DEF FilterInv, Machine
  <2>3. verdict' \in Table[call]
    BY <1>7, <2>2, Returned DEF Table
  <2> QED
    BY <1>1, <2>1, <2>3 DEF Policy!Next, Policy!Answer, Policy!Lets, Table
<1>8. CASE Finished \/ UNCHANGED vars
  BY <1>1, <1>8 DEF Finished, vars, machine, Policy!vars, Table
<1> QED
  BY <1>2, <1>3, <1>4, <1>5, <1>6, <1>7, <1>8 DEF Next

----------------------------------------------------------------------------
\* The inductive invariant of SeccompFilter is one: the program is what the
\* loops have visited, and a machine at the m-th pair has ruled out those before.
THEOREM Invariance == Spec => []FilterInv
<1> HIDE DEF vars, given, built, machine
<1> QED
  BY InitIInv, NextIInv, PTL DEF Spec

\* Every system call is decided as the profile reads: the first rule about it, or
\* else the default action; by the deny list where there is no profile.
THEOREM FollowsProfile == Spec => []DecisionFollowsProfile
<1>1. FilterInv => DecisionFollowsProfile
  BY DEF FilterInv
<1> QED
  BY <1>1, Invariance, PTL

\* No cut of the length makes the kernel take a part of the program for the whole.
THEOREM WholeProgram == Spec => []NoPrefixInstalled
<1>1. FilterInv => NoPrefixInstalled
  BY DEF FilterInv
<1> QED
  BY <1>1, Invariance, PTL

\* A profile that fits the kernel's limit is installed.
THEOREM FitsIsInstalled == Spec => []RefusedOnlyForSize
<1>1. FilterInv => RefusedOnlyForSize
  BY DEF FilterInv
<1> QED
  BY <1>1, Invariance, PTL

\* From the file to the fate of a system call, through the resolution, the loops,
\* the cut of the length and the jumps: what runs is the table that the profile is.
THEOREM Implements == Spec => ImplementsPolicy
<1>1. Init => Policy!Init
  BY PolicyStart
<1>2. FilterInv /\ FilterInv' /\ [Next]_vars => [Policy!Next]_(Policy!vars)
  BY PolicyStep
<1> HIDE DEF vars
<1> QED
  BY <1>1, <1>2, Invariance, PTL DEF Spec, ImplementsPolicy, Policy!Spec

============================================================================
