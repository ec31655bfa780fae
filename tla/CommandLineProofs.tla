------------------------- MODULE CommandLineProofs -------------------------
(***************************************************************************)
(* Proofs about CommandLine, for any command lines, disks and widths.      *)
(*                                                                         *)
(* LineInv says how far each loop has come (Progress), what the steps passed  *)
(* have ruled out (Checked), that a path means what was seen at it unless  *)
(* it is known to have changed (Known), why a run has failed               *)
(* (LateFailureIsTheHosts), and that the kernel's limits are those of the   *)
(* values written so far (InForce): for a disk and a key, the last pair of *)
(* the last value counts.                                                  *)
(***************************************************************************)
EXTENDS CommandLine, WellFoundedInduction, TLAPS

----------------------------------------------------------------------------
(***************************************************************************)
(* The inductive invariant.                                                *)
(***************************************************************************)
\* i is one past what validate has seen, and later one past what create has written.
Progress ==
    /\ pc \in {"config", "profile"} => i = 1 /\ seen = <<>>
    /\ pc = "validate" => Len(seen) = i - 1
    /\ pc \in {"ids", "clone", "cpuset", "io.max", "wait"} => Len(seen) = Len(line.io)
    /\ pc \in {"config", "profile", "validate", "ids", "clone", "cpuset"} =>
           used = <<>> /\ ioMax = [d \in Disks |-> [k \in Keys |-> Unlimited(k)]]
    /\ pc \in {"ids", "clone", "cpuset"} => i = 1
    /\ pc = "io.max" => Len(used) = i - 1
    /\ pc = "wait" => Len(used) = Len(line.io)

\* What has been passed is sound; the clone comes after all of it.
Checked ==
    /\ \A j \in DOMAIN seen : Parses(line.io[j])
    /\ pc \in {"validate", "ids", "clone"} => line.profile # "bad"
    /\ pc = "clone" => line.id # MaxU32
    /\ pc \in {"config", "profile", "validate", "ids", "clone"} => child = "none"
    /\ child = "running" => pc = "wait"
    /\ pc \in {"cpuset", "io.max", "wait"} => child # "none"
    /\ child # "none" =>
           /\ line.profile # "bad" /\ line.id # MaxU32
           /\ Len(seen) = Len(line.io)

\* A path is still what it was, or among those that have changed.
Known ==
    /\ \A j \in DOMAIN seen : seen[j] = udev[line.io[j].path]
                                \/ line.io[j].path \in changed
    /\ \A j \in DOMAIN used : used[j] = seen[j] \/ line.io[j].path \in changed
    /\ Len(used) <= Len(seen)

\* The limits given so far, of a disk and a key, and the last of them.
GivenTo(d, k) == {g \in Nat \X Nat :
                     /\ g[1] \in DOMAIN used /\ used[g[1]] = d
                     /\ g[2] \in Sets(line.io[g[1]].pairs, k)}
IsLast(g, S)  == \A h \in S : h[1] < g[1] \/ (h[1] = g[1] /\ h[2] <= g[2])

InForce == \A d \in Disks, k \in Keys :
    /\ GivenTo(d, k) = {} => ioMax[d][k] = Unlimited(k)
    /\ \A g \in GivenTo(d, k) : IsLast(g, GivenTo(d, k)) =>
          ioMax[d][k] = Stored(k, line.io[g[1]].pairs[g[2]].value)

LineInv == TypeOK /\ Progress /\ Checked /\ Known /\ InForce /\ LateFailureIsTheHosts

USE DEF Goes, Fails, Passes, vars, Over

\* The two ways of validate's step, and of create's.
ValueAccepted ==
    /\ pc = "validate" /\ i <= Len(line.io)
    /\ Parses(line.io[i]) /\ udev[line.io[i].path] \in Block
    /\ i' = i + 1 /\ seen' = Append(seen, udev[line.io[i].path])
    /\ UNCHANGED <<line, pc, udev, used, changed, child, ioMax>>

AllValidated ==
    /\ pc = "validate" /\ i > Len(line.io)
    /\ pc' = "ids" /\ i' = 1
    /\ UNCHANGED <<line, udev, seen, used, changed, child, ioMax>>

Device == udev[line.io[i].path]
Pairs  == line.io[i].pairs

ValueWritten ==
    /\ pc = "io.max" /\ i <= Len(line.io)
    /\ Parses(line.io[i]) /\ Device \in Block /\ KernelTakes(Device, Pairs)
    /\ ioMax' = [ioMax EXCEPT ![Device] = AfterWrite(@, Pairs)]
    /\ used' = Append(used, Device)
    /\ i' = i + 1
    /\ UNCHANGED <<line, pc, udev, seen, changed, child>>

ValueRefused ==
    /\ pc = "io.max" /\ i <= Len(line.io)
    /\ ~ (Parses(line.io[i]) /\ Device \in Block /\ KernelTakes(Device, Pairs))
    /\ pc' = "failed"
    /\ UNCHANGED <<line, i, udev, seen, used, changed, child, ioMax>>

\* A failure, or a success that changes no more than pc and child.
StepFails ==
    /\ pc \in {"config", "profile", "validate", "ids", "clone", "cpuset"}
    /\ pc = "cpuset" => line.cpuset \in {"malformed", "refused"}
    /\ pc' = "failed"
    /\ UNCHANGED <<line, i, udev, seen, used, changed, child, ioMax>>

StepPasses ==
    /\ \/ pc = "config" /\ pc' = "profile" /\ UNCHANGED child
       \/ pc = "profile" /\ pc' = "validate" /\ line.profile # "bad" /\ UNCHANGED child
       \/ pc = "ids" /\ pc' = "clone" /\ line.id # MaxU32 /\ UNCHANGED child
       \/ pc = "clone" /\ pc' = "cpuset" /\ child' = "waiting"
       \/ pc = "cpuset" /\ pc' = "io.max" /\ UNCHANGED child
       \/ pc = "io.max" /\ pc' = "wait" /\ i > Len(line.io) /\ child' = "running"
    /\ UNCHANGED <<line, i, udev, seen, used, changed, ioMax>>

\* A line's fields are of the types that Line gives them.
LEMMA LineType ==
  ASSUME TypeOK
  PROVE  /\ line.io \in Seq(IoMax) /\ line.id \in {-1} \cup 0..MaxU32
         /\ Len(line.io) \in Nat /\ i \in Nat
         /\ seen \in Seq(Block) /\ used \in Seq(Block)
         /\ Len(seen) \in Nat /\ Len(used) \in Nat
         /\ DOMAIN seen = 1..Len(seen) /\ DOMAIN used = 1..Len(used)
         /\ DOMAIN line.io = 1..Len(line.io)
<1>1. line \in Line
  BY LinesAssumption DEF TypeOK
<1>2. line.io \in Seq(IoMax) /\ line.id \in {-1} \cup 0..MaxU32
  BY <1>1 DEF Line
<1>3. Len(line.io) \in Nat /\ DOMAIN line.io = 1..Len(line.io)
  BY <1>2
<1>4. seen \in Seq(Block) /\ used \in Seq(Block)
  BY DEF TypeOK
<1>5. i \in Nat
  BY <1>3 DEF TypeOK
<1> QED
  BY <1>2, <1>3, <1>4, <1>5

\* A value that parses names a path, has pairs, and each has a key of the kernel's
\* and a number.
LEMMA ParsedValue ==
  ASSUME TypeOK, NEW j \in 1..Len(line.io), Parses(line.io[j])
  PROVE  /\ line.io[j].path \in Paths
         /\ line.io[j].pairs \in Seq(Pair)
         /\ \A m \in DOMAIN line.io[j].pairs :
               /\ line.io[j].pairs[m].key \in Keys
               /\ line.io[j].pairs[m].value \in 0..MaxU64
<1>1. line.io[j] \in IoMax
  BY LineType
<1> QED
  BY <1>1 DEF IoMax, Parses, IO_MAX_KEYS, Keys

\* Every step is one of these.
LEMMA StepCases ==
  ASSUME TypeOK, [Next]_vars
  PROVE  \/ ValueAccepted \/ AllValidated \/ ValueWritten \/ ValueRefused
         \/ StepFails \/ StepPasses \/ UNCHANGED vars
         \/ \E p \in Paths, n \in Nodes : UdevChange(p, n)
<1>1. i \in Nat /\ Len(line.io) \in Nat
  BY LineType
<1>2. CASE ConfigDir /\ UNCHANGED <<line, udev, changed>>
  BY <1>2 DEF ConfigDir, StepFails, StepPasses
<1>3. CASE LoadProfile /\ UNCHANGED <<line, udev, changed>>
  BY <1>3 DEF LoadProfile, StepFails, StepPasses
<1>4. CASE Validate /\ UNCHANGED <<line, udev, changed>>
  BY <1>1, <1>4 DEF Validate, EachValue, Resolves, ValueAccepted, AllValidated,
                    StepFails
<1>5. CASE ValidateIds /\ UNCHANGED <<line, udev, changed>>
  BY <1>5 DEF ValidateIds, StepFails, StepPasses
<1>6. CASE Clone /\ UNCHANGED <<line, udev, changed>>
  BY <1>6 DEF Clone, StepFails, StepPasses
<1>7. CASE WriteCpuset /\ UNCHANGED <<line, udev, changed>>
  BY <1>7 DEF WriteCpuset, StepFails, StepPasses
<1>8. CASE WriteIoMax /\ UNCHANGED <<line, udev, changed>>
  BY <1>8 DEF WriteIoMax, DeviceOf, RenderIoMax, Device, Pairs, ValueWritten,
              ValueRefused
<1>9. CASE GoAhead /\ UNCHANGED <<line, udev, changed>>
  BY <1>9 DEF GoAhead, StepPasses
<1> QED
  BY <1>2, <1>3, <1>4, <1>5, <1>6, <1>7, <1>8, <1>9 DEF Next, Step, Finished

----------------------------------------------------------------------------
(***************************************************************************)
(* What a write leaves in the kernel.                                      *)
(***************************************************************************)
\* Of a non-empty set of positions, one is the last.
LEMMA LastOf ==
  ASSUME NEW n \in Nat, NEW P \in SUBSET (1..n), P # {}
  PROVE  \E m \in P : \A x \in P : x <= m
<1> DEFINE Less == OpToRel(<, Nat)
           T == {n - x : x \in P}
<1>1. \A x \in P : x \in 1..n /\ n - x \in Nat
  OBVIOUS
<1>2. T \subseteq Nat /\ T # {}
  <2>1. \A x \in T : x \in Nat
    BY <1>1
  <2>2. PICK x \in P : TRUE
    OBVIOUS
  <2>3. n - x \in T
    BY <2>2
  <2> QED
    BY <2>1, <2>3
<1>3. \A x, y \in Nat : x < y => <<x, y>> \in Less
  BY DEF OpToRel
<1>4. IsWellFoundedOn(Less, Nat)
  BY NatLessThanWellFounded
<1> HIDE DEF Less
<1>5. PICK t \in T : \A y \in T : ~ (<<y, t>> \in Less)
  <2> HIDE DEF T
  <2> QED
    BY <1>2, <1>4, WFMin
<1>6. PICK m \in P : t = n - m
  OBVIOUS
<1>7. ASSUME NEW x \in P PROVE x <= m
  <2>1. n - x \in Nat /\ n - m \in Nat /\ n - x \in T
    BY <1>1
  <2>2. ~ (n - x < n - m)
    BY <1>3, <1>5, <1>6, <2>1
  <2> QED
    BY <1>1, <2>2
<1> QED
  BY <1>7

\* Of the pairs with a key, the kernel keeps the last; without one, what it had.
LEMMA WriteEffect ==
  ASSUME NEW pairs \in Seq(Pair), NEW old, NEW k \in Keys
  PROVE  /\ Sets(pairs, k) = {} => AfterWrite(old, pairs)[k] = old[k]
         /\ Sets(pairs, k) # {} =>
               \E j \in Sets(pairs, k) :
                  /\ \A m \in Sets(pairs, k) : m <= j
                  /\ AfterWrite(old, pairs)[k] = Stored(k, pairs[j].value)
<1>1. Sets(pairs, k) \in SUBSET (1..Len(pairs)) /\ Len(pairs) \in Nat
  BY DEF Sets
<1>2. CASE Sets(pairs, k) = {}
  BY <1>2 DEF AfterWrite
<1>3. CASE Sets(pairs, k) # {}
  <2> DEFINE Last(j) == \A m \in Sets(pairs, k) : m <= j
             l == CHOOSE j \in Sets(pairs, k) : Last(j)
  <2>1. \E j \in Sets(pairs, k) : Last(j)
    BY <1>1, <1>3, LastOf
  <2>2. l \in Sets(pairs, k) /\ Last(l)
    BY <2>1
  <2>3. AfterWrite(old, pairs)[k] = Stored(k, pairs[l].value)
    BY <1>3 DEF AfterWrite
  <2> QED
    BY <1>3, <2>2, <2>3
<1> QED
  BY <1>2, <1>3

\* A number is stored as a number of the width.
LEMMA StoredType ==
  ASSUME NEW k \in Keys, NEW n \in Nat
  PROVE  Stored(k, n) \in 0..MaxU64 /\ Unlimited(k) \in 0..MaxU64
BY WidthAssumption DEF Stored, Unlimited

\* The limits stay numbers of the width.
LEMMA WriteType ==
  ASSUME TypeOK, ValueWritten
  PROVE  ioMax' \in [Disks -> [Keys -> 0..MaxU64]]
<1>1. i \in 1..Len(line.io)
  BY LineType DEF ValueWritten, TypeOK
<1>2. Pairs \in Seq(Pair) /\ \A m \in DOMAIN Pairs : Pairs[m].value \in 0..MaxU64
  BY <1>1, ParsedValue DEF ValueWritten, Pairs
<1>3. ioMax \in [Disks -> [Keys -> 0..MaxU64]] /\ Device \in Disks
  BY DEF TypeOK, ValueWritten, KernelTakes
<1>4. ASSUME NEW k \in Keys
      PROVE  AfterWrite(ioMax[Device], Pairs)[k] \in 0..MaxU64
  <2>1. CASE Sets(Pairs, k) = {}
    BY <1>2, <1>3, <2>1, WriteEffect
  <2>2. CASE Sets(Pairs, k) # {}
    <3>1. PICK j \in Sets(Pairs, k) :
            AfterWrite(ioMax[Device], Pairs)[k] = Stored(k, Pairs[j].value)
      BY <1>2, <2>2, WriteEffect
    <3>2. Pairs[j].value \in Nat
      BY <1>2, WidthAssumption DEF Sets
    <3> QED
      BY <3>1, <3>2, StoredType
  <2> QED
    BY <2>1, <2>2
<1>5. AfterWrite(ioMax[Device], Pairs) \in [Keys -> 0..MaxU64]
  BY <1>4 DEF AfterWrite
<1> QED
  BY <1>3, <1>5 DEF ValueWritten

----------------------------------------------------------------------------
(***************************************************************************)
(* Every step keeps the invariant.                                         *)
(***************************************************************************)
\* What the append of one more device to `seen` or `used` amounts to.
LEMMA OneMore ==
  ASSUME NEW s \in Seq(Block), NEW d \in Block, NEW t, t = Append(s, d)
  PROVE  /\ t \in Seq(Block) /\ Len(t) = Len(s) + 1 /\ Len(s) \in Nat
         /\ DOMAIN t = 1..(Len(s) + 1) /\ DOMAIN s = 1..Len(s)
         /\ t[Len(s) + 1] = d
         /\ \A j \in 1..Len(s) : t[j] = s[j]
  OBVIOUS

LEMMA TypeStep ==
  ASSUME TypeOK, Progress, [Next]_vars
  PROVE  TypeOK'
<1> USE LineType
<1>1. CASE ValueAccepted
  <2>1. seen' \in Seq(Block) /\ Len(seen') = Len(seen) + 1
    BY <1>1, OneMore DEF ValueAccepted
  <2>2. Len(seen) = i - 1
    BY <1>1 DEF ValueAccepted, Progress
  <2> QED
    BY <1>1, <2>1, <2>2 DEF ValueAccepted, TypeOK
<1>2. CASE AllValidated
  BY <1>2 DEF AllValidated, TypeOK
<1>3. CASE ValueWritten
  <2>1. used' \in Seq(Block) /\ Len(used') = Len(used) + 1
    BY <1>3, OneMore DEF ValueWritten
  <2>2. Len(used) = i - 1
    BY <1>3 DEF ValueWritten, Progress
  <2>3. ioMax' \in [Disks -> [Keys -> 0..MaxU64]]
    BY <1>3, WriteType
  <2> QED
    BY <1>3, <2>1, <2>2, <2>3 DEF ValueWritten, TypeOK
<1>4. CASE ValueRefused
  BY <1>4 DEF ValueRefused, TypeOK
<1>5. CASE StepFails
  BY <1>5 DEF StepFails, TypeOK
<1>6. CASE StepPasses
  BY <1>6 DEF StepPasses, TypeOK
<1>7. CASE \E p \in Paths, n \in Nodes : UdevChange(p, n)
  BY <1>7 DEF UdevChange, TypeOK
<1>8. CASE UNCHANGED vars
  BY <1>8 DEF TypeOK
<1> QED
  BY <1>1, <1>2, <1>3, <1>4, <1>5, <1>6, <1>7, <1>8, StepCases

LEMMA ProgressStep ==
  ASSUME TypeOK, Progress, [Next]_vars
  PROVE  Progress'
<1> USE LineType
<1>1. CASE ValueAccepted
  <2>1. Len(seen') = Len(seen) + 1
    BY <1>1, OneMore DEF ValueAccepted
  <2> QED
    BY <1>1, <2>1 DEF ValueAccepted, Progress
<1>2. CASE AllValidated
  <2>1. i = Len(line.io) + 1
    BY <1>2 DEF AllValidated, TypeOK
  <2> QED
    BY <1>2, <2>1 DEF AllValidated, Progress
<1>3. CASE ValueWritten
  <2>1. Len(used') = Len(used) + 1
    BY <1>3, OneMore DEF ValueWritten
  <2> QED
    BY <1>3, <2>1 DEF ValueWritten, Progress
<1>4. CASE ValueRefused
  BY <1>4 DEF ValueRefused, Progress
<1>5. CASE StepFails
  BY <1>5 DEF StepFails, Progress
<1>6. CASE StepPasses
  <2>1. pc = "io.max" => (i > Len(line.io) => i = Len(line.io) + 1)
    BY DEF TypeOK
  <2> QED
    BY <1>6, <2>1 DEF StepPasses, Progress
<1>7. CASE \E p \in Paths, n \in Nodes : UdevChange(p, n)
  BY <1>7 DEF UdevChange, Progress
<1>8. CASE UNCHANGED vars
  BY <1>8 DEF Progress
<1> QED
  BY <1>1, <1>2, <1>3, <1>4, <1>5, <1>6, <1>7, <1>8, StepCases

LEMMA CheckedStep ==
  ASSUME TypeOK, Progress, Checked, [Next]_vars
  PROVE  Checked'
<1> USE LineType
<1>1. CASE ValueAccepted
  <2>1. /\ DOMAIN seen' = 1..(Len(seen) + 1) /\ DOMAIN seen = 1..Len(seen)
        /\ Len(seen) = i - 1
    BY <1>1, OneMore DEF ValueAccepted, Progress
  <2>2. DOMAIN seen' = DOMAIN seen \cup {i}
    BY <2>1
  <2>3. child = "none"
    BY <1>1 DEF ValueAccepted, Checked
  <2> QED
    BY <1>1, <2>2, <2>3 DEF ValueAccepted, Checked
<1>2. CASE AllValidated
  BY <1>2 DEF AllValidated, Checked
<1>3. CASE ValueWritten
  BY <1>3 DEF ValueWritten, Checked
<1>4. CASE ValueRefused
  BY <1>4 DEF ValueRefused, Checked, Progress
<1>5. CASE StepFails
  BY <1>5 DEF StepFails, Checked
<1>6. CASE StepPasses
  BY <1>6 DEF StepPasses, Checked, Progress
<1>7. CASE \E p \in Paths, n \in Nodes : UdevChange(p, n)
  BY <1>7 DEF UdevChange, Checked
<1>8. CASE UNCHANGED vars
  BY <1>8 DEF Checked
<1> QED
  BY <1>1, <1>2, <1>3, <1>4, <1>5, <1>6, <1>7, <1>8, StepCases

LEMMA KnownStep ==
  ASSUME TypeOK, Progress, Checked, Known, [Next]_vars
  PROVE  Known'
<1> USE LineType
<1>1. CASE ValueAccepted
  <2>1. /\ DOMAIN seen' = 1..i /\ DOMAIN seen = 1..(i - 1)
        /\ seen'[i] = udev[line.io[i].path]
        /\ \A j \in 1..(i - 1) : seen'[j] = seen[j]
        /\ Len(seen') = i /\ Len(seen) = i - 1
    BY <1>1, OneMore DEF ValueAccepted, Progress
  <2>2. used = <<>>
    BY <1>1 DEF ValueAccepted, Progress
  <2> QED
    BY <1>1, <2>1, <2>2 DEF ValueAccepted, Known
<1>2. CASE AllValidated
  BY <1>2 DEF AllValidated, Known
<1>3. CASE ValueWritten
  <2>1. /\ DOMAIN used' = 1..i /\ DOMAIN used = 1..(i - 1)
        /\ used'[i] = udev[line.io[i].path]
        /\ \A j \in 1..(i - 1) : used'[j] = used[j]
        /\ Len(used') = i
    BY <1>3, OneMore DEF ValueWritten, Progress, Device
  <2>2. Len(seen) = Len(line.io) /\ i \in DOMAIN seen
    BY <1>3 DEF ValueWritten, Progress, TypeOK
  <2>3. used'[i] = seen[i] \/ line.io[i].path \in changed
    BY <2>1, <2>2 DEF Known
  <2>4. \A j \in DOMAIN used' : used'[j] = seen[j] \/ line.io[j].path \in changed
    BY <2>1, <2>3 DEF Known
  <2> QED
    BY <1>3, <2>1, <2>2, <2>4 DEF ValueWritten, Known
<1>4. CASE ValueRefused
  BY <1>4 DEF ValueRefused, Known
<1>5. CASE StepFails
  BY <1>5 DEF StepFails, Known
<1>6. CASE StepPasses
  BY <1>6 DEF StepPasses, Known
<1>7. ASSUME NEW p \in Paths, NEW n \in Nodes, UdevChange(p, n) PROVE Known'
  <2>1. \A j \in DOMAIN seen : line.io[j].path \in Paths
    BY ParsedValue DEF Checked, TypeOK
  <2>2. changed \subseteq changed'
    BY <1>7 DEF UdevChange
  <2>3. ASSUME NEW j \in DOMAIN seen
        PROVE  seen[j] = udev'[line.io[j].path] \/ line.io[j].path \in changed'
    <3>1. CASE line.io[j].path = p
      BY <1>7, <3>1 DEF UdevChange
    <3>2. CASE line.io[j].path # p
      <4>1. udev'[line.io[j].path] = udev[line.io[j].path]
        BY <1>7, <2>1, <3>2 DEF UdevChange, TypeOK
      <4> QED
        BY <2>2, <4>1 DEF Known
    <3> QED
      BY <3>1, <3>2
  <2> QED
    BY <1>7, <2>2, <2>3 DEF UdevChange, Known
<1>8. CASE UNCHANGED vars
  BY <1>8 DEF Known
<1> QED
  BY <1>1, <1>2, <1>3, <1>4, <1>5, <1>6, <1>7, <1>8, StepCases

\* A value that validate has taken and create refuses has a zero, names a part of a
\* disk, or has a path that has changed.
LEMMA RefusedValue ==
  ASSUME TypeOK, Progress, Checked, Known, ValueRefused
  PROVE  \/ line.io[i].path \in changed
         \/ seen[i] = "partition"
         \/ \E m \in DOMAIN line.io[i].pairs : line.io[i].pairs[m].value = 0
<1> USE LineType
<1>1. i \in 1..Len(line.io) /\ i \in DOMAIN seen
  BY DEF ValueRefused, Progress, TypeOK
<1>2. Parses(line.io[i])
  BY <1>1 DEF Checked
<1>3. seen[i] \in Block
  BY <1>1
<1>4. SUFFICES ASSUME line.io[i].path \notin changed, seen[i] # "partition"
               PROVE  \E m \in DOMAIN line.io[i].pairs : line.io[i].pairs[m].value = 0
  OBVIOUS
<1>5. Device = seen[i]
  BY <1>1, <1>4 DEF Known, Device
<1>6. Device \in Disks
  BY <1>3, <1>4, <1>5 DEF Block
<1>7. ~ KernelTakes(Device, Pairs)
  BY <1>2, <1>3, <1>5 DEF ValueRefused
<1>8. \A m \in DOMAIN line.io[i].pairs : line.io[i].pairs[m].key \in Keys
  BY <1>1, <1>2, ParsedValue
<1> QED
  BY <1>6, <1>7, <1>8 DEF KernelTakes, Pairs

LEMMA ReasonsStep ==
  ASSUME TypeOK, Progress, Checked, Known, LateFailureIsTheHosts, [Next]_vars
  PROVE  LateFailureIsTheHosts'
<1>1. CASE ValueAccepted
  BY <1>1 DEF ValueAccepted, NeverTaken, LateFailureIsTheHosts
<1>2. CASE AllValidated
  BY <1>2 DEF AllValidated, NeverTaken, LateFailureIsTheHosts
<1>3. CASE ValueWritten
  BY <1>3 DEF ValueWritten, NeverTaken, LateFailureIsTheHosts
<1>4. CASE ValueRefused
  <2>1. i \in DOMAIN line.io
    BY <1>4, LineType DEF ValueRefused, TypeOK
  <2>2. NeverTaken \/ line.io[i].path \in changed \/ seen[i] = "partition"
    BY <1>4, <2>1, RefusedValue DEF NeverTaken
  <2> QED
    BY <1>4, <2>1, <2>2 DEF ValueRefused, NeverTaken, LateFailureIsTheHosts
<1>5. CASE StepFails
  <2>1. CASE pc = "cpuset"
    BY <1>5, <2>1 DEF StepFails, NeverTaken, LateFailureIsTheHosts
  <2>2. CASE pc # "cpuset"
    BY <1>5, <2>2 DEF StepFails, Checked, LateFailureIsTheHosts
  <2> QED
    BY <2>1, <2>2
<1>6. CASE StepPasses
  BY <1>6 DEF StepPasses, NeverTaken, LateFailureIsTheHosts
<1>7. CASE \E p \in Paths, n \in Nodes : UdevChange(p, n)
  BY <1>7 DEF UdevChange, NeverTaken, LateFailureIsTheHosts
<1>8. CASE UNCHANGED vars
  BY <1>8 DEF NeverTaken, LateFailureIsTheHosts
<1> QED
  BY <1>1, <1>2, <1>3, <1>4, <1>5, <1>6, <1>7, <1>8, StepCases

----------------------------------------------------------------------------
(***************************************************************************)
(* The limits in force.                                                    *)
(***************************************************************************)
\* InForce for one disk and one key.
Current(d, k) ==
    /\ GivenTo(d, k) = {} => ioMax[d][k] = Unlimited(k)
    /\ \A g \in GivenTo(d, k) : IsLast(g, GivenTo(d, k)) =>
          ioMax[d][k] = Stored(k, line.io[g[1]].pairs[g[2]].value)

\* What `used` is after a write.
LEMMA UsedStep ==
  ASSUME TypeOK, Progress, ValueWritten
  PROVE  /\ i \in Nat \ {0} /\ i \in 1..Len(line.io)
         /\ DOMAIN used' = 1..i /\ DOMAIN used = 1..(i - 1)
         /\ used'[i] = Device
         /\ \A j \in 1..(i - 1) : used'[j] = used[j]
<1> USE LineType
<1>1. Len(used) = i - 1 /\ i \in 1..Len(line.io)
  BY DEF ValueWritten, Progress, TypeOK
<1>2. Device \in Block /\ used' = Append(used, Device)
  BY DEF ValueWritten
<1> QED
  BY <1>1, <1>2, OneMore

\* A write of no pair with the key, or for another disk, gives nothing to this one.
LEMMA NothingGiven ==
  ASSUME TypeOK, Progress, ValueWritten, NEW d, NEW k,
         Device # d \/ Sets(Pairs, k) = {}
  PROVE  GivenTo(d, k)' = GivenTo(d, k)
<1>1. line' = line
  BY DEF ValueWritten
<1>2. ASSUME NEW g \in Nat \X Nat
      PROVE  (/\ g[1] \in DOMAIN used /\ used[g[1]] = d
              /\ g[2] \in Sets(line.io[g[1]].pairs, k))
             <=> (/\ g[1] \in DOMAIN used' /\ used'[g[1]] = d
                  /\ g[2] \in Sets(line.io[g[1]].pairs, k))
  <2>1. CASE g[1] = i
    BY <2>1, UsedStep DEF Pairs
  <2>2. CASE g[1] # i
    BY <2>2, UsedStep
  <2> QED
    BY <2>1, <2>2
<1> QED
  BY <1>1, <1>2 DEF GivenTo

LEMMA InForceStep ==
  ASSUME TypeOK, Progress, InForce, [Next]_vars
  PROVE  InForce'
<1>1. CASE ValueWritten
  <2>1. SUFFICES ASSUME NEW d \in Disks, NEW k \in Keys PROVE Current(d, k)'
    BY DEF InForce, Current
  <2>2. Current(d, k)
    BY DEF InForce, Current
  <2>3. line' = line
    BY <1>1 DEF ValueWritten
  <2>4. i \in 1..Len(line.io) /\ Pairs \in Seq(Pair)
    BY <1>1, UsedStep, ParsedValue DEF ValueWritten, Pairs
  <2>5. /\ Device \in Disks /\ ioMax \in [Disks -> [Keys -> 0..MaxU64]]
        /\ ioMax' = [ioMax EXCEPT ![Device] = AfterWrite(ioMax[Device], Pairs)]
    BY <1>1 DEF ValueWritten, KernelTakes, TypeOK
  <2>6. CASE Device # d
    <3>1. ioMax'[d] = ioMax[d]
      BY <2>5, <2>6
    <3>2. GivenTo(d, k)' = GivenTo(d, k)
      BY <1>1, <2>6, NothingGiven
    <3> QED
      BY <2>2, <2>3, <3>1, <3>2 DEF Current, IsLast
  <2>7. CASE Device = d /\ Sets(Pairs, k) = {}
    <3>1. ioMax'[d][k] = ioMax[d][k]
      BY <2>4, <2>5, <2>7, WriteEffect
    <3>2. GivenTo(d, k)' = GivenTo(d, k)
      BY <1>1, <2>7, NothingGiven
    <3> QED
      BY <2>2, <2>3, <3>1, <3>2 DEF Current, IsLast
  <2>8. CASE Device = d /\ Sets(Pairs, k) # {}
    <3>1. ioMax'[d] = AfterWrite(ioMax[d], Pairs)
      BY <2>5, <2>8
    <3>2. PICK j \in Sets(Pairs, k) :
            /\ \A m \in Sets(Pairs, k) : m <= j
            /\ ioMax'[d][k] = Stored(k, Pairs[j].value)
      BY <2>4, <2>8, <3>1, WriteEffect
    <3>3. Sets(Pairs, k) \subseteq Nat
      BY <2>4 DEF Sets
    <3>4. <<i, j>> \in GivenTo(d, k)'
      <4>1. i \in DOMAIN used' /\ used'[i] = d /\ i \in Nat
        BY <1>1, <2>8, UsedStep
      <4>2. j \in Sets(line'.io[i].pairs, k) /\ j \in Nat
        BY <2>3, <3>3 DEF Pairs
      <4> QED
        BY <4>1, <4>2 DEF GivenTo
    <3>5. ASSUME NEW g \in GivenTo(d, k)', IsLast(g, GivenTo(d, k)')
          PROVE  g[1] = i /\ g[2] = j
      <4>1. g[1] \in 1..i
        BY <1>1, UsedStep DEF GivenTo
      <4>2. i < g[1] \/ (i = g[1] /\ j <= g[2])
        BY <3>4, <3>5 DEF IsLast
      <4>3. i \in Nat
        BY <1>1, UsedStep
      <4>4. g[1] = i /\ j <= g[2]
        BY <4>1, <4>2, <4>3
      <4>5. g[2] \in Sets(Pairs, k)
        BY <2>3, <4>4 DEF GivenTo, Pairs
      <4>6. g[2] <= j /\ g[2] \in Nat /\ j \in Nat
        BY <3>2, <3>3, <4>5
      <4> QED
        BY <4>4, <4>6
    <3> QED
      BY <2>3, <3>2, <3>4, <3>5 DEF Current, Pairs
  <2> QED
    BY <2>6, <2>7, <2>8
<1>2. CASE UNCHANGED <<line, used, ioMax>>
  BY <1>2 DEF InForce, GivenTo, IsLast
<1> QED
  BY <1>1, <1>2, StepCases
     DEF ValueAccepted, AllValidated, ValueRefused, StepFails, StepPasses, UdevChange

----------------------------------------------------------------------------
(***************************************************************************)
(* The theorems.                                                           *)
(***************************************************************************)
LEMMA InitInvariant == Init => LineInv
<1> SUFFICES ASSUME Init PROVE LineInv
  OBVIOUS
<1>1. line \in Line /\ line.io \in Seq(IoMax) /\ Len(line.io) \in Nat
  BY LinesAssumption DEF Init, Line
<1>2. ioMax \in [Disks -> [Keys -> 0..MaxU64]]
  <2>1. \A k \in Keys : Unlimited(k) \in 0..MaxU64
    BY StoredType
  <2> QED
    BY <2>1 DEF Init
<1>3. TypeOK
  <2>1. \A s \in {seen, used} : s = <<>>
    BY DEF Init
  <2>2. <<>> \in Seq(Block) /\ Len(<<>>) = 0
    OBVIOUS
  <2> QED
    BY <1>1, <1>2, <2>1, <2>2 DEF Init, TypeOK
<1>4. Progress
  BY DEF Init, Progress
<1>5. Checked
  BY DEF Init, Checked
<1>6. Known
  BY DEF Init, Known
<1>7. InForce
  <2>1. \A d, k : GivenTo(d, k) = {}
    BY DEF Init, GivenTo
  <2>2. \A d \in Disks, k \in Keys : ioMax[d][k] = Unlimited(k)
    BY DEF Init
  <2> QED
    BY <2>1, <2>2 DEF InForce
<1>8. LateFailureIsTheHosts
  BY DEF Init, LateFailureIsTheHosts
<1> QED
  BY <1>3, <1>4, <1>5, <1>6, <1>7, <1>8 DEF LineInv

\* How far each loop has come, what has been ruled out, what is known of each device
\* and which limits are in force holds of every run of `boxed`, for any command line.
THEOREM Invariance == Spec => []LineInv
<1>1. Init => LineInv
  BY InitInvariant
<1>2. LineInv /\ [Next]_vars => LineInv'
  BY TypeStep, ProgressStep, CheckedStep, KnownStep, ReasonsStep, InForceStep DEF LineInv
<1> HIDE DEF vars
<1> QED
  BY <1>1, <1>2, PTL DEF Spec

\* Every variable keeps its type, for any lines, disks and widths.
THEOREM TypeCorrect == Spec => []TypeOK
<1>1. LineInv => TypeOK
  BY DEF LineInv
<1> QED
  BY <1>1, Invariance, PTL

\* cgroups.rs, main.rs: no --io-max that does not parse, no bad profile and no id that
\* is none is found wrong after the clone.
THEOREM TyposAreEarly == Spec => []TyposCostNoClone
<1>1. LineInv => TyposCostNoClone
  BY LineType DEF LineInv, Checked, TyposCostNoClone
<1> QED
  BY <1>1, Invariance, PTL

\* A run that fails after the clone, for no limit that its text tells to be wrong, has
\* CPUs that the host has not, or fails at a value that names a part of a disk or a
\* path that has changed since validate looked.
THEOREM LateFailures == Spec => []LateFailureIsTheHosts
<1>1. LineInv => LateFailureIsTheHosts
  BY DEF LineInv
<1> QED
  BY <1>1, Invariance, PTL

\* The two look-ups of a device agree unless its path has changed in between.
THEOREM SameDevice == Spec => []ValidatedIsLimited
<1>1. LineInv => ValidatedIsLimited
  BY DEF LineInv, Known, ValidatedIsLimited
<1> QED
  BY <1>1, Invariance, PTL

\* A command runs under the last limit its line gives for each disk and key, and
\* under none that it does not give.
THEOREM LimitsAreAsked == Spec => []LimitsAsAsked
<1>1. ASSUME LineInv, child = "running",
             NEW d \in Disks, NEW k \in Keys
      PROVE  LET Given == UNION {{<<j, m>> : m \in Sets(line.io[j].pairs, k)} :
                                    j \in {j \in DOMAIN line.io : used[j] = d}}
             IN  Given = GivenTo(d, k)
  <2>1. DOMAIN used = DOMAIN line.io /\ DOMAIN line.io \subseteq Nat
    BY <1>1, LineType DEF LineInv, Checked, Progress
  <2>2. \A j \in DOMAIN line.io : Sets(line.io[j].pairs, k) \subseteq Nat
    <3>1. ASSUME NEW j \in DOMAIN line.io PROVE line.io[j].pairs \in Seq(Pair)
      <4>1. line.io[j] \in IoMax
        BY <1>1, LineType DEF LineInv
      <4> QED
        BY <4>1 DEF IoMax
    <3> QED
      BY <3>1 DEF Sets
  <2> QED
    BY <2>1, <2>2 DEF GivenTo
<1>2. LineInv => LimitsAsAsked
  BY <1>1 DEF LineInv, InForce, IsLast, LimitsAsAsked
<1> QED
  BY <1>2, Invariance, PTL

============================================================================
