--------------------------- MODULE MCCommandLine ---------------------------
(***************************************************************************)
(* The instance of CommandLine: up to two --io-max values for two paths    *)
(* and two disks, with a key given once, twice, with the kernel's zero and *)
(* above 32 bits; each way of being malformed, in either place; and the    *)
(* other flags, good and bad.                                              *)
(***************************************************************************)
EXTENDS CommandLine, TLC

CONSTANTS p1, p2

P(k, n)   == [key |-> k, value |-> n]
V(p, prs) == [colon |-> "yes", path |-> p, pairs |-> prs]

Good == {V(p, prs) : p \in Paths,
            prs \in {<<P("rbps", 1)>>, <<P("wbps", 0)>>,
                     <<P("rbps", 2), P("riops", 3), P("rbps", 3)>>}}
Bad == {[colon |-> "no", path |-> p1, pairs |-> <<>>], V("", <<P("rbps", 1)>>),
        V(p1, <<>>), V(p1, <<P("bps", 1)>>), V(p1, <<P("", 1)>>),
        V(p1, <<P("rbps", 1), P("rbps", -1)>>), V(p1, <<P("wiops", 4)>>)}

UpTo2(S) == {<<>>} \cup {<<v>> : v \in S} \cup {<<v, w>> : v, w \in S}
L(io, cpuset, profile, id) ==
    [io |-> io, cpuset |-> cpuset, profile |-> profile, id |-> id]

MCLines ==
    {L(io, "none", "none", -1) : io \in UpTo2(Good)}
    \cup {L(<<v>>, "none", "none", -1) : v \in Bad}
    \cup {L(<<V(p2, <<P("rbps", 1)>>), v>>, "none", "none", -1) : v \in Bad}
    \cup {L(<<V(p2, <<P("rbps", 1)>>)>>, cp, pr, id) :
              cp \in {"good", "malformed", "refused"}, pr \in {"good", "bad"}, id \in 0..MaxU32}

MCPaths == {p1, p2}
Symmetry == Permutations(Disks)

============================================================================
