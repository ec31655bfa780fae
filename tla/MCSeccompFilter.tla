-------------------------- MODULE MCSeccompFilter --------------------------
(***************************************************************************)
(* The instance of SeccompFilter: three system calls, two of them in       *)
(* syscall_number's table, and a width of 16 instead of 65536.  A program  *)
(* has 5 + 2n instructions for n names: up to four fit, from six on the    *)
(* length is cut, to 1, 3, 5 and 7 instructions for six to nine names.     *)
(***************************************************************************)
EXTENDS SeccompFilter, SequencesExt

MCNames  == {"read", "mount", "clone"}
MCKnown  == {"read", "mount"}
MCNumber == "read" :> 0 @@ "mount" :> 165 @@ "clone" :> 56
MCDangerous == <<165, 169>>

MCRule(names, a) == [names |-> names, action |-> a, args |-> FALSE]
MCProfile(rs, a) == [forX86 |-> TRUE, rules |-> rs, default |-> a]

\* One or two names a rule, up to two rules: the same call named twice, by one
\* rule or by two, and calls that nobody names.
MCSmallRules ==
    {MCRule(s, a) : s \in UNION {[1..n -> MCKnown] : n \in 1..2}, a \in {"ALLOW", "KILL", "ERRNO"}}
MCSmall == {MCProfile(rs, a) : rs \in SeqOf(MCSmallRules, 2), a \in {"ALLOW", "KILL"}}

\* More names than the width has room for.
MCRepeat(n) == [i \in 1..n |-> IF i = n THEN "mount" ELSE "read"]
MCLarge == {MCProfile(<<MCRule(MCRepeat(n), "KILL")>>, "ALLOW") : n \in 4..9}

\* What resolve refuses: another architecture, an action or a name it does not
\* know, no name, conditions on arguments.
MCRefused == {
    [MCProfile(<<>>, "ALLOW") EXCEPT !.forX86 = FALSE],
    MCProfile(<<>>, "LOG"),
    MCProfile(<<MCRule(<<"read">>, "LOG")>>, "ALLOW"),
    MCProfile(<<MCRule(<<"read", "clone">>, "ALLOW")>>, "ERRNO"),
    MCProfile(<<MCRule(<<>>, "KILL")>>, "ALLOW"),
    MCProfile(<<[MCRule(<<"mount">>, "ALLOW") EXCEPT !.args = TRUE]>>, "KILL")}

MCProfiles == MCSmall \cup MCLarge \cup MCRefused
MCCalls == [arch : {62, 3}, nr : {0, 165, 56}]

============================================================================
