------------------------------- MODULE MCDisplay -------------------------------
(* The instance of Display for TLC: small alphabets, and every small input.   *)
EXTENDS Display, TLC

\* Players that are no sysops are alike.
MCSymmetry == Permutations(Player \ Sysops)

MCLower(c) == IF c = "A" THEN "a" ELSE IF c = "B" THEN "b" ELSE c

\* Answers of one word and of several, with a dot, with a blank at the end, and long
\* enough for a clue of more than one letter.
Long == <<"a", "b", "a", "b", "a", "b", "a", "b", "a", "b">>
MCAnswerLines ==
    {<<"a">>, <<"A", "b", " ", "b", ".", "a", " ">>, Long, Long \o <<" ", "a", "b", "B">>}
MCTries == {<<>>, <<"a">>, <<"a", "B">>, <<"b">>, <<"a", "b", " ", "b", ".", "A", "a">>, Long}

MCNode == 0 .. 2
MCAliases == {<<"a">>, <<"A", "b">>, <<"a", " ", "b">>, <<"a", " ", "a">>, <<"b", " ", "a", "b">>}
MCParams ==
    UNION {[1 .. k -> {"a", "b", " "}] : k \in 1 .. 4}
        \cup {p \in [1 .. 5 -> {"a", "b", " "}] : p[1] = "a" /\ p[4] # "b"}

Line(kind, text) == [kind |-> kind, text |-> text, long |-> FALSE]
MCLines == {Line(";", <<"a">>), Line(";", <<"b", " ", "A">>), Line("-", <<>>), Line("-", <<"a">>), Line("-", <<"b">>),
            Line("]", <<"a">>), Line("text", <<>>), Line("text", <<"b">>), Line("$", <<>>)}
MCHelpFiles ==
    UNION {[1 .. k -> MCLines] : k \in 0 .. 4}
        \cup {<<Line(";", <<"a">>), [kind |-> "text", text |-> <<"a">>, long |-> TRUE],
                Line(";", <<"b">>)>>}
MCTopics == {<<"a">>, <<"A">>, <<"b">>}
MCParagraphs == UNION {[1 .. k -> {"a", " "}] : k \in 0 .. 9}
MCNumbers == {<<n, <<"1">>>> : n \in {<<"0">>, <<"1", "3">>}}
                 \cup {<<<<"1">>, <<"7">>, <<"0">>, m, m, m, <<"7">>>> : m \in {<<"-", "1">>}}
=============================================================================
