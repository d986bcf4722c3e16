--------------------------- MODULE MCConfiguration ---------------------------
(* The instance of Configuration for TLC.                                  *)
EXTENDS Configuration, TLC

\* The core file has more questions than an unregistered copy may ask, so has the
\* custom file, one is missing; two have lines that make no question.
QuestionsIn == ("" :> 0) @@ ("database.enc" :> 8) @@ ("custom.txt" :> 10) @@ ("gone" :> 0)
PairsIn == ("" :> 0) @@ ("database.enc" :> 9) @@ ("custom.txt" :> 11) @@ ("gone" :> 0)

\* "Ze A": letters of both cases, out of order, and a blank.
OneName == {<<90, 101, 32, 65>>}

\* One to five fillers after a letter, by its place.
SomeFiller ==
    [n \in 1 .. 79 |-> [k \in 1 .. (1 + (n % 5)) |-> ((n * 7) + (k * 31)) % 250]]

\* The first of the lengths is one off.
SomeDamages == {<<1, 1>>}
=============================================================================
