--------------------------------- MODULE Text ---------------------------------
(***************************************************************************)
(* Comparing texts.  A character is a member of a small set, and case is   *)
(* what Lower takes away.                                                  *)
(***************************************************************************)
EXTENDS Integers, Sequences, FiniteSets, FiniteSetsExt, SequencesExt

CONSTANTS
    Char,         \* the characters
    Alnum,        \* those isalnum holds for
    Lower(_)      \* tolower

Blank == " "

ASSUME TextAssumption ==
    /\ Alnum \subseteq Char /\ Blank \in Char \ Alnum
    /\ \A c \in Char : Lower(c) \in Char /\ (c \in Alnum <=> Lower(c) \in Alnum)
    /\ Lower(Blank) = Blank

\* strlwr
Folded(s) == [p \in DOMAIN s |-> Lower(s[p])]

\* strcmpi finds no difference.
SameText(s, t) == Folded(s) = Folded(t)

\* How many characters two texts have in common from the beginning, whatever their case.
InCommon(s, t) ==
    Max({k \in 0 .. Min({Len(s), Len(t)}) : SubSeq(Folded(s), 1, k) = SubSeq(Folded(t), 1, k)})

\* The places in s where a word begins with t: those strstr finds of " t" in " s".
WordsWith(s, t) ==
    {p \in 1 .. Len(s) - Len(t) + 1 :
        /\ p = 1 \/ s[p - 1] = Blank
        /\ SubSeq(Folded(s), p, p + Len(t) - 1) = Folded(t)}

\* wordSearch
wordSearch(s, t) == WordsWith(s, t) # {}
=============================================================================
