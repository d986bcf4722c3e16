-------------------------------- MODULE RegKey --------------------------------
(***************************************************************************)
(* The registration file ttreg.dat: the bytes regtriv writes for a name,   *)
(* and the name RegInfo::load reads from them.  A byte is a number below   *)
(* 256, a name a sequence of ASCII codes of at least three letters, and a  *)
(* position counts from 0 as in the code.                                  *)
(***************************************************************************)
EXTENDS Integers, Sequences, SequencesExt, FiniteSetsExt

Byte == 0 .. 255

\* What is added to the byte at an odd position: the complement of the position,
\* and a remainder.
OddShift(lPos) == ((lPos * 3 + 7) % ((lPos % 17) + 2)) - ((lPos + 23) % 256) - 1

encode(nVal, lPos) ==
    IF lPos % 2 = 0 THEN (0 - (nVal + (lPos % 8) * 3) - 1) % 256
                    ELSE (nVal + OddShift(lPos)) % 256

\* Mutant of decode: the even positions are not shifted.
decodeUnshifted(nVal, lPos) ==
    IF lPos % 2 = 0 THEN (0 - nVal - 1) % 256 ELSE (nVal - OddShift(lPos)) % 256

decode(nVal, lPos) ==
    IF lPos % 2 = 0 THEN (0 - nVal - 1 - (lPos % 8) * 3) % 256
                    ELSE (nVal - OddShift(lPos)) % 256

-----------------------------------------------------------------------------
(* Writing: the checks of the name, then the name backwards with fillers   *)

Space == 32

\* What regtriv reads of a name (78 characters and a line end), and what it puts after a
\* letter: one to five bytes.
IsName(name) == name \in Seq(1 .. 127) /\ Len(name) \in 3 .. 79
IsFiller(fill) == fill \in Seq(0 .. 249) /\ Len(fill) \in 1 .. 5

\* A sum of parts of bytes, in an unsigned char.
ByteSum(start, bytes, d) == FoldLeft(LAMBDA sum, b : (sum + b \div d) % 256, start, bytes)

\* nSpaceCount, nHighestVal and nTot of a name.
Spaces(name) == Cardinality({k \in DOMAIN name : name[k] = Space})
Highest(name) == Max({0} \cup {name[k] : k \in DOMAIN name})
Total(name) == ByteSum(0, name, 2)

Header(name) ==
    << encode(Len(name), 0), encode(Spaces(name), 1), encode(name[3], 2),
       encode(Last(name), 3), encode(Highest(name), 4), encode(Len(name), 5),
       encode(Total(name), 6) >>

SumOf(fill) == ByteSum(7, fill, 6)

\* A letter at a position, a byte that says how many fillers come, the fillers, and
\* their sum.
Coded(c, fill, lPos) == <<encode(c, lPos), 255 - (50 * Len(fill))>> \o fill \o <<SumOf(fill)>>

\* regtriv's main, with its random bytes in filler: filler[k] after the k-th letter.
RegFile(name, filler) ==
    FoldLeftDomain(LAMBDA file, k : file \o Coded(Reverse(name)[k], filler[k], Len(file)),
                   Header(name), name)

-----------------------------------------------------------------------------
(* Reading                                                                 *)

Bad == -1

\* The letters from position 7 on, 79 at most, and Bad for one whose sum is wrong or
\* where the file ends in the middle of a letter.
Letters(file) ==
    LET from[n \in 0 .. 79] ==
            [lPos \in 7 .. Len(file) |->
                LET skip == (255 - file[lPos + 2]) \div 50
                    end == lPos + skip + 3
                IN  IF n = 0 \/ lPos = Len(file) THEN <<>>
                    ELSE IF lPos + 1 = Len(file) \/ end > Len(file)
                         \/ file[end] # SumOf(SubSeq(file, lPos + 3, end - 1)) THEN <<Bad>>
                    ELSE <<decode(file[lPos + 1], lPos)>> \o from[n - 1][end]]
    IN  from[79][7]

\* A string ends before the first zero.
CString(text) == SubSeq(text, 1, Min({k \in DOMAIN text : text[k] = 0} \cup {Len(text) + 1}) - 1)

\* The name, or nothing if any of the checks fails, most of which the header makes.
getRegName(file) ==
    LET Field(k) == decode(file[k + 1], k)
        read == Letters(file)
        szName == Reverse(CString(read))
    IN  IF /\ \A k \in DOMAIN read : read[k] # Bad
           /\ Field(0) = Field(5)
           /\ Len(szName) = Field(0)
           /\ Len(szName) > 2
           /\ Highest(szName) = Field(4)
           /\ Spaces(szName) = Field(1)
           /\ szName[3] = Field(2)
           /\ Last(szName) = Field(3)
           /\ Total(szName) = Field(6)
        THEN szName ELSE <<>>

\* RegInfo::load, which regtriv repeats for what it has written.  A file of five to
\* seven bytes, which the code does read, has no letters and gives no name.
load(file) == IF Len(file) < 8 \/ Len(file) > 2000 THEN <<>> ELSE getRegName(file)
=============================================================================
