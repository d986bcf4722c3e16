--------------------------------- MODULE Clue ---------------------------------
(***************************************************************************)
(* What the players see of an answer: the clue, of which nextClue reveals  *)
(* letters and every wrong answer reveals what it has in common with the   *)
(* right one.  When clues are due is in TriviaRound.                       *)
(*                                                                         *)
(* A character is a member of a small set.  The decoding of database.enc   *)
(* is left out: an answer is what getStrings makes of its line.            *)
(***************************************************************************)
EXTENDS Text

CONSTANTS
    AnswerLines,  \* the answers in the question files
    Tries,        \* what players type
    nMaxClues     \* the setting

CLUE_CHAR == "."

ASSUME ClueAssumption ==
    /\ CLUE_CHAR \in Char \ Alnum
    /\ AnswerLines \subseteq Seq(Char) /\ Tries \subseteq Seq(Char)
    /\ \A a \in AnswerLines : \E p \in DOMAIN a : a[p] # Blank
    /\ nMaxClues \in 0 .. 4

VARIABLES szAnswer, szClue, nClueNumber

clueVars == <<szAnswer, szClue, nClueNumber>>

ClueTypeOK ==
    /\ szAnswer \in Seq(Char)
    /\ szClue \in Seq(Char)
    /\ nClueNumber \in 0 .. nMaxClues + 1

\* getStrings: trailing blanks are cut off.
getStrings(line) == SubSeq(line, 1, Max({p \in DOMAIN line : line[p] # Blank}))

\* The clue of a new question.
Masked(answer) == [p \in DOMAIN answer |-> IF answer[p] \in Alnum THEN CLUE_CHAR ELSE answer[p]]

\* nextQuestion, as far as the answer goes.  A file that cannot be opened any more
\* leaves the strings of the question before.
AskFrom(lines) ==
    /\ szAnswer' \in {getStrings(line) : line \in lines} \cup {szAnswer}
    /\ szClue' = Masked(szAnswer')
    /\ nClueNumber' = 0

ClueInit ==
    /\ szAnswer \in {getStrings(line) : line \in AnswerLines}
    /\ szClue = Masked(szAnswer)
    /\ nClueNumber = 0

-----------------------------------------------------------------------------
(* nextClue                                                                *)

nNotYetRevealed == Cardinality({p \in DOMAIN szClue : szClue[p] = CLUE_CHAR})
nAlreadyRevealed == Cardinality({p \in DOMAIN szClue : szClue[p] \in Alnum})

\* Mutant of nLettersRevealed: a clue is as long as its number says.
nLettersByNumber(number) == number

\* How many letters clue number reveals.
nLettersRevealed(number) ==
    LET few == Min({number, nNotYetRevealed \div 5})
    IN  IF few = 0 /\ nAlreadyRevealed = 0 /\ nNotYetRevealed > 1 THEN 1 ELSE few

\* The beginnings of the words, ten at most; any position if there is one word.
nWordLocation ==
    LET starts == {1} \cup {p + 1 : p \in {q \in 1 .. Len(szAnswer) - 1 : szAnswer[q] \notin Alnum}}
    IN  IF starts = {1} THEN DOMAIN szAnswer
        ELSE {p \in starts : Cardinality({q \in starts : q < p}) < 10}

\* The first position from p on that is not revealed, or the last of all.
NotRevealedFrom(clue, p) ==
    Min({q \in p .. Len(clue) : clue[q] = CLUE_CHAR \/ q = Len(clue)})

\* What may become of the clue when a letter is revealed.
Reveal(clue) ==
    {[clue EXCEPT ![NotRevealedFrom(clue, p)] = szAnswer[NotRevealedFrom(clue, p)]] :
        p \in nWordLocation}

nextClue ==
    /\ nClueNumber <= nMaxClues
    /\ nClueNumber' = nClueNumber + 1
    /\ IF nClueNumber' > nMaxClues \/ nAlreadyRevealed > nNotYetRevealed
       THEN UNCHANGED szClue
       ELSE LET after[k \in 0 .. nLettersRevealed(nClueNumber')] ==
                    IF k = 0 THEN {szClue} ELSE UNION {Reveal(clue) : clue \in after[k - 1]}
            IN  szClue' \in after[nLettersRevealed(nClueNumber')]
    /\ UNCHANGED szAnswer

-----------------------------------------------------------------------------
(* checkForAnswer                                                          *)

\* Mutant of Revealed: the letters are shown as they were typed.
RevealedAsTyped(szTry) ==
    [p \in DOMAIN szClue |-> IF p <= InCommon(szTry, szAnswer) THEN szTry[p] ELSE szClue[p]]

Revealed(szTry) ==
    [p \in DOMAIN szClue |-> IF p <= InCommon(szTry, szAnswer) THEN szAnswer[p] ELSE szClue[p]]

\* A wrong answer, which a correct one and more is, too.
WrongAnswer(szTry) ==
    /\ ~SameText(szTry, szAnswer)
    /\ szClue' = Revealed(szTry)
    /\ UNCHANGED <<szAnswer, nClueNumber>>

\* A correct answer, a skip, or the end of its time brings another question.
NewQuestion == AskFrom(AnswerLines)

ClueNext == nextClue \/ (\E t \in Tries : WrongAnswer(t)) \/ NewQuestion

-----------------------------------------------------------------------------
(* Properties                                                              *)

\* At every position the clue shows what the answer has there or nothing, and
\* what is not a letter or digit is never hidden: whatever players type, in
\* whatever case, the display is of the answer (trivia.cpp:567).
ClueAgrees ==
    /\ DOMAIN szClue = DOMAIN szAnswer
    /\ \A p \in DOMAIN szClue :
          szClue[p] = szAnswer[p] \/ (szAnswer[p] \in Alnum /\ szClue[p] = CLUE_CHAR)

Letters == {p \in DOMAIN szAnswer : szAnswer[p] \in Alnum}
Hidden == {p \in Letters : szClue[p] = CLUE_CHAR}

\* However many clues the sysop allows, a clue never brings what is revealed to
\* more than three fifths of the answer, dots counted, so that something is always
\* left to be found out (trivia.cpp:424).
CluesLeaveTwoFifths ==
    [][ nClueNumber' > nClueNumber /\ szClue' # szClue =>
            5 * Cardinality((Letters \ Hidden)') <= 3 * Len(szAnswer) ]_clueVars
=============================================================================
