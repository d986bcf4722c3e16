------------------------------ MODULE DisplayProofs ------------------------------
(***************************************************************************)
(* Proofs about what the players are shown, for any texts, names, scores   *)
(* and help files: the clue is of the answer and leaves enough of it, the  *)
(* list of the high scores is right when it is made and current for as     *)
(* long as it is kept, and what is sent is of the kinds there are.         *)
(*                                                                         *)
(* Clue: ClueInv is what a clue may look like; nextClue reveals letter     *)
(* after letter, so what it makes goes by induction over the letters.      *)
(* Ranking: the selection sort has a function that satisfies its recursive *)
(* definition (SortFalls, from Recursion's RecursiveFunction); RankInv is  *)
(* what the file, the game and a kept list have to do with each other.     *)
(* TELL: BestFor is what the search for a player knows of those it has     *)
(* looked at, which stays true whoever is looked at next (LookKeeps).      *)
(* Texts: Strings and Joints are the partial results of the folds, Broken  *)
(* where the lines of a text begin; both go by induction over the parts.   *)
(* Help: Passed is what reading a line does, which PassKeeps and Passes    *)
(* carry over a whole file; Known is how much of the entry is shown.       *)
(***************************************************************************)
EXTENDS Display, Recursion, SequenceTheorems, TLAPS

-----------------------------------------------------------------------------
(* Clue                                                                    *)

LEMMA CharsAre ==
    /\ CLUE_CHAR \in Char /\ CLUE_CHAR \notin Alnum /\ Alnum \subseteq Char
    /\ AnswerLines \subseteq Seq(Char) /\ nMaxClues \in Nat
    /\ \A line \in AnswerLines : \E p \in DOMAIN line : line[p] # Blank
BY ClueAssumption, TextAssumption DEF ClueAssumption, TextAssumption

\* A clue of an answer: what it may look like.
ClueOf(clue, answer) ==
    /\ clue \in Seq(Char) /\ DOMAIN clue = DOMAIN answer
    /\ \A p \in DOMAIN answer :
          clue[p] = answer[p] \/ (answer[p] \in Alnum /\ clue[p] = CLUE_CHAR)

\* What is asked has an answer, and the clue is one of that answer.
ClueInv ==
    /\ szAnswer \in Seq(Char) /\ szAnswer # <<>>
    /\ ClueOf(szClue, szAnswer)
    /\ nClueNumber \in 0 .. nMaxClues + 1

LEMMA IsClue ==
    ASSUME NEW answer \in Seq(Char), NEW clue, DOMAIN clue = DOMAIN answer,
           clue = [p \in DOMAIN answer |-> clue[p]],
           \A p \in DOMAIN answer :
              clue[p] = answer[p] \/ (answer[p] \in Alnum /\ clue[p] = CLUE_CHAR)
    PROVE  ClueOf(clue, answer)
<1>1. DOMAIN answer = 1 .. Len(answer) /\ Len(answer) \in Nat /\ \A p \in DOMAIN answer : answer[p] \in Char
  OBVIOUS
<1>2. clue \in [1 .. Len(answer) -> Char]
  BY <1>1, CharsAre
<1>3. clue \in Seq(Char)
  BY <1>1, <1>2, SeqDef
<1> QED BY <1>3 DEF ClueOf

LEMMA MaskedIsClue == ASSUME NEW answer \in Seq(Char) PROVE ClueOf(Masked(answer), answer)
<1>1. /\ DOMAIN Masked(answer) = DOMAIN answer
      /\ Masked(answer) = [p \in DOMAIN answer |-> Masked(answer)[p]]
      /\ \A p \in DOMAIN answer : Masked(answer)[p] = answer[p]
                                  \/ (answer[p] \in Alnum /\ Masked(answer)[p] = CLUE_CHAR)
  BY DEF Masked
<1> QED BY <1>1, IsClue

LEMMA StringsOf ==
    ASSUME NEW line \in AnswerLines
    PROVE  getStrings(line) \in Seq(Char) /\ getStrings(line) # <<>>
<1>. DEFINE S == {p \in DOMAIN line : line[p] # Blank}
<1>1. line \in Seq(Char) /\ Len(line) \in Nat /\ DOMAIN line = 1 .. Len(line)
  BY CharsAre
<1>2. S \subseteq Nat /\ S # {} /\ \A m \in S : m <= Len(line)
  BY <1>1, CharsAre
<1>3. Max(S) \in S
  <2>. HIDE DEF S
  <2> QED BY <1>1, <1>2, MaxIs
<1>4. Max(S) \in 1 .. Len(line)
  BY <1>1, <1>3
<1>5. SubSeq(line, 1, Max(S)) \in Seq(Char) /\ Len(SubSeq(line, 1, Max(S))) = Max(S)
  <2>. HIDE DEF S
  <2> QED BY <1>1, <1>4
<1>6. getStrings(line) = SubSeq(line, 1, Max(S))
  BY DEF getStrings
<1>. HIDE DEF S
<1>7. Max(S) # 0
  BY <1>4
<1>8. SubSeq(line, 1, Max(S)) # <<>>
  <2>1. Len(<<>>) = 0
    OBVIOUS
  <2> QED BY <1>5, <1>7, <2>1
<1> QED BY <1>5, <1>6, <1>8

\* The letters that are shown, and what counts as hidden: dots of the answer, too.
Lit(clue) == {p \in DOMAIN clue : clue[p] \in Alnum}
Dots(clue) == {p \in DOMAIN clue : clue[p] = CLUE_CHAR}

LEMMA OneMore ==
    ASSUME NEW S, IsFiniteSet(S), NEW x
    PROVE  IsFiniteSet(S \cup {x}) /\ Cardinality(S \cup {x}) <= Cardinality(S) + 1
<1>1. Cardinality(S) \in Nat
  BY FS_CardinalityType
<1>2. CASE x \in S
  <2>1. S \cup {x} = S /\ Cardinality(S) <= Cardinality(S) + 1
    BY <1>1, <1>2
  <2> QED BY <2>1
<1>3. CASE x \notin S
  <2>1. IsFiniteSet(S \cup {x}) /\ Cardinality(S \cup {x}) = Cardinality(S) + 1
    BY <1>3, FS_AddElement
  <2>2. Cardinality(S) + 1 <= Cardinality(S) + 1
    BY <1>1
  <2> QED BY <2>1, <2>2
<1> QED BY <1>2, <1>3

LEMMA LitCount ==
    ASSUME NEW clue \in Seq(Char)
    PROVE  /\ IsFiniteSet(Lit(clue)) /\ IsFiniteSet(Dots(clue))
           /\ Cardinality(Lit(clue)) \in Nat /\ Cardinality(Dots(clue)) \in Nat
           /\ Cardinality(Lit(clue)) + Cardinality(Dots(clue)) <= Len(clue)
<1>. DEFINE A == Lit(clue)
            B == Dots(clue)
            D == 1 .. Len(clue)
<1>1. A \subseteq D /\ B \subseteq D /\ A \cap B = {} /\ Len(clue) \in Nat
  BY CharsAre DEF Lit, Dots
<1>2. IsFiniteSet(D) /\ Cardinality(D) = Len(clue)
  BY <1>1, FS_Interval
<1>. HIDE DEF A, B, D
<1>3. IsFiniteSet(A) /\ IsFiniteSet(B) /\ A \cup B \subseteq D
  BY <1>1, <1>2, FS_Subset
<1>4. Cardinality(A) \in Nat /\ Cardinality(B) \in Nat
  BY <1>3, FS_CardinalityType
<1>5. Cardinality(A \cup B) = Cardinality(A) + Cardinality(B) - Cardinality(A \cap B)
  BY <1>3, FS_Union
<1>6. Cardinality(A \cap B) = 0
  BY <1>1, FS_EmptySet
<1>7. Cardinality(A \cup B) <= Cardinality(D)
  BY <1>2, <1>3, FS_Subset
<1>8. Cardinality(A) + Cardinality(B) <= Len(clue)
  BY <1>2, <1>4, <1>5, <1>6, <1>7
<1> QED BY <1>3, <1>4, <1>8 DEF A, B

LEMMA WordsBegin == ASSUME ClueInv PROVE nWordLocation \subseteq 1 .. Len(szAnswer)
<1>. DEFINE starts == {1} \cup {p + 1 : p \in {q \in 1 .. Len(szAnswer) - 1 : szAnswer[q] \notin Alnum}}
<1>1. Len(szAnswer) \in Nat /\ Len(szAnswer) # 0 /\ DOMAIN szAnswer = 1 .. Len(szAnswer)
  BY DEF ClueInv
<1>2. starts \subseteq 1 .. Len(szAnswer)
  BY <1>1
<1>3. nWordLocation = IF starts = {1} THEN DOMAIN szAnswer
                      ELSE {p \in starts : Cardinality({q \in starts : q < p}) < 10}
  BY DEF nWordLocation
<1>. HIDE DEF starts
<1>4. {p \in starts : Cardinality({q \in starts : q < p}) < 10} \subseteq starts
  OBVIOUS
<1> QED BY <1>1, <1>2, <1>3, <1>4

\* One letter more at most.
LEMMA RevealsOne ==
    ASSUME ClueInv, NEW clue, ClueOf(clue, szAnswer), NEW new \in Reveal(clue)
    PROVE  ClueOf(new, szAnswer) /\ Cardinality(Lit(new)) <= Cardinality(Lit(clue)) + 1
<1>0. szAnswer \in Seq(Char) /\ clue \in Seq(Char) /\ DOMAIN clue = DOMAIN szAnswer
      /\ \A p \in DOMAIN szAnswer : szAnswer[p] \in Char
  BY DEF ClueInv, ClueOf
<1>1. Len(clue) \in Nat /\ Len(szAnswer) = Len(clue) /\ DOMAIN clue = 1 .. Len(clue)
  BY <1>0
<1>2. PICK p \in 1 .. Len(clue) :
         new = [clue EXCEPT ![NotRevealedFrom(clue, p)] = szAnswer[NotRevealedFrom(clue, p)]]
  BY <1>1, WordsBegin DEF Reveal
<1>. DEFINE q == NotRevealedFrom(clue, p)
<1>3. q \in 1 .. Len(clue)
  <2>. DEFINE S == {n \in p .. Len(clue) : clue[n] = CLUE_CHAR \/ n = Len(clue)}
  <2>1. S \subseteq 1 .. Len(clue) /\ Len(clue) \in S /\ S \subseteq Nat
    BY <1>1
  <2>2. Min(S) \in S
    <3>. HIDE DEF S
    <3> QED BY <2>1, MinIs
  <2>3. q = Min(S)
    BY DEF NotRevealedFrom
  <2>. HIDE DEF S, q
  <2> QED BY <2>1, <2>2, <2>3
<1>4. new = [clue EXCEPT ![q] = szAnswer[q]]
  BY <1>2
<1>. HIDE DEF q
<1>5. DOMAIN new = DOMAIN szAnswer /\ new = [n \in DOMAIN szAnswer |-> new[n]]
      /\ \A n \in DOMAIN szAnswer : new[n] = IF n = q THEN szAnswer[n] ELSE clue[n]
  BY <1>0, <1>3, <1>4
<1>6. ClueOf(new, szAnswer)
  <2>1. \A n \in DOMAIN szAnswer :
          new[n] = szAnswer[n] \/ (szAnswer[n] \in Alnum /\ new[n] = CLUE_CHAR)
    BY <1>5 DEF ClueOf
  <2> QED BY <1>0, <1>5, <2>1, IsClue
<1>7. Lit(new) \subseteq Lit(clue) \cup {q}
  BY <1>0, <1>5 DEF Lit
<1>8. Cardinality(Lit(clue) \cup {q}) <= Cardinality(Lit(clue)) + 1 /\ IsFiniteSet(Lit(clue) \cup {q})
  BY <1>0, LitCount, OneMore
<1>9. Cardinality(Lit(new)) <= Cardinality(Lit(clue) \cup {q})
  BY <1>7, <1>8, FS_Subset
<1>10. Cardinality(Lit(new)) \in Nat /\ Cardinality(Lit(clue)) \in Nat
       /\ Cardinality(Lit(clue) \cup {q}) \in Nat
  BY <1>0, <1>6, <1>8, LitCount, FS_CardinalityType DEF ClueOf
<1>11. Cardinality(Lit(new)) <= Cardinality(Lit(clue)) + 1
  BY <1>8, <1>9, <1>10
<1> QED BY <1>6, <1>11

\* What revealing letters one after the other makes of the clue.
After(N) ==
    CHOOSE after : after = [k \in 0 .. N |->
        IF k = 0 THEN {szClue} ELSE UNION {Reveal(clue) : clue \in after[k - 1]}]

LEMMA RevealsMore ==
    ASSUME ClueInv, NEW N \in Nat, NEW clue \in After(N)[N]
    PROVE  ClueOf(clue, szAnswer) /\ Cardinality(Lit(clue)) <= Cardinality(Lit(szClue)) + N
<1>. DEFINE D == 0 .. N
            Shown == {c \in Seq(Char) : ClueOf(c, szAnswer)}
            T == SUBSET Shown
            step(g, k) == IF k = 0 THEN {szClue} ELSE UNION {Reveal(c) : c \in g[k - 1]}
            F == [g \in [D -> T] |-> [k \in D |-> step(g, k)]]
            rank == [k \in D |-> k]
            after == After(N)
<1>1. szClue \in Shown /\ \A c \in Shown : Reveal(c) \subseteq Shown
  BY RevealsOne DEF ClueInv, ClueOf
<1>2. 0 \in D /\ N \in D /\ D \subseteq Nat /\ \A k \in D : k # 0 => k - 1 \in D /\ k - 1 < k
  OBVIOUS
<1>3. rank \in [D -> Nat] /\ (\E M \in Nat : \A k \in D : rank[k] < M) /\ \A k \in D : rank[k] = k
  <2>1. N + 1 \in Nat /\ \A k \in D : k < N + 1
    OBVIOUS
  <2> QED BY <1>2, <2>1
<1>. HIDE DEF D, Shown, rank
<1>4. \A g \in [D -> T], k \in D : step(g, k) \in T
  BY <1>1, <1>2
<1>5. F \in [[D -> T] -> [D -> T]]
  <2>. HIDE DEF step, T
  <2> QED BY <1>4
<1>6. \A g, h \in [D -> T] : \A k \in D :
         (\A e \in D : rank[e] < rank[k] => g[e] = h[e]) => F[g][k] = F[h][k]
  <2>1. ASSUME NEW g \in [D -> T], NEW h \in [D -> T], NEW k \in D,
               \A e \in D : rank[e] < rank[k] => g[e] = h[e]
        PROVE  step(g, k) = step(h, k)
    <3>1. k # 0 => g[k - 1] = h[k - 1]
      BY <1>2, <1>3, <2>1
    <3> QED BY <3>1
  <2>. HIDE DEF step
  <2>2. \A g \in [D -> T], k \in D : F[g][k] = step(g, k)
    OBVIOUS
  <2>. HIDE DEF F
  <2> QED BY <2>1, <2>2
<1>7. \E g \in [D -> T] : g = F[g]
  <2>1. T # {}
    OBVIOUS
  <2>2. GoesDown(D, T, rank, F)
    <3>. HIDE DEF F, T
    <3> QED BY <1>3, <1>5, <1>6, <2>1 DEF GoesDown
  <2>. HIDE DEF F, T
  <2> QED BY <2>2, RecursiveFunction
<1>8. PICK g \in [D -> T] : g = [k \in D |-> step(g, k)]
  BY <1>7
<1>9. after = [k \in D |-> step(after, k)]
  BY <1>8 DEF After, D
<1>. HIDE DEF after
<1>. DEFINE R == Cardinality(Lit(szClue))
            Few(k) == \A c \in after[k] : c \in Shown /\ Cardinality(Lit(c)) <= R + k
            S == {k \in Nat : k \in D => Few(k)}
<1>10. R \in Nat /\ \A c \in Shown : Cardinality(Lit(c)) \in Nat
  BY LitCount DEF ClueInv, ClueOf, Shown
<1>11. 0 \in S
  <2>1. after[0] = {szClue}
    BY <1>2, <1>9
  <2> QED BY <1>1, <1>10, <2>1
<1>12. ASSUME NEW k \in Nat, k \in S PROVE k + 1 \in S
  <2>1. SUFFICES ASSUME k + 1 \in D PROVE Few(k + 1)
    OBVIOUS
  <2>2. k \in D /\ k + 1 # 0 /\ (k + 1) - 1 = k
    BY <2>1 DEF D
  <2>3. after[k + 1] = UNION {Reveal(c) : c \in after[k]}
    BY <1>9, <2>1, <2>2
  <2>4. Few(k)
    BY <1>12, <2>2
  <2>5. ASSUME NEW c \in after[k], NEW new \in Reveal(c)
        PROVE  new \in Shown /\ Cardinality(Lit(new)) <= R + (k + 1)
    <3>1. c \in Shown /\ Cardinality(Lit(c)) <= R + k
      BY <2>4
    <3>2. new \in Shown
      BY <1>1, <3>1
    <3>3. Cardinality(Lit(new)) <= Cardinality(Lit(c)) + 1
      BY <3>1, RevealsOne DEF Shown
    <3>4. Cardinality(Lit(new)) \in Nat /\ Cardinality(Lit(c)) \in Nat
      BY <1>10, <3>1, <3>2
    <3>. HIDE DEF R
    <3>5. Cardinality(Lit(new)) <= R + (k + 1)
      BY <1>10, <3>1, <3>3, <3>4
    <3> QED BY <3>2, <3>5
  <2> QED BY <2>3, <2>5
<1>13. Nat \subseteq S
  <2>. HIDE DEF S
  <2> QED BY <1>11, <1>12, Induct
<1>14. Few(N)
  BY <1>2, <1>13
<1> QED BY <1>14 DEF Shown, after

LEMMA Fifth == ASSUME NEW n \in Nat PROVE n \div 5 \in Nat /\ 5 * (n \div 5) <= n
OBVIOUS

LEMMA LettersRevealed ==
    ASSUME ClueInv, NEW number \in Nat
    PROVE  LET k == nLettersRevealed(number)
           IN  /\ k \in Nat
               /\ 5 * k <= nNotYetRevealed \/ (k = 1 /\ nAlreadyRevealed = 0 /\ nNotYetRevealed > 1)
<1>. DEFINE few == Min({number, nNotYetRevealed \div 5})
<1>1. nNotYetRevealed \in Nat
  BY LitCount DEF nNotYetRevealed, ClueInv, ClueOf, Dots
<1>2. nNotYetRevealed \div 5 \in Nat /\ 5 * (nNotYetRevealed \div 5) <= nNotYetRevealed
  BY <1>1, Fifth
<1>3. few \in {number, nNotYetRevealed \div 5} /\ few <= nNotYetRevealed \div 5
  <2>. DEFINE fifth == nNotYetRevealed \div 5
  <2>. HIDE DEF fifth
  <2>1. {number, fifth} \subseteq Nat /\ {number, fifth} # {} /\ fifth \in {number, fifth}
    BY <1>2 DEF fifth
  <2>2. Min({number, fifth}) \in {number, fifth} /\ Min({number, fifth}) <= fifth
    BY <2>1, MinIs
  <2> QED BY <2>2 DEF fifth
<1>4. few \in Nat
  BY <1>2, <1>3
<1>5. nLettersRevealed(number)
        = IF few = 0 /\ nAlreadyRevealed = 0 /\ nNotYetRevealed > 1 THEN 1 ELSE few
  BY DEF nLettersRevealed
<1>. HIDE DEF few
<1>6. 5 * few <= nNotYetRevealed
  <2>. DEFINE fifth == nNotYetRevealed \div 5
  <2>1. fifth \in Nat /\ 5 * fifth <= nNotYetRevealed /\ few <= fifth
    BY <1>2, <1>3
  <2>. HIDE DEF fifth
  <2> QED BY <1>1, <1>4, <2>1
<1> QED BY <1>4, <1>5, <1>6

LEMMA ClueStep ==
    ASSUME ClueInv, nextClue
    PROVE  /\ ClueOf(szClue', szAnswer)
           /\ szClue' # szClue =>
                 /\ nAlreadyRevealed <= nNotYetRevealed
                 /\ Cardinality(Lit(szClue')) <= nAlreadyRevealed + nLettersRevealed(nClueNumber')
<1>. DEFINE N == nLettersRevealed(nClueNumber')
<1>1. CASE szClue' = szClue
  BY <1>1 DEF ClueInv
<1>2. CASE szClue' # szClue
  <2>1. ~(nAlreadyRevealed > nNotYetRevealed) /\ nClueNumber' = nClueNumber + 1
    BY <1>2 DEF nextClue
  <2>2. szClue' \in After(N)[N]
    BY <1>2 DEF nextClue, After
  <2>3. nClueNumber' \in Nat
    BY <2>1, CharsAre DEF ClueInv
  <2>4. N \in Nat
    BY <2>3, LettersRevealed
  <2>. HIDE DEF N
  <2>5. ClueOf(szClue', szAnswer) /\ Cardinality(Lit(szClue')) <= Cardinality(Lit(szClue)) + N
    BY <2>2, <2>4, RevealsMore
  <2>6. nAlreadyRevealed = Cardinality(Lit(szClue))
    BY DEF nAlreadyRevealed, Lit
  <2>7. nAlreadyRevealed \in Nat /\ nNotYetRevealed \in Nat
    BY LitCount DEF nNotYetRevealed, nAlreadyRevealed, ClueInv, ClueOf, Dots, Lit
  <2>8. nAlreadyRevealed <= nNotYetRevealed
    BY <2>1, <2>7
  <2> QED BY <2>5, <2>6, <2>8 DEF N
<1> QED BY <1>1, <1>2

LEMMA ClueKept ==
    ASSUME ClueInv, ClueNext \/ UNCHANGED clueVars
    PROVE  ClueInv'
<1>1. CASE nextClue
  <2>1. szAnswer' = szAnswer /\ nClueNumber' = nClueNumber + 1 /\ nClueNumber <= nMaxClues
    BY <1>1 DEF nextClue
  <2>2. nClueNumber' \in 0 .. nMaxClues + 1
    BY <2>1, CharsAre DEF ClueInv
  <2>3. ClueOf(szClue', szAnswer)
    BY <1>1, ClueStep
  <2> QED BY <2>1, <2>2, <2>3 DEF ClueInv
<1>2. ASSUME NEW t \in Tries, WrongAnswer(t) PROVE ClueInv'
  <2>1. szAnswer' = szAnswer /\ nClueNumber' = nClueNumber /\ szClue' = Revealed(t)
    BY <1>2 DEF WrongAnswer
  <2>2. /\ DOMAIN Revealed(t) = DOMAIN szAnswer
        /\ Revealed(t) = [p \in DOMAIN szAnswer |-> Revealed(t)[p]]
        /\ \A p \in DOMAIN szAnswer :
              Revealed(t)[p] = szAnswer[p] \/ (szAnswer[p] \in Alnum /\ Revealed(t)[p] = CLUE_CHAR)
    BY DEF Revealed, ClueInv, ClueOf
  <2>3. ClueOf(Revealed(t), szAnswer)
    BY <2>2, IsClue DEF ClueInv
  <2> QED BY <2>1, <2>3 DEF ClueInv
<1>3. CASE NewQuestion
  <2>1. szAnswer' \in Seq(Char) /\ szAnswer' # <<>>
    BY <1>3, StringsOf DEF NewQuestion, AskFrom, ClueInv
  <2>2. szClue' = Masked(szAnswer') /\ nClueNumber' = 0
    BY <1>3 DEF NewQuestion, AskFrom
  <2>3. ClueOf(Masked(szAnswer'), szAnswer')
    BY <2>1, MaskedIsClue
  <2>4. 0 \in 0 .. nMaxClues + 1
    BY CharsAre
  <2> QED BY <2>1, <2>2, <2>3, <2>4 DEF ClueInv
<1>4. CASE UNCHANGED clueVars
  BY <1>4 DEF ClueInv, ClueOf, clueVars
<1> QED BY <1>1, <1>2, <1>3, <1>4 DEF ClueNext

LEMMA DisplayClue == Spec => []ClueInv
<1>1. DisplayInit => ClueInv
  <2>1. SUFFICES ASSUME DisplayInit PROVE ClueInv
    OBVIOUS
  <2>2. szAnswer \in Seq(Char) /\ szAnswer # <<>> /\ szClue = Masked(szAnswer) /\ nClueNumber = 0
    BY <2>1, StringsOf DEF DisplayInit, ClueInit
  <2>3. 0 \in 0 .. nMaxClues + 1
    BY CharsAre
  <2> QED BY <2>2, <2>3, MaskedIsClue DEF ClueInv
<1>2. ClueInv /\ [DisplayNext]_displayVars => ClueInv'
  <2>1. [DisplayNext]_displayVars => ClueNext \/ UNCHANGED clueVars
    BY DEF DisplayNext, displayVars, MoveClue, MoveRanking, MoveCommands, MoveScreen
  <2> QED BY <2>1, ClueKept
<1> QED BY <1>1, <1>2, PTL DEF Spec

\* Whatever was tried and revealed before, the clue has at every position what the
\* answer has there, or hides a letter or digit of it (trivia.cpp:567).
THEOREM ClueIsOfAnswer == Spec => []ClueAgrees
<1>1. ClueInv => ClueAgrees
  BY DEF ClueInv, ClueOf, ClueAgrees
<1> QED BY <1>1, DisplayClue, PTL

LEMMA ThreeFifths ==
    ASSUME NEW r \in Nat, NEW n \in Nat, NEW k \in Nat, NEW len \in Nat, NEW lit \in Nat,
           r <= n, r + n <= len, lit <= r + k,
           5 * k <= n \/ (k = 1 /\ r = 0 /\ n > 1)
    PROVE  5 * lit <= 3 * len
OBVIOUS

\* A clue never brings what is revealed to more than three fifths of the answer, however
\* many clues there are and whatever was tried between them (trivia.cpp:424).
THEOREM TwoFifthsLeft == Spec => CluesLeaveTwoFifths
<1>1. ASSUME ClueInv, ClueInv', ClueNext, nClueNumber' > nClueNumber, szClue' # szClue
      PROVE  5 * Cardinality((Letters \ Hidden)') <= 3 * Len(szAnswer)
  <2>1. nextClue
    <3>1. ~(0 > nClueNumber) /\ ~(nClueNumber > nClueNumber)
      BY <1>1, CharsAre DEF ClueInv
    <3> QED BY <1>1, <3>1 DEF ClueNext, WrongAnswer, NewQuestion, AskFrom
  <2>2. szAnswer' = szAnswer /\ nClueNumber' = nClueNumber + 1
    BY <2>1 DEF nextClue
  <2>3. (Letters \ Hidden)' = Lit(szClue')
    BY <1>1, CharsAre DEF Letters, Hidden, Lit, ClueInv, ClueOf
  <2>. DEFINE r == nAlreadyRevealed
              n == nNotYetRevealed
              k == nLettersRevealed(nClueNumber')
              lit == Cardinality(Lit(szClue'))
  <2>4. r <= n /\ lit <= r + k
    BY <1>1, <2>1, ClueStep
  <2>5. nClueNumber' \in Nat
    BY <1>1, <2>2, CharsAre DEF ClueInv
  <2>6. k \in Nat /\ (5 * k <= n \/ (k = 1 /\ r = 0 /\ n > 1))
    BY <1>1, <2>5, LettersRevealed
  <2>7. r \in Nat /\ n \in Nat /\ r + n <= Len(szClue)
    BY <1>1, LitCount DEF nNotYetRevealed, nAlreadyRevealed, ClueInv, ClueOf, Dots, Lit
  <2>8. lit \in Nat
    BY <1>1, LitCount DEF ClueInv, ClueOf
  <2>9. Len(szClue) = Len(szAnswer) /\ Len(szAnswer) \in Nat
    BY <1>1 DEF ClueInv, ClueOf
  <2>. HIDE DEF r, n, k, lit
  <2>10. 5 * lit <= 3 * Len(szAnswer)
    BY <2>4, <2>6, <2>7, <2>8, <2>9, ThreeFifths
  <2> QED BY <2>3, <2>10 DEF lit
<1>2. [DisplayNext]_displayVars => ClueNext \/ UNCHANGED clueVars
  BY DEF DisplayNext, displayVars, MoveClue, MoveRanking, MoveCommands, MoveScreen
<1>3. ClueInv /\ ClueInv' /\ [DisplayNext]_displayVars =>
        [ nClueNumber' > nClueNumber /\ szClue' # szClue =>
            5 * Cardinality((Letters \ Hidden)') <= 3 * Len(szAnswer) ]_clueVars
  BY <1>1, <1>2 DEF clueVars
<1> QED BY <1>3, DisplayClue, PTL DEF Spec, CluesLeaveTwoFifths

-----------------------------------------------------------------------------
(* Sorting                                                                 *)

\* What is taken from n places is not more than n.
LEMMA FewTaken ==
    ASSUME NEW n \in Nat, NEW f
    PROVE  LET S == {f[j] : j \in 1 .. n} IN IsFiniteSet(S) /\ Cardinality(S) <= n
<1>. DEFINE S == {f[j] : j \in 1 .. n}
            g == [j \in 1 .. n |-> f[j]]
<1>1. g \in Surjection(1 .. n, S)
  BY DEF Surjection
<1>2. ExistsSurjection(1 .. n, S)
  BY <1>1 DEF ExistsSurjection
<1>. HIDE DEF S
<1>3. IsFiniteSet(S)
  BY <1>2, FS_NatSurjection
<1>4. Cardinality(S) <= n
  BY <1>2, FS_SurjCardinalityBound
<1> QED BY <1>3, <1>4 DEF S

\* The selection sort of some of the records gr, those with their numbers in G.
LeftAt(G, order, k) == G \ {order[j] : j \in 1 .. k - 1}
NextPlace(gr, G, order, k) ==
    LET left == LeftAt(G, order, k)
        nTopPoints == Max({gr[i].nScore : i \in left})
    IN  Min({i \in left : gr[i].nScore = nTopPoints})
SortOrder(gr, G, many) ==
    CHOOSE order : order = [k \in 1 .. many |-> NextPlace(gr, G, order, k)]

\* Records that can be sorted, and as many places as there are at most.
Sortable(gr, G, many) ==
    /\ IsFiniteSet(G) /\ G \subseteq Nat
    /\ many \in Nat /\ many <= Cardinality(G)
    /\ \E N \in Nat : \A i \in G : gr[i].nScore \in 0 .. N

LEMMA NextPlaceIs ==
    ASSUME NEW gr, NEW G, NEW many, Sortable(gr, G, many), NEW order, NEW k \in 1 .. many
    PROVE  LET next == NextPlace(gr, G, order, k)
               left == LeftAt(G, order, k)
           IN  next \in left /\ \A i \in left : gr[i].nScore <= gr[next].nScore
<1>. DEFINE left == LeftAt(G, order, k)
            taken == {order[j] : j \in 1 .. k - 1}
            scores == {gr[i].nScore : i \in left}
<1>1. k - 1 \in Nat /\ k - 1 < k /\ k <= many /\ many \in Nat /\ Cardinality(G) \in Nat /\ k \in Nat
      /\ many <= Cardinality(G)
  BY FS_CardinalityType DEF Sortable
<1>2. IsFiniteSet(taken) /\ Cardinality(taken) <= k - 1
  BY <1>1, FewTaken
<1>3. left \subseteq G /\ left \subseteq Nat /\ left = G \ taken
  BY DEF LeftAt, Sortable
<1>. HIDE DEF taken, left
<1>4. left # {}
  <2>1. SUFFICES ASSUME G \subseteq taken PROVE FALSE
    BY <1>3
  <2>2. Cardinality(G) <= Cardinality(taken) /\ Cardinality(taken) \in Nat
    BY <1>2, <2>1, FS_Subset, FS_CardinalityType
  <2> QED BY <1>1, <1>2, <2>2
<1>5. PICK N \in Nat : \A i \in G : gr[i].nScore \in 0 .. N
  BY DEF Sortable
<1>6. scores \subseteq Nat /\ scores # {} /\ \A m \in scores : m <= N
  BY <1>3, <1>4, <1>5
<1>7. Max(scores) \in scores /\ \A m \in scores : m <= Max(scores)
  <2>. HIDE DEF scores
  <2> QED BY <1>6, MaxIs
<1>. DEFINE tops == {i \in left : gr[i].nScore = Max(scores)}
<1>8. tops \subseteq Nat /\ tops # {}
  <2>1. PICK i \in left : gr[i].nScore = Max(scores)
    BY <1>7
  <2>2. tops # {}
    BY <2>1
  <2> QED BY <1>3, <2>2
<1>9. Min(tops) \in tops
  <2>. HIDE DEF tops
  <2> QED BY <1>8, MinIs
<1>10. NextPlace(gr, G, order, k) = Min(tops)
  BY DEF NextPlace, left
<1>11. Min(tops) \in left /\ gr[Min(tops)].nScore = Max(scores)
  BY <1>9
<1>12. \A i \in left : gr[i].nScore <= Max(scores)
  BY <1>7
<1>. HIDE DEF tops, scores
<1>13. /\ NextPlace(gr, G, order, k) \in left
       /\ \A i \in left : gr[i].nScore <= gr[NextPlace(gr, G, order, k)].nScore
  BY <1>10, <1>11, <1>12
<1> QED BY <1>13 DEF left

\* The highest scores, falling, each record once.
Falls(gr, G, many, order) ==
    /\ order \in [1 .. many -> G]
    /\ \A j, k \in 1 .. many : j < k => order[j] # order[k]
    /\ \A k \in 1 .. many : \A i \in LeftAt(G, order, k) : gr[i].nScore <= gr[order[k]].nScore

LEMMA SortFalls ==
    ASSUME NEW gr, NEW G, NEW many, Sortable(gr, G, many)
    PROVE  Falls(gr, G, many, SortOrder(gr, G, many))
<1>. DEFINE D == 1 .. many
            T == G \cup {0}
            F == [g \in [D -> T] |-> [k \in D |-> NextPlace(gr, G, g, k)]]
            rank == [k \in D |-> k]
            order == SortOrder(gr, G, many)
<1>1. many \in Nat
  BY DEF Sortable
<1>3. rank \in [D -> Nat] /\ (\E N \in Nat : \A k \in D : rank[k] < N) /\ \A k \in D : rank[k] = k
  <2>1. many + 1 \in Nat /\ \A k \in D : k \in Nat /\ k < many + 1
    BY <1>1
  <2> QED BY <2>1
<1>4. F \in [[D -> T] -> [D -> T]]
  <2>1. ASSUME NEW g \in [D -> T] PROVE [k \in D |-> NextPlace(gr, G, g, k)] \in [D -> T]
    <3>1. \A k \in D : NextPlace(gr, G, g, k) \in G
      BY NextPlaceIs DEF LeftAt
    <3> QED BY <3>1
  <2> QED BY <2>1
<1>5. ASSUME NEW g \in [D -> T], NEW h \in [D -> T], NEW k \in D,
             \A e \in D : rank[e] < rank[k] => g[e] = h[e]
      PROVE  F[g][k] = F[h][k]
  <2>1. ASSUME NEW j \in 1 .. k - 1 PROVE g[j] = h[j]
    <3>1. j \in D /\ j < k
      BY <1>1
    <3> QED BY <1>3, <1>5, <3>1
  <2>2. {g[j] : j \in 1 .. k - 1} = {h[j] : j \in 1 .. k - 1}
    BY <2>1
  <2>3. LeftAt(G, g, k) = LeftAt(G, h, k)
    BY <2>2 DEF LeftAt
  <2>4. NextPlace(gr, G, g, k) = NextPlace(gr, G, h, k)
    BY <2>3 DEF NextPlace
  <2> QED BY <2>4
<1>6. \E g \in [D -> T] : g = F[g]
  <2>. HIDE DEF F, rank, D
  <2>1. GoesDown(D, T, rank, F)
    BY <1>3, <1>4, <1>5 DEF GoesDown
  <2>. HIDE DEF T
  <2> QED BY <2>1, RecursiveFunction
<1>7. PICK g \in [D -> T] : g = [k \in D |-> NextPlace(gr, G, g, k)]
  BY <1>6
<1>8. order = [k \in D |-> NextPlace(gr, G, order, k)]
  BY <1>7 DEF SortOrder
<1>. HIDE DEF order
<1>9. ASSUME NEW k \in D
      PROVE  /\ order[k] \in LeftAt(G, order, k)
             /\ \A i \in LeftAt(G, order, k) : gr[i].nScore <= gr[order[k]].nScore
  <2>1. order[k] = NextPlace(gr, G, order, k)
    BY <1>8
  <2> QED BY <2>1, NextPlaceIs
<1>10. order \in [D -> G]
  BY <1>8, <1>9 DEF LeftAt
<1>11. ASSUME NEW j \in D, NEW k \in D, j < k PROVE order[j] # order[k]
  <2>1. j \in 1 .. k - 1
    BY <1>1, <1>11
  <2> QED BY <1>9, <2>1 DEF LeftAt
<1> QED BY <1>9, <1>10, <1>11 DEF Falls, order

-----------------------------------------------------------------------------
(* The ranking                                                             *)

LEMMA RankingIs ==
    /\ IsFiniteSet(Player) /\ "" \notin Player /\ Sysops \subseteq Player
    /\ Top \in Nat /\ Top # 0 /\ Wrap \in Nat /\ Wrap # 0
    /\ MaxPoints \in Nat /\ MaxRecords \in Nat
    /\ \A n \in Points : n \in Nat
<1>1. /\ {Top, Wrap} \subseteq Nat \ {0} /\ {MaxPoints, MaxRecords} \subseteq Nat
      /\ Points \subseteq 1 .. 3
  BY RankingAssumption DEF RankingAssumption
<1>2. IsFiniteSet(Player) /\ "" \notin Player /\ Sysops \subseteq Player
  BY RankingAssumption DEF RankingAssumption
<1>3. \A n \in 1 .. 3 : n \in Nat
  OBVIOUS
<1> QED BY <1>1, <1>2, <1>3

\* What is known of the file and of the nodes.
FileInv ==
    /\ playerDat \in Seq(PlayerRecord) /\ Len(playerDat) <= MaxRecords
    /\ nodes \subseteq Player
    /\ place \in [Player -> 0 .. MaxRecords]
    /\ \A p \in nodes : place[p] # 0
    /\ nScore \in [Player -> 0 .. MaxPoints]
    /\ nodes # {} => playerDat # <<>>
    /\ \A p \in Player \ nodes : nScore[p] = 0

\* A name stands in the file once, with no more points than its node has.
NamesOnce ==
    /\ \A i, j \in DOMAIN playerDat :
          playerDat[i].szName \in Player /\ playerDat[i].szName = playerDat[j].szName => i = j
    /\ \A i \in DOMAIN playerDat :
          playerDat[i].szName \in nodes => playerDat[i].nScore <= nScore[playerDat[i].szName]

\* A list that is of this question is behind neither the game nor the file, but for those
\* it was made with too few points of.
ListKept ==
    ofThisQuestion =>
        \A k \in DOMAIN rankedRecords :
            LET r == rankedRecords[k]
            IN  /\ r.szName \in Player
                /\ r.szName \notin rankedLow =>
                      /\ nScore[r.szName] <= r.nScore
                      /\ \A i \in DOMAIN playerDat :
                            playerDat[i].szName = r.szName => playerDat[i].nScore <= r.nScore

ListTypes ==
    /\ bListSysops \in BOOLEAN /\ elapsed \in 0 .. 2 /\ ahead \in 0 .. Wrap - 1
    /\ ofThisQuestion \in BOOLEAN /\ rankedLow \subseteq Player
    /\ rankedRecords \in Seq(PlayerRecord) /\ Len(rankedRecords) <= Top

RankInv == FileInv /\ NamesOnce /\ ListKept /\ ListTypes

LEMMA RecordIs ==
    ASSUME NEW r \in PlayerRecord
    PROVE  /\ r.nScore \in 0 .. MaxPoints
           /\ r.szName \in Player \/ r = Hole
           /\ r = [szName |-> r.szName, nScore |-> r.nScore]
           /\ r.szName = "" => r.nScore = 0
<1>1. CASE r \in [szName: Player, nScore: 0 .. MaxPoints]
  BY <1>1, RankingIs
<1>2. CASE r = Hole
  <2>1. MaxPoints \in Nat
    BY RankingIs
  <2>2. 0 \in 0 .. MaxPoints
    BY <2>1
  <2> QED BY <1>2, <2>2 DEF Hole
<1> QED BY <1>1, <1>2 DEF PlayerRecord

\* A record of the file with the points of this moment.
LEMMA ReadIs ==
    ASSUME FileInv, NamesOnce, NEW i \in DOMAIN playerDat
    PROVE  LET r == playerDat[i]
               p == r.szName
               points == IF p \in inGame THEN nScore[p] ELSE r.nScore
           IN  /\ r \in PlayerRecord /\ gameRecords[i] \in PlayerRecord
               /\ gameRecords[i] = [szName |-> p, nScore |-> points]
               /\ r.nScore <= gameRecords[i].nScore
               /\ p \in Player \ LowByRecord => nScore[p] <= gameRecords[i].nScore
<1>. DEFINE r == playerDat[i]
            p == r.szName
<1>1. r \in PlayerRecord
  BY DEF FileInv
<1>2. r.nScore \in 0 .. MaxPoints /\ (p \in Player \/ r = Hole) /\ r = [szName |-> p, nScore |-> r.nScore]
  BY <1>1, RecordIs
<1>3. gameRecords[i] = getCurrentScore(r)
  BY DEF gameRecords
<1>4. CASE p \in inGame
  <2>1. p \in Player /\ nScore[p] \in 0 .. MaxPoints /\ r.nScore <= nScore[p]
    BY <1>4 DEF FileInv, NamesOnce, nodes
  <2>2. gameRecords[i] = [szName |-> p, nScore |-> nScore[p]]
    <3>1. CASE nScore[p] > r.nScore
      BY <1>2, <1>3, <1>4, <3>1 DEF getCurrentScore
    <3>2. CASE ~(nScore[p] > r.nScore)
      <4>1. nScore[p] = r.nScore
        BY <1>2, <2>1, <3>2
      <4>2. gameRecords[i] = r
        BY <1>3, <3>2 DEF getCurrentScore
      <4> QED BY <1>2, <4>1, <4>2
    <3> QED BY <3>1, <3>2
  <2>3. [szName |-> p, nScore |-> nScore[p]] \in PlayerRecord
    BY <2>1 DEF PlayerRecord
  <2>4. nScore[p] <= nScore[p]
    BY <2>1
  <2>5. gameRecords[i].nScore = nScore[p]
    BY <2>2
  <2>. HIDE DEF r, p
  <2>6. (IF p \in inGame THEN nScore[p] ELSE r.nScore) = nScore[p]
    BY <1>4
  <2> QED BY <1>1, <2>1, <2>2, <2>3, <2>4, <2>5, <2>6 DEF r, p
<1>5. CASE p \notin inGame
  <2>1. gameRecords[i] = r
    BY <1>3, <1>5 DEF getCurrentScore
  <2>2. ASSUME p \in Player \ LowByRecord PROVE nScore[p] <= r.nScore
    <3>1. CASE p \in inMenu \cup exiting
      <4>1. ~(r.nScore < nScore[p])
        BY <2>2, <3>1 DEF LowByRecord
      <4>2. nScore[p] \in 0 .. MaxPoints
        BY <2>2 DEF FileInv
      <4> QED BY <1>2, <4>1, <4>2
    <3>2. CASE p \notin inMenu \cup exiting
      <4>1. nScore[p] = 0
        BY <1>5, <2>2, <3>2 DEF FileInv, nodes
      <4>2. 0 <= r.nScore
        BY <1>2
      <4> QED BY <4>1, <4>2
    <3> QED BY <3>1, <3>2
  <2>3. r.nScore <= r.nScore
    BY <1>2
  <2>. HIDE DEF r, p
  <2>4. (IF p \in inGame THEN nScore[p] ELSE r.nScore) = r.nScore
    BY <1>5
  <2> QED BY <1>1, <1>2, <2>1, <2>2, <2>3, <2>4 DEF r, p
<1> QED BY <1>4, <1>5

\* How many are ranked, and who at which place.
Ranked == Min({Top, Cardinality(Listed)})
Order == SortOrder(gameRecords, Listed, Ranked)

LEMMA SortedIs ==
    ASSUME FileInv, NamesOnce
    PROVE  /\ Listed \subseteq DOMAIN playerDat /\ IsFiniteSet(Listed)
           /\ Ranked \in Nat /\ Ranked <= Top /\ Ranked <= Cardinality(Listed)
           /\ Ranked = Top \/ Ranked = Cardinality(Listed)
           /\ Falls(gameRecords, Listed, Ranked, Order)
           /\ Sorted = [k \in 1 .. Ranked |-> gameRecords[Order[k]]]
<1>1. DOMAIN gameRecords = DOMAIN playerDat /\ DOMAIN playerDat = 1 .. Len(playerDat)
      /\ Len(playerDat) \in Nat
  BY DEF gameRecords, FileInv
<1>2. Listed \subseteq DOMAIN playerDat
  BY <1>1 DEF Listed
<1>3. IsFiniteSet(Listed) /\ Listed \subseteq Nat
  <2>1. IsFiniteSet(1 .. Len(playerDat))
    BY <1>1, FS_Interval
  <2> QED BY <1>1, <1>2, <2>1, FS_Subset
<1>4. Cardinality(Listed) \in Nat
  BY <1>3, FS_CardinalityType
<1>5. Ranked \in {Top, Cardinality(Listed)} /\ \A m \in {Top, Cardinality(Listed)} : Ranked <= m
  <2>. DEFINE S == {Top, Cardinality(Listed)}
  <2>1. S \subseteq Nat /\ S # {}
    BY <1>4, RankingIs
  <2>2. Min(S) \in S /\ \A m \in S : Min(S) <= m
    <3>. HIDE DEF S
    <3> QED BY <2>1, MinIs
  <2> QED BY <2>2 DEF Ranked
<1>6. Ranked \in Nat /\ Ranked <= Cardinality(Listed) /\ Ranked <= Top
  BY <1>4, <1>5, RankingIs
<1>7. Sortable(gameRecords, Listed, Ranked)
  <2>1. \A i \in Listed : gameRecords[i].nScore \in 0 .. MaxPoints
    <3>1. \A i \in Listed : gameRecords[i] \in PlayerRecord
      BY <1>2, ReadIs
    <3> QED BY <3>1, RecordIs
  <2> QED BY <1>3, <1>6, <2>1, RankingIs DEF Sortable
<1>8. Falls(gameRecords, Listed, Ranked, Order)
  BY <1>7, SortFalls DEF Order
<1>9. Sorted = [k \in 1 .. Ranked |-> gameRecords[Order[k]]]
  BY DEF Sorted, Ranked, Order, SortOrder, NextPlace, LeftAt
<1> QED BY <1>2, <1>3, <1>5, <1>6, <1>8, <1>9

\* Who is listed has a name and points.
LEMMA ListedNamed ==
    ASSUME FileInv, NamesOnce, NEW i \in Listed
    PROVE  i \in DOMAIN playerDat /\ gameRecords[i] \in PlayerRecord
           /\ gameRecords[i].szName = playerDat[i].szName /\ playerDat[i].szName \in Player
<1>1. i \in DOMAIN playerDat /\ gameRecords[i].nScore # 0
  BY SortedIs DEF Listed
<1>2. gameRecords[i] \in PlayerRecord /\ gameRecords[i].szName = playerDat[i].szName
  <2>1. \E points : gameRecords[i] = [szName |-> playerDat[i].szName, nScore |-> points]
    BY <1>1, ReadIs
  <2>2. gameRecords[i] \in PlayerRecord
    BY <1>1, ReadIs
  <2>3. gameRecords[i].szName = playerDat[i].szName
    BY <2>1
  <2> QED BY <2>2, <2>3
<1>3. gameRecords[i].szName \in Player
  BY <1>1, <1>2, RecordIs DEF Hole
<1> QED BY <1>1, <1>2, <1>3

\* What MadeRight says of the list, and what its records are worth.
LEMMA SortedSeq ==
    ASSUME FileInv, NamesOnce
    PROVE  /\ Sorted \in Seq(PlayerRecord) /\ Len(Sorted) = Ranked
           /\ Ranked \in Nat /\ DOMAIN Sorted = 1 .. Ranked
           /\ \A k \in 1 .. Ranked : /\ Sorted[k] = gameRecords[Order[k]] /\ Order[k] \in Listed
                                     /\ Sorted[k] \in PlayerRecord
<1>1. Ranked \in Nat /\ Sorted = [k \in 1 .. Ranked |-> gameRecords[Order[k]]]
      /\ Order \in [1 .. Ranked -> Listed]
  BY SortedIs DEF Falls
<1>2. \A k \in 1 .. Ranked : /\ Sorted[k] = gameRecords[Order[k]] /\ Order[k] \in Listed
                             /\ Sorted[k] \in PlayerRecord
  BY <1>1, ListedNamed
<1>. HIDE DEF Sorted
<1>3. Sorted \in [1 .. Ranked -> PlayerRecord]
  BY <1>1, <1>2
<1>4. Sorted \in Seq(PlayerRecord) /\ Len(Sorted) = Ranked
  BY <1>1, <1>3
<1> QED BY <1>1, <1>2, <1>4

LEMMA SortedFalls ==
    ASSUME FileInv, NamesOnce, NEW k \in 2 .. Len(Sorted)
    PROVE  Sorted[k].nScore <= Sorted[k - 1].nScore
<1>1. Len(Sorted) = Ranked /\ Ranked \in Nat
  BY SortedSeq
<1>2. k \in 1 .. Ranked /\ k - 1 \in 1 .. Ranked
  BY <1>1
<1>3. Falls(gameRecords, Listed, Ranked, Order)
  BY SortedIs
<1>4. Order[k] \in LeftAt(Listed, Order, k - 1)
  <2>1. ASSUME NEW j \in 1 .. (k - 1) - 1 PROVE Order[k] # Order[j]
    <3>1. j \in 1 .. Ranked /\ j < k
      BY <1>1
    <3> QED BY <1>2, <1>3, <3>1 DEF Falls
  <2> QED BY <1>2, <1>3, <2>1 DEF Falls, LeftAt
<1>5. gameRecords[Order[k]].nScore <= gameRecords[Order[k - 1]].nScore
  BY <1>2, <1>3, <1>4 DEF Falls
<1> QED BY <1>2, <1>5, SortedSeq

LEMMA SortedOnce ==
    ASSUME FileInv, NamesOnce
    PROVE  Cardinality({Sorted[k] : k \in DOMAIN Sorted}) = Len(Sorted)
<1>. DEFINE D == 1 .. Ranked
            L == {Sorted[k] : k \in D}
            f == [k \in D |-> Sorted[k]]
<1>1. Ranked \in Nat /\ Len(Sorted) = Ranked /\ DOMAIN Sorted = D
  BY SortedSeq
<1>2. ASSUME NEW j \in D, NEW k \in D, Sorted[j] = Sorted[k] PROVE j = k
  <2>1. Order[j] \in Listed /\ Order[k] \in Listed /\ gameRecords[Order[j]] = gameRecords[Order[k]]
    BY <1>2, SortedSeq
  <2>2. /\ Order[j] \in DOMAIN playerDat /\ Order[k] \in DOMAIN playerDat
        /\ playerDat[Order[j]].szName = playerDat[Order[k]].szName
        /\ playerDat[Order[j]].szName \in Player
    BY <2>1, ListedNamed
  <2>3. Order[j] = Order[k]
    BY <2>2 DEF NamesOnce
  <2>4. Falls(gameRecords, Listed, Ranked, Order)
    BY SortedIs
  <2>5. ~(j < k) /\ ~(k < j)
    BY <2>3, <2>4 DEF Falls
  <2> QED BY <1>1, <2>5
<1>. HIDE DEF D
<1>3. f \in Bijection(D, L)
  BY <1>2 DEF Bijection, Injection, Surjection, IsInjective
<1>4. IsFiniteSet(D) /\ Cardinality(D) = Ranked
  <2>1. IsFiniteSet(1 .. Ranked) /\ Cardinality(1 .. Ranked) = IF 1 > Ranked THEN 0 ELSE Ranked - 1 + 1
    BY <1>1, FS_Interval
  <2>2. Cardinality(1 .. Ranked) = Ranked
    BY <1>1, <2>1
  <2> QED BY <2>1, <2>2 DEF D
<1>5. ExistsBijection(D, L)
  BY <1>3 DEF ExistsBijection
<1>. HIDE DEF L
<1>6. Cardinality(L) = Ranked
  BY <1>4, <1>5, FS_Bijection
<1> QED BY <1>1, <1>6 DEF L

\* Who is ranked nowhere has no more than the last place of a list that is full.
LEMMA SortedBest ==
    ASSUME FileInv, NamesOnce, NEW i \in Listed, \A k \in 1 .. Ranked : Order[k] # i
    PROVE  Len(Sorted) = Top /\ gameRecords[i].nScore <= Sorted[Top].nScore
<1>. DEFINE D == 1 .. Ranked
<1>1. /\ Falls(gameRecords, Listed, Ranked, Order) /\ IsFiniteSet(Listed) /\ Ranked \in Nat
      /\ Ranked = Top \/ Ranked = Cardinality(Listed)
  BY SortedIs
<1>2. Ranked # Cardinality(Listed)
  <2>1. SUFFICES ASSUME Ranked = Cardinality(Listed) PROVE FALSE
    OBVIOUS
  <2>2. Order \in [D -> Listed] /\ \A j, k \in D : j < k => Order[j] # Order[k]
    BY <1>1 DEF Falls
  <2>3. ASSUME NEW j \in D, NEW k \in D, Order[j] = Order[k] PROVE j = k
    <3>1. ~(j < k) /\ ~(k < j)
      BY <2>2, <2>3
    <3> QED BY <1>1, <3>1
  <2>4. Order \in Injection(D, Listed)
    <3>. HIDE DEF D
    <3> QED BY <2>2, <2>3 DEF Injection, IsInjective
  <2>5. Cardinality(D) = Ranked
    <3>1. Cardinality(1 .. Ranked) = IF 1 > Ranked THEN 0 ELSE Ranked - 1 + 1
      BY <1>1, FS_Interval
    <3> QED BY <1>1, <3>1
  <2>. HIDE DEF D
  <2>6. Order \in Surjection(D, Listed)
    BY <1>1, <2>1, <2>4, <2>5, FS_Injection
  <2>7. \E k \in D : Order[k] = i
    BY <2>6 DEF Surjection
  <2> QED BY <2>7 DEF D
<1>3. Ranked = Top /\ Len(Sorted) = Ranked
  BY <1>1, <1>2, SortedSeq
<1>4. Top \in 1 .. Ranked
  <2>1. Top \in Nat /\ Top # 0
    BY RankingIs
  <2> QED BY <1>3, <2>1
<1>5. i \in LeftAt(Listed, Order, Top)
  <2>1. \A j \in 1 .. Top - 1 : j \in 1 .. Ranked
    BY <1>1, <1>3
  <2> QED BY <2>1 DEF LeftAt
<1>6. gameRecords[i].nScore <= gameRecords[Order[Top]].nScore
  BY <1>1, <1>4, <1>5 DEF Falls
<1> QED BY <1>3, <1>4, <1>6, SortedSeq

LEMMA SortedMadeRight ==
    ASSUME FileInv, NamesOnce, rankedRecords' = Sorted
    PROVE  MadeRight
<1>. DEFINE L == Sorted
            list == {L[k] : k \in DOMAIN L}
<1>1. \A k \in 2 .. Len(L) : L[k].nScore <= L[k - 1].nScore
  BY SortedFalls
<1>2. Cardinality(list) = Len(L)
  BY SortedOnce
<1>3. ASSUME NEW i \in DOMAIN playerDat, NEW p, NEW points,
             p = playerDat[i].szName, points = IF p \in inGame THEN nScore[p] ELSE playerDat[i].nScore,
             points > 0, p \in Sysops => bListSysops
      PROVE  \/ [szName |-> p, nScore |-> points] \in list
             \/ Len(L) = Top /\ points <= L[Top].nScore
  <2>1. gameRecords[i] = [szName |-> p, nScore |-> points]
    BY <1>3, ReadIs
  <2>2. gameRecords[i].szName = p /\ gameRecords[i].nScore = points
    BY <2>1
  <2>3. i \in Listed
    <3>1. DOMAIN gameRecords = DOMAIN playerDat /\ points # 0
      BY <1>3 DEF gameRecords
    <3> QED BY <1>3, <2>2, <3>1 DEF Listed
  <2>4. CASE \E k \in 1 .. Ranked : Order[k] = i
    <3>1. PICK k \in 1 .. Ranked : Order[k] = i
      BY <2>4
    <3>2. L[k] = gameRecords[i] /\ k \in DOMAIN L
      BY <3>1, SortedSeq
    <3>. HIDE DEF L
    <3> QED BY <2>1, <3>2
  <2>5. CASE \A k \in 1 .. Ranked : Order[k] # i
    BY <2>2, <2>3, <2>5, SortedBest
  <2> QED BY <2>4, <2>5
<1>4. rankedRecords' = L
  OBVIOUS
<1>. HIDE DEF L
<1> QED BY <1>1, <1>2, <1>3, <1>4 DEF MadeRight

LEMMA RankInitial == ASSUME RankInit PROVE RankInv
<1>1. playerDat = <<>> /\ rankedRecords = <<>> /\ nodes = {} /\ ofThisQuestion = FALSE
      /\ rankedLow = {}
  BY DEF RankInit, nodes
<1>2. <<>> \in Seq(PlayerRecord) /\ Len(<<>>) = 0 /\ DOMAIN <<>> = {}
  OBVIOUS
<1>3. 0 <= MaxRecords /\ 0 <= Top /\ 0 \in 0 .. MaxRecords /\ 0 \in 0 .. MaxPoints /\ 0 \in 0 .. 2
  <2>1. MaxRecords \in Nat /\ MaxPoints \in Nat /\ Top \in Nat
    BY RankingIs
  <2> QED BY <2>1
<1>4. FileInv
  BY <1>1, <1>2, <1>3 DEF RankInit, FileInv
<1>5. NamesOnce
  BY <1>1, <1>2 DEF NamesOnce
<1>6. ListKept
  BY <1>1 DEF ListKept
<1>7. ListTypes
  <2>1. elapsed \in 0 .. 2 /\ ahead \in 0 .. Wrap - 1 /\ bListSysops \in BOOLEAN
    BY <1>3 DEF RankInit
  <2> QED BY <1>1, <1>2, <1>3, <2>1 DEF ListTypes
<1> QED BY <1>4, <1>5, <1>6, <1>7 DEF RankInv

\* The time of the question, and what a short makes of the difference.
LEMMA Wrapped == ASSUME NEW a \in Int PROVE a % Wrap \in 0 .. Wrap - 1
<1>0. Wrap \in Nat /\ Wrap # 0
  BY RankingIs
<1>1. Wrap \in Nat /\ Wrap > 0
  BY <1>0
<1> QED BY <1>1

LEMMA ShownKeeps ==
    ASSUME RankInv, displayScores
    PROVE  RankInv' /\ (rankedRecords' = rankedRecords \/ rankedRecords' = Sorted)
<1>. USE DEF RankInv
<1>1. UNCHANGED <<playerVars, nScore, bListSysops, elapsed>> /\ nodes # {} /\ nodes' = nodes
  BY DEF displayScores, playerVars, nodes
<1>2. FileInv'
  BY <1>1 DEF FileInv, playerVars
<1>3. NamesOnce'
  BY <1>1 DEF NamesOnce, playerVars
<1>4. CASE ahead = 0
  <2>1. UNCHANGED listVars
    BY <1>4 DEF displayScores
  <2>2. ListKept'
    BY <1>1, <2>1 DEF ListKept, listVars, playerVars
  <2>3. ListTypes'
    BY <1>1, <2>1 DEF ListTypes, listVars
  <2>4. rankedRecords' = rankedRecords
    BY <2>1 DEF listVars
  <2> QED BY <1>2, <1>3, <2>2, <2>3, <2>4
<1>5. CASE ahead # 0
  <2>1. ahead' = 0 /\ ofThisQuestion' = TRUE /\ rankedRecords' = Sorted /\ rankedLow' = LowByRecord
    BY <1>1, <1>5 DEF displayScores, FileInv
  <2>2. ASSUME NEW k \in DOMAIN Sorted
        PROVE  /\ Sorted[k].szName \in Player
               /\ Sorted[k].szName \notin LowByRecord =>
                     /\ nScore[Sorted[k].szName] <= Sorted[k].nScore
                     /\ \A i \in DOMAIN playerDat :
                           playerDat[i].szName = Sorted[k].szName => playerDat[i].nScore <= Sorted[k].nScore
    <3>1. Sorted[k] = gameRecords[Order[k]] /\ Order[k] \in Listed
      BY <2>2, SortedSeq
    <3>2. /\ Order[k] \in DOMAIN playerDat
          /\ gameRecords[Order[k]].szName = playerDat[Order[k]].szName
          /\ playerDat[Order[k]].szName \in Player
      BY <3>1, ListedNamed
    <3>3. playerDat[Order[k]].szName \notin LowByRecord =>
              nScore[playerDat[Order[k]].szName] <= gameRecords[Order[k]].nScore
      BY <3>2, ReadIs
    <3>4. playerDat[Order[k]].nScore <= gameRecords[Order[k]].nScore
      BY <3>2, ReadIs
    <3>5. ASSUME NEW i \in DOMAIN playerDat, playerDat[i].szName = Sorted[k].szName
          PROVE  playerDat[i].nScore <= Sorted[k].nScore
      <4>1. i = Order[k]
        BY <3>1, <3>2, <3>5 DEF NamesOnce
      <4> QED BY <3>1, <3>4, <4>1
    <3> QED BY <3>1, <3>2, <3>3, <3>5
  <2>3. ListKept'
    BY <1>1, <2>1, <2>2 DEF ListKept, playerVars
  <2>4. 0 \in 0 .. Wrap - 1
    <3>1. Wrap \in Nat /\ Wrap # 0
      BY RankingIs
    <3> QED BY <3>1
  <2>5. Sorted \in Seq(PlayerRecord) /\ Len(Sorted) <= Top
    BY SortedSeq, SortedIs
  <2>6. LowByRecord \subseteq Player
    BY DEF LowByRecord, FileInv, nodes
  <2>7. ListTypes'
    BY <1>1, <2>1, <2>4, <2>5, <2>6 DEF ListTypes, PlayerRecord
  <2> QED BY <1>2, <1>3, <2>1, <2>3, <2>7
<1> QED BY <1>4, <1>5

\* The name is in the file: the player goes on from its points.
LEMMA KnownKeeps ==
    ASSUME RankInv, NEW p \in Player, p \notin nodes, NEW first \in DOMAIN playerDat,
           playerDat[first].szName = p, nodes' = nodes \cup {p},
           place' = [place EXCEPT ![p] = first],
           nScore' = [nScore EXCEPT ![p] = playerDat[first].nScore],
           UNCHANGED <<playerDat, bListSysops, elapsed, listVars>>
    PROVE  RankInv'
<1>. USE DEF RankInv
<1>1. first \in 1 .. Len(playerDat) /\ Len(playerDat) <= MaxRecords /\ Len(playerDat) \in Nat
      /\ playerDat[first] \in PlayerRecord
  BY DEF FileInv
<1>2. first \in 0 .. MaxRecords /\ first # 0
  <2>1. MaxRecords \in Nat
    BY RankingIs
  <2> QED BY <1>1, <2>1
<1>3. playerDat[first].nScore \in 0 .. MaxPoints
  BY <1>1, RecordIs
<1>4. /\ place \in [Player -> 0 .. MaxRecords] /\ nScore \in [Player -> 0 .. MaxPoints]
      /\ nodes \subseteq Player
  BY DEF FileInv
<1>5. /\ place' \in [Player -> 0 .. MaxRecords] /\ nScore' \in [Player -> 0 .. MaxPoints]
      /\ nodes' \subseteq Player
  BY <1>2, <1>3, <1>4
<1>6. \A q \in nodes' : place'[q] # 0
  BY <1>2, <1>4 DEF FileInv
<1>7. \A q \in Player \ nodes' : nScore'[q] = 0
  BY <1>4 DEF FileInv
<1>8. playerDat' # <<>>
  BY <1>1
<1>9. FileInv'
  BY <1>5, <1>6, <1>7, <1>8 DEF FileInv, PlayerRecord
<1>10. NamesOnce'
  <2>1. ASSUME NEW i \in DOMAIN playerDat, playerDat[i].szName \in nodes'
        PROVE  playerDat[i].nScore <= nScore'[playerDat[i].szName]
    <3>1. CASE playerDat[i].szName = p
      <4>1. i = first
        BY <3>1 DEF NamesOnce
      <4>2. nScore'[p] = playerDat[first].nScore
        BY <1>4
      <4> QED BY <1>3, <3>1, <4>1, <4>2
    <3>2. CASE playerDat[i].szName # p
      <4>1. playerDat[i].szName \in nodes
        BY <2>1, <3>2
      <4>2. nScore'[playerDat[i].szName] = nScore[playerDat[i].szName]
        BY <1>4, <3>2, <4>1
      <4> QED BY <4>1, <4>2 DEF NamesOnce
    <3> QED BY <3>1, <3>2
  <2> QED BY <2>1 DEF NamesOnce
<1>11. ListKept'
  <2>1. ASSUME ofThisQuestion, NEW k \in DOMAIN rankedRecords,
               rankedRecords[k].szName \notin rankedLow
        PROVE  nScore'[rankedRecords[k].szName] <= rankedRecords[k].nScore
    <3>1. CASE rankedRecords[k].szName = p
      BY <1>4, <2>1, <3>1 DEF ListKept
    <3>2. CASE rankedRecords[k].szName # p
      <4>1. rankedRecords[k].szName \in Player
        BY <2>1 DEF ListKept
      <4>2. nScore'[rankedRecords[k].szName] = nScore[rankedRecords[k].szName]
        BY <1>4, <3>2, <4>1
      <4> QED BY <2>1, <4>2 DEF ListKept
    <3> QED BY <3>1, <3>2
  <2> QED BY <2>1 DEF ListKept, listVars
<1>12. ListTypes'
  BY DEF ListTypes, listVars, PlayerRecord
<1> QED BY <1>9, <1>10, <1>11, <1>12

\* The name is not there: the player has a new record and no points.
LEMMA NewKeeps ==
    ASSUME RankInv, NEW p \in Player, p \notin nodes, nodes' = nodes \cup {p},
           \A i \in DOMAIN playerDat : playerDat[i].szName # p, Len(playerDat) < MaxRecords,
           playerDat' = Append(playerDat, [szName |-> p, nScore |-> 0]),
           place' = [place EXCEPT ![p] = Len(playerDat) + 1],
           UNCHANGED <<nScore, bListSysops, elapsed, listVars>>
    PROVE  RankInv'
<1>. USE DEF RankInv
<1>. DEFINE n == Len(playerDat)
            new == [szName |-> p, nScore |-> 0]
<1>1. playerDat \in Seq(PlayerRecord) /\ n \in Nat /\ DOMAIN playerDat = 1 .. n /\ n < MaxRecords
  BY DEF FileInv
<1>2. MaxRecords \in Nat /\ MaxPoints \in Nat
  BY RankingIs
<1>3. new \in PlayerRecord
  BY <1>2 DEF PlayerRecord
<1>4. /\ playerDat' \in Seq(PlayerRecord) /\ Len(playerDat') = n + 1
      /\ DOMAIN playerDat' = 1 .. n + 1 /\ playerDat'[n + 1] = new
      /\ \A i \in 1 .. n : playerDat'[i] = playerDat[i]
  <2>1. playerDat' = Append(playerDat, new)
    OBVIOUS
  <2>. HIDE DEF new
  <2>2. Append(playerDat, new) \in Seq(PlayerRecord)
    BY <1>1, <1>3
  <2>3. Len(Append(playerDat, new)) = n + 1
    BY <1>1, <1>3
  <2>4. DOMAIN Append(playerDat, new) = 1 .. n + 1
    BY <1>1, <1>3
  <2>5. Append(playerDat, new)[n + 1] = new /\ \A i \in 1 .. n : Append(playerDat, new)[i] = playerDat[i]
    BY <1>1, <1>3
  <2> QED BY <2>1, <2>2, <2>3, <2>4, <2>5
<1>5. n + 1 <= MaxRecords /\ n + 1 \in 0 .. MaxRecords /\ n + 1 # 0
  BY <1>1, <1>2
<1>6. place \in [Player -> 0 .. MaxRecords] /\ nScore \in [Player -> 0 .. MaxPoints] /\ nodes \subseteq Player
  BY DEF FileInv
<1>7. place' \in [Player -> 0 .. MaxRecords] /\ nodes' \subseteq Player
      /\ (\A q \in nodes' : place'[q] # 0) /\ playerDat' # <<>>
  BY <1>4, <1>5, <1>6 DEF FileInv
<1>8. \A i \in 1 .. n + 1 : i \in 1 .. n \/ i = n + 1
  BY <1>1
<1>9. FileInv'
  <2>1. \A q \in Player \ nodes' : nScore'[q] = 0
    BY DEF FileInv
  <2>2. Len(playerDat') <= MaxRecords
    BY <1>4, <1>5
  <2>3. nScore' \in [Player -> 0 .. MaxPoints]
    BY <1>6
  <2> QED BY <1>4, <1>7, <2>1, <2>2, <2>3 DEF FileInv, PlayerRecord
<1>10. nScore[p] = 0
  BY DEF FileInv
<1>11. NamesOnce'
  <2>1. ASSUME NEW i \in 1 .. n + 1, NEW j \in 1 .. n + 1, playerDat'[i].szName \in Player,
               playerDat'[i].szName = playerDat'[j].szName
        PROVE  i = j
    BY <1>1, <1>4, <1>8, <2>1 DEF NamesOnce
  <2>2. ASSUME NEW i \in 1 .. n + 1, playerDat'[i].szName \in nodes'
        PROVE  playerDat'[i].nScore <= nScore[playerDat'[i].szName]
    <3>1. CASE i = n + 1
      <4>1. playerDat'[i].szName = p /\ playerDat'[i].nScore = 0
        BY <1>4, <3>1
      <4>2. 0 <= 0
        OBVIOUS
      <4> QED BY <1>10, <4>1, <4>2
    <3>2. CASE i \in 1 .. n
      <4>1. playerDat'[i] = playerDat[i] /\ playerDat[i].szName \in nodes
        BY <1>1, <1>4, <2>2, <3>2
      <4> QED BY <1>1, <3>2, <4>1 DEF NamesOnce
    <3> QED BY <1>8, <3>1, <3>2
  <2> QED BY <1>4, <2>1, <2>2 DEF NamesOnce
<1>12. ListKept'
  <2>1. ASSUME ofThisQuestion, NEW k \in DOMAIN rankedRecords, NEW i \in 1 .. n + 1,
               rankedRecords[k].szName \notin rankedLow,
               playerDat'[i].szName = rankedRecords[k].szName
        PROVE  playerDat'[i].nScore <= rankedRecords[k].nScore
    <3>1. CASE i = n + 1
      <4>1. playerDat'[i].nScore = 0
        BY <1>4, <3>1
      <4>2. rankedRecords[k] \in PlayerRecord
        BY DEF ListTypes
      <4>3. rankedRecords[k].nScore \in 0 .. MaxPoints
        BY <4>2, RecordIs
      <4> QED BY <4>1, <4>3
    <3>2. CASE i \in 1 .. n
      BY <1>1, <1>4, <2>1, <3>2 DEF ListKept
    <3> QED BY <1>8, <3>1, <3>2
  <2> QED BY <1>4, <2>1 DEF ListKept, listVars
<1>13. ListTypes'
  BY DEF ListTypes, listVars, PlayerRecord
<1> QED BY <1>9, <1>11, <1>12, <1>13

LEMMA EnterKeeps == ASSUME RankInv, NEW p \in Player, EnterGame(p) PROVE RankInv'
<1>. DEFINE known == {i \in DOMAIN playerDat : playerDat[i].szName = p}
<1>1. p \notin nodes /\ nodes' = nodes \cup {p} /\ UNCHANGED <<bListSysops, elapsed, listVars>>
  BY DEF EnterGame, nodes
<1>2. CASE /\ known # {} /\ place' = [place EXCEPT ![p] = Min(known)]
           /\ nScore' = [nScore EXCEPT ![p] = playerDat[Min(known)].nScore] /\ UNCHANGED playerDat
  <2>1. known \subseteq Nat
    BY DEF RankInv, FileInv
  <2>2. Min(known) \in known
    <3>. HIDE DEF known
    <3> QED BY <1>2, <2>1, MinIs
  <2> QED BY <1>1, <1>2, <2>2, KnownKeeps
<1>3. CASE /\ known = {} /\ Len(playerDat) < MaxRecords
           /\ playerDat' = Append(playerDat, [szName |-> p, nScore |-> 0])
           /\ place' = [place EXCEPT ![p] = Len(playerDat) + 1] /\ UNCHANGED nScore
  <2>1. \A i \in DOMAIN playerDat : playerDat[i].szName # p
    BY <1>3
  <2> QED BY <1>1, <1>3, <2>1, NewKeeps
<1> QED BY <1>2, <1>3 DEF EnterGame

LEMMA TimesAre == ASSUME RankInv PROVE ahead \in Int /\ elapsed \in Int
<1>1. Wrap \in Nat
  BY RankingIs
<1>2. ahead \in 0 .. Wrap - 1 /\ elapsed \in 0 .. 2
  BY DEF RankInv, ListTypes
<1> QED BY <1>1, <1>2

LEMMA LeaveKeeps ==
    ASSUME RankInv, NEW p \in Player, LeaveGame(p)
    PROVE  RankInv' /\ (rankedRecords' = rankedRecords \/ rankedRecords' = <<>>)
<1>. USE DEF RankInv
<1>. DEFINE n == place[p]
            saved == [szName |-> p, nScore |-> nScore[p]]
            file == [i \in 1 .. n |-> IF i = n THEN saved ELSE Hole]
<1>1. /\ p \in nodes /\ nodes' = nodes \ {p} /\ playerDat' = file
      /\ place' = [place EXCEPT ![p] = 0] /\ nScore' = [nScore EXCEPT ![p] = 0]
      /\ UNCHANGED bListSysops
  BY DEF LeaveGame, nodes
<1>2. \/ UNCHANGED <<elapsed, listVars>>
      \/ /\ elapsed' = 0 /\ ahead' \in 0 .. Wrap - 1
         /\ rankedRecords' = <<>> /\ ofThisQuestion' = FALSE /\ rankedLow' = {}
  BY DEF LeaveGame
<1>3. /\ place \in [Player -> 0 .. MaxRecords] /\ nScore \in [Player -> 0 .. MaxPoints]
      /\ nodes \subseteq Player /\ n # 0 /\ nScore[p] \in 0 .. MaxPoints
      /\ n \in 0 .. MaxRecords /\ MaxRecords \in Nat /\ MaxPoints \in Nat
  BY <1>1, RankingIs DEF FileInv
<1>4. n \in Nat /\ n <= MaxRecords /\ n \in 1 .. n /\ 0 \in 0 .. MaxRecords /\ 0 \in 0 .. MaxPoints
  <2>. HIDE DEF n
  <2> QED BY <1>3
<1>5. saved \in PlayerRecord /\ Hole \in PlayerRecord
  BY <1>3 DEF PlayerRecord
<1>6. /\ \A i \in 1 .. n : playerDat'[i] = IF i = n THEN saved ELSE Hole
      /\ playerDat' \in Seq(PlayerRecord) /\ Len(playerDat') = n /\ DOMAIN playerDat' = 1 .. n
  <2>. HIDE DEF saved, n
  <2>1. playerDat' \in [1 .. n -> PlayerRecord]
    BY <1>1, <1>5
  <2>2. playerDat' \in Seq(PlayerRecord) /\ Len(playerDat') = n
    BY <1>4, <2>1
  <2> QED BY <1>1, <2>1, <2>2
<1>7. \A i \in 1 .. n : playerDat'[i].szName \in Player => i = n /\ playerDat'[i].szName = p
  <2>1. Hole.szName \notin Player
    BY RankingIs DEF Hole
  <2> QED BY <1>6, <2>1
<1>8. FileInv'
  <2>1. place' \in [Player -> 0 .. MaxRecords] /\ nScore' \in [Player -> 0 .. MaxPoints]
        /\ nodes' \subseteq Player
    BY <1>1, <1>3, <1>4
  <2>2. \A q \in nodes' : place'[q] # 0
    BY <1>1, <1>3 DEF FileInv
  <2>3. \A q \in Player \ nodes' : nScore'[q] = 0
    BY <1>1, <1>3 DEF FileInv
  <2>4. playerDat' # <<>>
    BY <1>4, <1>6
  <2> QED BY <1>4, <1>6, <2>1, <2>2, <2>3, <2>4 DEF FileInv, PlayerRecord
<1>9. NamesOnce'
  <2>1. ASSUME NEW i \in 1 .. n, NEW j \in 1 .. n, playerDat'[i].szName \in Player,
               playerDat'[i].szName = playerDat'[j].szName
        PROVE  i = j
    BY <1>7, <2>1
  <2>2. \A i \in 1 .. n : playerDat'[i].szName \notin nodes'
    BY <1>1, <1>3, <1>7
  <2> QED BY <1>6, <2>1, <2>2 DEF NamesOnce
<1>10. CASE UNCHANGED <<elapsed, listVars>>
  <2>1. ASSUME ofThisQuestion, NEW k \in DOMAIN rankedRecords,
               rankedRecords[k].szName \notin rankedLow
        PROVE  /\ nScore'[rankedRecords[k].szName] <= rankedRecords[k].nScore
               /\ \A i \in 1 .. n : playerDat'[i].szName = rankedRecords[k].szName =>
                      playerDat'[i].nScore <= rankedRecords[k].nScore
    <3>1. rankedRecords[k].szName \in Player /\ nScore[rankedRecords[k].szName] <= rankedRecords[k].nScore
      BY <2>1 DEF ListKept
    <3>2. rankedRecords[k].nScore \in 0 .. MaxPoints
      <4>1. rankedRecords[k] \in PlayerRecord
        BY DEF ListTypes
      <4> QED BY <4>1, RecordIs
    <3>3. nScore'[rankedRecords[k].szName] <= rankedRecords[k].nScore
      <4>1. CASE rankedRecords[k].szName = p
        <5>1. nScore'[p] = 0
          BY <1>1, <1>3
        <5> QED BY <3>2, <4>1, <5>1
      <4>2. CASE rankedRecords[k].szName # p
        <5>1. nScore'[rankedRecords[k].szName] = nScore[rankedRecords[k].szName]
          BY <1>1, <1>3, <3>1, <4>2
        <5> QED BY <3>1, <5>1
      <4> QED BY <4>1, <4>2
    <3>4. ASSUME NEW i \in 1 .. n, playerDat'[i].szName = rankedRecords[k].szName
          PROVE  playerDat'[i].nScore <= rankedRecords[k].nScore
      <4>1. i = n /\ rankedRecords[k].szName = p
        BY <1>7, <3>1, <3>4
      <4>2. playerDat'[i].nScore = nScore[p]
        BY <1>6, <4>1
      <4> QED BY <3>1, <4>1, <4>2
    <3> QED BY <3>3, <3>4
  <2>2. ListKept'
    BY <1>6, <1>10, <2>1 DEF ListKept, listVars
  <2>3. ListTypes'
    BY <1>1, <1>10 DEF ListTypes, listVars, PlayerRecord
  <2>4. rankedRecords' = rankedRecords
    BY <1>10 DEF listVars
  <2> QED BY <1>8, <1>9, <2>2, <2>3, <2>4
<1>11. CASE /\ elapsed' = 0 /\ ahead' \in 0 .. Wrap - 1
            /\ rankedRecords' = <<>> /\ ofThisQuestion' = FALSE /\ rankedLow' = {}
  <2>1. ListKept'
    BY <1>11 DEF ListKept
  <2>2. <<>> \in Seq(PlayerRecord) /\ Len(<<>>) = 0
    OBVIOUS
  <2>3. 0 <= Top /\ 0 \in 0 .. 2
    <3>1. Top \in Nat
      BY RankingIs
    <3> QED BY <3>1
  <2>4. ListTypes'
    BY <1>1, <1>11, <2>2, <2>3 DEF ListTypes, PlayerRecord
  <2> QED BY <1>8, <1>9, <1>11, <2>1, <2>4
<1> QED BY <1>2, <1>10, <1>11

\* An answer makes points, and is the end of the question.
LEMMA AnsweredKeeps ==
    ASSUME RankInv, NEW p \in Player, Answered(p)
    PROVE  RankInv' /\ rankedRecords' = rankedRecords
<1>. USE DEF RankInv
<1>1. UNCHANGED <<playerVars, bListSysops, rankedRecords>>
  BY DEF Answered
<1>2. PICK n \in Points : nScore[p] + n <= MaxPoints /\ nScore' = [nScore EXCEPT ![p] = @ + n]
  BY DEF Answered, Scores
<1>3. p \in nodes /\ nScore \in [Player -> 0 .. MaxPoints] /\ nScore[p] \in 0 .. MaxPoints
      /\ n \in Nat /\ MaxPoints \in Nat
  BY RankingIs DEF Answered, Scores, FileInv, nodes
<1>4. nScore[p] + n \in 0 .. MaxPoints
  BY <1>2, <1>3
<1>5. nScore' \in [Player -> 0 .. MaxPoints]
  BY <1>2, <1>3, <1>4
<1>6. \A q \in Player : nScore[q] <= nScore'[q] /\ nScore[q] \in Nat /\ nScore'[q] \in Nat
  <2>1. nScore'[p] = nScore[p] + n
    BY <1>2, <1>3
  <2>2. nScore[p] <= nScore[p] + n
    BY <1>3
  <2>3. ASSUME NEW q \in Player PROVE nScore[q] <= nScore'[q]
    <3>1. CASE q = p
      BY <2>1, <2>2, <3>1
    <3>2. CASE q # p
      <4>1. nScore'[q] = nScore[q] /\ nScore[q] \in Nat
        BY <1>2, <1>3, <3>2
      <4> QED BY <4>1
    <3> QED BY <3>1, <3>2
  <2> QED BY <1>3, <1>5, <2>3
<1>7. FileInv'
  <2>1. \A q \in Player \ nodes : nScore'[q] = 0
    BY <1>2, <1>3 DEF FileInv
  <2> QED BY <1>1, <1>5, <2>1 DEF FileInv, playerVars, nodes, PlayerRecord
<1>8. NamesOnce'
  <2>1. ASSUME NEW i \in DOMAIN playerDat, playerDat[i].szName \in nodes
        PROVE  playerDat[i].nScore <= nScore'[playerDat[i].szName]
    <3>1. playerDat[i].szName \in Player /\ playerDat[i].nScore <= nScore[playerDat[i].szName]
          /\ playerDat[i] \in PlayerRecord
      BY <2>1 DEF FileInv, NamesOnce
    <3>2. playerDat[i].nScore \in Nat
      <4>1. playerDat[i].nScore \in 0 .. MaxPoints
        BY <3>1, RecordIs
      <4> QED BY <1>3, <4>1
    <3>3. nScore[playerDat[i].szName] <= nScore'[playerDat[i].szName]
          /\ nScore[playerDat[i].szName] \in Nat /\ nScore'[playerDat[i].szName] \in Nat
      BY <1>6, <3>1
    <3> QED BY <3>1, <3>2, <3>3
  <2> QED BY <1>1, <2>1 DEF NamesOnce, playerVars, nodes
<1>9. elapsed' = 0 /\ ahead' = (ahead + elapsed) % Wrap /\ ofThisQuestion' = FALSE
      /\ rankedLow' = {}
  BY DEF Answered, AskedAfter
<1>10. ListKept'
  BY <1>9 DEF ListKept
<1>11. ListTypes'
  <2>1. ahead + elapsed \in Int
    BY TimesAre
  <2>2. ahead' \in 0 .. Wrap - 1
    BY <1>9, <2>1, Wrapped
  <2>3. elapsed' \in 0 .. 2
    BY <1>9
  <2> QED BY <1>1, <1>9, <2>2, <2>3 DEF ListTypes, PlayerRecord
<1> QED BY <1>1, <1>7, <1>8, <1>10, <1>11

\* What neither brings a node nor points, but moves the time at most.
LEMMA TimeKeeps ==
    ASSUME RankInv, nodes' = nodes, UNCHANGED <<playerDat, place, nScore, rankedRecords>>,
           bListSysops' \in BOOLEAN,
           (ofThisQuestion' = FALSE /\ rankedLow' = {}) \/ UNCHANGED <<ofThisQuestion, rankedLow>>,
           elapsed' \in 0 .. 2, ahead' \in 0 .. Wrap - 1
    PROVE  RankInv'
<1>. USE DEF RankInv
<1>1. FileInv'
  BY DEF FileInv, PlayerRecord
<1>2. NamesOnce'
  BY DEF NamesOnce
<1>3. ListKept'
  BY DEF ListKept
<1>4. ListTypes'
  BY DEF ListTypes, PlayerRecord
<1> QED BY <1>1, <1>2, <1>3, <1>4

LEMMA SkipKeeps == ASSUME RankInv, requestSkip PROVE RankInv' /\ rankedRecords' = rankedRecords
<1>1. UNCHANGED <<playerVars, nScore, bListSysops, rankedRecords, ofThisQuestion, rankedLow>>
      /\ elapsed < 2 /\ elapsed' = elapsed + 1 /\ ahead' = (ahead - 1) % Wrap
  BY DEF requestSkip
<1>2. elapsed \in 0 .. 2 /\ ahead \in 0 .. Wrap - 1 /\ bListSysops' \in BOOLEAN
  BY <1>1 DEF RankInv, ListTypes
<1>3. elapsed' \in 0 .. 2
  BY <1>1, <1>2
<1>4. ahead' \in 0 .. Wrap - 1
  <2>1. ahead - 1 \in Int
    BY TimesAre
  <2> QED BY <1>1, <2>1, Wrapped
<1>5. nodes' = nodes /\ UNCHANGED <<playerDat, place>>
  BY <1>1 DEF playerVars, nodes
<1> QED BY <1>1, <1>2, <1>3, <1>4, <1>5, TimeKeeps

LEMMA HalfKeeps == ASSUME RankInv, HalfTime PROVE RankInv' /\ rankedRecords' = rankedRecords
<1>1. UNCHANGED <<playerVars, nScore, bListSysops, rankedRecords>>
  BY DEF HalfTime
<1>2. elapsed \in 0 .. 2 /\ ahead \in 0 .. Wrap - 1 /\ bListSysops' \in BOOLEAN
  BY <1>1 DEF RankInv, ListTypes
<1>3. \/ elapsed' = 1 /\ ahead' = ahead /\ UNCHANGED <<ofThisQuestion, rankedLow>>
      \/ /\ elapsed' = 0 /\ ahead' = (ahead + (elapsed + 1)) % Wrap
         /\ ofThisQuestion' = FALSE /\ rankedLow' = {}
  BY DEF HalfTime, AskedAfter
<1>4. ahead + (elapsed + 1) \in Int
  BY TimesAre
<1>5. (ahead + (elapsed + 1)) % Wrap \in 0 .. Wrap - 1
  BY <1>4, Wrapped
<1>6. elapsed' \in 0 .. 2 /\ ahead' \in 0 .. Wrap - 1
      /\ ((ofThisQuestion' = FALSE /\ rankedLow' = {}) \/ UNCHANGED <<ofThisQuestion, rankedLow>>)
  <2>1. 0 \in 0 .. 2 /\ 1 \in 0 .. 2
    OBVIOUS
  <2> QED BY <1>2, <1>3, <1>5, <2>1
<1>7. nodes' = nodes /\ UNCHANGED <<playerDat, place>>
  BY <1>1 DEF playerVars, nodes
<1> QED BY <1>1, <1>2, <1>6, <1>7, TimeKeeps

LEMMA ToggleKeeps == ASSUME RankInv, ToggleSysops PROVE RankInv' /\ rankedRecords' = rankedRecords
<1>1. UNCHANGED <<playerVars, nScore, elapsed, listVars>> /\ bListSysops' = ~bListSysops
  BY DEF ToggleSysops
<1>2. elapsed' \in 0 .. 2 /\ ahead' \in 0 .. Wrap - 1 /\ bListSysops' \in BOOLEAN
      /\ rankedRecords' = rankedRecords /\ UNCHANGED <<ofThisQuestion, rankedLow>>
  BY <1>1 DEF RankInv, ListTypes, listVars
<1>3. nodes' = nodes /\ UNCHANGED <<playerDat, place>>
  BY <1>1 DEF playerVars, nodes
<1> QED BY <1>1, <1>2, <1>3, TimeKeeps

\* To the sysop menu, back from it, or past the exit prompt: the nodes stay.
LEMMA MovesKeep ==
    ASSUME RankInv, NEW p \in Player, EnterMenu(p) \/ ReturnToGame(p) \/ ExitPrompt(p)
    PROVE  RankInv' /\ rankedRecords' = rankedRecords
<1>1. UNCHANGED <<playerDat, place, nScore, bListSysops, elapsed, listVars>>
  BY DEF EnterMenu, ReturnToGame, ExitPrompt
<1>2. nodes' = nodes
  BY DEF EnterMenu, ReturnToGame, ExitPrompt, nodes
<1>3. elapsed' \in 0 .. 2 /\ ahead' \in 0 .. Wrap - 1 /\ bListSysops' \in BOOLEAN
      /\ UNCHANGED <<rankedRecords, ofThisQuestion, rankedLow>>
  BY <1>1 DEF RankInv, ListTypes, listVars
<1> QED BY <1>1, <1>2, <1>3, TimeKeeps

LEMMA RankStep ==
    ASSUME RankInv, RankNext
    PROVE  RankInv' /\ rankedRecords' \in {rankedRecords, <<>>, Sorted}
<1>1. CASE displayScores
  BY <1>1, ShownKeeps
<1>2. CASE requestSkip
  BY <1>2, SkipKeeps
<1>3. CASE HalfTime
  BY <1>3, HalfKeeps
<1>4. CASE ToggleSysops
  BY <1>4, ToggleKeeps
<1>5. ASSUME NEW p \in Player, EnterGame(p)
      PROVE  RankInv' /\ rankedRecords' = rankedRecords
  <2>1. UNCHANGED listVars
    BY <1>5 DEF EnterGame
  <2> QED BY <1>5, <2>1, EnterKeeps DEF listVars
<1>6. ASSUME NEW p \in Player, LeaveGame(p)
      PROVE  RankInv' /\ (rankedRecords' = rankedRecords \/ rankedRecords' = <<>>)
  BY <1>6, LeaveKeeps
<1>7. ASSUME NEW p \in Player, Answered(p)
      PROVE  RankInv' /\ rankedRecords' = rankedRecords
  BY <1>7, AnsweredKeeps
<1>8. ASSUME NEW p \in Player, EnterMenu(p) \/ ReturnToGame(p) \/ ExitPrompt(p)
      PROVE  RankInv' /\ rankedRecords' = rankedRecords
  BY <1>8, MovesKeep
<1> QED BY <1>1, <1>2, <1>3, <1>4, <1>5, <1>6, <1>7, <1>8 DEF RankNext

\* Where the nodes are.
WhereInv == inGame \subseteq Player /\ inMenu \subseteq Sysops /\ exiting \subseteq Player

LEMMA WhereStep == ASSUME WhereInv, RankNext PROVE WhereInv'
<1>1. CASE displayScores \/ requestSkip \/ HalfTime \/ ToggleSysops
  <2>1. UNCHANGED playerVars
    BY <1>1 DEF displayScores, requestSkip, HalfTime, ToggleSysops
  <2> QED BY <2>1 DEF WhereInv, playerVars
<1>2. ASSUME NEW p \in Player, EnterGame(p) PROVE WhereInv'
  BY <1>2 DEF WhereInv, EnterGame
<1>3. ASSUME NEW p \in Player, EnterMenu(p) \/ ReturnToGame(p) \/ ExitPrompt(p) PROVE WhereInv'
  BY <1>3, RankingIs DEF WhereInv, EnterMenu, ReturnToGame, ExitPrompt
<1>4. ASSUME NEW p \in Player, LeaveGame(p) PROVE WhereInv'
  BY <1>4 DEF WhereInv, LeaveGame
<1>5. ASSUME NEW p \in Player, Answered(p) PROVE WhereInv'
  BY <1>5 DEF WhereInv, Answered, playerVars
<1> QED BY <1>1, <1>2, <1>3, <1>4, <1>5 DEF RankNext

LEMMA WhereInvariant == Spec => []WhereInv
<1>1. DisplayInit => WhereInv
  BY DEF DisplayInit, RankInit, WhereInv
<1>2. WhereInv /\ [DisplayNext]_displayVars => WhereInv'
  <2>1. SUFFICES ASSUME WhereInv, [DisplayNext]_displayVars PROVE WhereInv'
    OBVIOUS
  <2>2. ASSUME UNCHANGED rankVars PROVE WhereInv'
    BY <2>1, <2>2 DEF WhereInv, rankVars
  <2>3. CASE MoveRanking
    BY <2>1, <2>3, WhereStep DEF MoveRanking
  <2> QED BY <2>1, <2>2, <2>3 DEF DisplayNext, MoveClue, MoveCommands, MoveScreen, displayVars
<1> QED BY <1>1, <1>2, PTL DEF Spec

LEMMA RankInvariant == Spec => []RankInv
<1>1. DisplayInit => RankInv
  BY RankInitial DEF DisplayInit
<1>2. RankInv /\ [DisplayNext]_displayVars => RankInv'
  <2>1. SUFFICES ASSUME RankInv, [DisplayNext]_displayVars PROVE RankInv'
    OBVIOUS
  <2>2. ASSUME UNCHANGED rankVars PROVE RankInv'
    BY <2>1, <2>2 DEF RankInv, FileInv, NamesOnce, ListKept, ListTypes, nodes, rankVars, PlayerRecord
  <2>3. CASE MoveRanking
    BY <2>1, <2>3, RankStep DEF MoveRanking
  <2> QED BY <2>1, <2>2, <2>3 DEF DisplayNext, MoveClue, MoveCommands, MoveScreen, displayVars
<1> QED BY <1>1, <1>2, PTL DEF Spec

\* The list is of those with the most points in the file and in the game when it is made,
\* and until the next question it is behind no player in the game, but for those who had
\* made more than their records while they were in the sysop menu (player.cpp:170).
THEOREM ListIsOfTheBest == Spec => ListsTheBest
<1>. DEFINE Good == /\ rankedRecords' # rankedRecords /\ rankedRecords' # <<>> => MadeRight
                    /\ ListIsCurrent'
<1>1. RankInv => ListIsCurrent
  <2>1. SUFFICES ASSUME RankInv, ofThisQuestion, NEW k \in DOMAIN rankedRecords,
                        rankedRecords[k].szName \in inGame \ rankedLow
                 PROVE  rankedRecords[k].nScore >= nScore[rankedRecords[k].szName]
    BY DEF ListIsCurrent
  <2>2. nScore[rankedRecords[k].szName] <= rankedRecords[k].nScore
    BY <2>1 DEF RankInv, ListKept
  <2> QED BY <2>2
<1>2. RankInv' => ListIsCurrent'
  BY <1>1, PTL
<1>3. RankInv /\ RankInv' /\ [DisplayNext]_displayVars => [Good]_rankVars
  <2>1. SUFFICES ASSUME RankInv, RankInv', [DisplayNext]_displayVars, ~UNCHANGED rankVars
                 PROVE  Good
    OBVIOUS
  <2>2. RankNext
    BY <2>1 DEF DisplayNext, MoveRanking, MoveClue, MoveCommands, MoveScreen, displayVars
  <2>3. rankedRecords' \in {rankedRecords, <<>>, Sorted}
    BY <2>1, <2>2, RankStep
  <2>4. CASE rankedRecords' = Sorted
    BY <1>2, <2>1, <2>4, SortedMadeRight DEF RankInv
  <2>5. CASE rankedRecords' \in {rankedRecords, <<>>}
    BY <1>2, <2>1, <2>5
  <2> QED BY <2>3, <2>4, <2>5
<1> QED BY <1>3, RankInvariant, PTL DEF Spec, ListsTheBest

-----------------------------------------------------------------------------
(* Types                                                                   *)

Effects == {"players", "skip", "help", "tell", "submit", "correction", "scores", "exit", "sysop",
            "menu", "checkreg"}

LEMMA CommandsAre == ASSUME NEW word \in CommandWords PROVE getCommand(word) \in Effects
<1>1. \E command \in DOMAIN Names : word \in Names[command]
  BY DEF CommandWords
<1>2. getCommand(word) \in DOMAIN Names
  BY <1>1 DEF getCommand
<1> QED BY <1>2 DEF Names, Effects

LEMMA SomethingAsked ==
    ASSUME NEW a, NEW b, NEW c
    PROVE  [from |-> a, word |-> b, param |-> c] # <<>>
<1>1. DOMAIN [from |-> a, word |-> b, param |-> c] # DOMAIN <<>>
  <2>1. "from" \in DOMAIN [from |-> a, word |-> b, param |-> c]
    OBVIOUS
  <2>2. DOMAIN <<>> = {}
    OBVIOUS
  <2> QED BY <2>1, <2>2
<1> QED BY <1>1

\* What somebody is sent because of a line: of a kind that there is.
Sendable(sent) == DOMAIN sent = Node /\ \A n \in Node : sent[n] = Silence \/ sent[n].kind \in Kinds

LEMMA ToSendable ==
    ASSUME NEW n, NEW kind \in Kinds, NEW text
    PROVE  Sendable(To(n, Said(kind, text))) /\ Sendable(ToAll(Said(kind, text)))
BY DEF Sendable, To, ToAll, Said, Nothing, Kinds

LEMMA TellSends == ASSUME NEW n, NEW param, TellCommand(n, param) PROVE Sendable(heard')
<1>1. {"syntax", "several", "sent", "told"} \subseteq Kinds
  BY DEF Kinds
<1>2. \A node, text, m, other : Sendable([To(n, Said("sent", other)) EXCEPT ![node] = Said("told", text)])
  BY <1>1 DEF Sendable, To, Said, Nothing
<1>3. \/ heard' \in {To(n, Said("syntax", <<>>)), To(n, Said("several", <<>>))}
      \/ \E node, text, other : heard' = [To(n, Said("sent", other)) EXCEPT ![node] = Said("told", text)]
  BY DEF TellCommand
<1> QED BY <1>1, <1>2, <1>3, ToSendable

LEMMA EffectSends ==
    ASSUME NEW n, NEW command \in Effects, NEW param, DoEffect(n, command, param)
    PROVE  Sendable(heard')
<1>. DEFINE sent(kind, text) == heard' = To(n, Said(kind, text)) \/ heard' = ToAll(Said(kind, text))
<1>1. {"players", "alreadySkipped", "skips", "entry", "blank", "syntax", "several", "sent", "told",
       "scores", "screen", "refused", "registration", "thread"} \subseteq Kinds
  BY DEF Kinds
<1>2. ASSUME NEW kind \in Kinds, NEW text, sent(kind, text) PROVE Sendable(heard')
  BY <1>2, ToSendable
<1>. HIDE DEF sent
<1>3. CASE command = "skip"
  <2>1. sent("alreadySkipped", <<>>) \/ sent("skips", <<>>)
    BY <1>3 DEF DoEffect, SkipCommand, sent
  <2> QED BY <1>1, <1>2, <2>1
<1>4. CASE command = "players"
  <2>1. sent("players", listOnlinePlayers)
    BY <1>4 DEF DoEffect, sent
  <2> QED BY <1>1, <1>2, <2>1
<1>5. CASE command = "help"
  <2>1. sent("blank", <<>>) \/ sent("entry", param)
    BY <1>5 DEF DoEffect, HelpCommand, displayHlp, sent
  <2> QED BY <1>1, <1>2, <2>1
<1>6. CASE command = "tell"
  BY <1>6, TellSends DEF DoEffect
<1>7. CASE command \in {"submit", "correction"}
  <2>1. sent("entry", <<>>)
    BY <1>7 DEF DoEffect, sent
  <2> QED BY <1>1, <1>2, <2>1
<1>8. CASE command = "scores"
  <2>1. sent("scores", <<>>)
    BY <1>8 DEF DoEffect, sent
  <2> QED BY <1>1, <1>2, <2>1
<1>9. CASE command = "exit"
  <2>1. sent("thread", <<>>)
    BY <1>9 DEF DoEffect, sent
  <2> QED BY <1>1, <1>2, <2>1
<1>10. CASE command = "sysop"
  <2>1. sent("thread", <<>>) \/ sent("refused", <<>>)
    BY <1>10 DEF DoEffect, SysopCommand, sent
  <2> QED BY <1>1, <1>2, <2>1
<1>11. CASE command = "menu"
  <2>1. sent("screen", <<>>)
    BY <1>11 DEF DoEffect, sent
  <2> QED BY <1>1, <1>2, <2>1
<1>12. CASE command = "checkreg"
  <2>1. sent("registration", <<>>)
    BY <1>12 DEF DoEffect, sent
  <2> QED BY <1>1, <1>2, <2>1
<1> QED BY <1>3, <1>4, <1>5, <1>6, <1>7, <1>8, <1>9, <1>10, <1>11, <1>12 DEF Effects

LEMMA InputSends ==
    ASSUME NEW n, NEW word, NEW param, centralInput(n, word, param)
    PROVE  Sendable(heard')
<1>1. {"question", "won", "says"} \subseteq Kinds
  BY DEF Kinds
<1>2. \/ heard' \in {To(n, Said("question", <<>>)), ToAll(Said("won", <<>>)), ToAll(Said("says", param))}
      \/ word \in CommandWords /\ DoEffect(n, getCommand(word), param)
  BY DEF centralInput
<1>3. CASE word \in CommandWords /\ DoEffect(n, getCommand(word), param)
  BY <1>3, CommandsAre, EffectSends
<1> QED BY <1>1, <1>2, <1>3, ToSendable

LEMMA CommandsInitial == ASSUME CommandsInit PROVE CommandsTypeOK
BY DEF CommandsInit, CommandsTypeOK, Nothing

LEMMA CommandsStep == ASSUME CommandsTypeOK, CommandsNext PROVE CommandsTypeOK'
<1>1. CASE Taken
  BY <1>1 DEF Taken, CommandsTypeOK, Nothing
<1>2. ASSUME NEW n \in Node, NEW word \in CommandWords \cup OtherWords,
             NEW param \in Params \cup {<<>>}, centralInput(n, word, param)
      PROVE  CommandsTypeOK'
  <2>1. Sendable(heard') /\ szAlias' = szAlias
    BY <1>2, InputSends DEF centralInput
  <2>2. /\ typed'.from = n /\ typed'.word = word /\ typed'.param = param
        /\ n \in InGame
    BY <1>2 DEF centralInput
  <2>3. InGame' = InGame
    BY <2>1 DEF InGame
  <2> QED BY <2>1, <2>2, <2>3 DEF CommandsTypeOK, Sendable
<1> QED BY <1>1, <1>2 DEF CommandsNext

LEMMA ScreenStep == ASSUME ScreenTypeOK, ScreenNext PROVE ScreenTypeOK'
<1>1. CASE clearScreen
  BY <1>1 DEF clearScreen, ScreenTypeOK
<1>2. CASE AskHelp \/ ShowText \/ SendText
  <2>1. "what" \in DOMAIN asked'
    BY <1>2 DEF AskHelp, ShowText, SendText
  <2>2. DOMAIN <<>> = {}
    OBVIOUS
  <2>3. asked' # <<>>
    BY <2>1, <2>2
  <2> QED BY <2>3 DEF ScreenTypeOK
<1> QED BY <1>1, <1>2 DEF ScreenNext

\* What is shown has its types, whatever is asked, ranked, typed or displayed, and all
\* that players are sent is of a kind there is.
THEOREM DisplayTypes == Spec => []DisplayTypeOK
<1>1. DisplayInit => CommandsTypeOK /\ ScreenTypeOK
  BY CommandsInitial DEF DisplayInit, ScreenInit, ScreenTypeOK
<1>2. CommandsTypeOK /\ ScreenTypeOK /\ [DisplayNext]_displayVars => (CommandsTypeOK /\ ScreenTypeOK)'
  <2>1. ASSUME CommandsTypeOK, UNCHANGED commandVars PROVE CommandsTypeOK'
    BY <2>1 DEF CommandsTypeOK, commandVars, InGame
  <2>2. ASSUME ScreenTypeOK, UNCHANGED screenVars PROVE ScreenTypeOK'
    BY <2>2 DEF ScreenTypeOK, screenVars
  <2>3. [DisplayNext]_displayVars => /\ CommandsNext \/ UNCHANGED commandVars
                                     /\ ScreenNext \/ UNCHANGED screenVars
    BY DEF DisplayNext, MoveClue, MoveRanking, MoveCommands, MoveScreen, displayVars
  <2> QED BY <2>1, <2>2, <2>3, CommandsStep, ScreenStep
<1>3. ClueInv => ClueTypeOK
  BY DEF ClueInv, ClueOf, ClueTypeOK
<1>4. RankInv /\ WhereInv => RankTypeOK
  <2>1. ASSUME RankInv, NEW p \in nodes PROVE place[p] > 0
    <3>1. place[p] \in 0 .. MaxRecords /\ place[p] # 0
      BY <2>1 DEF RankInv, FileInv
    <3>2. MaxRecords \in Nat
      BY RankingIs
    <3> QED BY <3>1, <3>2
  <2> QED BY <2>1 DEF RankInv, WhereInv, FileInv, ListTypes, RankTypeOK
<1>5. ClueTypeOK /\ RankTypeOK /\ CommandsTypeOK /\ ScreenTypeOK => DisplayTypeOK
  BY DEF DisplayTypeOK
<1> QED BY <1>1, <1>2, <1>3, <1>4, <1>5, DisplayClue, RankInvariant, WhereInvariant, PTL DEF Spec

-----------------------------------------------------------------------------
(* Names in a line: TELL                                                   *)

LEMMA LowerIs ==
    /\ Blank \in Char /\ Lower(Blank) = Blank
    /\ \A c \in Char : Lower(c) \in Char
BY TextAssumption DEF TextAssumption

LEMMA FoldedIs ==
    ASSUME NEW s \in Seq(Char)
    PROVE  /\ Folded(s) \in Seq(Char) /\ Len(Folded(s)) = Len(s) /\ Len(s) \in Nat
           /\ DOMAIN s = 1 .. Len(s)
           /\ \A p \in 1 .. Len(s) : s[p] \in Char /\ Folded(s)[p] = Lower(s[p])
<1>1. Len(s) \in Nat /\ DOMAIN s = 1 .. Len(s) /\ \A p \in 1 .. Len(s) : s[p] \in Char
  OBVIOUS
<1>2. Folded(s) = [p \in 1 .. Len(s) |-> Lower(s[p])]
  BY <1>1 DEF Folded
<1>3. Folded(s) \in [1 .. Len(s) -> Char]
  BY <1>1, <1>2, LowerIs
<1>4. Folded(s) \in Seq(Char) /\ Len(Folded(s)) = Len(s)
  BY <1>1, <1>3
<1> QED BY <1>1, <1>2, <1>4

\* Two parts of two texts are the same but for case if their characters are.
LEMMA PartsSame ==
    ASSUME NEW s \in Seq(Char), NEW t \in Seq(Char), NEW p \in Nat \ {0}, NEW k \in Nat,
           p + k - 1 <= Len(s), k <= Len(t)
    PROVE  SubSeq(Folded(s), p, p + k - 1) = SubSeq(Folded(t), 1, k) <=>
               \A q \in 1 .. k : Lower(s[p + q - 1]) = Lower(t[q])
<1>. DEFINE a == SubSeq(Folded(s), p, p + k - 1)
            b == SubSeq(Folded(t), 1, k)
<1>1. Folded(s) \in Seq(Char) /\ Len(Folded(s)) = Len(s) /\ Len(s) \in Nat
      /\ \A i \in 1 .. Len(s) : Folded(s)[i] = Lower(s[i])
  BY FoldedIs
<1>2. Folded(t) \in Seq(Char) /\ Len(Folded(t)) = Len(t) /\ Len(t) \in Nat
      /\ \A i \in 1 .. Len(t) : Folded(t)[i] = Lower(t[i])
  BY FoldedIs
<1>3. \A i \in p .. p + k - 1 : i \in 1 .. Len(s)
  BY <1>1
<1>4. \A i \in 1 .. k : i \in 1 .. Len(t) /\ p + i - 1 \in 1 .. Len(s)
  BY <1>1, <1>2
<1>5. /\ a \in Seq(Char) /\ Len(a) = k
      /\ \A i \in 1 .. k : a[i] = Folded(s)[p + i - 1]
  <2>1. \A i \in p .. p + k - 1 : Folded(s)[i] \in Char
    BY <1>1, <1>3
  <2>2. p \in Int /\ p + k - 1 \in Int /\ (p + k - 1) - p + 1 = k /\ (~(p <= p + k - 1) => k = 0)
    OBVIOUS
  <2>3. /\ a \in Seq(Char) /\ Len(a) = IF p <= p + k - 1 THEN (p + k - 1) - p + 1 ELSE 0
        /\ \A i \in 1 .. (p + k - 1) - p + 1 : a[i] = Folded(s)[p + i - 1]
    BY <2>1, <2>2, SubSeqProperties
  <2>. HIDE DEF a
  <2> QED BY <2>2, <2>3
<1>6. /\ b \in Seq(Char) /\ Len(b) = k
      /\ \A i \in 1 .. k : b[i] = Folded(t)[i]
  <2>1. \A i \in 1 .. k : Folded(t)[i] \in Char
    BY <1>2, <1>4
  <2>2. 1 \in Int /\ k \in Int /\ k - 1 + 1 = k /\ (~(1 <= k) => k = 0) /\ \A i \in 1 .. k : 1 + i - 1 = i
    OBVIOUS
  <2>3. /\ b \in Seq(Char) /\ Len(b) = IF 1 <= k THEN k - 1 + 1 ELSE 0
        /\ \A i \in 1 .. k - 1 + 1 : b[i] = Folded(t)[1 + i - 1]
    BY <2>1, <2>2, SubSeqProperties
  <2>. HIDE DEF b
  <2> QED BY <2>2, <2>3
<1>. HIDE DEF a, b
<1>7. \A i \in 1 .. k : a[i] = Lower(s[p + i - 1]) /\ b[i] = Lower(t[i])
  BY <1>1, <1>2, <1>4, <1>5, <1>6
<1>8. ASSUME \A i \in 1 .. k : Lower(s[p + i - 1]) = Lower(t[i])
      PROVE  a = b
  <2>1. \A i \in 1 .. Len(a) : a[i] = b[i]
    BY <1>5, <1>7, <1>8
  <2> QED BY <1>5, <1>6, <2>1, SeqEqual
<1>9. ASSUME a = b PROVE \A i \in 1 .. k : Lower(s[p + i - 1]) = Lower(t[i])
  BY <1>7, <1>9
<1> QED BY <1>8, <1>9 DEF a, b

\* What two texts have in common is as long as possible.
LEMMA InCommonIs ==
    ASSUME NEW s \in Seq(Char), NEW t \in Seq(Char)
    PROVE  LET n == InCommon(s, t)
           IN  /\ n \in Nat /\ n <= Len(s) /\ n <= Len(t)
               /\ \A q \in 1 .. n : Lower(s[q]) = Lower(t[q])
               /\ \A k \in Nat : /\ k <= Len(s) /\ k <= Len(t)
                                 /\ \A q \in 1 .. k : Lower(s[q]) = Lower(t[q])
                                 => k <= n
<1>. DEFINE m == Min({Len(s), Len(t)})
            S == {k \in 0 .. m : SubSeq(Folded(s), 1, k) = SubSeq(Folded(t), 1, k)}
<1>1. m \in Nat /\ m <= Len(s) /\ m <= Len(t) /\ m \in {Len(s), Len(t)}
  <2>1. {Len(s), Len(t)} \subseteq Nat /\ {Len(s), Len(t)} # {}
    OBVIOUS
  <2>2. m \in {Len(s), Len(t)} /\ \A x \in {Len(s), Len(t)} : m <= x
    <3>. DEFINE L == {Len(s), Len(t)}
    <3>1. L \subseteq Nat /\ L # {}
      BY <2>1
    <3>2. Min(L) \in L /\ \A x \in L : Min(L) <= x
      <4>. HIDE DEF L
      <4> QED BY <3>1, MinIs
    <3> QED BY <3>2
  <2> QED BY <2>1, <2>2
<1>. HIDE DEF m
<1>2. ASSUME NEW k \in 0 .. m
      PROVE  SubSeq(Folded(s), 1, k) = SubSeq(Folded(t), 1, k)
                 <=> \A q \in 1 .. k : Lower(s[q]) = Lower(t[q])
  <2>1. k \in Nat /\ k <= Len(s) /\ k <= Len(t) /\ Len(s) \in Nat /\ Len(t) \in Nat
    BY <1>1
  <2>2. 1 \in Nat \ {0} /\ 1 + k - 1 = k /\ 1 + k - 1 <= Len(s) /\ \A q \in 1 .. k : 1 + q - 1 = q
    BY <2>1
  <2>3. SubSeq(Folded(s), 1, 1 + k - 1) = SubSeq(Folded(t), 1, k)
            <=> \A q \in 1 .. k : Lower(s[1 + q - 1]) = Lower(t[q])
    BY <2>1, <2>2, PartsSame
  <2>4. (\A q \in 1 .. k : Lower(s[1 + q - 1]) = Lower(t[q])) <=> \A q \in 1 .. k : Lower(s[q]) = Lower(t[q])
    BY <2>2
  <2> QED BY <2>2, <2>3, <2>4
<1>3. S \subseteq Nat /\ S # {} /\ \A k \in S : k <= m
  <2>1. 0 \in 0 .. m /\ \A q \in 1 .. 0 : Lower(s[q]) = Lower(t[q])
    BY <1>1
  <2>2. 0 \in S
    BY <1>2, <2>1
  <2>3. \A k \in 0 .. m : k \in Nat /\ k <= m
    BY <1>1
  <2>4. \A k \in S : k \in 0 .. m
    OBVIOUS
  <2>. HIDE DEF S
  <2> QED BY <2>2, <2>3, <2>4
<1>4. Max(S) \in S /\ \A k \in S : k <= Max(S)
  <2>. HIDE DEF S
  <2> QED BY <1>1, <1>3, MaxIs
<1>5. InCommon(s, t) = Max(S)
  BY DEF InCommon, m
<1>6. Max(S) \in 0 .. m /\ \A q \in 1 .. Max(S) : Lower(s[q]) = Lower(t[q])
  <2>1. Max(S) \in 0 .. m /\ SubSeq(Folded(s), 1, Max(S)) = SubSeq(Folded(t), 1, Max(S))
    BY <1>4
  <2>. HIDE DEF S
  <2> QED BY <1>2, <2>1
<1>7. ASSUME NEW k \in Nat, k <= Len(s), k <= Len(t), \A q \in 1 .. k : Lower(s[q]) = Lower(t[q])
      PROVE  k <= Max(S)
  <2>1. k \in 0 .. m
    BY <1>1, <1>7
  <2>2. k \in S
    BY <1>2, <1>7, <2>1
  <2>. HIDE DEF S
  <2> QED BY <1>4, <2>2
<1>. HIDE DEF S
<1>8. Max(S) \in Nat /\ Max(S) <= Len(s) /\ Max(S) <= Len(t)
  BY <1>1, <1>6
<1> QED BY <1>5, <1>6, <1>7, <1>8

\* Where a word begins with a text.
LEMMA WordsWithIs ==
    ASSUME NEW s \in Seq(Char), NEW t \in Seq(Char), NEW p \in Nat \ {0}
    PROVE  p \in WordsWith(s, t) <=>
               /\ p + Len(t) - 1 <= Len(s)
               /\ p = 1 \/ s[p - 1] = Blank
               /\ \A q \in 1 .. Len(t) : Lower(s[p + q - 1]) = Lower(t[q])
<1>1. Len(s) \in Nat /\ Len(t) \in Nat /\ p \in 1 .. Len(s) - Len(t) + 1 <=> p + Len(t) - 1 <= Len(s)
  OBVIOUS
<1>2. Folded(t) = SubSeq(Folded(t), 1, Len(t))
  <2>1. Folded(t) \in Seq(Char) /\ Len(Folded(t)) = Len(t)
    BY FoldedIs
  <2> QED BY <2>1, SubSeqFull
<1>3. p + Len(t) - 1 <= Len(s) => (SubSeq(Folded(s), p, p + Len(t) - 1) = Folded(t) <=>
                                       \A q \in 1 .. Len(t) : Lower(s[p + q - 1]) = Lower(t[q]))
  <2>1. SUFFICES ASSUME p + Len(t) - 1 <= Len(s)
                 PROVE  SubSeq(Folded(s), p, p + Len(t) - 1) = Folded(t) <=>
                            \A q \in 1 .. Len(t) : Lower(s[p + q - 1]) = Lower(t[q])
    OBVIOUS
  <2>2. Len(t) \in Nat /\ Len(t) <= Len(t)
    BY <1>1
  <2>3. SubSeq(Folded(s), p, p + Len(t) - 1) = SubSeq(Folded(t), 1, Len(t)) <=>
            \A q \in 1 .. Len(t) : Lower(s[p + q - 1]) = Lower(t[q])
    BY <2>1, <2>2, PartsSame
  <2> QED BY <1>2, <2>3
<1> QED BY <1>1, <1>3 DEF WordsWith

\* A part of a text is a text.
LEMMA PartOf ==
    ASSUME NEW C, NEW s \in Seq(C), NEW m \in Nat \ {0}, NEW n \in Nat, m <= n + 1, n <= Len(s)
    PROVE  /\ SubSeq(s, m, n) \in Seq(C) /\ Len(SubSeq(s, m, n)) = n - m + 1
           /\ \A q \in 1 .. n - m + 1 : SubSeq(s, m, n)[q] = s[m + q - 1]
<1>1. \A i \in m .. n : s[i] \in C
  OBVIOUS
<1>2. ~(m <= n) => n - m + 1 = 0
  OBVIOUS
<1>3. m \in Int /\ n \in Int
  OBVIOUS
<1>4. /\ SubSeq(s, m, n) \in Seq(C)
      /\ Len(SubSeq(s, m, n)) = IF m <= n THEN n - m + 1 ELSE 0
      /\ \A q \in 1 .. n - m + 1 : SubSeq(s, m, n)[q] = s[m + q - 1]
  BY <1>1, <1>3, SubSeqProperties
<1> QED BY <1>2, <1>4

LEMMA PartIs ==
    ASSUME NEW s \in Seq(Char), NEW m \in Nat \ {0}, NEW n \in Nat, m <= n + 1, n <= Len(s)
    PROVE  /\ SubSeq(s, m, n) \in Seq(Char) /\ Len(SubSeq(s, m, n)) = n - m + 1
           /\ \A q \in 1 .. n - m + 1 : SubSeq(s, m, n)[q] = s[m + q - 1]
BY PartOf

LEMMA Between ==
    ASSUME NEW a \in Nat \ {0}, NEW e \in Nat, NEW N \in Nat, a <= e, e <= N
    PROVE  /\ e - a + 1 \in Nat /\ e - a + 1 # 0 /\ e - a + 1 <= N /\ 1 \in 1 .. e - a + 1
           /\ a + 1 - 1 = a
OBVIOUS

\* A line begins with a word, which a blank ends, or with a blank.
LEMMA FirstTokenIs ==
    ASSUME NEW param \in Seq(Char), \E p \in DOMAIN param : param[p] # Blank
    PROVE  LET token == FirstToken(param)
           IN  /\ token \in Seq(Char) /\ Len(token) \in Nat /\ Len(token) # 0 /\ Len(token) <= Len(param)
               /\ token[1] # Blank
               /\ \/ param[1] = Blank
                  \/ /\ \A q \in 1 .. Len(token) : param[q] = token[q] /\ param[q] # Blank
                     /\ Len(token) = Len(param) \/ param[Len(token) + 1] = Blank
<1>. DEFINE S == {p \in DOMAIN param : param[p] # Blank}
            start == Min(S)
            after == {p \in start .. Len(param) : param[p] = Blank}
            end == IF after = {} THEN Len(param) ELSE Min(after) - 1
<1>1. Len(param) \in Nat /\ DOMAIN param = 1 .. Len(param)
  OBVIOUS
<1>2. start \in S /\ \A p \in S : start <= p
  <2>1. S \subseteq Nat /\ S # {}
    BY <1>1
  <2>. HIDE DEF S
  <2> QED BY <2>1, MinIs
<1>3. start \in 1 .. Len(param) /\ start \in Nat \ {0} /\ param[start] # Blank
      /\ \A p \in 1 .. Len(param) : p < start => param[p] = Blank
  <2>1. start \in 1 .. Len(param) /\ param[start] # Blank
    BY <1>1, <1>2
  <2>2. ASSUME NEW p \in 1 .. Len(param), p < start PROVE param[p] = Blank
    <3>. HIDE DEF start
    <3>1. p \notin S
      <4>. HIDE DEF S
      <4>1. ~(start <= p)
        BY <2>1, <2>2
      <4> QED BY <1>2, <4>1
    <3> QED BY <1>1, <3>1
  <2>. HIDE DEF start
  <2> QED BY <1>1, <2>1, <2>2
<1>4. start <= end /\ end \in Nat /\ end <= Len(param)
      /\ (end = Len(param) \/ param[end + 1] = Blank)
      /\ \A p \in start .. end : param[p] # Blank
  <2>1. CASE after = {}
    <3>1. end = Len(param)
      BY <2>1
    <3>2. \A p \in start .. Len(param) : param[p] # Blank
      BY <2>1
    <3>. HIDE DEF end, after, start
    <3> QED BY <1>1, <1>3, <3>1, <3>2
  <2>2. CASE after # {}
    <3>1. after \subseteq Nat
      <4>. HIDE DEF start
      <4> QED BY <1>1, <1>3
    <3>2. Min(after) \in after /\ \A p \in after : Min(after) <= p
      <4>. HIDE DEF after
      <4> QED BY <2>2, <3>1, MinIs
    <3>3. end = Min(after) - 1
      BY <2>2
    <3>4. Min(after) \in start .. Len(param) /\ param[Min(after)] = Blank
      BY <3>2
    <3>5. Min(after) # start
      BY <1>3, <3>4
    <3>. HIDE DEF start
    <3>6. Min(after) \in Nat /\ start < Min(after) /\ Min(after) <= Len(param)
      BY <1>1, <1>3, <3>4, <3>5
    <3>7. ASSUME NEW p \in start .. Min(after) - 1 PROVE param[p] # Blank
      <4>1. p \in start .. Len(param) /\ ~(Min(after) <= p)
        BY <1>1, <1>3, <3>6
      <4>2. p \notin after
        <5>. HIDE DEF after
        <5> QED BY <3>2, <4>1
      <4> QED BY <4>1, <4>2
    <3>. HIDE DEF after, end
    <3>8. Min(after) - 1 + 1 = Min(after) /\ start <= Min(after) - 1 /\ Min(after) - 1 \in Nat
          /\ Min(after) - 1 <= Len(param)
      BY <1>1, <1>3, <3>6
    <3> QED BY <3>3, <3>4, <3>7, <3>8
  <2> QED BY <2>1, <2>2
<1>5. FirstToken(param) = SubSeq(param, start, end)
  BY DEF FirstToken
<1>. HIDE DEF end, start, after, S
<1>6. start <= end + 1
  BY <1>3, <1>4
<1>7. /\ SubSeq(param, start, end) \in Seq(Char) /\ Len(SubSeq(param, start, end)) = end - start + 1
      /\ \A q \in 1 .. end - start + 1 : SubSeq(param, start, end)[q] = param[start + q - 1]
  BY <1>3, <1>4, <1>6, PartIs
<1>8. end - start + 1 \in Nat /\ end - start + 1 # 0 /\ end - start + 1 <= Len(param)
      /\ 1 \in 1 .. end - start + 1 /\ start + 1 - 1 = start
  BY <1>1, <1>3, <1>4, Between
<1>9. SubSeq(param, start, end)[1] # Blank
  BY <1>3, <1>7, <1>8
<1>10. CASE start = 1
  <2>1. end - start + 1 = end /\ \A q \in 1 .. end : start + q - 1 = q /\ q \in start .. end
    BY <1>4, <1>10
  <2>2. \A q \in 1 .. end : param[q] = SubSeq(param, start, end)[q] /\ param[q] # Blank
    BY <1>4, <1>7, <2>1
  <2> QED BY <1>4, <1>5, <1>7, <1>8, <1>9, <2>1, <2>2
<1>11. CASE start # 1
  <2>1. 1 < start /\ 1 \in 1 .. Len(param)
    BY <1>1, <1>3, <1>11
  <2>2. param[1] = Blank
    BY <1>3, <2>1
  <2> QED BY <1>5, <1>7, <1>8, <1>9, <2>2
<1> QED BY <1>10, <1>11

\* The part of a name that a token finds: it begins with a word, and with the token.
LEMMA UsedNameIs ==
    ASSUME NEW name \in Seq(Char), NEW token \in Seq(Char), Len(token) # 0, wordSearch(name, token)
    PROVE  LET used == szUsedName(name, token)
           IN  /\ used \in Seq(Char) /\ Len(token) <= Len(used)
               /\ \A q \in 1 .. Len(token) : Lower(used[q]) = Lower(token[q])
               /\ \E w \in Nat \ {0} :
                     /\ w = 1 \/ name[w - 1] = Blank
                     /\ Len(used) = Len(name) - w + 1
                     /\ \A q \in 1 .. Len(used) : used[q] = name[w + q - 1]
<1>. DEFINE W == WordsWith(name, token)
            w == Min(W)
            used == SubSeq(name, w, Len(name))
<1>1. Len(name) \in Nat /\ Len(token) \in Nat
  OBVIOUS
<1>2. W \subseteq Nat \ {0} /\ W # {}
  BY <1>1 DEF wordSearch, WordsWith
<1>3. w \in W /\ w \in Nat \ {0}
  <2>. HIDE DEF W
  <2>1. W \subseteq Nat
    BY <1>2
  <2> QED BY <1>2, <2>1, MinIs
<1>4. /\ w + Len(token) - 1 <= Len(name)
      /\ w = 1 \/ name[w - 1] = Blank
      /\ \A q \in 1 .. Len(token) : Lower(name[w + q - 1]) = Lower(token[q])
  BY <1>3, WordsWithIs
<1>. HIDE DEF w, W
<1>5. w <= Len(name) + 1 /\ Len(token) <= Len(name) - w + 1 /\ Len(name) <= Len(name)
  BY <1>1, <1>3, <1>4
<1>6. /\ used \in Seq(Char) /\ Len(used) = Len(name) - w + 1
      /\ \A q \in 1 .. Len(name) - w + 1 : used[q] = name[w + q - 1]
  BY <1>1, <1>3, <1>5, PartIs
<1>7. szUsedName(name, token) = used
  BY DEF szUsedName, w, W
<1>. HIDE DEF used
<1>8. \A q \in 1 .. Len(token) : q \in 1 .. Len(name) - w + 1
  BY <1>1, <1>3, <1>5
<1>9. \A q \in 1 .. Len(token) : Lower(used[q]) = Lower(token[q])
  BY <1>4, <1>6, <1>8
<1> QED BY <1>3, <1>4, <1>5, <1>6, <1>7, <1>9

\* What is typed before a message is found in the name, from the beginning of a word.
LEMMA NamedIs ==
    ASSUME NEW name \in Seq(Char), NEW token \in Seq(Char), Len(token) # 0, wordSearch(name, token),
           NEW param \in Seq(Char), NEW count \in Nat, count < Len(param),
           count <= InCommon(param, szUsedName(name, token))
    PROVE  wordSearch(name, SubSeq(param, 1, count))
<1>. DEFINE used == szUsedName(name, token)
            named == SubSeq(param, 1, count)
<1>1. PICK w \in Nat \ {0} :
         /\ w = 1 \/ name[w - 1] = Blank
         /\ Len(used) = Len(name) - w + 1
         /\ \A q \in 1 .. Len(used) : used[q] = name[w + q - 1]
  BY UsedNameIs
<1>2. used \in Seq(Char)
  BY UsedNameIs
<1>. HIDE DEF used
<1>3. Len(name) \in Nat /\ Len(param) \in Nat /\ Len(used) \in Nat
  BY <1>2
<1>4. /\ InCommon(param, used) \in Nat /\ InCommon(param, used) <= Len(used)
      /\ \A q \in 1 .. InCommon(param, used) : Lower(param[q]) = Lower(used[q])
  BY <1>2, InCommonIs
<1>5. count <= InCommon(param, used)
  BY DEF used
<1>6. count <= Len(used) /\ \A q \in 1 .. count : q \in 1 .. Len(used) /\ q \in 1 .. InCommon(param, used)
  BY <1>3, <1>4, <1>5
<1>7. 1 <= count + 1 /\ count <= Len(param) /\ count - 1 + 1 = count
      /\ \A q \in 1 .. count : 1 + q - 1 = q
  BY <1>3
<1>8. /\ named \in Seq(Char) /\ Len(named) = count
      /\ \A q \in 1 .. count : named[q] = param[q]
  <2>1. /\ named \in Seq(Char) /\ Len(named) = count - 1 + 1
        /\ \A q \in 1 .. count - 1 + 1 : named[q] = param[1 + q - 1]
    BY <1>7, PartIs
  <2>. HIDE DEF named
  <2> QED BY <1>7, <2>1
<1>. HIDE DEF named
<1>9. \A q \in 1 .. count : Lower(name[w + q - 1]) = Lower(named[q])
  BY <1>1, <1>4, <1>6, <1>8
<1>10. w + count - 1 <= Len(name)
  BY <1>1, <1>3, <1>6
<1>11. w \in WordsWith(name, named)
  BY <1>1, <1>8, <1>9, <1>10, WordsWithIs
<1> QED BY <1>11 DEF wordSearch, named

\* How a comparison may end.
Ends == {"no message", "in a word", "whole name", "new word"}

\* As much of the parameter as names the player, up to a blank.
Fits(fit, param, used) ==
    /\ fit.count <= InCommon(param, used) /\ fit.count < Len(param)
    /\ param[fit.count + 1] = Blank
    /\ \A k \in 1 .. Len(param) - 1 :
          param[k + 1] = Blank /\ InCommon(param, used) >= k => k <= fit.count

LEMMA BeforeLast ==
    ASSUME NEW a \in Nat, NEW N \in Nat, a < N, NEW b \in 1 .. a
    PROVE  b - 1 \in Nat /\ b - 1 <= a /\ b - 1 < N /\ b - 1 + 1 = b
OBVIOUS

LEMMA FitIs ==
    ASSUME NEW param \in Seq(Char), \E p \in DOMAIN param : param[p] # Blank,
           NEW name \in Seq(Char), wordSearch(name, FirstToken(param))
    PROVE  LET used == szUsedName(name, FirstToken(param))
               fit == CompareName(param, used)
           IN  /\ fit.end \in Ends /\ fit.count \in Nat
               /\ fit.end # "no message" => Fits(fit, param, used)
               /\ fit.end = "whole name" => fit.count = Len(used)
<1>. DEFINE token == FirstToken(param)
            used == szUsedName(name, token)
            alike == InCommon(param, used)
            blanks == {p \in 1 .. alike : param[p] = Blank}
            fit == CompareName(param, used)
<1>1. /\ token \in Seq(Char) /\ Len(token) \in Nat /\ Len(token) # 0 /\ Len(token) <= Len(param)
      /\ \/ param[1] = Blank
         \/ /\ \A q \in 1 .. Len(token) : param[q] = token[q]
            /\ Len(token) = Len(param) \/ param[Len(token) + 1] = Blank
  BY FirstTokenIs
<1>2. /\ used \in Seq(Char) /\ Len(token) <= Len(used)
      /\ \A q \in 1 .. Len(token) : Lower(used[q]) = Lower(token[q])
  <2>. HIDE DEF token
  <2>1. wordSearch(name, token)
    BY DEF token
  <2> QED BY <1>1, <2>1, UsedNameIs
<1>. HIDE DEF used
<1>3. /\ alike \in Nat /\ alike <= Len(param) /\ alike <= Len(used)
      /\ \A k \in Nat : /\ k <= Len(param) /\ k <= Len(used)
                        /\ \A q \in 1 .. k : Lower(param[q]) = Lower(used[q])
                        => k <= alike
  BY <1>2, InCommonIs
<1>4. Len(param) \in Nat
  OBVIOUS
<1>. HIDE DEF token, alike
<1>5. CASE alike = Len(param)
  <2>1. fit = Fit(0, "no message")
    BY <1>5 DEF CompareName, alike
  <2>. HIDE DEF fit
  <2>2. fit.end = "no message" /\ fit.count \in Nat /\ fit.end # "whole name"
    BY <2>1 DEF Fit
  <2>3. fit.end \in Ends
    BY <2>2 DEF Ends
  <2> QED BY <2>2, <2>3 DEF fit, used, token
<1>6. CASE alike # Len(param) /\ param[alike + 1] = Blank
  <2>1. fit = Fit(alike, IF alike = Len(used) THEN "whole name" ELSE "new word")
    BY <1>6 DEF CompareName, alike
  <2>. HIDE DEF fit
  <2>2. fit.count = alike /\ (fit.end = "whole name" => alike = Len(used)) /\ fit.end \in Ends
    <3>1. CASE alike = Len(used)
      BY <2>1, <3>1 DEF Fit, Ends
    <3>2. CASE alike # Len(used)
      BY <2>1, <3>2 DEF Fit, Ends
    <3> QED BY <3>1, <3>2
  <2>3. alike < Len(param) /\ alike <= alike /\ \A k \in Nat : alike >= k => k <= alike
    BY <1>3, <1>4, <1>6
  <2>4. \A k \in 1 .. Len(param) - 1 : alike >= k => k <= alike
    BY <1>4, <2>3
  <2>5. Fits(fit, param, used)
    BY <1>6, <2>2, <2>3, <2>4 DEF Fits, alike
  <2> QED BY <1>3, <2>2, <2>5 DEF fit, used, token
<1>7. CASE alike # Len(param) /\ param[alike + 1] # Blank
  <2>1. alike < Len(param)
    BY <1>3, <1>4, <1>7
  <2>2. blanks # {}
    <3>1. CASE param[1] = Blank
      <4>1. alike # 0
        BY <1>7, <3>1
      <4>2. 1 \in 1 .. alike
        BY <1>3, <4>1
      <4> QED BY <3>1, <4>2
    <3>2. CASE /\ \A q \in 1 .. Len(token) : param[q] = token[q]
               /\ Len(token) = Len(param) \/ param[Len(token) + 1] = Blank
      <4>1. Len(token) <= alike
        BY <1>1, <1>2, <1>3, <3>2
      <4>2. param[Len(token) + 1] = Blank
        BY <1>1, <1>3, <1>4, <2>1, <3>2, <4>1
      <4>3. Len(token) # alike
        BY <1>7, <4>2
      <4>4. Len(token) + 1 \in 1 .. alike
        BY <1>1, <1>3, <4>1, <4>3
      <4> QED BY <4>2, <4>4
    <3> QED BY <1>1, <3>1, <3>2
  <2>3. blanks \subseteq Nat /\ \A p \in blanks : p <= alike
    BY <1>3
  <2>4. Max(blanks) \in blanks /\ \A p \in blanks : p <= Max(blanks)
    <3>. HIDE DEF blanks
    <3> QED BY <1>3, <2>2, <2>3, MaxIs
  <2>5. fit = Fit(Max(blanks) - 1, "in a word")
    BY <1>7, <2>2 DEF CompareName, alike
  <2>. HIDE DEF fit
  <2>6. fit.count = Max(blanks) - 1 /\ fit.end = "in a word"
    BY <2>5 DEF Fit
  <2>7. Max(blanks) \in 1 .. alike /\ param[Max(blanks)] = Blank
    BY <2>4
  <2>8. ASSUME NEW k \in 1 .. Len(param) - 1, param[k + 1] = Blank, alike >= k
        PROVE  k + 1 <= Max(blanks)
    <3>1. k # alike
      BY <1>7, <2>8
    <3>2. k + 1 \in 1 .. alike
      BY <1>3, <1>4, <2>8, <3>1
    <3>3. k + 1 \in blanks
      BY <2>8, <3>2
    <3>. HIDE DEF blanks
    <3> QED BY <2>4, <3>3
  <2>. HIDE DEF blanks
  <2>9. fit.count \in Nat /\ fit.count <= alike /\ fit.count < Len(param) /\ fit.count + 1 = Max(blanks)
    <3>1. alike \in Nat /\ Len(param) \in Nat /\ Max(blanks) \in 1 .. alike
      BY <1>3, <1>4, <2>7
    <3>2. /\ Max(blanks) - 1 \in Nat /\ Max(blanks) - 1 <= alike /\ Max(blanks) - 1 < Len(param)
          /\ Max(blanks) - 1 + 1 = Max(blanks)
      BY <2>1, <3>1, BeforeLast
    <3> QED BY <2>6, <3>2
  <2>10. \A k \in 1 .. Len(param) - 1 : param[k + 1] = Blank /\ alike >= k => k <= fit.count
    <3>1. \A k \in 1 .. Len(param) - 1 : k + 1 <= Max(blanks) => k <= fit.count
      BY <1>4, <2>7, <2>9
    <3> QED BY <2>8, <3>1
  <2>11. Fits(fit, param, used)
    BY <2>7, <2>9, <2>10 DEF Fits, alike
  <2> QED BY <2>6, <2>9, <2>11 DEF Ends, fit, used, token
<1> QED BY <1>5, <1>6, <1>7

LEMMA NodesAre ==
    /\ Cardinality(Node) \in Nat
    /\ Nodes = [k \in 1 .. Cardinality(Node) |-> k - 1]
    /\ \A k \in 1 .. Cardinality(Node) : k - 1 \in Node
    /\ \A n \in Node : n \in Nat /\ n + 1 \in 1 .. Cardinality(Node)
<1>1. Node = 0 .. Cardinality(Node) - 1 /\ IsFiniteSet(Node)
  BY CommandsAssumption DEF CommandsAssumption
<1>2. Cardinality(Node) \in Nat
  BY <1>1, FS_CardinalityType
<1>. DEFINE N == Cardinality(Node)
<1>. HIDE DEF N
<1>3. N \in Nat
  BY <1>2 DEF N
<1>4. \A k \in 1 .. N : k - 1 \in 0 .. N - 1
  BY <1>3
<1>5. \A n \in 0 .. N - 1 : n \in Nat /\ n + 1 \in 1 .. N
  BY <1>3
<1> QED BY <1>1, <1>2, <1>4, <1>5 DEF N, Nodes

\* What is known of the best match, whoever was looked at.
BestMatches == [node: Node \cup {-1}, count: Nat, dupe: Nat, end: {"", "no message", "whole name"}]

Used(n, param) == szUsedName(szAlias[n], FirstToken(param))
Fitting(n, param) == n \in InGame /\ wordSearch(szAlias[n], FirstToken(param))

\* ... is that it names its player up to a blank, and nobody of those looked at better.
BestFor(best, looked, param) ==
    /\ best \in BestMatches
    /\ best.node # -1 =>
          /\ Fitting(best.node, param)
          /\ best.count <= InCommon(param, Used(best.node, param))
          /\ best.count < Len(param) /\ param[best.count + 1] = Blank
    /\ best.end = "whole name" => best.node # -1 /\ best.count = Len(Used(best.node, param))
    /\ best.end = "" =>
          \A m \in looked : Fitting(m, param) =>
             \A k \in 1 .. Len(param) - 1 :
                param[k + 1] = Blank /\ InCommon(param, Used(m, param)) >= k => k <= best.count

\* A line of which there is a name to be found.
Tellable(param) == param \in Seq(Char) /\ \E p \in DOMAIN param : param[p] # Blank
Named == szAlias \in [Node -> Seq(Char)]

LEMMA NobodyYet == ASSUME NEW param PROVE BestFor(NoBest, {}, param)
<1>1. NoBest \in BestMatches /\ NoBest.node = -1 /\ NoBest.end = ""
  BY DEF NoBest, BestMatches
<1> QED BY <1>1 DEF BestFor

LEMMA LookFits ==
    ASSUME Named, NEW param, Tellable(param), NEW n \in Node, Fitting(n, param)
    PROVE  LET fit == CompareName(param, Used(n, param))
           IN  /\ fit.end \in Ends /\ fit.count \in Nat
               /\ fit.end # "no message" => Fits(fit, param, Used(n, param))
               /\ fit.end = "whole name" => fit.count = Len(Used(n, param))
<1>1. szAlias[n] \in Seq(Char)
  BY DEF Named
<1> QED BY <1>1, FitIs DEF Tellable, Fitting, Used

LEMMA NodeIsNot == ASSUME NEW n \in Node PROVE n # -1
BY NodesAre

LEMMA NoLess ==
    ASSUME NEW a \in Int, NEW b \in Nat, NEW c \in Nat, a <= b, b <= c
    PROVE  a <= c
OBVIOUS

LEMMA OneIsLess ==
    ASSUME NEW a \in Nat, NEW b \in Nat
    PROVE  (a > b => b <= a) /\ (~(a > b) => a <= b)
OBVIOUS

LEMMA PlaceIs == ASSUME NEW param, Tellable(param), NEW k \in 1 .. Len(param) - 1 PROVE k \in Int
<1>1. param \in Seq(Char)
  BY DEF Tellable
<1>2. Len(param) \in Nat
  BY <1>1
<1> QED BY <1>2

LEMMA BetterFor ==
    ASSUME Named, NEW param, Tellable(param), NEW n \in Node, Fitting(n, param),
           NEW looked, NEW best, best.end = "", BestFor(best, looked, param),
           NEW fit, fit = CompareName(param, Used(n, param))
    PROVE  BestFor(Better(best, n, fit), looked \cup {n}, param)
<1>. DEFINE used == Used(n, param)
            better == Better(best, n, fit)
<1>1. /\ fit.end \in Ends /\ fit.count \in Nat
      /\ fit.end # "no message" => Fits(fit, param, used)
      /\ fit.end = "whole name" => fit.count = Len(used)
  BY LookFits
<1>2. /\ best \in BestMatches /\ best.count \in Nat
      /\ best.node # -1 =>
          /\ Fitting(best.node, param)
          /\ best.count <= InCommon(param, Used(best.node, param))
          /\ best.count < Len(param) /\ param[best.count + 1] = Blank
      /\ \A m \in looked : Fitting(m, param) =>
             \A k \in 1 .. Len(param) - 1 :
                param[k + 1] = Blank /\ InCommon(param, Used(m, param)) >= k => k <= best.count
  BY DEF BestFor, BestMatches
<1>3. n # -1
  BY NodeIsNot
<1>. HIDE DEF used
<1>4. CASE fit.end = "no message"
  <2>1. better = [best EXCEPT !.end = "no message"]
    BY <1>4 DEF Better
  <2>2. better \in BestMatches /\ better.end = "no message" /\ better.node = best.node
        /\ better.count = best.count
    BY <1>2, <2>1 DEF BestMatches
  <2>. HIDE DEF better
  <2> QED BY <1>2, <2>2 DEF BestFor, better
<1>5. CASE fit.end = "whole name"
  <2>1. better = [best EXCEPT !.node = n, !.count = fit.count, !.end = "whole name"]
    BY <1>5 DEF Better
  <2>2. better \in BestMatches /\ better.end = "whole name" /\ better.node = n
        /\ better.count = fit.count
    BY <1>1, <1>2, <2>1 DEF BestMatches
  <2>3. Fits(fit, param, used) /\ fit.count = Len(used)
    BY <1>1, <1>5
  <2>. HIDE DEF better
  <2>4. /\ better.count <= InCommon(param, used)
        /\ better.count < Len(param) /\ param[better.count + 1] = Blank
    BY <2>2, <2>3 DEF Fits
  <2> QED BY <1>3, <2>2, <2>3, <2>4 DEF BestFor, better, used
<1>6. CASE fit.end \notin {"no message", "whole name"} /\ fit.count > best.count
  <2>1. better = [best EXCEPT !.node = n, !.count = fit.count]
    BY <1>6 DEF Better
  <2>2. better \in BestMatches /\ better.end = "" /\ better.node = n
        /\ better.count = fit.count
    BY <1>1, <1>2, <2>1 DEF BestMatches
  <2>3. Fits(fit, param, used)
    BY <1>1, <1>6
  <2>. HIDE DEF better
  <2>4. /\ better.count <= InCommon(param, used)
        /\ better.count < Len(param) /\ param[better.count + 1] = Blank
        /\ \A k \in 1 .. Len(param) - 1 :
              param[k + 1] = Blank /\ InCommon(param, used) >= k => k <= better.count
    BY <2>2, <2>3 DEF Fits
  <2>5. ASSUME NEW m \in looked, Fitting(m, param), NEW k \in 1 .. Len(param) - 1,
               param[k + 1] = Blank, InCommon(param, Used(m, param)) >= k
        PROVE  k <= better.count
    <3>1. k <= best.count
      BY <1>2, <2>5
    <3>2. k \in Int
      BY PlaceIs
    <3>3. best.count <= fit.count
      <4>1. fit.count \in Nat /\ best.count \in Nat
        BY <1>1, <1>2
      <4>2. fit.count > best.count
        BY <1>6
      <4> QED BY <4>1, <4>2, OneIsLess
    <3> QED BY <1>1, <1>2, <2>2, <3>1, <3>2, <3>3, NoLess
  <2> QED BY <1>3, <2>2, <2>4, <2>5 DEF BestFor, better, used
<1>7. CASE fit.end \notin {"no message", "whole name"} /\ ~(fit.count > best.count)
  <2>1. better = best \/ better = [best EXCEPT !.dupe = fit.count]
    BY <1>7 DEF Better
  <2>2. better \in BestMatches /\ better.end = "" /\ better.node = best.node
        /\ better.count = best.count
    BY <1>1, <1>2, <2>1 DEF BestMatches
  <2>3. Fits(fit, param, used)
    BY <1>1, <1>7
  <2>. HIDE DEF better
  <2>4. ASSUME NEW k \in 1 .. Len(param) - 1, param[k + 1] = Blank, InCommon(param, used) >= k
        PROVE  k <= better.count
    <3>1. k <= fit.count
      BY <2>3, <2>4 DEF Fits
    <3>2. k \in Int
      BY PlaceIs
    <3>3. fit.count <= best.count
      <4>1. fit.count \in Nat /\ best.count \in Nat
        BY <1>1, <1>2
      <4>2. ~(fit.count > best.count)
        BY <1>7
      <4> QED BY <4>1, <4>2, OneIsLess
    <3> QED BY <1>1, <1>2, <2>2, <3>1, <3>2, <3>3, NoLess
  <2> QED BY <1>2, <2>2, <2>4 DEF BestFor, better, used
<1> QED BY <1>4, <1>5, <1>6, <1>7

LEMMA LookKeeps ==
    ASSUME Named, NEW param, Tellable(param), NEW n \in Node, NEW looked,
           NEW best, BestFor(best, looked, param)
    PROVE  BestFor(LookAt(best, n, param), looked \cup {n}, param)
<1>1. CASE best.end = "" /\ Fitting(n, param)
  <2>1. LookAt(best, n, param) = Better(best, n, CompareName(param, Used(n, param)))
    BY <1>1 DEF LookAt, Fitting, Used
  <2> QED BY <1>1, <2>1, BetterFor
<1>2. CASE ~(best.end = "" /\ Fitting(n, param))
  <2>1. LookAt(best, n, param) = best
    BY <1>2 DEF LookAt, Fitting
  <2> QED BY <1>2, <2>1 DEF BestFor
<1> QED BY <1>1, <1>2

LEMMA LookType ==
    ASSUME Named, NEW param, Tellable(param), NEW n \in Node, NEW best \in BestMatches
    PROVE  LookAt(best, n, param) \in BestMatches
<1>1. CASE best.end = "" /\ Fitting(n, param)
  <2>. DEFINE fit == CompareName(param, Used(n, param))
  <2>1. LookAt(best, n, param) = Better(best, n, fit)
    BY <1>1 DEF LookAt, Fitting, Used
  <2>2. fit.count \in Nat
    BY <1>1, LookFits
  <2>. HIDE DEF fit
  <2>3. Better(best, n, fit) \in BestMatches
    BY <2>2 DEF Better, BestMatches
  <2> QED BY <2>1, <2>3
<1>2. CASE ~(best.end = "" /\ Fitting(n, param))
  <2>1. LookAt(best, n, param) = best
    BY <1>2 DEF LookAt, Fitting
  <2> QED BY <2>1
<1> QED BY <1>1, <1>2

\* Who is named best in the end.
LEMMA BestIs ==
    ASSUME Named, NEW param, Tellable(param)
    PROVE  BestFor(BestMatch(param), Node, param)
<1>. DEFINE N == Cardinality(Node)
            D == SUBSET (1 .. N)
            step(g, s) == IF s = {} THEN NoBest ELSE LookAt(g[s \ {Max(s)}], Nodes[Max(s)], param)
            op == [e \in BestMatches \X (1 .. N) |-> LookAt(e[1], Nodes[e[2]], param)]
<1>1. N \in Nat /\ DOMAIN Nodes = 1 .. N /\ \A k \in 1 .. N : Nodes[k] = k - 1 /\ Nodes[k] \in Node
  BY NodesAre
<1>. HIDE DEF N
<1>2. NoBest \in BestMatches
  BY NobodyYet DEF BestFor
<1>3. op \in [BestMatches \X (1 .. N) -> BestMatches]
  BY <1>1, LookType
<1>4. \A best \in BestMatches, k \in 1 .. N : op[<<best, k>>] = LookAt(best, Nodes[k], param)
  OBVIOUS
<1>. HIDE DEF op
<1>5. PICK g \in [D -> BestMatches] : Folds(N, NoBest, op, g)
  BY <1>1, <1>2, <1>3, FoldExists
<1>6. ASSUME NEW s \in D, s # {} PROVE s \ {Max(s)} \in D /\ Max(s) \in 1 .. N
  <2>1. s \subseteq Nat /\ \A m \in s : m <= N
    BY <1>1
  <2>2. Max(s) \in s
    BY <1>1, <1>6, <2>1, MaxIs
  <2> QED BY <2>2
<1>7. ASSUME NEW s \in D PROVE g[s] = step(g, s)
  <2>1. g[s] = IF s = {} THEN NoBest ELSE op[<<g[s \ {Max(s)}], Max(s)>>]
    BY <1>5 DEF Folds
  <2>2. s # {} => op[<<g[s \ {Max(s)}], Max(s)>>] = LookAt(g[s \ {Max(s)}], Nodes[Max(s)], param)
    BY <1>4, <1>6
  <2> QED BY <2>1, <2>2
<1>8. g = [s \in D |-> step(g, s)]
  <2>. HIDE DEF step
  <2> QED BY <1>7
<1>. DEFINE iter == CHOOSE h : h = [s \in D |-> step(h, s)]
<1>9. iter = [s \in D |-> step(iter, s)]
  BY <1>8
<1>10. BestMatch(param) = iter[1 .. N]
  BY <1>1 DEF BestMatch, FoldLeft, MapThenFoldSet
<1>. HIDE DEF iter
<1>11. \A s \in D : iter[s] = step(iter, s)
  <2>. HIDE DEF step
  <2> QED BY <1>9
<1>. DEFINE T == {k \in Nat : k <= N => BestFor(iter[1 .. k], {n \in Node : n < k}, param)}
<1>12. 0 \in T
  <2>1. 1 .. 0 = {} /\ {} \in D
    BY UpTo
  <2>2. iter[1 .. 0] = NoBest
    BY <1>11, <2>1
  <2>3. {n \in Node : n < 0} = {}
    BY NodesAre
  <2> QED BY <2>2, <2>3, NobodyYet
<1>13. ASSUME NEW k \in Nat, k \in T PROVE k + 1 \in T
  <2>1. SUFFICES ASSUME k + 1 <= N
                 PROVE  BestFor(iter[1 .. k + 1], {n \in Node : n < k + 1}, param)
    OBVIOUS
  <2>2. k <= N /\ 1 .. k + 1 \in D /\ k + 1 \in 1 .. N /\ k + 1 \in Nat
    BY <1>1, <2>1
  <2>3. BestFor(iter[1 .. k], {n \in Node : n < k}, param)
    BY <1>13, <2>2
  <2>4. Nodes[k + 1] = k /\ k \in Node
    <3>1. Nodes[k + 1] = k + 1 - 1 /\ Nodes[k + 1] \in Node
      BY <1>1, <2>2
    <3>2. k + 1 - 1 = k
      OBVIOUS
    <3> QED BY <3>1, <3>2
  <2>5. iter[1 .. k + 1] = LookAt(iter[1 .. k], k, param)
    <3>1. 1 .. k + 1 # {} /\ Max(1 .. k + 1) = k + 1 /\ (1 .. k + 1) \ {k + 1} = 1 .. k
      BY UpTo
    <3>2. iter[1 .. k + 1] = step(iter, 1 .. k + 1)
      BY <1>11, <2>2
    <3>3. step(iter, 1 .. k + 1) = LookAt(iter[1 .. k], Nodes[k + 1], param)
      BY <3>1
    <3> QED BY <2>4, <3>2, <3>3
  <2>6. {n \in Node : n < k + 1} = {n \in Node : n < k} \cup {k}
    <3>1. \A n \in Node : n < k + 1 <=> n < k \/ n = k
      <4>1. \A n \in Node : n \in Nat
        BY NodesAre
      <4>2. \A n \in Nat : n < k + 1 <=> n < k \/ n = k
        OBVIOUS
      <4> QED BY <4>1, <4>2
    <3> QED BY <2>4, <3>1
  <2> QED BY <2>3, <2>4, <2>5, <2>6, LookKeeps
<1>14. N \in T
  <2>. HIDE DEF T
  <2> QED BY <1>1, <1>12, <1>13, Induct
<1>15. N <= N /\ {n \in Node : n < N} = Node
  <2>1. \A n \in Node : n < N
    <3>1. \A n \in Node : n \in Nat /\ n + 1 \in 1 .. N
      BY NodesAre DEF N
    <3> QED BY <1>1, <3>1
  <2> QED BY <1>1, <2>1
<1> QED BY <1>10, <1>14, <1>15

\* Where a message goes: to a player whom the parameter names with count characters.
Reaches(n, param, node, count) ==
    /\ heard' = [To(n, Said("sent", szAlias[node])) EXCEPT
                    ![node] = Said("told", SubSeq(param, count + 2, Len(param)))]
    /\ Fitting(node, param)
    /\ count <= InCommon(param, Used(node, param))
    /\ count + 1 < Len(param) /\ param[count + 1] = Blank
    /\ \/ count = Len(Used(node, param))
       \/ \A m \in Node : Fitting(m, param) =>
             \A k \in 1 .. Len(param) - 1 :
                param[k + 1] = Blank /\ InCommon(param, Used(m, param)) >= k => k <= count

LEMMA RoomLeft == ASSUME NEW a \in Nat, NEW b \in Nat, ~(a <= b + 1) PROVE b + 1 < a
OBVIOUS

LEMMA TellIs ==
    ASSUME Named, NEW n \in Node, NEW param \in Seq(Char), TellCommand(n, param)
    PROVE  \/ heard' \in {To(n, Said("syntax", <<>>)), To(n, Said("several", <<>>))}
           \/ Tellable(param) /\ \E node \in Node, count \in Nat : Reaches(n, param, node, count)
<1>. DEFINE named == \E p \in DOMAIN param : param[p] # Blank
            best == IF named /\ Len(param) >= 2 /\ Blank \in Range(param) THEN BestMatch(param) ELSE NoBest
<1>1. heard' =
         IF best.end = "no message" \/ best.node = -1 \/ Len(param) <= best.count + 1
         THEN To(n, Said("syntax", <<>>))
         ELSE IF best.dupe = best.count THEN To(n, Said("several", <<>>))
         ELSE [To(n, Said("sent", szAlias[best.node])) EXCEPT
                 ![best.node] = Said("told", SubSeq(param, best.count + 2, Len(param)))]
  BY DEF TellCommand
<1>2. best.node # -1 => named /\ best = BestMatch(param)
  BY DEF NoBest
<1>. HIDE DEF best
<1>3. SUFFICES ASSUME best.end # "no message", best.node # -1, ~(Len(param) <= best.count + 1),
                      heard' = [To(n, Said("sent", szAlias[best.node])) EXCEPT
                          ![best.node] = Said("told", SubSeq(param, best.count + 2, Len(param)))]
               PROVE  Tellable(param) /\ \E node \in Node, count \in Nat : Reaches(n, param, node, count)
  BY <1>1
<1>4. Tellable(param)
  BY <1>2, <1>3 DEF Tellable
<1>5. BestFor(best, Node, param)
  BY <1>2, <1>3, <1>4, BestIs
<1>6. best.node \in Node /\ best.count \in Nat /\ best.end \in {"", "whole name"}
  BY <1>3, <1>5 DEF BestFor, BestMatches
<1>7. best.count + 1 < Len(param)
  <2>1. best.count \in Nat
    BY <1>6
  <2>2. Len(param) \in Nat
    OBVIOUS
  <2>3. ~(Len(param) <= best.count + 1)
    BY <1>3
  <2> QED BY <2>1, <2>2, <2>3, RoomLeft
<1>8. Reaches(n, param, best.node, best.count)
  BY <1>3, <1>5, <1>6, <1>7 DEF BestFor, Reaches
<1> QED BY <1>4, <1>6, <1>8

LEMMA Rest ==
    ASSUME NEW L \in Nat, NEW count \in Nat, count + 1 < L
    PROVE  /\ L - (count + 2) + 1 \in Nat \ {0} /\ L - (L - (count + 2) + 1) - 1 = count
           /\ count + 2 \in Nat \ {0} /\ count + 2 <= L + 1 /\ 1 <= count + 1 /\ count <= L
           /\ count - 1 + 1 = count /\ count + 1 <= L /\ count + 1 \in 1 .. L
           /\ \A q \in 1 .. L : \/ q \in 1 .. count
                                \/ q = count + 1
                                \/ q - (count + 1) \in 1 .. L - (count + 2) + 1
                                   /\ count + 2 + (q - (count + 1)) - 1 = q
OBVIOUS

\* A line is what comes before a blank, the blank and what comes after it.
LEMMA Parted ==
    ASSUME NEW param \in Seq(Char), NEW count \in Nat, count + 1 < Len(param), param[count + 1] = Blank
    PROVE  LET told == SubSeq(param, count + 2, Len(param))
           IN  /\ told \in Seq(Char) /\ told # <<>>
               /\ Len(param) - Len(told) - 1 = count
               /\ param = SubSeq(param, 1, count) \o <<Blank>> \o told
<1>. DEFINE L == Len(param)
            told == SubSeq(param, count + 2, L)
            named == SubSeq(param, 1, count)
            k == L - (count + 2) + 1
            all == (named \o <<Blank>>) \o told
<1>1. L \in Nat /\ L <= L
  OBVIOUS
<1>2. /\ k \in Nat \ {0} /\ L - k - 1 = count
      /\ count + 2 \in Nat \ {0} /\ count + 2 <= L + 1 /\ 1 <= count + 1 /\ count <= L
      /\ count - 1 + 1 = count
      /\ \A q \in 1 .. L : \/ q \in 1 .. count
                           \/ q = count + 1
                           \/ q - (count + 1) \in 1 .. k /\ count + 2 + (q - (count + 1)) - 1 = q
  BY <1>1, Rest
<1>3. told \in Seq(Char) /\ Len(told) = k /\ \A q \in 1 .. k : told[q] = param[count + 2 + q - 1]
  BY <1>1, <1>2, PartIs
<1>4. named \in Seq(Char) /\ Len(named) = count /\ \A q \in 1 .. count : named[q] = param[1 + q - 1]
  <2>1. /\ named \in Seq(Char) /\ Len(named) = count - 1 + 1
        /\ \A q \in 1 .. count - 1 + 1 : named[q] = param[1 + q - 1]
    BY <1>1, <1>2, PartIs
  <2>. HIDE DEF named
  <2> QED BY <1>2, <2>1
<1>5. told # <<>>
  BY <1>2, <1>3
<1>. HIDE DEF told, named
<1>6. Blank \in Char
  BY LowerIs
<1>. DEFINE first == named \o <<Blank>>
<1>7. /\ first \in Seq(Char) /\ Len(first) = count + 1
      /\ \A q \in 1 .. count : first[q] = named[q]
      /\ first[count + 1] = Blank
  BY <1>4, <1>6
<1>. HIDE DEF first
<1>8. /\ all \in Seq(Char) /\ Len(all) = count + 1 + k
      /\ \A q \in 1 .. count + 1 : all[q] = first[q]
      /\ \A q \in 1 .. k : all[count + 1 + q] = told[q]
  <2>1. all = first \o told
    BY DEF first
  <2>2. k \in Nat /\ count + 1 \in Nat
    BY <1>2
  <2>. HIDE DEF all, k
  <2>3. /\ first \in Seq(Char) /\ Len(first) = count + 1
        /\ told \in Seq(Char) /\ Len(told) = k
    BY <1>3, <1>7
  <2>4. /\ first \o told \in Seq(Char) /\ Len(first \o told) = count + 1 + k
        /\ \A q \in 1 .. count + 1 : (first \o told)[q] = first[q]
        /\ \A q \in 1 .. k : (first \o told)[count + 1 + q] = told[q]
    <3>1. first \in Seq(Char)
      BY <2>3
    <3>2. told \in Seq(Char)
      BY <2>3
    <3>3. /\ first \o told \in Seq(Char)
          /\ Len(first \o told) = Len(first) + Len(told)
          /\ \A q \in 1 .. Len(first) : (first \o told)[q] = first[q]
          /\ \A q \in 1 .. Len(told) : (first \o told)[Len(first) + q] = told[q]
      BY <3>1, <3>2, Joined
    <3> QED BY <2>3, <3>3
  <2> QED BY <2>1, <2>4
<1>9. count + 1 + k = L
  BY <1>1, <1>2
<1>10. ASSUME NEW q \in 1 .. L PROVE all[q] = param[q]
  <2>1. CASE q \in 1 .. count
    <3>1. q \in 1 .. count + 1 /\ 1 + q - 1 = q
      BY <2>1
    <3>2. all[q] = named[q] /\ named[q] = param[1 + q - 1]
      <4>. HIDE DEF all
      <4> QED BY <1>4, <1>7, <1>8, <2>1, <3>1
    <3> QED BY <3>1, <3>2
  <2>2. CASE q = count + 1
    <3>1. q \in 1 .. count + 1
      BY <2>2
    <3> QED BY <1>7, <1>8, <2>2, <3>1
  <2>3. CASE q - (count + 1) \in 1 .. k /\ count + 2 + (q - (count + 1)) - 1 = q
    <3>1. count + 1 + (q - (count + 1)) = q
      BY <1>1
    <3>2. all[count + 1 + (q - (count + 1))] = told[q - (count + 1)]
          /\ told[q - (count + 1)] = param[count + 2 + (q - (count + 1)) - 1]
      <4>. DEFINE r == q - (count + 1)
      <4>1. r \in 1 .. k
        BY <2>3
      <4>. HIDE DEF all, r, k
      <4>2. all[count + 1 + r] = told[r] /\ told[r] = param[count + 2 + r - 1]
        BY <1>3, <1>8, <4>1
      <4> QED BY <4>2 DEF r
    <3> QED BY <2>3, <3>1, <3>2
  <2> QED BY <1>2, <2>1, <2>2, <2>3
<1>. HIDE DEF all
<1>11. param = all
  BY <1>1, <1>8, <1>9, <1>10, SeqEqual
<1> QED BY <1>2, <1>3, <1>5, <1>11 DEF all, told, named

\* A line that somebody in the game has typed, and that names are what they were.
Typed(n, param) ==
    /\ n \in InGame /\ param \in Seq(Char)
    /\ szAlias' = szAlias /\ typed'.from = n /\ typed'.param = param

LEMMA SameGame == ASSUME szAlias' = szAlias PROVE InGame' = InGame
BY DEF InGame

\* What a line makes heard without anything being told.
LEMMA NothingTold ==
    ASSUME NEW n, NEW param, Typed(n, param), NEW kind, kind # "", kind # "told", NEW text,
           heard' = To(n, Said(kind, text)) \/ heard' = ToAll(Said(kind, text))
    PROVE  TellIsRight'
<1>1. n \in InGame /\ n \in Node /\ typed'.from = n
  BY DEF Typed, InGame
<1>2. Said(kind, text).kind = kind /\ Silence.kind = ""
  BY DEF Said, Silence
<1>3. \A m \in Node : heard'[m] = Silence \/ heard'[m] = Said(kind, text)
  BY DEF To, ToAll, Nothing
<1>4. heard'[n] = Said(kind, text)
  BY <1>1 DEF To, ToAll, Nothing
<1>5. Told' = {}
  BY <1>2, <1>3 DEF Told
<1>6. TypistHears'
  BY <1>1, <1>2, <1>4 DEF TypistHears
<1>7. TellReachesNamed' /\ TellPrefersTheLongest'
  BY <1>5 DEF TellReachesNamed, TellPrefersTheLongest
<1> QED BY <1>6, <1>7 DEF TellIsRight

\* By how much of a parameter a name is named.
LEMMA NamedByIs ==
    ASSUME NEW param \in Seq(Char), NEW m, NEW count \in Nat,
           Fitting(m, param) =>
               \A k \in 1 .. Len(param) - 1 :
                  param[k + 1] = Blank /\ InCommon(param, Used(m, param)) >= k => k <= count
    PROVE  m \in InGame => NamedBy(m, param) <= count
<1>1. SUFFICES ASSUME m \in InGame PROVE NamedBy(m, param) <= count
  OBVIOUS
<1>. DEFINE K == {k \in 1 .. Len(param) - 1 :
                    /\ param[k + 1] = Blank
                    /\ wordSearch(szAlias[m], FirstToken(param))
                    /\ InCommon(param, szUsedName(szAlias[m], FirstToken(param))) >= k}
            all == {0} \cup K
<1>2. NamedBy(m, param) = Max(all)
  BY DEF NamedBy
<1>3. \A k \in K : k <= count
  BY <1>1 DEF Fitting, Used
<1>4. K \subseteq 1 .. Len(param) - 1 /\ Len(param) \in Nat
  OBVIOUS
<1>. HIDE DEF K
<1>5. 0 <= count /\ 0 <= Len(param)
  BY <1>4
<1>6. all \subseteq Nat /\ all # {} /\ (\A k \in all : k <= Len(param)) /\ (\A k \in all : k <= count)
  <2>1. \A k \in K : k \in Nat /\ k <= Len(param)
    BY <1>4
  <2> QED BY <1>3, <1>5, <2>1
<1>. HIDE DEF all
<1>7. Max(all) \in all
  BY <1>4, <1>6, MaxIs
<1> QED BY <1>2, <1>6, <1>7

\* Whom something is told, and what.
LEMMA SomethingTold ==
    ASSUME Named, NEW n, NEW param, Typed(n, param), Tellable(param),
           NEW node \in Node, NEW count \in Nat, Reaches(n, param, node, count)
    PROVE  TellIsRight'
<1>. DEFINE told == SubSeq(param, count + 2, Len(param))
            named == SubSeq(param, 1, count)
<1>1. n \in InGame /\ n \in Node /\ typed'.from = n /\ typed'.param = param /\ szAlias' = szAlias
      /\ param \in Seq(Char)
  BY DEF Typed, InGame
<1>2. heard' = [To(n, Said("sent", szAlias[node])) EXCEPT ![node] = Said("told", told)]
  BY DEF Reaches
<1>3. /\ Fitting(node, param) /\ count <= InCommon(param, Used(node, param))
      /\ count + 1 < Len(param) /\ param[count + 1] = Blank
  BY DEF Reaches
<1>4. /\ told \in Seq(Char) /\ told # <<>>
      /\ Len(param) - Len(told) - 1 = count
      /\ param = named \o <<Blank>> \o told
  BY <1>1, <1>3, Parted
<1>. HIDE DEF told
<1>5. /\ Said("told", told).kind = "told" /\ Said("told", told).text = told
      /\ Said("sent", szAlias[node]).kind = "sent" /\ Silence.kind = ""
  BY DEF Said, Silence
<1>6. /\ heard'[node] = Said("told", told)
      /\ n # node => heard'[n] = Said("sent", szAlias[node])
      /\ \A m \in Node \ {node, n} : heard'[m] = Silence
  BY <1>1, <1>2 DEF To, Nothing
<1>7. Told' = {node}
  <2>1. Told' = {m \in Node : heard'[m].kind = "told"}
    BY DEF Told
  <2>2. \A m \in Node : heard'[m].kind = "told" <=> m = node
    BY <1>1, <1>5, <1>6
  <2> QED BY <2>1, <2>2
<1>8. TypistHears'
  <2>1. heard'[n] # Silence
    BY <1>5, <1>6
  <2> QED BY <1>1, <2>1 DEF TypistHears
<1>9. heard'[node].text = told
  BY <1>5, <1>6
<1>10. wordSearch(szAlias[node], named)
  <2>1. szAlias[node] \in Seq(Char) /\ wordSearch(szAlias[node], FirstToken(param))
    BY <1>3 DEF Named, Fitting
  <2>2. FirstToken(param) \in Seq(Char) /\ Len(FirstToken(param)) # 0
    BY <1>1, FirstTokenIs DEF Tellable
  <2>3. count <= InCommon(param, szUsedName(szAlias[node], FirstToken(param)))
    BY <1>3 DEF Used
  <2>4. count < Len(param)
    BY <1>1, <1>3
  <2>. HIDE DEF named
  <2>5. wordSearch(szAlias[node], SubSeq(param, 1, count))
    BY <1>1, <2>1, <2>2, <2>3, <2>4, NamedIs
  <2> QED BY <2>5 DEF named
<1>11. TellReachesNamed'
  <2>. HIDE DEF named
  <2>1. SubSeq(param, 1, Len(param) - Len(told) - 1) = named
    BY <1>4 DEF named
  <2> QED BY <1>1, <1>4, <1>6, <1>7, <1>9, <1>10, <2>1 DEF TellReachesNamed
<1>12. TellPrefersTheLongest'
  <2>1. CASE count = Len(Used(node, param))
    BY <1>1, <1>4, <1>7, <1>9, <2>1 DEF TellPrefersTheLongest, Used
  <2>2. CASE \A m \in Node : Fitting(m, param) =>
             \A k \in 1 .. Len(param) - 1 :
                param[k + 1] = Blank /\ InCommon(param, Used(m, param)) >= k => k <= count
    <3>1. \A m \in Node : m \in InGame => NamedBy(m, param) <= count
      BY <1>1, <2>2, NamedByIs
    <3>2. \A m \in InGame : NamedBy(m, param) <= count
      BY <3>1 DEF InGame
    <3>3. InGame' = InGame
      BY <1>1, SameGame
    <3>4. \A m : NamedBy(m, param)' = NamedBy(m, param)
      BY <1>1 DEF NamedBy
    <3>5. \A m : NamedBy(m, typed.param)' = NamedBy(m, param)
      BY <1>1 DEF NamedBy
    <3> QED BY <1>1, <1>4, <1>7, <1>9, <3>2, <3>3, <3>5 DEF TellPrefersTheLongest
  <2> QED BY <2>1, <2>2 DEF Reaches
<1> QED BY <1>8, <1>11, <1>12 DEF TellIsRight

\* The line that a command or an answer is, handled.
LEMMA EffectTells ==
    ASSUME Named, NEW n, NEW command \in Effects, NEW param, Typed(n, param),
           DoEffect(n, command, param)
    PROVE  TellIsRight'
<1>. DEFINE sent(kind, text) == heard' = To(n, Said(kind, text)) \/ heard' = ToAll(Said(kind, text))
<1>1. ASSUME NEW kind \in Kinds \ {"told"}, NEW text, sent(kind, text) PROVE TellIsRight'
  <2>1. kind # "" /\ kind # "told"
    BY <1>1 DEF Kinds
  <2>2. heard' = To(n, Said(kind, text)) \/ heard' = ToAll(Said(kind, text))
    BY <1>1
  <2> QED BY <2>1, <2>2, NothingTold
<1>2. {"players", "alreadySkipped", "skips", "entry", "blank", "syntax", "several",
       "scores", "screen", "refused", "registration", "thread"} \subseteq Kinds \ {"told"}
  BY DEF Kinds
<1>. HIDE DEF sent
<1>3. CASE command = "skip"
  <2>1. sent("alreadySkipped", <<>>) \/ sent("skips", <<>>)
    BY <1>3 DEF DoEffect, SkipCommand, sent
  <2> QED BY <1>1, <1>2, <2>1
<1>4. CASE command = "players"
  <2>1. sent("players", listOnlinePlayers)
    BY <1>4 DEF DoEffect, sent
  <2> QED BY <1>1, <1>2, <2>1
<1>5. CASE command = "help"
  <2>1. sent("blank", <<>>) \/ sent("entry", param)
    BY <1>5 DEF DoEffect, HelpCommand, displayHlp, sent
  <2> QED BY <1>1, <1>2, <2>1
<1>6. CASE command = "tell"
  <2>1. TellCommand(n, param)
    BY <1>6 DEF DoEffect
  <2>2. n \in Node /\ param \in Seq(Char)
    BY DEF Typed, InGame
  <2>3. \/ sent("syntax", <<>>) \/ sent("several", <<>>)
        \/ Tellable(param) /\ \E node \in Node, count \in Nat : Reaches(n, param, node, count)
    BY <2>1, <2>2, TellIs DEF sent
  <2> QED BY <1>1, <1>2, <2>3, SomethingTold
<1>7. CASE command \in {"submit", "correction"}
  <2>1. sent("entry", <<>>)
    BY <1>7 DEF DoEffect, sent
  <2> QED BY <1>1, <1>2, <2>1
<1>8. CASE command = "scores"
  <2>1. sent("scores", <<>>)
    BY <1>8 DEF DoEffect, sent
  <2> QED BY <1>1, <1>2, <2>1
<1>9. CASE command = "exit"
  <2>1. sent("thread", <<>>)
    BY <1>9 DEF DoEffect, sent
  <2> QED BY <1>1, <1>2, <2>1
<1>10. CASE command = "sysop"
  <2>1. sent("thread", <<>>) \/ sent("refused", <<>>)
    BY <1>10 DEF DoEffect, SysopCommand, sent
  <2> QED BY <1>1, <1>2, <2>1
<1>11. CASE command = "menu"
  <2>1. sent("screen", <<>>)
    BY <1>11 DEF DoEffect, sent
  <2> QED BY <1>1, <1>2, <2>1
<1>12. CASE command = "checkreg"
  <2>1. sent("registration", <<>>)
    BY <1>12 DEF DoEffect, sent
  <2> QED BY <1>1, <1>2, <2>1
<1> QED BY <1>3, <1>4, <1>5, <1>6, <1>7, <1>8, <1>9, <1>10, <1>11, <1>12 DEF Effects

LEMMA TypesName ==
    ASSUME CommandsTypeOK
    PROVE  Named /\ \A param \in Params \cup {<<>>} : param \in Seq(Char)
<1>1. Aliases \subseteq Seq(Char) /\ Params \subseteq Seq(Char)
  BY CommandsAssumption DEF CommandsAssumption
<1>2. <<>> \in Seq(Char)
  OBVIOUS
<1> QED BY <1>1, <1>2 DEF CommandsTypeOK, Named

LEMMA NobodyTold == ASSUME typed = <<>>, heard = Nothing PROVE TellIsRight
<1>1. Told = {}
  BY DEF Told, Nothing, Silence, Said
<1> QED BY <1>1 DEF TellIsRight, TellReachesNamed, TellPrefersTheLongest, TypistHears

LEMMA NobodyToldNow == ASSUME typed' = <<>>, heard' = Nothing PROVE TellIsRight'
<1>1. Told' = {}
  BY DEF Told, Nothing, Silence, Said
<1> QED BY <1>1 DEF TellIsRight, TellReachesNamed, TellPrefersTheLongest, TypistHears

LEMMA TellStep == ASSUME CommandsTypeOK, CommandsNext PROVE TellIsRight'
<1>1. CASE Taken
  BY <1>1, NobodyToldNow DEF Taken
<1>2. ASSUME NEW n \in Node, NEW word \in CommandWords \cup OtherWords,
             NEW param \in Params \cup {<<>>}, centralInput(n, word, param)
      PROVE  TellIsRight'
  <2>1. Named /\ param \in Seq(Char)
    BY TypesName
  <2>2. Typed(n, param)
    BY <1>2, <2>1 DEF Typed, centralInput
  <2>3. \/ heard' = To(n, Said("question", <<>>)) \/ heard' = ToAll(Said("question", <<>>))
        \/ heard' = To(n, Said("won", <<>>)) \/ heard' = ToAll(Said("won", <<>>))
        \/ heard' = To(n, Said("says", param)) \/ heard' = ToAll(Said("says", param))
        \/ word \in CommandWords /\ DoEffect(n, getCommand(word), param)
    BY <1>2 DEF centralInput
  <2>4. ASSUME NEW kind \in {"question", "won", "says"}, NEW text,
               heard' = To(n, Said(kind, text)) \/ heard' = ToAll(Said(kind, text))
        PROVE  TellIsRight'
    <3>1. kind # "" /\ kind # "told"
      OBVIOUS
    <3> QED BY <2>2, <2>4, <3>1, NothingTold
  <2>5. CASE word \in CommandWords /\ DoEffect(n, getCommand(word), param)
    BY <2>1, <2>2, <2>5, CommandsAre, EffectTells
  <2> QED BY <2>3, <2>4, <2>5
<1> QED BY <1>1, <1>2 DEF CommandsNext

LEMMA TellStays == ASSUME TellIsRight, UNCHANGED commandVars PROVE TellIsRight'
<1>1. szAlias' = szAlias /\ typed' = typed /\ heard' = heard
  BY DEF commandVars
<1> QED BY <1>1 DEF TellIsRight, TellReachesNamed, TellPrefersTheLongest, TypistHears, Told, NamedBy, InGame

\* What is told goes to the one player whom the line named and who is named with the most
\* words of it, all that follows the name is what he is told, and whoever types a line hears
\* something because of it (commands.cpp:150-268).
THEOREM TellsTheNamed == Spec => []TellIsRight
<1>1. DisplayInit => TellIsRight
  BY NobodyTold DEF DisplayInit, CommandsInit
<1>2. CommandsTypeOK /\ TellIsRight /\ [DisplayNext]_displayVars => TellIsRight'
  <2>1. [DisplayNext]_displayVars => CommandsNext \/ UNCHANGED commandVars
    BY DEF DisplayNext, MoveClue, MoveRanking, MoveCommands, MoveScreen, displayVars
  <2> QED BY <2>1, TellStep, TellStays
<1>3. DisplayTypeOK => CommandsTypeOK
  BY DEF DisplayTypeOK
<1> QED BY <1>1, <1>2, <1>3, DisplayTypes, PTL DEF Spec

-----------------------------------------------------------------------------
(* Messages, put together and taken apart                                  *)

\* A sequence begins with another.
Begins(s, t) == Len(t) <= Len(s) /\ \A q \in 1 .. Len(t) : s[q] = t[q]

LEMMA JoinBegins ==
    ASSUME NEW S, NEW a \in Seq(S), NEW b \in Seq(S)
    PROVE  a \o b \in Seq(S) /\ Begins(a \o b, a)
<1>1. /\ a \o b \in Seq(S)
      /\ Len(a \o b) = Len(a) + Len(b)
      /\ \A q \in 1 .. Len(a) : (a \o b)[q] = a[q]
  BY Joined
<1>2. Len(a) \in Nat /\ Len(b) \in Nat
  OBVIOUS
<1>3. Len(a) <= Len(a) + Len(b)
  BY <1>2
<1> QED BY <1>1, <1>3 DEF Begins

LEMMA BeginsOn ==
    ASSUME NEW S, NEW a \in Seq(S), NEW b \in Seq(S), NEW c \in Seq(S), Begins(b, a), Begins(c, b)
    PROVE  Begins(c, a)
<1>1. Len(a) \in Nat /\ Len(b) \in Nat /\ Len(c) \in Nat
  OBVIOUS
<1>2. Len(a) <= Len(b) /\ Len(b) <= Len(c)
  BY DEF Begins
<1>3. \A q \in 1 .. Len(a) : q \in 1 .. Len(b)
  BY <1>1, <1>2
<1> QED BY <1>1, <1>2, <1>3 DEF Begins

\* The numbers of a message, one after the other, and a blank after each.
Strings(C, numbers, P) ==
    /\ P \in [0 .. Len(numbers) -> Seq(C)]
    /\ P[0] = <<>>
    /\ \A k \in 0 .. Len(numbers) - 1 : P[k + 1] = P[k] \o numbers[k + 1] \o <<Blank>>

LEMMA ToStringIs ==
    ASSUME NEW C, Blank \in C, NEW numbers \in Seq(Seq(C)), NEW text
    PROVE  \E P : Strings(C, numbers, P) /\ toString(numbers, text) = P[Len(numbers)] \o text
<1>. DEFINE N == Len(numbers)
            D == SUBSET (1 .. N)
            step(g, s) == IF s = {} THEN <<>> ELSE g[s \ {Max(s)}] \o numbers[Max(s)] \o <<Blank>>
            op == [e \in Seq(C) \X (1 .. N) |-> e[1] \o numbers[e[2]] \o <<Blank>>]
<1>1. N \in Nat /\ DOMAIN numbers = 1 .. N /\ \A k \in 1 .. N : numbers[k] \in Seq(C)
  OBVIOUS
<1>2. <<>> \in Seq(C) /\ <<Blank>> \in Seq(C)
  OBVIOUS
<1>. HIDE DEF N
<1>3. \A s \in Seq(C), k \in 1 .. N : s \o numbers[k] \o <<Blank>> \in Seq(C)
  BY <1>1
<1>4. op \in [Seq(C) \X (1 .. N) -> Seq(C)]
  BY <1>3
<1>5. \A s \in Seq(C), k \in 1 .. N : op[<<s, k>>] = s \o numbers[k] \o <<Blank>>
  OBVIOUS
<1>. HIDE DEF op
<1>6. PICK g \in [D -> Seq(C)] : Folds(N, <<>>, op, g)
  BY <1>1, <1>2, <1>4, FoldExists
<1>7. ASSUME NEW s \in D, s # {} PROVE s \ {Max(s)} \in D /\ Max(s) \in 1 .. N
  <2>1. s \subseteq Nat /\ \A m \in s : m <= N
    BY <1>1
  <2>2. Max(s) \in s
    BY <1>1, <1>7, <2>1, MaxIs
  <2> QED BY <2>2
<1>8. ASSUME NEW s \in D PROVE g[s] = step(g, s)
  <2>1. g[s] = IF s = {} THEN <<>> ELSE op[<<g[s \ {Max(s)}], Max(s)>>]
    BY <1>6 DEF Folds
  <2>2. s # {} => op[<<g[s \ {Max(s)}], Max(s)>>] = g[s \ {Max(s)}] \o numbers[Max(s)] \o <<Blank>>
    BY <1>5, <1>7
  <2> QED BY <2>1, <2>2
<1>9. g = [s \in D |-> step(g, s)]
  <2>. HIDE DEF step
  <2> QED BY <1>8
<1>. DEFINE iter == CHOOSE h : h = [s \in D |-> step(h, s)]
<1>10. iter = [s \in D |-> step(iter, s)]
  BY <1>9
<1>11. toString(numbers, text) = iter[1 .. N] \o text
  BY <1>1 DEF toString, FoldLeft, MapThenFoldSet
<1>. HIDE DEF iter
<1>12. \A s \in D : iter[s] = step(iter, s)
  <2>. HIDE DEF step
  <2> QED BY <1>10
<1>. DEFINE P == [k \in 0 .. N |-> iter[1 .. k]]
            T == {k \in Nat : k <= N => iter[1 .. k] \in Seq(C)}
<1>13. iter[1 .. 0] = <<>>
  <2>1. 1 .. 0 = {} /\ {} \in D
    BY UpTo
  <2> QED BY <1>12, <2>1
<1>14. ASSUME NEW k \in Nat, k + 1 <= N
       PROVE  iter[1 .. k + 1] = iter[1 .. k] \o numbers[k + 1] \o <<Blank>>
  <2>1. 1 .. k + 1 \in D
    BY <1>1, <1>14
  <2>2. 1 .. k + 1 # {} /\ Max(1 .. k + 1) = k + 1 /\ (1 .. k + 1) \ {k + 1} = 1 .. k
    BY UpTo
  <2>3. iter[1 .. k + 1] = step(iter, 1 .. k + 1)
    BY <1>12, <2>1
  <2> QED BY <2>2, <2>3
<1>15. 0 \in T
  BY <1>2, <1>13
<1>16. ASSUME NEW k \in Nat, k \in T PROVE k + 1 \in T
  <2>1. SUFFICES ASSUME k + 1 <= N PROVE iter[1 .. k + 1] \in Seq(C)
    OBVIOUS
  <2>2. k <= N /\ k + 1 \in 1 .. N
    BY <1>1, <2>1
  <2> QED BY <1>3, <1>14, <1>16, <2>1, <2>2
<1>17. \A k \in Nat : k \in T
  <2>. HIDE DEF T
  <2> QED BY <1>15, <1>16, Induct
<1>18. Strings(C, numbers, P)
  <2>1. \A k \in 0 .. N : k \in Nat /\ k <= N
    BY <1>1
  <2>2. P \in [0 .. N -> Seq(C)]
    BY <1>17, <2>1
  <2>3. 0 \in 0 .. N /\ \A k \in 0 .. N - 1 : k \in 0 .. N /\ k + 1 \in 0 .. N /\ k \in Nat /\ k + 1 <= N
    BY <1>1
  <2>4. P[0] = <<>>
    BY <1>13, <2>3
  <2>5. \A k \in 0 .. N - 1 : P[k + 1] = P[k] \o numbers[k + 1] \o <<Blank>>
    BY <1>14, <2>3
  <2>. HIDE DEF P
  <2> QED BY <2>2, <2>4, <2>5 DEF Strings, N
<1>19. P[N] = iter[1 .. N]
  BY <1>1
<1> QED BY <1>11, <1>18, <1>19 DEF N

\* Numbers as toString writes them: not empty, and without blanks.
NumbersOf(C) == Seq(Seq(C \ {Blank}) \ {<<>>})

LEMMA NumberIs ==
    ASSUME NEW C, Blank \in C, NEW numbers \in NumbersOf(C)
    PROVE  /\ Len(numbers) \in Nat /\ DOMAIN numbers = 1 .. Len(numbers)
           /\ numbers \in Seq(Seq(C))
           /\ \A k \in 1 .. Len(numbers) :
                 /\ numbers[k] \in Seq(C) /\ Len(numbers[k]) \in Nat \ {0}
                 /\ \A q \in 1 .. Len(numbers[k]) : numbers[k][q] # Blank
<1>1. Len(numbers) \in Nat /\ DOMAIN numbers = 1 .. Len(numbers)
      /\ \A k \in 1 .. Len(numbers) : numbers[k] \in Seq(C \ {Blank}) \ {<<>>}
  BY DEF NumbersOf
<1>2. ASSUME NEW s \in Seq(C \ {Blank}) \ {<<>>}
      PROVE  s \in Seq(C) /\ Len(s) \in Nat \ {0} /\ \A q \in 1 .. Len(s) : s[q] # Blank
  OBVIOUS
<1>3. \A k \in 1 .. Len(numbers) : numbers[k] \in Seq(C)
  BY <1>1, <1>2
<1>4. numbers \in Seq(Seq(C))
  <2>1. numbers \in Seq(Seq(C \ {Blank}) \ {<<>>})
    BY DEF NumbersOf
  <2> QED BY <1>1, <1>3, <2>1
<1> QED BY <1>1, <1>2, <1>4

\* Each part of a message begins it.
LEMMA PartsBegin ==
    ASSUME NEW C, Blank \in C, NEW numbers \in NumbersOf(C), NEW P, Strings(C, numbers, P),
           NEW text \in Seq(C)
    PROVE  \A k \in 0 .. Len(numbers) : P[k] \in Seq(C) /\ Begins(P[Len(numbers)] \o text, P[k])
<1>. DEFINE N == Len(numbers)
            S == P[N] \o text
            T == {d \in Nat : d <= N => Begins(S, P[N - d])}
<1>1. N \in Nat /\ numbers \in Seq(Seq(C))
  BY NumberIs
<1>2. \A k \in 0 .. N : P[k] \in Seq(C)
  BY DEF Strings
<1>. HIDE DEF N
<1>3. N \in 0 .. N /\ N - 0 = N
  BY <1>1
<1>4. S \in Seq(C) /\ Begins(S, P[N])
  BY <1>2, <1>3, JoinBegins
<1>5. 0 \in T
  BY <1>3, <1>4
<1>. HIDE DEF S
<1>6. ASSUME NEW d \in Nat, d \in T PROVE d + 1 \in T
  <2>1. SUFFICES ASSUME d + 1 <= N PROVE Begins(S, P[N - (d + 1)])
    OBVIOUS
  <2>. DEFINE k == N - (d + 1)
  <2>2. /\ d <= N /\ k \in 0 .. N - 1 /\ k \in 0 .. N /\ k + 1 \in 0 .. N /\ k + 1 = N - d
        /\ k + 1 \in 1 .. N
    BY <1>1, <2>1
  <2>. HIDE DEF k
  <2>3. Begins(S, P[k + 1])
    BY <1>6, <2>2
  <2>4. P[k + 1] = P[k] \o numbers[k + 1] \o <<Blank>>
    BY <2>2 DEF Strings, N
  <2>5. Begins(P[k + 1], P[k])
    <3>1. numbers[k + 1] \in Seq(C)
      BY <2>2, NumberIs DEF N
    <3>2. <<Blank>> \in Seq(C) /\ P[k] \in Seq(C)
      BY <1>2, <2>2
    <3>3. P[k] \o numbers[k + 1] \in Seq(C) /\ Begins(P[k] \o numbers[k + 1], P[k])
      BY <3>1, <3>2, JoinBegins
    <3>4. (P[k] \o numbers[k + 1]) \o <<Blank>> \in Seq(C)
          /\ Begins((P[k] \o numbers[k + 1]) \o <<Blank>>, P[k] \o numbers[k + 1])
      BY <3>2, <3>3, JoinBegins
    <3>. DEFINE x == P[k] \o numbers[k + 1]
                y == x \o <<Blank>>
    <3>5. P[k] \in Seq(C) /\ x \in Seq(C) /\ y \in Seq(C) /\ Begins(x, P[k]) /\ Begins(y, x)
      BY <3>2, <3>3, <3>4
    <3>. HIDE DEF y, x
    <3>6. Begins(y, P[k])
      BY <3>5, BeginsOn
    <3> QED BY <2>4, <3>6 DEF x, y
  <2>6. P[k] \in Seq(C) /\ P[k + 1] \in Seq(C)
    BY <1>2, <2>2
  <2> QED BY <1>4, <2>3, <2>5, <2>6, BeginsOn DEF k
<1>7. \A d \in Nat : d \in T
  <2>. HIDE DEF T
  <2> QED BY <1>5, <1>6, Induct
<1>8. ASSUME NEW k \in 0 .. N PROVE Begins(S, P[k])
  <2>1. N - k \in Nat /\ N - k <= N /\ N - (N - k) = k
    BY <1>1
  <2>2. N - k \in T
    BY <1>7, <2>1
  <2> QED BY <2>1, <2>2
<1> QED BY <1>2, <1>8 DEF S, N

\* strtok finds what there is up to a blank, and the place behind it.
LEMMA TokenAt ==
    ASSUME NEW C, NEW s \in Seq(C), NEW b \in Nat \ {0}, NEW e \in Nat, b < e, e <= Len(s),
           s[e] = Blank, \A p \in b .. e - 1 : s[p] # Blank
    PROVE  /\ Token(s, b).text = SubSeq(s, b, e - 1)
           /\ Token(s, b).next = e + 1
<1>. DEFINE L == Len(s)
            A == {p \in b .. L : s[p] # Blank}
            ends(start) == {p \in start .. L : s[p] = Blank} \cup {L + 1}
            E == ends(b)
<1>1. L \in Nat
  OBVIOUS
<1>2. Token(s, b) = [text |-> SubSeq(s, Min(A), Min(ends(Min(A))) - 1), next |-> Min(ends(Min(A))) + 1]
  BY DEF Token
<1>3. b \in A /\ A \subseteq Nat /\ \A p \in A : b <= p
  <2>1. b \in b .. e - 1 /\ b \in b .. L /\ \A p \in b .. L : p \in Nat /\ b <= p
    BY <1>1
  <2> QED BY <2>1
<1>4. e \in E /\ E \subseteq Nat /\ \A p \in E : e <= p
  <2>1. e \in b .. L /\ (\A p \in b .. L : p \in Nat) /\ L + 1 \in Nat /\ e <= L + 1
    BY <1>1
  <2>2. ASSUME NEW p \in b .. L, s[p] = Blank PROVE e <= p
    <3>1. p < e => p \in b .. e - 1
      BY <1>1
    <3>2. ~(p < e)
      BY <2>2, <3>1
    <3> QED BY <1>1, <3>2
  <2> QED BY <2>1, <2>2
<1>5. Min(A) = b
  <2>. HIDE DEF A
  <2>1. Min(A) \in A /\ \A p \in A : Min(A) <= p
    BY <1>3, MinIs
  <2>2. Min(A) \in Nat /\ Min(A) <= b /\ b <= Min(A)
    BY <1>3, <2>1
  <2> QED BY <2>2
<1>6. Min(E) = e
  <2>. HIDE DEF E
  <2>1. Min(E) \in E /\ \A p \in E : Min(E) <= p
    BY <1>4, MinIs
  <2>2. Min(E) \in Nat /\ Min(E) <= e /\ e <= Min(E)
    BY <1>4, <2>1
  <2> QED BY <2>2
<1>7. Min(ends(b)) = e
  BY <1>6
<1>. HIDE DEF A, E, ends
<1>8. Token(s, b) = [text |-> SubSeq(s, b, e - 1), next |-> e + 1]
  BY <1>2, <1>5, <1>7
<1> QED BY <1>8

LEMMA Ahead ==
    ASSUME NEW a \in Nat, NEW m \in Nat \ {0}, NEW L \in Nat, a + m + 1 <= L
    PROVE  /\ a + 1 \in Nat \ {0} /\ a + m + 1 \in Nat /\ a + 1 < a + m + 1
           /\ a + m + 1 - 1 \in Nat /\ a + 1 <= a + m + 1 - 1 + 1 /\ a + m + 1 - 1 <= L
           /\ a + m + 1 - 1 - (a + 1) + 1 = m
           /\ \A p \in a + 1 .. a + m + 1 - 1 : p - a \in 1 .. m /\ a + (p - a) = p
           /\ \A q \in 1 .. m : a + 1 + q - 1 = a + q
OBVIOUS

\* A number and a blank follow the first a characters.
NumberAt(s, number, m, a) ==
    /\ m = Len(number) /\ \A q \in 1 .. m : number[q] # Blank
    /\ a + m + 1 <= Len(s)
    /\ \A q \in 1 .. m : s[a + q] = number[q]
    /\ s[a + m + 1] = Blank

\* strtok finds it, and the place behind the blank.
LEMMA TokenIs ==
    ASSUME NEW C, NEW s \in Seq(C), NEW number \in Seq(C), NEW a \in Nat, NEW m \in Nat \ {0},
           NumberAt(s, number, m, a)
    PROVE  Token(s, a + 1).text = number /\ Token(s, a + 1).next = a + m + 1 + 1
<1>. DEFINE b == a + 1
            e == a + m + 1
            t == SubSeq(s, b, e - 1)
<1>. USE DEF NumberAt
<1>0. Len(s) \in Nat
  OBVIOUS
<1>1. /\ b \in Nat \ {0} /\ e \in Nat /\ b < e /\ e - 1 \in Nat /\ b <= e - 1 + 1 /\ e - 1 <= Len(s)
      /\ e - 1 - b + 1 = m
      /\ \A p \in b .. e - 1 : p - a \in 1 .. m /\ a + (p - a) = p
      /\ \A q \in 1 .. m : b + q - 1 = a + q
  BY <1>0, Ahead
<1>2. e <= Len(s) /\ s[e] = Blank
  OBVIOUS
<1>. HIDE DEF b, e
<1>3. ASSUME NEW p \in b .. e - 1 PROVE s[p] # Blank
  <2>. DEFINE q == p - a
  <2>1. q \in 1 .. m /\ a + q = p
    BY <1>1
  <2>. HIDE DEF q
  <2>2. s[a + q] = number[q] /\ number[q] # Blank
    BY <2>1
  <2> QED BY <2>1, <2>2
<1>4. Token(s, b).text = t /\ Token(s, b).next = e + 1
  BY <1>1, <1>2, <1>3, TokenAt
<1>5. t \in Seq(C) /\ Len(t) = e - 1 - b + 1 /\ \A q \in 1 .. e - 1 - b + 1 : t[q] = s[b + q - 1]
  BY <1>1, PartOf
<1>. HIDE DEF t
<1>6. Len(t) = Len(number) /\ \A q \in 1 .. Len(t) : t[q] = number[q]
  BY <1>1, <1>5
<1>7. t = number
  BY <1>5, <1>6, SeqEqual
<1> QED BY <1>4, <1>7 DEF b, e

\* Where fromString finds the numbers.
LEMMA NumbersAt ==
    ASSUME NEW C, Blank \in C, NEW numbers \in NumbersOf(C), NEW P, Strings(C, numbers, P),
           NEW text \in Seq(C), NEW k \in 0 .. Len(numbers) - 1
    PROVE  LET token == Token(P[Len(numbers)] \o text, Len(P[k]) + 1)
           IN  token.text = numbers[k + 1] /\ token.next = Len(P[k + 1]) + 1
<1>. DEFINE N == Len(numbers)
            s == P[N] \o text
            number == numbers[k + 1]
            a == Len(P[k])
            m == Len(number)
<1>1. N \in Nat /\ k \in 0 .. N /\ k + 1 \in 0 .. N /\ k + 1 \in 1 .. N
  BY NumberIs
<1>2. P[k] \in Seq(C) /\ P[k + 1] \in Seq(C) /\ Begins(s, P[k + 1])
  BY <1>1, PartsBegin
<1>3. number \in Seq(C) /\ m \in Nat \ {0} /\ \A q \in 1 .. m : number[q] # Blank
  BY <1>1, NumberIs
<1>4. P[k + 1] = (P[k] \o number) \o <<Blank>>
  BY DEF Strings
<1>5. s \in Seq(C)
  <2>1. N \in 0 .. N
    BY <1>1
  <2>2. P[N] \in Seq(C)
    BY <2>1, PartsBegin
  <2> QED BY <2>2, Joined
<1>. DEFINE x == P[k] \o number
<1>. HIDE DEF s, number, N
<1>6. x \in Seq(C) /\ Len(x) = a + m /\ \A q \in 1 .. m : x[a + q] = number[q]
  BY <1>2, <1>3, Joined
<1>. DEFINE y == P[k + 1]
<1>7. a \in Nat
  BY <1>2
<1>8. y = x \o <<Blank>>
  BY <1>4
<1>. HIDE DEF x, y, a, m
<1>9. /\ Len(y) = a + m + 1
      /\ \A q \in 1 .. m : y[a + q] = number[q]
      /\ y[a + m + 1] = Blank
  <2>1. <<Blank>> \in Seq(C) /\ Len(<<Blank>>) = 1 /\ <<Blank>>[1] = Blank /\ 1 \in 1 .. 1
    OBVIOUS
  <2>2. /\ Len(x \o <<Blank>>) = Len(x) + Len(<<Blank>>)
        /\ \A q \in 1 .. Len(x) : (x \o <<Blank>>)[q] = x[q]
        /\ \A q \in 1 .. Len(<<Blank>>) : (x \o <<Blank>>)[Len(x) + q] = <<Blank>>[q]
    BY <1>6, <2>1, Joined
  <2>3. \A q \in 1 .. m : a + q \in 1 .. a + m
    BY <1>3, <1>7
  <2> QED BY <1>6, <1>8, <2>1, <2>2, <2>3
<1>10. a + m + 1 <= Len(s) /\ \A q \in 1 .. a + m + 1 : s[q] = y[q]
  BY <1>2, <1>9 DEF Begins, y
<1>11. /\ \A q \in 1 .. m : s[a + q] = number[q]
       /\ s[a + m + 1] = Blank
  <2>1. a + m + 1 \in 1 .. a + m + 1 /\ \A q \in 1 .. m : a + q \in 1 .. a + m + 1
    BY <1>3, <1>7
  <2> QED BY <1>9, <1>10, <2>1
<1>12. m = Len(number)
  BY DEF m
<1>13. Token(s, a + 1).text = number /\ Token(s, a + 1).next = a + m + 1 + 1
  <2>1. s \in Seq(C) /\ number \in Seq(C) /\ a \in Nat /\ m \in Nat \ {0}
    BY <1>3, <1>5, <1>7
  <2>2. \A q \in 1 .. m : number[q] # Blank
    BY <1>3
  <2>3. a + m + 1 <= Len(s) /\ s[a + m + 1] = Blank
    BY <1>10, <1>11
  <2>4. \A q \in 1 .. m : s[a + q] = number[q]
    BY <1>11
  <2>5. NumberAt(s, number, m, a)
    BY <1>12, <2>2, <2>3, <2>4 DEF NumberAt
  <2> QED BY <2>1, <2>5, TokenIs
<1> QED BY <1>9, <1>13 DEF s, number, N, a, y

\* What is taken apart is what was put together.
LEMMA Arrives ==
    ASSUME NEW C, Blank \in C, NEW numbers \in NumbersOf(C), NEW text \in Seq(C)
    PROVE  fromString(toString(numbers, text), Len(numbers)) = [numbers |-> numbers, text |-> text]
<1>. DEFINE N == Len(numbers)
<1>1. N \in Nat /\ DOMAIN numbers = 1 .. N /\ numbers \in Seq(Seq(C))
  BY NumberIs
<1>2. PICK P : Strings(C, numbers, P) /\ toString(numbers, text) = P[N] \o text
  BY <1>1, ToStringIs
<1>. DEFINE s == P[N] \o text
            next(h, k) == IF k = 0 THEN 1 ELSE Token(s, h[k - 1]).next
            at == CHOOSE h : h = [k \in 0 .. N |-> next(h, k)]
            found == [k \in 0 .. N |-> Len(P[k]) + 1]
<1>3. ASSUME NEW k \in 0 .. N - 1
      PROVE  Token(s, Len(P[k]) + 1).text = numbers[k + 1]
             /\ Token(s, Len(P[k]) + 1).next = Len(P[k + 1]) + 1
  BY <1>2, <1>3, NumbersAt
<1>4. Len(P[0]) = 0
  BY <1>2 DEF Strings
<1>5. fromString(toString(numbers, text), N) =
          [numbers |-> [k \in 1 .. N |-> Token(s, at[k - 1]).text], text |-> SubSeq(s, at[N], Len(s))]
  BY <1>2 DEF fromString
<1>. HIDE DEF s, N
<1>6. found = [k \in 0 .. N |-> next(found, k)]
  <2>1. ASSUME NEW k \in 0 .. N PROVE found[k] = next(found, k)
    <3>1. CASE k = 0
      BY <1>4, <3>1
    <3>2. CASE k # 0
      <4>1. k - 1 \in 0 .. N - 1 /\ k - 1 \in 0 .. N /\ k - 1 + 1 = k
        BY <1>1, <3>2
      <4>2. Token(s, Len(P[k - 1]) + 1).next = Len(P[k]) + 1
        BY <1>3, <4>1
      <4> QED BY <3>2, <4>1, <4>2
    <3> QED BY <3>1, <3>2
  <2>. HIDE DEF next
  <2> QED BY <2>1
<1>7. at = [k \in 0 .. N |-> next(at, k)]
  <2>. HIDE DEF next, found
  <2> QED BY <1>6
<1>. HIDE DEF at
<1>8. \A k \in 0 .. N : at[k] = next(at, k)
  <2>. HIDE DEF next
  <2> QED BY <1>7
<1>. DEFINE T == {k \in Nat : k <= N => at[k] = Len(P[k]) + 1}
<1>9. 0 \in T
  <2>1. 0 \in 0 .. N
    BY <1>1
  <2> QED BY <1>4, <1>8, <2>1
<1>10. ASSUME NEW k \in Nat, k \in T PROVE k + 1 \in T
  <2>1. SUFFICES ASSUME k + 1 <= N PROVE at[k + 1] = Len(P[k + 1]) + 1
    OBVIOUS
  <2>2. k <= N /\ k \in 0 .. N - 1 /\ k + 1 \in 0 .. N /\ k + 1 # 0 /\ k + 1 - 1 = k
    BY <1>1, <2>1
  <2>3. at[k] = Len(P[k]) + 1
    BY <1>10, <2>2
  <2>4. at[k + 1] = Token(s, at[k]).next
    BY <1>8, <2>2
  <2> QED BY <1>3, <2>2, <2>3, <2>4
<1>11. \A k \in Nat : k \in T
  <2>. HIDE DEF T
  <2> QED BY <1>9, <1>10, Induct
<1>12. \A k \in 0 .. N : at[k] = Len(P[k]) + 1
  BY <1>1, <1>11
<1>13. [k \in 1 .. N |-> Token(s, at[k - 1]).text] = numbers
  <2>1. ASSUME NEW k \in 1 .. N PROVE Token(s, at[k - 1]).text = numbers[k]
    <3>1. k - 1 \in 0 .. N - 1 /\ k - 1 \in 0 .. N /\ k - 1 + 1 = k
      BY <1>1
    <3> QED BY <1>3, <1>12, <3>1
  <2>2. numbers = [k \in 1 .. N |-> numbers[k]]
    BY <1>1
  <2> QED BY <2>1, <2>2
<1>14. SubSeq(s, at[N], Len(s)) = text
  <2>. DEFINE a == Len(P[N])
              t == SubSeq(s, a + 1, Len(s))
  <2>1. N \in 0 .. N
    BY <1>1
  <2>2. P[N] \in Seq(C)
    BY <1>2, <2>1, PartsBegin DEF N
  <2>3. /\ s \in Seq(C) /\ Len(s) = a + Len(text)
        /\ \A q \in 1 .. Len(text) : s[a + q] = text[q]
    BY <2>2, Joined DEF s
  <2>4. a \in Nat /\ Len(text) \in Nat /\ Len(s) \in Nat
    BY <2>2, <2>3
  <2>. DEFINE b == a + 1
              e == Len(s)
  <2>5. b \in Nat \ {0} /\ e \in Nat /\ b <= e + 1 /\ e <= Len(s) /\ e - b + 1 = Len(text)
        /\ \A q \in 1 .. Len(text) : b + q - 1 = a + q
    BY <2>3, <2>4
  <2>6. t = SubSeq(s, b, e)
    OBVIOUS
  <2>. HIDE DEF b, e, a, t
  <2>7. /\ SubSeq(s, b, e) \in Seq(C) /\ Len(SubSeq(s, b, e)) = e - b + 1
        /\ \A q \in 1 .. e - b + 1 : SubSeq(s, b, e)[q] = s[b + q - 1]
    BY <2>3, <2>5, PartOf
  <2>8. t \in Seq(C) /\ Len(t) = Len(text) /\ \A q \in 1 .. Len(t) : t[q] = text[q]
    BY <2>3, <2>5, <2>6, <2>7
  <2>9. t = text
    BY <2>8, SeqEqual
  <2> QED BY <1>12, <2>1, <2>9 DEF t, a
<1> QED BY <1>5, <1>13, <1>14 DEF N

LineEnd == <<"\r", "\n">>
Printable == Char \cup {"\r", "\n"}

LEMMA LineEndsAre == ASSUME NEW n \in 0 .. 2 PROVE FlattenSeq([k \in 1 .. n |-> LineEnd]) \in Seq(Printable)
<1>. DEFINE seqs == [k \in 1 .. n |-> LineEnd]
            next(h, i) == IF i = 1 THEN seqs[i] ELSE h[i - 1] \o seqs[i]
            ends == [i \in 1 .. n |-> IF i = 1 THEN LineEnd ELSE LineEnd \o LineEnd]
            flatten == CHOOSE h : h = [i \in 1 .. n |-> next(h, i)]
<1>1. LineEnd \in Seq(Printable) /\ LineEnd \o LineEnd \in Seq(Printable)
  BY DEF LineEnd, Printable
<1>2. Len(seqs) = n
  OBVIOUS
<1>3. CASE n = 0
  <2>1. FlattenSeq(seqs) = seqs /\ seqs = <<>>
    BY <1>2, <1>3 DEF FlattenSeq
  <2> QED BY <2>1
<1>4. CASE n # 0
  <2>1. ends = [i \in 1 .. n |-> next(ends, i)]
    <3>1. ASSUME NEW i \in 1 .. n PROVE ends[i] = next(ends, i)
      <4>1. i = 1 \/ (i # 1 /\ i - 1 = 1)
        OBVIOUS
      <4> QED BY <4>1
    <3>. HIDE DEF next
    <3> QED BY <3>1
  <2>2. flatten = [i \in 1 .. n |-> next(flatten, i)]
    <3>. HIDE DEF next, ends
    <3> QED BY <2>1
  <2>3. FlattenSeq(seqs) = flatten[n]
    BY <1>2, <1>4 DEF FlattenSeq
  <2>. HIDE DEF flatten
  <2>4. \A i \in 1 .. n : flatten[i] = next(flatten, i)
    <3>. HIDE DEF next
    <3> QED BY <2>2
  <2>5. 1 \in 1 .. n /\ flatten[1] = LineEnd
    BY <1>4, <2>4
  <2>6. n = 2 => flatten[2] = LineEnd \o LineEnd
    <3>1. ASSUME n = 2 PROVE flatten[2] = LineEnd \o LineEnd
      <4>1. 2 \in 1 .. n /\ 2 # 1 /\ 2 - 1 = 1 /\ seqs[2] = LineEnd
        BY <3>1
      <4>. HIDE DEF seqs
      <4>2. flatten[2] = flatten[2 - 1] \o seqs[2]
        BY <2>4, <4>1
      <4> QED BY <2>5, <4>1, <4>2
    <3> QED BY <3>1
  <2>7. n = 1 \/ n = 2
    BY <1>4
  <2> QED BY <1>1, <2>3, <2>5, <2>6, <2>7
<1> QED BY <1>3, <1>4

LEMMA ScreenIs ==
    /\ HelpFiles \subseteq Seq(HelpLine)
    /\ Topics \subseteq Seq(Char) \ {<<>>} /\ Paragraphs \subseteq Seq(Char)
    /\ PageLength \in Nat /\ Width \in Nat \ {0}
    /\ Numbers \subseteq Seq(Seq(Char \ {Blank}) \ {<<>>})
    /\ TextRoom \in Nat /\ TextRoom > 4
BY ScreenAssumption DEF ScreenAssumption

LEMMA AlmostAll == ASSUME NEW room \in Int, room - 1 \in Nat, NEW length \in Nat, length >= room PROVE room - 1 <= length
OBVIOUS

LEMMA PrintedIs ==
    ASSUME NEW text \in Seq(Char), NEW n \in 0 .. 2 PROVE Printed(text, n) \in Seq(Printable)
<1>. DEFINE room == TextRoom - 2 * n
            cut == SubSeq(text, 1, TextRoom - 1 - 2 * n)
            start == IF Len(text) >= room THEN cut ELSE text
<1>1. room \in Int /\ room - 1 \in Nat /\ TextRoom - 1 - 2 * n = room - 1 /\ 1 <= room - 1 + 1
  BY ScreenIs
<1>2. Len(text) \in Nat
  OBVIOUS
<1>3. start \in Seq(Char)
  <2>1. CASE Len(text) >= room
    <3>1. room - 1 <= Len(text)
      <4>. HIDE DEF room
      <4> QED BY <1>1, <1>2, <2>1, AlmostAll
    <3>. HIDE DEF room
    <3>2. SubSeq(text, 1, room - 1) \in Seq(Char)
      BY <1>1, <3>1, PartOf
    <3> QED BY <1>1, <2>1, <3>2
  <2>2. CASE ~(Len(text) >= room)
    BY <2>2
  <2> QED BY <2>1, <2>2
<1>4. start \in Seq(Printable)
  <2>1. Char \subseteq Printable
    BY DEF Printable
  <2>. HIDE DEF start
  <2> QED BY <1>3, <2>1
<1>5. Printed(text, n) = start \o FlattenSeq([k \in 1 .. n |-> LineEnd])
  BY DEF Printed, LineEnd
<1>. HIDE DEF start
<1>6. FlattenSeq([k \in 1 .. n |-> LineEnd]) \in Seq(Printable)
  BY LineEndsAre
<1> QED BY <1>4, <1>5, <1>6

\* What a message says when it has been sent.
LEMMA SentArrives == ASSUME SendText PROVE MessageArrives'
<1>1. PICK text \in Paragraphs, nNewlines \in 0 .. 2, numbers \in Numbers :
          LET message == IF Len(numbers) = 2 THEN text ELSE Printed(text, nNewlines)
          IN  /\ asked' = [what |-> "message", numbers |-> numbers, text |-> message]
              /\ shown' = fromString(toString(numbers, message), Len(numbers))
  BY DEF SendText
<1>. DEFINE message == IF Len(numbers) = 2 THEN text ELSE Printed(text, nNewlines)
<1>2. text \in Seq(Char)
  BY ScreenIs
<1>3. message \in Seq(Printable)
  <2>1. text \in Seq(Printable)
    <3>1. Char \subseteq Printable
      BY DEF Printable
    <3> QED BY <1>2, <3>1
  <2>2. Printed(text, nNewlines) \in Seq(Printable)
    BY <1>2, PrintedIs
  <2> QED BY <2>1, <2>2
<1>4. numbers \in NumbersOf(Printable) /\ Blank \in Printable
  <2>1. numbers \in Seq(Seq(Char \ {Blank}) \ {<<>>})
    BY ScreenIs
  <2>2. Seq(Char \ {Blank}) \subseteq Seq(Printable \ {Blank})
    <3>1. Char \ {Blank} \subseteq Printable \ {Blank}
      BY DEF Printable
    <3> QED BY <3>1
  <2>3. numbers \in Seq(Seq(Printable \ {Blank}) \ {<<>>})
    <3>. DEFINE S == Seq(Char \ {Blank}) \ {<<>>}
                R == Seq(Printable \ {Blank}) \ {<<>>}
    <3>1. S \subseteq R
      BY <2>2
    <3>. HIDE DEF S, R
    <3>2. numbers \in Seq(S)
      BY <2>1 DEF S
    <3>3. numbers \in Seq(R)
      BY <3>1, <3>2
    <3> QED BY <3>3 DEF R
  <2> QED BY <2>3, LowerIs DEF NumbersOf, Printable
<1>5. asked' = [what |-> "message", numbers |-> numbers, text |-> message]
      /\ shown' = fromString(toString(numbers, message), Len(numbers))
  BY <1>1
<1>. HIDE DEF message
<1>6. fromString(toString(numbers, message), Len(numbers)) = [numbers |-> numbers, text |-> message]
  BY <1>3, <1>4, Arrives
<1>7. asked'.numbers = numbers /\ asked'.text = message
  BY <1>5
<1> QED BY <1>5, <1>6, <1>7 DEF MessageArrives

-----------------------------------------------------------------------------
(* A text cut into lines                                                   *)

\* Two texts with a blank between them.
Joint(text, line) == IF text = <<>> THEN line ELSE text \o <<Blank>> \o line

\* The first lines, one after the other.
Joints(lines, P) ==
    /\ P \in [0 .. Len(lines) -> Seq(Char)]
    /\ P[0] = <<>>
    /\ \A k \in 0 .. Len(lines) - 1 : P[k + 1] = Joint(P[k], lines[k + 1])

LEMMA UnbrokenIs ==
    ASSUME NEW lines \in Seq(Seq(Char))
    PROVE  \E P : Joints(lines, P) /\ Unbroken(lines) = P[Len(lines)]
<1>. DEFINE N == Len(lines)
            D == SUBSET (1 .. N)
            add(s, k) == Joint(s, lines[k])
            step(g, s) == IF s = {} THEN <<>> ELSE add(g[s \ {Max(s)}], Max(s))
            op == [e \in Seq(Char) \X (1 .. N) |-> add(e[1], e[2])]
<1>1. N \in Nat /\ DOMAIN lines = 1 .. N /\ \A k \in 1 .. N : lines[k] \in Seq(Char)
  OBVIOUS
<1>2. <<>> \in Seq(Char) /\ <<Blank>> \in Seq(Char)
  BY LowerIs
<1>. HIDE DEF N
<1>3. \A s \in Seq(Char), k \in 1 .. N : add(s, k) \in Seq(Char)
  BY <1>1, <1>2 DEF Joint
<1>. HIDE DEF add
<1>4. op \in [Seq(Char) \X (1 .. N) -> Seq(Char)]
  BY <1>3
<1>5. \A s \in Seq(Char), k \in 1 .. N : op[<<s, k>>] = add(s, k)
  OBVIOUS
<1>. HIDE DEF op
<1>6. PICK g \in [D -> Seq(Char)] : Folds(N, <<>>, op, g)
  BY <1>1, <1>2, <1>4, FoldExists
<1>7. ASSUME NEW s \in D PROVE g[s] = step(g, s)
  <2>1. g[s] = IF s = {} THEN <<>> ELSE op[<<g[s \ {Max(s)}], Max(s)>>]
    BY <1>6 DEF Folds
  <2>2. s # {} => Max(s) \in 1 .. N /\ s \ {Max(s)} \in D
    BY <1>1, LastOff
  <2>3. s # {} => op[<<g[s \ {Max(s)}], Max(s)>>] = add(g[s \ {Max(s)}], Max(s))
    BY <1>5, <2>2
  <2> QED BY <2>1, <2>3
<1>8. g = [s \in D |-> step(g, s)]
  <2>. HIDE DEF step
  <2> QED BY <1>7
<1>. DEFINE iter == CHOOSE h : h = [s \in D |-> step(h, s)]
<1>9. iter = [s \in D |-> step(iter, s)]
  BY <1>8
<1>10. Unbroken(lines) = iter[1 .. N]
  BY <1>1 DEF Unbroken, add, Joint, FoldLeft, MapThenFoldSet
<1>. HIDE DEF iter
<1>11. \A s \in D : iter[s] = step(iter, s)
  <2>. HIDE DEF step
  <2> QED BY <1>9
<1>12. Folding(N, Seq(Char), <<>>, op, iter)
  <2>1. iter[{}] = <<>>
    BY <1>11
  <2>2. ASSUME NEW s \in D, s # {}, iter[s \ {Max(s)}] \in Seq(Char)
        PROVE  iter[s] = op[<<iter[s \ {Max(s)}], Max(s)>>]
    <3>1. Max(s) \in 1 .. N
      BY <1>1, <2>2, LastOff
    <3>2. iter[s] = add(iter[s \ {Max(s)}], Max(s))
      BY <1>11, <2>2
    <3> QED BY <1>5, <2>2, <3>1, <3>2
  <2> QED BY <2>1, <2>2 DEF Folding
<1>13. PICK P : Steps(N, Seq(Char), <<>>, op, P) /\ P[N] = iter[1 .. N]
  <2>1. Stepped(N, Seq(Char), <<>>, op, iter)
    BY <1>1, <1>2, <1>4, <1>12, FoldSteps
  <2> QED BY <2>1 DEF Stepped
<1>14. P \in [0 .. N -> Seq(Char)] /\ P[0] = <<>>
  BY <1>13 DEF Steps
<1>15. ASSUME NEW k \in 0 .. N - 1 PROVE P[k + 1] = add(P[k], k + 1)
  <2>1. k \in 0 .. N /\ k + 1 \in 1 .. N
    BY <1>1
  <2> QED BY <1>5, <1>13, <1>14, <2>1 DEF Steps
<1>16. Joints(lines, P)
  BY <1>14, <1>15 DEF Joints, add, N
<1> QED BY <1>10, <1>13, <1>16 DEF N

\* A line of a text: it goes from one place to a blank before the next, or to the end, and
\* is no wider than it must be.
LineOf(text, line, from, next, width) ==
    /\ from \in 1 .. Len(text) /\ next \in Nat /\ from + 1 < next /\ next <= Len(text) + 2
    /\ line = SubSeq(text, from, next - 2)
    /\ next <= Len(text) + 1 => text[next - 1] = Blank
    /\ Len(line) > width => \A p \in 2 .. width + 1 : line[p] # Blank

\* Lines that are what a text is broken into, and the places b where they begin; w says
\* how wide a line may be that begins at a place.
Broken(text, w, lines, b) ==
    /\ lines \in Seq(Seq(Char)) /\ b \in [1 .. Len(lines) + 1 -> Nat]
    /\ \A i \in 1 .. Len(lines) : LineOf(text, lines[i], b[i], b[i + 1], w[b[i]])
    /\ b[Len(lines) + 1] \in {Len(text) + 1, Len(text) + 2}

BrokenFrom(text, w, lines, from) == \E b : Broken(text, w, lines, b) /\ b[1] = from

LEMMA NoLines ==
    ASSUME NEW text \in Seq(Char), NEW w, NEW from \in {Len(text) + 1, Len(text) + 2}
    PROVE  BrokenFrom(text, w, <<>>, from)
<1>. DEFINE b == [i \in 1 .. 1 |-> from]
<1>1. <<>> \in Seq(Seq(Char)) /\ Len(<<>>) = 0 /\ Len(<<>>) + 1 = 1
  OBVIOUS
<1>2. from \in Nat /\ 1 \in 1 .. 1
  OBVIOUS
<1>3. b \in [1 .. 1 -> Nat] /\ b[1] = from
  BY <1>2
<1>. HIDE DEF b
<1>4. Broken(text, w, <<>>, b)
  BY <1>1, <1>3 DEF Broken
<1> QED BY <1>3, <1>4 DEF BrokenFrom

LEMMA Shift ==
    ASSUME NEW N \in Nat
    PROVE  /\ \A i \in 1 .. N + 1 + 1 : i # 1 => i - 1 \in 1 .. N + 1
           /\ \A i \in 1 .. N + 1 : /\ i + 1 \in 1 .. N + 1 + 1 /\ i \in 1 .. N + 1 + 1
                                    /\ i + 1 # 1 /\ i + 1 - 1 = i
                                    /\ i # 1 => i - 1 \in 1 .. N /\ i - 1 + 1 = i /\ 1 + (i - 1) = i
           /\ N + 1 + 1 \in 1 .. N + 1 + 1 /\ N + 1 + 1 # 1 /\ N + 1 + 1 - 1 = N + 1
           /\ 1 \in 1 .. N + 1 + 1 /\ 1 + N = N + 1
OBVIOUS

\* One more line in front.
LEMMA OneLineMore ==
    ASSUME NEW text \in Seq(Char), NEW w, NEW lines, NEW next, BrokenFrom(text, w, lines, next),
           NEW line \in Seq(Char), NEW from, LineOf(text, line, from, next, w[from])
    PROVE  BrokenFrom(text, w, <<line>> \o lines, from)
<1>1. PICK b : Broken(text, w, lines, b) /\ b[1] = next
  BY DEF BrokenFrom
<1>. DEFINE N == Len(lines)
            all == <<line>> \o lines
            c == [i \in 1 .. N + 1 + 1 |-> IF i = 1 THEN from ELSE b[i - 1]]
<1>2. lines \in Seq(Seq(Char)) /\ N \in Nat /\ b \in [1 .. N + 1 -> Nat]
  BY <1>1 DEF Broken
<1>3. <<line>> \in Seq(Seq(Char)) /\ Len(<<line>>) = 1 /\ <<line>>[1] = line
  OBVIOUS
<1>4. /\ all \in Seq(Seq(Char)) /\ Len(all) = N + 1
      /\ all[1] = line
      /\ \A q \in 1 .. N : all[1 + q] = lines[q]
  <2>1. /\ all \in Seq(Seq(Char)) /\ Len(all) = Len(<<line>>) + Len(lines)
        /\ \A q \in 1 .. Len(<<line>>) : all[q] = <<line>>[q]
        /\ \A q \in 1 .. Len(lines) : all[Len(<<line>>) + q] = lines[q]
    BY <1>2, <1>3, Joined
  <2>. HIDE DEF all
  <2>2. 1 \in 1 .. 1
    OBVIOUS
  <2> QED BY <1>2, <1>3, <2>1, <2>2
<1>5. /\ \A i \in 1 .. N : LineOf(text, lines[i], b[i], b[i + 1], w[b[i]])
      /\ b[N + 1] \in {Len(text) + 1, Len(text) + 2}
  BY <1>1 DEF Broken
<1>. HIDE DEF N, all
<1>6. /\ \A i \in 1 .. N + 1 + 1 : i # 1 => i - 1 \in 1 .. N + 1
      /\ \A i \in 1 .. N + 1 : /\ i + 1 \in 1 .. N + 1 + 1 /\ i \in 1 .. N + 1 + 1
                               /\ i + 1 # 1 /\ i + 1 - 1 = i
                               /\ i # 1 => i - 1 \in 1 .. N /\ i - 1 + 1 = i /\ 1 + (i - 1) = i
      /\ N + 1 + 1 \in 1 .. N + 1 + 1 /\ N + 1 + 1 # 1 /\ N + 1 + 1 - 1 = N + 1
      /\ 1 \in 1 .. N + 1 + 1 /\ 1 + N = N + 1
  BY <1>2, Shift
<1>7. from \in Nat
  BY DEF LineOf
<1>8. c \in [1 .. N + 1 + 1 -> Nat] /\ c[1] = from /\ c[N + 1 + 1] = b[N + 1]
      /\ \A i \in 1 .. N + 1 : c[i + 1] = b[i] /\ (i # 1 => c[i] = b[i - 1])
  BY <1>2, <1>6, <1>7
<1>. HIDE DEF c
<1>9. ASSUME NEW i \in 1 .. N + 1 PROVE LineOf(text, all[i], c[i], c[i + 1], w[c[i]])
  <2>1. CASE i = 1
    <3>1. c[i + 1] = next
      BY <1>1, <1>8, <2>1
    <3> QED BY <1>4, <1>8, <2>1, <3>1
  <2>2. CASE i # 1
    <3>1. i - 1 \in 1 .. N /\ i - 1 + 1 = i /\ 1 + (i - 1) = i
      BY <1>6, <2>2
    <3>2. all[i] = lines[i - 1]
      BY <1>4, <3>1
    <3>3. LineOf(text, lines[i - 1], b[i - 1], b[i - 1 + 1], w[b[i - 1]])
      BY <1>5, <3>1
    <3>4. c[i] = b[i - 1] /\ c[i + 1] = b[i - 1 + 1]
      BY <1>8, <2>2, <3>1
    <3> QED BY <3>2, <3>3, <3>4
  <2> QED BY <2>1, <2>2
<1>10. Broken(text, w, all, c)
  BY <1>4, <1>5, <1>8, <1>9 DEF Broken
<1> QED BY <1>8, <1>10 DEF BrokenFrom, all

LEMMA LongEnough ==
    ASSUME NEW L \in Nat, NEW from \in 1 .. L
    PROVE  /\ L + 2 \in Nat /\ from + 1 < L + 2 /\ L + 2 <= L + 2 /\ L + 2 - 2 = L /\ ~(L + 2 <= L + 1)
           /\ from \in Nat \ {0} /\ from <= L + 1 /\ L <= L /\ L - from + 1 \in Nat
OBVIOUS

LEMMA Breaks ==
    ASSUME NEW L \in Nat, NEW from \in 1 .. L, NEW m \in Nat \ {0}, from + m <= L
    PROVE  /\ from + m + 1 \in Nat /\ from + 1 < from + m + 1 /\ from + m + 1 <= L + 2
           /\ from + m + 1 - 2 = from + m - 1 /\ from + m + 1 - 1 = from + m
           /\ from + m - 1 \in Nat /\ from <= from + m - 1 + 1 /\ from + m - 1 <= L
           /\ from + m - 1 - from + 1 = m /\ from \in Nat \ {0}
           /\ from + m + 1 \in 1 .. L + 1 /\ L + 1 - (from + m + 1) < L + 1 - from
OBVIOUS

\* The last line, and the first of more.
LEMMA LastLineIs ==
    ASSUME NEW text \in Seq(Char), NEW from \in 1 .. Len(text), NEW width \in Nat \ {0},
           Len(text) - from + 1 <= width \/ BreakAt(text, from, width) = {}
    PROVE  LET line == SubSeq(text, from, Len(text))
           IN  line \in Seq(Char) /\ LineOf(text, line, from, Len(text) + 2, width)
<1>. DEFINE L == Len(text)
            line == SubSeq(text, from, L)
<1>1. L \in Nat
  OBVIOUS
<1>2. /\ L + 2 \in Nat /\ from + 1 < L + 2 /\ L + 2 <= L + 2 /\ L + 2 - 2 = L /\ ~(L + 2 <= L + 1)
      /\ from \in Nat \ {0} /\ from <= L + 1 /\ L <= L /\ L - from + 1 \in Nat
  BY <1>1, LongEnough
<1>3. line \in Seq(Char) /\ Len(line) = L - from + 1 /\ \A q \in 1 .. L - from + 1 : line[q] = text[from + q - 1]
  BY <1>1, <1>2, PartIs
<1>. HIDE DEF line
<1>4. ASSUME Len(line) > width, NEW p \in 2 .. width + 1 PROVE line[p] # Blank
  <2>. DEFINE m == p - 1
  <2>1. BreakAt(text, from, width) = {}
    BY <1>1, <1>2, <1>3, <1>4
  <2>2. m \in 1 .. width /\ from + m <= L /\ from + p - 1 = from + m /\ p \in 1 .. L - from + 1
    BY <1>1, <1>2, <1>3, <1>4
  <2>. HIDE DEF m
  <2>3. text[from + m] # Blank
    BY <2>1, <2>2 DEF BreakAt
  <2>4. line[p] = text[from + p - 1]
    BY <1>3, <2>2
  <2> QED BY <2>2, <2>3, <2>4
<1>5. LineOf(text, line, from, L + 2, width)
  <2>1. line = SubSeq(text, from, L + 2 - 2)
    BY <1>2 DEF line
  <2>2. Len(line) > width => \A p \in 2 .. width + 1 : line[p] # Blank
    BY <1>4
  <2>3. L + 2 \in Nat /\ from + 1 < L + 2 /\ L + 2 <= L + 2
    BY <1>2
  <2>4. ~(L + 2 <= L + 1)
    BY <1>2
  <2>. DEFINE next == L + 2
  <2>. HIDE DEF next
  <2>5. /\ next \in Nat /\ from + 1 < next /\ next <= Len(text) + 2
        /\ line = SubSeq(text, from, next - 2)
        /\ next <= Len(text) + 1 => text[next - 1] = Blank
    BY <2>1, <2>3, <2>4 DEF next
  <2> QED BY <2>2, <2>5 DEF LineOf, next
<1> QED BY <1>3, <1>5 DEF line

LEMMA FirstLineIs ==
    ASSUME NEW text \in Seq(Char), NEW from \in 1 .. Len(text), NEW width \in Nat \ {0},
           BreakAt(text, from, width) # {}
    PROVE  LET m == Max(BreakAt(text, from, width))
               line == SubSeq(text, from, from + m - 1)
           IN  /\ m \in Nat \ {0} /\ from + m <= Len(text)
               /\ line \in Seq(Char) /\ LineOf(text, line, from, from + m + 1, width)
<1>. DEFINE L == Len(text)
            B == BreakAt(text, from, width)
            m == Max(B)
            line == SubSeq(text, from, from + m - 1)
<1>1. L \in Nat
  OBVIOUS
<1>2. B \subseteq Nat /\ B # {} /\ \A k \in B : k <= width
  BY DEF BreakAt
<1>3. m \in B
  <2>. HIDE DEF B
  <2> QED BY <1>2, MaxIs
<1>4. m \in 1 .. width /\ from + m <= L /\ text[from + m] = Blank
  BY <1>3 DEF BreakAt
<1>. HIDE DEF m, B
<1>5. m \in Nat \ {0} /\ m <= width
  BY <1>4
<1>6. /\ from + m + 1 \in Nat /\ from + 1 < from + m + 1 /\ from + m + 1 <= L + 2
      /\ from + m + 1 - 2 = from + m - 1 /\ from + m + 1 - 1 = from + m
      /\ from + m - 1 \in Nat /\ from <= from + m - 1 + 1 /\ from + m - 1 <= L
      /\ from + m - 1 - from + 1 = m /\ from \in Nat \ {0}
  BY <1>1, <1>4, <1>5, Breaks
<1>7. line \in Seq(Char) /\ Len(line) = m
  <2>. DEFINE e == from + m - 1
  <2>1. e \in Nat /\ from <= e + 1 /\ e <= L /\ e - from + 1 = m /\ from \in Nat \ {0}
    <3>1. e \in Nat
      BY <1>6
    <3>2. from <= e + 1 /\ e <= L
      BY <1>6
    <3>3. e - from + 1 = m
      BY <1>5
    <3> QED BY <1>6, <3>1, <3>2, <3>3
  <2>2. line = SubSeq(text, from, e)
    OBVIOUS
  <2>. HIDE DEF e, line
  <2>3. SubSeq(text, from, e) \in Seq(Char) /\ Len(SubSeq(text, from, e)) = e - from + 1
    BY <2>1, PartIs
  <2> QED BY <2>1, <2>2, <2>3
<1>8. line = SubSeq(text, from, from + m + 1 - 2)
  BY <1>6
<1>. HIDE DEF line
<1>9. ~(Len(line) > width)
  BY <1>5, <1>7
<1>10. LineOf(text, line, from, from + m + 1, width)
  BY <1>4, <1>6, <1>8, <1>9 DEF LineOf
<1> QED BY <1>4, <1>5, <1>7, <1>10 DEF line, m, B

\* What printWordWrap does at a place of the text, if h is what it does at later ones.
Wrap1(text, w, h, from) ==
    LET m == Max(BreakAt(text, from, w[from]))
    IN  IF Len(text) - from + 1 = 0 THEN <<>>
        ELSE IF Len(text) - from + 1 <= w[from] \/ BreakAt(text, from, w[from]) = {}
        THEN <<SubSeq(text, from, Len(text))>>
        ELSE <<SubSeq(text, from, from + m - 1)>> \o h[from + m + 1]

LEMMA WrapKeeps ==
    ASSUME NEW text \in Seq(Char), NEW w \in [1 .. Len(text) + 1 -> Nat \ {0}],
           NEW from \in 1 .. Len(text) + 1, NEW h,
           \A e \in 1 .. Len(text) + 1 :
              Len(text) + 1 - e < Len(text) + 1 - from => BrokenFrom(text, w, h[e], e)
    PROVE  BrokenFrom(text, w, Wrap1(text, w, h, from), from)
<1>. DEFINE L == Len(text)
            width == w[from]
            m == Max(BreakAt(text, from, width))
            all == SubSeq(text, from, L)
            line == SubSeq(text, from, from + m - 1)
<1>1. L \in Nat /\ width \in Nat \ {0}
  OBVIOUS
<1>2. CASE L - from + 1 = 0
  <2>1. from = L + 1
    BY <1>1, <1>2
  <2>2. Wrap1(text, w, h, from) = <<>>
    BY <1>2 DEF Wrap1
  <2> QED BY <2>1, <2>2, NoLines
<1>3. CASE L - from + 1 # 0 /\ (L - from + 1 <= width \/ BreakAt(text, from, width) = {})
  <2>1. from \in 1 .. L
    BY <1>1, <1>3
  <2>2. Wrap1(text, w, h, from) = <<all>>
    BY <1>3 DEF Wrap1
  <2>3. all \in Seq(Char) /\ LineOf(text, all, from, L + 2, width)
    BY <1>1, <1>3, <2>1, LastLineIs
  <2>4. BrokenFrom(text, w, <<>>, L + 2)
    BY NoLines
  <2>. HIDE DEF all
  <2>5. BrokenFrom(text, w, <<all>> \o <<>>, from)
    BY <2>3, <2>4, OneLineMore
  <2>6. <<all>> \o <<>> = <<all>>
    BY <2>3
  <2> QED BY <2>2, <2>5, <2>6
<1>4. CASE L - from + 1 # 0 /\ ~(L - from + 1 <= width) /\ BreakAt(text, from, width) # {}
  <2>1. from \in 1 .. L
    BY <1>1, <1>4
  <2>2. Wrap1(text, w, h, from) = <<line>> \o h[from + m + 1]
    BY <1>4 DEF Wrap1
  <2>3. /\ m \in Nat \ {0} /\ from + m <= L
        /\ line \in Seq(Char) /\ LineOf(text, line, from, from + m + 1, width)
    BY <1>1, <1>4, <2>1, FirstLineIs
  <2>. HIDE DEF line, m
  <2>4. from + m + 1 \in 1 .. L + 1 /\ L + 1 - (from + m + 1) < L + 1 - from
    BY <1>1, <2>1, <2>3, Breaks
  <2>. DEFINE e == from + m + 1
  <2>5. BrokenFrom(text, w, h[e], e)
    BY <2>4
  <2>. HIDE DEF e
  <2>6. LineOf(text, line, from, e, w[from])
    BY <2>3 DEF e
  <2>7. BrokenFrom(text, w, <<line>> \o h[e], from)
    BY <2>3, <2>5, <2>6, OneLineMore
  <2> QED BY <2>2, <2>7 DEF e
<1> QED BY <1>2, <1>3, <1>4

LEMMA WrapExists ==
    ASSUME NEW text \in Seq(Char), NEW w \in [1 .. Len(text) + 1 -> Nat \ {0}]
    PROVE  \E h : h = [from \in 1 .. Len(text) + 1 |-> Wrap1(text, w, h, from)]
<1>. DEFINE L == Len(text)
            D == 1 .. L + 1
            T == Seq(Seq(Char))
            rank == [from \in D |-> L + 1 - from]
            F == [g \in [D -> T] |-> [from \in D |-> Wrap1(text, w, g, from)]]
            next(from) == from + Max(BreakAt(text, from, w[from])) + 1
            Last1(from) == L - from + 1 <= w[from] \/ BreakAt(text, from, w[from]) = {}
<1>1. L \in Nat /\ \A from \in D : w[from] \in Nat \ {0} /\ (from = L + 1 \/ from \in 1 .. L)
  OBVIOUS
<1>2. rank \in [D -> Nat] /\ (\A from \in D : rank[from] = L + 1 - from) /\ \E N \in Nat : \A from \in D : rank[from] < N
  <2>1. \A from \in D : L + 1 - from \in Nat /\ L + 1 - from < L + 1 + 1
    BY <1>1
  <2>2. L + 1 + 1 \in Nat
    BY <1>1
  <2> QED BY <2>1, <2>2
<1>3. ASSUME NEW from \in D, L - from + 1 # 0, ~Last1(from)
      PROVE  /\ next(from) \in D /\ L + 1 - next(from) < L + 1 - from
             /\ SubSeq(text, from, from + Max(BreakAt(text, from, w[from])) - 1) \in Seq(Char)
  <2>. DEFINE width == w[from]
              m == Max(BreakAt(text, from, width))
  <2>1. from \in 1 .. L /\ width \in Nat \ {0} /\ BreakAt(text, from, width) # {}
    BY <1>1, <1>3
  <2>2. m \in Nat \ {0} /\ from + m <= L /\ SubSeq(text, from, from + m - 1) \in Seq(Char)
    BY <2>1, FirstLineIs
  <2>. HIDE DEF m
  <2>3. from + m + 1 \in 1 .. L + 1 /\ L + 1 - (from + m + 1) < L + 1 - from
    BY <1>1, <2>1, <2>2, Breaks
  <2> QED BY <2>2, <2>3 DEF m
<1>4. ASSUME NEW from \in D, L - from + 1 # 0 PROVE SubSeq(text, from, L) \in Seq(Char)
  <2>1. from \in Nat \ {0} /\ from <= L + 1 /\ L <= L
    BY <1>1
  <2>2. SubSeq(text, from, L) \in Seq(Char)
    BY <1>1, <2>1, PartIs
  <2> QED BY <2>2
<1>5. ASSUME NEW g \in [D -> T], NEW from \in D PROVE Wrap1(text, w, g, from) \in T
  <2>1. CASE L - from + 1 = 0
    <3>1. Wrap1(text, w, g, from) = <<>>
      BY <2>1 DEF Wrap1
    <3> QED BY <3>1
  <2>2. CASE L - from + 1 # 0 /\ Last1(from)
    <3>1. Wrap1(text, w, g, from) = <<SubSeq(text, from, L)>>
      BY <2>2 DEF Wrap1
    <3> QED BY <1>4, <2>2, <3>1
  <2>3. CASE L - from + 1 # 0 /\ ~Last1(from)
    <3>. DEFINE line == SubSeq(text, from, from + Max(BreakAt(text, from, w[from])) - 1)
    <3>1. Wrap1(text, w, g, from) = <<line>> \o g[next(from)]
      BY <2>3 DEF Wrap1
    <3>2. line \in Seq(Char) /\ next(from) \in D
      BY <1>3, <2>3
    <3>. HIDE DEF line, next, D
    <3>3. g[next(from)] \in T /\ <<line>> \in T
      BY <3>2
    <3> QED BY <3>1, <3>3
  <2> QED BY <2>1, <2>2, <2>3
<1>6. ASSUME NEW g \in [D -> T], NEW h \in [D -> T], NEW from \in D,
             \A e \in D : L + 1 - e < L + 1 - from => g[e] = h[e]
      PROVE  Wrap1(text, w, g, from) = Wrap1(text, w, h, from)
  <2>1. CASE L - from + 1 = 0 \/ Last1(from)
    BY <2>1 DEF Wrap1
  <2>2. CASE L - from + 1 # 0 /\ ~Last1(from)
    <3>1. g[next(from)] = h[next(from)]
      BY <1>3, <1>6, <2>2
    <3> QED BY <3>1 DEF Wrap1
  <2> QED BY <2>1, <2>2
<1>. HIDE DEF D, T, rank
<1>7. F \in [[D -> T] -> [D -> T]] /\ \A g \in [D -> T], from \in D : F[g][from] = Wrap1(text, w, g, from)
  BY <1>5
<1>8. \A g, h \in [D -> T] : \A d \in D :
          (\A e \in D : rank[e] < rank[d] => g[e] = h[e]) => F[g][d] = F[h][d]
  <2>. HIDE DEF F
  <2>1. ASSUME NEW g \in [D -> T], NEW h \in [D -> T], NEW d \in D,
               \A e \in D : rank[e] < rank[d] => g[e] = h[e]
        PROVE  F[g][d] = F[h][d]
    <3>1. \A e \in D : L + 1 - e < L + 1 - d => g[e] = h[e]
      BY <1>2, <2>1
    <3> QED BY <1>6, <1>7, <3>1
  <2> QED BY <2>1
<1>9. T # {}
  <2>1. <<>> \in T
    BY DEF T
  <2> QED BY <2>1
<1>10. PICK h \in [D -> T] : h = F[h]
  <2>. HIDE DEF F
  <2>1. GoesDown(D, T, rank, F)
    BY <1>2, <1>7, <1>8, <1>9 DEF GoesDown
  <2> QED BY <2>1, RecursiveFunction
<1>11. h = [from \in D |-> Wrap1(text, w, h, from)]
  BY <1>10
<1> QED BY <1>11 DEF D

\* How wide a line may be that begins at a place.
Widths(text, nOffset, bCarryIndent) ==
    [from \in 1 .. Len(text) + 1 |-> IF from = 1 \/ bCarryIndent THEN Width - nOffset ELSE Width]

LEMMA WidthsAre ==
    ASSUME NEW text \in Seq(Char), NEW nOffset \in 0 .. Width - 1, NEW bCarryIndent \in BOOLEAN
    PROVE  Widths(text, nOffset, bCarryIndent) \in [1 .. Len(text) + 1 -> Nat \ {0}]
<1>1. Width \in Nat \ {0} /\ Width - nOffset \in Nat \ {0}
  BY ScreenIs
<1> QED BY <1>1 DEF Widths

\* What printWordWrap makes of a text is what the text is broken into.
LEMMA WrapIs ==
    ASSUME NEW text \in Seq(Char), NEW nOffset \in 0 .. Width - 1, NEW bCarryIndent \in BOOLEAN
    PROVE  BrokenFrom(text, Widths(text, nOffset, bCarryIndent),
                      printWordWrap(text, nOffset, bCarryIndent), 1)
<1>. DEFINE L == Len(text)
            D == 1 .. L + 1
            w == Widths(text, nOffset, bCarryIndent)
            rest == CHOOSE h : h = [from \in D |-> Wrap1(text, w, h, from)]
            rank == [from \in D |-> L + 1 - from]
            S == {from \in D : BrokenFrom(text, w, rest[from], from)}
<1>1. L \in Nat /\ w \in [D -> Nat \ {0}]
  BY WidthsAre
<1>2. printWordWrap(text, nOffset, bCarryIndent) = rest[1]
  <2>. DEFINE width(from) == IF from = 1 \/ bCarryIndent THEN Width - nOffset ELSE Width
              step(h, from) ==
                  LET left == L - from + 1
                      breaks == BreakAt(text, from, width(from))
                  IN  IF left = 0 THEN <<>>
                      ELSE IF left <= width(from) \/ breaks = {} THEN <<SubSeq(text, from, L)>>
                      ELSE <<SubSeq(text, from, from + Max(breaks) - 1)>> \o h[from + Max(breaks) + 1]
              other == CHOOSE h : h = [from \in D |-> step(h, from)]
  <2>1. printWordWrap(text, nOffset, bCarryIndent) = other[1]
    BY DEF printWordWrap
  <2>2. \A from \in D : w[from] = width(from)
    BY DEF Widths
  <2>3. ASSUME NEW h, NEW from \in D PROVE step(h, from) = Wrap1(text, w, h, from)
    <3>1. w[from] = width(from)
      BY <2>2
    <3>. HIDE DEF w, width
    <3> QED BY <3>1 DEF Wrap1
  <2>. HIDE DEF step, w, D
  <2>4. ASSUME NEW h
        PROVE  [from \in D |-> step(h, from)] = [from \in D |-> Wrap1(text, w, h, from)]
    BY <2>3
  <2>5. other = rest
    BY <2>4, Zenon
  <2> QED BY <2>1, <2>5
<1>3. rest = [from \in D |-> Wrap1(text, w, rest, from)]
  <2>. HIDE DEF w
  <2>1. \E h : h = [from \in D |-> Wrap1(text, w, h, from)]
    BY <1>1, WrapExists
  <2> QED BY <2>1
<1>. HIDE DEF rest, w
<1>4. \A from \in D : rest[from] = Wrap1(text, w, rest, from)
  BY <1>3
<1>5. rank \in [D -> Nat] /\ \A from \in D : rank[from] = L + 1 - from
  <2>1. \A from \in D : L + 1 - from \in Nat
    BY <1>1
  <2> QED BY <2>1
<1>6. ASSUME NEW from \in D, \A e \in D : rank[e] < rank[from] => e \in S PROVE from \in S
  <2>1. \A e \in D : L + 1 - e < L + 1 - from => BrokenFrom(text, w, rest[e], e)
    BY <1>5, <1>6
  <2>2. BrokenFrom(text, w, Wrap1(text, w, rest, from), from)
    BY <1>1, <2>1, WrapKeeps
  <2> QED BY <1>4, <2>2
<1>7. D \subseteq S
  <2>. HIDE DEF D, S, rank
  <2> QED BY <1>5, <1>6, RankInduction
<1>8. 1 \in D
  BY <1>1
<1> QED BY <1>2, <1>7, <1>8 DEF w

LEMMA LineIs ==
    ASSUME NEW text \in Seq(Char), NEW line, NEW from, NEW next, NEW width, LineOf(text, line, from, next, width)
    PROVE  /\ line \in Seq(Char) /\ from \in Nat \ {0} /\ next \in Nat /\ from + 1 < next
           /\ Len(line) = next - 2 - from + 1 /\ next - 2 \in Nat /\ next - 2 <= Len(text) /\ from <= Len(text)
           /\ \A q \in 1 .. next - 2 - from + 1 : line[q] = text[from + q - 1]
           /\ line # <<>>
<1>. DEFINE e == next - 2
<1>1. Len(text) \in Nat /\ from \in 1 .. Len(text) /\ next \in Nat /\ from + 1 < next
      /\ next <= Len(text) + 2 /\ line = SubSeq(text, from, e)
  BY DEF LineOf
<1>2. from \in Nat \ {0} /\ e \in Nat /\ from <= e + 1 /\ e <= Len(text) /\ from <= Len(text)
      /\ e - from + 1 \in Nat /\ e - from + 1 # 0
  BY <1>1
<1>. HIDE DEF e
<1>3. /\ line \in Seq(Char) /\ Len(line) = e - from + 1
      /\ \A q \in 1 .. e - from + 1 : line[q] = text[from + q - 1]
  BY <1>1, <1>2, PartIs
<1>4. line # <<>>
  BY <1>2, <1>3
<1> QED BY <1>1, <1>2, <1>3, <1>4 DEF e

LEMMA TextPart ==
    ASSUME NEW text \in Seq(Char), NEW a \in Nat, a <= Len(text)
    PROVE  /\ SubSeq(text, 1, a) \in Seq(Char) /\ Len(SubSeq(text, 1, a)) = a
           /\ \A q \in 1 .. a : SubSeq(text, 1, a)[q] = text[q]
<1>1. 1 <= a + 1 /\ a - 1 + 1 = a /\ \A q \in 1 .. a : 1 + q - 1 = q
  OBVIOUS
<1>2. /\ SubSeq(text, 1, a) \in Seq(Char) /\ Len(SubSeq(text, 1, a)) = a - 1 + 1
      /\ \A q \in 1 .. a - 1 + 1 : SubSeq(text, 1, a)[q] = text[1 + q - 1]
  BY <1>1, PartIs
<1> QED BY <1>1, <1>2

LEMMA Extends ==
    ASSUME NEW a \in Nat, NEW e \in Nat, a + 1 < e
    PROVE  \A q \in 1 .. e : \/ q \in 1 .. a
                             \/ q = a + 1
                             \/ q - (a + 1) \in 1 .. e - (a + 2) + 1 /\ a + 2 + (q - (a + 1)) - 1 = q
                                /\ a + 1 + (q - (a + 1)) = q
OBVIOUS

\* The beginning of a text, a blank, and the line that follows it.
LEMMA JointIs ==
    ASSUME NEW text \in Seq(Char), NEW a \in Nat \ {0}, NEW next, NEW width, NEW line,
           LineOf(text, line, a + 2, next, width), text[a + 1] = Blank
    PROVE  Joint(SubSeq(text, 1, a), line) = SubSeq(text, 1, next - 2)
<1>. DEFINE e == next - 2
            s == SubSeq(text, 1, a)
            t == SubSeq(text, 1, e)
            all == (s \o <<Blank>>) \o line
            k == e - (a + 2) + 1
<1>1. /\ line \in Seq(Char) /\ next \in Nat /\ a + 2 + 1 < next /\ Len(line) = k
      /\ e \in Nat /\ e <= Len(text) /\ \A q \in 1 .. k : line[q] = text[a + 2 + q - 1]
  <2>. DEFINE from == a + 2
  <2>1. LineOf(text, line, from, next, width)
    OBVIOUS
  <2>. HIDE DEF from
  <2>2. /\ line \in Seq(Char) /\ next \in Nat /\ from + 1 < next
        /\ Len(line) = next - 2 - from + 1 /\ next - 2 \in Nat /\ next - 2 <= Len(text)
        /\ \A q \in 1 .. next - 2 - from + 1 : line[q] = text[from + q - 1]
    BY <2>1, LineIs
  <2> QED BY <2>2 DEF from
<1>2. Len(text) \in Nat
  OBVIOUS
<1>3. a + 1 < e /\ a <= Len(text) /\ k \in Nat /\ a + 1 + k = e
  BY <1>1, <1>2
<1>. HIDE DEF e, k
<1>4. s \in Seq(Char) /\ Len(s) = a /\ \A q \in 1 .. a : s[q] = text[q]
  BY <1>3, TextPart
<1>5. t \in Seq(Char) /\ Len(t) = e /\ \A q \in 1 .. e : t[q] = text[q]
  BY <1>1, TextPart
<1>. HIDE DEF s, t
<1>6. s # <<>> /\ Joint(s, line) = all
  BY <1>4 DEF Joint
<1>. DEFINE x == s \o <<Blank>>
<1>7. /\ x \in Seq(Char) /\ Len(x) = a + 1
      /\ \A q \in 1 .. a : x[q] = s[q]
      /\ x[a + 1] = Blank
  BY <1>4, LowerIs
<1>8. /\ all \in Seq(Char) /\ Len(all) = a + 1 + k
      /\ \A q \in 1 .. a + 1 : all[q] = x[q]
      /\ \A q \in 1 .. k : all[a + 1 + q] = line[q]
  <2>. HIDE DEF x
  <2>0. line \in Seq(Char)
    BY <1>1
  <2>1. Len(line) = k
    BY <1>1
  <2>2. x \in Seq(Char)
    BY <1>7
  <2>3. /\ x \o line \in Seq(Char) /\ Len(x \o line) = Len(x) + Len(line)
        /\ \A q \in 1 .. Len(x) : (x \o line)[q] = x[q]
        /\ \A q \in 1 .. Len(line) : (x \o line)[Len(x) + q] = line[q]
    BY <2>0, <2>2, Joined
  <2>4. all = x \o line
    BY DEF x
  <2> QED BY <1>7, <2>1, <2>3, <2>4
<1>. HIDE DEF all, x
<1>9. ASSUME NEW q \in 1 .. e PROVE all[q] = t[q]
  <2>1. t[q] = text[q]
    BY <1>5
  <2>2. CASE q \in 1 .. a
    <3>1. q \in 1 .. a + 1
      BY <2>2
    <3> QED BY <1>4, <1>7, <1>8, <2>1, <2>2, <3>1
  <2>3. CASE q = a + 1
    <3>1. q \in 1 .. a + 1
      BY <2>3
    <3> QED BY <1>7, <1>8, <2>1, <2>3, <3>1
  <2>4. CASE q - (a + 1) \in 1 .. k /\ a + 2 + (q - (a + 1)) - 1 = q /\ a + 1 + (q - (a + 1)) = q
    <3>. DEFINE r == q - (a + 1)
    <3>1. r \in 1 .. k /\ a + 2 + r - 1 = q /\ a + 1 + r = q
      BY <2>4
    <3>. HIDE DEF r
    <3>2. all[a + 1 + r] = line[r] /\ line[r] = text[a + 2 + r - 1]
      BY <1>1, <1>8, <3>1
    <3> QED BY <2>1, <3>1, <3>2
  <2>5. \/ q \in 1 .. a
        \/ q = a + 1
        \/ q - (a + 1) \in 1 .. k /\ a + 2 + (q - (a + 1)) - 1 = q /\ a + 1 + (q - (a + 1)) = q
    BY <1>1, <1>3, Extends DEF k
  <2> QED BY <2>2, <2>3, <2>4, <2>5
<1>10. all = t
  BY <1>3, <1>5, <1>8, <1>9, SeqEqual
<1> QED BY <1>6, <1>10 DEF s, t, e

LEMMA KeptText ==
    ASSUME NEW text \in Seq(Char), NEW w, NEW lines, BrokenFrom(text, w, lines, 1)
    PROVE  text \in {Unbroken(lines), Append(Unbroken(lines), Blank)}
<1>1. PICK b : Broken(text, w, lines, b) /\ b[1] = 1
  BY DEF BrokenFrom
<1>. DEFINE N == Len(lines)
            L == Len(text)
<1>2. L \in Nat /\ lines \in Seq(Seq(Char)) /\ N \in Nat
  BY <1>1 DEF Broken
<1>3. PICK P : Joints(lines, P) /\ Unbroken(lines) = P[N]
  BY <1>2, UnbrokenIs
<1>4. /\ \A i \in 1 .. N : LineOf(text, lines[i], b[i], b[i + 1], w[b[i]])
      /\ b[N + 1] \in {L + 1, L + 2}
  BY <1>1 DEF Broken
<1>5. P[0] = <<>> /\ \A k \in 0 .. N - 1 : P[k + 1] = Joint(P[k], lines[k + 1])
  BY <1>3 DEF Joints
<1>. HIDE DEF N
<1>. DEFINE T == {k \in Nat : k + 1 <= N => P[k + 1] = SubSeq(text, 1, b[k + 1 + 1] - 2)}
<1>6. 0 \in T
  <2>1. SUFFICES ASSUME 0 + 1 <= N PROVE P[0 + 1] = SubSeq(text, 1, b[0 + 1 + 1] - 2)
    OBVIOUS
  <2>2. 0 \in 0 .. N - 1 /\ 1 \in 1 .. N /\ 0 + 1 = 1
    BY <1>2, <2>1
  <2>3. P[0 + 1] = lines[1]
    BY <1>5, <2>2 DEF Joint
  <2>4. LineOf(text, lines[1], b[1], b[1 + 1], w[b[1]])
    BY <1>4, <2>2
  <2>5. lines[1] = SubSeq(text, 1, b[1 + 1] - 2)
    BY <1>1, <2>4 DEF LineOf
  <2> QED BY <2>2, <2>3, <2>5
<1>7. ASSUME NEW k \in Nat, k \in T PROVE k + 1 \in T
  <2>1. SUFFICES ASSUME k + 1 + 1 <= N
                 PROVE  P[k + 1 + 1] = SubSeq(text, 1, b[k + 1 + 1 + 1] - 2)
    OBVIOUS
  <2>. DEFINE i == k + 1
              a == b[i + 1] - 2
  <2>2. i \in Nat /\ i <= N /\ i \in 1 .. N /\ i + 1 \in 1 .. N /\ i \in 0 .. N - 1
    BY <1>2, <2>1
  <2>3. P[i] = SubSeq(text, 1, b[i + 1] - 2)
    BY <1>7, <2>2
  <2>. HIDE DEF i
  <2>4. P[i + 1] = Joint(P[i], lines[i + 1])
    BY <1>5, <2>2
  <2>5. LineOf(text, lines[i], b[i], b[i + 1], w[b[i]])
    BY <1>4, <2>2
  <2>6. LineOf(text, lines[i + 1], b[i + 1], b[i + 1 + 1], w[b[i + 1]])
    BY <1>4, <2>2
  <2>7. b[i] \in Nat \ {0} /\ b[i + 1] \in Nat /\ b[i] + 1 < b[i + 1]
    BY <2>5, LineIs
  <2>8. b[i + 1] <= L
    BY <2>6, LineIs
  <2>9. text[b[i + 1] - 1] = Blank
    <3>1. b[i + 1] <= L + 1
      BY <1>2, <2>7, <2>8
    <3> QED BY <2>5, <3>1 DEF LineOf
  <2>10. a \in Nat \ {0} /\ a + 2 = b[i + 1] /\ a + 1 = b[i + 1] - 1
    BY <2>7
  <2>. HIDE DEF a
  <2>11. LineOf(text, lines[i + 1], a + 2, b[i + 1 + 1], w[b[i + 1]]) /\ text[a + 1] = Blank
    BY <2>6, <2>9, <2>10
  <2>12. Joint(SubSeq(text, 1, a), lines[i + 1]) = SubSeq(text, 1, b[i + 1 + 1] - 2)
    BY <2>10, <2>11, JointIs
  <2>13. P[i + 1] = SubSeq(text, 1, b[i + 1 + 1] - 2)
    BY <2>3, <2>4, <2>12 DEF a
  <2> QED BY <2>13 DEF i
<1>8. \A k \in Nat : k \in T
  <2>. HIDE DEF T
  <2> QED BY <1>6, <1>7, Induct
<1>9. CASE N = 0
  <2>1. b[1] = L + 1 \/ b[1] = L + 2
    BY <1>4, <1>9
  <2>2. L = 0
    BY <1>1, <1>2, <2>1
  <2>3. text = <<>>
    BY <2>2
  <2> QED BY <1>3, <1>5, <1>9, <2>3
<1>10. CASE N # 0
  <2>. DEFINE e == b[N + 1] - 2
              s == SubSeq(text, 1, e)
  <2>1. N - 1 \in Nat /\ N - 1 + 1 = N /\ N \in 1 .. N /\ N - 1 + 1 <= N
    BY <1>2, <1>10
  <2>2. P[N] = s
    <3>1. P[N - 1 + 1] = SubSeq(text, 1, b[N - 1 + 1 + 1] - 2)
      BY <1>8, <2>1
    <3> QED BY <2>1, <3>1
  <2>3. LineOf(text, lines[N], b[N], b[N + 1], w[b[N]])
    BY <1>4, <2>1
  <2>4. e \in Nat /\ e <= L
    BY <2>3, LineIs
  <2>5. s \in Seq(Char) /\ Len(s) = e /\ \A q \in 1 .. e : s[q] = text[q]
    <3>. HIDE DEF e
    <3> QED BY <2>4, TextPart
  <2>6. CASE b[N + 1] = L + 2
    <3>1. e = L
      BY <1>2, <2>6
    <3>. HIDE DEF s, e
    <3>2. s = text
      BY <2>5, <3>1, SeqEqual
    <3> QED BY <1>3, <2>2, <3>2
  <2>7. CASE b[N + 1] = L + 1
    <3>1. e + 1 = L /\ b[N + 1] - 1 = L /\ b[N + 1] <= L + 1
      BY <1>2, <2>7
    <3>2. text[L] = Blank
      BY <2>3, <3>1 DEF LineOf
    <3>. DEFINE all == Append(s, Blank)
    <3>. HIDE DEF s, e, L
    <3>3. all \in Seq(Char) /\ Len(all) = e + 1 /\ all[e + 1] = Blank /\ \A q \in 1 .. e : all[q] = s[q]
      BY <2>4, <2>5, LowerIs
    <3>4. ASSUME NEW q \in 1 .. L PROVE all[q] = text[q]
      <4>1. q \in 1 .. e \/ q = e + 1
        BY <1>2, <2>4, <3>1
      <4> QED BY <2>5, <3>1, <3>2, <3>3, <4>1
    <3>. HIDE DEF all
    <3>5. Len(text) = L
      BY DEF L
    <3>6. all = text
      BY <3>1, <3>3, <3>4, <3>5, SeqEqual
    <3> QED BY <1>3, <2>2, <3>6 DEF all
  <2> QED BY <1>4, <2>6, <2>7
<1> QED BY <1>9, <1>10

\* No line is too long that could have been broken.
LEMMA KeptWidths ==
    ASSUME NEW text \in Seq(Char), NEW nOffset \in 0 .. Width - 1, NEW bCarryIndent \in BOOLEAN,
           NEW lines, BrokenFrom(text, Widths(text, nOffset, bCarryIndent), lines, 1), NEW i \in DOMAIN lines
    PROVE  LET width == IF i = 1 \/ bCarryIndent THEN Width - nOffset ELSE Width
           IN  Len(lines[i]) > width => \A p \in 2 .. width + 1 : lines[i][p] # Blank
<1>. DEFINE w == Widths(text, nOffset, bCarryIndent)
<1>1. PICK b : Broken(text, w, lines, b) /\ b[1] = 1
  BY DEF BrokenFrom
<1>2. lines \in Seq(Seq(Char)) /\ Len(lines) \in Nat /\ i \in 1 .. Len(lines)
  BY <1>1 DEF Broken
<1>3. \A j \in 1 .. Len(lines) : LineOf(text, lines[j], b[j], b[j + 1], w[b[j]])
  BY <1>1 DEF Broken
<1>4. LineOf(text, lines[i], b[i], b[i + 1], w[b[i]])
  BY <1>2, <1>3
<1>5. b[i] = 1 <=> i = 1
  <2>1. ASSUME i # 1 PROVE b[i] # 1
    <3>1. i - 1 \in 1 .. Len(lines) /\ i - 1 + 1 = i
      BY <1>2, <2>1
    <3>2. LineOf(text, lines[i - 1], b[i - 1], b[i], w[b[i - 1]])
      BY <1>3, <3>1
    <3>3. b[i - 1] \in Nat \ {0} /\ b[i] \in Nat /\ b[i - 1] + 1 < b[i]
      BY <3>2, LineIs
    <3> QED BY <3>3
  <2> QED BY <1>1, <2>1
<1>6. b[i] \in 1 .. Len(text) + 1
  <2>1. b[i] \in Nat \ {0} /\ b[i] <= Len(text) /\ Len(text) \in Nat
    BY <1>4, LineIs
  <2> QED BY <2>1
<1>7. w[b[i]] = IF i = 1 \/ bCarryIndent THEN Width - nOffset ELSE Width
  BY <1>5, <1>6 DEF Widths
<1>. HIDE DEF w
<1> QED BY <1>4, <1>7 DEF LineOf

LEMMA TextShown == ASSUME ShowText PROVE WrapKeepsText'
<1>1. PICK text \in Paragraphs, nOffset \in 0 .. Width - 1, bCarryIndent \in BOOLEAN :
          /\ asked' = [what |-> "text", text |-> text, nOffset |-> nOffset, bCarryIndent |-> bCarryIndent]
          /\ shown' = printWordWrap(text, nOffset, bCarryIndent)
  BY DEF ShowText
<1>. DEFINE lines == printWordWrap(text, nOffset, bCarryIndent)
<1>2. text \in Seq(Char)
  BY ScreenIs
<1>3. BrokenFrom(text, Widths(text, nOffset, bCarryIndent), lines, 1)
  BY <1>2, WrapIs
<1>. HIDE DEF lines
<1>4. text \in {Unbroken(lines), Append(Unbroken(lines), Blank)}
  BY <1>2, <1>3, KeptText
<1>5. ASSUME NEW i \in DOMAIN lines
      PROVE  LET width == IF i = 1 \/ bCarryIndent THEN Width - nOffset ELSE Width
             IN  Len(lines[i]) > width => \A p \in 2 .. width + 1 : lines[i][p] # Blank
  BY <1>2, <1>3, KeptWidths
<1>6. /\ asked'.text = text /\ asked'.nOffset = nOffset /\ asked'.bCarryIndent = bCarryIndent
      /\ shown' = lines
  BY <1>1 DEF lines
<1>7. Unbroken(shown)' = Unbroken(lines)
  BY <1>6
<1> QED BY <1>4, <1>5, <1>6, <1>7 DEF WrapKeepsText

LEMMA TextStep == ASSUME ScreenNext PROVE TextSurvives'
<1>1. CASE AskHelp
  <2>1. asked'.what = "help"
    BY <1>1 DEF AskHelp
  <2> QED BY <2>1 DEF TextSurvives, WrapKeepsText, MessageArrives, TextAsked
<1>2. CASE ShowText
  <2>1. asked'.what = "text"
    BY <1>2 DEF ShowText
  <2> QED BY <1>2, <2>1, TextShown DEF TextSurvives, MessageArrives
<1>3. CASE SendText
  <2>1. asked'.what = "message"
    BY <1>3 DEF SendText
  <2> QED BY <1>3, <2>1, SentArrives DEF TextSurvives, WrapKeepsText, TextAsked
<1>4. CASE clearScreen
  BY <1>4 DEF clearScreen, TextSurvives, WrapKeepsText, MessageArrives, TextAsked
<1> QED BY <1>1, <1>2, <1>3, <1>4 DEF ScreenNext

LEMMA TextStays == ASSUME TextSurvives, UNCHANGED screenVars PROVE TextSurvives'
<1>1. asked' = asked /\ shown' = shown
  BY DEF screenVars
<1>2. Unbroken(shown)' = Unbroken(shown)
  BY <1>1
<1> QED BY <1>1, <1>2 DEF TextSurvives, WrapKeepsText, MessageArrives, TextAsked

\* A message arrives as it was sent, whatever numbers and text it is made of, and a text cut
\* into lines is all there, in lines no longer than they must be (intrnode.cpp:160-202,
\* gamesrv.cpp:377-440).
THEOREM TextsSurvive == Spec => []TextSurvives
<1>1. DisplayInit => TextSurvives
  BY DEF DisplayInit, ScreenInit, TextSurvives, WrapKeepsText, MessageArrives, TextAsked
<1>2. TextSurvives /\ [DisplayNext]_displayVars => TextSurvives'
  <2>1. [DisplayNext]_displayVars => ScreenNext \/ UNCHANGED screenVars
    BY DEF DisplayNext, MoveClue, MoveRanking, MoveCommands, MoveScreen, displayVars
  <2> QED BY <2>1, TextStep, TextStays
<1> QED BY <1>1, <1>2, PTL DEF Spec

-----------------------------------------------------------------------------
(* Help                                                                    *)

\* Lines less those in a set, of the first lines.
Less(A, set, lines, P) ==
    /\ P \in [0 .. Len(lines) -> Seq(A)] /\ P[0] = <<>>
    /\ \A k \in 0 .. Len(lines) - 1 :
          P[k + 1] = IF lines[k + 1] \in set THEN P[k] ELSE Append(P[k], lines[k + 1])

LEMMA WithoutIs ==
    ASSUME NEW A, NEW lines \in Seq(A), NEW set
    PROVE  \E P : Less(A, set, lines, P) /\ Without(lines, set) = P[Len(lines)]
<1>. DEFINE N == Len(lines)
            D == SUBSET (1 .. N)
            Add(left, k) == IF lines[k] \in set THEN left ELSE Append(left, lines[k])
            step(g, s) == IF s = {} THEN <<>> ELSE Add(g[s \ {Max(s)}], Max(s))
            op == [e \in Seq(A) \X (1 .. N) |-> Add(e[1], e[2])]
<1>1. N \in Nat /\ DOMAIN lines = 1 .. N /\ \A k \in 1 .. N : lines[k] \in A
  OBVIOUS
<1>2. <<>> \in Seq(A)
  OBVIOUS
<1>. HIDE DEF N
<1>3. \A s \in Seq(A), k \in 1 .. N : Add(s, k) \in Seq(A)
  BY <1>1
<1>. HIDE DEF Add
<1>4. op \in [Seq(A) \X (1 .. N) -> Seq(A)]
  BY <1>3
<1>5. \A s \in Seq(A), k \in 1 .. N : op[<<s, k>>] = Add(s, k)
  OBVIOUS
<1>. HIDE DEF op
<1>6. PICK g \in [D -> Seq(A)] : Folds(N, <<>>, op, g)
  BY <1>1, <1>2, <1>4, FoldExists
<1>7. ASSUME NEW s \in D PROVE g[s] = step(g, s)
  <2>1. g[s] = IF s = {} THEN <<>> ELSE op[<<g[s \ {Max(s)}], Max(s)>>]
    BY <1>6 DEF Folds
  <2>2. s # {} => Max(s) \in 1 .. N /\ s \ {Max(s)} \in D
    BY <1>1, LastOff
  <2>3. s # {} => op[<<g[s \ {Max(s)}], Max(s)>>] = Add(g[s \ {Max(s)}], Max(s))
    BY <1>5, <2>2
  <2> QED BY <2>1, <2>3
<1>8. g = [s \in D |-> step(g, s)]
  <2>. HIDE DEF step
  <2> QED BY <1>7
<1>. DEFINE iter == CHOOSE h : h = [s \in D |-> step(h, s)]
<1>9. iter = [s \in D |-> step(iter, s)]
  BY <1>8
<1>10. Without(lines, set) = iter[1 .. N]
  BY <1>1 DEF Without, Add, FoldLeft, MapThenFoldSet
<1>. HIDE DEF iter
<1>11. \A s \in D : iter[s] = step(iter, s)
  <2>. HIDE DEF step
  <2> QED BY <1>9
<1>12. Folding(N, Seq(A), <<>>, op, iter)
  <2>1. iter[{}] = <<>>
    BY <1>11
  <2>2. ASSUME NEW s \in D, s # {}, iter[s \ {Max(s)}] \in Seq(A)
        PROVE  iter[s] = op[<<iter[s \ {Max(s)}], Max(s)>>]
    <3>1. Max(s) \in 1 .. N
      BY <1>1, <2>2, LastOff
    <3>2. iter[s] = Add(iter[s \ {Max(s)}], Max(s))
      BY <1>11, <2>2
    <3> QED BY <1>5, <2>2, <3>1, <3>2
  <2> QED BY <2>1, <2>2 DEF Folding
<1>13. PICK P : Steps(N, Seq(A), <<>>, op, P) /\ P[N] = iter[1 .. N]
  <2>1. Stepped(N, Seq(A), <<>>, op, iter)
    BY <1>1, <1>2, <1>4, <1>12, FoldSteps
  <2> QED BY <2>1 DEF Stepped
<1>14. P \in [0 .. N -> Seq(A)] /\ P[0] = <<>>
  BY <1>13 DEF Steps
<1>15. ASSUME NEW k \in 0 .. N - 1 PROVE P[k + 1] = Add(P[k], k + 1)
  <2>1. k \in 0 .. N /\ k + 1 \in 1 .. N
    BY <1>1
  <2> QED BY <1>5, <1>13, <1>14, <2>1 DEF Steps
<1>16. Less(A, set, lines, P)
  BY <1>14, <1>15 DEF Less, Add, N
<1> QED BY <1>10, <1>13, <1>16 DEF N

\* What is left of lines is lines, and of none, none.
LEMMA WithoutType ==
    ASSUME NEW A, NEW lines \in Seq(A), NEW set
    PROVE  Without(lines, set) \in Seq(A) /\ Without(<<>>, set) = <<>>
<1>1. PICK P : Less(A, set, lines, P) /\ Without(lines, set) = P[Len(lines)]
  BY WithoutIs
<1>2. Len(lines) \in 0 .. Len(lines)
  OBVIOUS
<1>3. <<>> \in Seq(A) /\ Len(<<>>) = 0
  OBVIOUS
<1>4. PICK Q : Less(A, set, <<>>, Q) /\ Without(<<>>, set) = Q[Len(<<>>)]
  BY <1>3, WithoutIs
<1> QED BY <1>1, <1>2, <1>3, <1>4 DEF Less

\* One line more: it stays or it goes.
LEMMA WithoutAppend ==
    ASSUME NEW A, NEW lines \in Seq(A), NEW set, NEW line \in A
    PROVE  Without(Append(lines, line), set) =
               IF line \in set THEN Without(lines, set) ELSE Append(Without(lines, set), line)
<1>. DEFINE N == Len(lines)
            more == Append(lines, line)
<1>1. /\ more \in Seq(A) /\ Len(more) = N + 1 /\ N \in Nat
      /\ more[N + 1] = line /\ \A i \in 1 .. N : more[i] = lines[i]
  OBVIOUS
<1>. HIDE DEF N, more
<1>2. PICK P : Less(A, set, lines, P) /\ Without(lines, set) = P[Len(lines)]
  BY WithoutIs
<1>3. PICK Q : Less(A, set, more, Q) /\ Without(more, set) = Q[Len(more)]
  BY <1>1, WithoutIs
<1>. DEFINE T == {k \in Nat : k <= N => Q[k] = P[k]}
<1>4. 0 \in T
  BY <1>2, <1>3 DEF Less
<1>5. ASSUME NEW k \in Nat, k \in T PROVE k + 1 \in T
  <2>1. SUFFICES ASSUME k + 1 <= N PROVE Q[k + 1] = P[k + 1]
    OBVIOUS
  <2>2. k <= N /\ k \in 0 .. N - 1 /\ k \in 0 .. N + 1 - 1 /\ k + 1 \in 1 .. N
    BY <1>1, <2>1
  <2>3. P[k + 1] = IF lines[k + 1] \in set THEN P[k] ELSE Append(P[k], lines[k + 1])
    BY <1>2, <2>2 DEF Less, N
  <2>4. Q[k + 1] = IF more[k + 1] \in set THEN Q[k] ELSE Append(Q[k], more[k + 1])
    <3>1. k \in 0 .. Len(more) - 1
      BY <1>1, <2>2
    <3> QED BY <1>3, <3>1 DEF Less
  <2>5. more[k + 1] = lines[k + 1] /\ Q[k] = P[k]
    BY <1>1, <1>5, <2>2
  <2> QED BY <2>3, <2>4, <2>5
<1>6. N \in T
  <2>. HIDE DEF T
  <2> QED BY <1>1, <1>4, <1>5, Induct
<1>7. Q[N] = P[N]
  BY <1>1, <1>6
<1>8. N \in 0 .. N + 1 - 1
  BY <1>1
<1>9. Q[N + 1] = IF line \in set THEN Q[N] ELSE Append(Q[N], line)
  BY <1>1, <1>3, <1>8 DEF Less
<1> QED BY <1>1, <1>2, <1>3, <1>7, <1>9 DEF N, more

\* The lines there are on the screen: of help files, and the door's own.
OutLine == [kind: {";", "-", "]", "$", "<", "text", "pause", "error", "none"}, text: Seq(Char), long: BOOLEAN]
HelpState == [state: {"looking", "reading", "nonstop", "over"}, out: Seq(OutLine), nLineCount: Nat]

\* What a line does: it begins the entry, ends it, is shown.
BeginsEntry(line, topic, second) == line.kind = ";" /\ IsTopic(line.text, topic, second)
EndsEntry(line, topic, second) == line.kind = "-" /\ Closes(line.text, topic, second)
Shows(line) == line.kind = "text" \/ (line.kind = "]" /\ line.text # <<>>)

LEMMA HelpLineIs ==
    /\ HelpLine \subseteq OutLine /\ LastLine \in HelpLine /\ LastLine.kind = "text"
    /\ Pause \in OutLine /\ Pause \notin HelpLine /\ Pause.kind = "pause"
    /\ Sorry \in OutLine /\ Sorry.kind = "error" /\ NoError # Sorry
    /\ \A line \in HelpLine : line.kind \in {";", "-", "]", "$", "<", "text"}
<1>0. <<>> \in Seq(Char)
  OBVIOUS
<1>1. HelpLine \subseteq OutLine /\ LastLine \in HelpLine /\ LastLine.kind = "text"
  <2>1. HelpLine \subseteq OutLine
    BY DEF HelpLine, OutLine
  <2>2. LastLine \in HelpLine /\ LastLine.kind = "text"
    BY <1>0 DEF HelpLine, LastLine
  <2> QED BY <2>1, <2>2
<1>2. \A line \in HelpLine : line.kind \in {";", "-", "]", "$", "<", "text"}
  BY DEF HelpLine
<1>3. Pause \in OutLine /\ Pause.kind = "pause" /\ Sorry \in OutLine /\ Sorry.kind = "error"
  BY <1>0 DEF OutLine, Pause, Sorry, Own
<1>4. NoError.kind = "none"
  BY DEF NoError, Own
<1>5. Pause \notin HelpLine
  BY <1>2, <1>3
<1> QED BY <1>1, <1>2, <1>3, <1>4, <1>5

\* What looking at a line makes of what is known.
Passed(now, next, line, topic, second, key) ==
    \/ now.state = "over" /\ next = now
    \/ /\ now.state = "looking" /\ BeginsEntry(line, topic, second)
       /\ next.state = "reading" /\ next.out = now.out /\ next.nLineCount = now.nLineCount
    \/ now.state = "looking" /\ ~BeginsEntry(line, topic, second) /\ next = now
    \/ /\ now.state \in {"reading", "nonstop"} /\ EndsEntry(line, topic, second)
       /\ next.state = "over" /\ next.out = now.out /\ next.nLineCount = now.nLineCount
    \/ /\ now.state \in {"reading", "nonstop"} /\ ~EndsEntry(line, topic, second)
       /\ Shows(line) /\ line.kind # "text"
       /\ next.state = now.state /\ next.out = Append(now.out, line) /\ next.nLineCount = now.nLineCount
    \/ /\ now.state \in {"reading", "nonstop"} /\ ~EndsEntry(line, topic, second)
       /\ Shows(line) /\ line.kind = "text"
       /\ now.nLineCount < PageLength \/ now.state = "nonstop"
       /\ next.state = now.state /\ next.out = Append(now.out, line) /\ next.nLineCount = now.nLineCount + 1
    \/ /\ now.state = "reading" /\ ~EndsEntry(line, topic, second)
       /\ Shows(line) /\ line.kind = "text" /\ ~(now.nLineCount < PageLength)
       /\ next.state = AfterPause[key] /\ next.out = Append(Append(now.out, line), Pause)
       /\ next.nLineCount = 0
    \/ /\ now.state \in {"reading", "nonstop"} /\ ~EndsEntry(line, topic, second) /\ ~Shows(line)
       /\ next = now

LEMMA LookIs ==
    ASSUME NEW now \in HelpState, NEW line \in HelpLine, NEW topic, NEW second, NEW key \in Keys
    PROVE  LET next == Look(now, line, topic, second, key)
           IN  next \in HelpState /\ Passed(now, next, line, topic, second, key)
<1>. DEFINE next == Look(now, line, topic, second, key)
            closes == Closes(line.text, topic, second)
            is == IsTopic(line.text, topic, second)
<1>0. SUFFICES next \in HelpState /\ Passed(now, next, line, topic, second, key)
  OBVIOUS
<1>1. /\ now.state \in {"looking", "reading", "nonstop", "over"} /\ now.out \in Seq(OutLine)
      /\ now.nLineCount \in Nat
      /\ now = [state |-> now.state, out |-> now.out, nLineCount |-> now.nLineCount]
  BY DEF HelpState
<1>2. line \in OutLine /\ line.kind \in {";", "-", "]", "$", "<", "text"} /\ Pause \in OutLine
  BY HelpLineIs
<1>3. AfterPause[key] \in {"reading", "nonstop", "over"}
  BY DEF AfterPause, Keys
<1>. DEFINE out == Append(now.out, line)
<1>4. out \in Seq(OutLine) /\ Append(out, Pause) \in Seq(OutLine)
  <2>1. out \in Seq(OutLine)
    BY <1>1, <1>2, AppendProperties
  <2> QED BY <1>2, <2>1, AppendProperties
<1>5. CASE now.state = "over"
  BY <1>5 DEF Look, Passed
<1>6. CASE now.state = "looking"
  <2>1. CASE line.kind = ";" /\ is
    <3>1. next = [now EXCEPT !.state = "reading"]
      BY <1>6, <2>1 DEF Look
    <3>2. next = [state |-> "reading", out |-> now.out, nLineCount |-> now.nLineCount]
      BY <1>1, <3>1
    <3>3. next.state = "reading" /\ next.out = now.out /\ next.nLineCount = now.nLineCount
      BY <3>2
    <3>4. next \in HelpState
      BY <1>1, <3>2 DEF HelpState
    <3>5. BeginsEntry(line, topic, second)
      BY <2>1 DEF BeginsEntry
    <3>. HIDE DEF next
    <3> QED BY <1>6, <3>3, <3>4, <3>5 DEF Passed
  <2>2. CASE ~(line.kind = ";" /\ is)
    <3>1. next = now
      BY <1>6, <2>2 DEF Look
    <3> QED BY <1>6, <2>2, <3>1 DEF Passed, BeginsEntry
  <2> QED BY <2>1, <2>2
<1>7. CASE now.state \in {"reading", "nonstop"}
  <2>0. now.state # "over" /\ now.state # "looking"
    BY <1>7
  <2>1. CASE line.kind = "-" /\ closes
    <3>1. next = [now EXCEPT !.state = "over"]
      BY <2>0, <2>1 DEF Look
    <3>2. next = [state |-> "over", out |-> now.out, nLineCount |-> now.nLineCount]
      BY <1>1, <3>1
    <3> QED BY <1>1, <1>7, <2>1, <3>2 DEF HelpState, Passed, EndsEntry
  <2>2. CASE line.kind = "]" /\ line.text # <<>>
    <3>1. next = [now EXCEPT !.out = Append(@, line)]
      BY <2>0, <2>2 DEF Look
    <3>2. next = [state |-> now.state, out |-> out, nLineCount |-> now.nLineCount]
      BY <1>1, <3>1
    <3>3. ~EndsEntry(line, topic, second) /\ Shows(line) /\ line.kind # "text"
      BY <2>2 DEF EndsEntry, Shows
    <3> QED BY <1>1, <1>4, <1>7, <3>2, <3>3 DEF HelpState, Passed
  <2>3. CASE line.kind = "text"
    <3>1. next = ShowLine(now, line, key)
      BY <2>0, <2>3 DEF Look
    <3>2. ~EndsEntry(line, topic, second) /\ Shows(line)
      BY <2>3 DEF EndsEntry, Shows
    <3>3. CASE now.nLineCount < PageLength \/ now.state = "nonstop"
      <4>1. next = [now EXCEPT !.out = out, !.nLineCount = @ + 1]
        BY <3>1, <3>3 DEF ShowLine
      <4>2. next = [state |-> now.state, out |-> out, nLineCount |-> now.nLineCount + 1]
        BY <1>1, <4>1
      <4>3. now.nLineCount + 1 \in Nat
        BY <1>1
      <4> QED BY <1>1, <1>4, <1>7, <2>3, <3>2, <3>3, <4>2, <4>3 DEF HelpState, Passed
    <3>4. CASE ~(now.nLineCount < PageLength \/ now.state = "nonstop")
      <4>1. next = [state |-> AfterPause[key], out |-> Append(out, Pause), nLineCount |-> 0]
        BY <3>1, <3>4 DEF ShowLine
      <4>2. now.state = "reading"
        BY <1>7, <3>4
      <4> QED BY <1>1, <1>3, <1>4, <2>3, <3>2, <3>4, <4>1, <4>2 DEF HelpState, Passed
    <3> QED BY <3>3, <3>4
  <2>4. CASE ~(line.kind = "-" /\ closes) /\ ~(line.kind = "]" /\ line.text # <<>>) /\ line.kind # "text"
    <3>1. next = now
      BY <2>0, <2>4 DEF Look
    <3> QED BY <1>7, <2>4, <3>1 DEF Passed, EndsEntry, Shows
  <2> QED BY <2>1, <2>2, <2>3, <2>4
<1> QED BY <1>1, <1>5, <1>6, <1>7

\* What is known after each of the first lines.
Passes(now, lines, topic, second, key, P) ==
    /\ P \in [0 .. Len(lines) -> HelpState] /\ P[0] = now
    /\ \A k \in 0 .. Len(lines) - 1 : Passed(P[k], P[k + 1], lines[k + 1], topic, second, key)

LEMMA PassIs ==
    ASSUME NEW now \in HelpState, NEW lines \in Seq(HelpLine), NEW topic, NEW second, NEW key \in Keys
    PROVE  \E P : Passes(now, lines, topic, second, key, P)
                   /\ Pass(now, lines, topic, second, key) = P[Len(lines)]
<1>. DEFINE N == Len(lines)
            D == SUBSET (1 .. N)
            look(n, k) == Look(n, lines[k], topic, second, key)
            step(g, s) == IF s = {} THEN now ELSE look(g[s \ {Max(s)}], Max(s))
            op == [e \in HelpState \X (1 .. N) |-> look(e[1], e[2])]
<1>1. N \in Nat /\ DOMAIN lines = 1 .. N /\ \A k \in 1 .. N : lines[k] \in HelpLine
  OBVIOUS
<1>. HIDE DEF N
<1>2. \A n \in HelpState, k \in 1 .. N :
          look(n, k) \in HelpState /\ Passed(n, look(n, k), lines[k], topic, second, key)
  BY <1>1, LookIs
<1>. HIDE DEF look
<1>3. op \in [HelpState \X (1 .. N) -> HelpState]
  BY <1>2
<1>4. \A n \in HelpState, k \in 1 .. N : op[<<n, k>>] = look(n, k)
  OBVIOUS
<1>. HIDE DEF op
<1>5. PICK g \in [D -> HelpState] : Folds(N, now, op, g)
  BY <1>1, <1>3, FoldExists
<1>6. ASSUME NEW s \in D PROVE g[s] = step(g, s)
  <2>1. g[s] = IF s = {} THEN now ELSE op[<<g[s \ {Max(s)}], Max(s)>>]
    BY <1>5 DEF Folds
  <2>2. s # {} => Max(s) \in 1 .. N /\ s \ {Max(s)} \in D
    BY <1>1, LastOff
  <2>3. s # {} => op[<<g[s \ {Max(s)}], Max(s)>>] = look(g[s \ {Max(s)}], Max(s))
    BY <1>4, <2>2
  <2> QED BY <2>1, <2>3
<1>7. g = [s \in D |-> step(g, s)]
  <2>. HIDE DEF step
  <2> QED BY <1>6
<1>. DEFINE iter == CHOOSE h : h = [s \in D |-> step(h, s)]
<1>8. iter = [s \in D |-> step(iter, s)]
  BY <1>7
<1>9. Pass(now, lines, topic, second, key) = iter[1 .. N]
  BY <1>1 DEF Pass, look, FoldLeft, MapThenFoldSet
<1>. HIDE DEF iter
<1>10. \A s \in D : iter[s] = step(iter, s)
  <2>. HIDE DEF step
  <2> QED BY <1>8
<1>11. Folding(N, HelpState, now, op, iter)
  <2>1. iter[{}] = now
    BY <1>10
  <2>2. ASSUME NEW s \in D, s # {}, iter[s \ {Max(s)}] \in HelpState
        PROVE  iter[s] = op[<<iter[s \ {Max(s)}], Max(s)>>]
    <3>1. Max(s) \in 1 .. N
      BY <1>1, <2>2, LastOff
    <3>2. iter[s] = look(iter[s \ {Max(s)}], Max(s))
      BY <1>10, <2>2
    <3> QED BY <1>4, <2>2, <3>1, <3>2
  <2> QED BY <2>1, <2>2 DEF Folding
<1>12. PICK P : Steps(N, HelpState, now, op, P) /\ P[N] = iter[1 .. N]
  <2>1. Stepped(N, HelpState, now, op, iter)
    BY <1>1, <1>3, <1>11, FoldSteps
  <2> QED BY <2>1 DEF Stepped
<1>13. P \in [0 .. N -> HelpState] /\ P[0] = now
  BY <1>12 DEF Steps
<1>14. ASSUME NEW k \in 0 .. N - 1 PROVE Passed(P[k], P[k + 1], lines[k + 1], topic, second, key)
  <2>1. k \in 0 .. N /\ k + 1 \in 1 .. N
    BY <1>1
  <2>2. P[k] \in HelpState
    BY <1>13, <2>1
  <2>3. P[k + 1] = look(P[k], k + 1)
    BY <1>4, <1>12, <2>1, <2>2 DEF Steps
  <2> QED BY <1>2, <2>1, <2>2, <2>3
<1>15. Passes(now, lines, topic, second, key, P)
  BY <1>13, <1>14 DEF Passes, N
<1> QED BY <1>9, <1>12, <1>15 DEF N

\* The lines that are read, but for the last, and the last.
LEMMA LinesAre ==
    ASSUME NEW file \in Seq(HelpLine)
    PROVE  /\ Lines(file) \in Seq(HelpLine) /\ Len(Lines(file)) \in Nat \ {0}
           /\ Front(Lines(file)) \in Seq(HelpLine) /\ Last(Lines(file)) \in HelpLine
           /\ Len(Front(Lines(file))) = Len(Lines(file)) - 1
           /\ \A i \in 1 .. Len(Lines(file)) - 1 : Front(Lines(file))[i] = Lines(file)[i]
<1>. DEFINE lines == Lines(file)
            long == {i \in DOMAIN file : file[i].long}
<1>1. lines \in Seq(HelpLine) /\ Len(lines) \in Nat \ {0}
  <2>1. CASE long = {}
    <3>1. lines = Append(file, LastLine)
      BY <2>1 DEF Lines
    <3>2. LastLine \in HelpLine
      BY HelpLineIs
    <3> HIDE DEF lines
    <3>3. /\ Append(file, LastLine) \in Seq(HelpLine) /\ Len(Append(file, LastLine)) = Len(file) + 1
          /\ Len(file) \in Nat
      BY <3>2, AppendProperties, LenProperties
    <3> QED BY <3>1, <3>3
  <2>2. CASE long # {}
    <3>1. lines = SubSeq(file, 1, Min(long))
      BY <2>2 DEF Lines
    <3>2. long \subseteq Nat /\ long \subseteq 1 .. Len(file)
      OBVIOUS
    <3>3. Min(long) \in 1 .. Len(file)
      <4>. HIDE DEF long
      <4> QED BY <2>2, <3>2, MinIs
    <3>. HIDE DEF lines, long
    <3> QED BY <3>1, <3>3
  <2> QED BY <2>1, <2>2
<1>. HIDE DEF lines
<1>2. Front(lines) = SubSeq(lines, 1, Len(lines) - 1) /\ Last(lines) = lines[Len(lines)]
  BY DEF Front, Last
<1>3. Last(lines) \in HelpLine
  BY <1>1, <1>2, MemberAt
<1>. DEFINE n == Len(lines) - 1
<1>4. n \in Nat /\ n <= Len(lines)
  BY <1>1
<1>. HIDE DEF n
<1>5. SubSeq(lines, 1, n) \in Seq(HelpLine) /\ Len(SubSeq(lines, 1, n)) = n
      /\ \A i \in 1 .. n : SubSeq(lines, 1, n)[i] = lines[i]
  BY <1>1, <1>4
<1> QED BY <1>1, <1>2, <1>3, <1>5 DEF n, lines

\* displayHelp reads the file once or, if it finds nothing, twice.
LEMMA BothIs ==
    ASSUME NEW lines, NEW topic, NEW bPartialMatch \in BOOLEAN, NEW key
    PROVE  LET first == Pass(Reading, Front(lines), topic, FALSE, key)
           IN  \/ /\ first.state = "looking" /\ bPartialMatch
                  /\ BothPasses(lines, topic, bPartialMatch, key)
                         = Pass(Look(first, Last(lines), topic, TRUE, key), lines, topic, TRUE, key)
               \/ /\ ~(first.state = "looking" /\ bPartialMatch)
                  /\ BothPasses(lines, topic, bPartialMatch, key) = Look(first, Last(lines), topic, FALSE, key)
<1>. DEFINE first == Pass(Reading, Front(lines), topic, FALSE, key)
            again == first.state = "looking" /\ bPartialMatch
            last(second) == Look(first, Last(lines), topic, second, key)
<1>1. BothPasses(lines, topic, bPartialMatch, key)
          = IF again THEN Pass(last(again), lines, topic, TRUE, key) ELSE last(again)
  BY DEF BothPasses
<1>2. CASE again
  <2>1. again = TRUE
    BY <1>2
  <2>2. BothPasses(lines, topic, bPartialMatch, key) = Pass(last(TRUE), lines, topic, TRUE, key)
    <3>. HIDE DEF again, last
    <3> QED BY <1>1, <2>1, Zenon
  <2> QED BY <1>2, <2>2
<1>3. CASE ~again
  <2>1. again = FALSE
    BY <1>3
  <2>2. BothPasses(lines, topic, bPartialMatch, key) = last(FALSE)
    <3>. HIDE DEF again, last
    <3> QED BY <1>1, <2>1, Zenon
  <2> QED BY <1>3, <2>2
<1> QED BY <1>2, <1>3

LEMMA ReadingIs == Reading \in HelpState /\ Reading.state = "looking" /\ Reading.out = <<>> /\ Reading.nLineCount = 0
<1>1. <<>> \in Seq(OutLine)
  OBVIOUS
<1> QED BY <1>1 DEF Reading, HelpState

\* What looking at any line keeps, displayHelp keeps.
KeptBy(S, topic, second, key) ==
    \A now \in S, next \in HelpState, line \in HelpLine :
        Passed(now, next, line, topic, second, key) => next \in S

LEMMA PassKeeps ==
    ASSUME NEW topic, NEW second, NEW key \in Keys, NEW S, S \subseteq HelpState,
           KeptBy(S, topic, second, key), NEW now \in S, NEW lines \in Seq(HelpLine)
    PROVE  Pass(now, lines, topic, second, key) \in S
<1>1. now \in HelpState
  OBVIOUS
<1>2. PICK P : Passes(now, lines, topic, second, key, P) /\ Pass(now, lines, topic, second, key) = P[Len(lines)]
  BY <1>1, PassIs
<1>. DEFINE N == Len(lines)
            T == {k \in Nat : k <= N => P[k] \in S}
<1>3. N \in Nat /\ \A k \in 1 .. N : lines[k] \in HelpLine
  OBVIOUS
<1>. HIDE DEF N
<1>4. 0 \in T
  BY <1>2 DEF Passes
<1>5. ASSUME NEW k \in Nat, k \in T PROVE k + 1 \in T
  <2>1. SUFFICES ASSUME k + 1 <= N PROVE P[k + 1] \in S
    OBVIOUS
  <2>2. k <= N /\ k \in 0 .. N - 1 /\ k + 1 \in 0 .. N /\ k + 1 \in 1 .. N
    BY <1>3, <2>1
  <2>3. P[k] \in S /\ P[k + 1] \in HelpState /\ lines[k + 1] \in HelpLine
    BY <1>2, <1>3, <1>5, <2>2 DEF Passes, N
  <2>4. Passed(P[k], P[k + 1], lines[k + 1], topic, second, key)
    BY <1>2, <2>2 DEF Passes, N
  <2> QED BY <2>3, <2>4 DEF KeptBy
<1>6. N \in T
  <2>. HIDE DEF T
  <2> QED BY <1>3, <1>4, <1>5, Induct
<1> QED BY <1>2, <1>3, <1>6 DEF N

LEMMA LookKept ==
    ASSUME NEW topic, NEW second, NEW key \in Keys, NEW S, S \subseteq HelpState,
           KeptBy(S, topic, second, key), NEW now \in S, NEW line \in HelpLine
    PROVE  Look(now, line, topic, second, key) \in S
<1>1. now \in HelpState
  OBVIOUS
<1>2. /\ Look(now, line, topic, second, key) \in HelpState
      /\ Passed(now, Look(now, line, topic, second, key), line, topic, second, key)
  BY <1>1, LookIs
<1> QED BY <1>2 DEF KeptBy

LEMMA BothKeep ==
    ASSUME NEW topic, NEW key \in Keys, NEW S, S \subseteq HelpState, Reading \in S,
           KeptBy(S, topic, FALSE, key), KeptBy(S, topic, TRUE, key),
           NEW file \in Seq(HelpLine), NEW bPartialMatch \in BOOLEAN
    PROVE  BothPasses(Lines(file), topic, bPartialMatch, key) \in S
<1>. DEFINE lines == Lines(file)
            first == Pass(Reading, Front(lines), topic, FALSE, key)
<1>1. lines \in Seq(HelpLine) /\ Front(lines) \in Seq(HelpLine) /\ Last(lines) \in HelpLine
  BY LinesAre
<1>. HIDE DEF lines
<1>2. first \in S
  BY <1>1, PassKeeps
<1>. HIDE DEF first
<1>3. Look(first, Last(lines), topic, FALSE, key) \in S /\ Look(first, Last(lines), topic, TRUE, key) \in S
  BY <1>1, <1>2, LookKept
<1>4. Pass(Look(first, Last(lines), topic, TRUE, key), lines, topic, TRUE, key) \in S
  BY <1>1, <1>3, PassKeeps
<1> QED BY <1>3, <1>4, BothIs DEF lines, first

-----------------------------------------------------------------------------
(* A page at a time                                                        *)

Plain(out, i, j) == \A k \in i .. j : out[k].kind = "text"

\* No more lines in a row than a page and one, and no more than n at the end.
ShortRuns(out) == \A i \in 1 .. Len(out), j \in 1 .. Len(out) : Plain(out, i, j) => j - i <= PageLength
ShortEnd(out, n) == \A i \in 1 .. Len(out) : Plain(out, i, Len(out)) => Len(out) - i < n

Paged ==
    {now \in HelpState :
        /\ now.state # "nonstop" /\ now.nLineCount <= PageLength
        /\ ShortRuns(now.out) /\ ShortEnd(now.out, now.nLineCount)}

LEMMA RunOn == ASSUME NEW n \in Nat, NEW m \in Nat, NEW i \in 1 .. m, NEW p \in Nat, m - i < n, n <= p
               PROVE  m + 1 - i <= p /\ m + 1 - i < n + 1
OBVIOUS

LEMMA RunOver == ASSUME NEW p \in Nat, NEW m \in Nat, NEW i \in Nat, ~(i <= m) PROVE m - i <= p
OBVIOUS

LEMMA Within == ASSUME NEW n \in Nat, NEW i, NEW j
                PROVE  /\ i \in 1 .. n + 1 => i \in 1 .. n \/ i = n + 1
                       /\ i \in 1 .. n /\ j \in 1 .. n => \A k \in i .. j : k \in 1 .. n
                       /\ i \in 1 .. n => /\ n + 1 \in i .. n + 1
                                          /\ \A k \in i .. n : k \in 1 .. n /\ k \in i .. n + 1
OBVIOUS

\* A line more, of text or not.
LEMMA LineAdded ==
    ASSUME NEW out \in Seq(OutLine), NEW line \in OutLine, NEW n \in Nat, NEW m \in Nat,
           ShortRuns(out), ShortEnd(out, n), (m = n + 1 /\ n <= PageLength) \/ line.kind # "text"
    PROVE  ShortRuns(Append(out, line)) /\ ShortEnd(Append(out, line), m)
<1>. DEFINE N == Len(out)
            all == Append(out, line)
<1>0. PageLength \in Nat
  BY ScreenAssumption DEF ScreenAssumption
<1>1. /\ all \in Seq(OutLine) /\ Len(all) = N + 1 /\ N \in Nat
      /\ all[N + 1] = line /\ \A i \in 1 .. N : all[i] = out[i]
  BY AppendProperties, LenProperties
<1>. HIDE DEF N, all
<1>2. ASSUME NEW i \in 1 .. N, NEW j \in 1 .. N, Plain(all, i, j) PROVE Plain(out, i, j)
  <2>1. \A k \in i .. j : k \in 1 .. N
    BY <1>1, Within
  <2> QED BY <1>1, <1>2, <2>1 DEF Plain
<1>3. ASSUME NEW i \in 1 .. N, Plain(all, i, N + 1)
      PROVE  line.kind = "text" /\ Plain(out, i, N)
  <2>1. N + 1 \in i .. N + 1 /\ \A k \in i .. N : k \in 1 .. N /\ k \in i .. N + 1
    BY <1>1, Within
  <2> QED BY <1>1, <1>3, <2>1 DEF Plain
<1>4. ASSUME NEW i \in 1 .. N, Plain(all, i, N + 1)
      PROVE  N + 1 - i <= PageLength /\ N + 1 - i < m
  <2>1. N - i < n /\ m = n + 1 /\ n <= PageLength
    BY <1>3, <1>4 DEF ShortEnd, N
  <2> QED BY <1>0, <1>1, <2>1, RunOn
<1>5. ASSUME NEW i \in 1 .. N + 1, NEW j \in 1 .. N + 1, Plain(all, i, j) PROVE j - i <= PageLength
  <2>1. (i \in 1 .. N \/ i = N + 1) /\ (j \in 1 .. N \/ j = N + 1) /\ i \in Nat /\ j \in Nat
    BY <1>1, Within
  <2>2. CASE i \in 1 .. N /\ j \in 1 .. N
    BY <1>2, <1>5, <2>2 DEF ShortRuns, N
  <2>3. CASE i \in 1 .. N /\ j = N + 1
    <3>1. Plain(all, i, N + 1)
      BY <1>5, <2>3
    <3>2. N + 1 - i <= PageLength
      BY <1>4, <2>3, <3>1
    <3> QED BY <1>0, <1>1, <2>1, <2>3, <3>2
  <2>4. CASE i = N + 1
    <3>1. ~(i <= j) \/ j = i
      BY <1>1, <2>1, <2>4
    <3> QED BY <1>0, <2>1, <3>1, RunOver
  <2> QED BY <2>1, <2>2, <2>3, <2>4
<1>6. ASSUME NEW i \in 1 .. N + 1, Plain(all, i, N + 1) PROVE N + 1 - i < m
  <2>1. i \in 1 .. N \/ i = N + 1
    BY <1>1, Within
  <2>2. CASE i = N + 1
    <3>1. N + 1 \in i .. N + 1 /\ N + 1 - i = 0
      BY <1>1, <2>2
    <3>2. line.kind = "text"
      BY <1>1, <1>6, <3>1 DEF Plain
    <3> QED BY <3>1, <3>2
  <2> QED BY <1>4, <1>6, <2>1, <2>2
<1>7. ShortRuns(all)
  BY <1>1, <1>5 DEF ShortRuns
<1>8. ShortEnd(all, m)
  BY <1>1, <1>6 DEF ShortEnd
<1> QED BY <1>7, <1>8 DEF all

LEMMA PagedKept == ASSUME NEW topic, NEW second, NEW key \in Keys, key # "n" PROVE KeptBy(Paged, topic, second, key)
<1> SUFFICES ASSUME NEW now \in Paged, NEW next \in HelpState, NEW line \in HelpLine,
                    Passed(now, next, line, topic, second, key)
             PROVE  next \in Paged
  BY DEF KeptBy
<1>0. PageLength \in Nat /\ AfterPause[key] # "nonstop"
  BY ScreenAssumption DEF ScreenAssumption, AfterPause, Keys
<1>1. /\ now \in HelpState /\ now.state # "nonstop" /\ now.nLineCount <= PageLength
      /\ ShortRuns(now.out) /\ ShortEnd(now.out, now.nLineCount)
  BY DEF Paged
<1>2. now.out \in Seq(OutLine) /\ now.nLineCount \in Nat
  BY <1>1 DEF HelpState
<1>3. line \in OutLine /\ Pause \in OutLine /\ Pause.kind # "text"
  BY HelpLineIs
<1>. DEFINE out == Append(now.out, line)
<1>4. out \in Seq(OutLine)
  BY <1>2, <1>3, AppendProperties
<1>. HIDE DEF out
<1>5. CASE next.state # "nonstop" /\ next.out = now.out /\ next.nLineCount = now.nLineCount
  BY <1>1, <1>5 DEF Paged
<1>6. CASE /\ now.state \in {"reading", "nonstop"} /\ line.kind # "text" /\ next.state = now.state
           /\ next.out = out /\ next.nLineCount = now.nLineCount
  <2>1. ShortRuns(out) /\ ShortEnd(out, now.nLineCount)
    BY <1>1, <1>2, <1>3, <1>6, LineAdded DEF out
  <2> QED BY <1>1, <1>6, <2>1 DEF Paged
<1>7. CASE /\ now.nLineCount < PageLength \/ now.state = "nonstop"
           /\ next.state = now.state /\ next.out = out /\ next.nLineCount = now.nLineCount + 1
  <2>. DEFINE m == now.nLineCount + 1
  <2>1. m \in Nat /\ m = now.nLineCount + 1 /\ m <= PageLength
    BY <1>0, <1>1, <1>2, <1>7
  <2>. HIDE DEF m
  <2>2. ShortRuns(out) /\ ShortEnd(out, m)
    BY <1>1, <1>2, <1>3, <2>1, LineAdded DEF out
  <2>3. next.nLineCount = m
    BY <1>7 DEF m
  <2> QED BY <1>1, <1>7, <2>1, <2>2, <2>3 DEF Paged
<1>8. CASE /\ now.state = "reading" /\ ~(now.nLineCount < PageLength) /\ next.state = AfterPause[key]
           /\ next.out = Append(out, Pause) /\ next.nLineCount = 0
  <2>. DEFINE m == now.nLineCount + 1
  <2>1. m \in Nat /\ 0 \in Nat /\ m = now.nLineCount + 1 /\ now.nLineCount <= PageLength
    BY <1>1, <1>2
  <2>. HIDE DEF m
  <2>2. ShortRuns(out) /\ ShortEnd(out, m)
    BY <1>1, <1>2, <1>3, <2>1, LineAdded DEF out
  <2>4. ShortRuns(Append(out, Pause)) /\ ShortEnd(Append(out, Pause), 0)
    BY <1>3, <1>4, <2>1, <2>2, LineAdded
  <2>3. 0 <= PageLength
    BY <1>0
  <2> QED BY <1>0, <1>8, <2>3, <2>4 DEF Paged
<1> QED BY <1>1, <1>5, <1>6, <1>7, <1>8 DEF Passed, out

LEMMA StopsIs ==
    ASSUME NEW file \in Seq(HelpLine), NEW topic, NEW szError \in {Sorry, NoError}, NEW bPartialMatch \in BOOLEAN,
           NEW key \in Keys, key # "n"
    PROVE  /\ ShortRuns(displayHelp(file, topic, szError, bPartialMatch, key))
           /\ displayHelp(file, topic, szError, bPartialMatch, key) \in Seq(OutLine)
<1>. DEFINE read == BothPasses(Lines(file), topic, bPartialMatch, key)
<1>0. PageLength \in Nat /\ 0 \in Nat
  BY ScreenAssumption DEF ScreenAssumption
<1>1. Paged \subseteq HelpState
  BY DEF Paged
<1>2. Reading \in Paged
  <2>1. Len(<<>>) = 0 /\ 1 .. 0 = {} /\ 0 <= PageLength
    BY <1>0
  <2> QED BY <2>1, ReadingIs DEF Paged, ShortRuns, ShortEnd
<1>3. read \in Paged
  BY <1>1, <1>2, PagedKept, BothKeep
<1>. HIDE DEF read
<1>4. ShortRuns(read.out) /\ ShortEnd(read.out, read.nLineCount) /\ read.out \in Seq(OutLine) /\ read.nLineCount \in Nat
  BY <1>3 DEF Paged, HelpState
<1>5. Sorry \in OutLine /\ Sorry.kind # "text"
  BY HelpLineIs
<1>6. ShortRuns(Append(read.out, Sorry))
  BY <1>0, <1>4, <1>5, LineAdded
<1>7. displayHelp(file, topic, szError, bPartialMatch, key) \in {read.out, Append(read.out, Sorry)}
  BY DEF displayHelp, read
<1>8. Append(read.out, Sorry) \in Seq(OutLine)
  BY <1>4, <1>5, AppendProperties
<1> QED BY <1>4, <1>6, <1>7, <1>8

-----------------------------------------------------------------------------
(* An answer                                                               *)

\* A topic is found in a text that has it at the beginning of a word.
LEMMA TopicIs ==
    ASSUME NEW text \in Seq(Char), NEW topic \in Seq(Char), topic # <<>>
    PROVE  /\ IsTopic(text, topic, TRUE) <=> wordSearch(text, topic)
           /\ IsTopic(text, topic, FALSE) => wordSearch(text, topic)
           /\ ~wordSearch(<<>>, topic)
<1>1. Len(topic) \in Nat \ {0} /\ Len(text) \in Nat
  BY EmptySeq, LenProperties
<1>2. ~wordSearch(<<>>, topic)
  <2>1. 1 .. Len(<<>>) - Len(topic) + 1 = {}
    BY <1>1
  <2> QED BY <2>1 DEF wordSearch, WordsWith
<1>3. ASSUME SameText(text, topic) PROVE wordSearch(text, topic)
  <2>1. Folded(text) = Folded(topic)
    BY <1>3 DEF SameText
  <2>2. Len(text) = Len(topic)
    BY <2>1, FoldedIs
  <2>3. ASSUME NEW q \in 1 .. Len(topic) PROVE Lower(text[1 + q - 1]) = Lower(topic[q])
    <3>1. 1 + q - 1 = q /\ q \in 1 .. Len(text)
      BY <1>1, <2>2
    <3>2. Folded(text)[q] = Lower(text[q]) /\ Folded(topic)[q] = Lower(topic[q])
      BY <3>1, FoldedIs
    <3> QED BY <2>1, <3>1, <3>2
  <2>4. 1 + Len(topic) - 1 <= Len(text) /\ 1 \in Nat \ {0}
    BY <1>1, <2>2
  <2>5. 1 \in WordsWith(text, topic)
    BY <2>3, <2>4, WordsWithIs
  <2> QED BY <2>5 DEF wordSearch
<1> QED BY <1>2, <1>3 DEF IsTopic

\* The lines that are read are those of the file before the first that is too long, and
\* that one, or all of them and one more.
LEMMA LinesFrom ==
    ASSUME NEW file \in Seq(HelpLine)
    PROVE  /\ \A i \in 1 .. Len(Lines(file)) :
                  \/ i \in DOMAIN file /\ Lines(file)[i] = file[i] /\ \A j \in 1 .. i - 1 : ~file[j].long
                  \/ Lines(file)[i] = LastLine
           /\ \A i \in DOMAIN file :
                  (\A j \in 1 .. i - 1 : ~file[j].long)
                  => i \in 1 .. Len(Lines(file)) /\ Lines(file)[i] = file[i]
<1>. DEFINE N == Len(file)
            long == {i \in DOMAIN file : file[i].long}
<1>1. N \in Nat /\ DOMAIN file = 1 .. N /\ long \subseteq 1 .. N
  OBVIOUS
<1>2. CASE long = {}
  <2>1. Lines(file) = Append(file, LastLine)
    BY <1>2 DEF Lines
  <2>2. LastLine \in HelpLine
    BY HelpLineIs
  <2>3. /\ Len(Lines(file)) = N + 1 /\ Lines(file)[N + 1] = LastLine
        /\ \A i \in 1 .. N : Lines(file)[i] = file[i]
    BY <2>1, <2>2, AppendProperties
  <2>4. \A j \in 1 .. N : ~file[j].long
    BY <1>1, <1>2
  <2>. HIDE DEF N, long
  <2>5. \A i \in 1 .. N + 1 : i = N + 1 \/ (i \in 1 .. N /\ \A j \in 1 .. i - 1 : j \in 1 .. N)
    BY <1>1
  <2>6. \A i \in 1 .. N : i \in 1 .. N + 1
    BY <1>1
  <2> QED BY <1>1, <2>3, <2>4, <2>5, <2>6
<1>3. CASE long # {}
  <2>. DEFINE m == Min(long)
  <2>1. Lines(file) = SubSeq(file, 1, m)
    BY <1>3 DEF Lines
  <2>2. long \subseteq Nat
    BY <1>1
  <2>. HIDE DEF N, long
  <2>3. m \in long /\ \A i \in long : m <= i
    BY <1>3, <2>2, MinIs
  <2>. HIDE DEF m
  <2>4. m \in 1 .. N /\ m \in Nat
    BY <1>1, <2>3
  <2>5. Len(Lines(file)) = m /\ \A i \in 1 .. m : Lines(file)[i] = file[i]
    BY <2>1, <2>4 DEF N
  <2>6. ASSUME NEW i \in 1 .. m PROVE i \in 1 .. N /\ \A j \in 1 .. i - 1 : ~file[j].long
    <3>1. i \in 1 .. N
      BY <1>1, <2>4
    <3>2. ASSUME NEW j \in 1 .. i - 1 PROVE ~file[j].long
      <4>1. j \in 1 .. N /\ ~(m <= j)
        BY <1>1, <2>4
      <4> QED BY <1>1, <2>3, <4>1 DEF long
    <3> QED BY <3>1, <3>2
  <2>7. ASSUME NEW i \in 1 .. N, \A j \in 1 .. i - 1 : ~file[j].long PROVE i \in 1 .. m
    <3>1. m \notin 1 .. i - 1
      BY <2>3, <2>7 DEF long
    <3> QED BY <1>1, <2>4, <3>1
  <2> QED BY <1>1, <2>5, <2>6, <2>7
<1> QED BY <1>2, <1>3

NoneBegins(lines, topic, second) == \A i \in 1 .. Len(lines) : ~BeginsEntry(lines[i], topic, second)

\* Nothing is found as long as no line begins the entry.
LEMMA LookingOn ==
    ASSUME NEW topic, NEW second, NEW key \in Keys, NEW now \in HelpState, NEW lines \in Seq(HelpLine)
    PROVE  Pass(now, lines, topic, second, key).state = "looking"
               <=> now.state = "looking" /\ NoneBegins(lines, topic, second)
<1>1. PICK P : Passes(now, lines, topic, second, key, P) /\ Pass(now, lines, topic, second, key) = P[Len(lines)]
  BY PassIs
<1>0. AfterPause[key] # "looking"
  BY DEF AfterPause, Keys
<1>. DEFINE N == Len(lines)
            None(k) == \A i \in 1 .. k : ~BeginsEntry(lines[i], topic, second)
            Still(k) == now.state = "looking" /\ None(k)
            T == {k \in Nat : k <= N => (P[k].state = "looking" <=> Still(k))}
<1>2. N \in Nat
  OBVIOUS
<1>. HIDE DEF N
<1>3. 0 \in T
  <2>1. 1 .. 0 = {} /\ P[0] = now
    BY <1>1 DEF Passes
  <2> QED BY <2>1
<1>4. ASSUME NEW k \in Nat, k \in T PROVE k + 1 \in T
  <2>1. SUFFICES ASSUME k + 1 <= N PROVE P[k + 1].state = "looking" <=> Still(k + 1)
    OBVIOUS
  <2>2. k <= N /\ k \in 0 .. N - 1
    BY <1>2, <2>1
  <2>3. Passed(P[k], P[k + 1], lines[k + 1], topic, second, key)
    BY <1>1, <2>2 DEF Passes, N
  <2>4. P[k + 1].state = "looking"
            <=> P[k].state = "looking" /\ ~BeginsEntry(lines[k + 1], topic, second)
    BY <1>0, <2>3 DEF Passed
  <2>5. None(k + 1) <=> None(k) /\ ~BeginsEntry(lines[k + 1], topic, second)
    <3>1. \A i \in 1 .. k + 1 : i \in 1 .. k \/ i = k + 1
      OBVIOUS
    <3>2. k + 1 \in 1 .. k + 1 /\ \A i \in 1 .. k : i \in 1 .. k + 1
      OBVIOUS
    <3> QED BY <3>1, <3>2
  <2>6. P[k].state = "looking" <=> Still(k)
    BY <1>4, <2>2
  <2>. HIDE DEF None
  <2> QED BY <2>4, <2>5, <2>6
<1>5. N \in T
  <2>. HIDE DEF T
  <2> QED BY <1>2, <1>3, <1>4, Induct
<1>6. N <= N
  BY <1>2
<1>7. P[N].state = "looking" <=> Still(N)
  <2>. HIDE DEF Still
  <2> QED BY <1>5, <1>6
<1>8. None(N) <=> NoneBegins(lines, topic, second)
  BY DEF NoneBegins, N
<1>. HIDE DEF None
<1> QED BY <1>1, <1>7, <1>8 DEF N

\* The lines that begin the entry of a topic, in a search for a beginning of a word.
Entries(file, topic) ==
    {i \in DOMAIN file :
        /\ \A j \in 1 .. i - 1 : ~file[j].long
        /\ file[i].kind = ";"
        /\ wordSearch(file[i].text, topic)}

LEMMA EntriesAre ==
    ASSUME NEW file \in Seq(HelpLine), NEW topic \in Seq(Char), topic # <<>>
    PROVE  NoneBegins(Lines(file), topic, TRUE) <=> Entries(file, topic) = {}
<1>1. ASSUME NEW i \in DOMAIN file PROVE file[i].text \in Seq(Char)
  <2>1. file[i] \in HelpLine
    OBVIOUS
  <2> QED BY <2>1 DEF HelpLine
<1>2. ASSUME NEW i \in DOMAIN file
      PROVE  BeginsEntry(file[i], topic, TRUE) <=> file[i].kind = ";" /\ wordSearch(file[i].text, topic)
  <2>1. file[i].text \in Seq(Char)
    BY <1>1
  <2> QED BY <2>1, TopicIs DEF BeginsEntry
<1>3. ~BeginsEntry(LastLine, topic, TRUE)
  BY HelpLineIs DEF BeginsEntry
<1>4. ASSUME NEW i \in Entries(file, topic) PROVE \E j \in 1 .. Len(Lines(file)) : BeginsEntry(Lines(file)[j], topic, TRUE)
  <2>1. i \in DOMAIN file /\ (\A j \in 1 .. i - 1 : ~file[j].long) /\ file[i].kind = ";" /\ wordSearch(file[i].text, topic)
    BY DEF Entries
  <2>2. i \in 1 .. Len(Lines(file)) /\ Lines(file)[i] = file[i]
    BY <2>1, LinesFrom
  <2> QED BY <1>2, <2>1, <2>2
<1>5. ASSUME NEW i \in 1 .. Len(Lines(file)), BeginsEntry(Lines(file)[i], topic, TRUE) PROVE i \in Entries(file, topic)
  <2>1. i \in DOMAIN file /\ Lines(file)[i] = file[i] /\ \A j \in 1 .. i - 1 : ~file[j].long
    BY <1>3, <1>5, LinesFrom
  <2> QED BY <1>2, <1>5, <2>1 DEF Entries
<1> QED BY <1>4, <1>5 DEF NoneBegins

LEMMA LinesTexts == ASSUME NEW lines \in Seq(HelpLine), NEW i \in 1 .. Len(lines) PROVE lines[i].text \in Seq(Char)
<1>1. lines[i] \in HelpLine
  OBVIOUS
<1> QED BY <1>1 DEF HelpLine

\* An entry is found if there is one.
LEMMA FoundIs ==
    ASSUME NEW file \in Seq(HelpLine), NEW topic \in Seq(Char), topic # <<>>, NEW key \in Keys
    PROVE  BothPasses(Lines(file), topic, TRUE, key).state = "looking" <=> Entries(file, topic) = {}
<1>. DEFINE lines == Lines(file)
            front == Front(lines)
            first == Pass(Reading, front, topic, FALSE, key)
            last == Look(first, Last(lines), topic, TRUE, key)
            read == BothPasses(lines, topic, TRUE, key)
            None == NoneBegins(lines, topic, TRUE)
<1>0. AfterPause[key] # "looking"
  BY DEF AfterPause, Keys
<1>1. /\ lines \in Seq(HelpLine) /\ front \in Seq(HelpLine) /\ Last(lines) \in HelpLine
      /\ Len(lines) \in Nat \ {0} /\ Len(front) = Len(lines) - 1
      /\ \A i \in 1 .. Len(lines) - 1 : front[i] = lines[i]
  BY LinesAre
<1>2. None <=> Entries(file, topic) = {}
  BY EntriesAre
<1>3. first \in HelpState
  <2>. HIDE DEF front
  <2>1. HelpState \subseteq HelpState /\ KeptBy(HelpState, topic, FALSE, key)
    BY DEF KeptBy
  <2> QED BY <1>1, <2>1, ReadingIs, PassKeeps
<1>4. \/ first.state = "looking" /\ read = Pass(last, lines, topic, TRUE, key)
      \/ ~(first.state = "looking") /\ read = Look(first, Last(lines), topic, FALSE, key)
  BY BothIs
<1>5. first.state = "looking" <=> NoneBegins(front, topic, FALSE)
  <2>1. Reading \in HelpState /\ Reading.state = "looking"
    BY ReadingIs
  <2>. HIDE DEF front
  <2>2. Pass(Reading, front, topic, FALSE, key).state = "looking"
            <=> Reading.state = "looking" /\ NoneBegins(front, topic, FALSE)
    BY <1>1, <2>1, LookingOn
  <2> QED BY <2>1, <2>2
<1>. HIDE DEF read, first, front, lines
<1>6. last \in HelpState /\ Passed(first, last, Last(lines), topic, TRUE, key)
  BY <1>1, <1>3, LookIs
<1>. HIDE DEF last
<1>7. CASE first.state = "looking" /\ read = Pass(last, lines, topic, TRUE, key)
  <2>1. last.state = "looking" <=> ~BeginsEntry(Last(lines), topic, TRUE)
    BY <1>0, <1>6, <1>7 DEF Passed
  <2>2. read.state = "looking" <=> last.state = "looking" /\ None
    <3>1. Pass(last, lines, topic, TRUE, key).state = "looking" <=> last.state = "looking" /\ None
      BY <1>1, <1>6, LookingOn
    <3>. HIDE DEF None
    <3> QED BY <1>7, <3>1
  <2>3. None => ~BeginsEntry(Last(lines), topic, TRUE)
    <3>1. Len(lines) \in 1 .. Len(lines)
      BY <1>1
    <3> QED BY <3>1 DEF Last, NoneBegins
  <2>. HIDE DEF None
  <2> QED BY <1>2, <2>1, <2>2, <2>3 DEF read, lines
<1>8. CASE ~(first.state = "looking") /\ read = Look(first, Last(lines), topic, FALSE, key)
  <2>1. PICK i \in 1 .. Len(front) : BeginsEntry(front[i], topic, FALSE)
    BY <1>5, <1>8 DEF NoneBegins
  <2>2. i \in 1 .. Len(lines) /\ front[i] = lines[i]
    BY <1>1
  <2>3. lines[i].text \in Seq(Char)
    BY <1>1, <2>2, LinesTexts
  <2>4. BeginsEntry(lines[i], topic, TRUE)
    BY <2>1, <2>2, <2>3, TopicIs DEF BeginsEntry
  <2>5. ~None
    BY <2>2, <2>4 DEF NoneBegins
  <2>6. Passed(first, read, Last(lines), topic, FALSE, key)
    BY <1>1, <1>3, <1>8, LookIs
  <2>7. read.state # "looking"
    BY <1>0, <1>8, <2>6 DEF Passed
  <2>. HIDE DEF None
  <2> QED BY <1>2, <2>5, <2>7 DEF read, lines
<1> QED BY <1>4, <1>7, <1>8

\* Nothing is shown while the entry is looked for, and never an error.
Quiet ==
    {now \in HelpState :
        /\ now.state = "looking" => now.out = <<>>
        /\ \A i \in 1 .. Len(now.out) : now.out[i].kind # "error"}

LEMMA QuietKept == ASSUME NEW topic, NEW second, NEW key \in Keys PROVE KeptBy(Quiet, topic, second, key)
<1> SUFFICES ASSUME NEW now \in Quiet, NEW next \in HelpState, NEW line \in HelpLine,
                    Passed(now, next, line, topic, second, key)
             PROVE  next \in Quiet
  BY DEF KeptBy
<1>0. AfterPause[key] # "looking"
  BY DEF AfterPause, Keys
<1>1. /\ now \in HelpState /\ now.out \in Seq(OutLine)
      /\ now.state = "looking" => now.out = <<>>
      /\ \A i \in 1 .. Len(now.out) : now.out[i].kind # "error"
  BY DEF Quiet, HelpState
<1>2. line \in OutLine /\ Pause \in OutLine /\ Pause.kind # "error" /\ line.kind # "error"
  BY HelpLineIs
<1>3. ASSUME NEW out \in Seq(OutLine), NEW one \in OutLine, one.kind # "error",
             \A i \in 1 .. Len(out) : out[i].kind # "error"
      PROVE  /\ Append(out, one) \in Seq(OutLine)
             /\ \A i \in 1 .. Len(Append(out, one)) : Append(out, one)[i].kind # "error"
  <2>. DEFINE N == Len(out)
  <2>1. /\ Append(out, one) \in Seq(OutLine) /\ Len(Append(out, one)) = N + 1 /\ N \in Nat
        /\ Append(out, one)[N + 1] = one /\ \A i \in 1 .. N : Append(out, one)[i] = out[i]
    BY AppendProperties, LenProperties
  <2>2. \A i \in 1 .. N + 1 : i \in 1 .. N \/ i = N + 1
    BY <2>1
  <2>. HIDE DEF N
  <2> QED BY <1>3, <2>1, <2>2 DEF N
<1>. DEFINE out == Append(now.out, line)
<1>4. out \in Seq(OutLine) /\ \A i \in 1 .. Len(out) : out[i].kind # "error"
  BY <1>1, <1>2, <1>3
<1>. HIDE DEF out
<1>5. \A i \in 1 .. Len(Append(out, Pause)) : Append(out, Pause)[i].kind # "error"
  BY <1>2, <1>3, <1>4
<1>6. CASE next.out = now.out /\ (next.state = "looking" => now.state = "looking")
  BY <1>1, <1>6 DEF Quiet
<1>7. CASE next.out \in {out, Append(out, Pause)} /\ next.state # "looking"
  BY <1>4, <1>5, <1>7 DEF Quiet
<1>8. \/ next.out = now.out /\ (next.state = "looking" => now.state = "looking")
      \/ next.out \in {out, Append(out, Pause)} /\ next.state # "looking"
  BY <1>0 DEF Passed, out
<1> QED BY <1>6, <1>7, <1>8

LEMMA AnswerIs ==
    ASSUME NEW file \in Seq(HelpLine), NEW topic \in Seq(Char), topic # <<>>, NEW key \in Keys
    PROVE  LET shows == displayHelp(file, topic, Sorry, TRUE, key)
           IN  (shows # <<>> /\ Last(shows) = Sorry) <=> Entries(file, topic) = {}
<1>. DEFINE read == BothPasses(Lines(file), topic, TRUE, key)
            shows == displayHelp(file, topic, Sorry, TRUE, key)
<1>1. Quiet \subseteq HelpState /\ Reading \in Quiet
  <2>1. Len(<<>>) = 0 /\ 1 .. 0 = {}
    OBVIOUS
  <2> QED BY <2>1, ReadingIs DEF Quiet
<1>2. read \in Quiet
  BY <1>1, QuietKept, BothKeep
<1>3. read.state = "looking" <=> Entries(file, topic) = {}
  BY FoundIs
<1>4. shows = IF read.state = "looking" THEN Append(read.out, Sorry) ELSE read.out
  BY HelpLineIs DEF displayHelp
<1>. HIDE DEF read, shows
<1>5. /\ read.out \in Seq(OutLine)
      /\ read.state = "looking" => read.out = <<>>
      /\ \A i \in 1 .. Len(read.out) : read.out[i].kind # "error"
  BY <1>2 DEF Quiet, HelpState
<1>6. CASE read.state = "looking"
  <2>1. shows = Append(<<>>, Sorry)
    BY <1>4, <1>5, <1>6
  <2>2. Len(<<Sorry>>) = 1 /\ <<Sorry>> # <<>> /\ <<Sorry>>[1] = Sorry /\ Append(<<>>, Sorry) = <<Sorry>>
    OBVIOUS
  <2>3. shows # <<>> /\ Last(shows) = Sorry
    BY <2>1, <2>2 DEF Last
  <2> QED BY <1>3, <1>6, <2>3 DEF shows
<1>7. CASE read.state # "looking"
  <2>1. shows = read.out
    BY <1>4, <1>7
  <2>2. ASSUME shows # <<>> PROVE Last(shows) # Sorry
    <3>1. Len(shows) \in 1 .. Len(shows)
      BY <1>5, <2>1, <2>2, EmptySeq
    <3>2. shows[Len(shows)].kind # "error" /\ Sorry.kind = "error"
      BY <1>5, <2>1, <3>1, HelpLineIs
    <3> QED BY <3>2 DEF Last
  <2> QED BY <1>3, <1>7, <2>2 DEF shows
<1> QED BY <1>6, <1>7

-----------------------------------------------------------------------------
(* The whole entry                                                         *)

\* What is shown, less the pauses.
Seen(out) == Without(out, {Pause})

LEMMA SeenIs ==
    /\ Seen(<<>>) = <<>>
    /\ \A out \in Seq(OutLine), line \in HelpLine :
          /\ Seen(Append(out, line)) = Append(Seen(out), line)
          /\ Seen(Append(Append(out, line), Pause)) = Append(Seen(out), line)
<1>1. Seen(<<>>) = <<>>
  <2>1. <<>> \in Seq(OutLine)
    OBVIOUS
  <2> QED BY <2>1, WithoutType DEF Seen
<1>2. ASSUME NEW out \in Seq(OutLine), NEW line \in HelpLine
      PROVE  /\ Seen(Append(out, line)) = Append(Seen(out), line)
             /\ Seen(Append(Append(out, line), Pause)) = Append(Seen(out), line)
  <2>1. line \in OutLine /\ Pause \in OutLine /\ line \notin {Pause} /\ Pause \in {Pause}
    BY HelpLineIs
  <2>2. Append(out, line) \in Seq(OutLine)
    BY <2>1, AppendProperties
  <2>3. Seen(Append(out, line)) = Append(Seen(out), line)
    <3>1. Without(Append(out, line), {Pause})
              = IF line \in {Pause} THEN Without(out, {Pause}) ELSE Append(Without(out, {Pause}), line)
      BY <2>1, WithoutAppend
    <3> QED BY <2>1, <3>1 DEF Seen
  <2>4. Seen(Append(Append(out, line), Pause)) = Seen(Append(out, line))
    <3>. DEFINE more == Append(out, line)
    <3>1. more \in Seq(OutLine)
      BY <2>2
    <3>. HIDE DEF more
    <3>2. Without(Append(more, Pause), {Pause})
              = IF Pause \in {Pause} THEN Without(more, {Pause}) ELSE Append(Without(more, {Pause}), Pause)
      BY <2>1, <3>1, WithoutAppend
    <3> QED BY <2>1, <3>2 DEF Seen, more
  <2> QED BY <2>3, <2>4
<1> QED BY <1>1, <1>2

\* The entry is read on until a line ends it.
LEMMA ReadOn ==
    ASSUME NEW now \in HelpState, NEW next \in HelpState, NEW line \in HelpLine, NEW topic, NEW second,
           NEW key \in Keys, key # "q", Passed(now, next, line, topic, second, key),
           now.state \in {"reading", "nonstop"}, ~EndsEntry(line, topic, second)
    PROVE  /\ next.state \in {"reading", "nonstop"}
           /\ Seen(next.out) = IF line \in NotShown THEN Seen(now.out) ELSE Append(Seen(now.out), line)
<1>1. now.out \in Seq(OutLine)
  BY DEF HelpState
<1>2. line \in NotShown <=> ~Shows(line)
  BY DEF NotShown, Shows
<1>3. AfterPause[key] \in {"reading", "nonstop"}
  BY DEF AfterPause, Keys
<1>4. \/ next = now /\ ~Shows(line)
      \/ next.state = now.state /\ next.out = Append(now.out, line) /\ Shows(line)
      \/ next.state = AfterPause[key] /\ next.out = Append(Append(now.out, line), Pause) /\ Shows(line)
  BY DEF Passed
<1>5. /\ Seen(Append(now.out, line)) = Append(Seen(now.out), line)
      /\ Seen(Append(Append(now.out, line), Pause)) = Append(Seen(now.out), line)
  BY <1>1, SeenIs
<1>. HIDE DEF Passed
<1> QED BY <1>2, <1>3, <1>4, <1>5

\* A line more of a file.
LEMMA PartNext ==
    ASSUME NEW A, NEW file \in Seq(A), NEW begin \in 1 .. Len(file), NEW k \in Nat, begin <= k + 1, k + 1 <= Len(file), NEW set
    PROVE  Without(SubSeq(file, begin, k + 1), set) =
               IF file[k + 1] \in set THEN Without(SubSeq(file, begin, k), set)
               ELSE Append(Without(SubSeq(file, begin, k), set), file[k + 1])
<1>1. k + 1 \in begin .. Len(file) /\ k + 1 - 1 = k /\ k + 1 \in 1 .. Len(file)
  OBVIOUS
<1>2. SubSeq(file, begin, k + 1) = SubSeq(file, begin, k) \o <<file[k + 1]>>
  BY <1>1, SubSeqRecursiveSecond
<1>3. file[k + 1] \in A
  BY <1>1
<1>4. SubSeq(file, begin, k) \in Seq(A)
  <2>1. begin \in Int /\ k \in Int /\ \A i \in begin .. k : file[i] \in A
    OBVIOUS
  <2> QED BY <2>1, SubSeqProperties
<1>5. SubSeq(file, begin, k + 1) = Append(SubSeq(file, begin, k), file[k + 1])
  BY <1>2, <1>3, <1>4, AppendIsConcat
<1>. DEFINE piece == SubSeq(file, begin, k)
            line == file[k + 1]
<1>. HIDE DEF piece, line
<1>6. piece \in Seq(A) /\ line \in A
  BY <1>3, <1>4 DEF piece, line
<1>7. Without(Append(piece, line), set) = IF line \in set THEN Without(piece, set) ELSE Append(Without(piece, set), line)
  BY <1>6, WithoutAppend
<1>8. Append(piece, line) = SubSeq(file, begin, k + 1)
  BY <1>5 DEF piece, line
<1> QED BY <1>7, <1>8 DEF piece, line

\* Where the entry of a topic begins and ends that a file has under its full name.
BeginsOf(file, topic) == {i \in DOMAIN file : BeginsEntry(file[i], topic, FALSE)}
BeginOf(file, topic) == Min(BeginsOf(file, topic))
EndsOf(file, topic, begin) == {i \in begin .. Len(file) : EndsEntry(file[i], topic, FALSE)}
EndOf(file, topic) == Min(EndsOf(file, topic, BeginOf(file, topic)) \cup {Len(file) + 1})

Bounds(file, topic, begin, end) ==
    /\ begin \in 1 .. Len(file) /\ end \in Nat /\ begin < end /\ end <= Len(file) + 1
    /\ BeginsEntry(file[begin], topic, FALSE)
    /\ \A i \in 1 .. begin - 1 : ~BeginsEntry(file[i], topic, FALSE)
    /\ \A i \in begin .. end - 1 : ~EndsEntry(file[i], topic, FALSE)
    /\ end <= Len(file) => EndsEntry(file[end], topic, FALSE)

LEMMA BoundsAre ==
    ASSUME NEW file \in Seq(HelpLine), NEW topic, BeginsOf(file, topic) # {}
    PROVE  Bounds(file, topic, BeginOf(file, topic), EndOf(file, topic))
<1>. DEFINE N == Len(file)
            B == BeginsOf(file, topic)
            begin == BeginOf(file, topic)
            E == EndsOf(file, topic, begin)
            end == EndOf(file, topic)
<1>1. N \in Nat /\ DOMAIN file = 1 .. N
  OBVIOUS
<1>2. B # {} /\ B \subseteq Nat /\ begin = Min(B)
  <2>1. B \subseteq DOMAIN file
    BY DEF BeginsOf
  <2>2. begin = Min(B)
    BY DEF BeginOf
  <2>. HIDE DEF B, begin, N
  <2>3. B \subseteq Nat
    BY <1>1, <2>1
  <2>4. B # {}
    BY DEF B
  <2> QED BY <2>2, <2>3, <2>4
<1>3. end = Min(E \cup {N + 1})
  BY DEF EndOf
<1>. HIDE DEF N, begin, end
<1>4. begin \in B /\ \A i \in B : begin <= i
  <2>. HIDE DEF B
  <2> QED BY <1>2, MinIs
<1>5. begin \in 1 .. N /\ BeginsEntry(file[begin], topic, FALSE)
  BY <1>1, <1>4 DEF BeginsOf
<1>6. ASSUME NEW i \in 1 .. begin - 1 PROVE ~BeginsEntry(file[i], topic, FALSE)
  <2>1. i \in 1 .. N /\ ~(begin <= i)
    BY <1>1, <1>5
  <2> QED BY <1>1, <1>4, <2>1 DEF BeginsOf
<1>7. E \cup {N + 1} \subseteq Nat /\ E \cup {N + 1} # {}
  <2>1. E \subseteq begin .. N
    BY DEF EndsOf, N
  <2>. HIDE DEF E
  <2>2. \A i \in begin .. N : i \in Nat
    BY <1>1, <1>5
  <2>3. N + 1 \in Nat
    BY <1>1
  <2> QED BY <2>1, <2>2, <2>3
<1>8. end \in E \cup {N + 1} /\ \A i \in E \cup {N + 1} : end <= i
  <2>. HIDE DEF E
  <2> QED BY <1>3, <1>7, MinIs
<1>9. begin \notin E
  BY <1>5 DEF BeginsEntry, EndsEntry, EndsOf
<1>10. end \in Nat /\ begin < end /\ end <= N + 1
  <2>1. end \in begin .. N + 1 /\ end # begin
    <3>1. CASE end \in E
      <4>1. E \subseteq begin .. N
        BY DEF EndsOf, N
      <4>. HIDE DEF E
      <4>2. end \in begin .. N /\ end # begin
        BY <1>9, <3>1, <4>1
      <4> QED BY <1>1, <1>5, <4>2
    <3>2. CASE end = N + 1
      BY <1>1, <1>5, <3>2
    <3> QED BY <1>8, <3>1, <3>2
  <2> QED BY <1>1, <1>5, <2>1
<1>11. ASSUME NEW i \in begin .. end - 1 PROVE ~EndsEntry(file[i], topic, FALSE)
  <2>1. i \in begin .. N /\ ~(end <= i)
    BY <1>1, <1>5, <1>10
  <2> QED BY <1>8, <2>1 DEF EndsOf, N
<1>12. end <= N => EndsEntry(file[end], topic, FALSE)
  <2>1. end <= N => end # N + 1
    BY <1>1, <1>10
  <2> QED BY <1>8, <2>1 DEF EndsOf
<1>. HIDE DEF B, E
<1> QED BY <1>5, <1>6, <1>10, <1>11, <1>12 DEF Bounds, N, begin, end

\* What displayHelp knows when it has read the first k lines: nothing yet, the entry as
\* far as it goes, or all of it.
Part(file, begin, k) == Without(SubSeq(file, begin, k), NotShown)

Known(now, file, begin, end, k) ==
    \/ k < begin /\ now.state = "looking" /\ now.out = <<>>
    \/ /\ begin <= k /\ k < end /\ now.state \in {"reading", "nonstop"}
       /\ Seen(now.out) = Part(file, begin, k)
    \/ end <= k /\ now.state = "over" /\ Seen(now.out) = Part(file, begin, end - 1)

LEMMA KnownOn ==
    ASSUME NEW file \in Seq(HelpLine), NEW topic, NEW key \in Keys, key # "q",
           NEW begin, NEW end, Bounds(file, topic, begin, end), NEW k \in Nat, k + 1 <= Len(file),
           NEW now \in HelpState, NEW next \in HelpState,
           Passed(now, next, file[k + 1], topic, FALSE, key), Known(now, file, begin, end, k)
    PROVE  Known(next, file, begin, end, k + 1)
<1>. DEFINE N == Len(file)
            line == file[k + 1]
<1>1. /\ N \in Nat /\ begin \in 1 .. N /\ end \in Nat /\ begin < end /\ end <= N + 1 /\ begin \in Nat
      /\ k + 1 \in 1 .. N /\ k + 1 <= N
  BY DEF Bounds
<1>2. line \in HelpLine
  BY <1>1, MemberAt
<1>. HIDE DEF N, line
<1>0. Passed(now, next, line, topic, FALSE, key)
  BY DEF line
<1>3. CASE k + 1 < begin
  <2>1. k < begin /\ ~(begin <= k) /\ ~(end <= k) /\ k + 1 \in 1 .. begin - 1
    BY <1>1, <1>3
  <2>2. ~BeginsEntry(line, topic, FALSE)
    BY <2>1 DEF Bounds, line
  <2>3. now.state = "looking" /\ now.out = <<>>
    BY <2>1 DEF Known
  <2>4. next = now
    BY <1>0, <2>2, <2>3 DEF Passed
  <2> QED BY <1>3, <2>3, <2>4 DEF Known
<1>4. CASE k + 1 = begin
  <2>1. k < begin /\ ~(begin <= k) /\ ~(end <= k) /\ k + 1 < end /\ begin <= k + 1
    BY <1>1, <1>4
  <2>2. BeginsEntry(line, topic, FALSE)
    BY <1>4 DEF Bounds, line
  <2>3. now.state = "looking" /\ now.out = <<>>
    BY <2>1 DEF Known
  <2>4. next.state = "reading" /\ next.out = <<>>
    BY <1>0, <2>2, <2>3 DEF Passed
  <2>5. Part(file, begin, k + 1) = <<>>
    <3>1. SubSeq(file, begin, k) = <<>>
      <4>1. k < begin /\ begin \in Int /\ k \in Int
        BY <1>1, <2>1
      <4> QED BY <4>1, SubSeqEmpty
    <3>2. line \in NotShown
      BY <1>2, <2>2 DEF NotShown, BeginsEntry
    <3>3. Part(file, begin, k + 1) = Without(SubSeq(file, begin, k), NotShown)
      <4>. DEFINE more == Without(SubSeq(file, begin, k + 1), NotShown)
                  some == Without(SubSeq(file, begin, k), NotShown)
      <4>1. more = IF file[k + 1] \in NotShown THEN some ELSE Append(some, file[k + 1])
        BY <1>1, <2>1, PartNext DEF N
      <4>. HIDE DEF more, some
      <4> QED BY <3>2, <4>1 DEF line, Part, more, some
    <3> QED BY <3>1, <3>3, SeenIs, WithoutType
  <2> QED BY <2>1, <2>4, <2>5, SeenIs DEF Known
<1>5. CASE begin <= k /\ k + 1 < end
  <2>1. ~(k < begin) /\ ~(end <= k) /\ k + 1 \in begin .. end - 1 /\ begin <= k + 1
    BY <1>1, <1>5
  <2>2. now.state \in {"reading", "nonstop"} /\ Seen(now.out) = Part(file, begin, k)
    BY <2>1 DEF Known
  <2>3. ~EndsEntry(line, topic, FALSE)
    BY <2>1 DEF Bounds, line
  <2>4. /\ next.state \in {"reading", "nonstop"}
        /\ Seen(next.out) = IF line \in NotShown THEN Seen(now.out) ELSE Append(Seen(now.out), line)
    BY <1>0, <1>2, <2>2, <2>3, ReadOn
  <2>5. Seen(next.out) = Part(file, begin, k + 1)
    <3>. DEFINE more == Without(SubSeq(file, begin, k + 1), NotShown)
                some == Without(SubSeq(file, begin, k), NotShown)
    <3>1. more = IF file[k + 1] \in NotShown THEN some ELSE Append(some, file[k + 1])
      BY <1>1, <2>1, PartNext DEF N
    <3>. HIDE DEF more, some
    <3> QED BY <2>2, <2>4, <3>1 DEF line, Part, more, some
  <2> QED BY <1>5, <2>1, <2>4, <2>5 DEF Known
<1>6. CASE k + 1 = end
  <2>1. ~(k < begin) /\ ~(end <= k) /\ begin <= k /\ k < end /\ end <= N /\ end - 1 = k /\ end <= k + 1
    BY <1>1, <1>6
  <2>2. now.state \in {"reading", "nonstop"} /\ Seen(now.out) = Part(file, begin, k)
    BY <2>1 DEF Known
  <2>3. EndsEntry(line, topic, FALSE)
    BY <1>6, <2>1 DEF Bounds, line, N
  <2>4. next.state = "over" /\ next.out = now.out
    BY <1>0, <2>2, <2>3 DEF Passed
  <2> QED BY <2>1, <2>2, <2>4 DEF Known
<1>7. CASE end <= k
  <2>1. ~(k < begin) /\ ~(k < end) /\ end <= k + 1
    BY <1>1, <1>7
  <2>2. now.state = "over" /\ Seen(now.out) = Part(file, begin, end - 1)
    BY <2>1 DEF Known
  <2>3. next = now
    BY <1>0, <2>2 DEF Passed
  <2> QED BY <2>1, <2>2, <2>3 DEF Known
<1>8. k + 1 < begin \/ k + 1 = begin \/ (begin <= k /\ k + 1 < end) \/ k + 1 = end \/ end <= k
  BY <1>1
<1> QED BY <1>3, <1>4, <1>5, <1>6, <1>7, <1>8

\* What displayHelp knows when it has read all the lines of a file.
LEMMA KnownAtEnd ==
    ASSUME NEW file \in Seq(HelpLine), NEW topic, NEW key \in Keys, key # "q",
           NEW begin, NEW end, Bounds(file, topic, begin, end)
    PROVE  Known(Pass(Reading, file, topic, FALSE, key), file, begin, end, Len(file))
<1>1. Reading \in HelpState /\ Reading.state = "looking" /\ Reading.out = <<>>
  BY ReadingIs
<1>2. PICK P : /\ Passes(Reading, file, topic, FALSE, key, P)
               /\ Pass(Reading, file, topic, FALSE, key) = P[Len(file)]
  <2>1. Reading \in HelpState
    BY <1>1
  <2> QED BY <2>1, PassIs
<1>. DEFINE N == Len(file)
            T == {k \in Nat : k <= N => Known(P[k], file, begin, end, k)}
<1>3. N \in Nat
  OBVIOUS
<1>. HIDE DEF N
<1>4. 0 \in T
  <2>1. P[0] = Reading
    BY <1>2 DEF Passes
  <2>2. 0 < begin
    BY DEF Bounds
  <2>3. Known(P[0], file, begin, end, 0)
    BY <1>1, <2>1, <2>2 DEF Known
  <2> QED BY <2>3
<1>5. ASSUME NEW k \in Nat, k \in T PROVE k + 1 \in T
  <2>1. SUFFICES ASSUME k + 1 <= N PROVE Known(P[k + 1], file, begin, end, k + 1)
    OBVIOUS
  <2>2. k <= N /\ k \in 0 .. N - 1 /\ k \in 0 .. N /\ k + 1 \in 0 .. N
    BY <1>3, <2>1
  <2>3. P[k] \in HelpState /\ P[k + 1] \in HelpState
    BY <1>2, <2>2 DEF Passes, N
  <2>4. Passed(P[k], P[k + 1], file[k + 1], topic, FALSE, key)
    BY <1>2, <2>2 DEF Passes, N
  <2>5. Known(P[k], file, begin, end, k)
    BY <1>5, <2>2
  <2>6. k + 1 <= Len(file)
    BY <2>1 DEF N
  <2>. DEFINE now == P[k]
              next == P[k + 1]
  <2>. HIDE DEF now, next, T
  <2>7. /\ now \in HelpState /\ next \in HelpState
        /\ Passed(now, next, file[k + 1], topic, FALSE, key) /\ Known(now, file, begin, end, k)
    BY <2>3, <2>4, <2>5 DEF now, next
  <2>8. Known(next, file, begin, end, k + 1)
    BY <2>6, <2>7, KnownOn
  <2> QED BY <2>8 DEF next
<1>6. N \in T
  <2>. HIDE DEF T
  <2> QED BY <1>3, <1>4, <1>5, Induct
<1>7. N <= N
  BY <1>3
<1> QED BY <1>2, <1>6, <1>7 DEF N

\* The entry and nothing else, but for an empty line if it has no end.
LEMMA EntryShown ==
    ASSUME NEW file \in Seq(HelpLine), \A i \in DOMAIN file : ~file[i].long, NEW topic, BeginsOf(file, topic) # {},
           NEW szError, NEW bPartialMatch \in BOOLEAN, NEW key \in Keys, key # "q"
    PROVE  LET all == Part(file, BeginOf(file, topic), EndOf(file, topic) - 1)
           IN  Seen(displayHelp(file, topic, szError, bPartialMatch, key)) \in {all, Append(all, LastLine)}
<1>. DEFINE N == Len(file)
            begin == BeginOf(file, topic)
            end == EndOf(file, topic)
            all == Part(file, begin, end - 1)
            lines == Lines(file)
            first == Pass(Reading, file, topic, FALSE, key)
            read == BothPasses(lines, topic, bPartialMatch, key)
<1>1. Bounds(file, topic, begin, end)
  BY BoundsAre
<1>2. LastLine \in HelpLine /\ LastLine.kind = "text"
  BY HelpLineIs
<1>3. lines = Append(file, LastLine)
  <2>1. {i \in DOMAIN file : file[i].long} = {}
    OBVIOUS
  <2> QED BY <2>1 DEF Lines
<1>4. Front(lines) = file /\ Last(lines) = LastLine
  <2>1. /\ Append(file, LastLine) \in Seq(HelpLine) /\ Len(Append(file, LastLine)) = N + 1 /\ N \in Nat
        /\ Append(file, LastLine)[N + 1] = LastLine /\ \A i \in 1 .. N : Append(file, LastLine)[i] = file[i]
    BY <1>2, AppendProperties, LenProperties
  <2>. HIDE DEF lines
  <2>2. Last(lines) = LastLine
    BY <1>3, <2>1 DEF Last
  <2>3. Len(Front(lines)) = N /\ Front(lines) \in Seq(HelpLine) /\ \A i \in 1 .. N : Front(lines)[i] = lines[i]
    <3>1. Len(lines) - 1 = N
      BY <1>3, <2>1
    <3> QED BY <3>1, LinesAre DEF lines
  <2>4. Front(lines) = file
    BY <1>3, <2>1, <2>3, SeqEqual
  <2> QED BY <2>2, <2>4
<1>. HIDE DEF begin, end, lines
<1>5. Known(first, file, begin, end, N)
  BY <1>1, KnownAtEnd
<1>6. first \in HelpState
  <2>1. HelpState \subseteq HelpState /\ KeptBy(HelpState, topic, FALSE, key)
    BY DEF KeptBy
  <2> QED BY <2>1, ReadingIs, PassKeeps
<1>7. begin <= N /\ ~(N < begin) /\ N \in Nat /\ end \in Nat /\ end <= N + 1
  BY <1>1 DEF Bounds
<1>. HIDE DEF first
<1>8. first.state # "looking"
  BY <1>5, <1>7 DEF Known
<1>9. read = Look(first, LastLine, topic, FALSE, key)
  BY <1>4, <1>8, BothIs DEF first
<1>10. read \in HelpState /\ Passed(first, read, LastLine, topic, FALSE, key)
  BY <1>2, <1>6, <1>9, LookIs
<1>. HIDE DEF read, N
<1>11. CASE end <= N
  <2>1. first.state = "over" /\ Seen(first.out) = all
    BY <1>5, <1>7, <1>11 DEF Known
  <2>2. read = first
    BY <1>10, <2>1 DEF Passed
  <2>. HIDE DEF all
  <2>3. Seen(read.out) \in {all, Append(all, LastLine)} /\ read.state # "looking"
    BY <2>1, <2>2
  <2> QED BY <2>3 DEF displayHelp, read, lines, all, begin, end
<1>12. CASE end = N + 1
  <2>1. N < end /\ ~(end <= N) /\ end - 1 = N
    BY <1>7, <1>12
  <2>2. first.state \in {"reading", "nonstop"} /\ Seen(first.out) = all
    BY <1>5, <1>7, <2>1 DEF Known
  <2>3. ~EndsEntry(LastLine, topic, FALSE) /\ LastLine \notin NotShown
    BY <1>2 DEF EndsEntry, NotShown
  <2>4. /\ read.state \in {"reading", "nonstop"}
        /\ Seen(read.out) = IF LastLine \in NotShown THEN Seen(first.out) ELSE Append(Seen(first.out), LastLine)
    BY <1>2, <1>6, <1>10, <2>2, <2>3, ReadOn
  <2>. HIDE DEF all
  <2>5. Seen(read.out) \in {all, Append(all, LastLine)} /\ read.state # "looking"
    BY <2>2, <2>3, <2>4
  <2> QED BY <2>5 DEF displayHelp, read, lines, all, begin, end
<1>13. end <= N \/ end = N + 1
  BY <1>7
<1> QED BY <1>11, <1>12, <1>13 DEF begin, end

-----------------------------------------------------------------------------

LEMMA EntryIs ==
    ASSUME NEW file, NEW topic
    PROVE  Entry(file, topic) = Part(file, BeginOf(file, topic), EndOf(file, topic) - 1)
BY DEF Entry, Part, BeginOf, EndOf, BeginsOf, EndsOf, BeginsEntry, EndsEntry

\* The properties, of what was asked and what is shown.
WholeEntry(file, topic, key, out) ==
    /\ \A i \in DOMAIN file : ~file[i].long
    /\ BeginsOf(file, topic) # {}
    /\ key # "q"
    => Seen(out) \in {Entry(file, topic), Append(Entry(file, topic), LastLine)}

FindsAny(file, topic, szError, bPartialMatch, out) ==
    bPartialMatch /\ szError # NoError =>
        ((out # <<>> /\ Last(out) = szError) <=> Entries(file, topic) = {})

ByPages(key, out) ==
    key # "n" => \A i \in DOMAIN out, j \in DOMAIN out : Plain(out, i, j) => j - i <= PageLength

LEMMA HelpShown ==
    ASSUME NEW file \in HelpFiles, NEW topic \in Topics, NEW szError \in {Sorry, NoError},
           NEW bPartialMatch \in BOOLEAN, NEW key \in Keys
    PROVE  LET out == displayHelp(file, topic, szError, bPartialMatch, key)
           IN  /\ WholeEntry(file, topic, key, out)
               /\ FindsAny(file, topic, szError, bPartialMatch, out)
               /\ ByPages(key, out)
<1>. DEFINE out == displayHelp(file, topic, szError, bPartialMatch, key)
<1>1. file \in Seq(HelpLine) /\ topic \in Seq(Char) /\ topic # <<>>
  BY ScreenIs
<1>2. WholeEntry(file, topic, key, out)
  <2>1. ASSUME \A i \in DOMAIN file : ~file[i].long, BeginsOf(file, topic) # {}, key # "q"
        PROVE  Seen(out) \in {Entry(file, topic), Append(Entry(file, topic), LastLine)}
    BY <1>1, <2>1, EntryShown, EntryIs
  <2>. HIDE DEF out
  <2> QED BY <2>1 DEF WholeEntry
<1>3. FindsAny(file, topic, szError, bPartialMatch, out)
  <2>1. ASSUME bPartialMatch, szError # NoError
        PROVE  (out # <<>> /\ Last(out) = szError) <=> Entries(file, topic) = {}
    <3>1. bPartialMatch = TRUE /\ szError = Sorry
      BY <2>1
    <3>. DEFINE shows == displayHelp(file, topic, Sorry, TRUE, key)
    <3>2. (shows # <<>> /\ Last(shows) = Sorry) <=> Entries(file, topic) = {}
      BY <1>1, AnswerIs
    <3>3. out = shows
      BY <3>1, Zenon
    <3>. HIDE DEF out, shows
    <3> QED BY <3>1, <3>2, <3>3
  <2>. HIDE DEF out
  <2> QED BY <2>1 DEF FindsAny
<1>4. ByPages(key, out)
  <2>1. ASSUME key # "n"
        PROVE  \A i \in DOMAIN out, j \in DOMAIN out : Plain(out, i, j) => j - i <= PageLength
    <3>1. ShortRuns(out) /\ out \in Seq(OutLine)
      BY <1>1, <2>1, StopsIs
    <3>. HIDE DEF out
    <3>2. DOMAIN out = 1 .. Len(out)
      BY <3>1, LenProperties
    <3> QED BY <3>1, <3>2 DEF ShortRuns
  <2>. HIDE DEF out
  <2> QED BY <2>1 DEF ByPages
<1> QED BY <1>2, <1>3, <1>4

LEMMA HelpStep == ASSUME ScreenNext PROVE HelpIsGiven'
<1>1. CASE AskHelp
  <2>1. PICK file \in HelpFiles, topic \in Topics, szError \in {Sorry, NoError}, bPartialMatch \in BOOLEAN, key \in Keys :
          /\ asked' = [what |-> "help", file |-> file, topic |-> topic, szError |-> szError,
                       bPartialMatch |-> bPartialMatch, key |-> key]
          /\ shown' = displayHelp(file, topic, szError, bPartialMatch, key)
    BY <1>1 DEF AskHelp
  <2>2. /\ WholeEntry(file, topic, key, shown') /\ FindsAny(file, topic, szError, bPartialMatch, shown')
        /\ ByPages(key, shown')
    BY <2>1, HelpShown
  <2>3. /\ asked'.file = file /\ asked'.topic = topic /\ asked'.szError = szError
        /\ asked'.bPartialMatch = bPartialMatch /\ asked'.key = key
    BY <2>1
  <2>4. /\ WholeEntry(asked'.file, asked'.topic, asked'.key, shown')
        /\ FindsAny(asked'.file, asked'.topic, asked'.szError, asked'.bPartialMatch, shown')
        /\ ByPages(asked'.key, shown')
    BY <2>2, <2>3
  <2>5. HelpShowsEntry'
    BY <2>4 DEF HelpShowsEntry, WholeEntry, BeginsOf, BeginsEntry, Seen
  <2>6. HelpAnswers'
    BY <2>4 DEF HelpAnswers, FindsAny, Entries
  <2>7. HelpStops'
    BY <2>4 DEF HelpStops, ByPages, Plain
  <2> QED BY <2>5, <2>6, <2>7 DEF HelpIsGiven
<1>2. CASE ShowText
  <2>1. asked'.what = "text"
    BY <1>2 DEF ShowText
  <2> QED BY <2>1 DEF HelpIsGiven, HelpShowsEntry, HelpAnswers, HelpStops, HelpAsked
<1>3. CASE SendText
  <2>1. asked'.what = "message"
    BY <1>3 DEF SendText
  <2> QED BY <2>1 DEF HelpIsGiven, HelpShowsEntry, HelpAnswers, HelpStops, HelpAsked
<1>4. CASE clearScreen
  BY <1>4 DEF clearScreen, HelpIsGiven, HelpShowsEntry, HelpAnswers, HelpStops, HelpAsked
<1> QED BY <1>1, <1>2, <1>3, <1>4 DEF ScreenNext

LEMMA HelpStays == ASSUME HelpIsGiven, UNCHANGED screenVars PROVE HelpIsGiven'
BY DEF screenVars, HelpIsGiven, HelpShowsEntry, HelpAnswers, HelpStops, HelpAsked

\* Whatever help files there are and whatever is asked of them: an entry that is there is
\* shown, all of it and nothing else; nothing is found only if nothing is there; and no
\* more than a page goes by without a prompt (door.cpp:640-790).
THEOREM HelpGiven == Spec => []HelpIsGiven
<1>1. DisplayInit => HelpIsGiven
  BY DEF DisplayInit, ScreenInit, HelpIsGiven, HelpShowsEntry, HelpAnswers, HelpStops, HelpAsked
<1>2. HelpIsGiven /\ [DisplayNext]_displayVars => HelpIsGiven'
  <2>1. [DisplayNext]_displayVars => ScreenNext \/ UNCHANGED screenVars
    BY DEF DisplayNext, MoveClue, MoveRanking, MoveCommands, MoveScreen, displayVars
  <2> QED BY <2>1, HelpStep, HelpStays
<1> QED BY <1>1, <1>2, PTL DEF Spec
================================================================================
