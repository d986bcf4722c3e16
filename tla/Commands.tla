------------------------------- MODULE Commands -------------------------------
(***************************************************************************)
(* What a line typed at the game's prompt does: centralInput takes it for  *)
(* an answer, a command or chat, and who hears what of it.  The answer's   *)
(* points and the skip's votes are in TriviaRound, the text of a clue in   *)
(* Clue, the help entries in Screen.                                       *)
(*                                                                         *)
(* A line is its first word, which is a command's name whatever its case   *)
(* or something else, and what follows it.                                 *)
(***************************************************************************)
EXTENDS Text

CONSTANTS
    Node,          \* 0 .. MAX_NODE - 1
    SysopNodes,    \* nodes whose player has bSysop
    Aliases,       \* names of players
    Params,        \* what may follow a first word
    ListRoom,      \* characters the list of players has room for (197)
    TopicRoom      \* the longest topic displayHlp takes

ASSUME CommandsAssumption ==
    /\ Node = 0 .. Cardinality(Node) - 1 /\ IsFiniteSet(Node)
    /\ Aliases \subseteq Seq(Char) \ {<<>>} /\ Params \subseteq Seq(Char)
    /\ {ListRoom, TopicRoom} \subseteq Nat

VARIABLES
    szAlias,       \* per node: the name of its player, <<>> if there is none in the game
    typed,         \* the line being handled, <<>> if none: who typed what
    heard          \* per node: what it is sent because of that line

commandVars == <<szAlias, typed, heard>>

InGame == {n \in Node : szAlias[n] # <<>>}

\* Command::init: the names and abbreviations of every command.
Names == [
    players |-> {"who", "players", "pl"}, skip |-> {"skip", "next"}, help |-> {"help"},
    tell |-> {"whisper", "tell"}, submit |-> {"submit", "sub"},
    correction |-> {"correction", "correct"}, scores |-> {"scores", "sc", "topten", "top"},
    exit |-> {"exit", "x", "quit"}, sysop |-> {"sysop", "configure", "config"},
    menu |-> {"menu", "?"}, checkreg |-> {";checkreg"}]

CommandWords == UNION {Names[command] : command \in DOMAIN Names}
getCommand(word) == CHOOSE command \in DOMAIN Names : word \in Names[command]

\* The first word of a line that is no command: the answer, "display" or nothing at
\* all, blanks only, or talk.
OtherWords == {"answer", "display", "", "hello"}

\* What a player is sent.
Said(kind, text) == [kind |-> kind, text |-> text]
Silence == Said("", <<>>)
Kinds == {"question", "won", "says", "players", "alreadySkipped", "skips", "entry", "syntax",
          "several", "sent", "told", "scores", "screen", "refused", "blank", "registration", "thread"}

Nothing == [n \in Node |-> Silence]
To(n, said) == [Nothing EXCEPT ![n] = said]

\* printAll
ToAll(said) == [n \in Node |-> IF n \in InGame THEN said ELSE Silence]

CommandsTypeOK ==
    /\ szAlias \in [Node -> Aliases \cup {<<>>}]
    /\ \/ typed = <<>> /\ heard = Nothing
       \/ /\ typed.from \in InGame
          /\ typed.word \in CommandWords \cup OtherWords
          /\ typed.param \in Params \cup {<<>>}
    /\ DOMAIN heard = Node /\ \A n \in Node : heard[n] = Silence \/ heard[n].kind \in Kinds

CommandsInit ==
    /\ szAlias \in [Node -> Aliases \cup {<<>>}]
    /\ InGame # {}
    /\ typed = <<>>
    /\ heard = Nothing

-----------------------------------------------------------------------------
(* The commands that show something                                        *)

Nodes == [k \in 1 .. Cardinality(Node) |-> k - 1]

\* listOnlinePlayers: whoever does not fit into what is left of the line is left out.
listOnlinePlayers ==
    FoldLeft(LAMBDA list, n :
                LET used == FoldLeft(LAMBDA sum, m : sum + Len(szAlias[m]) + 2, -2, list)
                IN  IF n \in InGame /\ Max({used, 0}) + Len(szAlias[n]) < ListRoom
                    THEN Append(list, n) ELSE list,
             <<>>, Nodes)

\* Whether the player has asked before (bWantedSkip) is known in TriviaRound.
SkipCommand(n) ==
    heard' \in {To(n, Said("alreadySkipped", <<>>)), ToAll(Said("skips", <<>>))}

\* A topic that is too long to be sent is passed over.
displayHlp(n, topic) ==
    To(n, IF Len(topic) > TopicRoom THEN Said("blank", <<>>) ELSE Said("entry", topic))

\* Without a topic the instructions are shown.  There is an empty line before and after.
HelpCommand(n, topic) == heard' = displayHlp(n, topic)

SysopCommand(n) == heard' = To(n, Said(IF n \in SysopNodes THEN "thread" ELSE "refused", <<>>))

-----------------------------------------------------------------------------
(* TELL                                                                    *)

\* The first word of the parameter.
FirstToken(param) ==
    LET start == Min({p \in DOMAIN param : param[p] # Blank})
        after == {p \in start .. Len(param) : param[p] = Blank}
    IN  SubSeq(param, start, IF after = {} THEN Len(param) ELSE Min(after) - 1)

\* The part of a name from the first of its words that begins with the token.
szUsedName(name, token) == SubSeq(name, Min(WordsWith(name, token)), Len(name))

Fit(count, end) == [count |-> count, end |-> end]

\* Mutant of CompareName: where the comparison ends inside a word it is not taken back to
\* the end of the word before.
CompareNameNotBack(param, name) ==
    LET alike == InCommon(param, name)
    IN  IF alike = Len(param) THEN Fit(0, "no message")
        ELSE IF param[alike + 1] # Blank THEN Fit(alike, "in a word")
        ELSE Fit(alike, IF alike = Len(name) THEN "whole name" ELSE "new word")

\* What comparing parameter and name shows: how many characters of the parameter
\* name the player, and how the comparison ended.
CompareName(param, name) ==
    LET alike == InCommon(param, name)
        blanks == {p \in 1 .. alike : param[p] = Blank}
        nWordEnd == IF blanks = {} THEN 1 ELSE Max(blanks) - 1
    IN  IF alike = Len(param) THEN Fit(0, "no message")
        ELSE IF param[alike + 1] # Blank THEN Fit(nWordEnd, "in a word")
        ELSE Fit(alike, IF alike = Len(name) THEN "whole name" ELSE "new word")

NoBest == [node |-> -1, count |-> 0, dupe |-> 0, end |-> ""]

\* A whole name ends the search, a longer fit is kept, and as long a one at a new word
\* is noted.
Better(best, n, fit) ==
    IF fit.end = "no message" THEN [best EXCEPT !.end = fit.end]
    ELSE IF fit.end = "whole name" THEN [best EXCEPT !.node = n, !.count = fit.count, !.end = fit.end]
    ELSE IF fit.count > best.count THEN [best EXCEPT !.node = n, !.count = fit.count]
    ELSE IF fit.end = "new word" /\ fit.count = best.count /\ fit.count > 0
         THEN [best EXCEPT !.dupe = fit.count]
    ELSE best

\* The players in the game whose name has a word that begins with the first of the
\* parameter, until the search has ended.
LookAt(best, n, param) ==
    IF best.end # "" \/ n \notin InGame \/ ~wordSearch(szAlias[n], FirstToken(param)) THEN best
    ELSE Better(best, n, CompareName(param, szUsedName(szAlias[n], FirstToken(param))))

BestMatch(param) == FoldLeft(LAMBDA best, n : LookAt(best, n, param), NoBest, Nodes)

\* The player is told what follows the name and a blank.  Who tells himself something
\* hears the confirmation first, which is left out.
TellCommand(n, param) ==
    LET named == \E p \in DOMAIN param : param[p] # Blank
        best == IF named /\ Len(param) >= 2 /\ Blank \in Range(param) THEN BestMatch(param) ELSE NoBest
    IN  heard' =
            IF best.end = "no message" \/ best.node = -1 \/ Len(param) <= best.count + 1
            THEN To(n, Said("syntax", <<>>))
            ELSE IF best.dupe = best.count THEN To(n, Said("several", <<>>))
            ELSE [To(n, Said("sent", szAlias[best.node])) EXCEPT
                    ![best.node] = Said("told", SubSeq(param, best.count + 2, Len(param)))]

-----------------------------------------------------------------------------
(* centralInput                                                            *)

\* doEffect
DoEffect(n, command, param) ==
    CASE command = "skip" -> SkipCommand(n)
      [] command = "players" -> heard' = To(n, Said("players", listOnlinePlayers))
      [] command = "help" -> HelpCommand(n, param)
      [] command = "tell" -> TellCommand(n, param)
      [] command \in {"submit", "correction"} -> heard' = To(n, Said("entry", <<>>))
      [] command = "scores" -> heard' = To(n, Said("scores", <<>>))
      [] command = "exit" -> heard' = To(n, Said("thread", <<>>))
      [] command = "sysop" -> SysopCommand(n)
      [] command = "menu" -> heard' = To(n, Said("screen", <<>>))
      [] command = "checkreg" -> heard' = To(n, Said("registration", <<>>))

centralInput(n, word, param) ==
    /\ n \in InGame
    /\ typed' = [from |-> n, word |-> word, param |-> param]
    /\ \/ /\ word = "display"
          /\ heard' = To(n, Said("question", <<>>))
       \/ /\ word = "answer"
          /\ heard' = ToAll(Said("won", <<>>))
       \/ /\ word \in {"", "hello"}
          /\ heard' = ToAll(Said("says", param))
       \/ /\ word \in CommandWords
          /\ DoEffect(n, getCommand(word), param)
    /\ UNCHANGED szAlias

\* The clients have taken what they were sent.
Taken ==
    /\ typed # <<>>
    /\ typed' = <<>> /\ heard' = Nothing
    /\ UNCHANGED szAlias

\* One line at a time.  Only what follows the name of a command that looks at it is
\* told apart.
CommandsNext ==
    \/ Taken
    \/ /\ typed = <<>>
       /\ \E n \in Node, word \in CommandWords \cup OtherWords :
             \E param \in IF word \in {"tell", "help"} THEN Params \cup {<<>>} ELSE {<<>>} :
                centralInput(n, word, param)

-----------------------------------------------------------------------------
(* Properties                                                              *)

Told == {n \in Node : heard[n].kind = "told"}

\* What is told goes to one player only, whose name has, from the beginning of one of
\* its words, what was typed before the message, and the message is all that follows:
\* nothing private is sent to a player who was not named (commands.cpp:181).
TellReachesNamed ==
    \A n \in Told :
        /\ Told = {n}
        /\ \A m \in Node \ {n, typed.from} : heard[m] = Silence
        /\ LET told == heard[n].text
               named == SubSeq(typed.param, 1, Len(typed.param) - Len(told) - 1)
           IN  /\ wordSearch(szAlias[n], named)
               /\ told # <<>> /\ typed.param = named \o <<Blank>> \o told

\* How much of the parameter names a player, looked at from the first of his words that
\* fits: the most words of it, or word beginnings, that his name goes on with.
NamedBy(n, param) ==
    Max({0} \cup {k \in 1 .. Len(param) - 1 :
            /\ param[k + 1] = Blank
            /\ wordSearch(szAlias[n], FirstToken(param))
            /\ InCommon(param, szUsedName(szAlias[n], FirstToken(param))) >= k})

\* A message goes to a player whom the parameter names with as many words as it names
\* anybody with, unless it has a player's whole name before the message
\* (commands.cpp:214-231).
TellPrefersTheLongest ==
    \A n \in Told :
        LET count == Len(typed.param) - Len(heard[n].text) - 1
        IN  \/ \A m \in InGame : NamedBy(m, typed.param) <= count
            \/ Len(szUsedName(szAlias[n], FirstToken(typed.param))) = count

\* Nobody is left without an answer: whoever types a line is sent something because of
\* it, though it may be what everybody is sent (trivia.cpp:229-286).
TypistHears == typed # <<>> => heard[typed.from] # Silence

\* TELL gives a message to the one it is for or says why it does not, and no other line
\* is passed over in silence either.
TellIsRight == TellReachesNamed /\ TellPrefersTheLongest /\ TypistHears
=============================================================================
