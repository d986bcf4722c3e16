-------------------------------- MODULE Screen --------------------------------
(***************************************************************************)
(* What the door puts on a player's screen: the entry of a help file for a *)
(* topic (displayHelp), a text cut into lines (printWordWrap), and how a   *)
(* message becomes one text and is taken apart again.                      *)
(*                                                                         *)
(* A line of a help file is what its first character makes of it, the text *)
(* after that, and whether it is longer than getline takes, which makes    *)
(* the file look ended.  How a prompt to continue waits for its key is in  *)
(* DoorClient (PauseKey, PauseCheck).                                      *)
(***************************************************************************)
EXTENDS Text

CONSTANTS
    HelpFiles,     \* contents of a help file; a missing one shows what an empty one does
    Topics,        \* what help is asked about
    PageLength,    \* lines shown before the player is asked to continue (20)
    Paragraphs,    \* texts to wrap
    Width,         \* of the screen (79), less the offset of the first line
    Numbers,       \* the numbers of a message, as texts
    TextRoom       \* what a message has room for (200)

HelpLine == [kind: {";", "-", "]", "$", "<", "text"}, text: Seq(Char), long: BOOLEAN]

ASSUME ScreenAssumption ==
    /\ HelpFiles \subseteq Seq(HelpLine)
    /\ Topics \subseteq Seq(Char) \ {<<>>}
    /\ Paragraphs \subseteq Seq(Char)
    /\ PageLength \in Nat /\ Width \in Nat \ {0}
    /\ Numbers \subseteq Seq(Seq(Char \ {Blank}) \ {<<>>})
    /\ TextRoom \in Nat /\ TextRoom > 4

VARIABLES
    asked,    \* what is to be displayed, <<>> if nothing
    shown     \* what is displayed

screenVars == <<asked, shown>>

-----------------------------------------------------------------------------
(* displayHelp                                                             *)

\* After the last line, and after one that is too long, reading fails; what failed to
\* be read is still looked at, and is an empty line at the end of the file.
LastLine == [kind |-> "text", text |-> <<>>, long |-> FALSE]
Lines(file) ==
    LET long == {i \in DOMAIN file : file[i].long}
    IN  IF long = {} THEN Append(file, LastLine) ELSE SubSeq(file, 1, Min(long))

\* Where an entry begins and where it ends, in the first pass or in the second, which
\* is content with a beginning of a word.
IsTopic(text, topic, second) ==
    SameText(text, topic) \/ (second /\ text # <<>> /\ wordSearch(text, topic))
Closes(text, topic, second) ==
    text = <<>> \/ text[1] = Blank \/ IsTopic(text, topic, second)

\* What is known while lines are read: where displayHelp is, looking for the entry,
\* reading it (bFound), reading without pauses (bNonstop), or returned; what was
\* displayed; and the lines since the last pause.
Reading == [state |-> "looking", out |-> <<>>, nLineCount |-> 0]

\* The prompt and the error are lines of the door's own.
Own(kind) == [kind |-> kind, text |-> <<>>, long |-> FALSE]
Pause == Own("pause")
AfterPause == [c |-> "reading", n |-> "nonstop", q |-> "over"]

\* A line of the entry; after a page of them the player is asked.
ShowLine(now, line, key) ==
    LET out == Append(now.out, line)
    IN  IF now.nLineCount < PageLength \/ now.state = "nonstop"
        THEN [now EXCEPT !.out = out, !.nLineCount = @ + 1]
        ELSE [state |-> AfterPause[key], out |-> Append(out, Pause), nLineCount |-> 0]

\* A line, by its first character.
Look(now, line, topic, second, key) ==
    IF now.state = "over" THEN now
    ELSE IF now.state = "looking"
    THEN IF line.kind = ";" /\ IsTopic(line.text, topic, second) THEN [now EXCEPT !.state = "reading"] ELSE now
    ELSE CASE line.kind = "-" /\ Closes(line.text, topic, second) -> [now EXCEPT !.state = "over"]
           [] line.kind = "]" /\ line.text # <<>> -> [now EXCEPT !.out = Append(@, line)]
           [] line.kind = "text" -> ShowLine(now, line, key)
           [] OTHER -> now

Pass(now, lines, topic, second, key) ==
    FoldLeft(LAMBDA n, line : Look(n, line, topic, second, key), now, lines)

\* Mutant of BothPasses: there is no second pass.
BothPassesOne(lines, topic, bPartialMatch, key) == Pass(Reading, lines, topic, FALSE, key)

\* If the first pass finds no entry, its last reading, which failed, is the first of the
\* second pass.
BothPasses(lines, topic, bPartialMatch, key) ==
    LET first == Pass(Reading, Front(lines), topic, FALSE, key)
        again == first.state = "looking" /\ bPartialMatch
        last == Look(first, Last(lines), topic, again, key)
    IN  IF again THEN Pass(last, lines, topic, TRUE, key) ELSE last

Sorry == Own("error")
NoError == Own("none")

displayHelp(file, topic, szError, bPartialMatch, key) ==
    LET read == BothPasses(Lines(file), topic, bPartialMatch, key)
    IN  IF read.state = "looking" /\ szError # NoError THEN Append(read.out, szError) ELSE read.out

-----------------------------------------------------------------------------
(* printWordWrap                                                           *)

\* Mutant of BreakAt: a line may be one character too long.
BreakAtBeyond(text, from, width) ==
    {m \in 1 .. width + 1 : from + m <= Len(text) /\ text[from + m] = Blank}

\* How many characters the line that begins at from may have: it ends before a blank,
\* which is not its first character.
BreakAt(text, from, width) == {m \in 1 .. width : from + m <= Len(text) /\ text[from + m] = Blank}

\* The lines of the rest of a text, the last of which is as long as it must be; the
\* first line of all is shorter by the offset.
printWordWrap(text, nOffset, bCarryIndent) ==
    LET width(from) == IF from = 1 \/ bCarryIndent THEN Width - nOffset ELSE Width
        rest[from \in 1 .. Len(text) + 1] ==
            LET left == Len(text) - from + 1
                breaks == BreakAt(text, from, width(from))
            IN  IF left = 0 THEN <<>>
                ELSE IF left <= width(from) \/ breaks = {} THEN <<SubSeq(text, from, Len(text))>>
                ELSE <<SubSeq(text, from, from + Max(breaks) - 1)>> \o rest[from + Max(breaks) + 1]
    IN  rest[1]

-----------------------------------------------------------------------------
(* Messages                                                                *)

\* InputData::toString and OutputData::toString: numbers and a text, with blanks between.
toString(numbers, text) ==
    FoldLeft(LAMBDA s, number : s \o number \o <<Blank>>, <<>>, numbers) \o text

\* strtok(s, " "): the first token, and the place after the blank that ends it.
Token(s, from) ==
    LET start == Min({p \in from .. Len(s) : s[p] # Blank})
        end == Min({p \in start .. Len(s) : s[p] = Blank} \cup {Len(s) + 1})
    IN  [text |-> SubSeq(s, start, end - 1), next |-> end + 1]

\* The constructors from a text: the numbers, and all that is left.
fromString(s, count) ==
    LET at[k \in 0 .. count] == IF k = 0 THEN 1 ELSE Token(s, at[k - 1]).next
    IN  [numbers |-> [k \in 1 .. count |-> Token(s, at[k - 1]).text],
         text |-> SubSeq(s, at[count], Len(s))]

\* print cuts a text that leaves no room for its line ends, and adds them.
Printed(text, nNewlines) ==
    (IF Len(text) >= TextRoom - 2 * nNewlines THEN SubSeq(text, 1, TextRoom - 1 - 2 * nNewlines)
                                              ELSE text)
    \o FlattenSeq([k \in 1 .. nNewlines |-> <<"\r", "\n">>])

-----------------------------------------------------------------------------

Keys == {"c", "n", "q"}

ScreenInit == asked = <<>> /\ shown = <<>>

\* OP_DISPLAY_HLP.  The player presses the same key at every pause.
AskHelp ==
    /\ asked = <<>>
    /\ \E file \in HelpFiles, topic \in Topics, szError \in {Sorry, NoError},
          bPartialMatch \in BOOLEAN, key \in Keys :
          /\ asked' = [what |-> "help", file |-> file, topic |-> topic, szError |-> szError,
                       bPartialMatch |-> bPartialMatch, key |-> key]
          /\ shown' = displayHelp(file, topic, szError, bPartialMatch, key)

ShowText ==
    /\ asked = <<>>
    /\ \E text \in Paragraphs, nOffset \in 0 .. Width - 1, bCarryIndent \in BOOLEAN :
          /\ asked' = [what |-> "text", text |-> text, nOffset |-> nOffset,
                       bCarryIndent |-> bCarryIndent]
          /\ shown' = printWordWrap(text, nOffset, bCarryIndent)

\* A message from the door to the server, or back: of two numbers or of seven.
SendText ==
    /\ asked = <<>>
    /\ \E text \in Paragraphs, nNewlines \in 0 .. 2, numbers \in Numbers :
          LET message == IF Len(numbers) = 2 THEN text ELSE Printed(text, nNewlines)
          IN  /\ asked' = [what |-> "message", numbers |-> numbers, text |-> message]
              /\ shown' = fromString(toString(numbers, message), Len(numbers))

clearScreen == asked # <<>> /\ asked' = <<>> /\ shown' = <<>>

ScreenNext == AskHelp \/ ShowText \/ SendText \/ clearScreen

ScreenTypeOK == asked = <<>> => shown = <<>>

-----------------------------------------------------------------------------
(* Properties                                                              *)

HelpAsked == asked # <<>> /\ asked.what = "help"
TextAsked == asked # <<>> /\ asked.what = "text"

\* Lines less those in a set.
Without(lines, set) ==
    FoldLeft(LAMBDA left, line : IF line \in set THEN left ELSE Append(left, line), <<>>, lines)

\* Lines of an entry that are not to be shown.
NotShown == {line \in HelpLine : ~(line.kind = "text" \/ (line.kind = "]" /\ line.text # <<>>))}

\* The entry of a topic that a file has under its full name: all that is to be shown
\* between its beginning and the first line that ends it, other entries that begin or
\* end within included.
Entry(file, topic) ==
    LET begin == Min({i \in DOMAIN file : file[i].kind = ";" /\ IsTopic(file[i].text, topic, FALSE)})
        ends == {i \in begin .. Len(file) : file[i].kind = "-" /\ Closes(file[i].text, topic, FALSE)}
        end == Min(ends \cup {Len(file) + 1})
    IN  Without(SubSeq(file, begin, end - 1), NotShown)

\* Whoever asks for a topic that has an entry is shown that entry, all of it and nothing
\* else, unless he quits at a prompt or a line of the file is too long.  The end of the
\* file shows as one empty line if the entry has no end (door.cpp:667).
HelpShowsEntry ==
    /\ HelpAsked
    /\ \A i \in DOMAIN asked.file : ~asked.file[i].long
    /\ \E i \in DOMAIN asked.file :
          asked.file[i].kind = ";" /\ IsTopic(asked.file[i].text, asked.topic, FALSE)
    /\ asked.key # "q"
    => Without(shown, {Pause})
          \in {Entry(asked.file, asked.topic), Append(Entry(asked.file, asked.topic), LastLine)}

\* Help on a topic shows something or says that there is nothing: nothing at all is shown
\* only for an entry that is empty, and an entry that any word of its name leads to is
\* found (door.cpp:685).
HelpAnswers ==
    HelpAsked /\ asked.bPartialMatch /\ asked.szError # NoError =>
        LET entries == {i \in DOMAIN asked.file :
                           /\ \A j \in 1 .. i - 1 : ~asked.file[j].long
                           /\ asked.file[i].kind = ";"
                           /\ wordSearch(asked.file[i].text, asked.topic)}
        IN  (shown # <<>> /\ Last(shown) = asked.szError) <=> entries = {}

\* Nothing scrolls off unseen: unless the player wants it, there are never more lines
\* than a page and one without a prompt (door.cpp:738).
HelpStops ==
    HelpAsked /\ asked.key # "n" =>
        \A i \in DOMAIN shown, j \in DOMAIN shown :
            (\A k \in i .. j : shown[k].kind = "text")
            => j - i <= PageLength

\* Words: the text cut at its blanks.
Unbroken(lines) ==
    FoldLeft(LAMBDA text, line : IF text = <<>> THEN line ELSE text \o <<Blank>> \o line, <<>>, lines)

\* However a text is broken, its lines with a blank between them are the text, a blank
\* at its end aside, and no line is too long that could have been broken
\* (gamesrv.cpp:377).
WrapKeepsText ==
    TextAsked =>
        /\ asked.text \in {Unbroken(shown), Append(Unbroken(shown), Blank)}
        /\ \A i \in DOMAIN shown :
              LET width == IF i = 1 \/ asked.bCarryIndent THEN Width - asked.nOffset ELSE Width
              IN  Len(shown[i]) > width => \A p \in 2 .. width + 1 : shown[i][p] # Blank

\* What one side sends the other receives, blanks at the beginning or an empty text too
\* (intrnode.cpp:160-202).
MessageArrives ==
    asked # <<>> /\ asked.what = "message" =>
        shown = [numbers |-> asked.numbers, text |-> asked.text]

\* Help shows the entry that was asked for, or that there is none, a page at a time.
HelpIsGiven == HelpShowsEntry /\ HelpAnswers /\ HelpStops

\* No text is changed on its way to the screen: not between door and server, and not
\* when it is broken into lines.
TextSurvives == WrapKeepsText /\ MessageArrives
=============================================================================
