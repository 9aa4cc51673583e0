------------------------------ MODULE ToolGuard ------------------------------
(* How the tool guard reads a command: the ordered matcher of the pattern    *)
(* manifest, the quote-aware tokens, and the command surfaces that rules on  *)
(* the command position look at.  A behaviour grows the input step by step.  *)
EXTENDS Naturals, Sequences, FiniteSets, SequencesExt

CONSTANTS
    MaxText,    \* length of the texts that the matcher and the tokenizer are given
    MaxWords,   \* words of a command line that is built
    MaxCommands,  \* commands of it
    Matchers,   \* sequences of matchers to try
    Words,      \* words to write: their text, and whether in quotes
    MaxDepth    \* shells within shells that are looked into, 4 in the code

VARIABLES
    text,       \* characters
    line        \* a command line as its writer means it: commands of words, and what of its
                \* neighbours the separator before a command touches

textVars == <<text>>
lineVars == <<line>>

WordLetters == {"a", "b"}
Chars == WordLetters \cup {"-", " ", "'", "\"", "\\"}
Separator == <<";">>

\* words that mean something to collectCommandSurfaces
Shell == <<"S">>      \* bash, sh, ...
DashC == <<"C">>      \* -c
Combined == <<"L">>   \* -lc and the like
Eval == <<"E">>
Wrapper == <<"W">>    \* env, sudo, ...
Valued == <<"U">>     \* -u and the like, which take the next word
Assignment == <<"=">>
IsFlag(w) == w # <<>> /\ w[1] \in {"-", "C", "L", "U"}

Sides == {"before", "after"}

TypeOK ==
    /\ text \in Seq(Chars) /\ Len(text) <= MaxText
    /\ Len(line) \in 1..MaxCommands
    /\ \A i \in DOMAIN line : /\ line[i].argv \in Seq(Words)
                             /\ line[i].touches \subseteq Sides

Init == text = <<>> /\ line = <<[argv |-> <<>>, touches |-> {}]>>
-----------------------------------------------------------------------------
(* matchOrdered                                                             *)

IsWordChar(ch) == ch \in WordLetters

Occurs(hay, needle, i) ==
    i + Len(needle) - 1 <= Len(hay) /\ SubSeq(hay, i, i + Len(needle) - 1) = needle

Fits(hay, m, i) ==
    /\ Occurs(hay, m.s, i)
    /\ m.bStart => (i = 1 \/ ~IsWordChar(hay[i - 1]))
    /\ m.bEnd => (i + Len(m.s) > Len(hay) \/ ~IsWordChar(hay[i + Len(m.s)]))

\* the first place at or after pos, or 0
FirstFit(hay, m, pos) ==
    LET at == {i \in pos..Len(hay) : Fits(hay, m, i)}
    IN IF at = {} THEN 0 ELSE CHOOSE i \in at : \A j \in at : i <= j

Past(m, i) == i + Len(m.s)

\* where the search for the next matcher starts, or 0 if one was not found
MatchOrdered(hay, ms) ==
    LET pos[k \in 0..Len(ms)] ==
          IF k = 0 THEN 1
          ELSE IF pos[k - 1] = 0 THEN 0
          ELSE LET i == FirstFit(hay, ms[k], pos[k - 1]) IN IF i = 0 THEN 0 ELSE Past(ms[k], i)
    IN pos[Len(ms)] # 0
-----------------------------------------------------------------------------
(* tokenizeShell: one step per character                                    *)

Push(s, quoted) == [s EXCEPT !.tokens = Append(@, [text |-> s.cur, quoted |-> quoted]),
                             !.cur = <<>>, !.mode = "gap"]
Add(s, ch, mode) == [s EXCEPT !.cur = Append(@, ch), !.mode = mode]
Quote(ch) == IF ch = "'" THEN "single" ELSE "double"

OpenQuote(s, ch) == [s EXCEPT !.mode = Quote(ch)]

InQuote(s, ch) ==
    IF ch = (IF s.mode = "single" THEN "'" ELSE "\"") THEN Push(s, TRUE)
    ELSE IF s.mode = "double" /\ ch = "\\" THEN [s EXCEPT !.mode = "escape"]
    ELSE Add(s, ch, s.mode)

Outside(s, ch) ==
    IF ch = " " THEN IF s.mode = "bare" THEN Push(s, FALSE) ELSE s
    ELSE IF ch \in {"'", "\""}
         THEN OpenQuote(IF s.mode = "bare" THEN Push(s, FALSE) ELSE s, ch)
    ELSE Add(s, ch, "bare")

ReadChar(s, ch) ==
    IF s.mode = "escape" THEN Add(s, ch, "double")
    ELSE IF s.mode \in {"single", "double"} THEN InQuote(s, ch)
    ELSE Outside(s, ch)

\* a quote that is not closed takes the rest; a last backslash is kept
AtEnd(s) ==
    CASE s.mode = "gap" -> s.tokens
      [] s.mode = "bare" -> Push(s, FALSE).tokens
      [] s.mode = "escape" -> Push(Add(s, "\\", "double"), TRUE).tokens
      [] OTHER -> Push(s, TRUE).tokens

TokenizeShell(command) ==
    LET s[i \in 0..Len(command)] ==
          IF i = 0 THEN [tokens |-> <<>>, cur |-> <<>>, mode |-> "gap"]
          ELSE ReadChar(s[i - 1], command[i])
    IN AtEnd(s[Len(command)])
-----------------------------------------------------------------------------
(* argvSegments, stripWrappers, collectCommandSurfaces                      *)

SplitsQuoted(tok) == tok.text = Separator
Splits(tok) == ~tok.quoted /\ tok.text = Separator

ArgvSegments(tokens) ==
    LET seg[i \in 0..Len(tokens)] ==
          IF i = 0 THEN <<<<>>>>
          ELSE IF Splits(tokens[i]) THEN Append(seg[i - 1], <<>>)
          ELSE [seg[i - 1] EXCEPT ![Len(seg[i - 1])] = Append(@, tokens[i].text)]
    IN SelectSeq(seg[Len(tokens)], LAMBDA argv : argv # <<>>)

\* leading assignments, and wrappers with their flags
StripWrappers(argv) ==
    LET skipped(n) == \A i \in 1..n :
            \/ argv[i] \in {Assignment, Wrapper}
            \/ IsFlag(argv[i]) /\ \E j \in 1..(i - 1) :
                  argv[j] = Wrapper /\ \A k \in (j + 1)..i : IsFlag(argv[k])
        n == CHOOSE n \in 0..Len(argv) : skipped(n) /\ (n = Len(argv) \/ ~skipped(n + 1))
    IN SubSeq(argv, n + 1, Len(argv))

Joined(words) == FoldLeft(LAMBDA x, w : IF x = <<>> THEN w ELSE x \o <<" ">> \o w, <<>>, words)

\* the argument that a shell or eval would read as a command of its own: after -c or attached to it
Payload(argv) ==
    IF argv[1] = Eval /\ Len(argv) >= 2 THEN {Joined(Tail(argv))}
    ELSE LET attached(w) == Len(w) > 1 /\ w[1] = "C"
             at == {i \in 2..Len(argv) : (argv[i] = DashC /\ i < Len(argv)) \/ attached(argv[i])}
             first == CHOOSE i \in at : \A j \in at : i <= j
         IN IF argv[1] # Shell \/ at = {} THEN {}
            ELSE {IF attached(argv[first]) THEN Tail(argv[first]) ELSE argv[first + 1]}

Argvs(command) == {StripWrappers(a) : a \in ToSet(ArgvSegments(TokenizeShell(command)))} \ {<<>>}

\* What the command runs itself, what a shell in it is told to run, and so on.
Surfaces(command) ==
    LET At[depth \in 0 .. MaxDepth] ==
            IF depth = 0 THEN Argvs(command)
            ELSE UNION {Argvs(p) : p \in UNION {Payload(a) : a \in At[depth - 1]}}
    IN UNION {At[depth] : depth \in 0 .. MaxDepth}
-----------------------------------------------------------------------------
(* Inputs                                                                   *)

Type(ch) ==
    /\ Len(text) < MaxText
    /\ text' = Append(text, ch)
    /\ UNCHANGED line

Written == FoldLeft(LAMBDA n, command : n + Len(command.argv), 0, line)

\* a word that a shell would take apart has to be quoted
MayBeBare(w) == w # <<>> /\ w # Separator /\ \A i \in DOMAIN w : w[i] \notin {" ", "'", "\"", "\\"}

AddWord(w) ==
    /\ Written < MaxWords /\ (w.quoted \/ MayBeBare(w.text))
    /\ line' = [line EXCEPT ![Len(line)].argv = Append(@, w)]
    /\ UNCHANGED text

\* a separator, with or without a blank on each side
NextCommand(touches) ==
    /\ Len(line) < MaxCommands /\ Last(line).argv # <<>>
    /\ line' = Append(line, [argv |-> <<>>, touches |-> touches])
    /\ UNCHANGED text

TextNext == \E ch \in Chars : Type(ch)
LineNext == (\E touches \in SUBSET Sides : NextCommand(touches)) \/ \E w \in Words : AddWord(w)

TextSpec == Init /\ [][TextNext]_<<text, line>>
LineSpec == Init /\ [][LineNext]_<<text, line>>
-----------------------------------------------------------------------------
\* The matcher, which takes the first place for each part and never goes back, finds the parts
\* in order exactly if they are there in order, apart from each other and with the word
\* boundaries they ask for (matchOrdered).
GreedyIsExact ==
    \A ms \in Matchers :
        MatchOrdered(text, ms) <=>
            \E p \in [DOMAIN ms -> 1..Len(text)] :
                \A k \in DOMAIN ms : /\ Fits(text, ms[k], p[k])
                                     /\ k > 1 => p[k] >= p[k - 1] + Len(ms[k - 1].s)

\* No character but quotes, blanks and backslashes is lost on the way to the tokens, nor is
\* their order changed, however quotes are nested or left open (tokenizeShell).
NothingIsHidden ==
    LET kept(s) == SelectSeq(s, LAMBDA ch : ch \in WordLetters \cup {"-"})
    IN kept(text) = kept(FlattenSeq([i \in DOMAIN TokenizeShell(text) |-> TokenizeShell(text)[i].text]))

\* What a writer puts down for a command line: blanks between words, and between a word and a
\* separator only where they are not left out.
Escaped(w) == FlattenSeq([i \in DOMAIN w |-> IF w[i] \in {"\"", "\\"} THEN <<"\\", w[i]>> ELSE <<w[i]>>])
Put(w) == IF w.quoted THEN <<"\"">> \o Escaped(w.text) \o <<"\"">> ELSE w.text
PutArgv(argv) == FlattenSeq([i \in DOMAIN argv |-> IF i = 1 THEN Put(argv[i]) ELSE <<" ">> \o Put(argv[i])])
BlankUnless(side, command) == IF side \in command.touches THEN <<>> ELSE <<" ">>
PutLine ==
    FlattenSeq([i \in DOMAIN line |->
        IF i = 1 THEN PutArgv(line[i].argv)
        ELSE BlankUnless("before", line[i]) \o Separator \o BlankUnless("after", line[i]) \o PutArgv(line[i].argv)])

\* A separator is one to the guard unless it touches a bare word.
Merged(i) ==
    LET words == line[i - 1].argv   next == line[i].argv
    IN [before |-> "before" \in line[i].touches /\ ~Last(words).quoted,
        after |-> "after" \in line[i].touches /\ next # <<>> /\ ~next[1].quoted]
IsSeparate(i) == ~Merged(i).before /\ ~Merged(i).after

\* The two commands read as one: the separator is part of the word it touches, or of both.
JoinCommands(argv, i) ==
    LET words == [k \in DOMAIN line[i].argv |-> line[i].argv[k].text]
        word == (IF Merged(i).before THEN Last(argv) ELSE <<>>) \o Separator \o
                (IF Merged(i).after THEN words[1] ELSE <<>>)
    IN (IF Merged(i).before THEN Front(argv) ELSE argv) \o <<word>> \o
       (IF Merged(i).after THEN Tail(words) ELSE words)

ReadAs ==
    LET read[i \in DOMAIN line] ==
          LET words == [k \in DOMAIN line[i].argv |-> line[i].argv[k].text]
          IN IF i = 1 THEN <<words>>
             ELSE IF IsSeparate(i) THEN Append(read[i - 1], words)
             ELSE Append(Front(read[i - 1]), JoinCommands(Last(read[i - 1]), i))
    IN SelectSeq(read[Len(line)], LAMBDA argv : argv # <<>>)

\* Reading a command line back gives the commands and words its writer meant, but for separators
\* that touch a bare word: those do not end a command to the guard, and the two commands are one
\* to it.  A separator or a blank inside quotes is part of a word (tokenizeShell, argvSegments).
CommandsAreRead == ArgvSegments(TokenizeShell(PutLine)) = ReadAs

\* Ways to hand a command to a shell that are opened, and one that is not.
InQuotes(command) == <<"\"">> \o Escaped(command) \o <<"\"">>
Handed(way, command) ==
    CASE way = "apart" -> <<"S", " ", "C", " ">> \o InQuotes(command)
      [] way = "glued" -> <<"S", " ", "C">> \o InQuotes(command)
      [] way = "attached" -> <<"S", " ">> \o InQuotes(DashC \o command)
      [] way = "eval" -> <<"E", " ">> \o InQuotes(command)
      [] way = "combined" -> <<"S", " ", "L", " ">> \o InQuotes(command)
Opened == {"apart", "glued", "attached", "eval"}

\* A command that is read stays visible to the rules when it is handed to a shell with -c or to
\* eval, up to MaxDepth shells deep; behind combined flags (-lc) nothing of it is visible,
\* but where its own first word passes for a -c
\* (collectCommandSurfaces).
NestedIsSeen ==
    /\ \A way \in Opened :
          LET deep[k \in 0..MaxDepth] == IF k = 0 THEN PutLine ELSE Handed(way, deep[k - 1])
          IN \A k \in {0, 1, MaxDepth} :
                {StripWrappers(a) : a \in ToSet(ReadAs)} \ {<<>>} \subseteq Surfaces(deep[k])
    /\ ~IsPrefix(DashC, PutLine) =>
          Surfaces(Handed("combined", PutLine)) = {<<Shell, Combined, PutLine>>}

\* What a command is without its wrappers, if the flags that take a value are known.
Unwrapped(argv) ==
    LET look(state, w) ==
          CASE state = "command" -> "command"
            [] state = "value" -> "flags"
            [] state = "flags" /\ IsFlag(w) -> IF w = Valued THEN "value" ELSE "flags"
            [] OTHER -> IF w = Assignment THEN "start" ELSE IF w = Wrapper THEN "flags" ELSE "command"
        state[i \in 0..Len(argv)] == IF i = 0 THEN "start" ELSE look(state[i - 1], argv[i])
    IN [command |-> SubSeq(argv, 1 + Cardinality({i \in DOMAIN argv : state[i] # "command"}), Len(argv)),
        valued |-> \E i \in DOMAIN argv : state[i] = "value"]

\* Taking off wrappers never takes off a word of the command, and takes off all of them unless
\* one has a flag with a value: then the value may stand where the rules look for the command
\* (stripWrappers).
WrappersAreSeenThrough ==
    \A a \in ToSet(ReadAs) :
        /\ IsSuffix(Unwrapped(a).command, StripWrappers(a))
        /\ ~Unwrapped(a).valued => StripWrappers(a) = Unwrapped(a).command
=============================================================================
