------------------------------ MODULE Tokenizer ------------------------------
(***************************************************************************)
(* How the shell (userspace/apps/init) reads a command line: the scanner    *)
(* tokenize_command, the split into pipeline stages, and parse_stage, which *)
(* turns the tokens of a stage into a command, an argument string and the   *)
(* files after < and >.                                                    *)
(*                                                                         *)
(* The line is scanned one character per step, so that a state is the       *)
(* scanner's loop head after some characters; stages are parsed one per     *)
(* step, since those before one have run by then (module Pipeline).         *)
(***************************************************************************)
EXTENDS Integers, Sequences, FiniteSets, SequencesExt

CONSTANTS
    Chars,            \* the characters of an expanded line; the tab is a blank too
    Builtins,         \* is_builtin, as words of Chars
    MaxParsed,        \* MAX_PARSED_LINE, also the longest expanded line
    MaxTokens,        \* MAX_TOKENS
    MaxStages,        \* MAX_PIPE_STAGES
    MaxStageTokens,   \* MAX_STAGE_TOKENS
    MaxArgs           \* MAX_ARGS

ASSUME TokenizerSizes ==
    MaxParsed \in Nat /\ MaxTokens \in Nat /\ MaxStages \in Nat /\ MaxStageTokens \in Nat /\ MaxArgs \in Nat

VARIABLES
    line,     \* history: the characters scanned
    scan,     \* the variables of tokenize_command
    at,       \* "scanning", "stages", "dispatched", "refused"
    error,    \* the message, where refused
    ran       \* the stages that have been parsed, hence run

tokenizerVars == <<line, scan, at, error, ran>>

Blank == " "
Ops == {"|", "<", ">"}
NewScan ==
    [parsed |-> << >>, tokens |-> << >>, start |-> 0,
     in_token |-> FALSE, in_single |-> FALSE, in_double |-> FALSE, escape |-> FALSE, error |-> ""]

-----------------------------------------------------------------------------
(* The scanner.                                                            *)

Fails(s, message) == [s EXCEPT !.error = message]

\* push_char; every caller has or gets in_token.
PushChar(s, c) ==
    IF Len(s.parsed) >= MaxParsed THEN Fails(s, "line too long")
    ELSE [s EXCEPT !.parsed = Append(@, c), !.in_token = TRUE]

\* push_token.
PushToken(s, kind, start, len) ==
    IF Len(s.tokens) >= MaxTokens THEN Fails(s, "too many tokens")
    ELSE [s EXCEPT !.tokens = Append(@, [kind |-> kind, start |-> start, len |-> len])]

\* A blank, an operator or the end of the line ends the word before it.
EndWord(s) ==
    LET pushed == PushToken(s, "word", s.start, Len(s.parsed) - s.start)
    IN  IF ~s.in_token THEN s
        ELSE IF pushed.error # "" THEN pushed
        ELSE [pushed EXCEPT !.in_token = FALSE]

\* Mutation: a quote or a backslash inside a word starts it anew.
BeginWordAnew(s) == [s EXCEPT !.start = Len(s.parsed), !.in_token = TRUE]

\* Whatever is not a blank or an operator begins a word or continues one.
BeginWord(s) ==
    IF s.in_token THEN s
    ELSE [s EXCEPT !.start = Len(s.parsed), !.in_token = TRUE]

\* Mutation: a backslash keeps its meaning between single quotes.
ScannedEscaping(s, c) ==
    IF s.escape THEN PushChar([s EXCEPT !.escape = FALSE], c)
    ELSE IF c = "\\" THEN [BeginWord(s) EXCEPT !.escape = TRUE]
    ELSE IF s.in_single THEN IF c = "'" THEN [s EXCEPT !.in_single = FALSE] ELSE PushChar(s, c)
    ELSE IF s.in_double THEN IF c = "\"" THEN [s EXCEPT !.in_double = FALSE] ELSE PushChar(s, c)
    ELSE IF c = Blank THEN EndWord(s)
    ELSE IF c = "'" THEN [BeginWord(s) EXCEPT !.in_single = TRUE]
    ELSE IF c = "\"" THEN [BeginWord(s) EXCEPT !.in_double = TRUE]
    ELSE IF c \in Ops THEN LET ended == EndWord(s)
                           IN  IF ended.error # "" THEN ended ELSE PushToken(ended, c, 0, 0)
    ELSE PushChar(BeginWord(s), c)

Scanned(s, c) ==
    IF s.escape THEN PushChar([s EXCEPT !.escape = FALSE], c)
    ELSE IF s.in_single THEN IF c = "'" THEN [s EXCEPT !.in_single = FALSE] ELSE PushChar(s, c)
    ELSE IF s.in_double THEN CASE c = "\"" -> [s EXCEPT !.in_double = FALSE]
                               [] c = "\\" -> [s EXCEPT !.escape = TRUE]
                               [] OTHER    -> PushChar(s, c)
    ELSE CASE c = Blank   -> EndWord(s)
           [] c = "'"     -> [BeginWord(s) EXCEPT !.in_single = TRUE]
           [] c = "\""    -> [BeginWord(s) EXCEPT !.in_double = TRUE]
           [] c = "\\"    -> [BeginWord(s) EXCEPT !.escape = TRUE]
           [] c \in Ops   -> LET ended == EndWord(s)
                             IN  IF ended.error # "" THEN ended ELSE PushToken(ended, c, 0, 0)
           [] OTHER       -> PushChar(BeginWord(s), c)

AtEnd(s) ==
    IF s.escape THEN Fails(s, "trailing escape")
    ELSE IF s.in_single \/ s.in_double THEN Fails(s, "unclosed quote")
    ELSE EndWord(s)

-----------------------------------------------------------------------------
(* From tokens to stages.                                                  *)

\* token_word.
Word(token) == SubSeq(scan.parsed, token.start + 1, token.start + token.len)

\* The n-th of a set of positions, what a sequence has at a set of positions, and
\* the parts of it before, between and behind them.
Nth(I, n) == CHOOSE i \in I : Cardinality({j \in I : j < i}) = n - 1

Selection(s, I) == [n \in 1 .. Cardinality(I) |-> s[Nth(I, n)]]

Parts(s, I) ==
    LET ends == I \cup {0, Len(s) + 1}
    IN  [k \in 1 .. Cardinality(ends) - 1 |-> SubSeq(s, Nth(ends, k) + 1, Nth(ends, k + 1) - 1)]

\* Mutation: the words are joined without the blank.
JoinedTight(words) == FlattenSeq(words)

\* join_word_tokens, and the end of parse_stage: no blank before the first word
\* that isn't empty.  Every prefix is shorter, so that the last length decides.
Joined(words) ==
    LET args[n \in 0 .. Len(words)] ==
            IF n = 0 THEN << >>
            ELSE IF args[n - 1] = << >> THEN words[n]
            ELSE args[n - 1] \o <<Blank>> \o words[n]
    IN  args[Len(words)]

HasOps(tokens) == \E i \in 1 .. Len(tokens) : tokens[i].kind # "word"

\* The stages between pipes; there is always one.
Cuts(tokens) == Parts(tokens, {i \in 1 .. Len(tokens) : tokens[i].kind = "|"})

SplitError(stages) ==
    IF \E k \in 1 .. Len(stages) : k <= MaxStages /\ stages[k] = << >> THEN "empty pipeline stage"
    ELSE IF Len(stages) > MaxStages THEN "too many pipeline stages"
    ELSE ""

\* Mutation: < is good in every stage.
InAnywhere(s, first, last) == s.in = {}

MayRedirectIn(s, first, last) == first /\ s.in = {}
MayRedirectOut(s, first, last) == last /\ s.out = {}

\* One token of parse_stage; s.want is the operator whose file comes next.
Taken(s, token, first, last) ==
    IF s.error # "" THEN s
    ELSE IF s.want # "" THEN
        IF token.kind # "word" THEN Fails(s, "missing file")
        ELSE IF s.want = "<" THEN [s EXCEPT !.in = {Word(token)}, !.want = ""]
        ELSE [s EXCEPT !.out = {Word(token)}, !.want = ""]
    ELSE CASE token.kind = "<" -> IF MayRedirectIn(s, first, last) THEN [s EXCEPT !.want = "<"]
                                  ELSE Fails(s, "invalid placement")
           [] token.kind = ">" -> IF MayRedirectOut(s, first, last) THEN [s EXCEPT !.want = ">"]
                                  ELSE Fails(s, "invalid placement")
           [] token.kind = "|" -> Fails(s, "unexpected pipe")
           [] OTHER -> IF Len(s.words) >= MaxStageTokens THEN Fails(s, "too many tokens")
                       ELSE [s EXCEPT !.words = Append(@, Word(token))]

ParsedStage(tokens, first, last) ==
    LET taken[n \in 0 .. Len(tokens)] ==
            IF n = 0 THEN [words |-> << >>, in |-> {}, out |-> {}, want |-> "", error |-> ""]
            ELSE Taken(taken[n - 1], tokens[n], first, last)
        s == taken[Len(tokens)]
    IN  IF s.error # "" THEN s
        ELSE IF s.want # "" THEN Fails(s, "missing file")
        ELSE IF s.words = << >> THEN Fails(s, "empty command stage")
        ELSE IF Len(Joined(Tail(s.words))) > MaxArgs THEN Fails(s, "args too long")
        ELSE s

StageParse(s) == [cmd |-> s.words[1], args |-> Joined(Tail(s.words)), in |-> s.in, out |-> s.out]

-----------------------------------------------------------------------------
(* The steps.                                                              *)

Init ==
    /\ line = << >> /\ scan = NewScan
    /\ at = "scanning" /\ error = "" /\ ran = << >>

Refuse(message) == at' = "refused" /\ error' = message

\* dispatch has trimmed the line; what expand_line returns fits MaxParsed.
Scan(c) ==
    /\ at = "scanning" /\ Len(line) < MaxParsed
    /\ line = << >> => c # Blank
    /\ line' = Append(line, c)
    /\ scan' = Scanned(scan, c)
    /\ IF scan'.error # "" THEN Refuse(scan'.error) ELSE UNCHANGED <<at, error>>
    /\ UNCHANGED ran

\* dispatch: without an operator the words are a command and its arguments,
\* however many there are; otherwise the line is split into stages.
EndOfLine ==
    /\ at = "scanning"
    /\ line # << >> /\ Last(line) # Blank
    /\ scan' = AtEnd(scan)
    /\ LET words == [i \in 1 .. Len(scan'.tokens) |-> Word(scan'.tokens[i])]
           split == SplitError(Cuts(scan'.tokens))
       IN  IF scan'.error # "" THEN Refuse(scan'.error) /\ UNCHANGED ran
           ELSE IF ~HasOps(scan'.tokens) THEN
               IF Len(Joined(Tail(words))) > MaxArgs THEN Refuse("args too long") /\ UNCHANGED ran
               ELSE /\ at' = "dispatched"
                    /\ ran' = <<StageParse([words |-> words, in |-> {}, out |-> {}])>>
                    /\ UNCHANGED error
           ELSE IF split # "" THEN Refuse(split) /\ UNCHANGED ran
           ELSE at' = "stages" /\ UNCHANGED <<error, ran>>
    /\ UNCHANGED line

Stages   == Cuts(scan.tokens)
ParseNext == LET k == Len(ran) + 1 IN ParsedStage(Stages[k], k = 1, k = Len(Stages))

\* The body of dispatch_compound_tokens' second loop, without the execution.
ParseStage ==
    /\ at = "stages"
    /\ IF ParseNext.error # "" THEN Refuse(ParseNext.error) /\ UNCHANGED ran
       ELSE IF ParseNext.words[1] \in Builtins THEN Refuse("builtin in a pipeline") /\ UNCHANGED ran
       ELSE /\ ran' = Append(ran, StageParse(ParseNext))
            /\ at' = IF Len(ran') = Len(Stages) THEN "dispatched" ELSE "stages"
            /\ UNCHANGED error
    /\ UNCHANGED <<line, scan>>

Next ==
    \/ \E c \in Chars : Scan(c)
    \/ EndOfLine
    \/ ParseStage

Spec == Init /\ [][Next]_tokenizerVars

\* tee and sed: args.split_whitespace().
ProgramWords(args) ==
    LET parts == Parts(args, {i \in 1 .. Len(args) : args[i] = Blank})
    IN  Selection(parts, {k \in 1 .. Len(parts) : parts[k] # << >>})

-----------------------------------------------------------------------------
(* Properties of the scanner.                                              *)

\* The words among the tokens before token i, and where the last of them ends.
WordsBefore(tokens, i) == {j \in 1 .. Len(tokens) : j < i /\ tokens[j].kind = "word"}

LastEnd(tokens, words) ==
    LET last == CHOOSE j \in words : \A k \in words : k <= j
    IN  IF words = {} THEN 0 ELSE tokens[last].start + tokens[last].len

EndBefore(tokens, i) == LastEnd(tokens, WordsBefore(tokens, i))

\* The words lie in the parsed buffer one behind the other, without gap or
\* overlap, up to the word in progress; and unquoting only ever drops characters,
\* so that the parsed buffer can't overflow.
TokensTileParsed ==
    /\ \A i \in 1 .. Len(scan.tokens) :
          scan.tokens[i].kind = "word" => scan.tokens[i].start = EndBefore(scan.tokens, i)
    /\ EndBefore(scan.tokens, Len(scan.tokens) + 1)
          = IF scan.in_token THEN scan.start ELSE Len(scan.parsed)
    /\ Len(scan.parsed) <= Len(line)
    /\ scan.error # "line too long"

\* The grammar, by position and without a scanner: a backslash is escaped where
\* an odd number of them precedes it.
RunBefore(i, from) ==
    LET same == {j \in from .. i : \A n \in j .. i - 1 : line[n] = "\\"}
    IN  i - CHOOSE j \in same : \A n \in same : j <= n

Escaped(i, from) == RunBefore(i, from) % 2 = 1

\* The piece of a word at position i: where it ends, zero if it doesn't, and its text.
Piece(i) ==
    LET closers == IF line[i] = "'" THEN {j \in i + 1 .. Len(line) : line[j] = "'"}
                   ELSE IF line[i] = "\"" THEN {j \in i + 1 .. Len(line) : line[j] = "\"" /\ ~Escaped(j, i + 1)}
                   ELSE IF line[i] = "\\" THEN {j \in {i + 1} : j <= Len(line)}
                   ELSE {i}
        end     == IF closers = {} THEN 0 ELSE CHOOSE j \in closers : \A n \in closers : j <= n
        inside  == i + 1 .. end - 1
        kept    == IF line[i] = "'" THEN inside
                   ELSE IF line[i] = "\"" THEN {j \in inside : line[j] = "\\" => Escaped(j, i + 1)}
                   ELSE {end}
    IN  [end |-> end, text |-> IF end = 0 THEN << >> ELSE Selection(line, kept)]

\* What the line says: its operators and words, and whether every quote and
\* backslash finds what it needs.
Reading ==
    LET n == Len(line)
        word[i \in 1 .. n + 1] ==
            IF i > n \/ line[i] \in Ops \cup {Blank} THEN [text |-> << >>, next |-> i, closed |-> TRUE]
            ELSE IF Piece(i).end = 0 THEN [text |-> << >>, next |-> n + 1, closed |-> FALSE]
            ELSE LET rest == word[Piece(i).end + 1]
                 IN  [rest EXCEPT !.text = Piece(i).text \o @]
        read[i \in 1 .. n + 1] ==
            IF i > n THEN [items |-> << >>, closed |-> TRUE]
            ELSE IF line[i] = Blank THEN read[i + 1]
            ELSE IF line[i] \in Ops
                 THEN [read[i + 1] EXCEPT !.items = <<[kind |-> line[i], text |-> << >>]>> \o @]
            ELSE LET w == word[i]
                     r == read[w.next]
                 IN  [items  |-> <<[kind |-> "word", text |-> w.text]>> \o r.items,
                      closed |-> w.closed /\ r.closed]
    IN  read[1]

ScanErrors == {"trailing escape", "unclosed quote"}

\* The tokens of a line are what the grammar reads in it, and a line is refused
\* by the scanner only for a quote or backslash left open or for its length.
TokensMatchGrammar ==
    at # "scanning" =>
        LET read == Reading
        IN  CASE error \in ScanErrors -> ~read.closed
              [] scan.error = "too many tokens" -> Len(read.items) > MaxTokens
              [] OTHER -> /\ read.closed
                          /\ read.items = [i \in 1 .. Len(scan.tokens) |->
                                 [kind |-> scan.tokens[i].kind, text |-> Word(scan.tokens[i])]]

-----------------------------------------------------------------------------
(* Properties of the stages.                                               *)

\* By position: the files are the words behind an operator, the other words are
\* the command and its arguments.
FilesOf(tokens, kind) ==
    {i \in 2 .. Len(tokens) : tokens[i - 1].kind = kind /\ tokens[i].kind = "word"}

WordsOf(tokens) ==
    LET mine   == {i \in 1 .. Len(tokens) : tokens[i].kind = "word"} \ (FilesOf(tokens, "<") \cup FilesOf(tokens, ">"))
        chosen == Selection(tokens, mine)
    IN  [n \in DOMAIN chosen |-> Word(chosen[n])]

WellFormed(k) ==
    LET tokens == Stages[k]
        Places(kind) == {i \in 1 .. Len(tokens) : tokens[i].kind = kind}
    IN  /\ \A i \in 1 .. Len(tokens) :
              tokens[i].kind # "word" => i < Len(tokens) /\ tokens[i + 1].kind = "word"
        /\ Cardinality(Places("<")) <= IF k = 1 THEN 1 ELSE 0
        /\ Cardinality(Places(">")) <= IF k = Len(Stages) THEN 1 ELSE 0
        /\ WordsOf(tokens) # << >>
        /\ HasOps(scan.tokens) => Len(WordsOf(tokens)) <= MaxStageTokens
        /\ Len(Joined(Tail(WordsOf(tokens)))) <= MaxArgs

\* Every word of a stage that runs is its command, one of its arguments or the
\* file of its one < or >, none lost and none twice; input is redirected in the
\* first stage only and output in the last, and a stage is refused for no other
\* reason.
StagesMatchTokens ==
    /\ \A k \in 1 .. Len(ran) :
          /\ WellFormed(k)
          /\ ran[k] = [cmd  |-> WordsOf(Stages[k])[1], args |-> Joined(Tail(WordsOf(Stages[k]))),
                       in   |-> {Word(Stages[k][i]) : i \in FilesOf(Stages[k], "<")},
                       out  |-> {Word(Stages[k][i]) : i \in FilesOf(Stages[k], ">")}]
    /\ at = "refused" /\ scan.error = "" /\ SplitError(Stages) = "" =>
          LET k == Len(ran) + 1
          IN  WellFormed(k) => WordsOf(Stages[k])[1] \in Builtins

Plain(word) == word # << >> /\ \A i \in 1 .. Len(word) : word[i] # Blank

\* A program that splits its arguments at blanks, as tee and sed do, gets the
\* words that were typed, as long as none is empty or holds a blank.
PlainWordsReachPrograms ==
    \A k \in 1 .. Len(ran) :
        LET typed == Tail(WordsOf(Stages[k]))
        IN  (\A i \in 1 .. Len(typed) : Plain(typed[i])) => ProgramWords(ran[k].args) = typed

\* OS_STATE.md says quoted arguments are preserved: without the condition.
QuotedArgumentsPreserved ==
    \A k \in 1 .. Len(ran) : ProgramWords(ran[k].args) = Tail(WordsOf(Stages[k]))
=============================================================================
