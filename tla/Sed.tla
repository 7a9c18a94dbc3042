--------------------------------- MODULE Sed ---------------------------------
(***************************************************************************)
(* The program sed (userspace/apps/sed): its script s<delim>old<delim>new   *)
(* <delim>[g], and the substitution over its files or its standard input.   *)
(*                                                                         *)
(* Scripts and data are sequences of characters.  Names are resolved as     *)
(* module Environment says; here a file is its content or can't be read.    *)
(***************************************************************************)
EXTENDS Integers, Sequences

CONSTANTS
    Scripts,          \* the first arguments a user may give
    Data,             \* contents of files, redirected inputs and typed lines
    MaxWords,         \* MAX_TOKENS
    MaxPattern,       \* MAX_PATTERN
    MaxReplacement,   \* MAX_REPLACEMENT
    MaxIoBuf,         \* MAX_IO_BUF
    MaxFiles          \* bound on the file arguments given

\* The shell and the kernel hold a redirected input in buffers as long as sed's.
ASSUME SedSizes ==
    /\ MaxWords \in Nat /\ MaxPattern \in Nat /\ MaxReplacement \in Nat /\ MaxFiles \in Nat
    /\ MaxIoBuf \in Nat \ {0}
    /\ \A d \in Data : Len(d) <= MaxIoBuf

VARIABLES
    pc,       \* "start", "stdin", "files", "done", "refused"
    word,     \* the script as given
    script,   \* and as parsed
    source,   \* standard input: "keyboard" or "redirected", with what is left of it
    todo,     \* files still to run on
    given,    \* history: the file, typed line or whole redirected input at hand
    shown     \* history: what has been written for it

sedVars == <<pc, word, script, source, todo, given, shown>>

None    == [some |-> FALSE]
Some(v) == [some |-> TRUE, val |-> v]

Smaller(m, n) == IF m <= n THEN m ELSE n
Clamped(s, n) == SubSeq(s, 1, Smaller(Len(s), n))

-----------------------------------------------------------------------------
(* The script.                                                             *)

\* Mutation: the bound check is off by one.
NoRoomLate(text, max) == Len(text) > max

NoRoom(text, max) == Len(text) >= max

\* parse_delimited: the text up to the next unescaped delimiter, and the
\* position behind it.
ParseDelimited(input, start, delim, max) ==
    LET read[i \in 1 .. Len(input) + 1] ==      \* the state before byte i
            IF i <= start THEN [text |-> << >>, escaped |-> FALSE, end |-> 0, full |-> FALSE]
            ELSE LET s == read[i - 1]
                     b == input[i - 1]
                 IN  IF s.end # 0 \/ s.full THEN s
                     ELSE IF ~s.escaped /\ b = "\\" THEN [s EXCEPT !.escaped = TRUE]
                     ELSE IF ~s.escaped /\ b = delim THEN [s EXCEPT !.end = i]
                     ELSE IF NoRoom(s.text, max) THEN [s EXCEPT !.full = TRUE]
                     ELSE [s EXCEPT !.text = Append(@, b), !.escaped = FALSE]
        last == read[Len(input) + 1]
    IN  IF last.end = 0 THEN None ELSE Some(last)

\* Mutation: what follows the third delimiter is not looked at.
AnyFlags(flags) == TRUE

KnownFlags(flags) == flags \in {<< >>, <<"g">>}

\* parse_script.
ParseScript(input) ==
    IF Len(input) < 4 \/ input[1] # "s" THEN None
    ELSE LET pat == ParseDelimited(input, 3, input[2], MaxPattern)
             rep == ParseDelimited(input, pat.val.end, input[2], MaxReplacement)
             flags == SubSeq(input, rep.val.end, Len(input))
         IN  IF ~pat.some THEN None
             ELSE IF ~rep.some THEN None
             ELSE IF ~KnownFlags(flags) THEN None
             ELSE Some([pattern |-> pat.val.text, replacement |-> rep.val.text, global |-> flags = <<"g">>])

-----------------------------------------------------------------------------
(* substitute.                                                             *)

Occurs(pattern, input, i) ==
    i + Len(pattern) <= Len(input) /\ SubSeq(input, i + 1, i + Len(pattern)) = pattern

\* Mutation: the next match is looked for one byte on.
PastFirst(pattern, in_i) == in_i + 1

PastMatch(pattern, in_i) == in_i + Len(pattern)

\* The loop: in_i bytes of the input are used up; out fills up to MaxIoBuf.
Substitute(input, s) ==
    LET Rest(st) == [st EXCEPT !.out = Clamped(@ \o SubSeq(input, st.in_i + 1, Len(input)), MaxIoBuf),
                               !.in_i = Len(input)]
        loop[n \in 0 .. Len(input)] ==
            IF n = 0 THEN [in_i |-> 0, out |-> << >>]
            ELSE LET st == loop[n - 1]
                     replaced == [in_i |-> PastMatch(s.pattern, st.in_i),
                                  out  |-> Clamped(st.out \o s.replacement, MaxIoBuf)]
                 IN  IF st.in_i >= Len(input) \/ Len(st.out) >= MaxIoBuf THEN st
                     ELSE IF ~Occurs(s.pattern, input, st.in_i)
                          THEN [in_i |-> st.in_i + 1, out |-> Append(st.out, input[st.in_i + 1])]
                     ELSE IF s.global THEN replaced
                     ELSE Rest(replaced)
    IN  IF s.pattern = << >> THEN Clamped(input, MaxIoBuf) ELSE loop[Len(input)].out

-----------------------------------------------------------------------------
(* The program.                                                            *)

NoScript == [pattern |-> << >>, replacement |-> << >>, global |-> FALSE]

Init ==
    /\ pc = "start" /\ word = << >> /\ script = NoScript /\ todo = 0
    /\ source \in [kind : {"keyboard"}, left : {<< >>}]
                  \cup [kind : {"redirected"}, left : Data \ {<< >>}]
    /\ given = source.left /\ shown = << >>

\* run: its arguments are the script w and files; no script at all is
\* refused as an empty one is.
Start(w, files) ==
    /\ pc = "start"
    /\ word' = w /\ todo' = files
    /\ IF 1 + files > MaxWords \/ ~ParseScript(w).some
       THEN pc' = "refused" /\ UNCHANGED script
       ELSE pc' = (IF files = 0 THEN "stdin" ELSE "files") /\ script' = ParseScript(w).val
    /\ given' = IF files = 0 THEN source.left ELSE << >>
    /\ UNCHANGED <<source, shown>>

\* A read of run_on_stdin: the whole buffer where the input is redirected, a
\* line from the keyboard.
ReadRedirected ==
    /\ pc = "stdin" /\ source.kind = "redirected"
    /\ LET chunk == Clamped(source.left, MaxIoBuf)
       IN  IF chunk = << >>
           THEN pc' = "done" /\ UNCHANGED <<source, shown>>
           ELSE /\ source' = [source EXCEPT !.left = SubSeq(@, Len(chunk) + 1, Len(@))]
                /\ shown' = shown \o Substitute(chunk, script)
                /\ UNCHANGED pc
    /\ UNCHANGED <<word, script, todo, given>>

ReadTyped(typed) ==
    /\ pc = "stdin" /\ source.kind = "keyboard"
    /\ typed # << >>
    /\ given' = typed /\ shown' = Substitute(typed, script)
    /\ UNCHANGED <<pc, word, script, source, todo>>

\* run_on_file: a file that can't be read is reported and passed over.
RunOnFile(content) ==
    /\ pc = "files"
    /\ given' = content.val /\ shown' = IF content.some THEN Substitute(content.val, script) ELSE << >>
    /\ todo' = todo - 1
    /\ pc' = IF todo = 1 THEN "done" ELSE pc
    /\ UNCHANGED <<word, script, source>>

Unreadable == [some |-> FALSE, val |-> << >>]

Next ==
    \/ \E w \in Scripts, files \in 0 .. MaxFiles : Start(w, files)
    \/ ReadRedirected
    \/ \E d \in Data : ReadTyped(d)
    \/ \E d \in Data : RunOnFile(Some(d))
    \/ RunOnFile(Unreadable)

Spec == Init /\ [][Next]_sedVars

-----------------------------------------------------------------------------
(* Properties.                                                             *)

\* Pattern, replacement and every write stay within their buffers.
TypeOK ==
    /\ pc \in {"start", "stdin", "files", "done", "refused"}
    /\ todo \in 0 .. MaxFiles
    /\ Len(script.pattern) <= MaxPattern
    /\ Len(script.replacement) <= MaxReplacement
    /\ script.global \in BOOLEAN
    /\ Len(shown) <= MaxIoBuf

\* By position: a character from 3 on is escaped where an odd number of
\* backslashes precedes it, and a delimiter where it is not.
Escaped(w, i) ==
    \E j \in 3 .. i - 1 :
        /\ \A n \in j .. i - 1 : w[n] = "\\"
        /\ j = 3 \/ w[j - 1] # "\\"
        /\ (i - j) % 2 = 1

Delimiters(w) == {i \in 3 .. Len(w) : w[2] # "\\" /\ w[i] = w[2] /\ ~Escaped(w, i)}

Unescaped(w, from, to) ==
    LET kept == SelectSeq([n \in 1 .. to - from + 1 |-> from + n - 1],
                          LAMBDA i : w[i] = "\\" => Escaped(w, i))
    IN  [n \in DOMAIN kept |-> w[kept[n]]]

\* The script is the text between three delimiters of any character but the
\* backslash, each part with its escapes taken out and none cut short; every
\* other script is refused.
ScriptMatchesGrammar ==
    pc # "start" /\ 1 + todo <= MaxWords =>
        LET d   == Delimiters(word)
            d1  == CHOOSE i \in d : \A j \in d : i <= j
            d2  == CHOOSE i \in d \ {d1} : \A j \in d \ {d1} : i <= j
            old == Unescaped(word, 3, d1 - 1)
            new == Unescaped(word, d1 + 1, d2 - 1)
            end == SubSeq(word, d2 + 1, Len(word))
            good == /\ Len(word) >= 4 /\ word[1] = "s"
                    /\ d # {} /\ d # {d1}
                    /\ Len(old) <= MaxPattern /\ Len(new) <= MaxReplacement
                    /\ end \in {<< >>, <<"g">>}
        IN  /\ pc = "refused" <=> ~good
            /\ good => script = [pattern |-> old, replacement |-> new, global |-> end # << >>]

\* The matches to replace: occurrences that begin in no earlier one.
Replaced(input, s) ==
    LET occurrences == {i \in 0 .. Len(input) - 1 : s.pattern # << >> /\ Occurs(s.pattern, input, i)}
        taken[i \in 0 .. Len(input)] ==
            IF i = 0 THEN {}
            ELSE IF i - 1 \in occurrences /\ \A j \in taken[i - 1] : j + Len(s.pattern) <= i - 1
                 THEN taken[i - 1] \cup {i - 1} ELSE taken[i - 1]
    IN  {i \in taken[Len(input)] : s.global \/ \A j \in occurrences : i <= j}

Edited(input, s) ==
    LET upTo[n \in 0 .. Len(input)] ==
            IF n = 0 THEN << >>
            ELSE IF n - 1 \in Replaced(input, s) THEN upTo[n - 1] \o s.replacement
            ELSE IF \E i \in Replaced(input, s) : i < n /\ n <= i + Len(s.pattern) THEN upTo[n - 1]
            ELSE Append(upTo[n - 1], input[n])
    IN  upTo[Len(input)]

\* Every file, every typed line, and a redirected input as a whole, comes out
\* with its matches replaced, from the left and never overlapping, the first or
\* with g all of them; up to the length of the buffer.
OutputIsSubstitution ==
    pc \in {"done", "files"} \/ (pc = "stdin" /\ source.kind = "keyboard") =>
        shown = Clamped(Edited(given, script), MaxIoBuf)
=============================================================================
