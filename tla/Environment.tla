----------------------------- MODULE Environment -----------------------------
(***************************************************************************)
(* The shell's variables (userspace/apps/init): the ENV array with set_env  *)
(* and get_env, $-expansion, the working directory kept in the variable CWD, *)
(* and the string of variables that programs are started with.             *)
(*                                                                         *)
(* Names, values, paths and lines are sequences of characters, since the    *)
(* limits on their lengths, and where a slash falls, are what can go wrong.  *)
(* They arrive trimmed, as `export' and `cd' leave them.                     *)
(***************************************************************************)
EXTENDS Integers, Sequences

CONSTANTS
    Keys, Vals,      \* names and values a user may export
    CwdKey,          \* the name CWD
    Dirs,            \* arguments of cd
    Files,           \* names that are resolved against CWD
    RawLines,        \* lines that are expanded
    Char,            \* characters
    NameChars,       \* those a name after $ is made of
    MaxEnvVars,      \* MAX_ENV_VARS
    MaxKeyLen,       \* the size of EnvVar.key
    MaxValLen,       \* the size of EnvVar.val
    MaxEnvLen,       \* MAX_ENV_LEN
    PathBuf,         \* 128, the size of every path buffer
    MaxExpanded      \* the size of the expanded line

ASSUME EnvironmentTypes ==
    /\ Keys \cup Vals \cup Dirs \cup Files \cup RawLines \cup {CwdKey} \subseteq Seq(Char)
    /\ {"/", "$"} \cup NameChars \subseteq Char /\ "$" \notin NameChars
    /\ PathBuf \in Nat /\ MaxEnvLen \in Nat

ASSUME EnvironmentSizes ==
    /\ MaxEnvVars \in Nat \ {0} /\ MaxKeyLen \in Nat /\ MaxExpanded \in Nat
    /\ MaxValLen \in Nat \ {0}
    /\ MaxValLen + 2 <= PathBuf
    /\ Len(CwdKey) \in 1 .. MaxKeyLen
    /\ Len(CwdKey) + MaxValLen + 2 <= MaxEnvLen

VARIABLES
    ENV,        \* the array of [key, val]; a free entry has an empty key
    phase,      \* "start", "running", "panicked"
    reply,      \* what the last command did
    exported    \* history: CWD was set by export, not only by cd

envVars == <<ENV, phase, reply, exported>>

Slash    == <<"/">>
EnvIdx   == 1 .. MaxEnvVars
FreeVar  == [key |-> << >>, val |-> << >>]
None     == [some |-> FALSE]
Some(s)  == [some |-> TRUE, val |-> s]

Smaller(m, n)  == IF m <= n THEN m ELSE n
Clamped(s, n)  == SubSeq(s, 1, Smaller(Len(s), n))
IsAbsolute(s)  == s # << >> /\ s[1] = "/"
EndsInSlash(s) == s # << >> /\ s[Len(s)] = "/"

-----------------------------------------------------------------------------
(* The array.                                                              *)

Holding(key) == {i \in EnvIdx : ENV[i].key = key}

\* Mutation: the scan for a free entry doesn't stop at the first.
LastIdx(S) == CHOOSE i \in S : \A j \in S : i >= j

FirstIdx(S) == CHOOSE i \in S : \A j \in S : i <= j

GetEnv(key) ==
    IF Holding(key) = {} THEN None ELSE Some(ENV[FirstIdx(Holding(key))].val)

\* Mutation: a known name is not looked for.
StoredByAppending(key, val) ==
    IF Holding(<< >>) # {} THEN [ENV EXCEPT ![FirstIdx(Holding(<< >>))] = [key |-> key, val |-> val]]
    ELSE ENV

\* An entry of that name, else a free one.  Free entries have the empty name,
\* so that name finds one and gives it a value nobody sees.
Stored(key, val) ==
    IF Holding(key) # {} THEN [ENV EXCEPT ![FirstIdx(Holding(key))].val = val]
    ELSE IF Holding(<< >>) # {}
         THEN [ENV EXCEPT ![FirstIdx(Holding(<< >>))] = [key |-> key, val |-> val]]
    ELSE ENV

Outcome(key, val) ==
    IF Len(key) > MaxKeyLen \/ Len(val) > MaxValLen THEN "too long"
    ELSE IF Holding(key) = {} /\ Holding(<< >>) = {} THEN "too many"
    ELSE "ok"

SetEnv(key, val) ==
    /\ ENV' = IF Outcome(key, val) = "ok" THEN Stored(key, val) ELSE ENV
    /\ reply' = [op |-> "set", key |-> key, val |-> val, outcome |-> Outcome(key, val)]

\* build_env_str: `KEY=VALUE' lines up to the first entry that doesn't fit.
PairLen(v) == Len(v.key) + Len(v.val) + 2

EnvStr ==
    LET built[n \in 0 .. MaxEnvVars] ==
            IF n = 0 THEN [pairs |-> << >>, offset |-> 0, stopped |-> FALSE]
            ELSE LET b == built[n - 1] v == ENV[n]
                 IN  IF b.stopped \/ v.key = << >> THEN b
                     ELSE IF b.offset + PairLen(v) > MaxEnvLen THEN [b EXCEPT !.stopped = TRUE]
                     ELSE [pairs |-> Append(b.pairs, v), offset |-> b.offset + PairLen(v), stopped |-> FALSE]
    IN  built[MaxEnvVars].pairs

\* How _start of cat, ls and sed finds its CWD in that string.
InEnvStr(key) ==
    LET found == {i \in 1 .. Len(EnvStr) : EnvStr[i].key = key}
    IN  IF found = {} THEN None ELSE Some(EnvStr[FirstIdx(found)].val)

ProgramCwd == IF InEnvStr(CwdKey).some THEN InEnvStr(CwdKey).val ELSE Slash

-----------------------------------------------------------------------------
(* expand_line.                                                            *)

\* The name that starts at position i of a line.
NameAt(raw, i) ==
    LET ends == {j \in i .. Len(raw) + 1 : j = Len(raw) + 1 \/ raw[j] \notin NameChars}
    IN  SubSeq(raw, i, FirstIdx(ends) - 1)

ValueOf(name) == IF GetEnv(name).some THEN GetEnv(name).val ELSE << >>

Pushed(s, text, i) == [i |-> i, out |-> Clamped(s.out \o text, MaxExpanded)]

\* Mutation: what a variable stands for is looked up once more.
ExpandedTwice(raw, s) ==
    LET name == NameAt(raw, s.i + 1)
    IN  IF s.i > Len(raw) \/ Len(s.out) >= MaxExpanded THEN s
        ELSE IF raw[s.i] # "$" THEN Pushed(s, <<raw[s.i]>>, s.i + 1)
        ELSE IF name = << >> THEN Pushed(s, <<"$">>, s.i + 1)
        ELSE Pushed(s, ValueOf(ValueOf(name)), s.i + 1 + Len(name))

\* One turn of the loop, which ends where the line or the room does.
Expanded(raw, s) ==
    LET name == NameAt(raw, s.i + 1)
    IN  IF s.i > Len(raw) \/ Len(s.out) >= MaxExpanded THEN s
        ELSE IF raw[s.i] # "$" THEN Pushed(s, <<raw[s.i]>>, s.i + 1)
        ELSE IF name = << >> THEN Pushed(s, <<"$">>, s.i + 1)
        ELSE Pushed(s, ValueOf(name), s.i + 1 + Len(name))

ExpandLine(raw) ==
    LET turns[n \in 0 .. Len(raw)] ==
            IF n = 0 THEN [i |-> 1, out |-> << >>] ELSE Expanded(raw, turns[n - 1])
    IN  turns[Len(raw)].out

-----------------------------------------------------------------------------
(* Paths.                                                                  *)

\* Mutation: the root loses its slash too.
WithoutAnySlash(s) == IF Len(s) > 0 /\ EndsInSlash(s) THEN SubSeq(s, 1, Len(s) - 1) ELSE s

WithoutSlash(s) == IF Len(s) > 1 /\ EndsInSlash(s) THEN SubSeq(s, 1, Len(s) - 1) ELSE s

AsDir(s) == IF s = << >> \/ EndsInSlash(s) THEN s ELSE s \o Slash

\* Mutation: the buffer is as long as a value may be.
CwdRoomShort == MaxValLen

CwdRoom == PathBuf - 1

\* set_cwd.
NewCwd(dir) ==
    LET path == IF dir = << >> THEN Slash ELSE dir
        base == IF IsAbsolute(path) THEN << >>
                ELSE IF GetEnv(CwdKey).some THEN AsDir(Clamped(GetEnv(CwdKey).val, CwdRoom))
                ELSE Slash
    IN  WithoutSlash(base \o Clamped(path, CwdRoom - Len(base)))

\* resolve_path of the shell indexes the last byte of CWD.
ResolvePanics(path) == ~IsAbsolute(path) /\ GetEnv(CwdKey) = Some(<< >>)

ShellResolve(path) ==
    LET cwd  == IF GetEnv(CwdKey).some THEN GetEnv(CwdKey).val ELSE Slash
        full == IF IsAbsolute(path) THEN path ELSE AsDir(cwd) \o path
    IN  IF Len(full) > PathBuf THEN None ELSE Some(full)

\* Mutation: a program takes every name as it is.
ProgramTakesName(path) == Some(path)

\* resolve_path of cat and sed: as the shell's, but an absolute path of any
\* length, and an empty CWD is the root.
ProgramResolve(path) ==
    LET dir == IF ProgramCwd = << >> THEN Slash ELSE AsDir(ProgramCwd)
    IN  IF IsAbsolute(path) THEN Some(path)
        ELSE IF Len(dir \o path) > PathBuf THEN None
        ELSE Some(dir \o path)

\* libos refuses a path that leaves no room for its terminator.
Usable(resolved) == resolved.some /\ Len(resolved.val) < PathBuf

-----------------------------------------------------------------------------
(* The commands.                                                           *)

Init ==
    /\ ENV = [i \in EnvIdx |-> FreeVar]
    /\ phase = "start"
    /\ reply = [op |-> "none"]
    /\ exported = FALSE

\* run's first call.
Run ==
    /\ phase = "start" /\ phase' = "running"
    /\ SetEnv(CwdKey, Slash)
    /\ UNCHANGED exported

Export(key, val) ==
    /\ phase = "running"
    /\ SetEnv(key, val)
    /\ exported' = (exported \/ key = CwdKey)
    /\ UNCHANGED phase

\* set_cwd.
Cd(dir) ==
    /\ phase = "running"
    /\ SetEnv(CwdKey, NewCwd(dir))
    /\ UNCHANGED <<phase, exported>>

\* A file after < or > is resolved.  A panic in a program spins for ever.
Redirect(path) ==
    /\ phase = "running"
    /\ phase' = IF ResolvePanics(path) THEN "panicked" ELSE phase
    /\ reply' = [op |-> "path"]
    /\ UNCHANGED <<ENV, exported>>

Next ==
    \/ Run
    \/ \E k \in Keys, v \in Vals : Export(k, v)
    \/ \E d \in Dirs : Cd(d)
    \/ \E f \in Files : Redirect(f)

Spec == Init /\ [][Next]_envVars

-----------------------------------------------------------------------------
(* Properties.                                                             *)

\* Used entries come first and hold different names; nothing exceeds its array.
TypeOK ==
    /\ DOMAIN ENV = EnvIdx
    /\ \A i \in EnvIdx : Len(ENV[i].key) <= MaxKeyLen /\ Len(ENV[i].val) <= MaxValLen
    /\ \A i \in EnvIdx : ENV[i].key # << >> => \A j \in 1 .. i - 1 : ENV[j].key \notin {<< >>, ENV[i].key}

\* What a started program finds under a name is what the shell would expand it
\* to; a name is missing only if the string had no room for all of them, and
\* CWD is never missing.
ProgramsAgreeWithShell ==
    \A k \in Keys \ {<< >>} :
        LET size[n \in 0 .. MaxEnvVars] ==
                IF n = 0 THEN 0
                ELSE size[n - 1] + IF ENV[n].key = << >> THEN 0 ELSE PairLen(ENV[n])
        IN  \/ InEnvStr(k) = GetEnv(k)
            \/ InEnvStr(k) = None /\ k # CwdKey /\ size[MaxEnvVars] > MaxEnvLen

\* cat f and cat < f open the same file: the programs' resolution and the
\* shell's name one path or are both refused, as long as CWD is not empty.
ProgramsResolveLikeShell ==
    phase = "running" /\ GetEnv(CwdKey) # Some(<< >>) =>
        \A f \in Files :
            IF Usable(ShellResolve(f)) THEN ProgramResolve(f) = ShellResolve(f)
            ELSE ~Usable(ProgramResolve(f))

\* The shell panics over a path only where a user has exported CWD: no sequence
\* of cd's empties the working directory.
PanicsOnlyAfterExport == phase = "panicked" => exported

\* The text a position of a line contributes to its expansion.
InName(raw, i) ==
    \E j \in 1 .. i - 1 : raw[j] = "$" /\ \A n \in j + 1 .. i : raw[n] \in NameChars

Contribution(raw, i) ==
    IF raw[i] = "$" /\ NameAt(raw, i + 1) # << >> THEN ValueOf(NameAt(raw, i + 1))
    ELSE IF InName(raw, i) THEN << >>
    ELSE <<raw[i]>>

\* Every $NAME is replaced by its value, once and whatever the value looks like,
\* and everything else stays, up to the end of the buffer.
ExpansionIsSubstitution ==
    \A raw \in RawLines :
        LET upTo[n \in 0 .. Len(raw)] ==
                IF n = 0 THEN << >> ELSE upTo[n - 1] \o Contribution(raw, n)
        IN  ExpandLine(raw) = Clamped(upTo[Len(raw)], MaxExpanded)

\* cd d, then f, is the path d/f: unless cd is refused, whatever was a path
\* before through d is one now without it, none cut short by a buffer.
CdThenNameIsPath ==
    [][ \A d \in Dirs :
          /\ Cd(d) /\ reply'.outcome = "ok"
          /\ GetEnv(CwdKey) # Some(<< >>)
          /\ d # << >> /\ ~EndsInSlash(WithoutSlash(d))
          => \A f \in Files :
                ~IsAbsolute(f) /\ Usable(ShellResolve(AsDir(d) \o f)) =>
                    ShellResolve(f)' = ShellResolve(AsDir(d) \o f)
      ]_envVars

-----------------------------------------------------------------------------
(* The array implements the table of EnvTable.                              *)

Table == INSTANCE EnvTable WITH
    Capacity <- MaxEnvVars, KeyLimit <- MaxKeyLen, ValLimit <- MaxValLen,
    table    <- [k \in {ENV[i].key : i \in EnvIdx} \ {<< >>} |-> GetEnv(k).val],
    answer   <- reply

\* Setting a variable reaches the one it names and no other, fails only for
\* length or want of room, and a failure changes nothing.
EnvIsTable == Table!Spec
=============================================================================
