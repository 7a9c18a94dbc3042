-------------------------- MODULE EnvironmentProofs --------------------------
(***************************************************************************)
(* Machine-checked facts about the shell's variables, for every size of the *)
(* array and of its buffers and every sequence of commands: the array is a   *)
(* table, the string programs are started with agrees with it, and so do    *)
(* the paths the shell and the programs resolve.                            *)
(***************************************************************************)
EXTENDS Environment, NatFacts, SequenceTheorems, FiniteSetTheorems

Text == Seq(Char)

EnvVar == [key : Text, val : Text]

-----------------------------------------------------------------------------
(* Helpers on indices and text.                                            *)

\* A scan from the front stops at the first hit.
LEMMA FirstIdxProperties ==
    ASSUME NEW S \in SUBSET Nat, S # {}
    PROVE  FirstIdx(S) \in S /\ \A j \in S : FirstIdx(S) <= j
<1>1. \E i \in S : \A j \in S : i <= j
  BY LeastElement
<1>2. QED
  BY <1>1 DEF FirstIdx

\* Text is cut to a buffer's length and no further.
LEMMA ClampedProperties ==
    ASSUME NEW s \in Text, NEW n \in Nat
    PROVE  /\ Clamped(s, n) \in Text
           /\ Len(Clamped(s, n)) = Smaller(Len(s), n)
           /\ \A i \in 1 .. Smaller(Len(s), n) : Clamped(s, n)[i] = s[i]
           /\ Len(s) <= n => Clamped(s, n) = s
<1> DEFINE m == Smaller(Len(s), n)
<1>1. Len(s) \in Nat /\ m \in 0 .. Len(s)
  BY LenProperties DEF Smaller, Text
<1>2. \A i \in 1 .. m : s[i] \in Char
  BY <1>1, ElementOfSeq DEF Text
<1>3. /\ SubSeq(s, 1, m) \in Seq(Char)
      /\ Len(SubSeq(s, 1, m)) = IF 1 <= m THEN m - 1 + 1 ELSE 0
      /\ \A i \in 1 .. m - 1 + 1 : SubSeq(s, 1, m)[i] = s[1 + i - 1]
  BY <1>1, <1>2, SubSeqProperties, Z3
<1> HIDE DEF m
<1>4. Len(SubSeq(s, 1, m)) = m /\ \A i \in 1 .. m : SubSeq(s, 1, m)[i] = s[i]
  BY <1>1, <1>3
<1>5. Len(s) <= n => SubSeq(s, 1, m) = s
  <2>1. Len(s) <= n => m = Len(s)
    BY <1>1 DEF m, Smaller
  <2>2. m = Len(s) => SubSeq(s, 1, m) = s
    BY <1>3, <1>4, SeqEqual DEF Text
  <2>3. QED
    BY <2>1, <2>2
<1>6. QED
  BY <1>3, <1>4, <1>5 DEF Clamped, m, Text

\* A directory gets a slash behind it, and one is taken away again, except where
\* nothing else is there.
LEMMA SlashProperties ==
    ASSUME NEW s \in Text
    PROVE  /\ AsDir(s) \in Text /\ Len(AsDir(s)) \in {Len(s), Len(s) + 1}
           /\ s # << >> => Len(s) > 0 /\ AsDir(s) # << >>
           /\ WithoutSlash(s) \in Text /\ Len(WithoutSlash(s)) <= Len(s)
           /\ s # << >> => WithoutSlash(s) # << >>
<1>1. Len(s) \in Nat /\ (s # << >> => Len(s) > 0)
  BY EmptySeq, LenProperties DEF Text
<1>2. Slash \in Text /\ Len(Slash) = 1
  BY EnvironmentTypes DEF Slash, Text
<1>3. s \o Slash \in Text /\ Len(s \o Slash) = Len(s) + 1
  <2>1. s \in Seq(Char) /\ Slash \in Seq(Char)
    BY <1>2 DEF Text
  <2>2. s \o Slash \in Seq(Char) /\ Len(s \o Slash) = Len(s) + Len(Slash)
    BY <2>1, ConcatProperties
  <2>3. QED
    BY <1>2, <2>2 DEF Text
<1>4. AsDir(s) \in Text /\ Len(AsDir(s)) \in {Len(s), Len(s) + 1}
  BY <1>1, <1>3 DEF AsDir
<1>5. s # << >> => AsDir(s) # << >>
  BY <1>1, <1>3 DEF AsDir
<1>6. CASE Len(s) > 1 /\ EndsInSlash(s)
  <2>1. \A i \in 1 .. Len(s) - 1 : s[i] \in Char
    BY <1>1, ElementOfSeq DEF Text
  <2>2. /\ SubSeq(s, 1, Len(s) - 1) \in Text
        /\ Len(SubSeq(s, 1, Len(s) - 1)) = Len(s) - 1
    BY <1>1, <1>6, <2>1, SubSeqProperties DEF Text
  <2>3. WithoutSlash(s) \in Text /\ Len(WithoutSlash(s)) = Len(s) - 1
    BY <1>6, <2>2 DEF WithoutSlash
  <2>4. WithoutSlash(s) # << >>
    BY <1>1, <1>6, <2>3
  <2>5. QED
    BY <1>1, <1>4, <1>5, <2>3, <2>4
<1>7. CASE ~(Len(s) > 1 /\ EndsInSlash(s))
  BY <1>1, <1>4, <1>5, <1>7 DEF WithoutSlash
<1>8. QED
  BY <1>6, <1>7

-----------------------------------------------------------------------------
(* The inductive invariant.                                                *)

\* CWD is the first variable from the start and, where no one has exported it,
\* not empty.
CwdKept ==
    IF phase = "start" THEN \A i \in EnvIdx : ENV[i] = FreeVar
    ELSE ENV[1].key = CwdKey /\ (ENV[1].val = << >> => exported)

EnvInv ==
    /\ ENV \in [EnvIdx -> EnvVar]
    /\ phase \in {"start", "running", "panicked"}
    /\ TypeOK
    /\ CwdKept
    /\ PanicsOnlyAfterExport

\* No two entries in use have one name, and behind a free entry none is in use.
LEMMA EntriesDistinct ==
    ASSUME ENV \in [EnvIdx -> EnvVar], TypeOK
    PROVE  /\ \A i, j \in EnvIdx : ENV[i].key = ENV[j].key /\ ENV[i].key # << >> => i = j
           /\ \A i, j \in EnvIdx : ENV[i].key = << >> /\ i < j => ENV[j].key = << >>
<1>1. MaxEnvVars \in Nat
  BY EnvironmentSizes
<1>2. ASSUME NEW i \in EnvIdx, NEW j \in EnvIdx, i < j, ENV[j].key # << >>
      PROVE  ENV[i].key # ENV[j].key /\ ENV[i].key # << >>
  <2>1. i \in 1 .. j - 1
    BY <1>1, <1>2 DEF EnvIdx
  <2>2. QED
    BY <1>2, <2>1 DEF TypeOK
<1>3. \A i, j \in EnvIdx : i = j \/ i < j \/ j < i
  BY <1>1 DEF EnvIdx
<1>4. QED
  BY <1>2, <1>3

\* What get_env finds is the one entry of that name.
LEMMA GetEnvProperties ==
    ASSUME ENV \in [EnvIdx -> EnvVar], TypeOK
    PROVE  /\ \A i \in EnvIdx : ENV[i].key # << >> =>
                  /\ Holding(ENV[i].key) = {i} /\ FirstIdx(Holding(ENV[i].key)) = i
                  /\ GetEnv(ENV[i].key) = Some(ENV[i].val)
           /\ \A key : (\A i \in EnvIdx : ENV[i].key # key) => GetEnv(key) = None
           /\ \A key : Holding(key) # {} =>
                  /\ FirstIdx(Holding(key)) \in EnvIdx
                  /\ ENV[FirstIdx(Holding(key))].key = key
                  /\ \A j \in EnvIdx : j < FirstIdx(Holding(key)) => ENV[j].key # key
<1>1. EnvIdx \in SUBSET Nat
  BY EnvironmentSizes DEF EnvIdx
<1>2. ASSUME NEW key, Holding(key) # {}
      PROVE  /\ FirstIdx(Holding(key)) \in EnvIdx
             /\ ENV[FirstIdx(Holding(key))].key = key
             /\ \A j \in EnvIdx : j < FirstIdx(Holding(key)) => ENV[j].key # key
  <2>1. Holding(key) \in SUBSET Nat
    BY <1>1 DEF Holding
  <2>2. /\ FirstIdx(Holding(key)) \in Holding(key)
        /\ \A j \in Holding(key) : FirstIdx(Holding(key)) <= j
    BY <1>2, <2>1, FirstIdxProperties
  <2>3. \A j \in EnvIdx : j < FirstIdx(Holding(key)) => j \notin Holding(key)
    BY <1>1, <2>1, <2>2
  <2>4. QED
    BY <2>2, <2>3 DEF Holding
<1>3. ASSUME NEW i \in EnvIdx, ENV[i].key # << >>
      PROVE  /\ Holding(ENV[i].key) = {i} /\ FirstIdx(Holding(ENV[i].key)) = i
             /\ GetEnv(ENV[i].key) = Some(ENV[i].val)
  <2>1. Holding(ENV[i].key) = {i}
    BY <1>3, EntriesDistinct DEF Holding
  <2>2. FirstIdx({i}) = i
    BY <1>1, FirstIdxProperties
  <2>3. QED
    BY <2>1, <2>2 DEF GetEnv
<1>4. QED
  BY <1>2, <1>3 DEF GetEnv, Holding

\* Where set_env puts a variable it takes.
LEMMA StoredProperties ==
    ASSUME ENV \in [EnvIdx -> EnvVar], TypeOK, NEW key \in Text, NEW val \in Text,
           Outcome(key, val) = "ok"
    PROVE  \E i \in EnvIdx :
              /\ Stored(key, val) = [ENV EXCEPT ![i] = [key |-> key, val |-> val]]
              /\ ENV[i].key \in {key, << >>}
              /\ \A j \in EnvIdx : j < i => ENV[j].key \notin {<< >>, key}
              /\ ENV[i].key # key => \A j \in EnvIdx : ENV[j].key # key
              /\ Len(key) <= MaxKeyLen /\ Len(val) <= MaxValLen
<1>1. /\ Len(key) <= MaxKeyLen /\ Len(val) <= MaxValLen
      /\ Holding(key) # {} \/ Holding(<< >>) # {}
  <2>1. Len(key) \in Nat /\ Len(val) \in Nat
    BY LenProperties DEF Text
  <2>2. QED
    BY <2>1, EnvironmentSizes DEF Outcome
<1>2. CASE Holding(key) # {}
  <2> DEFINE i == FirstIdx(Holding(key))
  <2>1. /\ i \in EnvIdx /\ ENV[i].key = key
        /\ \A j \in EnvIdx : j < i => ENV[j].key # key
    BY <1>2, GetEnvProperties
  <2> HIDE DEF i
  <2>2. ENV[i] \in EnvVar
    BY <2>1
  <2>3. [ENV[i] EXCEPT !.val = val] = [key |-> key, val |-> val]
    BY <2>1, <2>2 DEF EnvVar
  <2>4. Stored(key, val) = [ENV EXCEPT ![i] = [key |-> key, val |-> val]]
    BY <1>2, <2>3 DEF Stored, i
  <2>5. \A j \in EnvIdx : j < i => ENV[j].key # << >>
    BY <2>1, EntriesDistinct
  <2>6. QED
    BY <1>1, <2>1, <2>4, <2>5
<1>3. CASE Holding(key) = {}
  <2> DEFINE i == FirstIdx(Holding(<< >>))
  <2>1. /\ i \in EnvIdx /\ ENV[i].key = << >>
        /\ \A j \in EnvIdx : j < i => ENV[j].key # << >>
    BY <1>1, <1>3, GetEnvProperties
  <2>2. Stored(key, val) = [ENV EXCEPT ![i] = [key |-> key, val |-> val]]
    BY <1>1, <1>3 DEF Stored
  <2>3. \A j \in EnvIdx : ENV[j].key # key
    BY <1>3 DEF Holding
  <2>4. QED
    BY <1>1, <2>1, <2>2, <2>3
<1>4. QED
  BY <1>2, <1>3

\* set_env keeps the array in order, and what get_env finds afterwards is what
\* was set under that name and what was there before under every other.
LEMMA SetEnvProperties ==
    ASSUME EnvInv, NEW key \in Text, NEW val \in Text, SetEnv(key, val)
    PROVE  /\ ENV' \in [EnvIdx -> EnvVar] /\ TypeOK'
           /\ Outcome(key, val) # "ok" => ENV' = ENV
           /\ Outcome(key, val) = "ok" =>
                 \E i \in EnvIdx :
                    /\ ENV' = [ENV EXCEPT ![i] = [key |-> key, val |-> val]]
                    /\ ENV[i].key \in {key, << >>}
                    /\ \A j \in EnvIdx : j < i => ENV[j].key \notin {<< >>, key}
                    /\ ENV[i].key # key => \A j \in EnvIdx : ENV[j].key # key
<1>1. ENV \in [EnvIdx -> EnvVar] /\ TypeOK
  BY DEF EnvInv
<1>2. CASE Outcome(key, val) # "ok"
  BY <1>1, <1>2 DEF SetEnv, TypeOK
<1>3. CASE Outcome(key, val) = "ok"
  <2>1. PICK i \in EnvIdx :
              /\ Stored(key, val) = [ENV EXCEPT ![i] = [key |-> key, val |-> val]]
              /\ ENV[i].key \in {key, << >>}
              /\ \A j \in EnvIdx : j < i => ENV[j].key \notin {<< >>, key}
              /\ ENV[i].key # key => \A j \in EnvIdx : ENV[j].key # key
              /\ Len(key) <= MaxKeyLen /\ Len(val) <= MaxValLen
    BY <1>1, <1>3, StoredProperties
  <2> DEFINE e == [key |-> key, val |-> val]
  <2>2. ENV' = [ENV EXCEPT ![i] = e]
    BY <1>3, <2>1 DEF SetEnv
  <2>3. e \in EnvVar /\ e.key = key /\ e.val = val
    BY DEF EnvVar
  <2> HIDE DEF e
  <2>4. /\ ENV' \in [EnvIdx -> EnvVar] /\ ENV'[i] = e
        /\ \A j \in EnvIdx : j # i => ENV'[j] = ENV[j]
    BY <1>1, <2>2, <2>3
  <2>5. TypeOK'
    <3>1. \A j \in EnvIdx : Len(ENV'[j].key) <= MaxKeyLen /\ Len(ENV'[j].val) <= MaxValLen
      BY <1>1, <2>1, <2>3, <2>4 DEF TypeOK
    <3>2. ASSUME NEW j \in EnvIdx, ENV'[j].key # << >>, NEW k \in 1 .. j - 1
          PROVE  ENV'[k].key \notin {<< >>, ENV'[j].key}
      <4>1. k \in EnvIdx /\ k < j /\ MaxEnvVars \in Nat
        BY EnvironmentSizes DEF EnvIdx
      <4>2. CASE j = i
        BY <2>1, <2>3, <2>4, <4>1, <4>2
      <4>3. CASE j # i /\ k # i
        BY <1>1, <2>4, <3>2, <4>3, <4>1 DEF TypeOK
      <4>4. CASE j # i /\ k = i
        <5>1. ENV[j].key # << >> /\ ENV'[j] = ENV[j]
          BY <2>4, <3>2, <4>4
        <5>2. ENV[i].key \notin {<< >>, ENV[j].key}
          BY <1>1, <4>4, <5>1 DEF TypeOK
        <5>3. ENV[i].key = key
          BY <2>1, <5>2
        <5>4. QED
          BY <2>3, <2>4, <4>4, <5>1, <5>2, <5>3
      <4>5. QED
        BY <4>2, <4>3, <4>4
    <3>3. QED
      BY <2>4, <3>1, <3>2 DEF TypeOK
  <2>6. QED
    BY <1>3, <2>1, <2>2, <2>4, <2>5 DEF e
<1>4. QED
  BY <1>2, <1>3

-----------------------------------------------------------------------------
(* The working directory.                                                  *)

\* What set_cwd makes of its argument is text and never empty.
LEMMA NewCwdProperties ==
    ASSUME ENV \in [EnvIdx -> EnvVar], TypeOK, NEW dir \in Text
    PROVE  NewCwd(dir) \in Text /\ NewCwd(dir) # << >>
<1> DEFINE path == IF dir = << >> THEN Slash ELSE dir
           base == IF IsAbsolute(path) THEN << >>
                   ELSE IF GetEnv(CwdKey).some THEN AsDir(Clamped(GetEnv(CwdKey).val, CwdRoom))
                   ELSE Slash
           kept == Clamped(path, CwdRoom - Len(base))
<1>1. /\ Slash \in Text /\ Len(Slash) = 1 /\ Slash # << >> /\ << >> \in Text /\ Len(<< >>) = 0
      /\ Len(CwdKey) > 0 /\ CwdKey # << >>
  BY EnvironmentTypes, EnvironmentSizes DEF Slash, Text
<1>2. path \in Text /\ path # << >> /\ Len(path) \in Nat \ {0}
  <2>1. path \in Text /\ path # << >>
    BY <1>1
  <2>2. QED
    BY <2>1, EmptySeq DEF Text
<1>3. MaxValLen \in Nat \ {0} /\ CwdRoom \in Nat /\ MaxValLen + 1 <= CwdRoom
  BY EnvironmentTypes, EnvironmentSizes DEF CwdRoom
<1> HIDE DEF path
<1>4. base \in Text /\ Len(base) \in Nat /\ Len(base) <= MaxValLen + 1
  <2>1. CASE ~IsAbsolute(path) /\ GetEnv(CwdKey).some
    <3>1. PICK i \in EnvIdx : ENV[i].key = CwdKey
      BY <2>1, GetEnvProperties DEF None
    <3>2. GetEnv(CwdKey).val = ENV[i].val /\ ENV[i] \in EnvVar
      <4>1. GetEnv(CwdKey) = Some(ENV[i].val)
        BY <1>1, <3>1, GetEnvProperties
      <4>2. QED
        BY <4>1 DEF Some
    <3>3. ENV[i].val \in Text /\ Len(ENV[i].val) <= MaxValLen
      BY <3>2 DEF EnvVar, TypeOK
    <3>4. Len(ENV[i].val) \in Nat
      BY <3>3 DEF Text
    <3>5. Clamped(ENV[i].val, CwdRoom) = ENV[i].val
      <4>1. Len(ENV[i].val) <= CwdRoom
        BY <1>3, <3>3, <3>4
      <4>2. QED
        BY <1>3, <3>3, <4>1, ClampedProperties
    <3>6. base = AsDir(ENV[i].val)
      BY <2>1, <3>2, <3>5
    <3>7. AsDir(ENV[i].val) \in Text /\ Len(AsDir(ENV[i].val)) \in {Len(ENV[i].val), Len(ENV[i].val) + 1}
      BY <3>3, SlashProperties
    <3>8. QED
      BY <1>3, <3>3, <3>4, <3>6, <3>7
  <2>2. CASE ~(~IsAbsolute(path) /\ GetEnv(CwdKey).some)
    <3>1. base \in {<< >>, Slash}
      BY <2>2
    <3>2. base \in Text /\ (Len(base) = 0 \/ Len(base) = 1)
      BY <1>1, <3>1
    <3> HIDE DEF base
    <3>3. 0 <= MaxValLen + 1 /\ 1 <= MaxValLen + 1
      BY <1>3
    <3>4. Len(base) \in Nat
      BY <3>2
    <3>5. Len(base) <= MaxValLen + 1
      BY <3>2, <3>3
    <3>6. QED
      BY <3>2, <3>4, <3>5
  <2>3. QED
    BY <2>1, <2>2
<1>5. CwdRoom - Len(base) \in Nat
  BY <1>3, <1>4
<1>6. base = << >> => CwdRoom - Len(base) >= 1
  BY <1>1, <1>3
<1> HIDE DEF base
<1>7. kept \in Text /\ Len(kept) = Smaller(Len(path), CwdRoom - Len(base))
  BY <1>2, <1>5, ClampedProperties
<1>8. base \o kept \in Text /\ Len(base \o kept) = Len(base) + Len(kept)
  <2>1. base \in Seq(Char) /\ kept \in Seq(Char)
    BY <1>4, <1>7 DEF Text
  <2> HIDE DEF kept
  <2>2. QED
    BY <2>1, ConcatProperties DEF Text
<1>9. base \o kept # << >>
  <2>1. Len(base) # 0 \/ Len(kept) # 0
    <3>1. CASE base = << >>
      BY <1>2, <1>5, <1>6, <1>7, <3>1 DEF Smaller
    <3>2. CASE base # << >>
      BY <1>4, <3>2, EmptySeq DEF Text
    <3>3. QED
      BY <3>1, <3>2
  <2>2. Len(kept) \in Nat
    BY <1>7 DEF Text
  <2>3. Len(base \o kept) # 0
    BY <1>4, <1>8, <2>1, <2>2
  <2>4. QED
    BY <1>1, <2>3
<1>10. NewCwd(dir) = WithoutSlash(base \o kept)
  BY DEF NewCwd, base, path
<1>11. QED
  BY <1>8, <1>9, <1>10, SlashProperties

-----------------------------------------------------------------------------
(* The invariant.                                                          *)

\* The array is empty at boot.
LEMMA InitEnvInv == Init => EnvInv
<1> SUFFICES ASSUME Init PROVE EnvInv
  OBVIOUS
<1>1. ENV = [i \in EnvIdx |-> FreeVar] /\ phase = "start"
  BY DEF Init
<1>2. FreeVar \in EnvVar /\ Len(<< >>) = 0 /\ FreeVar.key = << >> /\ FreeVar.val = << >>
  BY EmptySeq DEF FreeVar, EnvVar, Text
<1>3. TypeOK
  BY <1>1, <1>2, EnvironmentSizes DEF TypeOK
<1>4. QED
  BY <1>1, <1>2, <1>3 DEF EnvInv, CwdKept, PanicsOnlyAfterExport

\* A command that sets a variable keeps the invariant, and CWD is not emptied
\* but by an export.
LEMMA SetKeepsInv ==
    ASSUME EnvInv, NEW key \in Text, NEW val \in Text, SetEnv(key, val),
           \/ phase = "start" /\ phase' = "running" /\ key = CwdKey /\ val = Slash
           \/ phase = "running" /\ phase' = phase,
           exported => exported', key = CwdKey /\ val = << >> => exported'
    PROVE  EnvInv'
<1>1. 1 \in EnvIdx /\ \A j \in EnvIdx : j = 1 \/ 1 < j
  BY EnvironmentSizes DEF EnvIdx
<1>2. CwdKey \in Text /\ CwdKey # << >> /\ Slash # << >>
  BY EnvironmentTypes, EnvironmentSizes DEF Text, Slash
<1>3. ENV' \in [EnvIdx -> EnvVar] /\ TypeOK'
  BY SetEnvProperties
<1>4. phase' = "running" /\ PanicsOnlyAfterExport'
  BY DEF PanicsOnlyAfterExport
<1>5. CwdKept'
  <2>1. CASE phase = "start"
    <3>1. \A i \in EnvIdx : ENV[i] = FreeVar
      BY <2>1 DEF EnvInv, CwdKept
    <3>2. Holding(<< >>) # {} /\ Holding(key) = {}
      BY <1>1, <1>2, <2>1, <3>1 DEF Holding, FreeVar
    <3>3. Len(CwdKey) <= MaxKeyLen /\ Len(Slash) <= MaxValLen /\ Len(CwdKey) \in Nat
      BY <1>2, EnvironmentSizes DEF Slash, Text
    <3>4. Outcome(key, val) = "ok"
      <4>1. /\ Len(key) \in Nat /\ Len(val) \in Nat /\ MaxKeyLen \in Nat /\ MaxValLen \in Nat
            /\ Len(key) <= MaxKeyLen /\ Len(val) <= MaxValLen
        BY <2>1, <3>3, EnvironmentSizes, LenProperties DEF Text
      <4>2. QED
        BY <3>2, <4>1 DEF Outcome
    <3>5. PICK i \in EnvIdx :
             /\ ENV' = [ENV EXCEPT ![i] = [key |-> key, val |-> val]]
             /\ \A j \in EnvIdx : j < i => ENV[j].key \notin {<< >>, key}
      BY <3>4, SetEnvProperties
    <3>6. i = 1
      BY <1>1, <3>1, <3>5 DEF FreeVar
    <3>7. ENV'[1] = [key |-> CwdKey, val |-> Slash]
      BY <1>1, <2>1, <3>5, <3>6 DEF EnvInv
    <3>8. QED
      BY <1>2, <1>4, <3>7 DEF CwdKept
  <2>2. CASE phase = "running"
    <3>1. ENV[1].key = CwdKey /\ (ENV[1].val = << >> => exported)
      BY <2>2 DEF EnvInv, CwdKept
    <3>2. CASE Outcome(key, val) # "ok"
      <4>1. ENV' = ENV
        BY <3>2, SetEnvProperties
      <4>2. QED
        BY <1>4, <3>1, <4>1 DEF CwdKept
    <3>3. CASE Outcome(key, val) = "ok"
      <4>1. PICK i \in EnvIdx :
               /\ ENV' = [ENV EXCEPT ![i] = [key |-> key, val |-> val]]
               /\ ENV[i].key \in {key, << >>}
        BY <3>3, SetEnvProperties
      <4>2. CASE i = 1
        <5>1. ENV'[1] = [key |-> key, val |-> val] /\ key = CwdKey
          BY <1>1, <1>2, <3>1, <4>1, <4>2 DEF EnvInv
        <5>2. QED
          BY <1>4, <5>1 DEF CwdKept
      <4>3. CASE i # 1
        <5>1. ENV'[1] = ENV[1]
          BY <1>1, <4>1, <4>3 DEF EnvInv
        <5>2. QED
          BY <1>4, <3>1, <5>1 DEF CwdKept
      <4>4. QED
        BY <4>2, <4>3
    <3>4. QED
      BY <3>2, <3>3
  <2>3. QED
    BY <2>1, <2>2
<1>6. QED
  BY <1>3, <1>4, <1>5 DEF EnvInv

\* Every command keeps the invariant.
LEMMA StepEnvInv == EnvInv /\ [Next]_envVars => EnvInv'
<1> SUFFICES ASSUME EnvInv, [Next]_envVars PROVE EnvInv'
  OBVIOUS
<1>1. CwdKey \in Text /\ CwdKey # << >> /\ Slash \in Text /\ Slash # << >>
  BY EnvironmentTypes, EnvironmentSizes DEF Text, Slash
<1>2. CASE Run
  BY <1>1, <1>2, SetKeepsInv DEF Run
<1>3. ASSUME NEW k \in Keys, NEW v \in Vals, Export(k, v) PROVE EnvInv'
  <2>1. k \in Text /\ v \in Text
    BY EnvironmentTypes DEF Text
  <2>2. QED
    BY <1>3, <2>1, SetKeepsInv DEF Export
<1>4. ASSUME NEW d \in Dirs, Cd(d) PROVE EnvInv'
  <2>1. d \in Text
    BY EnvironmentTypes DEF Text
  <2>2. NewCwd(d) \in Text /\ NewCwd(d) # << >>
    BY <2>1, NewCwdProperties DEF EnvInv
  <2>3. QED
    BY <1>1, <1>4, <2>2, SetKeepsInv DEF Cd
<1>5. ASSUME NEW f \in Files, Redirect(f) PROVE EnvInv'
  <2>1. phase = "running" /\ phase' \in {phase, "panicked"} /\ UNCHANGED <<ENV, exported>>
    BY <1>5 DEF Redirect
  <2>2. ENV[1].key = CwdKey /\ (ENV[1].val = << >> => exported)
    BY <2>1 DEF EnvInv, CwdKept
  <2>3. GetEnv(CwdKey) = Some(ENV[1].val)
    <3>1. 1 \in EnvIdx
      BY EnvironmentSizes DEF EnvIdx
    <3>2. QED
      BY <1>1, <2>2, <3>1, GetEnvProperties DEF EnvInv
  <2>4. phase' = "panicked" => exported'
    <3>1. ASSUME phase' = "panicked" PROVE ENV[1].val = << >>
      <4>1. GetEnv(CwdKey) = Some(<< >>)
        BY <1>5, <2>1, <3>1 DEF Redirect, ResolvePanics
      <4>2. QED
        BY <2>3, <4>1 DEF Some
    <3>2. QED
      BY <2>1, <2>2, <3>1
  <2>5. QED
    BY <2>1, <2>2, <2>4 DEF EnvInv, CwdKept, TypeOK, PanicsOnlyAfterExport
<1>6. CASE UNCHANGED envVars
  BY <1>6 DEF envVars, EnvInv, CwdKept, TypeOK, PanicsOnlyAfterExport
<1>7. QED
  BY <1>2, <1>3, <1>4, <1>5, <1>6 DEF Next

-----------------------------------------------------------------------------
(* The theorems.                                                           *)

\* No sequence of commands breaks the invariant.
THEOREM EnvInvariance == Spec => []EnvInv
  BY InitEnvInv, StepEnvInv, PTL DEF Spec

\* The entries in use come first, under different names, within their buffers.
THEOREM EnvTypeCorrectness == Spec => []TypeOK
<1>1. EnvInv => TypeOK
  BY DEF EnvInv
<1>2. QED
  BY <1>1, EnvInvariance, PTL

\* No sequence of cd's empties the working directory, so the shell does not
\* panic over a path unless a user has exported CWD.
THEOREM PanicNeedsExport == Spec => []PanicsOnlyAfterExport
<1>1. EnvInv => PanicsOnlyAfterExport
  BY DEF EnvInv
<1>2. QED
  BY <1>1, EnvInvariance, PTL

-----------------------------------------------------------------------------
(* The array is a table.                                                   *)

\* The table that Table reads off ENV.
Vars == [k \in {ENV[i].key : i \in EnvIdx} \ {<< >>} |-> GetEnv(k).val]

\* It holds every used entry's value under its name.
VarsAreEntries ==
    /\ DOMAIN Vars = {ENV[i].key : i \in EnvIdx} \ {<< >>}
    /\ \A i \in EnvIdx : ENV[i].key # << >> => Vars[ENV[i].key] = ENV[i].val
    /\ Vars = [k \in DOMAIN Vars |-> Vars[k]]

LEMMA VarsProperties == EnvInv => VarsAreEntries
<1> SUFFICES ASSUME EnvInv PROVE VarsAreEntries
  OBVIOUS
<1>1. \A i \in EnvIdx : ENV[i].key # << >> => GetEnv(ENV[i].key).val = ENV[i].val
  <2>1. \A i \in EnvIdx : ENV[i].key # << >> => GetEnv(ENV[i].key) = Some(ENV[i].val)
    BY GetEnvProperties DEF EnvInv
  <2>2. \A s : Some(s).val = s
    BY DEF Some
  <2>3. QED
    BY <2>1, <2>2
<1>2. QED
  BY <1>1 DEF VarsAreEntries, Vars

\* It has room exactly while an entry is free.
LEMMA RoomIsFreeEntry ==
    ASSUME EnvInv
    PROVE  Cardinality(DOMAIN Vars) < MaxEnvVars <=> Holding(<< >>) # {}
<1>1. MaxEnvVars \in Nat /\ EnvIdx = 1 .. MaxEnvVars
  BY EnvironmentSizes DEF EnvIdx
<1>2. \E n \in 0 .. MaxEnvVars :
         /\ \A i \in EnvIdx : ENV[i].key # << >> <=> i \in 1 .. n
         /\ n < MaxEnvVars <=> Holding(<< >>) # {}
  <2>1. CASE Holding(<< >>) = {}
    BY <1>1, <2>1 DEF Holding
  <2>2. CASE Holding(<< >>) # {}
    <3> DEFINE f == FirstIdx(Holding(<< >>))
    <3>1. /\ f \in EnvIdx /\ ENV[f].key = << >>
          /\ \A j \in EnvIdx : j < f => ENV[j].key # << >>
      BY <2>2, GetEnvProperties DEF EnvInv
    <3> HIDE DEF f
    <3>2. \A j \in EnvIdx : f < j => ENV[j].key = << >>
      BY <3>1, EntriesDistinct DEF EnvInv
    <3>3. f - 1 \in 0 .. MaxEnvVars /\ f - 1 < MaxEnvVars
      BY <1>1, <3>1
    <3>4. \A i \in EnvIdx : ENV[i].key # << >> <=> i \in 1 .. f - 1
      BY <1>1, <3>1, <3>2
    <3>5. QED
      BY <2>2, <3>3, <3>4
  <2>3. QED
    BY <2>1, <2>2
<1>3. PICK n \in 0 .. MaxEnvVars :
         /\ \A i \in EnvIdx : ENV[i].key # << >> <=> i \in 1 .. n
         /\ n < MaxEnvVars <=> Holding(<< >>) # {}
  BY <1>2
<1>4. n \in Nat /\ 1 .. n \subseteq EnvIdx
  BY <1>1
<1> DEFINE keyOf == [i \in 1 .. n |-> ENV[i].key]
<1>5. DOMAIN Vars = {ENV[i].key : i \in 1 .. n}
  BY <1>3, <1>4, VarsProperties DEF VarsAreEntries
<1>6. keyOf \in Bijection(1 .. n, DOMAIN Vars)
  <2>1. \A i, j \in 1 .. n : ENV[i].key = ENV[j].key => i = j
    BY <1>3, <1>4, EntriesDistinct DEF EnvInv
  <2>2. QED
    BY <1>5, <2>1 DEF Bijection, Injection, Surjection, IsInjective
<1>7. ExistsBijection(1 .. n, DOMAIN Vars)
  BY <1>6 DEF ExistsBijection
<1>8. Cardinality(DOMAIN Vars) = n
  BY <1>4, <1>7, FS_CountingElements
<1>9. QED
  BY <1>3, <1>8

\* The table counts its variables with the same operator.
LEMMA SameCardinality == \A S : Table!Cardinality(S) = Cardinality(S)
  BY Zenon DEF Table!Cardinality, Cardinality

\* Setting a variable is a step of the table.
LEMMA SetMaps ==
    ASSUME EnvInv, EnvInv', NEW key \in Text, NEW val \in Text, SetEnv(key, val)
    PROVE  Table!Set(key, val)
<1> DEFINE TooLong == Len(key) > MaxKeyLen \/ Len(val) > MaxValLen
           Answers(o) == reply' = [op |-> "set", key |-> key, val |-> val, outcome |-> o]
<1>1. Answers(Outcome(key, val))
  BY DEF SetEnv
<1>2. VarsAreEntries /\ VarsAreEntries'
  BY VarsProperties, PTL
<1>3. Holding(key) # {} /\ key # << >> <=> key \in DOMAIN Vars
  BY <1>2 DEF VarsAreEntries, Holding
<1>4. Table!HasRoom <=> Holding(<< >>) # {}
  <2>1. Cardinality(DOMAIN Vars) < MaxEnvVars <=> Holding(<< >>) # {}
    BY RoomIsFreeEntry
  <2>2. QED
    BY <2>1, SameCardinality, Zenon DEF Table!HasRoom, Vars
<1>5. CASE Outcome(key, val) # "ok"
  <2>1. Vars' = Vars
    <3>1. ENV' = ENV
      BY <1>5 DEF SetEnv
    <3>2. QED
      BY <3>1 DEF Vars, GetEnv, Holding, FirstIdx
  <2>2. CASE TooLong
    <3>1. Answers("too long")
      BY <1>1, <2>2 DEF Outcome
    <3>2. Table!Refuse(key, val)
      BY <2>1, <2>2, <3>1 DEF Table!Refuse, Table!TooLong, Vars
    <3>3. QED
      BY <3>2 DEF Table!Set
  <2>3. CASE ~TooLong
    <3>1. Answers("too many") /\ Holding(key) = {} /\ Holding(<< >>) = {}
      BY <1>1, <1>5, <2>3 DEF Outcome
    <3>2. key \notin DOMAIN Vars /\ ~Table!HasRoom
      BY <1>3, <1>4, <3>1
    <3>3. key \notin {ENV[i].key : i \in EnvIdx} \ {<< >>}
      BY <1>2, <3>2 DEF VarsAreEntries
    <3>4. Table!Refuse(key, val)
      BY <2>1, <2>3, <3>1, <3>2, <3>3 DEF Table!Refuse, Table!TooLong, Vars
    <3>5. QED
      BY <3>4 DEF Table!Set
  <2>4. QED
    BY <2>2, <2>3
<1>6. CASE Outcome(key, val) = "ok"
  <2>1. Answers("ok") /\ ~TooLong /\ (Holding(key) # {} \/ Holding(<< >>) # {})
    BY <1>1, <1>6 DEF Outcome
  <2>2. PICK i \in EnvIdx :
           /\ ENV' = [ENV EXCEPT ![i] = [key |-> key, val |-> val]]
           /\ ENV[i].key \in {key, << >>}
           /\ ENV[i].key # key => \A j \in EnvIdx : ENV[j].key # key
    BY <1>6, SetEnvProperties
  <2>3. /\ ENV'[i].key = key /\ ENV'[i].val = val
        /\ \A j \in EnvIdx : j # i => ENV'[j] = ENV[j]
    BY <2>2 DEF EnvInv
  <2>4. /\ DOMAIN Vars = {ENV[j].key : j \in EnvIdx} \ {<< >>}
        /\ \A j \in EnvIdx : ENV[j].key # << >> => Vars[ENV[j].key] = ENV[j].val
        /\ Vars = [k \in DOMAIN Vars |-> Vars[k]]
        /\ DOMAIN Vars' = {ENV'[j].key : j \in EnvIdx} \ {<< >>}
        /\ \A j \in EnvIdx : ENV'[j].key # << >> => Vars'[ENV'[j].key] = ENV'[j].val
        /\ Vars' = [k \in DOMAIN Vars' |-> Vars'[k]]
    BY <1>2 DEF VarsAreEntries
  <2>5. CASE key # << >>
    <3> HIDE DEF Vars
    <3>1. DOMAIN Vars' = DOMAIN Vars \cup {key}
      <4>1. \A j \in EnvIdx : j # i => ENV'[j].key = ENV[j].key
        BY <2>3
      <4>2. QED
        BY <2>2, <2>3, <2>4, <2>5, <4>1
    <3>2. ASSUME NEW k \in DOMAIN Vars' PROVE Vars'[k] = IF k = key THEN val ELSE Vars[k]
      <4>1. CASE k = key
        BY <2>3, <2>4, <2>5, <4>1
      <4>2. CASE k # key
        <5>1. PICK j \in EnvIdx : ENV'[j].key = k
          BY <2>4, <3>2
        <5>2. j # i /\ ENV'[j] = ENV[j] /\ k # << >>
          BY <2>3, <2>4, <3>2, <4>2, <5>1
        <5>3. QED
          BY <2>4, <4>2, <5>1, <5>2
      <4>3. QED
        BY <4>1, <4>2
    <3>3. Vars' = [n \in DOMAIN Vars \cup {key} |-> IF n = key THEN val ELSE Vars[n]]
      BY <2>4, <3>1, <3>2
    <3>4. key \in DOMAIN Vars \/ Table!HasRoom
      BY <1>3, <1>4, <2>1, <2>5
    <3>5. Table!Assign(key, val)
      BY <2>1, <2>5, <3>3, <3>4, Zenon DEF Table!Assign, Table!Assigned, Table!TooLong, Vars
    <3>6. QED
      BY <3>5 DEF Table!Set
  <2>6. CASE key = << >>
    <3>1. ENV[i].key = << >> /\ ENV'[i].key = << >>
      BY <2>2, <2>3, <2>6
    <3>2. \A j \in EnvIdx : ENV'[j].key = ENV[j].key
      BY <2>3, <3>1
    <3> HIDE DEF Vars
    <3>3. DOMAIN Vars' = DOMAIN Vars
      BY <2>4, <3>2
    <3>4. ASSUME NEW k \in DOMAIN Vars PROVE Vars'[k] = Vars[k]
      <4>1. PICK j \in EnvIdx : ENV[j].key = k
        BY <2>4, <3>4
      <4>2. j # i /\ ENV'[j] = ENV[j] /\ k # << >>
        BY <2>3, <2>4, <3>1, <3>4, <4>1
      <4>3. QED
        BY <2>4, <4>1, <4>2
    <3>5. Vars' = Vars
      BY <2>4, <3>3, <3>4
    <3>6. Table!Swallow(key, val)
      BY <1>4, <2>1, <2>6, <3>5 DEF Table!Swallow, Table!TooLong, Vars
    <3>7. QED
      BY <3>6 DEF Table!Set
  <2>7. QED
    BY <2>5, <2>6
<1>7. QED
  BY <1>5, <1>6

\* Every command is a step of the table, or leaves it alone.
LEMMA StepMaps == EnvInv /\ EnvInv' /\ [Next]_envVars => [Table!Next]_Table!tableVars
<1> SUFFICES ASSUME EnvInv, EnvInv', [Next]_envVars PROVE [Table!Next]_Table!tableVars
  OBVIOUS
<1>1. ASSUME NEW key \in Text, NEW val \in Text, SetEnv(key, val) PROVE Table!Next
  <2>1. Table!Set(key, val)
    BY <1>1, SetMaps
  <2>2. reply'.op = "set" /\ reply'.key = key /\ reply'.val = val
    BY <1>1 DEF SetEnv
  <2>3. QED
    BY <2>1, <2>2
       DEF Table!Next, Table!Set, Table!Assign, Table!Swallow, Table!Refuse
<1>2. CwdKey \in Text /\ Slash \in Text
  BY EnvironmentTypes DEF Text, Slash
<1>3. CASE Run
  BY <1>1, <1>2, <1>3 DEF Run
<1>4. ASSUME NEW k \in Keys, NEW v \in Vals, Export(k, v) PROVE Table!Next
  <2>1. k \in Text /\ v \in Text
    BY EnvironmentTypes DEF Text
  <2>2. QED
    BY <1>1, <1>4, <2>1 DEF Export
<1>5. ASSUME NEW d \in Dirs, Cd(d) PROVE Table!Next
  <2>1. d \in Text
    BY EnvironmentTypes DEF Text
  <2>2. NewCwd(d) \in Text
    BY <2>1, NewCwdProperties DEF EnvInv
  <2>3. QED
    BY <1>1, <1>2, <1>5, <2>2 DEF Cd
<1>6. ASSUME NEW f \in Files, Redirect(f) PROVE Table!Next
  <2>1. ENV' = ENV /\ reply'.op = "path"
    BY <1>6 DEF Redirect
  <2>2. Table!Look
    BY <2>1 DEF Table!Look, GetEnv, Holding, FirstIdx
  <2>3. QED
    BY <2>2 DEF Table!Next
<1>7. CASE UNCHANGED envVars
  BY <1>7 DEF envVars, Table!tableVars, GetEnv, Holding, FirstIdx
<1>8. QED
  BY <1>3, <1>4, <1>5, <1>6, <1>7 DEF Next

\* The array is a table of variables: setting one reaches the one it names and
\* no other, fails only for length or want of room, and then changes nothing.
THEOREM ArrayIsTable == Spec => EnvIsTable
<1>1. Init => Table!Init
  <2> SUFFICES ASSUME Init PROVE Table!Init
    OBVIOUS
  <2>1. {ENV[i].key : i \in EnvIdx} \ {<< >>} = {}
    BY DEF Init, FreeVar
  <2>2. QED
    BY <2>1 DEF Init, Table!Init
<1>2. QED
  BY <1>1, StepMaps, EnvInvariance, PTL DEF Spec, EnvIsTable, Table!Spec

-----------------------------------------------------------------------------
(* The string programs are started with.                                   *)

\* build_env_str at one entry.
Buffer == [pairs : Seq(EnvVar), offset : Nat, stopped : BOOLEAN]
EmptyBuffer == [pairs |-> << >>, offset |-> 0, stopped |-> FALSE]

Build(b, v) ==
    IF b.stopped \/ v.key = << >> THEN b
    ELSE IF b.offset + PairLen(v) > MaxEnvLen THEN [b EXCEPT !.stopped = TRUE]
    ELSE [pairs |-> Append(b.pairs, v), offset |-> b.offset + PairLen(v), stopped |-> FALSE]

LEMMA PairLenIsNat ==
    ASSUME NEW v, v.key \in Seq(Char), v.val \in Seq(Char)
    PROVE  PairLen(v) \in Nat
<1>1. Len(v.key) \in Nat /\ Len(v.val) \in Nat
  BY LenProperties
<1>2. \A m, n \in Nat : m + n + 2 \in Nat
  OBVIOUS
<1>3. QED
  BY <1>1, <1>2, Zenon DEF PairLen

LEMMA BuildProperties ==
    ASSUME NEW b \in Buffer, NEW v \in EnvVar
    PROVE  /\ Build(b, v) \in Buffer
           /\ PairLen(v) \in Nat
           /\ b.stopped \/ v.key = << >> => Build(b, v) = b
           /\ ~b.stopped /\ v.key # << >> /\ b.offset + PairLen(v) > MaxEnvLen =>
                 Build(b, v).pairs = b.pairs /\ Build(b, v).stopped
           /\ ~b.stopped /\ v.key # << >> /\ ~(b.offset + PairLen(v) > MaxEnvLen) =>
                 /\ Build(b, v).pairs = Append(b.pairs, v) /\ ~Build(b, v).stopped
                 /\ Build(b, v).offset = b.offset + PairLen(v)
<1>1. v.key \in Seq(Char) /\ v.val \in Seq(Char)
  BY DEF EnvVar, Text
<1>2. PairLen(v) \in Nat
  BY <1>1, PairLenIsNat
<1>3. Append(b.pairs, v) \in Seq(EnvVar)
  BY AppendProperties DEF Buffer
<1> DEFINE full == [b EXCEPT !.stopped = TRUE]
           more == [pairs |-> Append(b.pairs, v), offset |-> b.offset + PairLen(v), stopped |-> FALSE]
<1>4. full \in Buffer /\ full.pairs = b.pairs /\ full.stopped
  BY DEF Buffer
<1>5. /\ more \in Buffer /\ more.pairs = Append(b.pairs, v) /\ ~more.stopped
      /\ more.offset = b.offset + PairLen(v)
  <2>1. b.offset + PairLen(v) \in Nat
    BY <1>2 DEF Buffer
  <2>2. QED
    BY <1>3, <2>1 DEF Buffer
<1>6. Build(b, v) = IF b.stopped \/ v.key = << >> THEN b
                    ELSE IF b.offset + PairLen(v) > MaxEnvLen THEN full ELSE more
  BY DEF Build
<1> HIDE DEF full, more
<1>7. CASE b.stopped \/ v.key = << >>
  BY <1>2, <1>6, <1>7
<1>8. CASE ~(b.stopped \/ v.key = << >>) /\ b.offset + PairLen(v) > MaxEnvLen
  BY <1>2, <1>4, <1>6, <1>8
<1>9. CASE ~(b.stopped \/ v.key = << >>) /\ ~(b.offset + PairLen(v) > MaxEnvLen)
  BY <1>2, <1>5, <1>6, <1>9
<1>10. QED
  BY <1>7, <1>8, <1>9

\* The string is built up entry by entry.
LEMMA EnvStrIsScan ==
    ASSUME ENV \in [EnvIdx -> EnvVar]
    PROVE  \E f \in [0 .. MaxEnvVars -> Buffer] :
              /\ f[0] = EmptyBuffer
              /\ \A n \in EnvIdx : f[n] = Build(f[n - 1], ENV[n])
              /\ EnvStr = f[MaxEnvVars].pairs
<1> DEFINE N == MaxEnvVars
           built == CHOOSE f : f = [n \in 0 .. N |->
                IF n = 0 THEN [pairs |-> << >>, offset |-> 0, stopped |-> FALSE]
                ELSE LET b == f[n - 1] v == ENV[n]
                     IN  IF b.stopped \/ v.key = << >> THEN b
                         ELSE IF b.offset + PairLen(v) > MaxEnvLen THEN [b EXCEPT !.stopped = TRUE]
                         ELSE [pairs |-> Append(b.pairs, v), offset |-> b.offset + PairLen(v), stopped |-> FALSE]]
           step == [x \in (1 .. N) \X Buffer |-> Build(x[2], ENV[x[1]])]
<1>1. N \in Nat /\ EnvIdx = 1 .. N /\ \A n \in 0 .. N : n # 0 => n \in 1 .. N
  BY EnvironmentSizes DEF EnvIdx
<1>2. EmptyBuffer \in Buffer
  BY EmptySeq DEF Buffer, EmptyBuffer
<1>3. step \in Steps(N, Buffer)
  BY <1>1, BuildProperties DEF Steps
<1>4. EnvStr = built[N].pairs
  BY DEF EnvStr
<1> HIDE DEF N
<1>5. PICK f : Recurs(f, N, Buffer, EmptyBuffer, step)
  <2> HIDE DEF step
  <2>1. QED
    BY <1>1, <1>2, <1>3, Recursion
<1>6. f \in [0 .. N -> Buffer] /\ f[0] = EmptyBuffer /\ \A n \in 1 .. N : f[n] = step[<<n, f[n - 1]>>]
  BY <1>5 DEF Recurs
<1>7. \A n \in 1 .. N : f[n] = Build(f[n - 1], ENV[n])
  <2>1. \A n \in 1 .. N : n - 1 \in 0 .. N
    BY <1>1
  <2>2. \A n \in 1 .. N : <<n, f[n - 1]>> \in (1 .. N) \X Buffer
    BY <1>6, <2>1
  <2>3. QED
    BY <1>6, <2>2
<1>8. f = [n \in 0 .. N |-> IF n = 0 THEN EmptyBuffer ELSE Build(f[n - 1], ENV[n])]
  <2> HIDE DEF step
  <2>1. \A n \in 0 .. N : f[n] = IF n = 0 THEN EmptyBuffer ELSE Build(f[n - 1], ENV[n])
    BY <1>1, <1>6, <1>7
  <2>2. QED
    BY <1>6, <2>1
<1>9. built = [n \in 0 .. N |-> IF n = 0 THEN EmptyBuffer ELSE Build(built[n - 1], ENV[n])]
  BY <1>8, Zenon DEF EmptyBuffer, Build
<1> HIDE DEF built, step
<1>10. built[0] = EmptyBuffer /\ \A n \in 1 .. N : built[n] = Build(built[n - 1], ENV[n])
  BY <1>1, <1>9
<1> DEFINE S == {n \in Nat : built[n] \in Buffer}
<1>11. 0 \in S
  BY <1>2, <1>10
<1>12. ASSUME NEW n \in 0 .. N - 1, n \in S PROVE n + 1 \in S
  <2>1. n + 1 \in 1 .. N /\ n + 1 \in Nat /\ (n + 1) - 1 = n
    BY <1>1
  <2>2. built[n + 1] = Build(built[n], ENV[n + 1]) /\ ENV[n + 1] \in EnvVar
    BY <1>1, <1>10, <2>1
  <2>3. QED
    BY <1>12, <2>1, <2>2, BuildProperties
<1> HIDE DEF S
<1>13. \A n \in 0 .. N : n \in S
  BY <1>1, <1>11, <1>12, BoundedInduction
<1>14. built \in [0 .. N -> Buffer]
  BY <1>9, <1>13 DEF S
<1>15. QED
  BY <1>1, <1>4, <1>10, <1>14 DEF N

\* The room all variables together would take, the running total of the
\* property ProgramsAgreeWithShell.
Taken(v) == IF v.key = << >> THEN 0 ELSE PairLen(v)

LEMMA TotalIsScan ==
    ASSUME ENV \in [EnvIdx -> EnvVar]
    PROVE  \E f \in [0 .. MaxEnvVars -> Nat] :
              /\ f[0] = 0
              /\ \A n \in EnvIdx : f[n] = f[n - 1] + Taken(ENV[n])
              /\ f = CHOOSE size : size = [n \in 0 .. MaxEnvVars |->
                        IF n = 0 THEN 0
                        ELSE size[n - 1] + IF ENV[n].key = << >> THEN 0 ELSE PairLen(ENV[n])]
<1> DEFINE N == MaxEnvVars
           total == CHOOSE size : size = [n \in 0 .. N |->
                        IF n = 0 THEN 0
                        ELSE size[n - 1] + IF ENV[n].key = << >> THEN 0 ELSE PairLen(ENV[n])]
           step == [x \in (1 .. N) \X Nat |-> x[2] + Taken(ENV[x[1]])]
<1>1. N \in Nat /\ EnvIdx = 1 .. N /\ \A n \in 0 .. N : n # 0 => n \in 1 .. N
  BY EnvironmentSizes DEF EnvIdx
<1>2. \A n \in 1 .. N : Taken(ENV[n]) \in Nat
  <2>1. \A n \in 1 .. N : ENV[n].key \in Seq(Char) /\ ENV[n].val \in Seq(Char)
    BY <1>1 DEF EnvVar, Text
  <2>2. QED
    BY <2>1, PairLenIsNat DEF Taken
<1>3. step \in Steps(N, Nat)
  BY <1>1, <1>2 DEF Steps
<1> HIDE DEF N
<1>4. PICK f : Recurs(f, N, Nat, 0, step)
  <2> HIDE DEF step
  <2>1. 0 \in Nat
    OBVIOUS
  <2>2. QED
    BY <1>1, <1>3, <2>1, Recursion
<1>5. f \in [0 .. N -> Nat] /\ f[0] = 0 /\ \A n \in 1 .. N : f[n] = step[<<n, f[n - 1]>>]
  BY <1>4 DEF Recurs
<1>6. \A n \in 1 .. N : f[n] = f[n - 1] + Taken(ENV[n])
  <2>1. \A n \in 1 .. N : n - 1 \in 0 .. N
    BY <1>1
  <2>2. \A n \in 1 .. N : <<n, f[n - 1]>> \in (1 .. N) \X Nat
    BY <1>5, <2>1
  <2>3. QED
    BY <1>5, <2>2
<1>7. f = [n \in 0 .. N |-> IF n = 0 THEN 0 ELSE f[n - 1] + Taken(ENV[n])]
  <2> HIDE DEF step
  <2>1. \A n \in 0 .. N : f[n] = IF n = 0 THEN 0 ELSE f[n - 1] + Taken(ENV[n])
    BY <1>1, <1>5, <1>6
  <2>2. QED
    BY <1>5, <2>1
<1>8. total = [n \in 0 .. N |-> IF n = 0 THEN 0 ELSE total[n - 1] + Taken(ENV[n])]
  BY <1>7, Zenon DEF Taken
<1> HIDE DEF step
<1>9. total \in [0 .. N -> Nat] /\ total[0] = 0
      /\ \A n \in 1 .. N : total[n] = total[n - 1] + Taken(ENV[n])
  <2> HIDE DEF total
  <2>1. total[0] = 0 /\ \A n \in 1 .. N : total[n] = total[n - 1] + Taken(ENV[n])
    BY <1>1, <1>8
  <2> DEFINE S == {n \in Nat : total[n] \in Nat}
  <2>2. 0 \in S
    BY <2>1
  <2>3. ASSUME NEW n \in 0 .. N - 1, n \in S PROVE n + 1 \in S
    <3>1. n + 1 \in 1 .. N /\ n + 1 \in Nat /\ (n + 1) - 1 = n
      BY <1>1
    <3>2. total[n + 1] = total[n] + Taken(ENV[n + 1]) /\ Taken(ENV[n + 1]) \in Nat
      BY <1>2, <2>1, <3>1
    <3>3. QED
      BY <2>3, <3>1, <3>2
  <2> HIDE DEF S
  <2>4. \A n \in 0 .. N : n \in S
    BY <1>1, <2>2, <2>3, BoundedInduction
  <2>5. total \in [0 .. N -> Nat]
    BY <1>8, <2>4 DEF S
  <2>6. QED
    BY <2>1, <2>5
<1>10. QED
  BY <1>1, <1>9, Zenon DEF N

\* What is true of the buffer once n entries have been visited, t being the room
\* they would take: it holds used entries only, and all of them unless they
\* take more than there is; the first is never without room.
BuildInv(b, n, t) ==
    /\ \A k \in 1 .. Len(b.pairs) : \E i \in 1 .. n : b.pairs[k] = ENV[i] /\ ENV[i].key # << >>
    /\ ~b.stopped => /\ b.offset = t
                     /\ \A i \in 1 .. n : ENV[i].key # << >> =>
                           \E k \in 1 .. Len(b.pairs) : b.pairs[k] = ENV[i]
    /\ b.stopped => t > MaxEnvLen
    /\ n >= 1 /\ ENV[1].key = CwdKey => \E k \in 1 .. Len(b.pairs) : b.pairs[k] = ENV[1]

\* CWD alone fits.
LEMMA CwdFits ==
    ASSUME ENV \in [EnvIdx -> EnvVar], TypeOK, ENV[1].key = CwdKey
    PROVE  ~(PairLen(ENV[1]) > MaxEnvLen)
<1>1. 1 \in EnvIdx /\ MaxValLen \in Nat /\ MaxEnvLen \in Nat /\ CwdKey \in Seq(Char)
  BY EnvironmentSizes, EnvironmentTypes DEF EnvIdx
<1>2. ENV[1].val \in Seq(Char) /\ Len(ENV[1].val) <= MaxValLen
  BY <1>1 DEF EnvVar, Text, TypeOK
<1>3. Len(CwdKey) \in Nat /\ Len(ENV[1].val) \in Nat
  BY <1>1, <1>2, LenProperties
<1>4. \A a, v, m, e \in Nat : v <= m /\ a + m + 2 <= e => ~(a + v + 2 > e)
  OBVIOUS
<1>5. ~(Len(CwdKey) + Len(ENV[1].val) + 2 > MaxEnvLen)
  BY <1>1, <1>2, <1>3, <1>4, EnvironmentSizes
<1>6. QED
  BY <1>5 DEF PairLen

LEMMA BuildKeepsInv ==
    ASSUME ENV \in [EnvIdx -> EnvVar], TypeOK,
           NEW n \in 0 .. MaxEnvVars - 1, NEW b \in Buffer, NEW t \in Nat, BuildInv(b, n, t),
           n = 0 => b = EmptyBuffer
    PROVE  BuildInv(Build(b, ENV[n + 1]), n + 1, t + Taken(ENV[n + 1]))
<1> DEFINE v == ENV[n + 1]  c == Build(b, v)
<1>1. /\ n + 1 \in EnvIdx /\ n \in Nat /\ MaxEnvLen \in Nat
      /\ 1 .. n + 1 = (1 .. n) \cup {n + 1} /\ n + 1 >= 1
  BY EnvironmentSizes, EnvironmentTypes DEF EnvIdx
<1>2. v \in EnvVar
  BY <1>1
<1>3. /\ c \in Buffer /\ PairLen(v) \in Nat
      /\ b.stopped \/ v.key = << >> => c = b
      /\ ~b.stopped /\ v.key # << >> /\ b.offset + PairLen(v) > MaxEnvLen =>
            c.pairs = b.pairs /\ c.stopped
      /\ ~b.stopped /\ v.key # << >> /\ ~(b.offset + PairLen(v) > MaxEnvLen) =>
            c.pairs = Append(b.pairs, v) /\ ~c.stopped /\ c.offset = b.offset + PairLen(v)
  BY <1>2, BuildProperties
<1>4. Taken(v) \in Nat /\ (v.key # << >> => Taken(v) = PairLen(v)) /\ (v.key = << >> => Taken(v) = 0)
  BY <1>3 DEF Taken
<1>5. b.pairs \in Seq(EnvVar) /\ Len(b.pairs) \in Nat /\ b.stopped \in BOOLEAN /\ b.offset \in Nat
  BY DEF Buffer
<1>6. CwdKey # << >>
  BY EnvironmentSizes
<1>7. n = 0 => b.pairs = << >> /\ b.offset = 0 /\ ~b.stopped
  BY DEF EmptyBuffer
<1>8. n = 0 /\ ENV[1].key = CwdKey => v.key # << >> /\ ~(b.offset + PairLen(v) > MaxEnvLen)
  <2>1. ASSUME n = 0, ENV[1].key = CwdKey PROVE ~(b.offset + PairLen(v) > MaxEnvLen)
    <3>1. b.offset = 0 /\ v = ENV[1] /\ ~(PairLen(ENV[1]) > MaxEnvLen)
      BY <1>7, <2>1, CwdFits
    <3>2. 0 + PairLen(ENV[1]) = PairLen(ENV[1])
      BY <1>3, <3>1
    <3>3. QED
      BY <3>1, <3>2
  <2>2. QED
    BY <1>6, <2>1
<1>9. b.stopped => t + Taken(v) > MaxEnvLen
  BY <1>1, <1>4 DEF BuildInv
<1> HIDE DEF c
<1>10. CASE b.stopped \/ v.key = << >>
  <2>1. c = b
    BY <1>3, <1>10
  <2>2. \A k \in 1 .. Len(b.pairs) :
            \E i \in 1 .. n + 1 : b.pairs[k] = ENV[i] /\ ENV[i].key # << >>
    BY <1>1 DEF BuildInv
  <2>3. ~b.stopped => /\ b.offset = t + Taken(v)
                      /\ \A i \in 1 .. n + 1 : ENV[i].key # << >> =>
                            \E k \in 1 .. Len(b.pairs) : b.pairs[k] = ENV[i]
    <3>1. ~b.stopped => v.key = << >> /\ b.offset = t + Taken(v)
      BY <1>4, <1>10, SMTT(30) DEF BuildInv
    <3>2. QED
      BY <1>1, <3>1 DEF BuildInv
  <2>4. ENV[1].key = CwdKey => \E k \in 1 .. Len(b.pairs) : b.pairs[k] = ENV[1]
    <3>1. CASE n = 0
      BY <1>6, <1>7, <1>10, <3>1
    <3>2. CASE n # 0
      BY <1>1, <3>2 DEF BuildInv
    <3>3. QED
      BY <3>1, <3>2
  <2>5. QED
    BY <1>9, <2>1, <2>2, <2>3, <2>4 DEF BuildInv, c
<1>11. CASE ~(b.stopped \/ v.key = << >>) /\ b.offset + PairLen(v) > MaxEnvLen
  <2>1. c.pairs = b.pairs /\ c.stopped /\ t + Taken(v) > MaxEnvLen
    BY <1>3, <1>4, <1>11 DEF BuildInv
  <2>2. \A k \in 1 .. Len(b.pairs) :
            \E i \in 1 .. n + 1 : b.pairs[k] = ENV[i] /\ ENV[i].key # << >>
    BY <1>1 DEF BuildInv
  <2>3. ENV[1].key = CwdKey => \E k \in 1 .. Len(b.pairs) : b.pairs[k] = ENV[1]
    <3>1. CASE n = 0
      BY <1>8, <1>11, <3>1
    <3>2. CASE n # 0
      BY <1>1, <3>2 DEF BuildInv
    <3>3. QED
      BY <3>1, <3>2
  <2>4. QED
    BY <2>1, <2>2, <2>3 DEF BuildInv, c
<1>12. CASE ~(b.stopped \/ v.key = << >>) /\ ~(b.offset + PairLen(v) > MaxEnvLen)
  <2>1. c.pairs = Append(b.pairs, v) /\ ~c.stopped /\ c.offset = t + Taken(v)
    BY <1>3, <1>4, <1>12 DEF BuildInv
  <2>2. /\ Len(c.pairs) = Len(b.pairs) + 1 /\ c.pairs[Len(b.pairs) + 1] = v
        /\ \A k \in 1 .. Len(b.pairs) : c.pairs[k] = b.pairs[k]
    BY <1>2, <1>5, <2>1, AppendProperties
  <2>3. 1 .. Len(c.pairs) = (1 .. Len(b.pairs)) \cup {Len(b.pairs) + 1}
    BY <1>5, <2>2
  <2>4. \A k \in 1 .. Len(c.pairs) :
            \E i \in 1 .. n + 1 : c.pairs[k] = ENV[i] /\ ENV[i].key # << >>
    <3>1. \A k \in 1 .. Len(b.pairs) :
            \E i \in 1 .. n + 1 : c.pairs[k] = ENV[i] /\ ENV[i].key # << >>
      BY <1>1, <2>2 DEF BuildInv
    <3>2. QED
      BY <1>1, <1>12, <2>2, <2>3, <3>1
  <2>5. \A i \in 1 .. n + 1 : ENV[i].key # << >> =>
            \E k \in 1 .. Len(c.pairs) : c.pairs[k] = ENV[i]
    <3>1. \A i \in 1 .. n : ENV[i].key # << >> =>
            \E k \in 1 .. Len(b.pairs) : b.pairs[k] = ENV[i]
      BY <1>12 DEF BuildInv
    <3>2. \A i \in 1 .. n : ENV[i].key # << >> =>
            \E k \in 1 .. Len(c.pairs) : c.pairs[k] = ENV[i]
      BY <2>2, <2>3, <3>1
    <3>3. \E k \in 1 .. Len(c.pairs) : c.pairs[k] = ENV[n + 1]
      BY <2>2, <2>3
    <3>4. QED
      BY <1>1, <3>2, <3>3
  <2>6. ENV[1].key = CwdKey => \E k \in 1 .. Len(c.pairs) : c.pairs[k] = ENV[1]
    <3>1. 1 \in 1 .. n + 1
      BY <1>1
    <3>2. QED
      BY <1>6, <2>5, <3>1
  <2>7. QED
    BY <2>1, <2>4, <2>5, <2>6 DEF BuildInv, c
<1>13. QED
  BY <1>10, <1>11, <1>12

\* The whole string.
LEMMA EnvStrProperties ==
    ASSUME ENV \in [EnvIdx -> EnvVar], TypeOK
    PROVE  \E b \in Buffer, t \in [0 .. MaxEnvVars -> Nat] :
              /\ EnvStr = b.pairs
              /\ BuildInv(b, MaxEnvVars, t[MaxEnvVars])
              /\ t = CHOOSE size : size = [n \in 0 .. MaxEnvVars |->
                        IF n = 0 THEN 0
                        ELSE size[n - 1] + IF ENV[n].key = << >> THEN 0 ELSE PairLen(ENV[n])]
<1>1. MaxEnvVars \in Nat /\ EnvIdx = 1 .. MaxEnvVars
  BY EnvironmentSizes DEF EnvIdx
<1>2. PICK f \in [0 .. MaxEnvVars -> Buffer] :
              /\ f[0] = EmptyBuffer
              /\ \A n \in EnvIdx : f[n] = Build(f[n - 1], ENV[n])
              /\ EnvStr = f[MaxEnvVars].pairs
  BY EnvStrIsScan
<1>3. PICK t \in [0 .. MaxEnvVars -> Nat] :
              /\ t[0] = 0
              /\ \A n \in EnvIdx : t[n] = t[n - 1] + Taken(ENV[n])
              /\ t = CHOOSE size : size = [n \in 0 .. MaxEnvVars |->
                        IF n = 0 THEN 0
                        ELSE size[n - 1] + IF ENV[n].key = << >> THEN 0 ELSE PairLen(ENV[n])]
  BY TotalIsScan
<1> DEFINE S == {n \in Nat : BuildInv(f[n], n, t[n])}
<1>4. 0 \in S
  BY <1>2, <1>3 DEF BuildInv, EmptyBuffer
<1>5. ASSUME NEW n \in 0 .. MaxEnvVars - 1, n \in S PROVE n + 1 \in S
  <2>1. n \in 0 .. MaxEnvVars /\ n + 1 \in EnvIdx /\ (n + 1) - 1 = n /\ n + 1 \in Nat
    BY <1>1
  <2>2. f[n] \in Buffer /\ t[n] \in Nat /\ BuildInv(f[n], n, t[n])
    BY <1>5, <2>1
  <2>3. f[n + 1] = Build(f[n], ENV[n + 1]) /\ t[n + 1] = t[n] + Taken(ENV[n + 1])
    BY <1>2, <1>3, <2>1
  <2>4. n = 0 => f[n] = EmptyBuffer
    BY <1>2
  <2>5. BuildInv(f[n + 1], n + 1, t[n + 1])
    BY <2>2, <2>3, <2>4, BuildKeepsInv
  <2>6. QED
    BY <2>1, <2>5
<1> HIDE DEF S
<1>6. \A n \in 0 .. MaxEnvVars : n \in S
  BY <1>1, <1>4, <1>5, BoundedInduction
<1>7. MaxEnvVars \in S /\ MaxEnvVars \in 0 .. MaxEnvVars
  BY <1>1, <1>6
<1>8. BuildInv(f[MaxEnvVars], MaxEnvVars, t[MaxEnvVars]) /\ f[MaxEnvVars] \in Buffer
  BY <1>7 DEF S
<1>9. QED
  BY <1>2, <1>3, <1>8, Zenon

\* What a program finds in the string is what get_env finds, where it finds
\* anything.
LEMMA InEnvStrProperties ==
    ASSUME EnvInv, NEW k, k # << >>
    PROVE  /\ InEnvStr(k) \in {GetEnv(k), None}
           /\ (\E j \in 1 .. Len(EnvStr) : EnvStr[j].key = k) => InEnvStr(k) = GetEnv(k)
           /\ GetEnv(k) = None => InEnvStr(k) = None
<1> DEFINE found == {j \in 1 .. Len(EnvStr) : EnvStr[j].key = k}
<1>1. PICK b \in Buffer, t \in [0 .. MaxEnvVars -> Nat] :
         EnvStr = b.pairs /\ BuildInv(b, MaxEnvVars, t[MaxEnvVars])
  BY EnvStrProperties DEF EnvInv
<1>2. found \in SUBSET Nat
  BY <1>1 DEF Buffer
<1>3. \A j \in 1 .. Len(EnvStr) : \E i \in EnvIdx : EnvStr[j] = ENV[i] /\ ENV[i].key # << >>
  BY <1>1 DEF BuildInv, EnvIdx
<1>4. CASE found = {}
  BY <1>4 DEF InEnvStr
<1>5. CASE found # {}
  <2>1. FirstIdx(found) \in found
    BY <1>2, <1>5, FirstIdxProperties
  <2>2. PICK i \in EnvIdx : EnvStr[FirstIdx(found)] = ENV[i] /\ ENV[i].key = k
    BY <1>3, <2>1
  <2>3. GetEnv(k) = Some(ENV[i].val)
    BY <2>2, GetEnvProperties DEF EnvInv
  <2>4. InEnvStr(k) = Some(ENV[i].val)
    BY <1>5, <2>2 DEF InEnvStr
  <2>5. GetEnv(k) # None
    BY <2>3 DEF Some, None
  <2>6. QED
    BY <2>3, <2>4, <2>5
<1>6. QED
  BY <1>4, <1>5

\* The first variable is never missing from the string.
LEMMA CwdInEnvStr ==
    ASSUME EnvInv, phase # "start"
    PROVE  /\ InEnvStr(CwdKey) = GetEnv(CwdKey)
           /\ GetEnv(CwdKey) = Some(ENV[1].val)
<1>1. 1 \in EnvIdx /\ MaxEnvVars >= 1 /\ CwdKey # << >> /\ ENV[1].key = CwdKey
  BY EnvironmentSizes DEF EnvIdx, EnvInv, CwdKept
<1>2. PICK b \in Buffer, t \in [0 .. MaxEnvVars -> Nat] :
         EnvStr = b.pairs /\ BuildInv(b, MaxEnvVars, t[MaxEnvVars])
  BY EnvStrProperties DEF EnvInv
<1>3. \E j \in 1 .. Len(EnvStr) : EnvStr[j] = ENV[1]
  BY <1>1, <1>2 DEF BuildInv
<1>4. GetEnv(CwdKey) = Some(ENV[1].val)
  BY <1>1, GetEnvProperties DEF EnvInv
<1>5. QED
  BY <1>1, <1>3, <1>4, InEnvStrProperties

\* What a started program finds under a name is what the shell would expand it
\* to; a name is missing only for want of room, and CWD never is.
THEOREM ProgramsAgree == Spec => []ProgramsAgreeWithShell
<1>1. EnvInv => ProgramsAgreeWithShell
  <2> DEFINE total == CHOOSE size : size = [n \in 0 .. MaxEnvVars |->
                        IF n = 0 THEN 0
                        ELSE size[n - 1] + IF ENV[n].key = << >> THEN 0 ELSE PairLen(ENV[n])]
  <2> SUFFICES ASSUME EnvInv, NEW k \in Keys \ {<< >>}
               PROVE  \/ InEnvStr(k) = GetEnv(k)
                      \/ InEnvStr(k) = None /\ k # CwdKey /\ total[MaxEnvVars] > MaxEnvLen
    BY Zenon DEF ProgramsAgreeWithShell
  <2>1. PICK b \in Buffer, t \in [0 .. MaxEnvVars -> Nat] :
           EnvStr = b.pairs /\ BuildInv(b, MaxEnvVars, t[MaxEnvVars]) /\ t = total
    BY EnvStrProperties, Zenon DEF EnvInv
  <2> HIDE DEF total
  <2>2. SUFFICES ASSUME InEnvStr(k) # GetEnv(k)
                 PROVE  InEnvStr(k) = None /\ k # CwdKey /\ total[MaxEnvVars] > MaxEnvLen
    OBVIOUS
  <2>3. InEnvStr(k) = None /\ GetEnv(k) # None
    BY <2>2, InEnvStrProperties
  <2>4. PICK i \in EnvIdx : ENV[i].key = k
    BY <2>3, GetEnvProperties DEF EnvInv
  <2>5. ~\E j \in 1 .. Len(b.pairs) : b.pairs[j].key = k
    BY <2>1, <2>2, InEnvStrProperties
  <2>6. b.stopped
    <3>1. i \in 1 .. MaxEnvVars /\ ENV[i].key # << >>
      BY <2>4 DEF EnvIdx
    <3>2. ASSUME ~b.stopped PROVE FALSE
      BY <2>1, <2>4, <2>5, <3>1, <3>2 DEF BuildInv
    <3>3. QED
      BY <3>2
  <2>7. total[MaxEnvVars] > MaxEnvLen
    BY <2>1, <2>6 DEF BuildInv
  <2>8. phase # "start"
    BY <2>4 DEF EnvInv, CwdKept, FreeVar
  <2>9. k # CwdKey
    BY <2>2, <2>8, CwdInEnvStr
  <2>10. QED
    BY <2>3, <2>7, <2>9
<1>2. QED
  BY <1>1, EnvInvariance, PTL

\* A name means the same file to a program as to the shell, however the working
\* directory was changed, unless an export has emptied it.
THEOREM ProgramsResolveAlike == Spec => []ProgramsResolveLikeShell
<1>1. EnvInv => ProgramsResolveLikeShell
  <2> SUFFICES ASSUME EnvInv, phase = "running", GetEnv(CwdKey) # Some(<< >>), NEW f \in Files
               PROVE  IF Usable(ShellResolve(f)) THEN ProgramResolve(f) = ShellResolve(f)
                      ELSE ~Usable(ProgramResolve(f))
    BY DEF ProgramsResolveLikeShell
  <2>1. InEnvStr(CwdKey) = Some(ENV[1].val) /\ GetEnv(CwdKey) = Some(ENV[1].val)
    BY CwdInEnvStr
  <2>2. ENV[1].val # << >>
    BY <2>1
  <2>3. ProgramCwd = ENV[1].val
    BY <2>1 DEF ProgramCwd, Some
  <2>4. CASE IsAbsolute(f)
    <3>1. ProgramResolve(f) = Some(f)
      BY <2>4 DEF ProgramResolve
    <3>2. ShellResolve(f) = IF Len(f) > PathBuf THEN None ELSE Some(f)
      BY <2>4 DEF ShellResolve
    <3>3. Len(f) \in Nat /\ PathBuf \in Nat
      BY EnvironmentTypes, LenProperties
    <3>4. QED
      BY <3>1, <3>2, <3>3 DEF Usable, Some, None
  <2>5. CASE ~IsAbsolute(f)
    <3>1. ProgramResolve(f) = IF Len(AsDir(ENV[1].val) \o f) > PathBuf THEN None
                              ELSE Some(AsDir(ENV[1].val) \o f)
      BY <2>2, <2>3, <2>5 DEF ProgramResolve
    <3>2. ShellResolve(f) = IF Len(AsDir(ENV[1].val) \o f) > PathBuf THEN None
                            ELSE Some(AsDir(ENV[1].val) \o f)
      <4>1. GetEnv(CwdKey).some /\ GetEnv(CwdKey).val = ENV[1].val
        BY <2>1 DEF Some
      <4>2. QED
        BY <2>5, <4>1 DEF ShellResolve
    <3>3. QED
      BY <3>1, <3>2
  <2>6. QED
    BY <2>4, <2>5
<1>2. QED
  BY <1>1, EnvInvariance, PTL

-----------------------------------------------------------------------------
(* Changing the directory.                                                 *)

\* A path behind which a slash may be taken away and put back.
Trimmable(s) ==
    s # << >> /\ (s[Len(s)] = "/" => Len(s) > 1 /\ s[Len(s) - 1] # "/")

LEMMA TrimmableProperties ==
    ASSUME NEW s \in Text, s # << >>
    PROVE  /\ ~EndsInSlash(WithoutSlash(s)) => Trimmable(s)
           /\ Trimmable(s) => AsDir(WithoutSlash(s)) = AsDir(s)
<1>1. s \in Seq(Char) /\ Len(s) \in Nat /\ Len(s) > 0 /\ Slash \in Seq(Char) /\ Len(Slash) = 1
  BY EmptySeq, EnvironmentTypes DEF Text, Slash
<1>2. CASE ~EndsInSlash(s)
  BY <1>1, <1>2 DEF EndsInSlash, WithoutSlash, Trimmable
<1>3. CASE EndsInSlash(s) /\ Len(s) > 1
  <2> DEFINE w == SubSeq(s, 1, Len(s) - 1)
  <2>1. \A i \in 1 .. Len(s) - 1 : s[i] \in Char
    BY <1>1, ElementOfSeq
  <2>2. /\ w \in Seq(Char)
        /\ Len(w) = IF 1 <= Len(s) - 1 THEN Len(s) - 1 - 1 + 1 ELSE 0
        /\ \A i \in 1 .. Len(s) - 1 - 1 + 1 : w[i] = s[1 + i - 1]
    BY <1>1, <2>1, SubSeqProperties, Z3
  <2> HIDE DEF w
  <2>3. Len(w) = Len(s) - 1 /\ \A i \in 1 .. Len(s) - 1 : w[i] = s[i]
    BY <1>1, <1>3, <2>2
  <2>4. WithoutSlash(s) = w /\ w # << >>
    <3>1. WithoutSlash(s) = w
      BY <1>3 DEF WithoutSlash, w
    <3>2. Len(w) # 0
      BY <1>1, <1>3, <2>3
    <3>3. QED
      BY <3>1, <3>2
  <2>5. EndsInSlash(w) <=> s[Len(s) - 1] = "/"
    <3>1. Len(w) \in 1 .. Len(s) - 1 /\ w[Len(w)] = s[Len(s) - 1]
      BY <1>1, <1>3, <2>3
    <3>2. QED
      BY <2>4, <3>1 DEF EndsInSlash
  <2>6. w \o Slash = s
    <3>1. /\ w \o Slash \in Seq(Char) /\ Len(w \o Slash) = Len(w) + Len(Slash)
          /\ \A i \in 1 .. Len(w) + Len(Slash) : (w \o Slash)[i] =
                 IF i <= Len(w) THEN w[i] ELSE Slash[i - Len(w)]
      BY <1>1, <2>2, ConcatProperties
    <3>2. Len(w \o Slash) = Len(s)
      BY <1>1, <2>3, <3>1
    <3>3. s[Len(s)] = "/" /\ Slash[1] = "/"
      BY <1>3 DEF EndsInSlash, Slash
    <3>4. ASSUME NEW i \in 1 .. Len(s) PROVE (w \o Slash)[i] = s[i]
      <4>1. CASE i = Len(s)
        <5>1. ~(i <= Len(w)) /\ i - Len(w) = 1 /\ i \in 1 .. Len(w) + Len(Slash)
          BY <1>1, <2>3, <4>1
        <5>2. QED
          BY <3>1, <3>3, <4>1, <5>1
      <4>2. CASE i # Len(s)
        <5>1. i <= Len(w) /\ i \in 1 .. Len(w) + Len(Slash) /\ i \in 1 .. Len(s) - 1
          BY <1>1, <2>3, <4>2
        <5>2. QED
          BY <2>3, <3>1, <5>1
      <4>3. QED
        BY <4>1, <4>2
    <3>5. QED
      BY <1>1, <3>1, <3>2, <3>4, SeqEqual
  <2>7. Trimmable(s) <=> ~EndsInSlash(w)
    BY <1>3, <2>5 DEF Trimmable, EndsInSlash
  <2>8. ~EndsInSlash(w) => AsDir(w) = s
    BY <2>4, <2>6 DEF AsDir
  <2>9. AsDir(s) = s
    BY <1>3 DEF AsDir
  <2>10. QED
    BY <2>4, <2>7, <2>8, <2>9
<1>4. CASE EndsInSlash(s) /\ ~(Len(s) > 1)
  BY <1>1, <1>4 DEF EndsInSlash, WithoutSlash, Trimmable
<1>5. QED
  BY <1>2, <1>3, <1>4

\* It is so behind another path too.
LEMMA TrimmableBehind ==
    ASSUME NEW base \in Text, NEW d \in Text, Trimmable(d)
    PROVE  /\ base \o d \in Text /\ base \o d # << >> /\ Trimmable(base \o d)
           /\ AsDir(base \o d) = base \o AsDir(d)
<1> DEFINE s == base \o d
<1>1. /\ base \in Seq(Char) /\ d \in Seq(Char) /\ Slash \in Seq(Char)
      /\ Len(base) \in Nat /\ Len(d) \in Nat /\ Len(d) > 0 /\ d # << >>
  BY EmptySeq, EnvironmentTypes DEF Text, Slash, Trimmable
<1>2. /\ s \in Seq(Char) /\ Len(s) = Len(base) + Len(d)
      /\ \A i \in 1 .. Len(base) + Len(d) : s[i] = IF i <= Len(base) THEN base[i] ELSE d[i - Len(base)]
  BY <1>1, ConcatProperties
<1> HIDE DEF s
<1>3. s # << >> /\ s[Len(s)] = d[Len(d)]
  <2>1. Len(s) \in 1 .. Len(base) + Len(d) /\ ~(Len(s) <= Len(base)) /\ Len(s) - Len(base) = Len(d)
    BY <1>1, <1>2
  <2>2. QED
    BY <1>2, <2>1
<1>4. Trimmable(s)
  <2>1. ASSUME s[Len(s)] = "/" PROVE Len(s) > 1 /\ s[Len(s) - 1] # "/"
    <3>1. Len(d) > 1 /\ d[Len(d) - 1] # "/"
      BY <1>3, <2>1 DEF Trimmable
    <3>2. /\ Len(s) > 1 /\ Len(s) - 1 \in 1 .. Len(base) + Len(d)
          /\ ~(Len(s) - 1 <= Len(base)) /\ (Len(s) - 1) - Len(base) = Len(d) - 1
      BY <1>1, <1>2, <3>1
    <3>3. QED
      BY <1>2, <3>1, <3>2
  <2>2. QED
    BY <1>3, <2>1 DEF Trimmable
<1>5. AsDir(s) = base \o AsDir(d)
  <2>1. EndsInSlash(s) <=> EndsInSlash(d)
    BY <1>1, <1>3 DEF EndsInSlash
  <2>2. (base \o d) \o Slash = base \o (d \o Slash)
    BY <1>1, ConcatAssociative
  <2>3. QED
    BY <1>1, <1>3, <2>1, <2>2 DEF AsDir, s
<1>6. QED
  BY <1>2, <1>3, <1>4, <1>5 DEF s, Text

\* Once CWD is set, get_env finds it in the first entry.
CwdIsFirst == GetEnv(CwdKey) = Some(ENV[1].val)

LEMMA CwdFound == EnvInv /\ phase # "start" => CwdIsFirst
  BY CwdInEnvStr DEF CwdIsFirst

\* The working directory, as something to put before a name.
CwdPrefix(path) == IF IsAbsolute(path) THEN << >> ELSE AsDir(GetEnv(CwdKey).val)

\* A cd that is not refused leaves the path it made in CWD.
LEMMA CdSetsCwd ==
    ASSUME EnvInv, EnvInv', NEW d \in Text, Cd(d), reply'.outcome = "ok"
    PROVE  GetEnv(CwdKey)' = Some(NewCwd(d))
<1>1. 1 \in EnvIdx /\ CwdKey # << >> /\ CwdKey \in Text /\ ENV[1].key = CwdKey
  BY EnvironmentSizes, EnvironmentTypes DEF EnvIdx, EnvInv, CwdKept, Cd, Text
<1>2. NewCwd(d) \in Text /\ SetEnv(CwdKey, NewCwd(d)) /\ phase' = "running"
  BY NewCwdProperties DEF EnvInv, Cd
<1>3. Outcome(CwdKey, NewCwd(d)) = "ok"
  BY <1>2 DEF SetEnv
<1>4. PICK i \in EnvIdx :
         /\ ENV' = [ENV EXCEPT ![i] = [key |-> CwdKey, val |-> NewCwd(d)]]
         /\ ENV[i].key \in {CwdKey, << >>}
         /\ ENV[i].key # CwdKey => \A j \in EnvIdx : ENV[j].key # CwdKey
  BY <1>1, <1>2, <1>3, SetEnvProperties
<1>5. i = 1
  BY <1>1, <1>4, EntriesDistinct DEF EnvInv
<1>6. ENV'[1].val = NewCwd(d)
  BY <1>1, <1>4, <1>5 DEF EnvInv
<1>7. CwdIsFirst'
  <2>1. (EnvInv /\ phase # "start")'
    BY <1>2
  <2>2. QED
    BY <2>1, CwdFound, PTL
<1>8. QED
  BY <1>6, <1>7 DEF CwdIsFirst

\* A path that is long enough for nothing to be cut off is put together of the
\* prefix, the directory and the name.
LEMMA CdThenName ==
    ASSUME EnvInv, EnvInv', NEW d \in Dirs, Cd(d), reply'.outcome = "ok",
           GetEnv(CwdKey) # Some(<< >>), d # << >>, ~EndsInSlash(WithoutSlash(d)),
           NEW f \in Files, ~IsAbsolute(f), Usable(ShellResolve(AsDir(d) \o f))
    PROVE  ShellResolve(f)' = ShellResolve(AsDir(d) \o f)
<1> DEFINE v == ENV[1].val
           base == CwdPrefix(d)
           asked == AsDir(d) \o f
<1>1. /\ d \in Text /\ f \in Text /\ Slash \in Text /\ << >> \in Text /\ Len(<< >>) = 0
      /\ PathBuf \in Nat /\ MaxValLen \in Nat /\ MaxValLen + 2 <= PathBuf
      /\ CwdRoom = PathBuf - 1
  BY EnvironmentTypes, EnvironmentSizes, EmptySeq DEF Text, Slash, CwdRoom
<1>2. Trimmable(d) /\ AsDir(d) \in Text /\ AsDir(d) # << >>
  BY <1>1, TrimmableProperties, SlashProperties
<1>3. GetEnv(CwdKey) = Some(v) /\ GetEnv(CwdKey).some /\ GetEnv(CwdKey).val = v
  <2>1. GetEnv(CwdKey) = Some(v)
    BY CwdInEnvStr DEF Cd
  <2>2. QED
    BY <2>1 DEF Some
<1>4. v \in Text /\ Len(v) \in Nat /\ Len(v) <= MaxValLen
  <2>1. 1 \in EnvIdx
    BY EnvironmentSizes DEF EnvIdx
  <2>2. v \in Text /\ Len(v) <= MaxValLen
    BY <2>1 DEF EnvInv, EnvVar, TypeOK
  <2>3. QED
    BY <2>2, LenProperties DEF Text
<1> HIDE DEF v
<1>5. base \in Text /\ Len(base) \in Nat
  <2>1. AsDir(v) \in Text
    BY <1>4, SlashProperties
  <2>2. base \in Text
    BY <1>1, <1>3, <2>1 DEF CwdPrefix
  <2>3. QED
    BY <2>2, LenProperties DEF Text
<1>6. asked \in Text /\ (IsAbsolute(asked) <=> IsAbsolute(d))
  <2>1. AsDir(d) \in Seq(Char) /\ f \in Seq(Char) /\ d \in Seq(Char) /\ Slash \in Seq(Char)
    BY <1>1, <1>2 DEF Text
  <2>2. /\ asked \in Seq(Char)
        /\ \A i \in 1 .. Len(AsDir(d)) + Len(f) :
              asked[i] = IF i <= Len(AsDir(d)) THEN AsDir(d)[i] ELSE f[i - Len(AsDir(d))]
        /\ Len(asked) = Len(AsDir(d)) + Len(f)
    BY <2>1, ConcatProperties
  <2>3. /\ Len(AsDir(d)) \in Nat /\ Len(AsDir(d)) > 0 /\ Len(f) \in Nat
        /\ Len(d) \in Nat /\ Len(d) > 0
    BY <1>2, <2>1, EmptySeq
  <2>4. AsDir(d)[1] = d[1]
    <3>1. CASE AsDir(d) = d
      BY <3>1
    <3>2. CASE AsDir(d) = d \o Slash
      <4>1. \A i \in 1 .. Len(d) + Len(Slash) :
               (d \o Slash)[i] = IF i <= Len(d) THEN d[i] ELSE Slash[i - Len(d)]
        BY <2>1, ConcatProperties
      <4>2. Len(Slash) \in Nat
        BY <2>1
      <4>3. 1 \in 1 .. Len(d) + Len(Slash) /\ 1 <= Len(d)
        BY <2>3, <4>2
      <4>4. QED
        BY <3>2, <4>1, <4>3
    <3>3. QED
      BY <3>1, <3>2 DEF AsDir
  <2>5. 1 \in 1 .. Len(AsDir(d)) + Len(f) /\ 1 <= Len(AsDir(d))
    BY <2>3
  <2>6. asked[1] = d[1]
    BY <2>2, <2>4, <2>5
  <2>7. asked # << >>
    BY <2>2, <2>3
  <2>8. QED
    BY <2>2, <2>6, <2>7 DEF IsAbsolute, Text
<1>7. base \o asked = (base \o AsDir(d)) \o f
  <2> HIDE DEF base
  <2>1. base \in Seq(Char) /\ AsDir(d) \in Seq(Char) /\ f \in Seq(Char)
    BY <1>1, <1>2, <1>5 DEF Text
  <2>2. QED
    BY <2>1, ConcatAssociative
<1>8. IsAbsolute(d) => base = << >> /\ base \o asked = asked
  <2>1. IsAbsolute(d) => base = << >>
    BY DEF CwdPrefix
  <2> HIDE DEF base, asked
  <2>2. asked \in Seq(Char)
    BY <1>6 DEF Text
  <2>3. QED
    BY <2>1, <2>2, ConcatEmptySeq
<1>9. Len(base \o asked) < PathBuf /\ ShellResolve(asked) = Some(base \o asked)
  <2>1. (IF IsAbsolute(asked) THEN asked ELSE AsDir(v) \o asked) = base \o asked
    <3>1. CASE IsAbsolute(asked)
      BY <1>6, <1>8, <3>1
    <3>2. CASE ~IsAbsolute(asked)
      BY <1>3, <1>6, <3>2 DEF CwdPrefix
    <3>3. QED
      BY <3>1, <3>2
  <2>2. ShellResolve(asked)
          = IF Len(base \o asked) > PathBuf THEN None ELSE Some(base \o asked)
    BY <1>3, <2>1 DEF ShellResolve
  <2>3. CASE Len(base \o asked) > PathBuf
    BY <2>2, <2>3 DEF Usable, None
  <2>4. CASE ~(Len(base \o asked) > PathBuf)
    <3>1. ShellResolve(asked) = Some(base \o asked)
      BY <2>2, <2>4
    <3>2. Usable(Some(base \o asked))
      BY <3>1
    <3>3. QED
      BY <3>1, <3>2 DEF Usable, Some
  <2>5. QED
    BY <2>3, <2>4
<1>10. NewCwd(d) = WithoutSlash(base \o d)
  <2>1. Len(base) + Len(d) <= CwdRoom /\ Len(d) \in Nat
    <3>1. /\ base \in Seq(Char) /\ AsDir(d) \in Seq(Char) /\ f \in Seq(Char)
          /\ asked \in Seq(Char) /\ d \in Seq(Char)
      BY <1>1, <1>2, <1>5, <1>6 DEF Text
    <3>2. Len(base \o asked) = Len(base) + Len(asked) /\ Len(asked) = Len(AsDir(d)) + Len(f)
      BY <3>1, ConcatProperties
    <3>3. Len(AsDir(d)) >= Len(d) /\ Len(d) \in Nat /\ Len(AsDir(d)) \in Nat /\ Len(f) \in Nat
      <4>1. Len(d) \in Nat /\ Len(AsDir(d)) \in Nat /\ Len(f) \in Nat
        BY <3>1, LenProperties
      <4>2. Len(AsDir(d)) \in {Len(d), Len(d) + 1}
        BY <1>1, SlashProperties
      <4>3. QED
        BY <4>1, <4>2
    <3>4. QED
      BY <1>1, <1>5, <1>9, <3>2, <3>3
  <2>2. CwdRoom - Len(base) \in Nat /\ Len(d) <= CwdRoom - Len(base)
    BY <1>1, <1>5, <2>1
  <2>3. Clamped(d, CwdRoom - Len(base)) = d
    BY <1>1, <2>2, ClampedProperties
  <2>4. Clamped(v, CwdRoom) = v
    <3>1. CwdRoom \in Nat /\ Len(v) <= CwdRoom
      BY <1>1, <1>4
    <3>2. QED
      BY <1>4, <3>1, ClampedProperties
  <2>5. base = IF IsAbsolute(d) THEN << >>
               ELSE IF GetEnv(CwdKey).some THEN AsDir(Clamped(GetEnv(CwdKey).val, CwdRoom))
               ELSE Slash
    BY <1>3, <2>4 DEF CwdPrefix
  <2> HIDE DEF base
  <2>6. QED
    BY <2>3, <2>5 DEF NewCwd
<1>11. AsDir(NewCwd(d)) = base \o AsDir(d)
  <2>1. /\ base \o d \in Text /\ base \o d # << >> /\ Trimmable(base \o d)
        /\ AsDir(base \o d) = base \o AsDir(d)
    BY <1>1, <1>2, <1>5, TrimmableBehind
  <2>2. QED
    BY <1>10, <2>1, TrimmableProperties
<1>12. ShellResolve(f)'
         = IF Len(base \o asked) > PathBuf THEN None ELSE Some(base \o asked)
  <2>1. GetEnv(CwdKey)' = Some(NewCwd(d))
    BY <1>1, CdSetsCwd
  <2>2. GetEnv(CwdKey)'.some /\ GetEnv(CwdKey)'.val = NewCwd(d)
    BY <2>1 DEF Some
  <2> HIDE DEF base, asked
  <2>3. ShellResolve(f)'
          = IF Len(AsDir(NewCwd(d)) \o f) > PathBuf THEN None ELSE Some(AsDir(NewCwd(d)) \o f)
    BY <2>2 DEF ShellResolve
  <2>4. QED
    BY <1>7, <1>11, <2>3
<1>13. Len(base \o asked) \in Nat
  BY <1>5, <1>6, ConcatProperties, LenProperties DEF Text
<1>14. QED
  BY <1>1, <1>9, <1>12, <1>13

\* cd d, then f, is the path d/f, and none is cut short by a buffer on the way.
THEOREM CdComposes == Spec => CdThenNameIsPath
<1>1. EnvInv /\ EnvInv' /\ [Next]_envVars =>
        [ \A d \in Dirs :
            /\ Cd(d) /\ reply'.outcome = "ok"
            /\ GetEnv(CwdKey) # Some(<< >>)
            /\ d # << >> /\ ~EndsInSlash(WithoutSlash(d))
            => \A f \in Files :
                  ~IsAbsolute(f) /\ Usable(ShellResolve(AsDir(d) \o f)) =>
                      ShellResolve(f)' = ShellResolve(AsDir(d) \o f) ]_envVars
  BY CdThenName
<1>2. QED
  BY <1>1, EnvInvariance, PTL DEF Spec, CdThenNameIsPath

-----------------------------------------------------------------------------
(* Expansion.                                                              *)

\* What is cut off once is cut off for good.
LEMMA ClampedConcat ==
    ASSUME NEW a \in Text, NEW b \in Text, NEW n \in Nat
    PROVE  /\ Len(a) >= n => Clamped(a \o b, n) = Clamped(a, n)
           /\ Clamped(Clamped(a, n) \o b, n) = Clamped(a \o b, n)
<1>1. ASSUME NEW x \in Text, Len(x) >= n PROVE Clamped(x \o b, n) = Clamped(x, n)
  <2>1. Len(x) \in Nat /\ Len(b) \in Nat
    BY LenProperties DEF Text
  <2>2. /\ x \o b \in Text /\ Len(x \o b) = Len(x) + Len(b)
        /\ \A i \in 1 .. Len(x) + Len(b) : i <= Len(x) => (x \o b)[i] = x[i]
    BY ConcatProperties DEF Text
  <2> DEFINE s == x \o b
  <2> HIDE DEF s
  <2>3. /\ s \in Text /\ Len(s) = Len(x) + Len(b)
        /\ \A i \in 1 .. Len(x) + Len(b) : i <= Len(x) => s[i] = x[i]
    BY <2>2 DEF s
  <2>4. Smaller(Len(s), n) = n /\ Smaller(Len(x), n) = n
    BY <1>1, <2>1, <2>3 DEF Smaller
  <2>5. /\ Clamped(s, n) \in Text /\ Len(Clamped(s, n)) = n
        /\ \A i \in 1 .. n : Clamped(s, n)[i] = s[i]
    BY <2>3, <2>4, ClampedProperties
  <2>6. /\ Clamped(x, n) \in Text /\ Len(Clamped(x, n)) = n
        /\ \A i \in 1 .. n : Clamped(x, n)[i] = x[i]
    BY <2>4, ClampedProperties
  <2>7. \A i \in 1 .. n : s[i] = x[i]
    BY <1>1, <2>1, <2>3
  <2>8. Clamped(s, n) = Clamped(x, n)
    BY <2>5, <2>6, <2>7, SeqEqual DEF Text
  <2>9. QED
    BY <2>8 DEF s
<1>2. Len(a) \in Nat
  BY LenProperties DEF Text
<1>3. CASE Len(a) <= n
  <2>1. Clamped(a, n) = a
    BY <1>3, ClampedProperties
  <2>2. QED
    BY <1>1, <2>1
<1>4. CASE Len(a) > n
  <2>1. Clamped(a, n) \in Text /\ Len(Clamped(a, n)) = n
    BY <1>2, <1>4, ClampedProperties DEF Smaller
  <2>2. Clamped(Clamped(a, n) \o b, n) = Clamped(Clamped(a, n), n)
    BY <1>1, <2>1
  <2>3. Clamped(Clamped(a, n), n) = Clamped(a, n)
    BY <2>1, ClampedProperties
  <2>4. Clamped(a \o b, n) = Clamped(a, n)
    BY <1>1, <1>2, <1>4
  <2>5. QED
    BY <1>1, <2>2, <2>3, <2>4
<1>5. QED
  BY <1>2, <1>3, <1>4

\* The name behind a dollar reaches up to the first character that can't be in one.
LEMMA NameAtProperties ==
    ASSUME NEW raw \in Text, NEW i \in 1 .. Len(raw) + 1
    PROVE  \E e \in i .. Len(raw) + 1 :
              /\ NameAt(raw, i) \in Text /\ Len(NameAt(raw, i)) = e - i
              /\ \A j \in i .. e - 1 : raw[j] \in NameChars
              /\ e <= Len(raw) => raw[e] \notin NameChars
<1> DEFINE L == Len(raw)
           ends == {j \in i .. L + 1 : j = L + 1 \/ raw[j] \notin NameChars}
           e == FirstIdx(ends)
<1>1. L \in Nat /\ \A j \in 1 .. L : raw[j] \in Char
  BY LenProperties, ElementOfSeq DEF Text
<1> HIDE DEF L
<1>2. i \in 1 .. L + 1
  BY DEF L
<1>3. ends \in SUBSET Nat /\ ends # {}
  <2>1. L + 1 \in ends /\ \A j \in ends : j \in Nat
    BY <1>1, <1>2
  <2>2. QED
    BY <2>1
<1>4. e \in ends /\ \A j \in ends : e <= j
  BY <1>3, FirstIdxProperties
<1> HIDE DEF e
<1>5. e \in i .. L + 1 /\ (e <= L => raw[e] \notin NameChars)
  BY <1>1, <1>2, <1>4
<1>6. \A j \in i .. e - 1 : raw[j] \in NameChars
  BY <1>1, <1>2, <1>4, <1>5
<1>7. \A j \in i .. e - 1 : raw[j] \in Char
  BY <1>1, <1>2, <1>5
<1>8. /\ SubSeq(raw, i, e - 1) \in Seq(Char)
      /\ Len(SubSeq(raw, i, e - 1)) = IF i <= e - 1 THEN e - 1 - i + 1 ELSE 0
  <2>1. i \in Int /\ e - 1 \in Int
    BY <1>1, <1>2, <1>5
  <2>2. QED
    BY <1>7, <2>1, SubSeqProperties
<1>9. Len(SubSeq(raw, i, e - 1)) = e - i
  BY <1>1, <1>2, <1>5, <1>8
<1>10. NameAt(raw, i) = SubSeq(raw, i, e - 1)
  BY DEF NameAt, e, L
<1>11. QED
  BY <1>5, <1>6, <1>8, <1>9, <1>10 DEF L, Text

\* Each position of a line contributes text.
LEMMA ContributionProperties ==
    ASSUME EnvInv
    PROVE  /\ \A name : ValueOf(name) \in Text
           /\ \A raw \in Text : \A i \in 1 .. Len(raw) : Contribution(raw, i) \in Text
<1>1. << >> \in Text /\ \A c \in Char : <<c>> \in Text
  BY EmptySeq DEF Text
<1>2. ASSUME NEW name PROVE ValueOf(name) \in Text
  <2>1. CASE Holding(name) = {}
    BY <1>1, <2>1 DEF ValueOf, GetEnv, None
  <2>2. CASE Holding(name) # {}
    <3>1. FirstIdx(Holding(name)) \in EnvIdx
      BY <2>2, GetEnvProperties DEF EnvInv
    <3>2. ENV[FirstIdx(Holding(name))].val \in Text
      BY <3>1 DEF EnvInv, EnvVar
    <3>3. GetEnv(name) = [some |-> TRUE, val |-> ENV[FirstIdx(Holding(name))].val]
      BY <2>2 DEF GetEnv, Some
    <3>4. QED
      BY <3>2, <3>3 DEF ValueOf
  <2>3. QED
    BY <2>1, <2>2
<1>3. ASSUME NEW raw \in Text, NEW i \in 1 .. Len(raw) PROVE Contribution(raw, i) \in Text
  <2>1. raw[i] \in Char
    BY ElementOfSeq DEF Text
  <2>2. QED
    BY <1>1, <1>2, <2>1 DEF Contribution
<1>4. QED
  BY <1>2, <1>3

\* The text that the positions up to n contribute, as the property
\* ExpansionIsSubstitution puts it together.
Concatenates(f, raw) ==
    /\ f \in [0 .. Len(raw) -> Text]
    /\ f[0] = << >>
    /\ \A n \in 1 .. Len(raw) : f[n] = f[n - 1] \o Contribution(raw, n)

Contributions(raw) ==
    CHOOSE upTo : upTo = [n \in 0 .. Len(raw) |->
        IF n = 0 THEN << >> ELSE upTo[n - 1] \o Contribution(raw, n)]

LEMMA ContributionsConcatenate ==
    ASSUME EnvInv, NEW raw \in Text
    PROVE  Concatenates(Contributions(raw), raw)
<1> DEFINE N == Len(raw)
           upTo == Contributions(raw)
           step == [x \in (1 .. N) \X Text |-> x[2] \o Contribution(raw, x[1])]
<1>1. N \in Nat /\ \A n \in 0 .. N : n # 0 => n \in 1 .. N
  BY LenProperties DEF Text
<1>2. \A n \in 1 .. N : Contribution(raw, n) \in Text
  BY ContributionProperties
<1>3. << >> \in Text /\ \A a, b \in Text : a \o b \in Text
  BY EmptySeq, ConcatProperties DEF Text
<1> HIDE DEF N
<1>4. step \in Steps(N, Text)
  BY <1>1, <1>2, <1>3 DEF Steps
<1>5. PICK f : Recurs(f, N, Text, << >>, step)
  <2> HIDE DEF step
  <2>1. QED
    BY <1>1, <1>3, <1>4, Recursion
<1>6. f \in [0 .. N -> Text] /\ f[0] = << >> /\ \A n \in 1 .. N : f[n] = step[<<n, f[n - 1]>>]
  BY <1>5 DEF Recurs
<1>7. \A n \in 1 .. N : f[n] = f[n - 1] \o Contribution(raw, n)
  <2>1. \A n \in 1 .. N : n - 1 \in 0 .. N
    BY <1>1
  <2>2. \A n \in 1 .. N : <<n, f[n - 1]>> \in (1 .. N) \X Text
    BY <1>6, <2>1
  <2>3. QED
    BY <1>6, <2>2
<1>8. f = [n \in 0 .. N |-> IF n = 0 THEN << >> ELSE f[n - 1] \o Contribution(raw, n)]
  <2> HIDE DEF step
  <2>1. \A n \in 0 .. N : f[n] = IF n = 0 THEN << >> ELSE f[n - 1] \o Contribution(raw, n)
    BY <1>1, <1>6, <1>7
  <2>2. QED
    BY <1>6, <2>1
<1> HIDE DEF step
<1>9. upTo = [n \in 0 .. N |-> IF n = 0 THEN << >> ELSE upTo[n - 1] \o Contribution(raw, n)]
  BY <1>8, Zenon DEF Contributions, N
<1> HIDE DEF upTo
<1>10. upTo[0] = << >> /\ \A n \in 1 .. N : upTo[n] = upTo[n - 1] \o Contribution(raw, n)
  <2>1. 0 \in 0 .. N /\ \A n \in 1 .. N : n \in 0 .. N /\ n # 0
    BY <1>1
  <2>2. \A n \in 0 .. N : upTo[n] = IF n = 0 THEN << >> ELSE upTo[n - 1] \o Contribution(raw, n)
    BY <1>9, Zenon
  <2>3. upTo[0] = << >>
    BY <2>1, <2>2
  <2>4. QED
    BY <2>1, <2>2, <2>3, Zenon
<1> DEFINE S == {n \in Nat : upTo[n] \in Text}
<1>11. 0 \in S
  BY <1>3, <1>10
<1>12. ASSUME NEW n \in 0 .. N - 1, n \in S PROVE n + 1 \in S
  <2>1. n + 1 \in 1 .. N /\ n + 1 \in Nat /\ (n + 1) - 1 = n
    BY <1>1
  <2>2. upTo[n + 1] = upTo[n] \o Contribution(raw, n + 1) /\ Contribution(raw, n + 1) \in Text
    BY <1>2, <1>10, <2>1
  <2>3. QED
    BY <1>3, <1>12, <2>1, <2>2
<1> HIDE DEF S
<1>13. \A n \in 0 .. N : n \in S
  BY <1>1, <1>11, <1>12, BoundedInduction
<1>14. upTo \in [0 .. N -> Text]
  BY <1>9, <1>13 DEF S
<1>15. QED
  BY <1>10, <1>14 DEF Concatenates, upTo, N

\* Expansion by the code's loop, as a function of the turns made.
Turns(raw) ==
    CHOOSE turns : turns = [n \in 0 .. Len(raw) |->
        IF n = 0 THEN [i |-> 1, out |-> << >>] ELSE Expanded(raw, turns[n - 1])]

Expansion == [i : Nat \ {0}, out : Text]

\* Up to its position the loop has put down what the positions contribute, and it
\* never stops amid a name.
Agrees(s, raw, f) ==
    /\ s.i \in 1 .. Len(raw) + 1
    /\ s.out = Clamped(f[s.i - 1], MaxExpanded)
    /\ s.i <= Len(raw) => ~InName(raw, s.i)

LEMMA PushedProperties ==
    ASSUME NEW s \in Expansion, NEW text \in Text, NEW i \in Nat \ {0}
    PROVE  /\ Pushed(s, text, i) \in Expansion
           /\ Pushed(s, text, i).i = i
           /\ Pushed(s, text, i).out = Clamped(s.out \o text, MaxExpanded)
<1>1. s.out \o text \in Text
  BY ConcatProperties DEF Expansion, Text
<1>2. Clamped(s.out \o text, MaxExpanded) \in Text
  BY <1>1, ClampedProperties, EnvironmentSizes
<1>3. QED
  BY <1>2 DEF Pushed, Expansion

\* The four ways a turn can go.
LEMMA ExpandedCases ==
    ASSUME NEW raw, NEW s
    PROVE  /\ s.i > Len(raw) \/ Len(s.out) >= MaxExpanded => Expanded(raw, s) = s
           /\ ~(s.i > Len(raw) \/ Len(s.out) >= MaxExpanded) =>
                 /\ raw[s.i] # "$" => Expanded(raw, s) = Pushed(s, <<raw[s.i]>>, s.i + 1)
                 /\ raw[s.i] = "$" /\ NameAt(raw, s.i + 1) = << >> =>
                       Expanded(raw, s) = Pushed(s, <<"$">>, s.i + 1)
                 /\ raw[s.i] = "$" /\ NameAt(raw, s.i + 1) # << >> =>
                       Expanded(raw, s) = Pushed(s, ValueOf(NameAt(raw, s.i + 1)),
                                                 s.i + 1 + Len(NameAt(raw, s.i + 1)))
  BY Zenon DEF Expanded

\* Behind a character that is in no name a name begins only with a dollar.
LEMMA InNameNext ==
    ASSUME NEW raw, NEW i \in Nat \ {0}, raw[i] # "$", ~InName(raw, i)
    PROVE  ~InName(raw, i + 1)
<1>1. ASSUME NEW j \in 1 .. i, raw[j] = "$", \A n \in j + 1 .. i + 1 : raw[n] \in NameChars
      PROVE  FALSE
  <2>1. j # i
    BY <1>1
  <2>2. j \in 1 .. i - 1 /\ \A n \in j + 1 .. i : n \in j + 1 .. i + 1
    BY <2>1
  <2>3. QED
    BY <1>1, <2>2 DEF InName
<1>2. (i + 1) - 1 = i
  OBVIOUS
<1>3. QED
  BY <1>1, <1>2 DEF InName

\* The positions of a name contribute nothing.
LEMMA NameContributesNothing ==
    ASSUME EnvInv, NEW raw \in Text, NEW f, Concatenates(f, raw),
           NEW i \in 1 .. Len(raw), raw[i] = "$",
           NEW e \in i + 1 .. Len(raw) + 1, \A j \in i + 1 .. e - 1 : raw[j] \in NameChars
    PROVE  f[e - 1] = f[i]
<1> DEFINE L == Len(raw)
<1>1. L \in Nat
  BY LenProperties DEF Text
<1>2. f \in [0 .. L -> Text] /\ \A n \in 1 .. L : f[n] = f[n - 1] \o Contribution(raw, n)
  BY DEF Concatenates
<1> HIDE DEF L
<1>3. i \in 1 .. L /\ e \in i + 1 .. L + 1
  BY DEF L
<1>4. ASSUME NEW j \in i + 1 .. e - 1 PROVE f[j] = f[j - 1]
  <2>1. j \in 1 .. L /\ j - 1 \in 0 .. L /\ i \in 1 .. j - 1
    BY <1>1, <1>3
  <2>2. \A n \in i + 1 .. j : raw[n] \in NameChars
    BY <1>1, <1>3
  <2>3. InName(raw, j)
    BY <2>1, <2>2 DEF InName
  <2>4. raw[j] # "$"
    BY EnvironmentTypes
  <2>5. Contribution(raw, j) = << >>
    BY <2>3, <2>4 DEF Contribution
  <2>6. f[j - 1] \in Seq(Char)
    BY <1>2, <2>1 DEF Text
  <2>7. f[j] = f[j - 1] \o << >>
    BY <1>2, <2>1, <2>5
  <2>8. QED
    BY <2>6, <2>7, ConcatEmptySeq
<1> DEFINE N == e - 1 - i
           S == {n \in Nat : f[i + n] = f[i]}
<1>5. 0 \in S
  BY <1>3
<1>6. ASSUME NEW n \in 0 .. N - 1, n \in S PROVE n + 1 \in S
  <2>1. /\ i + n + 1 \in i + 1 .. e - 1 /\ n + 1 \in Nat
        /\ i + n + 1 - 1 = i + n /\ i + (n + 1) = i + n + 1
    BY <1>1, <1>3
  <2>2. f[i + n + 1] = f[i + n]
    BY <1>4, <2>1
  <2>3. QED
    BY <1>6, <2>1, <2>2
<1>7. N \in Nat /\ i + N = e - 1
  BY <1>1, <1>3
<1> HIDE DEF S, N
<1>8. N \in 0 .. N /\ \A n \in 0 .. N : n \in S
  BY <1>5, <1>6, <1>7, BoundedInduction
<1>9. QED
  BY <1>7, <1>8 DEF S

\* A turn keeps the agreement, and moves on unless there is no room.
LEMMA ExpandedAgrees ==
    ASSUME EnvInv, NEW raw \in Text, NEW f, Concatenates(f, raw),
           NEW s \in Expansion, Agrees(s, raw, f)
    PROVE  /\ Expanded(raw, s) \in Expansion
           /\ Agrees(Expanded(raw, s), raw, f)
           /\ s.i <= Len(raw) /\ Len(s.out) < MaxExpanded => Expanded(raw, s).i > s.i
           /\ s.i > Len(raw) \/ Len(s.out) >= MaxExpanded => Expanded(raw, s) = s
<1> DEFINE L == Len(raw)
           i == s.i
           t == Expanded(raw, s)
<1>1. L \in Nat /\ \A j \in 1 .. L : raw[j] \in Char
  BY LenProperties, ElementOfSeq DEF Text
<1>2. s.i \in Nat \ {0} /\ s.out \in Text /\ Len(s.out) \in Nat /\ MaxExpanded \in Nat
  BY LenProperties, EnvironmentSizes DEF Expansion, Text
<1>3. CASE s.i > L \/ Len(s.out) >= MaxExpanded
  <2>1. t = s
    BY <1>3, ExpandedCases
  <2>2. QED
    BY <1>2, <1>3, <2>1
<1>4. CASE ~(s.i > L \/ Len(s.out) >= MaxExpanded)
  <2>1. i \in 1 .. L /\ i - 1 \in 0 .. L /\ i \in Nat \ {0}
    BY <1>1, <1>2, <1>4
  <2>2. /\ f[i - 1] \in Text /\ f[i] = f[i - 1] \o Contribution(raw, i)
        /\ s.out = Clamped(f[i - 1], MaxExpanded) /\ ~InName(raw, i)
    <3>1. f[i] = f[i - 1] \o Contribution(raw, i)
      BY <2>1 DEF Concatenates
    <3>2. f[i - 1] \in Text
      BY <2>1 DEF Concatenates
    <3>3. s.out = Clamped(f[i - 1], MaxExpanded) /\ ~InName(raw, i)
      BY <2>1 DEF Agrees
    <3>4. QED
      BY <3>1, <3>2, <3>3
  <2>3. Contribution(raw, i) \in Text
    BY <2>1, ContributionProperties
  <2>4. Clamped(s.out \o Contribution(raw, i), MaxExpanded) = Clamped(f[i], MaxExpanded)
    BY <1>2, <2>2, <2>3, ClampedConcat
  <2> HIDE DEF i, t
  <2>5. ASSUME NEW j \in i + 1 .. L + 1, t = Pushed(s, Contribution(raw, i), j),
               f[j - 1] = f[i], j <= L => ~InName(raw, j)
        PROVE  t \in Expansion /\ Agrees(t, raw, f) /\ t.i > i
    <3>1. j \in Nat \ {0} /\ j \in 1 .. L + 1 /\ j > i
      BY <1>1, <2>1
    <3>2. t \in Expansion /\ t.i = j /\ t.out = Clamped(s.out \o Contribution(raw, i), MaxExpanded)
      BY <2>3, <2>5, <3>1, PushedProperties
    <3>3. t.out = Clamped(f[t.i - 1], MaxExpanded)
      BY <2>4, <2>5, <3>2
    <3>4. Agrees(t, raw, f)
      BY <2>5, <3>1, <3>2, <3>3 DEF Agrees
    <3>5. QED
      BY <3>1, <3>2, <3>4
  <2>6. i + 1 \in i + 1 .. L + 1 /\ (i + 1) - 1 = i
    BY <1>1, <2>1
  <2>7. CASE raw[i] # "$"
    <3>1. Contribution(raw, i) = <<raw[i]>>
      BY <2>2, <2>7 DEF Contribution
    <3>2. t = Pushed(s, Contribution(raw, i), i + 1)
      BY <1>4, <2>7, <3>1, ExpandedCases DEF i, t
    <3>3. ~InName(raw, i + 1)
      BY <2>1, <2>2, <2>7, InNameNext
    <3>4. t \in Expansion /\ Agrees(t, raw, f) /\ t.i > i
      BY <2>5, <2>6, <3>2, <3>3
    <3>5. QED
      BY <1>4, <3>4 DEF i, t
  <2>8. CASE raw[i] = "$"
    <3> DEFINE name == NameAt(raw, i + 1)
    <3>1. i + 1 \in 1 .. L + 1
      BY <1>1, <2>1
    <3>2. PICK e \in i + 1 .. L + 1 :
            /\ name \in Text /\ Len(name) = e - (i + 1)
            /\ \A j \in i + 1 .. e - 1 : raw[j] \in NameChars
            /\ e <= L => raw[e] \notin NameChars
      BY <3>1, NameAtProperties
    <3> HIDE DEF name
    <3>3. e <= L => ~InName(raw, e)
      <4>1. ASSUME NEW j \in 1 .. e - 1 PROVE e \in j + 1 .. e
        BY <1>1, <2>1
      <4>2. QED
        BY <3>2, <4>1 DEF InName
    <3>4. f[e - 1] = f[i]
      BY <2>1, <2>8, <3>2, NameContributesNothing
    <3>5. CASE name = << >>
      <4>1. e = i + 1
        <5>1. Len(name) = 0
          BY <3>5, EmptySeq
        <5>2. QED
          BY <1>1, <2>1, <3>2, <5>1
      <4>2. Contribution(raw, i) = <<"$">>
        BY <2>2, <2>8, <3>5 DEF Contribution, name
      <4>3. t = Pushed(s, Contribution(raw, i), e)
        BY <1>4, <2>8, <3>5, <4>1, <4>2, ExpandedCases DEF i, t, name
      <4>4. t \in Expansion /\ Agrees(t, raw, f) /\ t.i > i
        BY <2>5, <3>3, <3>4, <4>3
      <4>5. QED
        BY <1>4, <4>4 DEF i, t
    <3>6. CASE name # << >>
      <4>1. Contribution(raw, i) = ValueOf(name)
        BY <2>8, <3>6 DEF Contribution, name
      <4>2. i + 1 + Len(name) = e
        BY <1>1, <2>1, <3>2
      <4>3. t = Pushed(s, Contribution(raw, i), i + 1 + Len(name))
        BY <1>4, <2>8, <3>6, <4>1, ExpandedCases DEF i, t, name
      <4>4. t \in Expansion /\ Agrees(t, raw, f) /\ t.i > i
        BY <2>5, <3>3, <3>4, <4>2, <4>3
      <4>5. QED
        BY <1>4, <4>4 DEF i, t
    <3>7. QED
      BY <3>5, <3>6
  <2>9. QED
    BY <2>7, <2>8
<1>5. QED
  BY <1>3, <1>4

\* The turns are a function that the code's loop follows, and agree with the
\* contributions throughout.
LEMMA TurnsAgree ==
    ASSUME EnvInv, NEW raw \in Text, NEW f, Concatenates(f, raw)
    PROVE  \A n \in 0 .. Len(raw) :
              /\ Turns(raw)[n] \in Expansion
              /\ Agrees(Turns(raw)[n], raw, f)
              /\ Turns(raw)[n].i > n \/ Len(Turns(raw)[n].out) >= MaxExpanded
<1> DEFINE N == Len(raw)
           D == {s \in Expansion : Agrees(s, raw, f)}
           e == [i |-> 1, out |-> << >>]
           step == [x \in (1 .. N) \X D |-> Expanded(raw, x[2])]
           t == Turns(raw)
<1>1. N \in Nat /\ \A n \in 0 .. N : n # 0 => n \in 1 .. N
  BY LenProperties DEF Text
<1>2. \A s \in D :
          /\ Expanded(raw, s) \in D
          /\ s.i <= N /\ Len(s.out) < MaxExpanded => Expanded(raw, s).i > s.i
          /\ s.i > N \/ Len(s.out) >= MaxExpanded => Expanded(raw, s) = s
  BY ExpandedAgrees
<1>3. e \in D
  <2>1. << >> \in Text /\ Len(<< >>) = 0 /\ MaxExpanded \in Nat
    BY EmptySeq, EnvironmentSizes DEF Text
  <2>2. e \in Expansion /\ e.i = 1 /\ e.out = << >>
    BY <2>1 DEF Expansion
  <2>3. Clamped(<< >>, MaxExpanded) = << >>
    BY <2>1, ClampedProperties
  <2>4. f[1 - 1] = << >>
    BY DEF Concatenates
  <2>5. ~InName(raw, 1)
    BY DEF InName
  <2>6. 1 \in 1 .. N + 1
    BY <1>1
  <2> HIDE DEF e
  <2>7. QED
    BY <2>2, <2>3, <2>4, <2>5, <2>6 DEF Agrees
<1> HIDE DEF N, e
<1>4. step \in Steps(N, D)
  <2> HIDE DEF D
  <2>1. QED
    <3>1. \A x \in (1 .. N) \X D : x[2] \in D
      OBVIOUS
    <3>2. \A x \in (1 .. N) \X D : Expanded(raw, x[2]) \in D
      BY <1>2, <3>1
    <3>3. QED
      BY <3>2 DEF Steps
<1>5. PICK g : Recurs(g, N, D, e, step)
  <2> HIDE DEF step, D
  <2>1. QED
    BY <1>1, <1>3, <1>4, Recursion
<1> HIDE DEF D
<1>6. g \in [0 .. N -> D] /\ g[0] = e /\ \A n \in 1 .. N : g[n] = step[<<n, g[n - 1]>>]
  BY <1>5 DEF Recurs
<1>7. \A n \in 1 .. N : g[n] = Expanded(raw, g[n - 1])
  <2>1. \A n \in 1 .. N : n - 1 \in 0 .. N
    BY <1>1
  <2>2. \A n \in 1 .. N : <<n, g[n - 1]>> \in (1 .. N) \X D
    BY <1>6, <2>1
  <2>3. QED
    BY <1>6, <2>2
<1>8. g = [n \in 0 .. N |-> IF n = 0 THEN e ELSE Expanded(raw, g[n - 1])]
  <2> HIDE DEF step
  <2>1. \A n \in 0 .. N : g[n] = IF n = 0 THEN e ELSE Expanded(raw, g[n - 1])
    BY <1>1, <1>6, <1>7
  <2>2. QED
    BY <1>6, <2>1
<1> HIDE DEF step
<1>9. t = [n \in 0 .. N |-> IF n = 0 THEN e ELSE Expanded(raw, t[n - 1])]
  BY <1>8, Zenon DEF Turns, N, e
<1> HIDE DEF t
<1>10. t[0] = e /\ \A n \in 1 .. N : t[n] = Expanded(raw, t[n - 1])
  <2>1. 0 \in 0 .. N /\ \A n \in 1 .. N : n \in 0 .. N /\ n # 0
    BY <1>1
  <2>2. \A n \in 0 .. N : t[n] = IF n = 0 THEN e ELSE Expanded(raw, t[n - 1])
    BY <1>9, Zenon
  <2>3. t[0] = e
    BY <2>1, <2>2
  <2>4. QED
    BY <2>1, <2>2, <2>3, Zenon
<1> DEFINE S == {n \in Nat : t[n] \in D /\ (t[n].i > n \/ Len(t[n].out) >= MaxExpanded)}
<1>11. 0 \in S
  <2>1. e.i = 1
    BY DEF e
  <2>2. QED
    BY <1>3, <1>10, <2>1
<1>12. ASSUME NEW n \in 0 .. N - 1, n \in S PROVE n + 1 \in S
  <2>1. n + 1 \in 1 .. N /\ n + 1 \in Nat /\ (n + 1) - 1 = n /\ n \in 0 .. N
    BY <1>1
  <2>2. t[n + 1] = Expanded(raw, t[n]) /\ t[n] \in D
    BY <1>10, <1>12, <2>1
  <2>3. /\ t[n].i \in Nat /\ t[n].out \in Seq(Char) /\ MaxExpanded \in Nat
    BY <2>2, EnvironmentSizes DEF D, Expansion, Text
  <2>4. Len(t[n].out) \in Nat
    BY <2>3, LenProperties
  <2> DEFINE u == Expanded(raw, t[n])
  <2>8. /\ u \in D
        /\ t[n].i <= N /\ Len(t[n].out) < MaxExpanded => u.i > t[n].i
        /\ t[n].i > N \/ Len(t[n].out) >= MaxExpanded => u = t[n]
    BY <1>2, <2>2
  <2>9. t[n + 1] = u
    BY <2>2
  <2> HIDE DEF u
  <2>5. CASE t[n].i <= N /\ Len(t[n].out) < MaxExpanded
    <3>1. t[n + 1] \in D /\ t[n + 1].i > t[n].i /\ t[n].i > n
      BY <1>12, <2>3, <2>4, <2>5, <2>8, <2>9 DEF S
    <3>2. t[n + 1].i \in Nat
      BY <3>1 DEF D, Expansion
    <3>3. t[n + 1].i > n + 1
      BY <2>1, <2>3, <3>1, <3>2
    <3>4. QED
      BY <2>1, <3>1, <3>3
  <2>6. CASE t[n].i > N \/ Len(t[n].out) >= MaxExpanded
    <3>1. t[n + 1] = t[n]
      BY <2>6, <2>8, <2>9
    <3>2. t[n].i > n + 1 \/ Len(t[n].out) >= MaxExpanded
      BY <1>1, <2>1, <2>3, <2>6
    <3>3. QED
      BY <2>1, <2>2, <3>1, <3>2
  <2>7. QED
    BY <1>1, <2>3, <2>4, <2>5, <2>6
<1> HIDE DEF S
<1>13. \A n \in 0 .. N : n \in S
  BY <1>1, <1>11, <1>12, BoundedInduction
<1>14. QED
  BY <1>13 DEF S, D, N, t

\* Every $NAME of a line is replaced by its value and everything else stays, up
\* to the end of the buffer: what expand_line's loop puts down is what the
\* positions of the line contribute, for every line and every set of variables.
THEOREM ExpansionSubstitutes == Spec => []ExpansionIsSubstitution
<1>1. ASSUME EnvInv PROVE ExpansionIsSubstitution
  <2> SUFFICES ASSUME NEW raw \in RawLines
               PROVE  ExpandLine(raw) = Clamped(Contributions(raw)[Len(raw)], MaxExpanded)
    BY Zenon DEF ExpansionIsSubstitution, Contributions
  <2> USE EnvInv
  <2> DEFINE L == Len(raw)
             f == Contributions(raw)
             s == Turns(raw)[L]
  <2>1. raw \in Text /\ L \in Nat /\ L \in 0 .. L
    <3>1. raw \in Seq(Char)
      BY EnvironmentTypes
    <3>2. QED
      BY <3>1, LenProperties DEF Text
  <2>2. Concatenates(f, raw)
    BY <1>1, <2>1, ContributionsConcatenate
  <2>3. s \in Expansion /\ Agrees(s, raw, f) /\ (s.i > L \/ Len(s.out) >= MaxExpanded)
    <3> HIDE DEF f
    <3>1. QED
      BY <1>1, <2>1, <2>2, TurnsAgree
  <2>4. ExpandLine(raw) = s.out
    BY Zenon DEF ExpandLine, Turns
  <2> HIDE DEF L, f, s
  <2>5. s.i \in 1 .. L + 1 /\ s.out = Clamped(f[s.i - 1], MaxExpanded) /\ MaxExpanded \in Nat
    BY <2>3, EnvironmentSizes DEF Agrees, L
  <2>6. CASE s.i > L
    <3>1. s.i - 1 = L
      BY <2>1, <2>5, <2>6
    <3>2. QED
      BY <2>4, <2>5, <3>1 DEF L, f
  <2>7. CASE Len(s.out) >= MaxExpanded
    <3> DEFINE m == s.i - 1
               N == L - m
               S == {n \in Nat : Clamped(f[m + n], MaxExpanded) = Clamped(f[m], MaxExpanded)}
    <3>1. m \in 0 .. L /\ N \in Nat /\ m + N = L
      BY <2>1, <2>5
    <3> HIDE DEF m
    <3>2. \A n \in 0 .. L : f[n] \in Text
      BY <2>2 DEF Concatenates, L
    <3>3. Len(f[m]) >= MaxExpanded
      <4>1. f[m] \in Text
        BY <3>1, <3>2
      <4>2. Len(f[m]) \in Nat /\ Len(Clamped(f[m], MaxExpanded)) = Smaller(Len(f[m]), MaxExpanded)
        BY <2>5, <4>1, ClampedProperties, LenProperties DEF Text
      <4>3. Len(Clamped(f[m], MaxExpanded)) >= MaxExpanded
        BY <2>5, <2>7 DEF m
      <4>4. QED
        BY <2>5, <4>2, <4>3 DEF Smaller
    <3>4. 0 \in S
      BY <3>1
    <3>5. ASSUME NEW n \in 0 .. N - 1, n \in S PROVE n + 1 \in S
      <4>1. m + n \in 0 .. L /\ m + n + 1 \in 1 .. L /\ (m + n + 1) - 1 = m + n
            /\ n + 1 \in Nat /\ m + (n + 1) = m + n + 1
        BY <2>1, <3>1
      <4>2. f[m + n + 1] = f[m + n] \o Contribution(raw, m + n + 1)
        <5>1. \A k \in 1 .. L : f[k] = f[k - 1] \o Contribution(raw, k)
          BY <2>2 DEF Concatenates, L
        <5>2. QED
          BY <4>1, <5>1, Zenon
      <4>3. f[m + n] \in Text /\ f[m] \in Text /\ Contribution(raw, m + n + 1) \in Text
        BY <1>1, <2>1, <3>1, <3>2, <4>1, ContributionProperties DEF L
      <4>4. Clamped(f[m + n], MaxExpanded) = Clamped(f[m], MaxExpanded)
        BY <3>5
      <4>5. Clamped(f[m] \o Contribution(raw, m + n + 1), MaxExpanded) = Clamped(f[m], MaxExpanded)
        BY <2>5, <3>3, <4>3, ClampedConcat
      <4>6. Clamped(f[m + n + 1], MaxExpanded) = Clamped(f[m], MaxExpanded)
        <5>1. /\ Clamped(f[m + n] \o Contribution(raw, m + n + 1), MaxExpanded)
                   = Clamped(Clamped(f[m + n], MaxExpanded) \o Contribution(raw, m + n + 1), MaxExpanded)
              /\ Clamped(f[m] \o Contribution(raw, m + n + 1), MaxExpanded)
                   = Clamped(Clamped(f[m], MaxExpanded) \o Contribution(raw, m + n + 1), MaxExpanded)
          BY <2>5, <4>3, ClampedConcat
        <5>2. QED
          BY <4>2, <4>4, <4>5, <5>1
      <4>7. QED
        BY <4>1, <4>6
    <3> HIDE DEF S, N
    <3>6. \A n \in 0 .. N : n \in S
      BY <3>1, <3>4, <3>5, BoundedInduction
    <3>7. N \in S
      BY <3>1, <3>6
    <3>8. Clamped(f[L], MaxExpanded) = Clamped(f[m], MaxExpanded)
      BY <3>1, <3>7 DEF S
    <3>9. QED
      BY <2>4, <2>5, <3>8 DEF L, f, m
  <2>8. QED
    BY <2>3, <2>6, <2>7
<1>2. QED
  BY <1>1, EnvInvariance, PTL
=============================================================================
