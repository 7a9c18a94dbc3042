--------------------------- MODULE TokenizerProofs ---------------------------
(***************************************************************************)
(* Theorems about Tokenizer, for every line and all limits: the scanner's    *)
(* words tile the buffer of unquoted characters, which never overflows, and  *)
(* its tokens are what the grammar reads in the line from the other end; the *)
(* stages that run have their words and files from the tokens, and a stage   *)
(* is refused only where the tokens are not well formed; plain words reach a *)
(* program that splits its arguments at blanks.                             *)
(***************************************************************************)
EXTENDS Tokenizer, NatFacts, SequenceTheorems, FiniteSetTheorems

Token == [kind : Ops \cup {"word"}, start : Nat, len : Nat]

Scanner ==
    [parsed : Seq(Chars), tokens : Seq(Token), start : Nat,
     in_token : BOOLEAN, in_single : BOOLEAN, in_double : BOOLEAN, escape : BOOLEAN,
     error : {"", "line too long", "too many tokens", "trailing escape", "unclosed quote"}]

\* The words tile the buffer; a word in progress began within it, and nothing is
\* quoted outside of one.
Tiled(s) ==
    /\ s \in Scanner
    /\ \A i \in 1 .. Len(s.tokens) : s.tokens[i].kind = "word" => s.tokens[i].start = EndBefore(s.tokens, i)
    /\ EndBefore(s.tokens, Len(s.tokens) + 1) = IF s.in_token THEN s.start ELSE Len(s.parsed)
    /\ s.in_token => s.start <= Len(s.parsed)
    /\ s.in_single \/ s.in_double \/ s.escape => s.in_token

ScannerInv ==
    /\ Tiled(scan)
    /\ line \in Seq(Chars) /\ Len(scan.parsed) <= Len(line)
    /\ scan.error # "line too long"
    /\ at = "scanning" => scan.error = ""

-----------------------------------------------------------------------------
(* Where words end.                                                        *)

\* The last word before a token is the one before it, if that is a word, and the
\* last word before that one otherwise.
LEMMA EndBeforeNext ==
    ASSUME NEW tokens \in Seq(Token), NEW i \in 1 .. Len(tokens)
    PROVE  EndBefore(tokens, i + 1) =
              IF tokens[i].kind = "word" THEN tokens[i].start + tokens[i].len
              ELSE EndBefore(tokens, i)
<1>1. Len(tokens) \in Nat
  BY LenProperties
<1> DEFINE words == WordsBefore(tokens, i + 1)
           last == CHOOSE j \in words : \A k \in words : k <= j
<1>2. CASE tokens[i].kind = "word"
  <2>1. i \in words /\ \A k \in words : k <= i /\ k \in Nat
    BY <1>1, <1>2 DEF WordsBefore
  <2>2. last \in words /\ \A k \in words : k <= last
    BY <2>1
  <2> HIDE DEF last, words
  <2>3. last <= i /\ i <= last /\ last \in Nat
    BY <2>1, <2>2
  <2>4. last = i
    BY <1>1, <2>3
  <2>5. EndBefore(tokens, i + 1) = tokens[last].start + tokens[last].len
    BY <2>1 DEF EndBefore, LastEnd, words, last
  <2>6. QED
    BY <1>2, <2>4, <2>5
<1>3. CASE tokens[i].kind # "word"
  <2>1. words = WordsBefore(tokens, i)
    BY <1>1, <1>3 DEF WordsBefore
  <2>2. QED
    BY <1>3, <2>1 DEF EndBefore
<1>4. QED
  BY <1>2, <1>3

\* A token behind them changes nothing for the tokens so far.
LEMMA EndBeforeKept ==
    ASSUME NEW tokens \in Seq(Token), NEW token \in Token, NEW i \in 1 .. Len(tokens) + 1
    PROVE  EndBefore(Append(tokens, token), i) = EndBefore(tokens, i)
<1> DEFINE more == Append(tokens, token)
           W == WordsBefore(tokens, i)
<1>1. /\ Len(tokens) \in Nat /\ Len(more) = Len(tokens) + 1
      /\ \A j \in 1 .. Len(tokens) : more[j] = tokens[j]
  BY LenProperties, AppendProperties
<1> HIDE DEF more
<1>2. WordsBefore(more, i) = W
  BY <1>1 DEF WordsBefore
<1>3. W \in SUBSET (0 .. Len(tokens)) /\ \A j \in W : more[j] = tokens[j]
  BY <1>1 DEF WordsBefore
<1> HIDE DEF W
<1>4. CASE W = {}
  BY <1>2, <1>4 DEF EndBefore, LastEnd, more, W
<1>5. CASE W # {}
  <2> DEFINE last == CHOOSE j \in W : \A k \in W : k <= j
  <2>1. \E j \in W : \A k \in W : k <= j
    BY <1>1, <1>3, <1>5, GreatestElement
  <2>2. last \in W
    BY <2>1
  <2>3. /\ LastEnd(more, W) = more[last].start + more[last].len
        /\ LastEnd(tokens, W) = tokens[last].start + tokens[last].len
    BY <1>5, Zenon DEF LastEnd, last
  <2> HIDE DEF last
  <2>4. LastEnd(more, W) = LastEnd(tokens, W)
    BY <1>3, <2>2, <2>3
  <2>5. QED
    BY <1>2, <2>4 DEF EndBefore, more, W
<1>6. QED
  BY <1>4, <1>5

-----------------------------------------------------------------------------
(* The scanner's helpers.                                                  *)

\* A length from one position to another.
LEMMA Lengths ==
    \A m, n \in Nat : m <= m /\ m <= m + 1 /\ (m <= n => n - m \in Nat /\ m + (n - m) = n)
OBVIOUS

\* A buffer shorter than its limit has room, and grows by no more than is read.
LEMMA LengthBounds ==
    \A p, q, l, k, m \in Nat :
        /\ p <= l /\ l < m => ~(p >= m)
        /\ p <= l /\ q <= p + 1 /\ k = l + 1 => q <= k
OBVIOUS

\* What a scanner's fields are, without the record.
LEMMA ScannerFacts ==
    ASSUME NEW s \in Scanner
    PROVE  /\ s.parsed \in Seq(Chars) /\ Len(s.parsed) \in Nat
           /\ s.tokens \in Seq(Token) /\ Len(s.tokens) \in Nat
           /\ s.start \in Nat
           /\ \A i \in 1 .. Len(s.tokens) :
                 s.tokens[i].start \in Nat /\ s.tokens[i].len \in Nat
<1>1. s.parsed \in Seq(Chars) /\ s.tokens \in Seq(Token) /\ s.start \in Nat
  BY DEF Scanner
<1>2. \A i \in 1 .. Len(s.tokens) : s.tokens[i] \in Token
  BY <1>1, ElementOfSeq
<1>3. QED
  BY <1>1, <1>2, LenProperties DEF Token

\* push_char either appends or fails.
IsPushed(t, s, c) ==
    /\ t.tokens = s.tokens /\ t.start = s.start
    /\ t.in_single = s.in_single /\ t.in_double = s.in_double /\ t.escape = s.escape
    /\ IF Len(s.parsed) >= MaxParsed
       THEN t.parsed = s.parsed /\ t.in_token = s.in_token /\ t.error = "line too long"
       ELSE t.parsed = Append(s.parsed, c) /\ t.in_token = TRUE /\ t.error = s.error

LEMMA PushCharFields ==
    ASSUME NEW s \in Scanner, NEW c \in Chars
    PROVE  PushChar(s, c) \in Scanner /\ IsPushed(PushChar(s, c), s, c)
<1>1. Append(s.parsed, c) \in Seq(Chars)
  BY ScannerFacts, AppendProperties
<1>2. CASE Len(s.parsed) >= MaxParsed
  BY <1>2 DEF PushChar, Fails, IsPushed, Scanner
<1>3. CASE ~(Len(s.parsed) >= MaxParsed)
  BY <1>1, <1>3 DEF PushChar, IsPushed, Scanner
<1>4. QED
  BY <1>2, <1>3

\* A character goes into the word in progress.
LEMMA PushCharTiles ==
    ASSUME NEW s, Tiled(s), NEW c \in Chars, s.in_token
    PROVE  /\ Tiled(PushChar(s, c))
           /\ Len(PushChar(s, c).parsed) <= Len(s.parsed) + 1
           /\ PushChar(s, c).error =
                 IF Len(s.parsed) >= MaxParsed THEN "line too long" ELSE s.error
<1> DEFINE t == PushChar(s, c)
<1>1. s \in Scanner /\ t \in Scanner /\ IsPushed(t, s, c)
  BY PushCharFields DEF Tiled
<1>2. Len(s.parsed) \in Nat /\ Len(Append(s.parsed, c)) = Len(s.parsed) + 1 /\ s.start \in Nat
  BY <1>1, ScannerFacts, AppendProperties
<1> HIDE DEF t
<1>3. /\ t.tokens = s.tokens /\ t.in_token /\ t.start = s.start
      /\ t.in_single \/ t.in_double \/ t.escape => s.in_single \/ s.in_double \/ s.escape
      /\ t.error = IF Len(s.parsed) >= MaxParsed THEN "line too long" ELSE s.error
  BY <1>1, <1>2 DEF IsPushed
<1>4. /\ Len(t.parsed) = Len(s.parsed) \/ Len(t.parsed) = Len(s.parsed) + 1
      /\ s.start <= Len(s.parsed)
  BY <1>1, <1>2 DEF IsPushed, Tiled
<1>7. s.start <= Len(t.parsed) /\ Len(t.parsed) <= Len(s.parsed) + 1
  BY <1>2, <1>4
<1>5. /\ \A i \in 1 .. Len(t.tokens) :
            t.tokens[i].kind = "word" => t.tokens[i].start = EndBefore(t.tokens, i)
      /\ EndBefore(t.tokens, Len(t.tokens) + 1) = t.start
  BY <1>3 DEF Tiled
<1>6. Tiled(t)
  BY <1>1, <1>3, <1>7, <1>5 DEF Tiled
<1>8. QED
  BY <1>3, <1>6, <1>7 DEF t

\* push_token either appends or fails.
IsTokenPushed(t, s, token) ==
    /\ t.parsed = s.parsed /\ t.start = s.start /\ t.in_token = s.in_token
    /\ t.in_single = s.in_single /\ t.in_double = s.in_double /\ t.escape = s.escape
    /\ IF Len(s.tokens) >= MaxTokens
       THEN t.tokens = s.tokens /\ t.error = "too many tokens"
       ELSE t.tokens = Append(s.tokens, token) /\ t.error = s.error

LEMMA PushTokenFields ==
    ASSUME NEW s \in Scanner, NEW kind \in Ops \cup {"word"}, NEW start \in Nat, NEW len \in Nat
    PROVE  /\ PushToken(s, kind, start, len) \in Scanner
           /\ IsTokenPushed(PushToken(s, kind, start, len), s,
                            [kind |-> kind, start |-> start, len |-> len])
<1> DEFINE token == [kind |-> kind, start |-> start, len |-> len]
<1>1. token \in Token
  BY DEF Token
<1> HIDE DEF token
<1>2. Append(s.tokens, token) \in Seq(Token)
  BY <1>1, ScannerFacts, AppendProperties
<1>3. CASE Len(s.tokens) >= MaxTokens
  BY <1>3 DEF PushToken, Fails, IsTokenPushed, Scanner
<1>4. CASE ~(Len(s.tokens) >= MaxTokens)
  BY <1>2, <1>4 DEF PushToken, IsTokenPushed, Scanner, token
<1>5. QED
  BY <1>3, <1>4

\* A token behind the others tiles, if it is an operator or begins where the last
\* word ends; what follows begins where the last word, maybe this one, ends.
TokensTile(tokens, end) ==
    /\ \A i \in 1 .. Len(tokens) : tokens[i].kind = "word" => tokens[i].start = EndBefore(tokens, i)
    /\ EndBefore(tokens, Len(tokens) + 1) = end

LEMMA AppendTiles ==
    ASSUME NEW tokens \in Seq(Token), NEW end, TokensTile(tokens, end), NEW token \in Token,
           token.kind = "word" => token.start = end
    PROVE  TokensTile(Append(tokens, token),
                      IF token.kind = "word" THEN token.start + token.len ELSE end)
<1> DEFINE more == Append(tokens, token)
           N == Len(tokens)
<1>1. /\ N \in Nat /\ more \in Seq(Token) /\ Len(more) = N + 1
      /\ \A j \in 1 .. N : more[j] = tokens[j]
      /\ more[N + 1] = token
  BY LenProperties, AppendProperties
<1>2. \A i \in 1 .. N + 1 : EndBefore(more, i) = EndBefore(tokens, i)
  BY EndBeforeKept
<1>3. \A i \in 1 .. Len(more) :
        EndBefore(more, i + 1) = IF more[i].kind = "word" THEN more[i].start + more[i].len
                                 ELSE EndBefore(more, i)
  BY <1>1, EndBeforeNext
<1>4. /\ \A i \in 1 .. N : tokens[i].kind = "word" => tokens[i].start = EndBefore(tokens, i)
      /\ EndBefore(tokens, N + 1) = end
  BY DEF TokensTile
<1> HIDE DEF more, N
<1>5. N + 1 \in 1 .. Len(more) /\ N + 1 \in 1 .. N + 1
  BY <1>1
<1>6. EndBefore(more, N + 1) = end
  BY <1>2, <1>4, <1>5
<1>7. EndBefore(more, (N + 1) + 1) = IF token.kind = "word" THEN token.start + token.len ELSE end
  BY <1>1, <1>3, <1>5, <1>6
<1>8. ASSUME NEW i \in 1 .. Len(more), more[i].kind = "word" PROVE more[i].start = EndBefore(more, i)
  <2>1. CASE i = N + 1
    BY <1>1, <1>6, <1>8, <2>1
  <2>2. CASE i # N + 1
    <3>1. i \in 1 .. N /\ i \in 1 .. N + 1
      BY <1>1, <2>2
    <3>2. QED
      BY <1>1, <1>2, <1>4, <1>8, <3>1
  <2>3. QED
    BY <2>1, <2>2
<1>9. EndBefore(more, Len(more) + 1) = IF token.kind = "word" THEN token.start + token.len ELSE end
  BY <1>1, <1>7
<1>10. QED
  BY <1>8, <1>9 DEF TokensTile, more

\* The word in progress, if there is one, becomes a token.
LEMMA EndWordTiles ==
    ASSUME NEW s, Tiled(s), ~s.in_single, ~s.in_double, ~s.escape, s.error = ""
    PROVE  /\ Tiled(EndWord(s))
           /\ EndWord(s).parsed = s.parsed
           /\ ~EndWord(s).in_single /\ ~EndWord(s).in_double /\ ~EndWord(s).escape
           /\ EndWord(s).error = "too many tokens" \/ (EndWord(s).error = "" /\ ~EndWord(s).in_token)
<1> DEFINE len == Len(s.parsed) - s.start
           token == [kind |-> "word", start |-> s.start, len |-> len]
           p == PushToken(s, "word", s.start, len)
           t == EndWord(s)
<1>1. /\ s \in Scanner /\ s.start \in Nat /\ s.tokens \in Seq(Token)
      /\ TokensTile(s.tokens, IF s.in_token THEN s.start ELSE Len(s.parsed))
  BY ScannerFacts DEF Tiled, TokensTile
<1>5. /\ Len(s.parsed) \in Nat /\ s.start \in Nat
      /\ s.in_token => s.start <= Len(s.parsed)
  BY <1>1, ScannerFacts DEF Tiled
<1>2. CASE ~s.in_token
  BY <1>2 DEF EndWord
<1>3. CASE s.in_token
  <2>1. len \in Nat /\ s.start + len = Len(s.parsed)
    BY <1>3, <1>5, Lengths, Zenon
  <2> HIDE DEF len
  <2>2. token \in Token /\ token.kind = "word" /\ token.start = s.start /\ token.len = len
    BY <1>1, <2>1 DEF Token
  <2>3. p \in Scanner /\ IsTokenPushed(p, s, token)
    BY <1>1, <2>1, PushTokenFields
  <2>4. TokensTile(Append(s.tokens, token), Len(s.parsed))
    <3> HIDE DEF token
    <3>1. TokensTile(s.tokens, s.start)
      BY <1>1, <1>3
    <3>2. TokensTile(Append(s.tokens, token),
                     IF token.kind = "word" THEN token.start + token.len ELSE s.start)
      BY <1>1, <2>2, <3>1, AppendTiles
    <3>3. QED
      BY <2>1, <2>2, <3>2
  <2>5. t = IF p.error # "" THEN p ELSE [p EXCEPT !.in_token = FALSE]
    BY <1>3, Zenon DEF EndWord, len
  <2> HIDE DEF token, p, t
  <2>6. CASE Len(s.tokens) >= MaxTokens
    <3>1. p.tokens = s.tokens /\ p.error = "too many tokens"
      BY <2>3, <2>6 DEF IsTokenPushed
    <3>2. t = p
      BY <2>5, <3>1
    <3>3. Tiled(p)
      BY <1>1, <1>3, <2>3, <3>1 DEF IsTokenPushed, Tiled, TokensTile
    <3>4. QED
      BY <2>3, <3>1, <3>2, <3>3 DEF IsTokenPushed, t
  <2>7. CASE ~(Len(s.tokens) >= MaxTokens)
    <3>1. p.tokens = Append(s.tokens, token) /\ p.error = ""
      BY <2>3, <2>7 DEF IsTokenPushed
    <3>2. t = [p EXCEPT !.in_token = FALSE]
      BY <2>5, <3>1
    <3>3. /\ t \in Scanner /\ t.tokens = p.tokens /\ t.parsed = p.parsed /\ ~t.in_token
          /\ t.error = "" /\ ~t.in_single /\ ~t.in_double /\ ~t.escape
      BY <2>3, <3>1, <3>2 DEF Scanner, IsTokenPushed
    <3>4. t.parsed = s.parsed
      BY <2>3, <3>3 DEF IsTokenPushed
    <3>5. Tiled(t)
      BY <2>4, <3>1, <3>3, <3>4 DEF Tiled, TokensTile
    <3>6. QED
      BY <3>3, <3>4, <3>5 DEF t
  <2>8. QED
    BY <2>6, <2>7
<1>4. QED
  BY <1>1, <1>2, <1>3 DEF t

\* An operator takes no place in the buffer.
LEMMA OperatorTiles ==
    ASSUME NEW s, Tiled(s), ~s.in_token, s.error = "", NEW op \in Ops
    PROVE  /\ Tiled(PushToken(s, op, 0, 0))
           /\ PushToken(s, op, 0, 0).parsed = s.parsed
           /\ PushToken(s, op, 0, 0).error \in {"", "too many tokens"}
<1> DEFINE token == [kind |-> op, start |-> 0, len |-> 0]
           p == PushToken(s, op, 0, 0)
<1>1. /\ s \in Scanner /\ s.tokens \in Seq(Token)
      /\ TokensTile(s.tokens, Len(s.parsed))
      /\ ~s.in_single /\ ~s.in_double /\ ~s.escape
  BY ScannerFacts DEF Tiled, TokensTile
<1>2. token \in Token /\ token.kind # "word"
  BY DEF Token, Ops
<1>3. p \in Scanner /\ IsTokenPushed(p, s, token)
  BY <1>1, PushTokenFields
<1> HIDE DEF token, p
<1>4. TokensTile(Append(s.tokens, token), Len(s.parsed))
  BY <1>1, <1>2, AppendTiles
<1>5. TokensTile(p.tokens, Len(s.parsed)) /\ p.error \in {"", "too many tokens"}
  BY <1>1, <1>3, <1>4 DEF IsTokenPushed
<1>6. Tiled(p)
  BY <1>1, <1>3, <1>5 DEF IsTokenPushed, Tiled, TokensTile
<1>7. QED
  BY <1>3, <1>5, <1>6 DEF IsTokenPushed, p

\* A word begins where the last one ended.
LEMMA BeginWordTiles ==
    ASSUME NEW s, Tiled(s), s.error = ""
    PROVE  /\ Tiled(BeginWord(s))
           /\ BeginWord(s).parsed = s.parsed /\ BeginWord(s).error = ""
           /\ BeginWord(s).in_token
<1> DEFINE t == BeginWord(s)
<1>1. s \in Scanner /\ Len(s.parsed) \in Nat
  BY ScannerFacts DEF Tiled
<1>2. CASE s.in_token
  BY <1>2 DEF BeginWord
<1>3. CASE ~s.in_token
  <2>1. t = [s EXCEPT !.start = Len(s.parsed), !.in_token = TRUE]
    BY <1>3 DEF BeginWord
  <2> HIDE DEF t
  <2>2. /\ t \in Scanner /\ t.tokens = s.tokens /\ t.parsed = s.parsed /\ t.in_token
        /\ t.start = Len(s.parsed) /\ t.error = ""
    BY <1>1, <2>1 DEF Scanner
  <2>3. Tiled(t)
    <3>1. /\ EndBefore(t.tokens, Len(t.tokens) + 1) = Len(t.parsed)
          /\ \A i \in 1 .. Len(t.tokens) :
                t.tokens[i].kind = "word" => t.tokens[i].start = EndBefore(t.tokens, i)
      BY <1>3, <2>2 DEF Tiled
    <3>2. t.start <= Len(t.parsed)
      <4>1. t.start = Len(s.parsed) /\ Len(t.parsed) = Len(s.parsed)
        BY <2>2
      <4>2. QED
        BY <1>1, <4>1, Lengths, Zenon
    <3>3. QED
      BY <2>2, <3>1, <3>2 DEF Tiled
  <2>4. QED
    BY <2>2, <2>3 DEF t
<1>4. QED
  BY <1>2, <1>3

-----------------------------------------------------------------------------
(* The scanner.                                                            *)

\* A record with the quoting changed, inside a word.
LEMMA QuotingTiles ==
    ASSUME NEW s, Tiled(s), s.in_token
    PROVE  /\ Tiled([s EXCEPT !.escape = FALSE]) /\ Tiled([s EXCEPT !.escape = TRUE])
           /\ Tiled([s EXCEPT !.in_single = FALSE]) /\ Tiled([s EXCEPT !.in_single = TRUE])
           /\ Tiled([s EXCEPT !.in_double = FALSE]) /\ Tiled([s EXCEPT !.in_double = TRUE])
<1>1. s \in Scanner
  BY DEF Tiled
<1>2. ASSUME NEW t \in Scanner, t.parsed = s.parsed, t.tokens = s.tokens, t.start = s.start,
             t.in_token = s.in_token
      PROVE  Tiled(t)
  BY <1>2 DEF Tiled
<1>3. ASSUME NEW b \in BOOLEAN
      PROVE  /\ Tiled([s EXCEPT !.escape = b])
             /\ Tiled([s EXCEPT !.in_single = b])
             /\ Tiled([s EXCEPT !.in_double = b])
  <2>1. Tiled([s EXCEPT !.escape = b])
    <3> DEFINE t == [s EXCEPT !.escape = b]
    <3>1. /\ t \in Scanner /\ t.parsed = s.parsed /\ t.tokens = s.tokens
          /\ t.start = s.start /\ t.in_token = s.in_token
      BY <1>1 DEF Scanner
    <3> HIDE DEF t
    <3>2. Tiled(t)
      BY <1>2, <3>1
    <3>3. QED
      BY <3>2 DEF t
  <2>2. Tiled([s EXCEPT !.in_single = b])
    <3> DEFINE t == [s EXCEPT !.in_single = b]
    <3>1. /\ t \in Scanner /\ t.parsed = s.parsed /\ t.tokens = s.tokens
          /\ t.start = s.start /\ t.in_token = s.in_token
      BY <1>1 DEF Scanner
    <3> HIDE DEF t
    <3>2. Tiled(t)
      BY <1>2, <3>1
    <3>3. QED
      BY <3>2 DEF t
  <2>3. Tiled([s EXCEPT !.in_double = b])
    <3> DEFINE t == [s EXCEPT !.in_double = b]
    <3>1. /\ t \in Scanner /\ t.parsed = s.parsed /\ t.tokens = s.tokens
          /\ t.start = s.start /\ t.in_token = s.in_token
      BY <1>1 DEF Scanner
    <3> HIDE DEF t
    <3>2. Tiled(t)
      BY <1>2, <3>1
    <3>3. QED
      BY <3>2 DEF t
  <2>4. QED
    BY <2>1, <2>2, <2>3
<1>4. TRUE \in BOOLEAN /\ FALSE \in BOOLEAN
  OBVIOUS
<1>5. QED
  BY <1>3, <1>4

\* What the scanner does with one character: it adds it to the buffer at most, and
\* finds the line too long only where the buffer is full.
IsScanned(t, s) ==
    /\ Tiled(t)
    /\ Len(t.parsed) <= Len(s.parsed) + 1
    /\ t.error = "line too long" => Len(s.parsed) >= MaxParsed

LEMMA SameIsScanned ==
    ASSUME NEW s, Tiled(s), NEW t, Tiled(t), t.parsed = s.parsed, t.error # "line too long"
    PROVE  IsScanned(t, s)
<1>1. Len(s.parsed) \in Nat
  BY ScannerFacts DEF Tiled
<1>2. Len(t.parsed) <= Len(s.parsed) + 1
  BY <1>1, Lengths, Zenon
<1>3. QED
  BY <1>2 DEF IsScanned

LEMMA PushedIsScanned ==
    ASSUME NEW s, NEW r, Tiled(r), r.in_token, r.parsed = s.parsed, r.error = "", NEW c \in Chars
    PROVE  IsScanned(PushChar(r, c), s)
<1>1. /\ Tiled(PushChar(r, c))
      /\ Len(PushChar(r, c).parsed) <= Len(s.parsed) + 1
      /\ PushChar(r, c).error = IF Len(s.parsed) >= MaxParsed THEN "line too long" ELSE ""
  BY PushCharTiles
<1>2. QED
  BY <1>1 DEF IsScanned

\* Inside quotes, behind a backslash and outside of both, as the code tells them
\* apart.
LEMMA ScannedCases ==
    ASSUME NEW s, NEW c
    PROVE  /\ s.escape => Scanned(s, c) = PushChar([s EXCEPT !.escape = FALSE], c)
           /\ ~s.escape /\ s.in_single =>
                 /\ c = "'" => Scanned(s, c) = [s EXCEPT !.in_single = FALSE]
                 /\ c # "'" => Scanned(s, c) = PushChar(s, c)
           /\ ~s.escape /\ ~s.in_single /\ s.in_double =>
                 /\ c = "\"" => Scanned(s, c) = [s EXCEPT !.in_double = FALSE]
                 /\ c = "\\" => Scanned(s, c) = [s EXCEPT !.escape = TRUE]
                 /\ c # "\"" /\ c # "\\" => Scanned(s, c) = PushChar(s, c)
           /\ ~s.escape /\ ~s.in_single /\ ~s.in_double =>
                 /\ c = Blank => Scanned(s, c) = EndWord(s)
                 /\ c = "'" => Scanned(s, c) = [BeginWord(s) EXCEPT !.in_single = TRUE]
                 /\ c = "\"" => Scanned(s, c) = [BeginWord(s) EXCEPT !.in_double = TRUE]
                 /\ c = "\\" => Scanned(s, c) = [BeginWord(s) EXCEPT !.escape = TRUE]
                 /\ c \in Ops => Scanned(s, c) = IF EndWord(s).error # "" THEN EndWord(s)
                                                ELSE PushToken(EndWord(s), c, 0, 0)
                 /\ c \notin {Blank, "'", "\"", "\\"} \cup Ops =>
                       Scanned(s, c) = PushChar(BeginWord(s), c)
  BY DEF Scanned, Blank, Ops

LEMMA ScannedTiles ==
    ASSUME NEW s, Tiled(s), s.error = "", NEW c \in Chars
    PROVE  IsScanned(Scanned(s, c), s)
<1> DEFINE t == Scanned(s, c)
<1>1. s \in Scanner /\ (s.in_single \/ s.in_double \/ s.escape => s.in_token)
  BY DEF Tiled
<1>2. CASE s.escape
  <2> DEFINE r == [s EXCEPT !.escape = FALSE]
  <2>1. r.parsed = s.parsed /\ r.error = s.error /\ r.in_token = s.in_token
    BY <1>1 DEF Scanner
  <2>2. Tiled(r)
    BY <1>1, <1>2, QuotingTiles
  <2> HIDE DEF r
  <2>3. IsScanned(PushChar(r, c), s)
    BY <1>1, <1>2, <2>1, <2>2, PushedIsScanned
  <2>4. QED
    BY <1>2, <2>3, ScannedCases DEF r
<1>3. CASE ~s.escape /\ s.in_single
  <2>1. CASE c = "'"
    <3> DEFINE r == [s EXCEPT !.in_single = FALSE]
    <3>1. r.parsed = s.parsed /\ r.error = s.error
      BY <1>1 DEF Scanner
    <3>2. Tiled(r)
      BY <1>1, <1>3, QuotingTiles
    <3> HIDE DEF r
    <3>3. IsScanned(r, s)
      BY <3>1, <3>2, SameIsScanned
    <3>4. QED
      BY <1>3, <2>1, <3>3, ScannedCases DEF r
  <2>2. CASE c # "'"
    <3>1. Scanned(s, c) = PushChar(s, c)
      BY <1>3, <2>2, ScannedCases
    <3>2. IsScanned(PushChar(s, c), s)
      BY <1>1, <1>3, PushedIsScanned
    <3>3. QED
      BY <3>1, <3>2
  <2>3. QED
    BY <2>1, <2>2
<1>4. CASE ~s.escape /\ ~s.in_single /\ s.in_double
  <2>1. CASE c = "\""
    <3> DEFINE r == [s EXCEPT !.in_double = FALSE]
    <3>1. r.parsed = s.parsed /\ r.error = s.error
      BY <1>1 DEF Scanner
    <3>2. Tiled(r)
      BY <1>1, <1>4, QuotingTiles
    <3> HIDE DEF r
    <3>3. IsScanned(r, s)
      BY <3>1, <3>2, SameIsScanned
    <3>4. QED
      BY <1>4, <2>1, <3>3, ScannedCases DEF r
  <2>2. CASE c = "\\"
    <3> DEFINE r == [s EXCEPT !.escape = TRUE]
    <3>1. r.parsed = s.parsed /\ r.error = s.error
      BY <1>1 DEF Scanner
    <3>2. Tiled(r)
      BY <1>1, <1>4, QuotingTiles
    <3> HIDE DEF r
    <3>3. IsScanned(r, s)
      BY <3>1, <3>2, SameIsScanned
    <3>4. QED
      BY <1>4, <2>2, <3>3, ScannedCases DEF r
  <2>3. CASE c # "\"" /\ c # "\\"
    <3>1. Scanned(s, c) = PushChar(s, c)
      BY <1>4, <2>3, ScannedCases
    <3>2. IsScanned(PushChar(s, c), s)
      BY <1>1, <1>4, PushedIsScanned
    <3>3. QED
      BY <3>1, <3>2
  <2>4. QED
    BY <2>1, <2>2, <2>3
<1>5. CASE ~s.escape /\ ~s.in_single /\ ~s.in_double
  <2> DEFINE b == BeginWord(s)
             e == EndWord(s)
  <2>1. Tiled(b) /\ b.parsed = s.parsed /\ b.error = "" /\ b.in_token /\ b \in Scanner
    BY BeginWordTiles DEF Tiled
  <2>2. /\ Tiled(e) /\ e.parsed = s.parsed
        /\ e.error = "too many tokens" \/ (e.error = "" /\ ~e.in_token)
    BY <1>5, EndWordTiles
  <2> HIDE DEF b, e
  <2>3. IsScanned(e, s)
    BY <2>2, SameIsScanned
  <2>4. CASE c = Blank
    BY <1>5, <2>3, <2>4, ScannedCases DEF e
  <2>5. CASE c = "'"
    <3> DEFINE r == [b EXCEPT !.in_single = TRUE]
    <3>1. r.parsed = s.parsed /\ r.error = ""
      BY <2>1 DEF Scanner
    <3>2. Tiled(r)
      BY <2>1, QuotingTiles
    <3> HIDE DEF r
    <3>3. IsScanned(r, s)
      BY <3>1, <3>2, SameIsScanned
    <3>4. QED
      BY <1>5, <2>5, <3>3, ScannedCases DEF r, b
  <2>6. CASE c = "\""
    <3> DEFINE r == [b EXCEPT !.in_double = TRUE]
    <3>1. r.parsed = s.parsed /\ r.error = ""
      BY <2>1 DEF Scanner
    <3>2. Tiled(r)
      BY <2>1, QuotingTiles
    <3> HIDE DEF r
    <3>3. IsScanned(r, s)
      BY <3>1, <3>2, SameIsScanned
    <3>4. QED
      BY <1>5, <2>6, <3>3, ScannedCases DEF r, b
  <2>7. CASE c = "\\"
    <3> DEFINE r == [b EXCEPT !.escape = TRUE]
    <3>1. r.parsed = s.parsed /\ r.error = ""
      BY <2>1 DEF Scanner
    <3>2. Tiled(r)
      BY <2>1, QuotingTiles
    <3> HIDE DEF r
    <3>3. IsScanned(r, s)
      BY <3>1, <3>2, SameIsScanned
    <3>4. QED
      BY <1>5, <2>7, <3>3, ScannedCases DEF r, b
  <2>8. CASE c \in Ops
    <3>1. CASE e.error # ""
      BY <1>5, <2>3, <2>8, <3>1, ScannedCases DEF e
    <3>2. CASE e.error = ""
      <4> DEFINE p == PushToken(e, c, 0, 0)
      <4>1. Tiled(p) /\ p.parsed = e.parsed /\ p.error \in {"", "too many tokens"}
        BY <2>2, <2>8, <3>2, OperatorTiles
      <4>2. Scanned(s, c) = p
        BY <1>5, <2>8, <3>2, ScannedCases DEF e
      <4> HIDE DEF p
      <4>3. QED
        BY <2>2, <4>1, <4>2, SameIsScanned
    <3>3. QED
      BY <3>1, <3>2
  <2>9. CASE c \notin {Blank, "'", "\"", "\\"} \cup Ops
    <3>1. IsScanned(PushChar(b, c), s)
      BY <2>1, PushedIsScanned
    <3>2. QED
      BY <1>5, <2>9, <3>1, ScannedCases DEF b
  <2>10. QED
    BY <2>4, <2>5, <2>6, <2>7, <2>8, <2>9
<1>6. QED
  BY <1>2, <1>3, <1>4, <1>5

LEMMA AtEndTiles ==
    ASSUME NEW s, Tiled(s), s.error = ""
    PROVE  /\ Tiled(AtEnd(s)) /\ AtEnd(s).parsed = s.parsed
           /\ AtEnd(s).error # "line too long"
<1>1. s \in Scanner
  BY DEF Tiled
<1>2. ASSUME NEW m \in {"trailing escape", "unclosed quote"}
      PROVE  Tiled(Fails(s, m)) /\ Fails(s, m).parsed = s.parsed /\ Fails(s, m).error = m
  <2> DEFINE t == Fails(s, m)
  <2>1. /\ t \in Scanner /\ t.parsed = s.parsed /\ t.tokens = s.tokens /\ t.start = s.start
        /\ t.in_token = s.in_token /\ t.error = m
        /\ t.in_single = s.in_single /\ t.in_double = s.in_double /\ t.escape = s.escape
    BY <1>1 DEF Fails, Scanner
  <2> HIDE DEF t
  <2>2. Tiled(t)
    BY <2>1 DEF Tiled
  <2>3. QED
    BY <2>1, <2>2 DEF t
<1>3. CASE s.escape
  BY <1>2, <1>3 DEF AtEnd
<1>4. CASE ~s.escape /\ (s.in_single \/ s.in_double)
  BY <1>2, <1>4 DEF AtEnd
<1>5. CASE ~s.escape /\ ~s.in_single /\ ~s.in_double
  <2>1. AtEnd(s) = EndWord(s)
    BY <1>5 DEF AtEnd
  <2>2. QED
    BY <1>5, <2>1, EndWordTiles
<1>6. QED
  BY <1>3, <1>4, <1>5

-----------------------------------------------------------------------------
(* The steps.                                                              *)

LEMMA InitScannerInv == Init => ScannerInv
<1> SUFFICES ASSUME Init PROVE ScannerInv
  OBVIOUS
<1>1. << >> \in Seq(Chars) /\ << >> \in Seq(Token) /\ Len(<< >>) = 0
  BY EmptySeq
<1>2. /\ NewScan \in Scanner /\ NewScan.tokens = << >> /\ NewScan.parsed = << >>
      /\ ~NewScan.in_token /\ ~NewScan.in_single /\ ~NewScan.in_double /\ ~NewScan.escape
      /\ NewScan.error = ""
  BY <1>1 DEF NewScan, Scanner
<1>3. EndBefore(<< >>, Len(<< >>) + 1) = 0
  BY <1>1 DEF EndBefore, LastEnd, WordsBefore
<1>4. Tiled(NewScan)
  <2> DEFINE s == NewScan
  <2> HIDE DEF s
  <2>1. \A i : ~(i \in 1 .. 0)
    OBVIOUS
  <2>2. \A i \in 1 .. Len(s.tokens) : s.tokens[i].kind = "word" => s.tokens[i].start = EndBefore(s.tokens, i)
    BY <1>1, <1>2, <2>1 DEF s
  <2>3. EndBefore(s.tokens, Len(s.tokens) + 1) = IF s.in_token THEN s.start ELSE Len(s.parsed)
    BY <1>1, <1>2, <1>3, Zenon DEF s
  <2>4. QED
    BY <1>2, <2>2, <2>3, Zenon DEF Tiled, s
<1>5. scan = NewScan /\ line = << >> /\ at = "scanning"
  BY DEF Init
<1>6. Len(scan.parsed) <= Len(line)
  <2>1. Len(scan.parsed) = 0 /\ Len(line) = 0
    BY <1>1, <1>2, <1>5, Zenon
  <2>2. 0 \in Nat
    OBVIOUS
  <2>3. QED
    BY <2>1, <2>2, Lengths, Zenon
<1>7. QED
  BY <1>1, <1>2, <1>4, <1>5, <1>6, Zenon DEF ScannerInv

LEMMA ScanKeepsInv ==
    ASSUME ScannerInv, NEW c \in Chars, Scan(c)
    PROVE  ScannerInv'
<1>1. /\ Tiled(scan) /\ scan.error = "" /\ line \in Seq(Chars)
      /\ Len(scan.parsed) <= Len(line) /\ Len(line) < MaxParsed
  BY DEF ScannerInv, Scan
<1>2. IsScanned(scan', scan)
  <2>1. IsScanned(Scanned(scan, c), scan)
    BY <1>1, ScannedTiles
  <2>2. QED
    BY <2>1 DEF Scan
<1>3. Tiled(scan') /\ scan'.parsed \in Seq(Chars) /\ Len(scan'.parsed) \in Nat
  <2>1. Tiled(scan')
    BY <1>2 DEF IsScanned
  <2>2. scan' \in Scanner
    BY <2>1 DEF Tiled
  <2>3. QED
    BY <2>1, <2>2, ScannerFacts
<1>4. Len(scan.parsed) \in Nat /\ Len(line) \in Nat /\ MaxParsed \in Nat
  BY <1>1, ScannerFacts, LenProperties, TokenizerSizes DEF Tiled
<1>5. line' \in Seq(Chars) /\ Len(line') = Len(line) + 1
  BY <1>1, AppendProperties DEF Scan
<1>6. Len(scan'.parsed) <= Len(scan.parsed) + 1
      /\ (scan'.error = "line too long" => Len(scan.parsed) >= MaxParsed)
  BY <1>2 DEF IsScanned
<1>7. Len(scan'.parsed) <= Len(line')
  <2>1. Len(line') \in Nat
    BY <1>5, LenProperties
  <2>2. QED
    BY <1>1, <1>3, <1>4, <1>5, <1>6, <2>1, LengthBounds, Zenon
<1>8. ~(Len(scan.parsed) >= MaxParsed)
  BY <1>1, <1>4, LengthBounds, Zenon
<1>9. at' = "scanning" => scan'.error = ""
  BY DEF Scan, Refuse
<1>10. QED
  BY <1>3, <1>5, <1>6, <1>7, <1>8, <1>9 DEF ScannerInv

LEMMA StepScannerInv == ScannerInv /\ [Next]_tokenizerVars => ScannerInv'
<1> SUFFICES ASSUME ScannerInv, [Next]_tokenizerVars PROVE ScannerInv'
  OBVIOUS
<1>1. ASSUME NEW c \in Chars, Scan(c) PROVE ScannerInv'
  BY <1>1, ScanKeepsInv
<1>2. CASE EndOfLine
  <2>1. Tiled(scan) /\ scan.error = "" /\ scan' = AtEnd(scan) /\ line' = line
    BY <1>2 DEF EndOfLine, ScannerInv
  <2>2. Tiled(scan') /\ scan'.parsed = scan.parsed /\ scan'.error # "line too long"
    BY <2>1, AtEndTiles
  <2>3. at' # "scanning"
    BY <1>2 DEF EndOfLine, Refuse
  <2>4. QED
    BY <2>1, <2>2, <2>3 DEF ScannerInv
<1>3. CASE ParseStage
  <2>1. scan' = scan /\ line' = line /\ at' # "scanning"
    BY <1>3 DEF ParseStage, Refuse
  <2>2. QED
    BY <2>1 DEF ScannerInv
<1>4. CASE UNCHANGED tokenizerVars
  BY <1>4 DEF tokenizerVars, ScannerInv
<1>5. QED
  BY <1>1, <1>2, <1>3, <1>4 DEF Next

-----------------------------------------------------------------------------
(* Theorems about the scanner.                                             *)

\* No line breaks the invariant.
THEOREM ScannerInvariance == Spec => []ScannerInv
  BY InitScannerInv, StepScannerInv, PTL DEF Spec

\* For every line and all limits, the words that tokenize_command finds lie in
\* the parsed buffer one behind the other without gap or overlap, and the buffer,
\* as long as a line may be, never overflows.
THEOREM WordsTileBuffer == Spec => []TokensTileParsed
<1>1. ScannerInv => TokensTileParsed
  BY DEF ScannerInv, Tiled, TokensTileParsed
<1>2. QED
  BY <1>1, ScannerInvariance, PTL

-----------------------------------------------------------------------------
(* Positions.                                                              *)

\* How many of a set's positions come before a position.
Rank(I, i) == Cardinality({j \in I : j < i})

\* A set of positions is finite, and a later position has a greater rank.
LEMMA Ranks ==
    ASSUME NEW N \in Nat, NEW I \in SUBSET (0 .. N)
    PROVE  /\ IsFiniteSet(I) /\ Cardinality(I) \in Nat
           /\ \A i \in I : Rank(I, i) \in Nat /\ Rank(I, i) < Cardinality(I)
           /\ \A i, j \in I : i < j => Rank(I, i) < Rank(I, j)
<1> DEFINE B(i) == {j \in I : j < i}
<1>1. IsFiniteSet(I) /\ Cardinality(I) \in Nat
  <2>1. IsFiniteSet(0 .. N)
    BY FS_Interval
  <2>2. IsFiniteSet(I)
    BY <2>1, FS_Subset
  <2>3. QED
    BY <2>2, FS_CardinalityType
<1>2. ASSUME NEW i
      PROVE  IsFiniteSet(B(i)) /\ Cardinality(B(i)) \in Nat
  <2>1. B(i) \in SUBSET I
    OBVIOUS
  <2> HIDE DEF B
  <2>2. IsFiniteSet(B(i))
    BY <1>1, <2>1, FS_Subset
  <2>3. QED
    BY <2>2, FS_CardinalityType
<1>3. ASSUME NEW S, IsFiniteSet(S), Cardinality(S) \in Nat, NEW T \in SUBSET S, NEW x \in S, x \notin T,
             Cardinality(T) \in Nat
      PROVE  Cardinality(T) < Cardinality(S)
  <2>1. Cardinality(T) <= Cardinality(S) /\ (Cardinality(S) = Cardinality(T) => S = T)
    BY <1>3, FS_Subset
  <2>2. QED
    BY <1>3, <2>1
<1>4. ASSUME NEW i \in I PROVE Cardinality(B(i)) < Cardinality(I)
  <2>1. B(i) \in SUBSET I /\ i \notin B(i)
    OBVIOUS
  <2> HIDE DEF B
  <2>2. QED
    BY <1>1, <1>2, <1>3, <2>1
<1>5. ASSUME NEW i \in I, NEW j \in I, i < j PROVE Cardinality(B(i)) < Cardinality(B(j))
  <2>1. B(i) \in SUBSET B(j) /\ i \in B(j) /\ i \notin B(i)
    <3>1. i \in Nat /\ j \in Nat /\ \A k \in I : k \in Nat
      OBVIOUS
    <3>2. \A k \in I : k < i => k < j
      BY <1>5, <3>1
    <3>3. ~(i < i)
      BY <3>1
    <3>4. QED
      BY <1>5, <3>2, <3>3
  <2> HIDE DEF B
  <2>2. QED
    BY <1>2, <1>3, <2>1
<1>6. QED
  BY <1>1, <1>2, <1>4, <1>5 DEF Rank

\* A set of positions with one behind them all.
Extends(J, I, m, N) ==
    N \in Nat /\ I \in SUBSET (0 .. N) /\ m \in Nat /\ (\A i \in I : i < m) /\ J = I \cup {m}

\* It leaves the ranks of the others, and adds one.
RanksKept(J, I, m) ==
    /\ Cardinality(J) = Cardinality(I) + 1 /\ Rank(J, m) = Cardinality(I)
    /\ \A i \in I : Rank(J, i) = Rank(I, i)

LEMMA RankBehind ==
    ASSUME NEW N, NEW I, NEW m, NEW J, Extends(J, I, m, N)
    PROVE  RanksKept(J, I, m)
<1>1. /\ N \in Nat /\ I \in SUBSET (0 .. N) /\ m \in Nat /\ (\A i \in I : i < m)
      /\ J = I \cup {m}
  BY DEF Extends
<1>2. IsFiniteSet(I) /\ m \notin I
  <2>1. IsFiniteSet(I)
    BY <1>1, Ranks
  <2>2. ~(m < m)
    BY <1>1
  <2>3. QED
    BY <1>1, <2>1, <2>2, Zenon
<1>3. Cardinality(J) = Cardinality(I) + 1
  BY <1>1, <1>2, FS_AddElement
<1>4. ASSUME NEW i \in I PROVE Rank(J, i) = Rank(I, i)
  <2>1. ~(m < i)
    BY <1>1
  <2>2. {j \in J : j < i} = {j \in I : j < i}
    BY <1>1, <2>1, Zenon
  <2>3. QED
    BY <2>2 DEF Rank
<1>5. {j \in J : j < m} = I
  <2>1. ~(m < m)
    BY <1>1
  <2>2. QED
    BY <1>1, <2>1, Zenon
<1>6. QED
  BY <1>3, <1>4, <1>5 DEF Rank, RanksKept

\* There is an n-th position, and only one.
LEMMA NthPosition ==
    ASSUME NEW N \in Nat, NEW I \in SUBSET (0 .. N), NEW n \in 1 .. Cardinality(I)
    PROVE  Nth(I, n) \in I /\ Rank(I, Nth(I, n)) = n - 1
<1> DEFINE Ranked(J) == \A k \in 1 .. Cardinality(J) : \E i \in J : Rank(J, i) = k - 1
           S == {b \in Nat : \A J \in SUBSET (0 .. b - 1) : Ranked(J)}
<1>1. 0 \in S
  <2>1. ASSUME NEW J \in SUBSET (0 .. 0 - 1) PROVE Ranked(J)
    <3>1. J = {}
      OBVIOUS
    <3>2. Cardinality(J) = 0
      BY <3>1, FS_EmptySet
    <3>3. QED
      BY <3>2
  <2>2. QED
    BY <2>1
<1>2. ASSUME NEW b \in S PROVE b + 1 \in S
  <2>1. b \in Nat /\ b + 1 \in Nat /\ (b + 1) - 1 = b
    OBVIOUS
  <2>2. ASSUME NEW J \in SUBSET (0 .. b) PROVE Ranked(J)
    <3> DEFINE K == J \ {b}
    <3>1. K \in SUBSET (0 .. b - 1) /\ K \in SUBSET (0 .. b) /\ \A i \in K : i < b
      BY <2>1
    <3>2. Ranked(K)
      BY <1>2, <3>1
    <3>3. CASE b \notin J
      BY <3>2, <3>3
    <3>4. CASE b \in J
      <4>1. J = K \cup {b}
        BY <3>4
      <4> HIDE DEF K
      <4>2. Cardinality(K) \in Nat
        BY <2>1, <3>1, Ranks
      <4>3. /\ Cardinality(J) = Cardinality(K) + 1
            /\ \A i \in K : Rank(J, i) = Rank(K, i)
            /\ Rank(J, b) = Cardinality(K)
        <5>1. Extends(J, K, b, b)
          BY <2>1, <3>1, <4>1 DEF Extends
        <5>2. QED
          BY <5>1, RankBehind DEF RanksKept
      <4>4. ASSUME NEW k \in 1 .. Cardinality(J) PROVE \E i \in J : Rank(J, i) = k - 1
        <5>1. CASE k = Cardinality(K) + 1
          BY <3>4, <4>2, <4>3, <5>1
        <5>2. CASE k # Cardinality(K) + 1
          <6>1. k \in 1 .. Cardinality(K)
            BY <4>2, <4>3, <5>2
          <6>2. PICK i \in K : Rank(K, i) = k - 1
            BY <3>2, <6>1
          <6>3. QED
            BY <4>1, <4>3, <6>2
        <5>3. QED
          BY <5>1, <5>2
      <4>5. QED
        BY <4>4
    <3>5. QED
      BY <3>3, <3>4
  <2> HIDE DEF Ranked
  <2>3. QED
    BY <2>1, <2>2
<1>3. S \in SUBSET Nat
  OBVIOUS
<1> HIDE DEF S
<1>4. S = Nat
  BY <1>1, <1>2, <1>3, SetInduction
<1>5. Ranked(I)
  <2>1. N + 1 \in S /\ (N + 1) - 1 = N
    BY <1>4
  <2> HIDE DEF Ranked
  <2>2. QED
    BY <2>1 DEF S
<1>6. QED
  BY <1>5 DEF Nth, Rank

LEMMA NthIs ==
    ASSUME NEW N \in Nat, NEW I \in SUBSET (0 .. N), NEW n \in 1 .. Cardinality(I),
           NEW i \in I, Rank(I, i) = n - 1
    PROVE  Nth(I, n) = i
<1>1. Nth(I, n) \in I /\ Rank(I, Nth(I, n)) = n - 1
  BY NthPosition
<1> DEFINE m == Nth(I, n)
<1> HIDE DEF m
<1>2. m \in I /\ Rank(I, m) = n - 1
  BY <1>1 DEF m
<1>3. /\ \A k \in I : Rank(I, k) \in Nat
      /\ \A j, k \in I : j < k => Rank(I, j) < Rank(I, k)
  BY Ranks
<1>4. m = i
  BY <1>2, <1>3
<1>5. QED
  BY <1>4 DEF m

\* The positions so far stay the first ones when one is added behind them.
NthsKept(J, I, m) ==
    /\ Cardinality(J) = Cardinality(I) + 1
    /\ \A n \in 1 .. Cardinality(I) : Nth(J, n) = Nth(I, n)
    /\ Nth(J, Cardinality(I) + 1) = m

LEMMA NthBehind ==
    ASSUME NEW N, NEW I, NEW m, NEW J, Extends(J, I, m, N)
    PROVE  NthsKept(J, I, m)
<1> DEFINE c == Cardinality(I)
<1>0. /\ N \in Nat /\ I \in SUBSET (0 .. N) /\ m \in Nat /\ (\A i \in I : i < m)
      /\ J = I \cup {m}
  BY DEF Extends
<1>1. /\ J \in SUBSET (0 .. N + m) /\ Cardinality(J) = c + 1 /\ c \in Nat
      /\ \A i \in I : Rank(J, i) = Rank(I, i)
      /\ Rank(J, m) = c
  <2>1. Cardinality(I) \in Nat
    BY <1>0, Ranks
  <2>2. RanksKept(J, I, m)
    BY RankBehind
  <2>3. J \in SUBSET (0 .. N + m)
    BY <1>0
  <2>4. QED
    BY <2>1, <2>2, <2>3 DEF RanksKept
<1>2. m \in J /\ I \subseteq J /\ N + m \in Nat
  BY <1>0
<1>3. \A n \in 1 .. c : Nth(I, n) \in I /\ Rank(I, Nth(I, n)) = n - 1
  BY <1>0, NthPosition
<1> HIDE DEF c
<1>4. ASSUME NEW n \in 1 .. c PROVE Nth(J, n) = Nth(I, n)
  <2> DEFINE i == Nth(I, n)
  <2> HIDE DEF i
  <2>1. i \in I /\ Rank(I, i) = n - 1
    BY <1>3 DEF i
  <2>2. i \in J /\ Rank(J, i) = n - 1 /\ n \in 1 .. Cardinality(J)
    BY <1>1, <1>2, <2>1
  <2>3. Nth(J, n) = i
    BY <1>1, <1>2, <2>2, NthIs
  <2>4. QED
    BY <2>3 DEF i
<1>5. Nth(J, c + 1) = m
  <2>1. c + 1 \in 1 .. Cardinality(J) /\ Rank(J, m) = (c + 1) - 1
    BY <1>1
  <2>2. QED
    BY <1>1, <1>2, <2>1, NthIs
<1>6. QED
  BY <1>1, <1>4, <1>5 DEF c, NthsKept

\* There is none between a position and the next.
LEMMA NthNext ==
    ASSUME NEW N \in Nat, NEW I \in SUBSET (0 .. N), NEW n \in 1 .. Cardinality(I) - 1
    PROVE  /\ Nth(I, n) \in I /\ Nth(I, n + 1) \in I /\ Nth(I, n) < Nth(I, n + 1)
           /\ \A i \in I : ~(Nth(I, n) < i /\ i < Nth(I, n + 1))
<1>1. /\ \A k \in I : Rank(I, k) \in Nat /\ k \in Nat
      /\ \A j, k \in I : j < k => Rank(I, j) < Rank(I, k)
      /\ Cardinality(I) \in Nat
  <2>1. /\ \A k \in I : Rank(I, k) \in Nat
        /\ \A j, k \in I : j < k => Rank(I, j) < Rank(I, k)
        /\ Cardinality(I) \in Nat
    BY Ranks
  <2>2. \A k \in I : k \in Nat
    OBVIOUS
  <2>3. QED
    BY <2>1, <2>2
<1>2. n \in 1 .. Cardinality(I) /\ n + 1 \in 1 .. Cardinality(I) /\ n \in Nat
  BY <1>1
<1> DEFINE a == Nth(I, n)
           b == Nth(I, n + 1)
<1>3. a \in I /\ Rank(I, a) = n - 1 /\ b \in I /\ Rank(I, b) = (n + 1) - 1
  BY <1>2, NthPosition
<1> HIDE DEF a, b
<1>4. a < b
  <2>1. Rank(I, a) < Rank(I, b) /\ (b < a => Rank(I, b) < Rank(I, a)) /\ a # b
    BY <1>1, <1>2, <1>3
  <2>2. QED
    BY <1>1, <1>3, <2>1
<1>5. ASSUME NEW i \in I, a < i, i < b PROVE FALSE
  <2>1. Rank(I, a) < Rank(I, i) /\ Rank(I, i) < Rank(I, b) /\ Rank(I, i) \in Nat
    BY <1>1, <1>3, <1>5
  <2>2. QED
    BY <1>2, <1>3, <2>1
<1>6. QED
  BY <1>3, <1>4, <1>5 DEF a, b

\* A selection grows by the element at a position behind the others.
SelectionGrows(s, J, I, m) ==
    /\ Len(Selection(s, I)) = Cardinality(I)
    /\ Cardinality(J) = Cardinality(I) + 1
    /\ Selection(s, J) = Append(Selection(s, I), s[m])

LEMMA SelectionBehind ==
    ASSUME NEW S, NEW s \in Seq(S), NEW I, NEW m, NEW J, Extends(J, I, m, Len(s)),
           I \subseteq 1 .. Len(s), m \in 1 .. Len(s)
    PROVE  SelectionGrows(s, J, I, m)
<1> DEFINE c == Cardinality(I)
           N == Len(s)
<1>1. N \in Nat /\ \A i \in 1 .. N : s[i] \in S
  BY LenProperties, ElementOfSeq
<1>2. I \in SUBSET (0 .. N)
  BY DEF Extends
<1>3. c \in Nat
  BY <1>1, <1>2, Ranks
<1>0. NthsKept(J, I, m)
  BY NthBehind
<1> HIDE DEF N
<1>4. /\ Cardinality(J) = c + 1
      /\ \A n \in 1 .. c : Nth(J, n) = Nth(I, n)
      /\ Nth(J, c + 1) = m
  BY <1>0 DEF NthsKept
<1>5. \A n \in 1 .. c : Nth(I, n) \in I
  BY <1>1, <1>2, NthPosition
<1> HIDE DEF c
<1>6. \A n \in 1 .. c : s[Nth(I, n)] \in S
  BY <1>1, <1>5 DEF N
<1>7. Selection(s, I) = [n \in 1 .. c |-> s[Nth(I, n)]]
  BY DEF Selection, c
<1> DEFINE a == Selection(s, I)
           b == Selection(s, J)
<1>8. a \in Seq(S) /\ Len(a) = c
  BY <1>3, <1>6, <1>7
<1>9. b = [n \in 1 .. c + 1 |-> s[Nth(J, n)]]
  BY <1>4 DEF Selection
<1>10. s[m] \in S
  BY <1>1 DEF N
<1> HIDE DEF b
<1>11. \A n \in 1 .. c + 1 : b[n] = IF n <= c THEN a[n] ELSE s[m]
  <2> SUFFICES ASSUME NEW n \in 1 .. c + 1 PROVE b[n] = IF n <= c THEN a[n] ELSE s[m]
    OBVIOUS
  <2>1. CASE n <= c
    <3>1. n \in 1 .. c
      BY <1>3, <2>1
    <3>2. QED
      BY <1>4, <1>7, <1>9, <2>1, <3>1
  <2>2. CASE ~(n <= c)
    <3>1. n = c + 1
      BY <1>3, <2>2
    <3>2. QED
      BY <1>4, <1>9, <2>2, <3>1
  <2>3. QED
    BY <2>1, <2>2
<1> HIDE DEF a
<1>12. /\ Append(a, s[m]) \in Seq(S) /\ Len(Append(a, s[m])) = c + 1
       /\ \A n \in 1 .. c : Append(a, s[m])[n] = a[n]
       /\ Append(a, s[m])[c + 1] = s[m]
  BY <1>8, <1>10, AppendProperties
<1>13. b \in Seq(S) /\ Len(b) = c + 1
  <2>1. \A n \in 1 .. c + 1 : b[n] \in S
    <3>1. \A n \in 1 .. c : a[n] \in S
      BY <1>8, ElementOfSeq
    <3>2. \A n \in 1 .. c + 1 : n <= c => n \in 1 .. c
      BY <1>3
    <3>3. QED
      BY <1>10, <1>11, <3>1, <3>2
  <2>2. QED
    <3>1. b = [n \in 1 .. c + 1 |-> b[n]] /\ c + 1 \in Nat
      BY <1>3, <1>9
    <3>2. QED
      BY <2>1, <3>1
<1>14. b = Append(a, s[m])
  <2>1. \A n \in 1 .. Len(b) : b[n] = Append(a, s[m])[n]
    <3>1. \A n \in 1 .. c + 1 : n <= c \/ n = c + 1
      BY <1>3
    <3>2. ~(c + 1 <= c) /\ \A n \in 1 .. c + 1 : n <= c => n \in 1 .. c
      BY <1>3
    <3>3. QED
      BY <1>11, <1>12, <1>13, <3>1, <3>2
  <2>2. QED
    BY <1>12, <1>13, <2>1, SeqEqual
<1>15. QED
  BY <1>4, <1>8, <1>14 DEF a, b, c, SelectionGrows

LEMMA SelectionNone ==
    ASSUME NEW s
    PROVE  Selection(s, {}) = << >> /\ Cardinality({}) = 0
<1>1. Cardinality({}) = 0
  BY FS_EmptySet
<1>2. [n \in 1 .. 0 |-> s[Nth({}, n)]] = << >>
  OBVIOUS
<1>3. QED
  BY <1>1, <1>2 DEF Selection

\* The ends of the parts.
Ends(s, I) == I \cup {0, Len(s) + 1}

LEMMA EndsFacts ==
    ASSUME NEW S, NEW s \in Seq(S), NEW I \in SUBSET (1 .. Len(s))
    PROVE  /\ Len(s) + 1 \in Nat /\ Ends(s, I) \in SUBSET (0 .. Len(s) + 1)
           /\ Cardinality(Ends(s, I)) \in Nat /\ Cardinality(Ends(s, I)) >= 2
           /\ Parts(s, I) = [k \in 1 .. Cardinality(Ends(s, I)) - 1 |->
                               SubSeq(s, Nth(Ends(s, I), k) + 1, Nth(Ends(s, I), k + 1) - 1)]
<1> DEFINE E == Ends(s, I)
           N == Len(s)
<1>1. N \in Nat
  BY LenProperties
<1>2. E \in SUBSET (0 .. N + 1) /\ N + 1 \in Nat /\ 0 \in E /\ N + 1 \in E /\ 0 < N + 1
  <2>1. E = I \cup {0, N + 1} /\ I \in SUBSET (1 .. N)
    BY DEF Ends
  <2> HIDE DEF E, N
  <2>2. N + 1 \in Nat /\ 0 < N + 1 /\ 0 \in 0 .. N + 1 /\ N + 1 \in 0 .. N + 1
    BY <1>1
  <2>3. \A i \in 1 .. N : i \in 0 .. N + 1
    BY <1>1
  <2>4. QED
    BY <2>1, <2>2, <2>3
<1>3. Parts(s, I) = [k \in 1 .. Cardinality(E) - 1 |-> SubSeq(s, Nth(E, k) + 1, Nth(E, k + 1) - 1)]
  BY DEF Parts, Ends
<1> HIDE DEF E, N
<1>4. /\ Cardinality(E) \in Nat
      /\ \A i \in E : Rank(E, i) \in Nat /\ Rank(E, i) < Cardinality(E)
      /\ \A i, j \in E : i < j => Rank(E, i) < Rank(E, j)
  BY <1>2, Ranks
<1>5. Cardinality(E) >= 2
  BY <1>2, <1>4
<1>6. QED
  BY <1>2, <1>3, <1>4, <1>5 DEF E, N

\* There is at least one part; no part holds what is at one of the positions.
IsParted(parts, s, I, S) ==
    /\ parts \in Seq(Seq(S)) /\ Len(parts) \in Nat /\ Len(parts) >= 1
    /\ \A k \in 1 .. Len(parts) : \A i \in 1 .. Len(parts[k]) :
          \E j \in 1 .. Len(s) : j \notin I /\ parts[k][i] = s[j]

LEMMA PartsFacts ==
    ASSUME NEW S, NEW s \in Seq(S), NEW I \in SUBSET (1 .. Len(s))
    PROVE  IsParted(Parts(s, I), s, I, S)
<1> DEFINE E == Ends(s, I)
           N == Len(s)
           p == Parts(s, I)
           c == Cardinality(E) - 1
<1>1. /\ N \in Nat /\ N + 1 \in Nat /\ E \in SUBSET (0 .. N + 1)
      /\ Cardinality(E) \in Nat /\ Cardinality(E) >= 2
      /\ p = [k \in 1 .. c |-> SubSeq(s, Nth(E, k) + 1, Nth(E, k + 1) - 1)]
  BY EndsFacts, LenProperties
<1>2. \A i \in 1 .. N : s[i] \in S
  BY ElementOfSeq
<1>3. I \subseteq E
  BY DEF Ends
<1> HIDE DEF E, N, p
<1>4. c \in Nat /\ c >= 1
  BY <1>1
<1>5. ASSUME NEW k \in 1 .. c
      PROVE  /\ p[k] \in Seq(S)
             /\ \A i \in 1 .. Len(p[k]) : \E j \in 1 .. N : j \notin I /\ p[k][i] = s[j]
  <2> DEFINE a == Nth(E, k)
             b == Nth(E, k + 1)
  <2>1. a \in E /\ b \in E /\ a < b /\ \A i \in E : ~(a < i /\ i < b)
    BY <1>1, NthNext
  <2>2. p[k] = SubSeq(s, a + 1, b - 1)
    BY <1>1
  <2> HIDE DEF a, b
  <2>3. a \in 0 .. N + 1 /\ b \in 0 .. N + 1
    BY <1>1, <2>1
  <2>4. a + 1 \in Int /\ b - 1 \in Int /\ \A i \in a + 1 .. b - 1 : i \in 1 .. N
    BY <1>1, <2>3
  <2>5. \A i \in a + 1 .. b - 1 : s[i] \in S
    BY <1>2, <2>4
  <2>6. /\ p[k] \in Seq(S)
        /\ Len(p[k]) = IF a + 1 <= b - 1 THEN (b - 1) - (a + 1) + 1 ELSE 0
        /\ \A i \in 1 .. (b - 1) - (a + 1) + 1 : p[k][i] = s[(a + 1) + i - 1]
    BY <2>2, <2>4, <2>5, SubSeqProperties
  <2>7. ASSUME NEW i \in 1 .. Len(p[k]) PROVE \E j \in 1 .. N : j \notin I /\ p[k][i] = s[j]
    <3>1. /\ i \in 1 .. (b - 1) - (a + 1) + 1
          /\ a < a + i /\ a + i < b /\ (a + 1) + i - 1 = a + i /\ a + i \in a + 1 .. b - 1
      BY <1>1, <2>3, <2>6
    <3>2. a + i \in 1 .. N
      BY <2>4, <3>1
    <3>3. a + i \notin I
      BY <1>3, <2>1, <3>1
    <3>4. p[k][i] = s[a + i]
      BY <2>6, <3>1
    <3>5. QED
      BY <3>2, <3>3, <3>4
  <2>8. QED
    BY <2>6, <2>7
<1> HIDE DEF c
<1>6. p \in Seq(Seq(S)) /\ Len(p) = c
  <2>1. DOMAIN p = 1 .. c /\ p = [k \in 1 .. c |-> p[k]]
    BY <1>1
  <2>2. \A k \in 1 .. c : p[k] \in Seq(S)
    BY <1>5
  <2> DEFINE T == Seq(S)
  <2> HIDE DEF T
  <2>3. \A k \in 1 .. c : p[k] \in T
    BY <2>2 DEF T
  <2>4. p \in Seq(T) /\ Len(p) = c
    BY <1>4, <2>1, <2>3
  <2>5. QED
    BY <2>4 DEF T
<1>7. QED
  BY <1>4, <1>5, <1>6 DEF p, N, IsParted

\* What isn't parted is its only part.
LEMMA PartsNone ==
    ASSUME NEW S, NEW s \in Seq(S)
    PROVE  /\ Parts(s, {}) = <<s>>
           /\ Cardinality(Ends(s, {})) = 2 /\ Nth(Ends(s, {}), 2) = Len(s) + 1
<1> DEFINE N == Len(s)
           Z == {} \cup {0}
           E == Z \cup {N + 1}
<1>1. N \in Nat /\ N + 1 \in Nat
  BY LenProperties
<1>2. Cardinality({}) = 0
  BY FS_EmptySet
<1>3. Cardinality(Z) = 1 /\ Nth(Z, 1) = 0
  <2>1. Extends(Z, {}, 0, 0)
    BY DEF Extends
  <2>2. Cardinality(Z) = Cardinality({}) + 1 /\ Nth(Z, Cardinality({}) + 1) = 0
    BY <2>1, NthBehind DEF NthsKept
  <2>3. QED
    BY <1>2, <2>2
<1>4. Cardinality(E) = 2 /\ Nth(E, 1) = 0 /\ Nth(E, 2) = N + 1
  <2>1. Extends(E, Z, N + 1, 0)
    BY <1>1 DEF Extends
  <2> HIDE DEF Z, N, E
  <2>2. /\ Cardinality(E) = Cardinality(Z) + 1
        /\ \A n \in 1 .. Cardinality(Z) : Nth(E, n) = Nth(Z, n)
        /\ Nth(E, Cardinality(Z) + 1) = N + 1
    BY <2>1, NthBehind DEF NthsKept
  <2>3. QED
    BY <1>3, <2>2
<1>5. Ends(s, {}) = E
  BY DEF Ends
<1>6. Parts(s, {}) = [k \in 1 .. 1 |-> SubSeq(s, Nth(E, k) + 1, Nth(E, k + 1) - 1)]
  <2> HIDE DEF E
  <2>1. {} \in SUBSET (1 .. Len(s))
    OBVIOUS
  <2>2. Parts(s, {}) = [k \in 1 .. Cardinality(E) - 1 |-> SubSeq(s, Nth(E, k) + 1, Nth(E, k + 1) - 1)]
    BY <1>5, <2>1, EndsFacts
  <2>3. QED
    BY <1>4, <2>2
<1> HIDE DEF E
<1>7. Parts(s, {})[1] = s /\ Parts(s, {}) = [k \in 1 .. 1 |-> Parts(s, {})[k]]
  <2>1. SubSeq(s, 1, N) = s
    BY SubSeqFull
  <2>2. 0 + 1 = 1 /\ (N + 1) - 1 = N
    BY <1>1
  <2> HIDE DEF N
  <2>3. Parts(s, {})[1] = SubSeq(s, Nth(E, 1) + 1, Nth(E, 2) - 1)
    BY <1>6
  <2>4. Parts(s, {})[1] = s
    BY <1>4, <2>1, <2>2, <2>3
  <2>5. QED
    BY <1>6, <2>4
<1>8. QED
  BY <1>4, <1>5, <1>7

-----------------------------------------------------------------------------
(* A stage.                                                                *)

Texts == {Word(token) : token \in Token}

Redirects == {"<", ">"}

StageErrors ==
    {"missing file", "invalid placement", "unexpected pipe", "too many tokens",
     "empty command stage", "args too long"}

StageState ==
    [words : Seq(Texts), in : SUBSET Texts, out : SUBSET Texts,
     want : Redirects \cup {""}, error : StageErrors \cup {""}]

StageStart == [words |-> << >>, in |-> {}, out |-> {}, want |-> "", error |-> ""]

\* The file of < or >, and where these operators may stand.
Got(s, op) == IF op = "<" THEN s.in ELSE s.out
May(op, first, last) == IF op = "<" THEN first ELSE last

\* What parse_stage does with a token, for < and > alike.
IsTaken(r, s, token, first, last) ==
    /\ r \in StageState
    /\ s.error # "" => r = s
    /\ s.error = "" /\ s.want # "" /\ token.kind # "word" => r.error # ""
    /\ s.error = "" /\ s.want # "" /\ token.kind = "word" =>
          /\ r.error = "" /\ r.want = "" /\ r.words = s.words
          /\ \A op \in Redirects : Got(r, op) = IF op = s.want THEN {Word(token)} ELSE Got(s, op)
    /\ s.error = "" /\ s.want = "" /\ token.kind \in Redirects =>
          IF May(token.kind, first, last) /\ Got(s, token.kind) = {}
          THEN /\ r.error = "" /\ r.want = token.kind /\ r.words = s.words
               /\ \A op \in Redirects : Got(r, op) = Got(s, op)
          ELSE r.error # ""
    /\ s.error = "" /\ s.want = "" /\ token.kind = "word" =>
          IF Len(s.words) >= MaxStageTokens THEN r.error # ""
          ELSE /\ r.error = "" /\ r.want = "" /\ r.words = Append(s.words, Word(token))
               /\ \A op \in Redirects : Got(r, op) = Got(s, op)

LEMMA StageFails ==
    ASSUME NEW s \in StageState, NEW message \in StageErrors
    PROVE  Fails(s, message) \in StageState /\ Fails(s, message).error # ""
  BY DEF StageState, Fails, StageErrors

LEMMA StageTakes ==
    ASSUME NEW s \in StageState, NEW token \in Token, NEW first \in BOOLEAN, NEW last \in BOOLEAN
    PROVE  IsTaken(Taken(s, token, first, last), s, token, first, last)
<1> DEFINE r == Taken(s, token, first, last)
           w == Word(token)
<1>1. /\ token.kind \in {"|", "<", ">", "word"} /\ w \in Texts
      /\ s.words \in Seq(Texts) /\ s.want \in {"<", ">", ""}
  BY DEF Token, Ops, Texts, StageState, Redirects
<1>2. \A m \in StageErrors : Fails(s, m) \in StageState /\ Fails(s, m).error # ""
  BY StageFails
<1> HIDE DEF w
<1>3. CASE s.error # ""
  <2>1. r = s
    BY <1>3 DEF Taken
  <2> HIDE DEF r
  <2>2. QED
    BY <1>3, <2>1 DEF IsTaken, r
<1>4. CASE s.error = "" /\ s.want # ""
  <2>1. CASE token.kind # "word"
    <3>1. r = Fails(s, "missing file")
      BY <1>4, <2>1 DEF Taken
    <3>2. r \in StageState /\ r.error # ""
      BY <1>2, <3>1 DEF StageErrors
    <3> HIDE DEF r
    <3>3. QED
      BY <1>4, <2>1, <3>2 DEF IsTaken, r
  <2>2. CASE token.kind = "word"
    <3>1. r = IF s.want = "<" THEN [s EXCEPT !.in = {w}, !.want = ""]
              ELSE [s EXCEPT !.out = {w}, !.want = ""]
      BY <1>4, <2>2 DEF Taken, w
    <3> HIDE DEF r
    <3>2. {w} \in SUBSET Texts
      BY <1>1
    <3>3. /\ r \in StageState /\ r.error = "" /\ r.want = "" /\ r.words = s.words
          /\ s.want = "<" => r.in = {w} /\ r.out = s.out
          /\ s.want # "<" => r.in = s.in /\ r.out = {w}
      BY <1>4, <3>1, <3>2 DEF StageState
    <3>4. \A op \in Redirects : Got(r, op) = IF op = s.want THEN {w} ELSE Got(s, op)
      BY <1>1, <1>4, <3>3 DEF Redirects, Got
    <3>5. QED
      BY <1>4, <2>2, <3>3, <3>4 DEF IsTaken, r, w
  <2>3. QED
    BY <2>1, <2>2
<1>5. CASE s.error = "" /\ s.want = ""
  <2>1. CASE token.kind = "|"
    <3>1. r = Fails(s, "unexpected pipe")
      BY <1>5, <2>1 DEF Taken
    <3>2. r \in StageState /\ r.error # ""
      BY <1>2, <3>1 DEF StageErrors
    <3> HIDE DEF r
    <3>3. QED
      BY <1>5, <2>1, <3>2 DEF IsTaken, Redirects, r
  <2>2. CASE token.kind \in Redirects
    <3> DEFINE good == May(token.kind, first, last) /\ Got(s, token.kind) = {}
    <3>1. CASE good
      <4>1. r = [s EXCEPT !.want = token.kind]
        BY <1>5, <2>2, <3>1 DEF Taken, Redirects, May, Got, MayRedirectIn, MayRedirectOut
      <4> HIDE DEF r
      <4>2. /\ r \in StageState /\ r.error = "" /\ r.want = token.kind /\ r.words = s.words
            /\ r.in = s.in /\ r.out = s.out
        BY <1>5, <2>2, <4>1 DEF StageState
      <4>3. \A op \in Redirects : Got(r, op) = Got(s, op)
        BY <4>2 DEF Got
      <4>4. token.kind # "word"
        BY <2>2 DEF Redirects
      <4>5. QED
        BY <1>5, <2>2, <3>1, <4>2, <4>3, <4>4 DEF IsTaken, r
    <3>2. CASE ~good
      <4>1. r = Fails(s, "invalid placement")
        BY <1>5, <2>2, <3>2 DEF Taken, Redirects, May, Got, MayRedirectIn, MayRedirectOut
      <4>2. r \in StageState /\ r.error # ""
        BY <1>2, <4>1 DEF StageErrors
      <4> HIDE DEF r
      <4>3. token.kind # "word"
        BY <2>2 DEF Redirects
      <4>4. QED
        BY <1>5, <2>2, <3>2, <4>2, <4>3 DEF IsTaken, r
    <3>3. QED
      BY <3>1, <3>2
  <2>3. CASE token.kind = "word"
    <3>1. "word" \notin Redirects
      BY DEF Redirects
    <3>2. CASE Len(s.words) >= MaxStageTokens
      <4>1. r = Fails(s, "too many tokens")
        BY <1>5, <2>3, <3>2 DEF Taken
      <4>2. r \in StageState /\ r.error # ""
        BY <1>2, <4>1 DEF StageErrors
      <4> HIDE DEF r
      <4>3. QED
        BY <1>5, <2>3, <3>1, <3>2, <4>2 DEF IsTaken, r
    <3>3. CASE ~(Len(s.words) >= MaxStageTokens)
      <4>1. r = [s EXCEPT !.words = Append(@, w)]
        BY <1>5, <2>3, <3>3 DEF Taken, w
      <4>2. Append(s.words, w) \in Seq(Texts)
        BY <1>1, AppendProperties
      <4> HIDE DEF r
      <4>3. /\ r \in StageState /\ r.error = "" /\ r.want = "" /\ r.words = Append(s.words, w)
            /\ r.in = s.in /\ r.out = s.out
        BY <1>5, <4>1, <4>2 DEF StageState
      <4>4. \A op \in Redirects : Got(r, op) = Got(s, op)
        BY <4>3 DEF Got
      <4>5. QED
        BY <1>5, <2>3, <3>1, <3>3, <4>3, <4>4 DEF IsTaken, r, w
    <3>4. QED
      BY <3>2, <3>3
  <2>4. QED
    BY <1>1, <2>1, <2>2, <2>3 DEF Redirects
<1>6. QED
  BY <1>3, <1>4, <1>5

\* parse_stage takes a stage's tokens one after another.
IsParse(t, tokens, first, last) ==
    /\ t[0] = StageStart
    /\ \A n \in 0 .. Len(tokens) : t[n] \in StageState
    /\ \A n \in 1 .. Len(tokens) : t[n] = Taken(t[n - 1], tokens[n], first, last)

ParseResult(s) ==
    IF s.error # "" THEN s
    ELSE IF s.want # "" THEN Fails(s, "missing file")
    ELSE IF s.words = << >> THEN Fails(s, "empty command stage")
    ELSE IF Len(Joined(Tail(s.words))) > MaxArgs THEN Fails(s, "args too long")
    ELSE s

LEMMA StageStepwise ==
    ASSUME NEW tokens \in Seq(Token), NEW first \in BOOLEAN, NEW last \in BOOLEAN
    PROVE  \E t : /\ IsParse(t, tokens, first, last)
                  /\ ParsedStage(tokens, first, last) = ParseResult(t[Len(tokens)])
<1> DEFINE N == Len(tokens)
           step == [x \in (1 .. N) \X StageState |-> Taken(x[2], tokens[x[1]], first, last)]
           t == CHOOSE t : t = [n \in 0 .. Len(tokens) |->
                   IF n = 0 THEN [words |-> << >>, in |-> {}, out |-> {}, want |-> "", error |-> ""]
                   ELSE Taken(t[n - 1], tokens[n], first, last)]
<1>1. N \in Nat /\ \A n \in 1 .. N : tokens[n] \in Token
  BY LenProperties, ElementOfSeq
<1>2. StageStart \in StageState
  <2>1. << >> \in Seq(Texts)
    BY EmptySeq
  <2>2. QED
    BY <2>1 DEF StageStart, StageState
<1>3. ASSUME NEW n \in 1 .. N, NEW s \in StageState
      PROVE  Taken(s, tokens[n], first, last) \in StageState
  <2>1. IsTaken(Taken(s, tokens[n], first, last), s, tokens[n], first, last)
    BY <1>1, StageTakes
  <2>2. QED
    BY <2>1 DEF IsTaken
<1>4. step \in Steps(N, StageState)
  BY <1>3 DEF Steps
<1>5. PICK f : Recurs(f, N, StageState, StageStart, step)
  <2> HIDE DEF step, N
  <2>1. QED
    BY <1>1, <1>2, <1>4, Recursion
<1>6. /\ f \in [0 .. N -> StageState] /\ f[0] = StageStart
      /\ \A n \in 1 .. N : f[n] = Taken(f[n - 1], tokens[n], first, last)
  <2>1. /\ f \in [0 .. N -> StageState] /\ f[0] = StageStart
        /\ \A n \in 1 .. N : f[n] = step[<<n, f[n - 1]>>]
    BY <1>5 DEF Recurs
  <2>2. \A n \in 1 .. N : n - 1 \in 0 .. N
    BY <1>1
  <2>3. \A n \in 1 .. N : <<n, f[n - 1]>> \in (1 .. N) \X StageState
    BY <2>1, <2>2
  <2>4. QED
    BY <2>1, <2>3
<1>7. f = [n \in 0 .. Len(tokens) |->
             IF n = 0 THEN [words |-> << >>, in |-> {}, out |-> {}, want |-> "", error |-> ""]
             ELSE Taken(f[n - 1], tokens[n], first, last)]
  <2>1. \A n \in 0 .. N : n # 0 => n \in 1 .. N
    BY <1>1
  <2>2. \A n \in 0 .. N : f[n] = IF n = 0 THEN StageStart ELSE Taken(f[n - 1], tokens[n], first, last)
    BY <1>6, <2>1
  <2>3. f = [n \in 0 .. N |-> IF n = 0 THEN StageStart ELSE Taken(f[n - 1], tokens[n], first, last)]
    BY <1>6, <2>2
  <2>4. QED
    BY <2>3 DEF StageStart
<1>8. t = [n \in 0 .. Len(tokens) |->
             IF n = 0 THEN [words |-> << >>, in |-> {}, out |-> {}, want |-> "", error |-> ""]
             ELSE Taken(t[n - 1], tokens[n], first, last)]
  BY <1>7, Zenon
<1>9. ParsedStage(tokens, first, last) = ParseResult(t[Len(tokens)])
  BY Zenon DEF ParsedStage, ParseResult
<1> HIDE DEF t, step
<1>10. t[0] = StageStart /\ \A n \in 1 .. N : t[n] = Taken(t[n - 1], tokens[n], first, last)
  <2>1. 0 \in 0 .. N /\ \A n \in 1 .. N : n \in 0 .. N /\ n # 0
    BY <1>1
  <2>2. t = [n \in 0 .. N |-> IF n = 0 THEN StageStart ELSE Taken(t[n - 1], tokens[n], first, last)]
    BY <1>8, Zenon DEF StageStart
  <2> HIDE DEF N
  <2>3. \A n \in 0 .. N : t[n] = IF n = 0 THEN StageStart ELSE Taken(t[n - 1], tokens[n], first, last)
    BY <2>2, Zenon
  <2>4. QED
    BY <2>1, <2>3
<1> DEFINE S == {n \in Nat : t[n] \in StageState}
<1>11. 0 \in S
  BY <1>2, <1>10
<1>12. ASSUME NEW n \in 0 .. N - 1, n \in S PROVE n + 1 \in S
  <2>1. n + 1 \in 1 .. N /\ n + 1 \in Nat /\ (n + 1) - 1 = n
    BY <1>1
  <2>2. t[n + 1] = Taken(t[n], tokens[n + 1], first, last)
    BY <1>10, <2>1
  <2>3. QED
    BY <1>3, <1>12, <2>1, <2>2
<1> HIDE DEF S
<1>13. \A n \in 0 .. N : n \in S
  BY <1>1, <1>11, <1>12, BoundedInduction
<1>14. \A n \in 0 .. N : t[n] \in StageState
  BY <1>13 DEF S
<1>15. QED
  BY <1>9, <1>10, <1>14 DEF IsParse

\* The words of a stage that are not files, as the positions up to n have them.
Mine(tokens) ==
    {i \in 1 .. Len(tokens) : tokens[i].kind = "word"} \ (FilesOf(tokens, "<") \cup FilesOf(tokens, ">"))

UpTo(I, n) == {i \in I : i <= n}

WordSeq(tokens) == [i \in 1 .. Len(tokens) |-> Word(tokens[i])]

OpsOnce(tokens, n, first, last) ==
    \A op \in Redirects : \A i \in 1 .. n :
        tokens[i].kind = op => /\ May(op, first, last)
                               /\ \A j \in 1 .. n : tokens[j].kind = op => j = i

\* parse_stage has found no error in the first n tokens of a stage.
Follows(s, tokens, n, first, last) ==
    /\ \A i \in 1 .. n - 1 : tokens[i].kind # "word" => tokens[i + 1].kind = "word"
    /\ s.want = IF n # 0 /\ tokens[n].kind # "word" THEN tokens[n].kind ELSE ""
    /\ s.words = Selection(WordSeq(tokens), UpTo(Mine(tokens), n))
    /\ \A op \in Redirects : Got(s, op) = {Word(tokens[i]) : i \in UpTo(FilesOf(tokens, op), n)}
    /\ OpsOnce(tokens, n, first, last)
    /\ Cardinality(UpTo(Mine(tokens), n)) <= MaxStageTokens

\* What a stage must be for parse_stage to get to its end.
Formed(tokens, first, last) ==
    /\ \A i \in 1 .. Len(tokens) :
          tokens[i].kind # "word" => i < Len(tokens) /\ tokens[i + 1].kind = "word"
    /\ OpsOnce(tokens, Len(tokens), first, last)
    /\ Cardinality(Mine(tokens)) <= MaxStageTokens

Unpiped(tokens) == \A i \in 1 .. Len(tokens) : tokens[i].kind \in Redirects \cup {"word"}

LEMMA UpToNext ==
    ASSUME NEW I \in SUBSET Nat, NEW n \in Nat
    PROVE  /\ n + 1 \in I => UpTo(I, n + 1) = UpTo(I, n) \cup {n + 1}
           /\ n + 1 \notin I => UpTo(I, n + 1) = UpTo(I, n)
<1>1. \A i \in Nat : i <= n + 1 <=> i <= n \/ i = n + 1
  OBVIOUS
<1>2. QED
  BY <1>1 DEF UpTo

\* A place in a stage, those before it and the next.
PlacesAround(N, n) ==
    /\ n \in Nat /\ n + 1 \in 1 .. N /\ n + 1 \in Nat /\ n + 1 # 0 /\ (n + 1) - 1 = n
    /\ n # 0 => n \in 1 .. N /\ n \in 1 .. n /\ n + 1 \in 2 .. N
    /\ n = 0 => n + 1 \notin 2 .. N
    /\ \A i \in 1 .. N : i \in Nat
    /\ \A i \in 1 .. (n + 1) - 1 : i \in 1 .. n - 1 \/ (i = n /\ n # 0)
    /\ \A i \in 1 .. n + 1 : i \in 1 .. n \/ i = n + 1
    /\ \A i \in Nat : i <= n => i < n + 1
    /\ \A i \in 1 .. n : i \in 1 .. N /\ i # n + 1 /\ n # 0 /\ (i # n => i \in 1 .. n - 1)
    /\ \A i \in 1 .. n - 1 : i + 1 \in 2 .. N /\ i + 1 <= n /\ (i + 1) - 1 = i
    /\ \A j \in 2 .. N : j <= n => /\ j - 1 \in 1 .. n /\ j - 1 # n
                                   /\ j - 1 \in 1 .. N /\ j - 1 # n + 1

LEMMA PlaceFacts == \A N \in Nat : \A n \in 0 .. N - 1 : PlacesAround(N, n)
  BY DEF PlacesAround

LEMMA PlusOne == \A n \in Nat : n + 1 \in Nat
OBVIOUS

LEMMA OneIsLater == \A N \in Nat : 1 .. N \subseteq 0 .. N /\ SUBSET (1 .. N) \subseteq SUBSET (0 .. N)
OBVIOUS

\* A count that grows by one, and its limit.
LEMMA CountFacts ==
    \A c, m, e \in Nat :
        /\ ~(c >= m) => c + 1 <= m
        /\ c >= m /\ c + 1 <= e => ~(e <= m)
OBVIOUS

LEMMA WordSeqFacts ==
    ASSUME NEW tokens \in Seq(Token)
    PROVE  /\ Len(tokens) \in Nat /\ WordSeq(tokens) \in Seq(Texts)
           /\ Len(WordSeq(tokens)) = Len(tokens)
           /\ \A i \in 1 .. Len(tokens) : WordSeq(tokens)[i] = Word(tokens[i])
           /\ Mine(tokens) \in SUBSET (1 .. Len(tokens))
           /\ \A op : FilesOf(tokens, op) \in SUBSET (1 .. Len(tokens))
           /\ WordsOf(tokens) = Selection(WordSeq(tokens), Mine(tokens))
<1> DEFINE N == Len(tokens)
           M == Mine(tokens)
           ws == WordSeq(tokens)
<1>1. N \in Nat /\ \A i \in 1 .. N : tokens[i] \in Token
  BY LenProperties, ElementOfSeq
<1>2. /\ ws \in Seq(Texts) /\ Len(ws) = N
      /\ \A i \in 1 .. N : ws[i] = Word(tokens[i])
  <2>1. \A i \in 1 .. N : Word(tokens[i]) \in Texts
    BY <1>1 DEF Texts
  <2>2. QED
    BY <1>1, <2>1 DEF WordSeq
<1>3. M \in SUBSET (1 .. N)
  BY DEF Mine
<1>4. \A op : FilesOf(tokens, op) \in SUBSET (1 .. N)
  BY <1>1 DEF FilesOf
<1>5. WordsOf(tokens) = Selection(ws, M)
  <2> DEFINE chosen == Selection(tokens, M)
  <2>1. WordsOf(tokens) = [n \in DOMAIN chosen |-> Word(chosen[n])]
    BY DEF WordsOf, Mine
  <2> HIDE DEF M, ws, N
  <2>2. chosen = [n \in 1 .. Cardinality(M) |-> tokens[Nth(M, n)]]
    BY DEF Selection
  <2>3. WordsOf(tokens) = [n \in 1 .. Cardinality(M) |-> Word(tokens[Nth(M, n)])]
    BY <2>1, <2>2
  <2>4. \A n \in 1 .. Cardinality(M) : Nth(M, n) \in 1 .. N
    <3>1. M \in SUBSET (0 .. N)
      BY <1>1, <1>3
    <3>2. QED
      BY <1>1, <1>3, <3>1, NthPosition
  <2>5. \A n \in 1 .. Cardinality(M) : ws[Nth(M, n)] = Word(tokens[Nth(M, n)])
    BY <1>2, <2>4
  <2>6. Selection(ws, M) = [n \in 1 .. Cardinality(M) |-> ws[Nth(M, n)]]
    BY DEF Selection
  <2>7. QED
    BY <2>3, <2>5, <2>6
<1>6. QED
  BY <1>1, <1>2, <1>3, <1>4, <1>5

\* The word behind an operator is its file, any other is a word of the stage.
NextIs(tokens, n, s) ==
    /\ n \in Nat /\ n + 1 \in 1 .. Len(tokens)
    /\ \A op \in Redirects :
          n + 1 \in FilesOf(tokens, op) <=> tokens[n + 1].kind = "word" /\ s.want = op
    /\ n + 1 \in Mine(tokens) <=> tokens[n + 1].kind = "word" /\ s.want = ""
    /\ s.want # "" => n \in 1 .. Len(tokens) /\ s.want = tokens[n].kind /\ s.want \in Redirects

LEMMA NextPlace ==
    ASSUME NEW tokens \in Seq(Token), Unpiped(tokens), NEW n \in 0 .. Len(tokens) - 1,
           NEW s \in StageState, NEW first, NEW last, Follows(s, tokens, n, first, last)
    PROVE  NextIs(tokens, n, s)
<1>1. /\ Len(tokens) \in Nat /\ n \in Nat /\ n + 1 \in 1 .. Len(tokens) /\ (n + 1) - 1 = n
      /\ n # 0 => n \in 1 .. Len(tokens) /\ n + 1 \in 2 .. Len(tokens)
      /\ n = 0 => n + 1 \notin 2 .. Len(tokens)
  <2>1. Len(tokens) \in Nat
    BY LenProperties
  <2>2. PlacesAround(Len(tokens), n)
    BY <2>1, PlaceFacts
  <2>3. QED
    BY <2>1, <2>2 DEF PlacesAround
<1>2. s.want = IF n # 0 /\ tokens[n].kind # "word" THEN tokens[n].kind ELSE ""
  BY DEF Follows
<1>3. n # 0 => tokens[n].kind \in Redirects \cup {"word"}
  BY <1>1 DEF Unpiped
<1>4. "word" \notin Redirects /\ "" \notin Redirects /\ Redirects = {"<", ">"}
  BY DEF Redirects
<1>5. \A op : n + 1 \in FilesOf(tokens, op) <=>
                 n + 1 \in 2 .. Len(tokens) /\ tokens[n].kind = op /\ tokens[n + 1].kind = "word"
  BY <1>1 DEF FilesOf
<1>6. \A op \in Redirects :
         n + 1 \in FilesOf(tokens, op) <=> tokens[n + 1].kind = "word" /\ s.want = op
  BY <1>1, <1>2, <1>3, <1>4, <1>5
<1>7. n + 1 \in Mine(tokens) <=> tokens[n + 1].kind = "word" /\ s.want = ""
  <2>1. s.want \in Redirects \cup {""}
    BY <1>2, <1>3
  <2>2. QED
    BY <1>1, <1>4, <1>6, <2>1 DEF Mine
<1>8. QED
  BY <1>1, <1>2, <1>3, <1>6, <1>7 DEF NextIs

LEMMA FollowsFile ==
    ASSUME NEW tokens \in Seq(Token), Unpiped(tokens), NEW n \in 0 .. Len(tokens) - 1,
           NEW s \in StageState, NEW first \in BOOLEAN, NEW last \in BOOLEAN,
           Follows(s, tokens, n, first, last), s.error = "", s.want # "", tokens[n + 1].kind = "word",
           NEW r, IsTaken(r, s, tokens[n + 1], first, last)
    PROVE  r.error = "" /\ Follows(r, tokens, n + 1, first, last)
<1> DEFINE k == n + 1
<1>0. Len(tokens) \in Nat /\ PlacesAround(Len(tokens), n)
  <2>1. Len(tokens) \in Nat
    BY LenProperties
  <2>2. QED
    BY <2>1, PlaceFacts
<1>1. /\ r.error = "" /\ r.want = "" /\ r.words = s.words
      /\ \A op \in Redirects : Got(r, op) = IF op = s.want THEN {Word(tokens[k])} ELSE Got(s, op)
  BY DEF IsTaken
<1>2. /\ n \in Nat /\ k \in 1 .. Len(tokens) /\ n \in 1 .. Len(tokens) /\ s.want = tokens[n].kind
      /\ s.want \in Redirects /\ k \notin Mine(tokens)
      /\ \A op \in Redirects : k \in FilesOf(tokens, op) <=> s.want = op
  <2>1. NextIs(tokens, n, s)
    BY NextPlace
  <2>2. QED
    BY <2>1 DEF NextIs
<1>3. /\ \A i \in 1 .. n - 1 : tokens[i].kind # "word" => tokens[i + 1].kind = "word"
      /\ s.words = Selection(WordSeq(tokens), UpTo(Mine(tokens), n))
      /\ \A op \in Redirects : Got(s, op) = {Word(tokens[i]) : i \in UpTo(FilesOf(tokens, op), n)}
      /\ OpsOnce(tokens, n, first, last)
      /\ Cardinality(UpTo(Mine(tokens), n)) <= MaxStageTokens
  BY DEF Follows
<1>4. Len(tokens) \in Nat /\ Mine(tokens) \in SUBSET Nat /\ \A op : FilesOf(tokens, op) \in SUBSET Nat
  <2>1. \A i \in 1 .. Len(tokens) : i \in Nat
    BY <1>0 DEF PlacesAround
  <2>2. QED
    BY <2>1, WordSeqFacts
<1>5. tokens[k].kind = "word" /\ "word" \notin Redirects /\ k # 0
  BY <1>0 DEF Redirects, PlacesAround
<1>6. /\ \A i \in 1 .. k - 1 : i \in 1 .. n - 1 \/ i = n
      /\ \A i \in 1 .. k : i \in 1 .. n \/ i = k
  BY <1>0 DEF PlacesAround
<1>7. \A i \in 1 .. k - 1 : tokens[i].kind # "word" => tokens[i + 1].kind = "word"
  BY <1>3, <1>5, <1>6
<1>8. OpsOnce(tokens, k, first, last)
  <2>1. \A op \in Redirects : \A i \in 1 .. k : tokens[i].kind = op => i \in 1 .. n
    BY <1>5, <1>6
  <2> HIDE DEF k
  <2>2. QED
    BY <1>3, <2>1 DEF OpsOnce
<1>9. UpTo(Mine(tokens), k) = UpTo(Mine(tokens), n)
  BY <1>2, <1>4, UpToNext
<1>10. ASSUME NEW op \in Redirects
       PROVE  Got(r, op) = {Word(tokens[i]) : i \in UpTo(FilesOf(tokens, op), k)}
  <2>1. CASE op # s.want
    <3>1. UpTo(FilesOf(tokens, op), k) = UpTo(FilesOf(tokens, op), n)
      BY <1>2, <1>4, <2>1, UpToNext
    <3>2. QED
      BY <1>1, <1>3, <2>1, <3>1
  <2>2. CASE op = s.want
    <3>1. UpTo(FilesOf(tokens, op), k) = UpTo(FilesOf(tokens, op), n) \cup {k}
      BY <1>2, <1>4, <2>2, UpToNext
    <3>2. ASSUME NEW j \in UpTo(FilesOf(tokens, op), n) PROVE FALSE
      <4>1. j \in 2 .. Len(tokens) /\ j <= n /\ tokens[j - 1].kind = op
        BY DEF UpTo, FilesOf
      <4>2. j - 1 \in 1 .. n /\ j - 1 # n /\ n \in 1 .. n
        BY <1>0, <1>2, <4>1, Zenon DEF PlacesAround
      <4>3. tokens[n].kind = op
        BY <1>2, <2>2
      <4>4. QED
        BY <1>3, <4>1, <4>2, <4>3 DEF OpsOnce
    <3>3. UpTo(FilesOf(tokens, op), k) = {k}
      BY <3>1, <3>2
    <3>4. QED
      BY <1>1, <2>2, <3>3
  <2>3. QED
    BY <2>1, <2>2
<1> HIDE DEF k
<1>11. Follows(r, tokens, k, first, last)
  BY <1>1, <1>3, <1>5, <1>7, <1>8, <1>9, <1>10 DEF Follows
<1>12. QED
  BY <1>1, <1>11 DEF k

LEMMA FollowsOperator ==
    ASSUME NEW tokens \in Seq(Token), Unpiped(tokens), NEW n \in 0 .. Len(tokens) - 1,
           NEW s \in StageState, NEW first \in BOOLEAN, NEW last \in BOOLEAN,
           Follows(s, tokens, n, first, last), s.error = "", s.want = "", tokens[n + 1].kind \in Redirects,
           NEW r, IsTaken(r, s, tokens[n + 1], first, last)
    PROVE  /\ r.error = "" => Follows(r, tokens, n + 1, first, last)
           /\ r.error # "" => ~Formed(tokens, first, last)
<1> DEFINE k == n + 1
           new == tokens[k].kind
<1>0. Len(tokens) \in Nat /\ PlacesAround(Len(tokens), n)
  <2>1. Len(tokens) \in Nat
    BY LenProperties
  <2>2. QED
    BY <2>1, PlaceFacts
<1>1. IF May(new, first, last) /\ Got(s, new) = {}
      THEN /\ r.error = "" /\ r.want = new /\ r.words = s.words
           /\ \A op \in Redirects : Got(r, op) = Got(s, op)
      ELSE r.error # ""
  BY DEF IsTaken
<1>2. "word" \notin Redirects /\ "" \notin Redirects /\ new \in Redirects
  BY DEF Redirects
<1>3. /\ n \in Nat /\ k \in 1 .. Len(tokens) /\ k \notin Mine(tokens)
      /\ \A op \in Redirects : k \notin FilesOf(tokens, op)
  <2>1. NextIs(tokens, n, s)
    BY NextPlace
  <2>2. QED
    BY <1>2, <2>1 DEF NextIs
<1>4. /\ \A i \in 1 .. n - 1 : tokens[i].kind # "word" => tokens[i + 1].kind = "word"
      /\ s.want = IF n # 0 /\ tokens[n].kind # "word" THEN tokens[n].kind ELSE ""
      /\ s.words = Selection(WordSeq(tokens), UpTo(Mine(tokens), n))
      /\ \A op \in Redirects : Got(s, op) = {Word(tokens[i]) : i \in UpTo(FilesOf(tokens, op), n)}
      /\ OpsOnce(tokens, n, first, last)
      /\ Cardinality(UpTo(Mine(tokens), n)) <= MaxStageTokens
  BY DEF Follows
<1>5. Len(tokens) \in Nat /\ Mine(tokens) \in SUBSET Nat /\ \A op : FilesOf(tokens, op) \in SUBSET Nat
  <2>1. \A i \in 1 .. Len(tokens) : i \in Nat
    BY <1>0 DEF PlacesAround
  <2>2. QED
    BY <2>1, WordSeqFacts
<1>6. n # 0 => tokens[n].kind = "word"
  <2>1. n # 0 => n \in 1 .. Len(tokens)
    BY <1>0 DEF PlacesAround
  <2>2. n # 0 => tokens[n].kind \in Redirects \cup {"word"}
    BY <2>1 DEF Unpiped
  <2>3. QED
    BY <1>2, <1>4, <2>2
<1>7. /\ \A i \in 1 .. k - 1 : i \in 1 .. n - 1 \/ (i = n /\ n # 0)
      /\ \A i \in 1 .. k : i \in 1 .. n \/ i = k
      /\ k # 0
  BY <1>0 DEF PlacesAround
\* Where it is the operator's second, a file of the first one has been found.
<1>8. ASSUME NEW i \in 1 .. n, tokens[i].kind = new PROVE Got(s, new) # {}
  <2>0. n # 0 /\ (i # n => i \in 1 .. n - 1)
    BY <1>0 DEF PlacesAround
  <2>1. i # n /\ i \in 1 .. n - 1
    BY <1>2, <1>6, <1>8, <2>0
  <2>2. tokens[i + 1].kind = "word"
    BY <1>2, <1>4, <1>8, <2>1
  <2>3. i + 1 \in 2 .. Len(tokens) /\ i + 1 <= n /\ (i + 1) - 1 = i
    BY <1>0, <2>1, Zenon DEF PlacesAround
  <2>4. i + 1 \in UpTo(FilesOf(tokens, new), n)
    BY <1>8, <2>2, <2>3 DEF UpTo, FilesOf
  <2> HIDE DEF new
  <2>5. Word(tokens[i + 1]) \in Got(s, new)
    BY <1>2, <1>4, <2>4
  <2>6. QED
    BY <2>5
<1>9. CASE May(new, first, last) /\ Got(s, new) = {}
  <2>1. /\ r.error = "" /\ r.want = new /\ r.words = s.words
        /\ \A op \in Redirects : Got(r, op) = Got(s, op)
    BY <1>1, <1>9
  <2>2. \A i \in 1 .. k - 1 : tokens[i].kind # "word" => tokens[i + 1].kind = "word"
    BY <1>4, <1>6, <1>7
  <2>3. UpTo(Mine(tokens), k) = UpTo(Mine(tokens), n)
    BY <1>3, <1>5, UpToNext
  <2>4. \A op \in Redirects : UpTo(FilesOf(tokens, op), k) = UpTo(FilesOf(tokens, op), n)
    BY <1>3, <1>5, UpToNext
  <2>5. OpsOnce(tokens, k, first, last)
    <3> SUFFICES ASSUME NEW op \in Redirects, NEW i \in 1 .. k, tokens[i].kind = op
                 PROVE  /\ May(op, first, last)
                        /\ \A j \in 1 .. k : tokens[j].kind = op => j = i
      BY DEF OpsOnce
    <3>1. CASE op = new
      <4>1. \A j \in 1 .. n : tokens[j].kind # op
        BY <1>8, <1>9, <3>1
      <4>2. QED
        BY <1>7, <1>9, <3>1, <4>1
    <3>2. CASE op # new
      <4>1. \A j \in 1 .. k : tokens[j].kind = op => j \in 1 .. n
        BY <1>7, <3>2
      <4> HIDE DEF k, new
      <4>2. QED
        BY <1>4, <4>1 DEF OpsOnce
    <3>3. QED
      BY <3>1, <3>2
  <2>6. r.want = IF k # 0 /\ tokens[k].kind # "word" THEN tokens[k].kind ELSE ""
    BY <1>2, <1>7, <2>1
  <2> HIDE DEF k
  <2>7. Follows(r, tokens, k, first, last)
    BY <1>4, <2>1, <2>2, <2>3, <2>4, <2>5, <2>6 DEF Follows
  <2>8. QED
    BY <2>1, <2>7 DEF k
<1>10. CASE ~(May(new, first, last) /\ Got(s, new) = {})
  <2>1. r.error # ""
    BY <1>1, <1>10
  <2>2. SUFFICES ASSUME OpsOnce(tokens, Len(tokens), first, last) PROVE FALSE
    BY <2>1 DEF Formed
  <2>3. May(new, first, last)
    BY <1>2, <1>3, <2>2 DEF OpsOnce
  <2>4. PICK j \in UpTo(FilesOf(tokens, new), n) : TRUE
    <3> HIDE DEF new
    <3>1. Got(s, new) # {}
      BY <1>10, <2>3
    <3>2. QED
      BY <1>2, <1>4, <3>1
  <2>5. j \in 2 .. Len(tokens) /\ j <= n /\ tokens[j - 1].kind = new
    BY <2>4 DEF UpTo, FilesOf
  <2>6. j - 1 \in 1 .. Len(tokens) /\ j - 1 # k
    BY <1>0, <2>5, Zenon DEF PlacesAround
  <2>7. QED
    BY <1>2, <1>3, <2>2, <2>5, <2>6 DEF OpsOnce
<1>11. QED
  BY <1>9, <1>10

LEMMA FollowsWord ==
    ASSUME NEW tokens \in Seq(Token), Unpiped(tokens), NEW n \in 0 .. Len(tokens) - 1,
           NEW s \in StageState, NEW first \in BOOLEAN, NEW last \in BOOLEAN,
           Follows(s, tokens, n, first, last), s.error = "", s.want = "", tokens[n + 1].kind = "word",
           NEW r, IsTaken(r, s, tokens[n + 1], first, last)
    PROVE  /\ r.error = "" => Follows(r, tokens, n + 1, first, last)
           /\ r.error # "" => ~Formed(tokens, first, last)
<1> DEFINE k == n + 1
           ws == WordSeq(tokens)
           M == Mine(tokens)
           N == Len(tokens)
           c == Cardinality(UpTo(M, n))
<1>0. Len(tokens) \in Nat /\ PlacesAround(Len(tokens), n)
  <2>1. Len(tokens) \in Nat
    BY LenProperties
  <2>2. QED
    BY <2>1, PlaceFacts
<1>1. IF Len(s.words) >= MaxStageTokens THEN r.error # ""
      ELSE /\ r.error = "" /\ r.want = "" /\ r.words = Append(s.words, Word(tokens[k]))
           /\ \A op \in Redirects : Got(r, op) = Got(s, op)
  BY DEF IsTaken
<1>2. "word" \notin Redirects /\ "" \notin Redirects
  BY DEF Redirects
<1>3. /\ n \in Nat /\ k \in 1 .. N /\ k \in M
      /\ \A op \in Redirects : k \notin FilesOf(tokens, op)
  <2>1. NextIs(tokens, n, s)
    BY NextPlace
  <2>2. QED
    BY <1>2, <2>1 DEF NextIs
<1>4. /\ \A i \in 1 .. n - 1 : tokens[i].kind # "word" => tokens[i + 1].kind = "word"
      /\ s.words = Selection(ws, UpTo(M, n))
      /\ \A op \in Redirects : Got(s, op) = {Word(tokens[i]) : i \in UpTo(FilesOf(tokens, op), n)}
      /\ OpsOnce(tokens, n, first, last)
      /\ c <= MaxStageTokens
  BY DEF Follows
<1>5. /\ N \in Nat /\ M \in SUBSET (1 .. N) /\ M \in SUBSET Nat
      /\ \A op : FilesOf(tokens, op) \in SUBSET Nat
      /\ ws \in Seq(Texts) /\ Len(ws) = N /\ ws[k] = Word(tokens[k])
  <2>1. \A i \in 1 .. Len(tokens) : i \in Nat
    BY <1>0 DEF PlacesAround
  <2>2. QED
    BY <1>3, <2>1, WordSeqFacts
<1> HIDE DEF ws, M, N
<1>6. UpTo(M, k) = UpTo(M, n) \cup {k}
  BY <1>3, <1>5, UpToNext
<1>7. UpTo(M, n) \in SUBSET (1 .. N) /\ Extends(UpTo(M, k), UpTo(M, n), k, N)
  <2>1. UpTo(M, n) \in SUBSET (1 .. N)
    BY <1>5 DEF UpTo
  <2>2. \A i \in Nat : i <= n => i < k
    BY <1>0 DEF PlacesAround
  <2>3. k \in Nat /\ \A i \in UpTo(M, n) : i < k
    BY <1>0, <1>5, <2>2 DEF UpTo, PlacesAround
  <2>4. UpTo(M, n) \in SUBSET (0 .. N)
    BY <1>5, <2>1, OneIsLater, Zenon
  <2> HIDE DEF k
  <2>5. QED
    BY <1>5, <1>6, <2>1, <2>3, <2>4, Zenon DEF Extends
<1>8. /\ Len(s.words) = c /\ Cardinality(UpTo(M, k)) = c + 1
      /\ Selection(ws, UpTo(M, k)) = Append(s.words, Word(tokens[k]))
  <2> HIDE DEF k
  <2>1. /\ Len(Selection(ws, UpTo(M, n))) = Cardinality(UpTo(M, n))
        /\ Cardinality(UpTo(M, k)) = Cardinality(UpTo(M, n)) + 1
        /\ Selection(ws, UpTo(M, k)) = Append(Selection(ws, UpTo(M, n)), ws[k])
    <3>1. SelectionGrows(ws, UpTo(M, k), UpTo(M, n), k)
      BY <1>3, <1>5, <1>7, SelectionBehind
    <3>2. QED
      BY <1>5, <3>1 DEF SelectionGrows
  <2>2. QED
    BY <1>4, <1>5, <2>1
<1>9. c \in Nat /\ c + 1 \in Nat /\ MaxStageTokens \in Nat
  <2>1. UpTo(M, n) \in SUBSET (0 .. N)
    BY <1>5, <1>7, OneIsLater, Zenon
  <2>2. c \in Nat
    BY <1>5, <2>1, Ranks, Zenon
  <2> HIDE DEF c
  <2>3. QED
    BY <2>2, TokenizerSizes, PlusOne, Zenon
<1> HIDE DEF c
<1>10. CASE ~(Len(s.words) >= MaxStageTokens)
  <2>1. /\ r.error = "" /\ r.want = "" /\ r.words = Append(s.words, Word(tokens[k]))
        /\ \A op \in Redirects : Got(r, op) = Got(s, op)
    BY <1>1, <1>10
  <2>2. Cardinality(UpTo(M, k)) <= MaxStageTokens
    <3>1. ~(c >= MaxStageTokens)
      BY <1>8, <1>10
    <3>2. c + 1 <= MaxStageTokens
      BY <1>9, <3>1, CountFacts, Zenon
    <3>3. QED
      BY <1>8, <3>2
  <2>3. /\ \A i \in 1 .. k - 1 : i \in 1 .. n - 1 \/ i = n
        /\ \A i \in 1 .. k : i \in 1 .. n \/ i = k
        /\ k # 0
    BY <1>0 DEF PlacesAround
  <2>4. \A i \in 1 .. k - 1 : tokens[i].kind # "word" => tokens[i + 1].kind = "word"
    BY <1>4, <2>3
  <2>5. \A op \in Redirects : UpTo(FilesOf(tokens, op), k) = UpTo(FilesOf(tokens, op), n)
    BY <1>3, <1>5, UpToNext
  <2>6. OpsOnce(tokens, k, first, last)
    <3>1. \A op \in Redirects : \A i \in 1 .. k : tokens[i].kind = op => i \in 1 .. n
      BY <1>2, <2>3
    <3> HIDE DEF k
    <3>2. QED
      BY <1>4, <3>1 DEF OpsOnce
  <2>7. r.want = IF k # 0 /\ tokens[k].kind # "word" THEN tokens[k].kind ELSE ""
    BY <2>1
  <2> HIDE DEF k
  <2>8. Follows(r, tokens, k, first, last)
    BY <1>4, <1>8, <2>1, <2>2, <2>4, <2>5, <2>6, <2>7 DEF Follows, ws, M
  <2>9. QED
    BY <2>1, <2>8 DEF k
<1>11. CASE Len(s.words) >= MaxStageTokens
  <2>1. r.error # ""
    BY <1>1, <1>11
  <2>2. M \in SUBSET (0 .. N) /\ UpTo(M, k) \in SUBSET M
    BY <1>5, OneIsLater, Zenon DEF UpTo
  <2>3. IsFiniteSet(M) /\ Cardinality(M) \in Nat
    BY <1>5, <2>2, Ranks
  <2>4. Cardinality(UpTo(M, k)) <= Cardinality(M)
    BY <2>2, <2>3, FS_Subset
  <2>5. ~(Cardinality(M) <= MaxStageTokens)
    <3>1. c >= MaxStageTokens
      BY <1>8, <1>11
    <3>2. c + 1 <= Cardinality(M)
      BY <1>8, <2>4
    <3>3. QED
      BY <1>9, <2>3, <3>1, <3>2, CountFacts, Zenon
  <2>6. QED
    BY <2>1, <2>5 DEF Formed, M
<1>12. QED
  BY <1>10, <1>11

\* With each token parse_stage stays with the positions, or finds an error.
LEMMA StageStep ==
    ASSUME NEW tokens \in Seq(Token), Unpiped(tokens), NEW n \in 0 .. Len(tokens) - 1,
           NEW s \in StageState, NEW first \in BOOLEAN, NEW last \in BOOLEAN,
           s.error = "" => Follows(s, tokens, n, first, last),
           s.error # "" => ~Formed(tokens, first, last),
           NEW r, IsTaken(r, s, tokens[n + 1], first, last)
    PROVE  /\ r.error = "" => Follows(r, tokens, n + 1, first, last)
           /\ r.error # "" => ~Formed(tokens, first, last)
<1>1. tokens[n + 1].kind \in Redirects \cup {"word"} /\ "word" \notin Redirects
  <2>1. n + 1 \in 1 .. Len(tokens)
    <3>1. Len(tokens) \in Nat
      BY LenProperties
    <3>2. PlacesAround(Len(tokens), n)
      BY <3>1, PlaceFacts
    <3>3. QED
      BY <3>2 DEF PlacesAround
  <2>2. QED
    BY <2>1 DEF Unpiped, Redirects
<1>2. CASE s.error # ""
  <2>1. r = s
    BY <1>2 DEF IsTaken
  <2>2. QED
    BY <1>2, <2>1
<1>3. CASE s.error = "" /\ s.want # "" /\ tokens[n + 1].kind = "word"
  <2>1. r.error = "" /\ Follows(r, tokens, n + 1, first, last)
    BY <1>3, FollowsFile
  <2>2. QED
    BY <2>1
<1>4. CASE s.error = "" /\ s.want # "" /\ tokens[n + 1].kind # "word"
  <2>1. r.error # ""
    BY <1>4 DEF IsTaken
  <2>2. NextIs(tokens, n, s)
    BY <1>4, NextPlace
  <2>3. n \in 1 .. Len(tokens) /\ tokens[n].kind \in Redirects
    BY <1>4, <2>2 DEF NextIs
  <2>4. ~Formed(tokens, first, last)
    BY <1>1, <1>4, <2>3 DEF Formed
  <2>5. QED
    BY <2>1, <2>4
<1>5. CASE s.error = "" /\ s.want = "" /\ tokens[n + 1].kind \in Redirects
  BY <1>5, FollowsOperator
<1>6. CASE s.error = "" /\ s.want = "" /\ tokens[n + 1].kind = "word"
  BY <1>6, FollowsWord
<1>7. QED
  BY <1>1, <1>2, <1>3, <1>4, <1>5, <1>6

\* Token after token, parse_stage finds what the positions say or an error the
\* positions show.
LEMMA StageFollows ==
    ASSUME NEW tokens \in Seq(Token), Unpiped(tokens), NEW first \in BOOLEAN, NEW last \in BOOLEAN,
           NEW t, IsParse(t, tokens, first, last), NEW s, s = t[Len(tokens)]
    PROVE  /\ s \in StageState
           /\ s.error = "" => Follows(s, tokens, Len(tokens), first, last)
           /\ s.error # "" => ~Formed(tokens, first, last)
<1> DEFINE N == Len(tokens)
           Sound(n) == /\ t[n].error = "" => Follows(t[n], tokens, n, first, last)
                       /\ t[n].error # "" => ~Formed(tokens, first, last)
           S == {n \in Nat : Sound(n)}
<1>1. N \in Nat /\ \A n \in 1 .. N : tokens[n] \in Token
  BY LenProperties, ElementOfSeq
<1>2. /\ t[0] = StageStart
      /\ \A n \in 0 .. N : t[n] \in StageState
      /\ \A n \in 1 .. N : t[n] = Taken(t[n - 1], tokens[n], first, last)
  BY DEF IsParse
<1>3. Follows(StageStart, tokens, 0, first, last)
  <2>1. ASSUME NEW I, I \in SUBSET (1 .. N) PROVE UpTo(I, 0) = {}
    <3>1. \A i \in 1 .. N : ~(i <= 0)
      BY <1>1
    <3>2. QED
      BY <2>1, <3>1 DEF UpTo
  <2>2. UpTo(Mine(tokens), 0) = {} /\ \A op : UpTo(FilesOf(tokens, op), 0) = {}
    BY <2>1, WordSeqFacts
  <2>3. /\ StageStart.words = Selection(WordSeq(tokens), UpTo(Mine(tokens), 0))
        /\ Cardinality(UpTo(Mine(tokens), 0)) = 0
    BY <2>2, SelectionNone DEF StageStart
  <2>4. \A op \in Redirects : Got(StageStart, op) = {Word(tokens[i]) : i \in UpTo(FilesOf(tokens, op), 0)}
    BY <2>2 DEF Got, StageStart
  <2>5. OpsOnce(tokens, 0, first, last)
    BY DEF OpsOnce
  <2>6. 0 <= MaxStageTokens /\ StageStart.want = "" /\ \A i : i \notin 1 .. 0 - 1
    BY TokenizerSizes DEF StageStart
  <2>7. QED
    BY <2>3, <2>4, <2>5, <2>6 DEF Follows
<1>4. 0 \in S
  <2>1. StageStart.error = ""
    BY DEF StageStart
  <2>2. Sound(0)
    BY <1>2, <1>3, <2>1
  <2> HIDE DEF Sound
  <2>3. QED
    BY <2>2
<1>5. ASSUME NEW n \in 0 .. N - 1, n \in S PROVE n + 1 \in S
  <2> DEFINE s0 == t[n]
             r0 == t[n + 1]
             token == tokens[n + 1]
  <2>1. n \in 0 .. N /\ n + 1 \in 1 .. N /\ n + 1 \in Nat /\ (n + 1) - 1 = n /\ n \in Nat
    BY <1>1
  <2>2. s0 \in StageState /\ r0 = Taken(s0, token, first, last)
    BY <1>2, <2>1
  <2>3. IsTaken(r0, s0, token, first, last)
    BY <1>1, <2>1, <2>2, StageTakes
  <2>4. Sound(n)
    BY <1>5
  <2> SUFFICES Sound(n + 1)
    BY <2>1
  <2> HIDE DEF s0, r0, S
  <2>5. /\ r0.error = "" => Follows(r0, tokens, n + 1, first, last)
        /\ r0.error # "" => ~Formed(tokens, first, last)
    <3> HIDE DEF N
    <3>1. n \in 0 .. Len(tokens) - 1
      BY DEF N
    <3>2. /\ s0.error = "" => Follows(s0, tokens, n, first, last)
          /\ s0.error # "" => ~Formed(tokens, first, last)
      BY <2>4 DEF s0
    <3>3. QED
      BY <2>2, <2>3, <3>1, <3>2, StageStep
  <2>6. QED
    BY <2>5 DEF r0
<1> HIDE DEF S
<1>6. \A n \in 0 .. N : n \in S
  BY <1>1, <1>4, <1>5, BoundedInduction
<1>7. Sound(N) /\ N \in 0 .. N
  <2>1. N \in 0 .. N
    BY <1>1
  <2>2. N \in S
    BY <1>6, <2>1
  <2> HIDE DEF Sound
  <2>3. QED
    BY <2>1, <2>2 DEF S
<1>8. QED
  BY <1>2, <1>7

\* The words and files parse_stage has found, by position.
ByPosition(r, tokens) ==
    /\ r.words = WordsOf(tokens)
    /\ \A op \in Redirects : Got(r, op) = {Word(tokens[i]) : i \in FilesOf(tokens, op)}

\* It succeeds just where the stage is formed, not empty and not too long.
LEMMA StageParsed ==
    ASSUME NEW tokens \in Seq(Token), Unpiped(tokens), NEW first \in BOOLEAN, NEW last \in BOOLEAN,
           NEW r, r = ParsedStage(tokens, first, last)
    PROVE  /\ r.error = "" <=> /\ Formed(tokens, first, last)
                               /\ WordsOf(tokens) # << >>
                               /\ ~(Len(Joined(Tail(WordsOf(tokens)))) > MaxArgs)
           /\ r.error = "" => ByPosition(r, tokens)
<1> DEFINE N == Len(tokens)
<1>1. PICK t : IsParse(t, tokens, first, last) /\ r = ParseResult(t[N])
  BY StageStepwise
<1> DEFINE s == t[N]
<1>2. /\ s \in StageState
      /\ s.error = "" => Follows(s, tokens, N, first, last)
      /\ s.error # "" => ~Formed(tokens, first, last)
  BY <1>1, StageFollows
<1>3. N \in Nat /\ Mine(tokens) \in SUBSET (1 .. N) /\ \A op : FilesOf(tokens, op) \in SUBSET (1 .. N)
  BY WordSeqFacts
<1>4. \A m \in StageErrors : Fails(s, m).error # ""
  BY <1>2, StageFails
<1>5. r = ParseResult(s)
  BY <1>1
<1> HIDE DEF s
<1>6. CASE s.error # ""
  BY <1>2, <1>5, <1>6 DEF ParseResult
<1>7. CASE s.error = "" /\ s.want # ""
  <2>1. r = Fails(s, "missing file")
    BY <1>5, <1>7 DEF ParseResult
  <2>2. r.error # ""
    BY <1>4, <2>1 DEF StageErrors
  <2>3. N # 0 /\ tokens[N].kind # "word"
    BY <1>2, <1>7 DEF Follows
  <2>4. N \in 1 .. N /\ ~(N < N)
    BY <1>3, <2>3
  <2>5. ~Formed(tokens, first, last)
    BY <2>3, <2>4 DEF Formed
  <2>6. QED
    BY <2>2, <2>5
<1>8. CASE s.error = "" /\ s.want = ""
  <2>1. Follows(s, tokens, N, first, last)
    BY <1>2, <1>8
  <2>2. \A I \in SUBSET (1 .. N) : UpTo(I, N) = I
    <3>1. \A i \in 1 .. N : i <= N
      BY <1>3
    <3> HIDE DEF N
    <3>2. QED
      BY <3>1, Zenon DEF UpTo
  <2>3. UpTo(Mine(tokens), N) = Mine(tokens) /\ \A op : UpTo(FilesOf(tokens, op), N) = FilesOf(tokens, op)
    BY <1>3, <2>2
  <2>4. s.words = WordsOf(tokens)
    BY <2>1, <2>3, WordSeqFacts DEF Follows
  <2>5. ByPosition(s, tokens)
    BY <2>1, <2>3, <2>4 DEF Follows, ByPosition
  <2>6. N # 0 => tokens[N].kind = "word"
    <3>1. N # 0 => N \in 1 .. N
      BY <1>3
    <3>2. N # 0 => tokens[N].kind \in Redirects \cup {"word"}
      BY <3>1 DEF Unpiped
    <3>3. N # 0 /\ tokens[N].kind # "word" => tokens[N].kind = ""
      BY <1>8, <2>1 DEF Follows
    <3>4. QED
      BY <3>2, <3>3 DEF Redirects
  <2>7. Formed(tokens, first, last)
    <3>1. \A i \in 1 .. N - 1 : tokens[i].kind # "word" => tokens[i + 1].kind = "word"
      BY <2>1 DEF Follows
    <3>2. \A i \in 1 .. N : N # 0 /\ (i # N => i \in 1 .. N - 1 /\ i < N)
      BY <1>3
    <3>3. OpsOnce(tokens, N, first, last) /\ Cardinality(Mine(tokens)) <= MaxStageTokens
      BY <2>1, <2>3 DEF Follows
    <3>4. QED
      BY <2>6, <3>1, <3>2, <3>3 DEF Formed
  <2> DEFINE long == Len(Joined(Tail(s.words))) > MaxArgs
  <2>8. CASE s.words = << >>
    <3>1. r = Fails(s, "empty command stage")
      BY <1>5, <1>8, <2>8 DEF ParseResult
    <3>2. r.error # ""
      BY <1>4, <3>1 DEF StageErrors
    <3>3. QED
      BY <2>4, <2>8, <3>2
  <2>9. CASE s.words # << >> /\ long
    <3>1. r = Fails(s, "args too long")
      BY <1>5, <1>8, <2>9 DEF ParseResult
    <3>2. r.error # ""
      BY <1>4, <3>1 DEF StageErrors
    <3>3. QED
      BY <2>4, <2>9, <3>2
  <2>10. CASE s.words # << >> /\ ~long
    <3>1. r = s
      BY <1>5, <1>8, <2>10 DEF ParseResult
    <3>2. QED
      BY <1>8, <2>4, <2>5, <2>7, <2>10, <3>1
  <2>11. QED
    BY <2>8, <2>9, <2>10
<1>9. QED
  BY <1>6, <1>7, <1>8

-----------------------------------------------------------------------------
(* The argument string.                                                    *)

\* One more word in the argument string.
Join(args, word) == IF args = << >> THEN word ELSE args \o <<Blank>> \o word

\* The argument strings of the first words, for each number of them.
IsJoin(a, words, U) ==
    /\ a[0] = << >>
    /\ \A n \in 0 .. Len(words) : a[n] \in Seq(U)
    /\ \A n \in 1 .. Len(words) : a[n] = Join(a[n - 1], words[n])

LEMMA JoinTyped ==
    ASSUME NEW U, Blank \in U, NEW args \in Seq(U), NEW word \in Seq(U)
    PROVE  Join(args, word) \in Seq(U)
<1>1. <<Blank>> \in Seq(U)
  OBVIOUS
<1>2. args \o <<Blank>> \in Seq(U)
  BY <1>1, ConcatProperties
<1>3. args \o <<Blank>> \o word \in Seq(U)
  BY <1>2, ConcatProperties
<1>4. QED
  BY <1>3 DEF Join

LEMMA JoinStepwise ==
    ASSUME NEW U, Blank \in U, NEW words \in Seq(Seq(U))
    PROVE  \E a : IsJoin(a, words, U) /\ Joined(words) = a[Len(words)]
<1> DEFINE N == Len(words)
           D == Seq(U)
           step == [x \in (1 .. N) \X D |-> Join(x[2], words[x[1]])]
           t == CHOOSE t : t = [n \in 0 .. Len(words) |->
                   IF n = 0 THEN << >>
                   ELSE IF t[n - 1] = << >> THEN words[n]
                   ELSE t[n - 1] \o <<Blank>> \o words[n]]
<1>1. N \in Nat /\ \A n \in 1 .. N : words[n] \in D
  <2> HIDE DEF D
  <2>1. words \in Seq(D)
    BY DEF D
  <2>2. QED
    BY <2>1, LenProperties, ElementOfSeq
<1>2. << >> \in D
  BY EmptySeq
<1>3. ASSUME NEW n \in 1 .. N, NEW args \in D PROVE Join(args, words[n]) \in D
  BY <1>1, JoinTyped
<1> HIDE DEF D
<1>4. step \in Steps(N, D)
  BY <1>3 DEF Steps
<1>5. PICK f : Recurs(f, N, D, << >>, step)
  <2> HIDE DEF step, N
  <2>1. QED
    BY <1>1, <1>2, <1>4, Recursion
<1>6. /\ f \in [0 .. N -> D] /\ f[0] = << >>
      /\ \A n \in 1 .. N : f[n] = Join(f[n - 1], words[n])
  <2>1. /\ f \in [0 .. N -> D] /\ f[0] = << >>
        /\ \A n \in 1 .. N : f[n] = step[<<n, f[n - 1]>>]
    BY <1>5 DEF Recurs
  <2>2. \A n \in 1 .. N : n - 1 \in 0 .. N
    BY <1>1
  <2>3. \A n \in 1 .. N : <<n, f[n - 1]>> \in (1 .. N) \X D
    BY <2>1, <2>2
  <2>4. QED
    BY <2>1, <2>3
<1>7. f = [n \in 0 .. Len(words) |->
             IF n = 0 THEN << >>
             ELSE IF f[n - 1] = << >> THEN words[n]
             ELSE f[n - 1] \o <<Blank>> \o words[n]]
  <2>1. \A n \in 0 .. N : n # 0 => n \in 1 .. N
    BY <1>1
  <2>2. \A n \in 0 .. N : f[n] = IF n = 0 THEN << >> ELSE Join(f[n - 1], words[n])
    BY <1>6, <2>1
  <2>3. f = [n \in 0 .. N |-> IF n = 0 THEN << >> ELSE Join(f[n - 1], words[n])]
    BY <1>6, <2>2
  <2>4. QED
    BY <2>3 DEF Join
<1>8. t = [n \in 0 .. Len(words) |->
             IF n = 0 THEN << >>
             ELSE IF t[n - 1] = << >> THEN words[n]
             ELSE t[n - 1] \o <<Blank>> \o words[n]]
  BY <1>7, Zenon
<1>9. Joined(words) = t[Len(words)]
  BY Zenon DEF Joined
<1> HIDE DEF t, step
<1>10. t[0] = << >> /\ \A n \in 1 .. N : t[n] = Join(t[n - 1], words[n])
  <2>1. 0 \in 0 .. N /\ \A n \in 1 .. N : n \in 0 .. N /\ n # 0
    BY <1>1
  <2>2. t = [n \in 0 .. N |-> IF n = 0 THEN << >> ELSE Join(t[n - 1], words[n])]
    BY <1>8, Zenon DEF Join
  <2> HIDE DEF N
  <2>3. \A n \in 0 .. N : t[n] = IF n = 0 THEN << >> ELSE Join(t[n - 1], words[n])
    BY <2>2, Zenon
  <2>4. QED
    BY <2>1, <2>3
<1> DEFINE S == {n \in Nat : t[n] \in D}
<1>11. 0 \in S
  BY <1>2, <1>10
<1>12. ASSUME NEW n \in 0 .. N - 1, n \in S PROVE n + 1 \in S
  <2>1. n + 1 \in 1 .. N /\ n + 1 \in Nat /\ (n + 1) - 1 = n
    BY <1>1
  <2>2. t[n + 1] = Join(t[n], words[n + 1])
    BY <1>10, <2>1
  <2>3. QED
    BY <1>3, <1>12, <2>1, <2>2
<1> HIDE DEF S
<1>13. \A n \in 0 .. N : n \in S
  BY <1>1, <1>11, <1>12, BoundedInduction
<1>14. \A n \in 0 .. N : t[n] \in Seq(U)
  BY <1>13 DEF S, D
<1>15. QED
  BY <1>9, <1>10, <1>14 DEF IsJoin

LEMMA JoinedTyped ==
    ASSUME NEW U, Blank \in U, NEW words \in Seq(Seq(U))
    PROVE  Joined(words) \in Seq(U) /\ Len(Joined(words)) \in Nat
<1>1. PICK a : IsJoin(a, words, U) /\ Joined(words) = a[Len(words)]
  BY JoinStepwise
<1> DEFINE T == Seq(U)
<1>2. Len(words) \in Nat /\ Len(words) \in 0 .. Len(words)
  <2> HIDE DEF T
  <2>1. words \in Seq(T)
    BY DEF T
  <2>2. Len(words) \in Nat
    BY <2>1, LenProperties
  <2>3. QED
    BY <2>2
<1>3. Joined(words) \in Seq(U)
  BY <1>1, <1>2 DEF IsJoin
<1>4. QED
  BY <1>3, LenProperties

\* The characters of the words of a line.
Letters == {scan.parsed[i] : i \in Nat} \cup {Blank}

LEMMA TextsAreLetters == Texts \subseteq Seq(Letters) /\ Blank \in Letters
<1>1. ASSUME NEW token \in Token PROVE Word(token) \in Seq(Letters)
  <2> DEFINE m == token.start + 1
             n == token.start + token.len
  <2>1. m \in Nat /\ n \in Nat
    BY DEF Token
  <2> HIDE DEF m, n
  <2>2. \A i \in m .. n : scan.parsed[i] \in Letters
    BY <2>1 DEF Letters
  <2>3. SubSeq(scan.parsed, m, n) \in Seq(Letters)
    BY <2>1, <2>2, SubSeqProperties
  <2>4. QED
    BY <2>3 DEF Word, m, n
<1>2. QED
  BY <1>1 DEF Texts, Letters

-----------------------------------------------------------------------------
(* Well formed stages.                                                     *)

\* A set has at most one element, and none where it may have none.
LEMMA AtMostOne ==
    ASSUME NEW N \in Nat, NEW P \in SUBSET (0 .. N), NEW may \in BOOLEAN
    PROVE  Cardinality(P) <= (IF may THEN 1 ELSE 0) <=> \A i \in P : may /\ \A j \in P : j = i
<1> DEFINE c == Cardinality(P)
<1>1. /\ c \in Nat
      /\ \A i \in P : i \in Nat /\ Rank(P, i) \in Nat /\ Rank(P, i) < c
      /\ \A i, j \in P : i < j => Rank(P, i) < Rank(P, j)
  <2>1. \A i \in P : i \in Nat
    OBVIOUS
  <2>2. QED
    BY <2>1, Ranks
<1> HIDE DEF c
<1>2. ASSUME c <= (IF may THEN 1 ELSE 0), NEW i \in P, NEW j \in P PROVE may /\ j = i
  <2>1. c # 0 /\ c <= 1 /\ may
    BY <1>1, <1>2
  <2>2. Rank(P, i) = 0 /\ Rank(P, j) = 0
    BY <1>1, <2>1
  <2>3. ~(i < j) /\ ~(j < i)
    BY <1>1, <2>2
  <2>4. QED
    BY <1>1, <2>1, <2>3
<1>3. ASSUME \A i \in P : may /\ \A j \in P : j = i PROVE c <= (IF may THEN 1 ELSE 0)
  <2>1. CASE P = {}
    <3>1. c = 0
      BY <2>1, FS_EmptySet DEF c
    <3>2. QED
      BY <3>1
  <2>2. CASE P # {}
    <3>1. PICK i \in P : TRUE
      BY <2>2
    <3>2. P = {i} /\ may
      BY <1>3, <3>1
    <3>3. c = 1
      BY <3>2, FS_Singleton DEF c
    <3>4. QED
      BY <3>2, <3>3
  <2>3. QED
    BY <2>1, <2>2
<1>4. QED
  BY <1>2, <1>3 DEF c

\* Where an operator stands.
Places(tokens, kind) == {i \in 1 .. Len(tokens) : tokens[i].kind = kind}

LEMMA OpsCounted ==
    ASSUME NEW tokens \in Seq(Token), NEW first \in BOOLEAN, NEW last \in BOOLEAN
    PROVE  OpsOnce(tokens, Len(tokens), first, last) <=>
              /\ Cardinality(Places(tokens, "<")) <= IF first THEN 1 ELSE 0
              /\ Cardinality(Places(tokens, ">")) <= IF last THEN 1 ELSE 0
<1> DEFINE Alone(P, may) == \A i \in P : may /\ \A j \in P : j = i
<1>1. \A kind : Places(tokens, kind) \in SUBSET (0 .. Len(tokens)) /\ Len(tokens) \in Nat
  <2>1. Len(tokens) \in Nat
    BY LenProperties
  <2>2. \A kind : Places(tokens, kind) \in SUBSET (1 .. Len(tokens))
    BY DEF Places
  <2>3. QED
    BY <2>1, <2>2, OneIsLater, Zenon
<1>2. /\ Cardinality(Places(tokens, "<")) <= (IF first THEN 1 ELSE 0) <=> Alone(Places(tokens, "<"), first)
      /\ Cardinality(Places(tokens, ">")) <= (IF last THEN 1 ELSE 0) <=> Alone(Places(tokens, ">"), last)
  <2>1. ASSUME NEW P \in SUBSET (0 .. Len(tokens)), NEW may \in BOOLEAN
        PROVE  Cardinality(P) <= (IF may THEN 1 ELSE 0) <=> Alone(P, may)
    BY <1>1, AtMostOne
  <2> HIDE DEF Alone
  <2>2. QED
    BY <1>1, <2>1
<1>3. OpsOnce(tokens, Len(tokens), first, last) <=>
         Alone(Places(tokens, "<"), first) /\ Alone(Places(tokens, ">"), last)
  BY DEF OpsOnce, Places, Redirects, May
<1>4. QED
  BY <1>2, <1>3

\* The words of a stage.
LEMMA WordsOfFacts ==
    ASSUME NEW tokens \in Seq(Token)
    PROVE  /\ WordsOf(tokens) \in Seq(Seq(Letters))
           /\ Cardinality(Mine(tokens)) \in Nat
           /\ Len(WordsOf(tokens)) = Cardinality(Mine(tokens))
           /\ WordsOf(tokens) # << >> => Tail(WordsOf(tokens)) \in Seq(Seq(Letters))
<1> DEFINE ws == WordSeq(tokens)
           I == Mine(tokens)
           c == Cardinality(I)
           N == Len(tokens)
           D == Seq(Letters)
<1>1. /\ N \in Nat /\ ws \in Seq(Texts) /\ Len(ws) = N /\ I \in SUBSET (1 .. N)
      /\ WordsOf(tokens) = Selection(ws, I)
  BY WordSeqFacts
<1>2. Texts \subseteq D
  BY TextsAreLetters
<1> HIDE DEF ws, I, N, D
<1>3. \A i \in 1 .. N : ws[i] \in D
  BY <1>1, <1>2, ElementOfSeq
<1>4. I \in SUBSET (0 .. N)
  BY <1>1, OneIsLater, Zenon
<1>5. c \in Nat /\ \A n \in 1 .. c : Nth(I, n) \in I
  BY <1>1, <1>4, Ranks, NthPosition
<1>6. WordsOf(tokens) = [n \in 1 .. c |-> ws[Nth(I, n)]]
  BY <1>1 DEF Selection
<1> HIDE DEF c
<1>7. \A n \in 1 .. c : ws[Nth(I, n)] \in D
  BY <1>1, <1>3, <1>5
<1>8. WordsOf(tokens) \in Seq(D) /\ Len(WordsOf(tokens)) = c
  BY <1>5, <1>6, <1>7
<1>9. WordsOf(tokens) # << >> => Tail(WordsOf(tokens)) \in Seq(D)
  BY <1>8, HeadTailProperties
<1>10. QED
  BY <1>5, <1>8, <1>9 DEF c, D, I

\* The stages of a line are tokens other than pipes.
LEMMA StageOf ==
    ASSUME scan.tokens \in Seq(Token), NEW k \in 1 .. Len(Stages)
    PROVE  Stages[k] \in Seq(Token) /\ Unpiped(Stages[k])
<1> DEFINE tokens == scan.tokens
           I == {i \in 1 .. Len(tokens) : tokens[i].kind = "|"}
           D == Seq(Token)
<1>1. Stages = Parts(tokens, I)
  BY DEF Stages, Cuts
<1>2. /\ \A j \in 1 .. Len(tokens) : tokens[j] \in Token
      /\ I \in SUBSET (1 .. Len(tokens))
      /\ \A j \in 1 .. Len(tokens) : j \notin I => tokens[j].kind # "|"
  BY ElementOfSeq
<1> HIDE DEF I
<1>3. /\ Stages \in Seq(D)
      /\ \A i \in 1 .. Len(Stages[k]) : \E j \in 1 .. Len(tokens) : j \notin I /\ Stages[k][i] = tokens[j]
  <2> HIDE DEF tokens, D
  <2>1. tokens \in Seq(Token)
    BY DEF tokens
  <2>2. IsParted(Parts(tokens, I), tokens, I, Token)
    BY <1>2, <2>1, PartsFacts
  <2>3. QED
    BY <1>1, <2>2 DEF D, IsParted
<1> HIDE DEF D
<1>4. Stages[k] \in D
  BY <1>3, ElementOfSeq
<1>5. \A token \in Token : token.kind # "|" => token.kind \in Redirects \cup {"word"}
  BY DEF Token, Ops, Redirects
<1>6. ASSUME NEW i \in 1 .. Len(Stages[k]) PROVE Stages[k][i].kind \in Redirects \cup {"word"}
  <2>1. PICK j \in 1 .. Len(tokens) : j \notin I /\ Stages[k][i] = tokens[j]
    BY <1>3
  <2>2. QED
    BY <1>2, <1>5, <2>1
<1>7. QED
  BY <1>4, <1>6 DEF D, Unpiped

\* A stage is well formed just where parse_stage accepts it.
LEMMA WellFormedStage ==
    ASSUME scan.tokens \in Seq(Token), HasOps(scan.tokens), NEW k \in 1 .. Len(Stages),
           NEW r, r = ParsedStage(Stages[k], k = 1, k = Len(Stages))
    PROVE  /\ WellFormed(k) <=> r.error = ""
           /\ r.error = "" => ByPosition(r, Stages[k])
<1> DEFINE tokens == Stages[k]
           words == WordsOf(tokens)
           first == k = 1
           last == k = Len(Stages)
<1>1. tokens \in Seq(Token) /\ Unpiped(tokens) /\ first \in BOOLEAN /\ last \in BOOLEAN
  BY StageOf
<1> HIDE DEF first, last
<1>2. /\ r.error = "" <=> /\ Formed(tokens, first, last)
                          /\ words # << >>
                          /\ ~(Len(Joined(Tail(words))) > MaxArgs)
      /\ r.error = "" => ByPosition(r, tokens)
  BY <1>1, StageParsed DEF first, last
<1> HIDE DEF words
<1>3. WellFormed(k) <=>
         /\ \A i \in 1 .. Len(tokens) :
               tokens[i].kind # "word" => i < Len(tokens) /\ tokens[i + 1].kind = "word"
         /\ Cardinality(Places(tokens, "<")) <= IF first THEN 1 ELSE 0
         /\ Cardinality(Places(tokens, ">")) <= IF last THEN 1 ELSE 0
         /\ words # << >>
         /\ Len(words) <= MaxStageTokens
         /\ Len(Joined(Tail(words))) <= MaxArgs
  BY DEF WellFormed, Places, words, first, last
<1> HIDE DEF tokens
<1>4. OpsOnce(tokens, Len(tokens), first, last) <=>
         /\ Cardinality(Places(tokens, "<")) <= IF first THEN 1 ELSE 0
         /\ Cardinality(Places(tokens, ">")) <= IF last THEN 1 ELSE 0
  BY <1>1, OpsCounted
<1>5. Len(words) = Cardinality(Mine(tokens))
  BY <1>1, WordsOfFacts DEF words
<1>6. words # << >> => (Len(Joined(Tail(words))) <= MaxArgs <=> ~(Len(Joined(Tail(words))) > MaxArgs))
  <2>1. words # << >> => Tail(words) \in Seq(Seq(Letters))
    BY <1>1, WordsOfFacts DEF words
  <2>2. words # << >> => Len(Joined(Tail(words))) \in Nat
    BY <2>1, JoinedTyped, TextsAreLetters
  <2>3. \A a, b \in Nat : a <= b <=> ~(a > b)
    OBVIOUS
  <2>4. QED
    BY <2>2, <2>3, TokenizerSizes, Zenon
<1>7. Formed(tokens, first, last) <=>
         /\ \A i \in 1 .. Len(tokens) :
               tokens[i].kind # "word" => i < Len(tokens) /\ tokens[i + 1].kind = "word"
         /\ OpsOnce(tokens, Len(tokens), first, last)
         /\ Cardinality(Mine(tokens)) <= MaxStageTokens
  BY DEF Formed
<1>8. QED
  BY <1>2, <1>3, <1>4, <1>5, <1>6, <1>7 DEF tokens

-----------------------------------------------------------------------------
(* A line without an operator.                                             *)

\* The selection of all is all.
LEMMA SelectionAll ==
    ASSUME NEW S, NEW s \in Seq(S)
    PROVE  Selection(s, 1 .. Len(s)) = s
<1> DEFINE N == Len(s)
           I == 1 .. N
<1>1. N \in Nat /\ I \in SUBSET (0 .. N)
  <2>1. N \in Nat
    BY LenProperties
  <2>2. QED
    BY <2>1, OneIsLater, Zenon
<1>2. Cardinality(I) = N
  <2>1. Cardinality(1 .. N) = IF 1 > N THEN 0 ELSE N - 1 + 1
    <3>1. N \in Int /\ 1 \in Int
      BY <1>1
    <3> HIDE DEF N
    <3>2. QED
      BY <3>1, FS_Interval
  <2>2. QED
    BY <1>1, <2>1
<1>3. ASSUME NEW n \in 1 .. N PROVE Nth(I, n) = n
  <2>1. {j \in I : j < n} = 1 .. n - 1
    BY <1>1
  <2>2. Cardinality(1 .. n - 1) = n - 1
    <3>1. n - 1 \in Int /\ 1 \in Int
      OBVIOUS
    <3>2. Cardinality(1 .. n - 1) = IF 1 > n - 1 THEN 0 ELSE (n - 1) - 1 + 1
      BY <3>1, FS_Interval
    <3>3. QED
      BY <3>2
  <2>3. Rank(I, n) = n - 1
    BY <2>1, <2>2 DEF Rank
  <2> HIDE DEF I, N
  <2>4. n \in I /\ n \in 1 .. Cardinality(I)
    BY <1>2 DEF I
  <2>5. QED
    BY <1>1, <2>3, <2>4, NthIs
<1>4. s = [n \in 1 .. N |-> s[n]]
  OBVIOUS
<1>5. Selection(s, I) = [n \in 1 .. N |-> s[Nth(I, n)]]
  BY <1>2 DEF Selection
<1>6. [n \in 1 .. N |-> s[Nth(I, n)]] = [n \in 1 .. N |-> s[n]]
  BY <1>3
<1>7. QED
  BY <1>4, <1>5, <1>6

\* It is one stage, all of its tokens are words of the command.
LEMMA FlatLine ==
    ASSUME scan.tokens \in Seq(Token), ~HasOps(scan.tokens)
    PROVE  /\ Stages = <<scan.tokens>>
           /\ WordsOf(scan.tokens) = WordSeq(scan.tokens)
           /\ \A op \in Redirects : FilesOf(scan.tokens, op) = {} /\ Places(scan.tokens, op) = {}
<1> DEFINE tokens == scan.tokens
           N == Len(tokens)
<1>1. N \in Nat
  BY LenProperties
<1>2. \A i \in 1 .. N : tokens[i].kind = "word" /\ tokens[i].kind # "|"
  BY DEF HasOps
<1>3. Stages = <<tokens>>
  <2>1. {i \in 1 .. Len(tokens) : tokens[i].kind = "|"} = {}
    BY <1>2
  <2>2. Stages = Parts(tokens, {})
    BY <2>1 DEF Stages, Cuts
  <2>3. QED
    BY <2>2, PartsNone
<1>4. \A op \in Redirects : FilesOf(tokens, op) = {} /\ Places(tokens, op) = {}
  <2>1. \A i \in 2 .. N : i - 1 \in 1 .. N
    BY <1>1
  <2>2. "word" \notin Redirects
    BY DEF Redirects
  <2>3. \A op \in Redirects : \A i \in 1 .. N : tokens[i].kind # op
    BY <1>2, <2>2
  <2>4. QED
    BY <2>1, <2>3 DEF FilesOf, Places
<1>5. Mine(tokens) = 1 .. N
  BY <1>2, <1>4 DEF Mine, Redirects
<1>6. WordsOf(tokens) = WordSeq(tokens)
  <2>1. WordsOf(tokens) = Selection(WordSeq(tokens), 1 .. Len(WordSeq(tokens)))
    BY <1>5, WordSeqFacts
  <2>2. WordSeq(tokens) \in Seq(Texts)
    BY WordSeqFacts
  <2>3. QED
    BY <2>1, <2>2, SelectionAll
<1>7. QED
  BY <1>3, <1>4, <1>6

\* It is well formed unless it is empty or its arguments are too long.
LEMMA FlatWellFormed ==
    ASSUME scan.tokens \in Seq(Token), ~HasOps(scan.tokens), scan.tokens # << >>
    PROVE  WellFormed(1) <=> ~(Len(Joined(Tail(WordSeq(scan.tokens)))) > MaxArgs)
<1> DEFINE tokens == scan.tokens
           words == WordSeq(tokens)
<1>1. /\ Stages = <<tokens>> /\ WordsOf(tokens) = words
      /\ Places(tokens, "<") = {} /\ Places(tokens, ">") = {}
  BY FlatLine DEF Redirects
<1>2. Stages[1] = tokens
  BY <1>1
<1>3. words # << >>
  <2>1. Len(words) = Len(tokens) /\ words \in Seq(Texts)
    BY WordSeqFacts
  <2>2. Len(tokens) # 0
    BY EmptySeq
  <2>3. QED
    BY <2>1, <2>2
<1>4. Len(Joined(Tail(words))) \in Nat
  <2>1. Tail(words) \in Seq(Seq(Letters))
    BY <1>1, <1>3, WordsOfFacts
  <2>2. QED
    BY <2>1, JoinedTyped, TextsAreLetters
<1>5. \A i \in 1 .. Len(tokens) : tokens[i].kind = "word"
  BY DEF HasOps
<1> HIDE DEF words
<1>6. /\ Cardinality({}) <= IF 1 = 1 THEN 1 ELSE 0
      /\ Cardinality({}) <= IF 1 = Len(Stages) THEN 1 ELSE 0
  BY FS_EmptySet
<1>7. WellFormed(1) <=>
         /\ \A i \in 1 .. Len(tokens) :
               tokens[i].kind # "word" => i < Len(tokens) /\ tokens[i + 1].kind = "word"
         /\ Cardinality(Places(tokens, "<")) <= IF 1 = 1 THEN 1 ELSE 0
         /\ Cardinality(Places(tokens, ">")) <= IF 1 = Len(Stages) THEN 1 ELSE 0
         /\ words # << >>
         /\ HasOps(tokens) => Len(words) <= MaxStageTokens
         /\ Len(Joined(Tail(words))) <= MaxArgs
  BY <1>1, <1>2 DEF WellFormed, Places
<1>8. WellFormed(1) <=> Len(Joined(Tail(words))) <= MaxArgs
  BY <1>1, <1>3, <1>5, <1>6, <1>7
<1>9. \A a, b \in Nat : a <= b <=> ~(a > b)
  OBVIOUS
<1>10. QED
  BY <1>4, <1>8, <1>9, TokenizerSizes, Zenon DEF words

-----------------------------------------------------------------------------
(* A line that isn't blank has a token.                                    *)

\* The scanner has begun one.
Begun(s) == s.tokens # << >> \/ s.in_token

LEMMA AppendSome ==
    ASSUME NEW S, NEW s \in Seq(S), NEW e \in S
    PROVE  Append(s, e) # << >>
  BY AppendProperties

LEMMA PushTokenBegins ==
    ASSUME NEW s \in Scanner, NEW kind \in Ops \cup {"word"}, NEW start \in Nat, NEW len \in Nat,
           NEW t, t = PushToken(s, kind, start, len), t.error = ""
    PROVE  t.tokens # << >>
<1> DEFINE token == [kind |-> kind, start |-> start, len |-> len]
<1>1. IsTokenPushed(t, s, token)
  BY PushTokenFields
<1>2. token \in Token /\ s.tokens \in Seq(Token)
  BY DEF Token, Scanner
<1> HIDE DEF token
<1>3. t.tokens = Append(s.tokens, token)
  BY <1>1 DEF IsTokenPushed
<1>4. Append(s.tokens, token) # << >>
  BY <1>2, AppendSome, Zenon
<1>5. QED
  BY <1>3, <1>4

LEMMA EndWordBegins ==
    ASSUME NEW s, Tiled(s), Begun(s), EndWord(s).error = "", s.error = ""
    PROVE  EndWord(s).tokens # << >>
<1> DEFINE len == Len(s.parsed) - s.start
           p == PushToken(s, "word", s.start, len)
<1>1. CASE ~s.in_token
  BY <1>1 DEF EndWord, Begun
<1>2. CASE s.in_token
  <2>1. s \in Scanner /\ s.start \in Nat /\ Len(s.parsed) \in Nat /\ s.start <= Len(s.parsed)
    BY <1>2, ScannerFacts DEF Tiled
  <2>2. len \in Nat
    BY <2>1, Lengths, Zenon
  <2> HIDE DEF len
  <2>3. EndWord(s) = IF p.error # "" THEN p ELSE [p EXCEPT !.in_token = FALSE]
    BY <1>2, Zenon DEF EndWord, len
  <2>4. p \in Scanner
    BY <2>1, <2>2, PushTokenFields
  <2>5. ASSUME p.error = "" PROVE p.tokens # << >>
    BY <2>1, <2>2, <2>5, PushTokenBegins
  <2> HIDE DEF p
  <2>6. QED
    BY <2>3, <2>4, <2>5 DEF Scanner
<1>3. QED
  BY <1>1, <1>2

\* It stays begun, and any character but a blank begins one.
LEMMA ScannedBegins ==
    ASSUME NEW s, Tiled(s), s.error = "", NEW c \in Chars, c # Blank \/ Begun(s),
           Scanned(s, c).error = ""
    PROVE  Begun(Scanned(s, c))
<1> DEFINE t == Scanned(s, c)
           b == BeginWord(s)
           e == EndWord(s)
<1>1. s \in Scanner /\ (s.in_single \/ s.in_double \/ s.escape => s.in_token)
  BY DEF Tiled
<1>2. ASSUME NEW r \in Scanner PROVE PushChar(r, c).error = "" => Begun(PushChar(r, c))
  <2>1. IsPushed(PushChar(r, c), r, c)
    BY <1>2, PushCharFields
  <2> DEFINE u == PushChar(r, c)
  <2> HIDE DEF u
  <2>2. u.error = "" => u.in_token
    BY <2>1 DEF IsPushed, u
  <2>3. QED
    BY <2>2 DEF Begun, u
<1>3. b \in Scanner /\ b.in_token
  BY BeginWordTiles DEF Tiled
<1>4. Tiled(s) /\ (e.error = "" /\ Begun(s) => e.tokens # << >>)
  BY EndWordBegins
<1> HIDE DEF b
<1>5. CASE s.escape
  <2> DEFINE r == [s EXCEPT !.escape = FALSE]
  <2>1. r \in Scanner
    BY <1>1 DEF Scanner
  <2>2. t = PushChar(r, c)
    BY <1>5, ScannedCases
  <2> HIDE DEF r, t
  <2>3. QED
    BY <1>2, <2>1, <2>2 DEF t
<1>6. CASE ~s.escape /\ (s.in_single \/ s.in_double)
  <2>1. \/ t = PushChar(s, c) \/ t = [s EXCEPT !.in_single = FALSE]
        \/ t = [s EXCEPT !.in_double = FALSE] \/ t = [s EXCEPT !.escape = TRUE]
    BY <1>6, ScannedCases
  <2>2. CASE t = PushChar(s, c)
    BY <1>1, <1>2, <2>2
  <2>3. CASE t # PushChar(s, c)
    <3>1. t.in_token = s.in_token
      BY <1>1, <2>1, <2>3 DEF Scanner
    <3> HIDE DEF t
    <3>2. QED
      BY <1>1, <1>6, <3>1 DEF Begun, t
  <2>4. QED
    BY <2>2, <2>3
<1>7. CASE ~s.escape /\ ~s.in_single /\ ~s.in_double
  <2>1. CASE c = Blank
    <3>1. t = e
      BY <1>7, <2>1, ScannedCases
    <3>2. QED
      BY <1>4, <2>1, <3>1 DEF Begun
  <2>2. CASE c \in Ops
    <3>1. t = IF e.error # "" THEN e ELSE PushToken(e, c, 0, 0)
      BY <1>7, <2>2, ScannedCases
    <3>2. e \in Scanner
      BY <1>7, EndWordTiles DEF Tiled
    <3> HIDE DEF e
    <3>3. t = PushToken(e, c, 0, 0)
      BY <3>1
    <3>4. t.tokens # << >>
      BY <2>2, <3>2, <3>3, PushTokenBegins
    <3>5. QED
      BY <3>4 DEF Begun
  <2>3. CASE c \notin {Blank} \cup Ops
    <3>1. \/ t = PushChar(b, c) \/ t = [b EXCEPT !.in_single = TRUE]
          \/ t = [b EXCEPT !.in_double = TRUE] \/ t = [b EXCEPT !.escape = TRUE]
      <4>1. /\ c = "'" => t = [b EXCEPT !.in_single = TRUE]
            /\ c = "\"" => t = [b EXCEPT !.in_double = TRUE]
            /\ c = "\\" => t = [b EXCEPT !.escape = TRUE]
            /\ c \notin {Blank, "'", "\"", "\\"} \cup Ops => t = PushChar(b, c)
        BY <1>7, ScannedCases, Zenon DEF b
      <4> HIDE DEF t
      <4>2. QED
        BY <2>3, <4>1
    <3>2. CASE t = PushChar(b, c)
      BY <1>2, <1>3, <3>2
    <3>3. CASE t # PushChar(b, c)
      <4>1. t.in_token = b.in_token
        BY <1>3, <3>1, <3>3 DEF Scanner
      <4> HIDE DEF t
      <4>2. QED
        BY <1>3, <4>1 DEF Begun, t
    <3>4. QED
      BY <3>2, <3>3
  <2>4. QED
    BY <2>1, <2>2, <2>3
<1>8. QED
  BY <1>5, <1>6, <1>7

-----------------------------------------------------------------------------
(* The stages that run.                                                    *)

Parsed(k) == ParsedStage(Stages[k], k = 1, k = Len(Stages))

\* What runs of a line without an operator, and when it doesn't.
FlatParse == StageParse([words |-> WordSeq(scan.tokens), in |-> {}, out |-> {}])
TooLong   == Len(Joined(Tail(WordSeq(scan.tokens)))) > MaxArgs

\* Each stage that has run was parsed without error, and what stopped the line
\* stopped it at the next stage.
RanWasParsed ==
    /\ HasOps(scan.tokens) =>
          \A k \in 1 .. Len(ran) :
             /\ k \in 1 .. Len(Stages)
             /\ Parsed(k).error = "" /\ ran[k] = StageParse(Parsed(k))
    /\ ~HasOps(scan.tokens) /\ ran # << >> =>
          scan.tokens # << >> /\ ran = <<FlatParse>> /\ ~TooLong

StoppedAt(k) ==
    IF HasOps(scan.tokens)
    THEN k \in 1 .. Len(Stages) /\ (Parsed(k).error = "" => Parsed(k).words[1] \in Builtins)
    ELSE scan.tokens # << >> /\ k = 1 /\ TooLong

StageInv ==
    /\ \E S : ran \in Seq(S)
    /\ at = "scanning" => ran = << >> /\ (line # << >> => Begun(scan))
    /\ at = "stages" => scan.error = "" /\ HasOps(scan.tokens) /\ Len(ran) < Len(Stages)
    /\ RanWasParsed
    /\ at = "refused" /\ scan.error = "" /\ SplitError(Stages) = "" => StoppedAt(Len(ran) + 1)

LEMMA NoneRan == ASSUME ran = << >> PROVE (\E S : ran \in Seq(S)) /\ RanWasParsed /\ Len(ran) = 0
<1>1. << >> \in Seq({}) /\ Len(<< >>) = 0
  BY EmptySeq
<1>2. \A k : ~(k \in 1 .. 0)
  OBVIOUS
<1>3. QED
  BY <1>1, <1>2 DEF RanWasParsed

LEMMA InitStageInv == Init => StageInv
  BY NoneRan DEF Init, StageInv

LEMMA ScanKeepsStages ==
    ASSUME ScannerInv, StageInv, NEW c \in Chars, Scan(c)
    PROVE  StageInv'
<1>1. /\ Tiled(scan) /\ scan.error = "" /\ line \in Seq(Chars)
      /\ ran = << >> /\ (line # << >> => Begun(scan)) /\ ran' = << >>
      /\ (line = << >> => c # Blank) /\ scan' = Scanned(scan, c)
  BY DEF ScannerInv, StageInv, Scan
<1>2. scan'.error = "" => Begun(scan')
  BY <1>1, ScannedBegins
<1>3. /\ (\E S : ran' \in Seq(S)) /\ Len(ran') = 0
      /\ RanWasParsed'
  <2>1. << >> \in Seq({}) /\ Len(<< >>) = 0
    BY EmptySeq
  <2>2. \A k : ~(k \in 1 .. 0)
    OBVIOUS
  <2>3. QED
    BY <1>1, <2>1, <2>2 DEF RanWasParsed
<1>4. IF scan'.error # "" THEN at' = "refused" ELSE at' = "scanning"
  BY DEF Scan, Refuse
<1>5. QED
  BY <1>1, <1>2, <1>3, <1>4 DEF StageInv

\* There is always a stage.
LEMMA SomeStage ==
    ASSUME NEW tokens \in Seq(Token)
    PROVE  Len(Cuts(tokens)) \in Nat /\ Len(Cuts(tokens)) >= 1
<1> DEFINE I == {i \in 1 .. Len(tokens) : tokens[i].kind = "|"}
<1>1. Cuts(tokens) = Parts(tokens, I)
  BY DEF Cuts
<1>2. I \in SUBSET (1 .. Len(tokens))
  OBVIOUS
<1> HIDE DEF I
<1>3. IsParted(Parts(tokens, I), tokens, I, Token)
  BY <1>2, PartsFacts
<1>4. QED
  BY <1>1, <1>3 DEF IsParted

LEMMA EndOfLineKeepsStages ==
    ASSUME ScannerInv, StageInv, EndOfLine
    PROVE  StageInv'
<1> DEFINE tokens == scan'.tokens
           words == [i \in 1 .. Len(tokens) |-> Word(tokens[i])]
           split == SplitError(Cuts(tokens))
           long == Len(Joined(Tail(words))) > MaxArgs
<1>1. /\ Tiled(scan) /\ scan.error = "" /\ scan' = AtEnd(scan)
      /\ ran = << >> /\ Begun(scan)
  BY DEF ScannerInv, StageInv, EndOfLine
<1>2. Tiled(scan') /\ scan'.parsed = scan.parsed /\ tokens \in Seq(Token)
  BY <1>1, AtEndTiles, ScannerFacts DEF Tiled
<1>3. scan'.error = "" => tokens # << >>
  <2>1. AtEnd(scan).error = "" => AtEnd(scan) = EndWord(scan)
    <3>1. \A m \in {"trailing escape", "unclosed quote"} : Fails(scan, m).error = m
      BY <1>1 DEF Fails, Tiled, Scanner
    <3>2. QED
      BY <3>1 DEF AtEnd
  <2>2. QED
    BY <1>1, <2>1, EndWordBegins
<1>4. IF scan'.error # "" THEN at' = "refused" /\ ran' = ran
      ELSE IF ~HasOps(tokens) THEN
           IF long THEN at' = "refused" /\ ran' = ran
           ELSE at' = "dispatched" /\ ran' = <<StageParse([words |-> words, in |-> {}, out |-> {}])>>
      ELSE IF split # "" THEN at' = "refused" /\ ran' = ran
      ELSE at' = "stages" /\ ran' = ran
  BY DEF EndOfLine, Refuse
<1>5. WordSeq(scan.tokens)' = words
  BY <1>2 DEF WordSeq, Word
<1>6. (TooLong' <=> long) /\ FlatParse' = StageParse([words |-> words, in |-> {}, out |-> {}])
  <2> HIDE DEF words
  <2>1. QED
    BY <1>5 DEF TooLong, FlatParse, StageParse
<1>7. Stages' = Cuts(tokens) /\ SplitError(Stages)' = split
  BY DEF Stages, SplitError
<1> HIDE DEF words, long, split
<1>8. HasOps(scan.tokens)' <=> HasOps(tokens)
  BY DEF HasOps
<1>9. CASE ran' = << >>
  <2>1. /\ \E S : ran' \in Seq(S)
        /\ Len(ran') = 0 /\ Len(ran') + 1 = 1
        /\ RanWasParsed'
    <3>1. << >> \in Seq({}) /\ Len(<< >>) = 0
      BY EmptySeq
    <3>2. \A k : ~(k \in 1 .. 0)
      OBVIOUS
    <3>3. QED
      BY <1>9, <3>1, <3>2 DEF RanWasParsed
  <2>2. Len(ran') < Len(Stages')
    <3>1. Len(Cuts(tokens)) \in Nat /\ Len(Cuts(tokens)) >= 1
      BY <1>2, SomeStage
    <3>2. QED
      BY <1>7, <2>1, <3>1
  <2>3. at' # "scanning"
    BY <1>4
  <2>4. at' = "stages" => scan'.error = "" /\ HasOps(tokens)
    BY <1>4
  <2>5. at' = "refused" /\ scan'.error = "" /\ split = "" => ~HasOps(tokens) /\ long
    BY <1>4
  <2> HIDE DEF tokens
  <2>6. at' = "refused" /\ scan'.error = "" /\ split = "" => StoppedAt(Len(ran) + 1)'
    BY <1>3, <1>6, <1>8, <2>1, <2>5 DEF StoppedAt, tokens
  <2>7. QED
    BY <1>7, <1>8, <2>1, <2>2, <2>3, <2>4, <2>6 DEF StageInv
<1>10. CASE ran' # << >>
  <2>1. /\ scan'.error = "" /\ ~HasOps(tokens) /\ ~long /\ at' = "dispatched"
        /\ ran' = <<StageParse([words |-> words, in |-> {}, out |-> {}])>>
    BY <1>1, <1>4, <1>10
  <2>2. \E S : ran' \in Seq(S)
    <3>1. \A x : <<x>> \in Seq({x})
      OBVIOUS
    <3>2. QED
      BY <2>1, <3>1
  <2>3. RanWasParsed'
    BY <1>3, <1>6, <1>8, <2>1 DEF RanWasParsed
  <2>4. QED
    BY <2>1, <2>2, <2>3 DEF StageInv
<1>11. QED
  BY <1>9, <1>10

\* As long as the tokens are the same, so are the stages and what is parsed.
LEMMA ParsedKept ==
    ASSUME scan' = scan
    PROVE  /\ Stages' = Stages /\ (TooLong' <=> TooLong) /\ FlatParse' = FlatParse
           /\ \A k : Parsed(k)' = Parsed(k)
<1>1. Stages' = Stages
  BY DEF Stages
<1>2. WordSeq(scan.tokens)' = WordSeq(scan.tokens)
  BY DEF WordSeq, Word
<1>3. (TooLong' <=> TooLong) /\ FlatParse' = FlatParse
  BY <1>2 DEF TooLong, FlatParse, StageParse
<1>4. ASSUME NEW k PROVE Parsed(k)' = Parsed(k)
  BY <1>1 DEF Parsed, ParsedStage, Taken, Word, Fails, MayRedirectIn, MayRedirectOut
<1>5. QED
  BY <1>1, <1>3, <1>4

LEMMA ParseStageKeepsStages ==
    ASSUME ScannerInv, StageInv, ParseStage
    PROVE  StageInv'
<1> DEFINE k == Len(ran) + 1
<1>1. /\ scan' = scan /\ scan.error = "" /\ HasOps(scan.tokens) /\ Len(ran) < Len(Stages)
      /\ RanWasParsed
      /\ scan.tokens \in Seq(Token)
  BY ScannerFacts DEF ParseStage, StageInv, ScannerInv, Tiled
<1>2. PICK S : ran \in Seq(S)
  BY DEF StageInv
<1>3. /\ Stages' = Stages /\ (TooLong' <=> TooLong) /\ FlatParse' = FlatParse
      /\ \A n : Parsed(n)' = Parsed(n)
  BY <1>1, ParsedKept
<1>4. Len(ran) \in Nat /\ Len(Stages) \in Nat
  BY <1>1, <1>2, SomeStage, LenProperties DEF Stages
<1>5. k \in 1 .. Len(Stages) /\ k \in Nat
  <2>1. \A a, b \in Nat : a < b => a + 1 \in 1 .. b /\ a + 1 \in Nat
    OBVIOUS
  <2>2. QED
    BY <1>1, <1>4, <2>1, Zenon
<1>6. ParseNext = Parsed(k)
  BY DEF ParseNext, Parsed
<1>7. \/ /\ Parsed(k).error # "" \/ Parsed(k).words[1] \in Builtins
         /\ at' = "refused" /\ ran' = ran
      \/ /\ Parsed(k).error = "" /\ ran' = Append(ran, StageParse(Parsed(k)))
         /\ at' = IF Len(ran') = Len(Stages) THEN "dispatched" ELSE "stages"
  BY <1>6 DEF ParseStage, Refuse
<1>8. HasOps(scan.tokens)' <=> HasOps(scan.tokens)
  BY <1>1 DEF HasOps
<1>9. \A n \in 1 .. Len(ran) : /\ n \in 1 .. Len(Stages)
                               /\ Parsed(n).error = "" /\ ran[n] = StageParse(Parsed(n))
  BY <1>1 DEF RanWasParsed
<1>10. CASE (Parsed(k).error # "" \/ Parsed(k).words[1] \in Builtins) /\ at' = "refused" /\ ran' = ran
  <2>1. RanWasParsed'
    BY <1>1, <1>3, <1>8, <1>9, <1>10 DEF RanWasParsed, StageParse
  <2>2. StoppedAt(Len(ran) + 1)'
    BY <1>1, <1>3, <1>5, <1>8, <1>10 DEF StoppedAt
  <2>3. QED
    BY <1>2, <1>10, <2>1, <2>2 DEF StageInv
<1>11. CASE /\ Parsed(k).error = "" /\ ran' = Append(ran, StageParse(Parsed(k)))
            /\ at' = IF Len(ran') = Len(Stages) THEN "dispatched" ELSE "stages"
  <2> DEFINE new == StageParse(Parsed(k))
             T == S \cup {new}
  <2>1. ran \in Seq(T) /\ new \in T
    BY <1>2, SeqMonotonic
  <2> HIDE DEF new, T
  <2>2. /\ ran' \in Seq(T) /\ Len(ran') = k /\ ran'[k] = new
        /\ \A n \in 1 .. Len(ran) : ran'[n] = ran[n]
    <3>1. ran' = Append(ran, new)
      BY <1>11 DEF new
    <3>2. /\ Append(ran, new) \in Seq(T) /\ Len(Append(ran, new)) = Len(ran) + 1
          /\ Append(ran, new)[Len(ran) + 1] = new
          /\ \A n \in 1 .. Len(ran) : Append(ran, new)[n] = ran[n]
      BY <2>1, AppendProperties
    <3>3. QED
      BY <3>1, <3>2
  <2>3. \A n \in 1 .. k : n = k \/ n \in 1 .. Len(ran)
    BY <1>4
  <2> HIDE DEF k
  <2>4. \A n \in 1 .. Len(ran') : /\ n \in 1 .. Len(Stages)
                                  /\ Parsed(n).error = "" /\ ran'[n] = StageParse(Parsed(n))
    BY <1>5, <1>9, <1>11, <2>2, <2>3 DEF new
  <2>5. RanWasParsed'
    BY <1>1, <1>3, <1>8, <2>4 DEF RanWasParsed, StageParse
  <2>6. Len(ran') <= Len(Stages)
    BY <1>5, <2>2
  <2>7. at' = "stages" => Len(ran') < Len(Stages)
    <3>1. \A a, b \in Nat : a <= b /\ a # b => a < b
      OBVIOUS
    <3>2. QED
      BY <1>4, <1>5, <1>11, <2>2, <2>6, <3>1
  <2>8. at' \in {"dispatched", "stages"}
    BY <1>11
  <2>9. QED
    BY <1>1, <1>3, <1>8, <2>2, <2>5, <2>7, <2>8 DEF StageInv
<1>12. QED
  BY <1>7, <1>10, <1>11

LEMMA StepStageInv == ScannerInv /\ StageInv /\ [Next]_tokenizerVars => StageInv'
<1> SUFFICES ASSUME ScannerInv, StageInv, [Next]_tokenizerVars PROVE StageInv'
  OBVIOUS
<1>1. ASSUME NEW c \in Chars, Scan(c) PROVE StageInv'
  BY <1>1, ScanKeepsStages
<1>2. CASE EndOfLine
  BY <1>2, EndOfLineKeepsStages
<1>3. CASE ParseStage
  BY <1>3, ParseStageKeepsStages
<1>4. CASE UNCHANGED tokenizerVars
  <2>1. scan' = scan /\ ran' = ran /\ at' = at /\ line' = line
    BY <1>4 DEF tokenizerVars
  <2>2. /\ Stages' = Stages /\ (TooLong' <=> TooLong) /\ FlatParse' = FlatParse
        /\ \A n : Parsed(n)' = Parsed(n)
    BY <2>1, ParsedKept
  <2>3. RanWasParsed' <=> RanWasParsed
    BY <2>1, <2>2 DEF RanWasParsed, StageParse
  <2>4. StoppedAt(Len(ran) + 1)' <=> StoppedAt(Len(ran) + 1)
    BY <2>1, <2>2 DEF StoppedAt
  <2>5. QED
    BY <2>1, <2>2, <2>3, <2>4 DEF StageInv
<1>5. QED
  BY <1>1, <1>2, <1>3, <1>4 DEF Next

\* What has run is what the positions say, for a line of stages and for one without.
LEMMA RanMatches ==
    ASSUME ScannerInv, StageInv, NEW k \in 1 .. Len(ran)
    PROVE  /\ WellFormed(k) /\ k \in 1 .. Len(Stages) /\ Stages[k] \in Seq(Token)
           /\ ran[k] = [cmd  |-> WordsOf(Stages[k])[1], args |-> Joined(Tail(WordsOf(Stages[k]))),
                        in   |-> {Word(Stages[k][i]) : i \in FilesOf(Stages[k], "<")},
                        out  |-> {Word(Stages[k][i]) : i \in FilesOf(Stages[k], ">")}]
<1>1. scan.tokens \in Seq(Token)
  BY ScannerFacts DEF ScannerInv, Tiled
<1>2. RanWasParsed
  BY DEF StageInv
<1>3. CASE HasOps(scan.tokens)
  <2> DEFINE r == Parsed(k)
             tokens == Stages[k]
  <2>1. k \in 1 .. Len(Stages) /\ r.error = "" /\ ran[k] = StageParse(r)
    BY <1>2, <1>3 DEF RanWasParsed
  <2>2. /\ tokens \in Seq(Token)
        /\ WellFormed(k) <=> r.error = ""
        /\ r.error = "" => ByPosition(r, tokens)
    BY <1>1, <1>3, <2>1, StageOf, WellFormedStage DEF Parsed
  <2> HIDE DEF r, tokens
  <2>3. /\ r.words = WordsOf(tokens)
        /\ r.in = {Word(tokens[i]) : i \in FilesOf(tokens, "<")}
        /\ r.out = {Word(tokens[i]) : i \in FilesOf(tokens, ">")}
    BY <2>1, <2>2 DEF ByPosition, Got, Redirects
  <2>4. QED
    BY <2>1, <2>2, <2>3 DEF StageParse, tokens
<1>4. CASE ~HasOps(scan.tokens)
  <2> DEFINE tokens == scan.tokens
  <2>1. ran # << >>
    <3>1. Len(<< >>) = 0 /\ \A n : ~(n \in 1 .. 0)
      BY EmptySeq
    <3>2. QED
      BY <3>1
  <2>2. tokens # << >> /\ ran = <<FlatParse>> /\ ~TooLong
    BY <1>2, <1>4, <2>1 DEF RanWasParsed
  <2>3. k = 1 /\ ran[k] = FlatParse
    BY <2>2
  <2>4. /\ Stages = <<tokens>> /\ WordsOf(tokens) = WordSeq(tokens)
        /\ FilesOf(tokens, "<") = {} /\ FilesOf(tokens, ">") = {}
    BY <1>1, <1>4, FlatLine DEF Redirects
  <2>5. WellFormed(1)
    BY <1>1, <1>4, <2>2, FlatWellFormed DEF TooLong
  <2> HIDE DEF tokens
  <2>6. Stages[k] = tokens /\ k \in 1 .. Len(Stages)
    BY <2>3, <2>4
  <2>7. FlatParse = [cmd |-> WordsOf(tokens)[1], args |-> Joined(Tail(WordsOf(tokens))), in |-> {}, out |-> {}]
    BY <2>4 DEF FlatParse, StageParse, tokens
  <2>8. QED
    BY <1>1, <2>3, <2>4, <2>5, <2>6, <2>7 DEF tokens
<1>5. QED
  BY <1>3, <1>4

LEMMA StageInvMatches == ScannerInv /\ StageInv => StagesMatchTokens
<1> SUFFICES ASSUME ScannerInv, StageInv PROVE StagesMatchTokens
  OBVIOUS
<1>1. scan.tokens \in Seq(Token)
  BY ScannerFacts DEF ScannerInv, Tiled
<1>2. ASSUME at = "refused", scan.error = "", SplitError(Stages) = "",
             NEW k, k = Len(ran) + 1, WellFormed(k)
      PROVE  WordsOf(Stages[k])[1] \in Builtins
  <2>1. StoppedAt(k)
    BY <1>2 DEF StageInv
  <2>2. CASE HasOps(scan.tokens)
    <3> DEFINE r == Parsed(k)
    <3>1. k \in 1 .. Len(Stages) /\ (r.error = "" => r.words[1] \in Builtins)
      BY <2>1, <2>2 DEF StoppedAt
    <3>2. r.error = "" /\ ByPosition(r, Stages[k])
      BY <1>1, <1>2, <2>2, <3>1, WellFormedStage DEF Parsed
    <3>3. QED
      BY <3>1, <3>2 DEF ByPosition
  <2>3. CASE ~HasOps(scan.tokens)
    <3>1. scan.tokens # << >> /\ k = 1 /\ TooLong
      BY <2>1, <2>3 DEF StoppedAt
    <3>2. ~WellFormed(1)
      BY <1>1, <2>3, <3>1, FlatWellFormed DEF TooLong
    <3>3. QED
      BY <1>2, <3>1, <3>2
  <2>4. QED
    BY <2>2, <2>3
<1>3. QED
  BY <1>2, RanMatches DEF StagesMatchTokens

\* The scanner's invariant, and of the stages that each one that has run was parsed without
\* an error, and that a line refused amid them was refused by the next one
\* (dispatch_compound_tokens runs a stage before it parses the one behind it).
THEOREM StageInvariance == Spec => []StageInv
  BY InitStageInv, StepStageInv, ScannerInvariance, PTL DEF Spec

\* For every line and all limits: every word of a stage that runs is its command,
\* one of its arguments or the file of its one < or >, none lost and none twice;
\* the input of the first stage only and the output of the last only are
\* redirected, and dispatch refuses a stage for no other reason.
THEOREM StagesAreTheirTokens == Spec => []StagesMatchTokens
  BY StageInvMatches, StageInvariance, ScannerInvariance, PTL

-----------------------------------------------------------------------------
(* The arguments a program splits.                                         *)

Blanks(s) == {i \in 1 .. Len(s) : s[i] = Blank}

\* The ends of what a program finds between the blanks.
Cutting(s) == Ends(s, Blanks(s))

\* An argument string with one more word behind a blank.
IsNext(u, s, w, U) ==
    /\ s \in Seq(U) /\ w \in Seq(U) /\ Blank \in U /\ Plain(w)
    /\ u = s \o <<Blank>> \o w

NextFields(u, s, w, U) ==
    /\ u \in Seq(U) /\ Len(u) = (Len(s) + 1) + Len(w) /\ Len(s) \in Nat /\ Len(w) \in Nat
    /\ \A i \in 1 .. Len(s) : u[i] = s[i]
    /\ u[Len(s) + 1] = Blank
    /\ \A i \in 1 .. Len(w) : u[(Len(s) + 1) + i] = w[i] /\ w[i] # Blank

LEMMA NextFacts ==
    ASSUME NEW U, NEW s, NEW w, NEW u, IsNext(u, s, w, U)
    PROVE  NextFields(u, s, w, U)
<1>1. s \in Seq(U) /\ w \in Seq(U) /\ Blank \in U /\ Plain(w) /\ u = (s \o <<Blank>>) \o w
  BY DEF IsNext
<1> DEFINE b == <<Blank>>
           v == s \o b
           L == Len(s)
           W == Len(w)
<1>2. b \in Seq(U) /\ Len(b) = 1 /\ b[1] = Blank
  BY <1>1
<1>3. L \in Nat /\ W \in Nat
  BY <1>1, LenProperties
<1> HIDE DEF b, v, L, W
<1>4. /\ v \in Seq(U) /\ Len(v) = L + 1
      /\ \A i \in 1 .. L + 1 : v[i] = IF i <= L THEN s[i] ELSE b[i - L]
  <2>1. /\ s \o b \in Seq(U) /\ Len(s \o b) = Len(s) + Len(b)
        /\ \A i \in 1 .. Len(s) + Len(b) : (s \o b)[i] = IF i <= Len(s) THEN s[i] ELSE b[i - Len(s)]
    BY <1>1, <1>2, ConcatProperties
  <2>2. QED
    BY <1>2, <2>1 DEF v, L
<1>5. /\ u \in Seq(U) /\ Len(u) = (L + 1) + W
      /\ \A i \in 1 .. (L + 1) + W : u[i] = IF i <= L + 1 THEN v[i] ELSE w[i - (L + 1)]
  <2>1. u = v \o w
    BY <1>1 DEF v, b
  <2>2. /\ v \o w \in Seq(U) /\ Len(v \o w) = Len(v) + Len(w)
        /\ \A i \in 1 .. Len(v) + Len(w) : (v \o w)[i] = IF i <= Len(v) THEN v[i] ELSE w[i - Len(v)]
    <3>1. v \in Seq(U) /\ w \in Seq(U)
      BY <1>1, <1>4
    <3>2. QED
      BY <3>1, ConcatProperties
  <2>3. QED
    BY <1>4, <2>1, <2>2 DEF W
<1>6. ASSUME NEW i \in 1 .. L PROVE u[i] = s[i]
  <2>1. i \in 1 .. (L + 1) + W /\ i <= L + 1 /\ i \in 1 .. L + 1 /\ i <= L
    BY <1>3
  <2>2. QED
    BY <1>4, <1>5, <2>1
<1>7. u[L + 1] = Blank
  <2>1. L + 1 \in 1 .. (L + 1) + W /\ L + 1 <= L + 1 /\ L + 1 \in 1 .. L + 1 /\ ~(L + 1 <= L) /\ (L + 1) - L = 1
    BY <1>3
  <2>2. QED
    BY <1>2, <1>4, <1>5, <2>1
<1>8. ASSUME NEW i \in 1 .. W PROVE u[(L + 1) + i] = w[i] /\ w[i] # Blank
  <2>1. (L + 1) + i \in 1 .. (L + 1) + W /\ ~((L + 1) + i <= L + 1) /\ ((L + 1) + i) - (L + 1) = i
    BY <1>3
  <2>2. w[i] # Blank
    BY <1>1 DEF Plain, W
  <2>3. QED
    BY <1>5, <2>1, <2>2
<1>9. QED
  BY <1>3, <1>5, <1>6, <1>7, <1>8 DEF L, W, NextFields

\* Places in it: those of the string before, the blank and those of the word.
NextPlaces(L, W) ==
    /\ L + 1 \in Nat /\ ((L + 1) + W) + 1 \in Nat
    /\ \A i \in 1 .. (L + 1) + W : i \in 1 .. L \/ i = L + 1 \/ \E j \in 1 .. W : i = (L + 1) + j
    /\ \A i \in 0 .. L + 1 : i < ((L + 1) + W) + 1
    /\ \A i \in 1 .. L : i \in 1 .. (L + 1) + W
    /\ L + 1 \in 1 .. (L + 1) + W

LEMMA NextPlaceFacts == \A L, W \in Nat : NextPlaces(L, W)
<1> SUFFICES ASSUME NEW L \in Nat, NEW W \in Nat PROVE NextPlaces(L, W)
  OBVIOUS
<1>1. ASSUME NEW i \in 1 .. (L + 1) + W
      PROVE  i \in 1 .. L \/ i = L + 1 \/ \E j \in 1 .. W : i = (L + 1) + j
  <2>1. CASE i <= L + 1
    BY <2>1
  <2>2. CASE ~(i <= L + 1)
    <3>1. i - (L + 1) \in 1 .. W /\ i = (L + 1) + (i - (L + 1))
      BY <2>2
    <3>2. QED
      BY <3>1
  <2>3. QED
    BY <2>1, <2>2
<1>2. QED
  BY <1>1 DEF NextPlaces

\* The blank before the word is where the string before it ended.
LEMMA CuttingNext ==
    ASSUME NEW U, NEW s, NEW w, NEW u, IsNext(u, s, w, U)
    PROVE  Extends(Cutting(u), Cutting(s), Len(u) + 1, Len(s) + 1)
<1> DEFINE L == Len(s)
           W == Len(w)
<1>1. NextFields(u, s, w, U)
  BY NextFacts
<1>2. NextPlaces(L, W)
  <2>1. L \in Nat /\ W \in Nat
    BY <1>1 DEF NextFields
  <2>2. QED
    BY <2>1, NextPlaceFacts
<1>3. Len(u) = (L + 1) + W
  BY <1>1 DEF NextFields
<1>4. Blanks(u) = Blanks(s) \cup {L + 1}
  <2>1. ASSUME NEW i \in 1 .. Len(u), u[i] = Blank PROVE i \in Blanks(s) \cup {L + 1}
    <3>1. i \in 1 .. L \/ i = L + 1 \/ \E j \in 1 .. W : i = (L + 1) + j
      BY <1>2, <1>3 DEF NextPlaces
    <3>2. CASE i \in 1 .. L
      BY <1>1, <2>1, <3>2 DEF NextFields, Blanks
    <3>3. CASE \E j \in 1 .. W : i = (L + 1) + j
      BY <1>1, <2>1, <3>3 DEF NextFields
    <3>4. QED
      BY <3>1, <3>2, <3>3
  <2>2. ASSUME NEW i \in Blanks(s) PROVE i \in Blanks(u)
    BY <1>1, <1>2, <1>3 DEF NextFields, NextPlaces, Blanks
  <2>3. L + 1 \in Blanks(u)
    BY <1>1, <1>2, <1>3 DEF NextFields, NextPlaces, Blanks
  <2>4. QED
    BY <2>1, <2>2, <2>3 DEF Blanks
<1>5. Cutting(u) = Cutting(s) \cup {Len(u) + 1}
  BY <1>4 DEF Cutting, Ends
<1>6. Cutting(s) \in SUBSET (0 .. L + 1)
  <2>1. Blanks(s) \in SUBSET (1 .. Len(s)) /\ s \in Seq(U)
    BY DEF Blanks, IsNext
  <2>2. QED
    BY <2>1, EndsFacts DEF Cutting
<1>7. L + 1 \in Nat /\ Len(u) + 1 \in Nat /\ \A i \in 0 .. L + 1 : i < Len(u) + 1
  BY <1>2, <1>3 DEF NextPlaces
<1> HIDE DEF L
<1>8. \A i \in Cutting(s) : i < Len(u) + 1
  BY <1>6, <1>7
<1>9. QED
  BY <1>5, <1>6, <1>7, <1>8 DEF Extends, L

\* A program that splits s finds the first n words.
Splits(s, words, n, U) ==
    /\ s \in Seq(U) /\ s # << >>
    /\ Cardinality(Cutting(s)) = n + 1 /\ Nth(Cutting(s), n + 1) = Len(s) + 1
    /\ Parts(s, Blanks(s)) = [i \in 1 .. n |-> words[i]]

\* Where two sequences agree, so do their parts.
LEMMA SameParts ==
    ASSUME NEW U, NEW s, NEW u, NEW m \in Int, NEW n \in Int,
           \A i \in m .. n : s[i] \in U /\ u[i] = s[i]
    PROVE  SubSeq(u, m, n) = SubSeq(s, m, n)
<1> DEFINE a == SubSeq(s, m, n)
           b == SubSeq(u, m, n)
<1>1. \A i \in m .. n : u[i] \in U
  OBVIOUS
<1>2. /\ a \in Seq(U) /\ Len(a) = IF m <= n THEN n - m + 1 ELSE 0
      /\ \A i \in 1 .. n - m + 1 : a[i] = s[m + i - 1]
  BY SubSeqProperties
<1>3. /\ b \in Seq(U) /\ Len(b) = IF m <= n THEN n - m + 1 ELSE 0
      /\ \A i \in 1 .. n - m + 1 : b[i] = u[m + i - 1]
  BY <1>1, SubSeqProperties
<1> HIDE DEF a, b
<1>4. \A i \in 1 .. Len(a) : a[i] = b[i]
  <2> SUFFICES ASSUME NEW i \in 1 .. Len(a) PROVE a[i] = b[i]
    OBVIOUS
  <2>1. i \in 1 .. n - m + 1 /\ m + i - 1 \in m .. n
    BY <1>2
  <2>2. QED
    BY <1>2, <1>3, <2>1
<1>5. a = b
  BY <1>2, <1>3, <1>4, SeqEqual
<1>6. QED
  BY <1>5 DEF a, b

LEMMA SplitsFirst ==
    ASSUME NEW U, NEW words, words[1] \in Seq(U), Plain(words[1])
    PROVE  Splits(words[1], words, 1, U)
<1> DEFINE w == words[1]
<1>1. w \in Seq(U) /\ w # << >> /\ Blanks(w) = {}
  BY DEF Plain, Blanks
<1>2. Cutting(w) = Ends(w, {})
  BY <1>1 DEF Cutting
<1> HIDE DEF w
<1>3. /\ Parts(w, {}) = <<w>>
      /\ Cardinality(Cutting(w)) = 2 /\ Nth(Cutting(w), 2) = Len(w) + 1
  BY <1>1, <1>2, PartsNone
<1>4. <<w>> = [i \in 1 .. 1 |-> words[i]]
  BY DEF w
<1>5. 1 + 1 = 2
  OBVIOUS
<1>6. QED
  BY <1>1, <1>3, <1>4, <1>5 DEF Splits, w

\* The word behind the blank.
LEMMA WordBehind ==
    ASSUME NEW U, NEW s, NEW w \in Seq(U), NEW u, NextFields(u, s, w, U)
    PROVE  SubSeq(u, (Len(s) + 1) + 1, (Len(u) + 1) - 1) = w
<1> DEFINE L == Len(s)
           W == Len(w)
           m == (L + 1) + 1
           n == (Len(u) + 1) - 1
           a == SubSeq(u, m, n)
<1>1. /\ u \in Seq(U) /\ Len(u) = (L + 1) + W /\ L \in Nat /\ W \in Nat
      /\ \A i \in 1 .. W : u[(L + 1) + i] = w[i]
  BY DEF NextFields
<1> HIDE DEF L, W
<1>2. /\ m \in Int /\ n \in Int /\ n - m + 1 = W
      /\ (IF m <= n THEN n - m + 1 ELSE 0) = W
      /\ \A i \in m .. n : i \in 1 .. Len(u)
      /\ \A i \in 1 .. W : m + i - 1 = (L + 1) + i
  BY <1>1
<1> HIDE DEF m, n
<1>3. \A i \in m .. n : u[i] \in U
  BY <1>1, <1>2, ElementOfSeq
<1>4. /\ a \in Seq(U) /\ Len(a) = IF m <= n THEN n - m + 1 ELSE 0
      /\ \A i \in 1 .. n - m + 1 : a[i] = u[m + i - 1]
  BY <1>2, <1>3, SubSeqProperties
<1> HIDE DEF a
<1>5. Len(a) = Len(w) /\ \A i \in 1 .. Len(a) : a[i] = w[i]
  BY <1>1, <1>2, <1>4 DEF W
<1>6. a = w
  BY <1>4, <1>5, SeqEqual
<1>7. QED
  BY <1>6 DEF a, m, n, L

LEMMA SplitsNext ==
    ASSUME NEW U, NEW words, NEW n \in Nat, n # 0, NEW s, Splits(s, words, n, U),
           NEW u, IsNext(u, s, words[n + 1], U)
    PROVE  Splits(u, words, n + 1, U)
<1> DEFINE E == Cutting(s)
           F == Cutting(u)
           L == Len(s)
           w == words[n + 1]
<1>1. /\ s \in Seq(U) /\ s # << >> /\ w \in Seq(U)
      /\ Cardinality(E) = n + 1 /\ Nth(E, n + 1) = L + 1
      /\ Parts(s, Blanks(s)) = [i \in 1 .. n |-> words[i]]
  BY DEF Splits, IsNext
<1>2. NextFields(u, s, w, U)
  BY NextFacts
<1>3. NthsKept(F, E, Len(u) + 1)
  BY CuttingNext, NthBehind
<1>4. u \in Seq(U) /\ L \in Nat /\ \A i \in 1 .. L : u[i] = s[i] /\ s[i] \in U
  BY <1>1, <1>2, ElementOfSeq DEF NextFields
<1>5. /\ E \in SUBSET (0 .. L + 1)
      /\ Parts(s, Blanks(s)) = [k \in 1 .. Cardinality(E) - 1 |-> SubSeq(s, Nth(E, k) + 1, Nth(E, k + 1) - 1)]
  <2>1. Blanks(s) \in SUBSET (1 .. Len(s))
    BY DEF Blanks
  <2>2. QED
    BY <1>1, <2>1, EndsFacts DEF Cutting
<1>6. Parts(u, Blanks(u)) = [k \in 1 .. Cardinality(F) - 1 |-> SubSeq(u, Nth(F, k) + 1, Nth(F, k + 1) - 1)]
  <2>1. Blanks(u) \in SUBSET (1 .. Len(u))
    BY DEF Blanks
  <2>2. QED
    BY <1>4, <2>1, EndsFacts DEF Cutting
<1> HIDE DEF E, F, L, w
<1>7. /\ Cardinality(F) = n + 1 + 1 /\ Nth(F, n + 1 + 1) = Len(u) + 1
      /\ \A k \in 1 .. n + 1 : Nth(F, k) = Nth(E, k)
  BY <1>1, <1>3 DEF NthsKept
<1>8. /\ (n + 1) - 1 = n /\ (n + 1 + 1) - 1 = n + 1 /\ n + 1 \in 1 .. n + 1 /\ n + 1 \in Nat
      /\ \A k \in 1 .. n : k \in 1 .. n + 1 /\ k + 1 \in 1 .. n + 1
      /\ \A k \in 1 .. n + 1 : k \in 1 .. n \/ k = n + 1
  OBVIOUS
<1>9. ASSUME NEW k \in 1 .. n
      PROVE  SubSeq(u, Nth(F, k) + 1, Nth(F, k + 1) - 1) = words[k]
  <2> DEFINE a == Nth(E, k)
             b == Nth(E, k + 1)
  <2>1. SubSeq(s, a + 1, b - 1) = words[k]
    <3>1. [i \in 1 .. n |-> SubSeq(s, Nth(E, i) + 1, Nth(E, i + 1) - 1)] = [i \in 1 .. n |-> words[i]]
      BY <1>1, <1>5, <1>8
    <3>2. QED
      BY <3>1
  <2>2. a \in E /\ b \in E
    <3>1. L + 1 \in Nat
      BY <1>4
    <3>2. k \in 1 .. Cardinality(E) /\ k + 1 \in 1 .. Cardinality(E)
      BY <1>1, <1>8
    <3>3. QED
      BY <1>5, <3>1, <3>2, NthPosition
  <2>3. Nth(F, k) = a /\ Nth(F, k + 1) = b
    BY <1>7, <1>8
  <2> HIDE DEF a, b
  <2>4. a \in 0 .. L + 1 /\ b \in 0 .. L + 1
    BY <1>5, <2>2
  <2>5. a + 1 \in Int /\ b - 1 \in Int /\ \A i \in a + 1 .. b - 1 : i \in 1 .. L
    BY <1>4, <2>4
  <2>6. \A i \in a + 1 .. b - 1 : s[i] \in U /\ u[i] = s[i]
    BY <1>4, <2>5
  <2>7. SubSeq(u, a + 1, b - 1) = SubSeq(s, a + 1, b - 1)
    <3> DEFINE x == a + 1
               y == b - 1
    <3>1. x \in Int /\ y \in Int /\ \A i \in x .. y : s[i] \in U /\ u[i] = s[i]
      BY <2>5, <2>6
    <3> HIDE DEF x, y
    <3>2. SubSeq(u, x, y) = SubSeq(s, x, y)
      BY <3>1, SameParts
    <3>3. QED
      BY <3>2 DEF x, y
  <2>8. QED
    BY <2>1, <2>3, <2>7
<1>10. SubSeq(u, Nth(F, n + 1) + 1, Nth(F, n + 1 + 1) - 1) = w
  <2>1. Nth(F, n + 1) = L + 1
    BY <1>1, <1>7, <1>8
  <2>2. SubSeq(u, (L + 1) + 1, (Len(u) + 1) - 1) = w
    BY <1>1, <1>2, WordBehind DEF L
  <2>3. QED
    BY <1>7, <2>1, <2>2
<1>11. Parts(u, Blanks(u)) = [k \in 1 .. n + 1 |-> words[k]]
  <2>1. Parts(u, Blanks(u)) = [k \in 1 .. n + 1 |-> SubSeq(u, Nth(F, k) + 1, Nth(F, k + 1) - 1)]
    BY <1>6, <1>7, <1>8
  <2>2. \A k \in 1 .. n + 1 : SubSeq(u, Nth(F, k) + 1, Nth(F, k + 1) - 1) = words[k]
    BY <1>8, <1>9, <1>10 DEF w
  <2>3. QED
    BY <2>1, <2>2
<1>12. u # << >>
  <2>1. Len(u) # 0
    <3>1. Len(u) = (L + 1) + Len(w) /\ Len(w) \in Nat
      BY <1>2 DEF NextFields, L
    <3>2. \A a, b \in Nat : (a + 1) + b # 0
      OBVIOUS
    <3>3. QED
      BY <1>4, <3>1, <3>2
  <2>2. QED
    BY <2>1, EmptySeq
<1>13. QED
  BY <1>4, <1>7, <1>11, <1>12 DEF Splits, F

\* Of plain words a program finds each one.
LEMMA PlainWordsSplit ==
    ASSUME NEW U, Blank \in U, NEW words \in Seq(Seq(U)), \A i \in 1 .. Len(words) : Plain(words[i])
    PROVE  ProgramWords(Joined(words)) = words
<1> DEFINE N == Len(words)
           D == Seq(U)
           args == Joined(words)
           Found(p) == {k \in 1 .. Len(p) : p[k] # << >>}
<1>1. PICK a : IsJoin(a, words, U) /\ args = a[N]
  BY JoinStepwise
<1>2. N \in Nat /\ words \in Seq(D) /\ \A i \in 1 .. N : words[i] \in D
  <2>1. words \in Seq(D)
    OBVIOUS
  <2> HIDE DEF D
  <2>2. QED
    BY <2>1, LenProperties, ElementOfSeq
<1>3. /\ a[0] = << >>
      /\ \A n \in 0 .. N : a[n] \in D
      /\ \A n \in 1 .. N : a[n] = Join(a[n - 1], words[n])
  BY <1>1 DEF IsJoin
<1>4. ProgramWords(args) = Selection(Parts(args, Blanks(args)), Found(Parts(args, Blanks(args))))
  BY DEF ProgramWords, Blanks
<1> HIDE DEF args, Found
<1>5. CASE N = 0
  <2>1. words = << >> /\ args = << >>
    BY <1>1, <1>2, <1>3, <1>5
  <2>2. Blanks(args) = {} /\ args \in D
    BY <2>1, EmptySeq DEF Blanks
  <2>3. Parts(args, Blanks(args)) = <<args>>
    BY <2>2, PartsNone
  <2>4. Found(<<args>>) = {}
    BY <2>1 DEF Found
  <2>5. QED
    BY <1>4, <2>1, <2>3, <2>4, SelectionNone DEF args
<1>6. CASE N # 0
  <2> DEFINE S == {n \in Nat : n # 0 => Splits(a[n], words, n, U)}
  <2>1. 0 \in S
    OBVIOUS
  <2>2. ASSUME NEW n \in 0 .. N - 1, n \in S PROVE n + 1 \in S
    <3>1. n \in Nat /\ n + 1 \in 1 .. N /\ n + 1 \in Nat /\ (n + 1) - 1 = n /\ n \in 0 .. N
      BY <1>2
    <3>2. a[n + 1] = Join(a[n], words[n + 1]) /\ Plain(words[n + 1]) /\ words[n + 1] \in D
      BY <1>2, <1>3, <3>1
    <3> SUFFICES Splits(a[n + 1], words, n + 1, U)
      BY <3>1
    <3>3. CASE n = 0
      <4>1. a[1] = words[1] /\ words[1] \in Seq(U) /\ Plain(words[1])
        BY <1>3, <3>2, <3>3 DEF Join
      <4>2. Splits(words[1], words, 1, U)
        BY <4>1, SplitsFirst
      <4>3. QED
        BY <3>3, <4>1, <4>2
    <3>4. CASE n # 0
      <4>1. Splits(a[n], words, n, U)
        BY <2>2, <3>4
      <4>2. a[n] \in Seq(U) /\ a[n] # << >>
        BY <4>1 DEF Splits
      <4>3. a[n + 1] = a[n] \o <<Blank>> \o words[n + 1]
        BY <3>2, <4>2 DEF Join
      <4>4. IsNext(a[n + 1], a[n], words[n + 1], U)
        BY <3>2, <4>2, <4>3 DEF IsNext
      <4>5. QED
        BY <3>1, <3>4, <4>1, <4>4, SplitsNext
    <3>5. QED
      BY <3>3, <3>4
  <2> HIDE DEF S
  <2>3. \A n \in 0 .. N : n \in S
    BY <1>2, <2>1, <2>2, BoundedInduction
  <2>4. Splits(args, words, N, U)
    BY <1>1, <1>2, <1>6, <2>3 DEF S
  <2>5. Parts(args, Blanks(args)) = words
    <3>1. Parts(args, Blanks(args)) = [i \in 1 .. N |-> words[i]]
      BY <2>4 DEF Splits
    <3>2. QED
      BY <1>2, <3>1
  <2>6. Found(words) = 1 .. N
    BY DEF Found, Plain
  <2> HIDE DEF D
  <2>7. Selection(words, 1 .. Len(words)) = words
    BY <1>2, SelectionAll
  <2>8. QED
    BY <1>4, <2>5, <2>6, <2>7 DEF args
<1>7. QED
  BY <1>5, <1>6 DEF args

LEMMA StageInvSplits == ScannerInv /\ StageInv => PlainWordsReachPrograms
<1> SUFFICES ASSUME ScannerInv, StageInv, NEW k \in 1 .. Len(ran),
                    NEW typed, typed = Tail(WordsOf(Stages[k])), \A i \in 1 .. Len(typed) : Plain(typed[i])
             PROVE  ProgramWords(ran[k].args) = typed
  BY DEF PlainWordsReachPrograms
<1> DEFINE words == WordsOf(Stages[k])
           tokens == Stages[k]
<1>1. WellFormed(k) /\ Stages[k] \in Seq(Token) /\ ran[k].args = Joined(typed)
  <2>1. /\ WellFormed(k) /\ Stages[k] \in Seq(Token)
        /\ ran[k] = [cmd |-> words[1], args |-> Joined(Tail(words)),
                     in  |-> {Word(tokens[i]) : i \in FilesOf(tokens, "<")},
                     out |-> {Word(tokens[i]) : i \in FilesOf(tokens, ">")}]
    BY RanMatches
  <2>2. QED
    BY <2>1
<1>2. WordsOf(Stages[k]) # << >>
  BY <1>1 DEF WellFormed
<1>3. typed \in Seq(Seq(Letters))
  BY <1>1, <1>2, WordsOfFacts
<1>4. ProgramWords(Joined(typed)) = typed
  BY <1>3, PlainWordsSplit, TextsAreLetters
<1>5. QED
  BY <1>1, <1>4

\* For every line and all limits, a program that splits its arguments at blanks, as
\* tee and sed do, gets the words that were typed, if none is empty or has a blank.
THEOREM PlainWordsArrive == Spec => []PlainWordsReachPrograms
  BY StageInvSplits, StageInvariance, ScannerInvariance, PTL

-----------------------------------------------------------------------------
(* What the tokens say.                                                    *)

Item == [kind : Ops \cup {"word"}, text : Seq(Chars)]

\* A token's text, the tokens as items of the grammar, and the word in progress.
Text(s, token) == SubSeq(s.parsed, token.start + 1, token.start + token.len)
ItemOf(s, token) == [kind |-> token.kind, text |-> Text(s, token)]
Items(s) == [i \in 1 .. Len(s.tokens) |-> ItemOf(s, s.tokens[i])]
Current(s) == SubSeq(s.parsed, s.start + 1, Len(s.parsed))

\* Every token lies within the buffer.
Within(s) == \A i \in 1 .. Len(s.tokens) : s.tokens[i].start + s.tokens[i].len <= Len(s.parsed)

LEMMA Bounds ==
    \A a, l, m, n, p : a \in Nat /\ l \in Nat /\ m \in Nat /\ n \in Nat /\ p \in Nat =>
        /\ a + l \in Nat /\ a + 1 \in Int /\ a + l \in Int /\ (a + l <= m => a + l <= m + 1)
        /\ a + l <= m => \A i \in a + 1 .. a + l : i \in 1 .. m
        /\ \A i \in a + 1 .. m : i \in 1 .. m
        /\ m < m + 1 /\ m \in Int /\ m <= m + 1 /\ 0 <= m
OBVIOUS

\* Part of the buffer is text.
LEMMA PartOfBuffer ==
    ASSUME NEW s \in Seq(Chars), NEW a \in Nat, NEW l \in Nat, a + l <= Len(s)
    PROVE  SubSeq(s, a + 1, a + l) \in Seq(Chars)
<1>1. Len(s) \in Nat
  BY LenProperties
<1>2. a + 1 \in Int /\ a + l \in Int /\ \A i \in a + 1 .. a + l : i \in 1 .. Len(s)
  BY <1>1
<1>3. \A i \in a + 1 .. a + l : s[i] \in Chars
  BY <1>2, ElementOfSeq
<1>4. QED
  BY <1>2, <1>3, SubSeqProperties

LEMMA CurrentText ==
    ASSUME NEW s \in Scanner, s.start <= Len(s.parsed)
    PROVE  Current(s) \in Seq(Chars)
<1> DEFINE l == Len(s.parsed) - s.start
<1>1. s.parsed \in Seq(Chars) /\ Len(s.parsed) \in Nat /\ s.start \in Nat
  BY ScannerFacts
<1>2. l \in Nat /\ s.start + l = Len(s.parsed)
  BY <1>1, Lengths, Zenon
<1> HIDE DEF l
<1>3. s.start + l <= Len(s.parsed)
  BY <1>1, <1>2
<1>4. SubSeq(s.parsed, s.start + 1, s.start + l) \in Seq(Chars)
  BY <1>1, <1>2, <1>3, PartOfBuffer
<1>5. QED
  BY <1>2, <1>4 DEF Current

LEMMA ItemsFacts ==
    ASSUME NEW s \in Scanner, Within(s)
    PROVE  Items(s) \in Seq(Item) /\ Len(Items(s)) = Len(s.tokens)
<1>1. s.parsed \in Seq(Chars) /\ Len(s.tokens) \in Nat /\ s.tokens \in Seq(Token)
  BY ScannerFacts
<1>2. ASSUME NEW i \in 1 .. Len(s.tokens) PROVE ItemOf(s, s.tokens[i]) \in Item
  <2>1. /\ s.tokens[i] \in Token
        /\ s.tokens[i].start + s.tokens[i].len <= Len(s.parsed)
    BY <1>1, ElementOfSeq DEF Within
  <2>2. /\ s.tokens[i].kind \in Ops \cup {"word"} /\ s.tokens[i].start \in Nat /\ s.tokens[i].len \in Nat
    BY <2>1 DEF Token
  <2>3. Text(s, s.tokens[i]) \in Seq(Chars)
    BY <1>1, <2>1, <2>2, PartOfBuffer DEF Text
  <2>4. QED
    BY <2>2, <2>3 DEF ItemOf, Item
<1>3. Items(s) \in [1 .. Len(s.tokens) -> Item]
  BY <1>2 DEF Items
<1> DEFINE t == Items(s)
<1> HIDE DEF t
<1>4. t \in Seq(Item) /\ Len(t) = Len(s.tokens)
  <2>1. t \in [1 .. Len(s.tokens) -> Item]
    BY <1>3 DEF t
  <2>2. QED
    BY <1>1, <2>1
<1>5. QED
  BY <1>4 DEF t

\* A character more in the buffer changes the word in progress only.
LEMMA ItemsPushed ==
    ASSUME NEW s \in Scanner, Within(s), NEW c \in Chars, s.start <= Len(s.parsed),
           NEW t \in Scanner, t.tokens = s.tokens, t.start = s.start, t.parsed = Append(s.parsed, c)
    PROVE  /\ Items(t) = Items(s) /\ Within(t)
           /\ Current(t) = Append(Current(s), c)
<1>1. s.parsed \in Seq(Chars) /\ Len(s.tokens) \in Nat /\ s.start \in Nat /\ s.tokens \in Seq(Token)
  BY ScannerFacts
<1>2. /\ Len(s.parsed) \in Nat /\ t.parsed \in Seq(Chars) /\ Len(t.parsed) = Len(s.parsed) + 1
      /\ \A i \in 1 .. Len(s.parsed) : t.parsed[i] = s.parsed[i] /\ s.parsed[i] \in Chars
      /\ t.parsed[Len(s.parsed) + 1] = c
  BY <1>1, LenProperties, AppendProperties, ElementOfSeq
<1>3. \A i \in 1 .. Len(s.tokens) : s.tokens[i].start \in Nat /\ s.tokens[i].len \in Nat
  BY ScannerFacts
<1>4. ASSUME NEW i \in 1 .. Len(s.tokens) PROVE Text(t, s.tokens[i]) = Text(s, s.tokens[i])
  <2> DEFINE a == s.tokens[i].start
             l == s.tokens[i].len
  <2>1. a \in Nat /\ l \in Nat /\ a + l <= Len(s.parsed)
    BY <1>3 DEF Within
  <2> HIDE DEF a, l
  <2>2. a + 1 \in Int /\ a + l \in Int /\ \A j \in a + 1 .. a + l : j \in 1 .. Len(s.parsed)
    BY <1>2, <2>1
  <2>3. \A j \in a + 1 .. a + l : s.parsed[j] \in Chars /\ t.parsed[j] = s.parsed[j]
    BY <1>2, <2>2
  <2>4. SubSeq(t.parsed, a + 1, a + l) = SubSeq(s.parsed, a + 1, a + l)
    <3> DEFINE m == a + 1
               n == a + l
    <3>1. m \in Int /\ n \in Int /\ \A j \in m .. n : s.parsed[j] \in Chars /\ t.parsed[j] = s.parsed[j]
      BY <2>2, <2>3
    <3> HIDE DEF m, n
    <3>2. SubSeq(t.parsed, m, n) = SubSeq(s.parsed, m, n)
      BY ONLY <3>1, SameParts
    <3>3. QED
      BY <3>2 DEF m, n
  <2>5. QED
    BY <2>4 DEF Text, a, l
<1>5. Items(t) = Items(s)
  BY <1>4 DEF Items, ItemOf
<1>6. Within(t)
  <2>1. ASSUME NEW i \in 1 .. Len(s.tokens)
        PROVE  s.tokens[i].start + s.tokens[i].len <= Len(t.parsed)
    <3>1. /\ s.tokens[i].start + s.tokens[i].len <= Len(s.parsed)
          /\ s.tokens[i].start \in Nat /\ s.tokens[i].len \in Nat
      BY <1>3 DEF Within
    <3>2. QED
      BY <1>2, <3>1
  <2>2. QED
    BY <2>1 DEF Within
<1>7. Current(t) = Append(Current(s), c)
  <2> DEFINE n == Len(s.parsed)
             m == s.start + 1
  <2>1. n \in Nat /\ m \in Int /\ m <= n + 1 /\ m \in 1 .. n + 1
    BY <1>1, <1>2
  <2>2. m \in 1 .. Len(t.parsed) /\ n + 1 \in m .. Len(t.parsed)
    BY <1>2, <2>1
  <2>3. SubSeq(t.parsed, m, n + 1) = SubSeq(t.parsed, m, (n + 1) - 1) \o <<t.parsed[n + 1]>>
    BY <1>2, <2>2, SubSeqRecursiveSecond
  <2>4. (n + 1) - 1 = n /\ n \in Int /\ \A j \in m .. n : j \in 1 .. n
    BY <2>1
  <2>5. \A j \in m .. n : s.parsed[j] \in Chars /\ t.parsed[j] = s.parsed[j]
    BY <1>2, <2>4
  <2> HIDE DEF m
  <2>6. SubSeq(t.parsed, m, n) = SubSeq(s.parsed, m, n)
    BY <2>1, <2>4, <2>5, SameParts
  <2>7. Current(s) = SubSeq(s.parsed, m, n) /\ Current(t) = SubSeq(t.parsed, m, n + 1)
    BY <1>2 DEF Current, m
  <2>8. Current(s) \in Seq(Chars)
    BY CurrentText
  <2>9. Append(Current(s), c) = Current(s) \o <<c>>
    BY <2>8, AppendIsConcat
  <2>10. QED
    BY <1>2, <2>3, <2>4, <2>6, <2>7, <2>9
<1>8. QED
  BY <1>5, <1>6, <1>7

\* A token more is an item more.
LEMMA ItemsAppended ==
    ASSUME NEW s \in Scanner, Within(s), NEW token \in Token,
           token.start + token.len <= Len(s.parsed),
           NEW t \in Scanner, t.parsed = s.parsed, t.tokens = Append(s.tokens, token)
    PROVE  /\ Items(t) = Append(Items(s), ItemOf(s, token)) /\ Within(t)
           /\ ItemOf(s, token) \in Item
<1>1. s.parsed \in Seq(Chars) /\ Len(s.tokens) \in Nat /\ s.tokens \in Seq(Token)
  BY ScannerFacts
<1>2. /\ t.tokens \in Seq(Token) /\ Len(t.tokens) = Len(s.tokens) + 1
      /\ \A i \in 1 .. Len(s.tokens) : t.tokens[i] = s.tokens[i]
      /\ t.tokens[Len(s.tokens) + 1] = token
  BY <1>1, AppendProperties
<1>3. Items(s) \in Seq(Item) /\ Len(Items(s)) = Len(s.tokens)
  BY ItemsFacts
<1>4. ASSUME NEW i \in 1 .. Len(t.tokens) PROVE i \in 1 .. Len(s.tokens) \/ i = Len(s.tokens) + 1
  BY <1>1, <1>2
<1>5. Within(t)
  BY <1>2, <1>4 DEF Within
<1>6. Items(t) \in Seq(Item) /\ Len(Items(t)) = Len(s.tokens) + 1
  BY <1>2, <1>5, ItemsFacts
<1>7. /\ \A i \in 1 .. Len(s.tokens) : Items(t)[i] = Items(s)[i]
      /\ Items(t)[Len(s.tokens) + 1] = ItemOf(s, token)
  <2>1. \A i \in 1 .. Len(s.tokens) : i \in 1 .. Len(t.tokens)
    BY <1>1, <1>2
  <2>2. Len(s.tokens) + 1 \in 1 .. Len(t.tokens)
    BY <1>1, <1>2
  <2>3. \A k : ItemOf(t, k) = ItemOf(s, k)
    BY DEF ItemOf, Text
  <2>4. QED
    BY <1>2, <2>1, <2>2, <2>3 DEF Items
<1>8. ItemOf(s, token) \in Item
  <2>1. Len(s.tokens) + 1 \in 1 .. Len(Items(t))
    BY <1>1, <1>6
  <2>2. QED
    BY <1>6, <1>7, <2>1, ElementOfSeq
<1> DEFINE a == Append(Items(s), ItemOf(s, token))
<1>9. /\ a \in Seq(Item) /\ Len(a) = Len(s.tokens) + 1
      /\ \A i \in 1 .. Len(s.tokens) : a[i] = Items(s)[i]
      /\ a[Len(s.tokens) + 1] = ItemOf(s, token)
  BY <1>3, <1>8, AppendProperties
<1> HIDE DEF a
<1>10. \A i \in 1 .. Len(Items(t)) : Items(t)[i] = a[i]
  <2>1. \A i \in 1 .. Len(Items(t)) : i \in 1 .. Len(s.tokens) \/ i = Len(s.tokens) + 1
    BY <1>1, <1>6
  <2>2. QED
    BY <1>7, <1>9, <2>1
<1>11. Items(t) = a
  BY <1>6, <1>9, <1>10, SeqEqual
<1>12. QED
  BY <1>5, <1>8, <1>11 DEF a

-----------------------------------------------------------------------------
(* What the line says.                                                     *)

\* A selection of the line's characters is text.
LEMMA SelectionTyped ==
    ASSUME NEW S, NEW s \in Seq(S), NEW I \in SUBSET (1 .. Len(s))
    PROVE  Selection(s, I) \in Seq(S)
<1>1. Len(s) \in Nat /\ \A i \in 1 .. Len(s) : s[i] \in S
  BY LenProperties, ElementOfSeq
<1>2. I \in SUBSET (0 .. Len(s))
  BY <1>1, OneIsLater
<1>3. Cardinality(I) \in Nat
  BY <1>1, <1>2, Ranks
<1>4. \A n \in 1 .. Cardinality(I) : s[Nth(I, n)] \in S
  <2>1. \A n \in 1 .. Cardinality(I) : Nth(I, n) \in I
    BY <1>1, <1>2, NthPosition
  <2>2. QED
    BY <1>1, <2>1
<1> DEFINE t == Selection(s, I)
<1>5. t \in [1 .. Cardinality(I) -> S]
  BY <1>4 DEF Selection
<1> HIDE DEF t
<1>6. t \in Seq(S)
  BY <1>3, <1>5
<1>7. QED
  BY <1>6 DEF t

\* Where a piece of a word may end, and the positions whose characters it has if it does.
Closers(i) ==
    IF line[i] = "'" THEN {j \in i + 1 .. Len(line) : line[j] = "'"}
    ELSE IF line[i] = "\"" THEN {j \in i + 1 .. Len(line) : line[j] = "\"" /\ ~Escaped(j, i + 1)}
    ELSE IF line[i] = "\\" THEN {j \in {i + 1} : j <= Len(line)}
    ELSE {i}

Kept(i, end) ==
    IF line[i] = "'" THEN i + 1 .. end - 1
    ELSE IF line[i] = "\"" THEN {j \in i + 1 .. end - 1 : line[j] = "\\" => Escaped(j, i + 1)}
    ELSE {end}

LEMMA PieceFacts ==
    ASSUME line \in Seq(Chars), NEW i \in 1 .. Len(line)
    PROVE  /\ Closers(i) \subseteq i .. Len(line)
           /\ Closers(i) = {} => Piece(i).end = 0 /\ Piece(i).text = << >>
           /\ \A e \in Closers(i) : (\A n \in Closers(i) : e <= n) =>
                 Piece(i).end = e /\ Piece(i).text = Selection(line, Kept(i, e))
           /\ Piece(i).end = 0 \/ Piece(i).end \in Closers(i)
           /\ Piece(i).text \in Seq(Chars)
<1> DEFINE N == Len(line)
           C == Closers(i)
           end == IF C = {} THEN 0 ELSE CHOOSE j \in C : \A n \in C : j <= n
<1>1. N \in Nat /\ i \in 1 .. N
  BY LenProperties
<1>2. C \subseteq i .. N
  <2>1. \A j : j \in i + 1 .. N \/ j = i \/ (j = i + 1 /\ j <= N) => j \in i .. N
    BY <1>1
  <2>2. \A j \in C : j \in i + 1 .. N \/ j = i \/ (j = i + 1 /\ j <= N)
    BY DEF Closers
  <2>3. QED
    BY <2>1, <2>2
<1>3. Piece(i) = [end |-> end, text |-> IF end = 0 THEN << >> ELSE Selection(line, Kept(i, end))]
  BY DEF Piece, Closers, Kept
<1>4. C \in SUBSET Nat /\ ~(0 \in C)
  BY <1>1, <1>2
<1>5. C # {} => end \in C /\ \A n \in C : end <= n
  <2>1. C # {} => \E j \in C : \A n \in C : j <= n
    BY <1>4, LeastElement
  <2>2. QED
    BY <2>1
<1>6. \A e \in C : (\A n \in C : e <= n) => end = e
  <2> SUFFICES ASSUME NEW e \in C, \A n \in C : e <= n PROVE end = e
    OBVIOUS
  <2>1. end \in C /\ end <= e /\ e <= end
    BY <1>5
  <2> HIDE DEF end
  <2>2. end \in Nat /\ e \in Nat
    BY <1>4, <2>1
  <2>3. QED
    BY <2>1, <2>2
<1>7. \A e \in C : Kept(i, e) \in SUBSET (1 .. N)
  <2>1. \A e \in C : e \in i .. N
    BY <1>2
  <2>2. \A e \in i .. N : i + 1 .. e - 1 \subseteq 1 .. N /\ e \in 1 .. N
    BY <1>1
  <2>3. QED
    BY <2>1, <2>2 DEF Kept
<1> HIDE DEF C
<1>8. C = {} => end = 0
  OBVIOUS
<1> HIDE DEF end, N
<1>9. Piece(i).end = end /\ Piece(i).text = IF end = 0 THEN << >> ELSE Selection(line, Kept(i, end))
  BY <1>3
<1>10. Piece(i).text \in Seq(Chars)
  <2>1. CASE end = 0
    BY <1>9, <2>1, EmptySeq
  <2>2. CASE end # 0
    <3>1. Kept(i, end) \in SUBSET (1 .. Len(line))
      BY <1>5, <1>7, <1>8, <2>2 DEF N
    <3>2. QED
      BY <1>9, <2>2, <3>1, SelectionTyped
  <2>3. QED
    BY <2>1, <2>2
<1>11. \A e \in C : e # 0
  BY <1>4
<1>12. QED
  BY <1>2, <1>5, <1>6, <1>8, <1>9, <1>10, <1>11 DEF C, N

\* The two recursions of the grammar, as the value at a position from those behind it.
WordReading == [text : Seq(Chars), next : 1 .. Len(line) + 1, closed : BOOLEAN]
LineReading == [items : Seq(Item), closed : BOOLEAN]

WordAt(W, i) ==
    IF i > Len(line) \/ line[i] \in Ops \cup {Blank} THEN [text |-> << >>, next |-> i, closed |-> TRUE]
    ELSE IF Piece(i).end = 0 THEN [text |-> << >>, next |-> Len(line) + 1, closed |-> FALSE]
    ELSE [W[Piece(i).end + 1] EXCEPT !.text = Piece(i).text \o @]

\* The items of a line that begins with a word.
WordFirst(text, w, r) ==
    [items |-> <<[kind |-> "word", text |-> text]>> \o r.items, closed |-> w.closed /\ r.closed]

LineAt(W, R, i) ==
    IF i > Len(line) THEN [items |-> << >>, closed |-> TRUE]
    ELSE IF line[i] = Blank THEN R[i + 1]
    ELSE IF line[i] \in Ops THEN [R[i + 1] EXCEPT !.items = <<[kind |-> line[i], text |-> << >>]>> \o @]
    ELSE WordFirst(W[i].text, W[i], R[W[i].next])

\* A word that begins at a position goes on behind it.
GoesOn(W, i) == ~(i > Len(line)) /\ line[i] \notin Ops \cup {Blank} => i + 1 <= W[i].next

IsGrammar(W, R) ==
    /\ W \in [1 .. Len(line) + 1 -> WordReading]
    /\ R \in [1 .. Len(line) + 1 -> LineReading]
    /\ \A i \in 1 .. Len(line) + 1 : W[i] = WordAt(W, i) /\ R[i] = LineAt(W, R, i)

LEMMA AfterPiece ==
    ASSUME line \in Seq(Chars), NEW i \in 1 .. Len(line) + 1, ~(i > Len(line)), Piece(i).end # 0
    PROVE  Piece(i).end + 1 \in i + 1 .. Len(line) + 1 /\ Piece(i).text \in Seq(Chars)
<1>1. Len(line) \in Nat
  BY LenProperties
<1>2. i \in 1 .. Len(line)
  BY <1>1
<1>3. Piece(i).end \in i .. Len(line) /\ Piece(i).text \in Seq(Chars)
  BY <1>2, PieceFacts
<1>4. QED
  BY <1>1, <1>2, <1>3

LEMMA WordAtTyped ==
    ASSUME line \in Seq(Chars), NEW i \in 1 .. Len(line) + 1,
           NEW W, \A j \in i + 1 .. Len(line) + 1 : W[j] \in WordReading
    PROVE  WordAt(W, i) \in WordReading
<1>1. Len(line) \in Nat /\ Len(line) + 1 \in 1 .. Len(line) + 1
  BY LenProperties
<1>2. CASE i > Len(line) \/ line[i] \in Ops \cup {Blank} \/ Piece(i).end = 0
  <2>1. << >> \in Seq(Chars)
    BY EmptySeq
  <2>2. QED
    BY <1>1, <1>2, <2>1 DEF WordAt, WordReading
<1>3. CASE ~(i > Len(line)) /\ line[i] \notin Ops \cup {Blank} /\ Piece(i).end # 0
  <2> DEFINE w == W[Piece(i).end + 1]
  <2>1. w \in WordReading /\ Piece(i).text \in Seq(Chars)
    BY <1>3, AfterPiece
  <2>2. WordAt(W, i) = [w EXCEPT !.text = Piece(i).text \o @]
    BY <1>3 DEF WordAt
  <2> HIDE DEF w
  <2>3. Piece(i).text \o w.text \in Seq(Chars)
    BY <2>1, ConcatProperties DEF WordReading
  <2>4. QED
    BY <2>1, <2>2, <2>3 DEF WordReading
<1>4. QED
  BY <1>2, <1>3

LEMMA WordAtSame ==
    ASSUME line \in Seq(Chars), NEW i \in 1 .. Len(line) + 1,
           NEW V, NEW W, \A j \in i + 1 .. Len(line) + 1 : V[j] = W[j]
    PROVE  WordAt(V, i) = WordAt(W, i)
<1>1. CASE i > Len(line) \/ line[i] \in Ops \cup {Blank} \/ Piece(i).end = 0
  BY <1>1 DEF WordAt
<1>2. CASE ~(i > Len(line)) /\ line[i] \notin Ops \cup {Blank} /\ Piece(i).end # 0
  <2>1. V[Piece(i).end + 1] = W[Piece(i).end + 1]
    BY <1>2, AfterPiece
  <2>2. QED
    BY <1>2, <2>1 DEF WordAt
<1>3. QED
  BY <1>1, <1>2

LEMMA WordReadings ==
    ASSUME line \in Seq(Chars)
    PROVE  \E W \in [1 .. Len(line) + 1 -> WordReading] :
              \A i \in 1 .. Len(line) + 1 : W[i] = WordAt(W, i)
<1> DEFINE M == Len(line) + 1
           F == [1 .. M -> WordReading]
           step == [x \in (1 .. M) \X F |-> WordAt(x[2], x[1])]
           d == [text |-> << >>, next |-> M, closed |-> TRUE]
<1>1. M \in Nat /\ M \in 1 .. M
  <2>1. Len(line) \in Nat
    BY LenProperties
  <2>2. QED
    BY <2>1
<1>2. \A i \in 1 .. M : \A j \in i + 1 .. M : j \in 1 .. M
  BY <1>1
<1>3. ASSUME NEW i \in 1 .. M, NEW W \in F PROVE WordAt(W, i) \in WordReading
  <2>1. \A j \in i + 1 .. M : W[j] \in WordReading
    BY <1>2
  <2>2. QED
    BY <2>1, WordAtTyped
<1>4. d \in WordReading
  <2>1. << >> \in Seq(Chars)
    BY EmptySeq
  <2>2. QED
    BY <1>1, <2>1 DEF WordReading
<1> HIDE DEF d
<1>5. step \in StepsBack(M, WordReading)
  BY <1>3 DEF StepsBack
<1>6. ASSUME NEW i \in 1 .. M, NEW f \in F PROVE step[<<i, f>>] = WordAt(f, i)
  BY <1>6
<1> HIDE DEF step
<1>7. ASSUME NEW i \in 1 .. M, NEW f \in F, NEW g \in F, \A j \in i + 1 .. M : f[j] = g[j]
      PROVE  step[<<i, f>>] = step[<<i, g>>]
  BY <1>6, <1>7, WordAtSame, SMTT(30)
<1>8. LooksBehind(M, WordReading, step)
  BY <1>7 DEF LooksBehind
<1> HIDE DEF M
<1>9. \E W \in F : \A i \in 1 .. M : W[i] = step[<<i, W>>]
  BY <1>1, <1>4, <1>5, <1>8, BackwardRecursion
<1>10. QED
  BY <1>6, <1>9 DEF M

\* A function that follows the recursion is the one function that does.
LEMMA WordReadingUnique ==
    ASSUME line \in Seq(Chars), NEW V, NEW W,
           \A i \in 1 .. Len(line) + 1 : V[i] = WordAt(V, i) /\ W[i] = WordAt(W, i)
    PROVE  \A i \in 1 .. Len(line) + 1 : V[i] = W[i]
<1> DEFINE M == Len(line) + 1
           S == {i \in 1 .. M : V[i] = W[i]}
<1>1. M \in Nat
  BY LenProperties
<1>2. ASSUME NEW i \in 1 .. M, \A j \in i + 1 .. M : j \in S PROVE i \in S
  <2>1. \A j \in i + 1 .. M : V[j] = W[j]
    BY <1>2
  <2>2. WordAt(V, i) = WordAt(W, i)
    BY <2>1, WordAtSame
  <2>3. QED
    BY <2>2
<1> HIDE DEF S
<1>3. \A i \in 1 .. M : i \in S
  BY <1>1, <1>2, BackwardInduction
<1>4. QED
  BY <1>3 DEF S

LEMMA WordsGoOn ==
    ASSUME line \in Seq(Chars), NEW W \in [1 .. Len(line) + 1 -> WordReading],
           \A i \in 1 .. Len(line) + 1 : W[i] = WordAt(W, i)
    PROVE  \A i \in 1 .. Len(line) + 1 : W[i].next \in i .. Len(line) + 1 /\ GoesOn(W, i)
<1> DEFINE M == Len(line) + 1
           S == {i \in 1 .. M : W[i].next \in i .. M /\ GoesOn(W, i)}
<1>1. M \in Nat /\ Len(line) \in Nat
  BY LenProperties
<1>2. ASSUME NEW i \in 1 .. M, \A j \in i + 1 .. M : j \in S PROVE i \in S
  <2>1. CASE i > Len(line) \/ line[i] \in Ops \cup {Blank}
    <3>1. W[i].next = i
      <4>1. W[i] = WordAt(W, i)
        OBVIOUS
      <4>2. WordAt(W, i) = [text |-> << >>, next |-> i, closed |-> TRUE]
        BY <2>1 DEF WordAt
      <4>3. QED
        BY <4>1, <4>2
    <3>2. i \in i .. M
      BY <1>1
    <3>3. QED
      BY <2>1, <3>1, <3>2 DEF GoesOn
  <2>2. CASE ~(i > Len(line)) /\ line[i] \notin Ops \cup {Blank} /\ Piece(i).end = 0
    <3>1. W[i].next = M
      <4>1. W[i] = WordAt(W, i)
        OBVIOUS
      <4>2. WordAt(W, i) = [text |-> << >>, next |-> M, closed |-> FALSE]
        BY <2>2 DEF WordAt
      <4>3. QED
        BY <4>1, <4>2
    <3>2. M \in i .. M /\ i + 1 <= M
      BY <1>1, <2>2
    <3>3. QED
      BY <3>1, <3>2 DEF GoesOn
  <2>3. CASE ~(i > Len(line)) /\ line[i] \notin Ops \cup {Blank} /\ Piece(i).end # 0
    <3> DEFINE e == Piece(i).end + 1
    <3>1. e \in i + 1 .. M
      BY <2>3, AfterPiece
    <3>2. W[i] = [W[e] EXCEPT !.text = Piece(i).text \o @]
      BY <2>3 DEF WordAt
    <3> HIDE DEF e
    <3>3. W[e].next \in e .. M /\ e \in 1 .. M
      BY <1>1, <1>2, <3>1
    <3>4. W[i].next = W[e].next
      BY <3>2, <3>3 DEF WordReading
    <3>5. W[i].next \in i .. M /\ i + 1 <= W[i].next
      BY <1>1, <3>1, <3>3, <3>4
    <3>6. QED
      BY <3>5 DEF GoesOn
  <2>4. QED
    BY <2>1, <2>2, <2>3
<1> HIDE DEF S
<1>3. \A i \in 1 .. M : i \in S
  BY <1>1, <1>2, BackwardInduction
<1>4. QED
  BY <1>3 DEF S

LEMMA LineAtTyped ==
    ASSUME line \in Seq(Chars), NEW i \in 1 .. Len(line) + 1,
           NEW W \in [1 .. Len(line) + 1 -> WordReading],
           W[i].next \in i .. Len(line) + 1, GoesOn(W, i),
           NEW R, \A j \in i + 1 .. Len(line) + 1 : R[j] \in LineReading
    PROVE  /\ LineAt(W, R, i) \in LineReading
           /\ \A Q : (\A j \in i + 1 .. Len(line) + 1 : R[j] = Q[j]) => LineAt(W, R, i) = LineAt(W, Q, i)
<1>1. Len(line) \in Nat
  BY LenProperties
<1>2. CASE i > Len(line)
  <2>1. << >> \in Seq(Item)
    BY EmptySeq
  <2>2. QED
    BY <1>2, <2>1 DEF LineAt, LineReading
<1>3. ASSUME ~(i > Len(line)) PROVE i + 1 \in i + 1 .. Len(line) + 1
  BY <1>1, <1>3
<1>4. CASE ~(i > Len(line)) /\ line[i] = Blank
  BY <1>3, <1>4 DEF LineAt
<1>5. CASE ~(i > Len(line)) /\ line[i] # Blank /\ line[i] \in Ops
  <2> DEFINE r == R[i + 1]
             item == [kind |-> line[i], text |-> << >>]
  <2>1. r \in LineReading
    BY <1>3, <1>5
  <2>2. LineAt(W, R, i) = [r EXCEPT !.items = <<item>> \o @]
    BY <1>5 DEF LineAt
  <2>3. item \in Item
    <3>1. << >> \in Seq(Chars)
      BY EmptySeq
    <3>2. QED
      BY <1>5, <3>1 DEF Item
  <2>4. ASSUME NEW Q, \A j \in i + 1 .. Len(line) + 1 : R[j] = Q[j]
        PROVE  LineAt(W, R, i) = LineAt(W, Q, i)
    <3>1. R[i + 1] = Q[i + 1]
      BY <1>3, <1>5, <2>4
    <3>2. QED
      BY <1>5, <3>1 DEF LineAt
  <2> HIDE DEF r, item
  <2>5. <<item>> \o r.items \in Seq(Item)
    <3>1. <<item>> \in Seq(Item) /\ r.items \in Seq(Item)
      BY <2>1, <2>3 DEF LineReading
    <3>2. QED
      BY <3>1, ConcatProperties
  <2>6. QED
    BY <2>1, <2>2, <2>4, <2>5 DEF LineReading
<1>6. CASE ~(i > Len(line)) /\ line[i] \notin Ops \cup {Blank}
  <2> DEFINE w == W[i]
             r == R[w.next]
             item == [kind |-> "word", text |-> w.text]
  <2>1. W[i].next \in i + 1 .. Len(line) + 1
    BY <1>1, <1>6 DEF GoesOn
  <2>2. r \in LineReading /\ w \in WordReading
    BY <2>1
  <2>3. LineAt(W, R, i) = [items |-> <<item>> \o r.items, closed |-> w.closed /\ r.closed]
    BY <1>6 DEF LineAt, WordFirst
  <2>4. item \in Item
    BY <2>2 DEF WordReading, Item
  <2>5. ASSUME NEW Q, \A j \in i + 1 .. Len(line) + 1 : R[j] = Q[j]
        PROVE  LineAt(W, R, i) = LineAt(W, Q, i)
    <3>1. R[W[i].next] = Q[W[i].next]
      BY <2>1, <2>5
    <3>2. QED
      BY <1>6, <3>1 DEF LineAt
  <2> HIDE DEF r, item
  <2>6. <<item>> \o r.items \in Seq(Item)
    <3>1. <<item>> \in Seq(Item) /\ r.items \in Seq(Item)
      BY <2>2, <2>4 DEF LineReading
    <3>2. QED
      BY <3>1, ConcatProperties
  <2> HIDE DEF w
  <2>7. (w.closed /\ r.closed) \in BOOLEAN
    BY <2>2 DEF WordReading, LineReading
  <2>8. QED
    BY <2>3, <2>5, <2>6, <2>7 DEF LineReading
<1>7. QED
  BY <1>2, <1>4, <1>5, <1>6

LEMMA LineReadings ==
    ASSUME line \in Seq(Chars), NEW W \in [1 .. Len(line) + 1 -> WordReading],
           \A i \in 1 .. Len(line) + 1 : W[i].next \in i .. Len(line) + 1 /\ GoesOn(W, i)
    PROVE  \E R \in [1 .. Len(line) + 1 -> LineReading] :
              \A i \in 1 .. Len(line) + 1 : R[i] = LineAt(W, R, i)
<1> DEFINE M == Len(line) + 1
           F == [1 .. M -> LineReading]
           step == [x \in (1 .. M) \X F |-> LineAt(W, x[2], x[1])]
           d == [items |-> << >>, closed |-> TRUE]
<1>1. M \in Nat
  <2>1. Len(line) \in Nat
    BY LenProperties
  <2>2. QED
    BY <2>1
<1>2. \A i \in 1 .. M : \A j \in i + 1 .. M : j \in 1 .. M
  BY <1>1
<1>3. ASSUME NEW i \in 1 .. M, NEW R \in F
      PROVE  /\ LineAt(W, R, i) \in LineReading
             /\ \A Q : (\A j \in i + 1 .. M : R[j] = Q[j]) => LineAt(W, R, i) = LineAt(W, Q, i)
  <2>1. \A j \in i + 1 .. M : R[j] \in LineReading
    BY <1>2
  <2>2. QED
    BY <2>1, LineAtTyped
<1>4. d \in LineReading
  <2>1. << >> \in Seq(Item)
    BY EmptySeq
  <2>2. QED
    BY <2>1 DEF LineReading
<1> HIDE DEF d
<1>5. step \in StepsBack(M, LineReading)
  BY <1>3 DEF StepsBack
<1>6. ASSUME NEW i \in 1 .. M, NEW f \in F PROVE step[<<i, f>>] = LineAt(W, f, i)
  BY <1>6
<1> HIDE DEF step
<1>7. ASSUME NEW i \in 1 .. M, NEW f \in F, NEW g \in F, \A j \in i + 1 .. M : f[j] = g[j]
      PROVE  step[<<i, f>>] = step[<<i, g>>]
  BY <1>3, <1>6, <1>7, ZenonT(30)
<1>8. LooksBehind(M, LineReading, step)
  BY <1>7 DEF LooksBehind
<1> HIDE DEF M
<1>9. \E R \in F : \A i \in 1 .. M : R[i] = step[<<i, R>>]
  BY <1>1, <1>4, <1>5, <1>8, BackwardRecursion, SMTT(30)
<1>10. QED
  BY <1>6, <1>9 DEF M

LEMMA LineReadingUnique ==
    ASSUME line \in Seq(Chars), NEW W \in [1 .. Len(line) + 1 -> WordReading],
           \A i \in 1 .. Len(line) + 1 : W[i].next \in i .. Len(line) + 1 /\ GoesOn(W, i),
           NEW R \in [1 .. Len(line) + 1 -> LineReading], NEW Q,
           \A i \in 1 .. Len(line) + 1 : R[i] = LineAt(W, R, i) /\ Q[i] = LineAt(W, Q, i)
    PROVE  \A i \in 1 .. Len(line) + 1 : R[i] = Q[i]
<1> DEFINE M == Len(line) + 1
           S == {i \in 1 .. M : R[i] = Q[i]}
<1>1. M \in Nat
  BY LenProperties
<1>2. ASSUME NEW i \in 1 .. M, \A j \in i + 1 .. M : j \in S PROVE i \in S
  <2>1. \A j \in i + 1 .. M : R[j] = Q[j]
    BY <1>2
  <2>2. \A j \in i + 1 .. M : j \in 1 .. M
    BY <1>1
  <2>3. \A j \in i + 1 .. M : R[j] \in LineReading
    BY <2>2
  <2>4. LineAt(W, R, i) = LineAt(W, Q, i)
    BY <2>1, <2>3, LineAtTyped
  <2>5. QED
    BY <2>4
<1> HIDE DEF S
<1>3. \A i \in 1 .. M : i \in S
  BY <1>1, <1>2, BackwardInduction
<1>4. QED
  BY <1>3 DEF S

\* What the grammar reads is what two such functions say of the first position.
LEMMA GrammarReads ==
    ASSUME line \in Seq(Chars)
    PROVE  \E W, R : IsGrammar(W, R) /\ Reading = R[1]
<1> DEFINE M == Len(line) + 1
           word == CHOOSE word : word = [i \in 1 .. Len(line) + 1 |-> WordAt(word, i)]
           read == CHOOSE read : read = [i \in 1 .. Len(line) + 1 |-> LineAt(word, read, i)]
<1>1. Reading = read[1]
  BY DEF Reading, WordAt, LineAt, WordFirst
<1>2. PICK W \in [1 .. M -> WordReading] : \A i \in 1 .. M : W[i] = WordAt(W, i)
  BY WordReadings
<1>3. W = [i \in 1 .. M |-> WordAt(W, i)]
  BY <1>2
<1>4. word = [i \in 1 .. M |-> WordAt(word, i)]
  BY <1>3
<1> HIDE DEF word
<1>5. \A i \in 1 .. M : word[i] = WordAt(word, i)
  BY <1>4
<1>6. \A i \in 1 .. M : word[i] = W[i]
  BY <1>2, <1>5, WordReadingUnique
<1>7. word \in [1 .. M -> WordReading]
  <2>1. \A i \in 1 .. M : WordAt(word, i) \in WordReading
    BY <1>5, <1>6
  <2>2. QED
    BY <1>4, <2>1
<1>8. \A i \in 1 .. M : word[i].next \in i .. M /\ GoesOn(word, i)
  BY <1>5, <1>7, WordsGoOn
<1>9. PICK R \in [1 .. M -> LineReading] : \A i \in 1 .. M : R[i] = LineAt(word, R, i)
  BY <1>7, <1>8, LineReadings
<1>10. R = [i \in 1 .. M |-> LineAt(word, R, i)]
  BY <1>9
<1>11. read = [i \in 1 .. M |-> LineAt(word, read, i)]
  BY <1>10
<1> HIDE DEF read
<1>12. \A i \in 1 .. M : read[i] = LineAt(word, read, i)
  BY <1>11
<1>13. \A i \in 1 .. M : R[i] = read[i]
  BY <1>7, <1>8, <1>9, <1>12, LineReadingUnique
<1>14. read \in [1 .. M -> LineReading]
  <2>1. \A i \in 1 .. M : LineAt(word, read, i) \in LineReading
    BY <1>12, <1>13
  <2>2. QED
    BY <1>11, <2>1
<1>15. QED
  BY <1>1, <1>5, <1>7, <1>12, <1>14 DEF IsGrammar

-----------------------------------------------------------------------------
(* The pieces of a word.                                                   *)

LEMMA Arithmetic ==
    /\ \A m \in Nat : \A j \in Nat : j <= m => m - j \in Nat /\ (m + 1) - j = (m - j) + 1
    /\ \A m \in Nat : m - m = 0 /\ ~(0 % 2 = 1)
    /\ \A r \in Nat : (r + 1) % 2 = 1 <=> ~(r % 2 = 1)
OBVIOUS

\* At the first position nothing is escaped, and further on what follows a
\* backslash that isn't.
LEMMA EscapedNext ==
    ASSUME NEW from \in Nat
    PROVE  /\ ~Escaped(from, from)
           /\ \A i \in Nat : from <= i =>
                 (Escaped(i + 1, from) <=> line[i] = "\\" /\ ~Escaped(i, from))
<1> DEFINE Same(i) == {j \in from .. i : \A n \in j .. i - 1 : line[n] = "\\"}
           Least(i) == CHOOSE j \in Same(i) : \A n \in Same(i) : j <= n
<1>1. \A i : RunBefore(i, from) = i - Least(i)
  BY DEF RunBefore
<1>2. ASSUME NEW i \in Nat, from <= i
      PROVE  /\ i \in Same(i) /\ Same(i) \in SUBSET Nat
             /\ Least(i) \in Same(i) /\ \A n \in Same(i) : Least(i) <= n
             /\ Least(i) \in Nat /\ Least(i) <= i
  <2>1. i \in Same(i) /\ Same(i) \in SUBSET Nat /\ \A n \in Same(i) : n <= i
    BY <1>2
  <2> HIDE DEF Same
  <2>2. \E j \in Same(i) : \A n \in Same(i) : j <= n
    BY <2>1, LeastElement
  <2>3. Least(i) \in Same(i) /\ \A n \in Same(i) : Least(i) <= n
    BY <2>2
  <2> HIDE DEF Least
  <2>4. QED
    BY <2>1, <2>3
<1>3. ASSUME NEW i \in Nat, from <= i, NEW j \in Same(i), \A n \in Same(i) : j <= n
      PROVE  Least(i) = j
  <2>1. Least(i) <= j /\ j <= Least(i) /\ Least(i) \in Nat /\ j \in Nat
    BY <1>2, <1>3
  <2> HIDE DEF Least
  <2>2. QED
    BY <2>1
<1>4. ASSUME NEW i \in Nat, from <= i, Same(i) = {i} PROVE ~Escaped(i, from)
  <2>1. Least(i) = i
    BY <1>4
  <2> HIDE DEF Least, Same
  <2>2. RunBefore(i, from) = i - i
    BY <1>1, <2>1
  <2>3. RunBefore(i, from) = 0
    BY <2>2, Arithmetic
  <2>4. QED
    BY <2>3, Arithmetic DEF Escaped
<1>5. ~Escaped(from, from)
  <2>1. from <= from /\ Same(from) = {from}
    OBVIOUS
  <2>2. QED
    BY <1>4, <2>1
<1>6. ASSUME NEW i \in Nat, from <= i
      PROVE  Escaped(i + 1, from) <=> line[i] = "\\" /\ ~Escaped(i, from)
  <2>1. i + 1 \in Nat /\ from <= i + 1
    BY <1>6
  <2>2. CASE line[i] = "\\"
    <3>1. Same(i + 1) = Same(i) \cup {i + 1}
      <4>1. \A j \in from .. i : \A n : n \in j .. (i + 1) - 1 <=> n \in j .. i - 1 \/ n = i
        BY <1>6
      <4>2. \A j : j \in from .. i + 1 <=> j \in from .. i \/ j = i + 1
        BY <1>6
      <4>3. \A n : ~(n \in i + 1 .. (i + 1) - 1)
        BY <1>6
      <4>4. QED
        BY <2>2, <4>1, <4>2, <4>3
    <3>2. Least(i) \in Same(i + 1) /\ \A n \in Same(i + 1) : Least(i) <= n
      <4>1. Least(i) \in Same(i) /\ (\A n \in Same(i) : Least(i) <= n) /\ Least(i) \in Nat /\ Least(i) <= i
        BY <1>2, <1>6
      <4> HIDE DEF Least
      <4>2. Least(i) <= i + 1
        BY <4>1
      <4> HIDE DEF Same
      <4>3. QED
        BY <3>1, <4>1, <4>2
    <3>3. Least(i + 1) = Least(i)
      <4> HIDE DEF Same, Least
      <4>1. QED
        BY <1>3, <2>1, <3>2
    <3>4. Least(i) \in Nat /\ Least(i) <= i
      BY <1>2, <1>6
    <3> HIDE DEF Least, Same
    <3>5. RunBefore(i, from) \in Nat /\ RunBefore(i + 1, from) = RunBefore(i, from) + 1
      BY <1>1, <3>3, <3>4, Arithmetic
    <3>6. QED
      BY <2>2, <3>5, Arithmetic DEF Escaped
  <2>3. CASE line[i] # "\\"
    <3>1. Same(i + 1) = {i + 1}
      <4>1. \A j \in from .. i : i \in j .. (i + 1) - 1
        BY <1>6
      <4>2. \A j : j \in from .. i + 1 <=> j \in from .. i \/ j = i + 1
        BY <1>6
      <4>3. \A n : ~(n \in i + 1 .. (i + 1) - 1)
        BY <1>6
      <4>4. QED
        BY <2>3, <4>1, <4>2, <4>3
    <3> HIDE DEF Same
    <3>2. QED
      BY <1>4, <2>1, <2>3, <3>1
  <2>4. QED
    BY <2>2, <2>3
<1>7. QED
  BY <1>5, <1>6

\* Inside quotes: what ends them, and what is left out of the word.
Quotes == {"'", "\""}
Closing(q, j) == IF line[q] = "'" THEN line[j] = "'" ELSE line[j] = "\"" /\ ~Escaped(j, q + 1)
Dropped(q, j) == line[q] = "\"" /\ line[j] = "\\" /\ ~Escaped(j, q + 1)
Open(q, end)  == \A j \in q + 1 .. end - 1 : ~Closing(q, j)
Quoted(q, end) == Selection(line, Kept(q, end))

LEMMA QuotePositions ==
    \A N \in Nat : \A q \in 1 .. N :
        /\ q + 1 \in Nat /\ q + 1 \in q + 1 .. N + 1 /\ \A j : ~(j \in q + 1 .. (q + 1) - 1)
        /\ \A e \in q + 1 .. N : /\ e \in Nat /\ e \in 1 .. N /\ e + 1 \in q + 1 .. N + 1 /\ q + 1 <= e
                                 /\ \A j : j \in q + 1 .. (e + 1) - 1 <=> j \in q + 1 .. e - 1 \/ j = e
        /\ \A e \in q + 1 .. N + 1 : \A j \in q + 1 .. e - 1 : j \in 1 .. N /\ j < e /\ j \in q + 1 .. N
        /\ \A e \in q + 1 .. N : \A j \in q + 1 .. N : ~(j \in q + 1 .. e - 1) => e <= j
        /\ (N + 1) - 1 = N
OBVIOUS

\* One more character inside of quotes.
LEMMA QuotedNext ==
    ASSUME line \in Seq(Chars), NEW q \in 1 .. Len(line), line[q] \in Quotes
    PROVE  /\ Quoted(q, q + 1) = << >> /\ Open(q, q + 1) /\ ~Escaped(q + 1, q + 1)
           /\ \A e \in q + 1 .. Len(line) + 1 : Quoted(q, e) \in Seq(Chars)
           /\ \A e \in q + 1 .. Len(line) :
                 /\ Quoted(q, e + 1) = IF Dropped(q, e) THEN Quoted(q, e)
                                       ELSE Append(Quoted(q, e), line[e])
                 /\ Open(q, e) /\ ~Closing(q, e) => Open(q, e + 1)
                 /\ Escaped(e + 1, q + 1) <=> line[e] = "\\" /\ ~Escaped(e, q + 1)
<1> DEFINE N == Len(line)
<1>1. N \in Nat /\ \A i \in 1 .. N : line[i] \in Chars
  BY LenProperties, ElementOfSeq
<1>2. \A e : Kept(q, e) = {j \in q + 1 .. e - 1 : ~Dropped(q, j)}
  BY DEF Kept, Dropped, Quotes
<1> HIDE DEF N
<1>3. q \in 1 .. N /\ \A e \in q + 1 .. N + 1 : Kept(q, e) \in SUBSET (1 .. N)
  <2>1. q \in 1 .. N
    BY DEF N
  <2>2. QED
    BY <1>1, <1>2, <2>1, QuotePositions
<1>4. Kept(q, q + 1) = {}
  BY <1>1, <1>2, <1>3, QuotePositions
<1>5. ASSUME NEW e \in q + 1 .. N
      PROVE  /\ Quoted(q, e + 1) = IF Dropped(q, e) THEN Quoted(q, e)
                                   ELSE Append(Quoted(q, e), line[e])
             /\ Open(q, e) /\ ~Closing(q, e) => Open(q, e + 1)
             /\ Escaped(e + 1, q + 1) <=> line[e] = "\\" /\ ~Escaped(e, q + 1)
  <2>1. /\ e \in Nat /\ e \in 1 .. N /\ e + 1 \in q + 1 .. N + 1 /\ q + 1 <= e /\ q + 1 \in Nat
        /\ \A j : j \in q + 1 .. (e + 1) - 1 <=> j \in q + 1 .. e - 1 \/ j = e
    BY <1>1, <1>3, QuotePositions
  <2>2. Dropped(q, e) => Kept(q, e + 1) = Kept(q, e)
    BY <1>2, <2>1
  <2>3. ~Dropped(q, e) => Kept(q, e + 1) = Kept(q, e) \cup {e}
    BY <1>2, <2>1
  <2>4. ASSUME ~Dropped(q, e) PROVE Quoted(q, e + 1) = Append(Quoted(q, e), line[e])
    <3> DEFINE I == Kept(q, e)
               J == Kept(q, e + 1)
    <3>1. e \in q + 1 .. N + 1
      BY <1>1, <1>3
    <3>2. I \in SUBSET (1 .. N) /\ J = I \cup {e}
      BY <1>3, <2>3, <2>4, <3>1
    <3>3. \A i \in I : i < e
      BY <1>1, <1>2, <1>3, <3>1, QuotePositions
    <3> HIDE DEF I, J
    <3>4. I \in SUBSET (0 .. N)
      BY <1>1, <3>2, OneIsLater
    <3>5. Extends(J, I, e, Len(line))
      BY <1>1, <2>1, <3>2, <3>3, <3>4 DEF Extends, N
    <3>6. SelectionGrows(line, J, I, e)
      <4>1. I \subseteq 1 .. Len(line) /\ e \in 1 .. Len(line)
        BY <2>1, <3>2 DEF N
      <4>2. QED
        BY <3>5, <4>1, SelectionBehind
    <3>7. QED
      BY <3>6 DEF SelectionGrows, Quoted, I, J
  <2>5. Open(q, e) /\ ~Closing(q, e) => Open(q, e + 1)
    BY <2>1 DEF Open
  <2>6. Escaped(e + 1, q + 1) <=> line[e] = "\\" /\ ~Escaped(e, q + 1)
    BY <2>1, EscapedNext
  <2>7. QED
    BY <2>2, <2>4, <2>5, <2>6 DEF Quoted
<1>6. Quoted(q, q + 1) = << >>
  BY <1>4, SelectionNone DEF Quoted
<1>7. Open(q, q + 1) /\ ~Escaped(q + 1, q + 1)
  <2>1. q + 1 \in Nat /\ \A j : ~(j \in q + 1 .. (q + 1) - 1)
    BY <1>1, <1>3, QuotePositions
  <2>2. QED
    BY <2>1, EscapedNext DEF Open
<1>8. \A e \in q + 1 .. N + 1 : Quoted(q, e) \in Seq(Chars)
  BY <1>3, SelectionTyped DEF Quoted, N
<1>9. QED
  BY <1>5, <1>6, <1>7, <1>8 DEF N

\* Where quotes end, and where they don't.
LEMMA QuotesEnd ==
    ASSUME line \in Seq(Chars), NEW q \in 1 .. Len(line), line[q] \in Quotes
    PROVE  /\ Open(q, Len(line) + 1) => Piece(q).end = 0
           /\ \A e \in q + 1 .. Len(line) : Open(q, e) /\ Closing(q, e) =>
                 Piece(q).end = e /\ Piece(q).text = Quoted(q, e)
<1> DEFINE N == Len(line)
<1>1. N \in Nat
  BY LenProperties
<1>2. Closers(q) = {j \in q + 1 .. N : Closing(q, j)}
  BY DEF Closers, Closing, Quotes
<1> HIDE DEF N
<1>3. q \in 1 .. N
  BY DEF N
<1>4. ASSUME Open(q, N + 1) PROVE Piece(q).end = 0
  <2>1. \A j \in q + 1 .. N : ~Closing(q, j)
    BY <1>1, <1>3, <1>4, QuotePositions DEF Open
  <2>2. Closers(q) = {}
    BY <1>2, <2>1
  <2>3. QED
    BY <2>2, PieceFacts
<1>5. ASSUME NEW e \in q + 1 .. N, Open(q, e), Closing(q, e)
      PROVE  Piece(q).end = e /\ Piece(q).text = Quoted(q, e)
  <2>1. e \in Closers(q)
    BY <1>2, <1>5
  <2>2. \A n \in Closers(q) : e <= n
    <3>1. \A n \in Closers(q) : n \in q + 1 .. N /\ ~(n \in q + 1 .. e - 1)
      BY <1>2, <1>5 DEF Open
    <3>2. QED
      BY <1>1, <1>3, <3>1, QuotePositions
  <2>3. QED
    BY <2>1, <2>2, PieceFacts DEF Quoted
<1>6. QED
  BY <1>4, <1>5 DEF N

\* A character outside of quotes, and one behind a backslash.
LEMMA OneCharacter ==
    ASSUME line \in Seq(Chars), NEW i \in 1 .. Len(line), line[i] \notin Quotes
    PROVE  /\ line[i] # "\\" => Piece(i).end = i /\ Piece(i).text = <<line[i]>>
           /\ line[i] = "\\" /\ i = Len(line) => Piece(i).end = 0
           /\ line[i] = "\\" /\ i < Len(line) =>
                 Piece(i).end = i + 1 /\ Piece(i).text = <<line[i + 1]>>
<1>1. Len(line) \in Nat /\ i \in Nat /\ i <= i /\ i + 1 <= i + 1 /\ i + 1 \in Nat
  BY LenProperties
<1>2. \A e \in 1 .. Len(line) : Selection(line, {e}) = <<line[e]>>
  <2> SUFFICES ASSUME NEW e \in 1 .. Len(line) PROVE Selection(line, {e}) = <<line[e]>>
    OBVIOUS
  <2>1. {} \in SUBSET (0 .. Len(line)) /\ {e} = {} \cup {e} /\ e \in Nat /\ {} \subseteq 1 .. Len(line)
    BY <1>1
  <2>2. Extends({e}, {}, e, Len(line))
    BY <1>1, <2>1 DEF Extends
  <2>3. Selection(line, {e}) = Append(Selection(line, {}), line[e])
    BY <2>1, <2>2, SelectionBehind DEF SelectionGrows
  <2>4. Append(<< >>, line[e]) = <<line[e]>>
    OBVIOUS
  <2>5. QED
    BY <2>3, <2>4, SelectionNone
<1>3. line[i] # "'" /\ line[i] # "\""
  BY DEF Quotes
<1>4. CASE line[i] # "\\"
  <2>1. Closers(i) = {i} /\ Kept(i, i) = {i}
    BY <1>3, <1>4 DEF Closers, Kept
  <2>2. i \in Closers(i) /\ \A n \in Closers(i) : i <= n
    BY <1>1, <2>1
  <2>3. Piece(i).end = i /\ Piece(i).text = Selection(line, Kept(i, i))
    BY <2>2, PieceFacts
  <2>4. QED
    BY <1>2, <1>4, <2>1, <2>3
<1>5. CASE line[i] = "\\" /\ i = Len(line)
  <2>1. ~(i + 1 <= Len(line))
    BY <1>1, <1>5
  <2>2. Closers(i) = {}
    BY <1>3, <1>5, <2>1 DEF Closers
  <2>3. QED
    BY <1>1, <1>5, <2>2, PieceFacts
<1>6. CASE line[i] = "\\" /\ i < Len(line)
  <2>1. i + 1 <= Len(line) /\ i + 1 \in 1 .. Len(line)
    BY <1>1, <1>6
  <2>2. Closers(i) = {i + 1} /\ Kept(i, i + 1) = {i + 1}
    BY <1>3, <1>6, <2>1 DEF Closers, Kept
  <2>3. i + 1 \in Closers(i) /\ \A n \in Closers(i) : i + 1 <= n
    BY <1>1, <2>2
  <2>4. Piece(i).end = i + 1 /\ Piece(i).text = Selection(line, Kept(i, i + 1))
    BY <2>3, PieceFacts
  <2>5. QED
    BY <1>1, <1>2, <1>6, <2>1, <2>2, <2>4
<1>7. QED
  BY <1>1, <1>4, <1>5, <1>6

-----------------------------------------------------------------------------
(* The scanner reads what the grammar reads.                               *)

\* What the grammar reads from the start: these items, and then what r says.
Reads(R, items, r) == R[1].items = items \o r.items /\ R[1].closed = r.closed

StartsWith(items, item, rest) == items = <<item>> \o rest
ClosesAs(v, r) == v.closed = r.closed
Unclosed(r) == r.closed = FALSE

\* The rest of a line amid a word, of which there is already a part.
WordRest(W, R, q, part) == WordFirst(part \o W[q].text, W[q], R[W[q].next])

WordStarts(i) == ~(i > Len(line)) /\ line[i] \notin Ops \cup {Blank}

LEMMA GrammarTyped ==
    ASSUME line \in Seq(Chars), NEW W, NEW R, IsGrammar(W, R), NEW q \in 1 .. Len(line) + 1
    PROVE  /\ W[q].text \in Seq(Chars) /\ W[q].next \in 1 .. Len(line) + 1 /\ W[q].closed \in BOOLEAN
           /\ R[q].items \in Seq(Item) /\ R[q].closed \in BOOLEAN
           /\ R[W[q].next].items \in Seq(Item) /\ R[W[q].next].closed \in BOOLEAN
           /\ W[q] = WordAt(W, q) /\ R[q] = LineAt(W, R, q)
<1>1. W[q] \in WordReading /\ R[q] \in LineReading
  BY DEF IsGrammar
<1>2. W[q].next \in 1 .. Len(line) + 1
  BY <1>1 DEF WordReading
<1>3. R[W[q].next] \in LineReading
  BY <1>2 DEF IsGrammar
<1>4. W[q] = WordAt(W, q) /\ R[q] = LineAt(W, R, q)
  BY DEF IsGrammar
<1>5. QED
  BY <1>1, <1>2, <1>3, <1>4 DEF WordReading, LineReading

LEMMA WordItem == \A text \in Seq(Chars) : [kind |-> "word", text |-> text] \in Item
BY DEF Item

LEMMA RegroupText ==
    \A x, y, z \in Seq(Chars) : x \o (y \o z) = (x \o y) \o z /\ x \o y \in Seq(Chars)
<1> SUFFICES ASSUME NEW x \in Seq(Chars), NEW y \in Seq(Chars), NEW z \in Seq(Chars)
             PROVE  x \o (y \o z) = (x \o y) \o z /\ x \o y \in Seq(Chars)
  OBVIOUS
<1>1. x \o (y \o z) = (x \o y) \o z
  BY ConcatAssociative, SMTT(30)
<1>2. QED
  BY <1>1, ConcatProperties

LEMMA RegroupItems ==
    \A x, y, z \in Seq(Item) : x \o (y \o z) = (x \o y) \o z /\ x \o y \in Seq(Item)
<1> SUFFICES ASSUME NEW x \in Seq(Item), NEW y \in Seq(Item), NEW z \in Seq(Item)
             PROVE  x \o (y \o z) = (x \o y) \o z /\ x \o y \in Seq(Item)
  OBVIOUS
<1>1. x \o (y \o z) = (x \o y) \o z
  BY ConcatAssociative, SMTT(30)
<1>2. QED
  BY <1>1, ConcatProperties

\* A piece of a word goes over from what the grammar says of it to what there is of it.
LEMMA PieceRead ==
    ASSUME line \in Seq(Chars), NEW W, NEW R, IsGrammar(W, R),
           NEW q \in 1 .. Len(line), WordStarts(q), NEW part \in Seq(Chars),
           NEW e, Piece(q).end = e, e # 0
    PROVE  /\ e + 1 \in 1 .. Len(line) + 1 /\ part \o Piece(q).text \in Seq(Chars)
           /\ WordRest(W, R, q, part) = WordRest(W, R, e + 1, part \o Piece(q).text)
<1>1. Len(line) \in Nat /\ q \in 1 .. Len(line) + 1
  BY LenProperties
<1>2. /\ e + 1 \in q + 1 .. Len(line) + 1 /\ Piece(q).text \in Seq(Chars)
  BY <1>1, AfterPiece DEF WordStarts
<1>3. e + 1 \in 1 .. Len(line) + 1
  BY <1>1, <1>2
<1> DEFINE w == W[e + 1]
           p == Piece(q).text
<1>4. W[q] = [w EXCEPT !.text = p \o @]
  BY <1>1, GrammarTyped, ZenonT(30) DEF WordAt, WordStarts
<1>5. w \in WordReading
  BY <1>3 DEF IsGrammar
<1> HIDE DEF w, p
<1>6. W[q].text = p \o w.text /\ W[q].next = w.next /\ W[q].closed = w.closed
  BY <1>4, <1>5 DEF WordReading
<1>7. part \o (p \o w.text) = (part \o p) \o w.text /\ part \o p \in Seq(Chars)
  <2>1. part \in Seq(Chars) /\ p \in Seq(Chars) /\ w.text \in Seq(Chars)
    BY <1>2, <1>5 DEF WordReading, p
  <2>2. QED
    BY <2>1, RegroupText
<1>8. QED
  BY <1>3, <1>6, <1>7 DEF WordRest, WordFirst, w, p

\* Where a word ends, and where it never does.
LEMMA WordRead ==
    ASSUME line \in Seq(Chars), NEW W, NEW R, IsGrammar(W, R),
           NEW q \in 1 .. Len(line) + 1, NEW part \in Seq(Chars)
    PROVE  /\ WordRest(W, R, q, part).items \in Seq(Item) \ {<< >>}
           /\ ~WordStarts(q) =>
                 /\ StartsWith(WordRest(W, R, q, part).items, [kind |-> "word", text |-> part], R[q].items)
                 /\ ClosesAs(WordRest(W, R, q, part), R[q])
           /\ WordStarts(q) /\ Piece(q).end = 0 => Unclosed(WordRest(W, R, q, part))
<1> DEFINE w == W[q]
           r == R[W[q].next]
           first == <<[kind |-> "word", text |-> part \o W[q].text]>>
           rest == WordRest(W, R, q, part)
<1>1. /\ w.text \in Seq(Chars) /\ w.closed \in BOOLEAN /\ r.closed \in BOOLEAN /\ r.items \in Seq(Item)
      /\ w = WordAt(W, q)
  BY GrammarTyped
<1>2. rest.items = first \o r.items /\ rest.closed = (w.closed /\ r.closed)
  BY DEF WordRest, WordFirst
<1>3. first \o r.items \in Seq(Item) \ {<< >>}
  <2>1. part \o W[q].text \in Seq(Chars)
    BY <1>1, ConcatProperties
  <2> DEFINE item == [kind |-> "word", text |-> part \o W[q].text]
  <2>2. item \in Item
    BY <2>1, WordItem
  <2> HIDE DEF item, r
  <2>3. <<item>> \in Seq(Item) /\ <<item>> # << >>
    BY <2>2
  <2>4. <<item>> \o r.items \in Seq(Item) /\ <<item>> \o r.items # << >>
    BY <1>1, <2>3, ConcatProperties, ConcatEqualIffEmpty
  <2>5. QED
    BY <2>4 DEF item
<1>4. ASSUME ~WordStarts(q)
      PROVE  /\ StartsWith(rest.items, [kind |-> "word", text |-> part], R[q].items)
             /\ ClosesAs(rest, R[q])
  <2>1. w = [text |-> << >>, next |-> q, closed |-> TRUE]
    BY <1>1, <1>4 DEF WordAt, WordStarts
  <2>2. w.text = << >> /\ w.next = q /\ w.closed = TRUE
    BY <2>1
  <2>3. part \o << >> = part
    BY ConcatEmptySeq
  <2>4. QED
    BY <1>1, <1>2, <2>2, <2>3 DEF StartsWith, ClosesAs
<1>5. ASSUME WordStarts(q), Piece(q).end = 0 PROVE Unclosed(rest)
  <2>1. w = [text |-> << >>, next |-> Len(line) + 1, closed |-> FALSE]
    BY <1>1, <1>5 DEF WordAt, WordStarts
  <2>2. w.closed = FALSE
    BY <2>1
  <2>3. QED
    BY <1>2, <2>2 DEF Unclosed
<1>6. QED
  BY <1>2, <1>3, <1>4, <1>5

LEMMA WordEnded ==
    ASSUME line \in Seq(Chars), NEW W, NEW R, IsGrammar(W, R),
           NEW q \in 1 .. Len(line) + 1, ~WordStarts(q), NEW part \in Seq(Chars),
           NEW item, item = [kind |-> "word", text |-> part],
           NEW rest, rest = WordRest(W, R, q, part)
    PROVE  StartsWith(rest.items, item, R[q].items) /\ ClosesAs(rest, R[q])
BY WordRead

\* A line that begins with a blank, an operator or a word, and an empty one.
LEMMA LineRead ==
    ASSUME line \in Seq(Chars), NEW W, NEW R, IsGrammar(W, R), NEW q \in 1 .. Len(line) + 1
    PROVE  /\ q > Len(line) => R[q].items = << >> /\ R[q].closed = TRUE
           /\ ~(q > Len(line)) /\ line[q] = Blank =>
                 R[q].items = R[q + 1].items /\ ClosesAs(R[q], R[q + 1])
           /\ ~(q > Len(line)) /\ line[q] \in Ops =>
                 /\ StartsWith(R[q].items, [kind |-> line[q], text |-> << >>], R[q + 1].items)
                 /\ ClosesAs(R[q], R[q + 1])
           /\ WordStarts(q) => R[q] = WordRest(W, R, q, << >>)
<1>1. R[q] = LineAt(W, R, q)
  BY GrammarTyped
<1>2. Blank \notin Ops
  BY DEF Blank, Ops
<1>3. CASE q > Len(line)
  <2>1. R[q] = [items |-> << >>, closed |-> TRUE]
    BY <1>1, <1>3 DEF LineAt
  <2>2. R[q].items = << >> /\ R[q].closed = TRUE
    BY <2>1
  <2>3. QED
    BY <1>3, <2>2 DEF WordStarts
<1>4. CASE ~(q > Len(line)) /\ line[q] = Blank
  BY <1>1, <1>2, <1>4 DEF LineAt, WordStarts, ClosesAs
<1>5. CASE ~(q > Len(line)) /\ line[q] \in Ops
  <2>1. R[q] = [R[q + 1] EXCEPT !.items = <<[kind |-> line[q], text |-> << >>]>> \o @]
    BY <1>1, <1>2, <1>5 DEF LineAt
  <2>2. R[q + 1] \in LineReading
    <3>1. q + 1 \in 1 .. Len(line) + 1
      <4>1. Len(line) \in Nat
        BY LenProperties
      <4>2. QED
        BY <1>5, <4>1
    <3>2. QED
      BY <3>1 DEF IsGrammar
  <2> DEFINE r == R[q + 1]
  <2> HIDE DEF r
  <2>3. /\ R[q].items = <<[kind |-> line[q], text |-> << >>]>> \o r.items
        /\ R[q].closed = r.closed
    BY <2>1, <2>2 DEF LineReading, r
  <2>4. QED
    BY <1>2, <1>5, <2>3 DEF WordStarts, StartsWith, ClosesAs, r
<1>6. CASE WordStarts(q)
  <2>1. R[q] = WordFirst(W[q].text, W[q], R[W[q].next])
    BY <1>1, <1>6 DEF LineAt, WordStarts
  <2>2. << >> \o W[q].text = W[q].text
    BY GrammarTyped, ConcatEmptySeq
  <2>3. QED
    BY <1>2, <1>6, <2>1, <2>2 DEF WordRest, WordStarts
<1>7. QED
  BY <1>3, <1>4, <1>5, <1>6 DEF WordStarts

\* An item read goes over to those there are.
LEMMA ItemRead ==
    ASSUME NEW R, NEW items \in Seq(Item), NEW item \in Item, NEW v, v.items \in Seq(Item),
           NEW r, StartsWith(r.items, item, v.items), ClosesAs(r, v), Reads(R, items, r)
    PROVE  Reads(R, Append(items, item), v) /\ r.items # << >> /\ r.items \in Seq(Item)
<1>1. R[1].items = items \o (<<item>> \o v.items) /\ R[1].closed = v.closed
  BY DEF Reads, StartsWith, ClosesAs
<1>2. <<item>> \in Seq(Item) /\ <<item>> # << >>
  OBVIOUS
<1>3. items \o (<<item>> \o v.items) = (items \o <<item>>) \o v.items
  BY <1>2, RegroupItems
<1>4. items \o <<item>> = Append(items, item)
  BY AppendIsConcat
<1>5. r.items # << >> /\ r.items \in Seq(Item)
  BY <1>2, ConcatEqualIffEmpty, ConcatProperties DEF StartsWith
<1>6. QED
  BY <1>1, <1>3, <1>4, <1>5 DEF Reads

\* There are more items than those there are already, if something follows.
LEMMA MoreItems ==
    ASSUME NEW R, NEW items \in Seq(Item), NEW r, r.items \in Seq(Item) \ {<< >>}, Reads(R, items, r),
           NEW m \in Nat, Len(items) >= m
    PROVE  Len(R[1].items) > m
<1>1. Len(r.items) \in Nat \ {0} /\ Len(items) \in Nat
  BY EmptySeq, LenProperties
<1>2. Len(R[1].items) = Len(items) + Len(r.items)
  BY ConcatProperties DEF Reads
<1>3. QED
  BY <1>1, <1>2

\* Amid a word: outside of quotes, behind a backslash there, and inside of quotes that
\* were opened at q.
Unquoted(s) == ~s.in_single /\ ~s.in_double /\ ~s.escape

AfterEscape(s, k, q) ==
    /\ ~s.in_single /\ ~s.in_double /\ s.escape
    /\ q = k /\ q \in 1 .. Len(line) /\ line[q] = "\\"

InQuotes(s, k, q) ==
    /\ q \in 1 .. k /\ k <= Len(line) /\ line[q] \in Quotes
    /\ s.in_single <=> line[q] = "'"
    /\ s.in_double <=> line[q] = "\""
    /\ s.escape <=> line[q] = "\"" /\ Escaped(k + 1, q + 1)
    /\ Open(q, k + 1)

\* The scanner behind k characters: the grammar reads the items it has, and
\* then, amid a word, the rest of that.
Amid(W, R, s, k, q, part) ==
    /\ Reads(R, Items(s), WordRest(W, R, q, part))
    /\ \/ Unquoted(s) /\ q = k + 1 /\ Current(s) = part
       \/ AfterEscape(s, k, q) /\ Current(s) = part
       \/ InQuotes(s, k, q) /\ Current(s) = part \o Quoted(q, k + 1)

Agrees(W, R, s, k) ==
    /\ Within(s)
    /\ ~s.in_token => Reads(R, Items(s), R[k + 1])
    /\ s.in_token => \E q \in 1 .. Len(line) + 1, part \in Seq(Chars) : Amid(W, R, s, k, q, part)

\* The line has more items than there may be tokens.
TooMany(R) == Len(R[1].items) > MaxTokens

LEMMA SameBuffer ==
    ASSUME NEW s, NEW t, t.parsed = s.parsed, t.tokens = s.tokens, Within(s)
    PROVE  Items(t) = Items(s) /\ Within(t) /\ (t.start = s.start => Current(t) = Current(s))
BY DEF Items, ItemOf, Text, Within, Current

LEMMA TiledText ==
    ASSUME NEW s, Tiled(s), Within(s)
    PROVE  /\ s \in Scanner /\ Items(s) \in Seq(Item) /\ Len(Items(s)) = Len(s.tokens)
           /\ s.in_token => s.start <= Len(s.parsed) /\ Current(s) \in Seq(Chars)
<1>1. s \in Scanner /\ (s.in_token => s.start <= Len(s.parsed))
  BY DEF Tiled
<1>2. QED
  BY <1>1, ItemsFacts, CurrentText

LEMMA CharPushed ==
    ASSUME NEW s, Tiled(s), Within(s), s.in_token, s.error = "", NEW c \in Chars,
           NEW t, t = PushChar(s, c), t.error = ""
    PROVE  /\ Items(t) = Items(s) /\ Within(t) /\ Current(t) = Append(Current(s), c)
           /\ t.in_token
           /\ t.in_single = s.in_single /\ t.in_double = s.in_double /\ t.escape = s.escape
<1>1. s \in Scanner /\ s.start <= Len(s.parsed)
  BY TiledText
<1>2. t \in Scanner /\ IsPushed(t, s, c)
  BY <1>1, PushCharFields
<1>3. ~(Len(s.parsed) >= MaxParsed)
  BY <1>2 DEF IsPushed
<1>4. /\ t.tokens = s.tokens /\ t.start = s.start /\ t.parsed = Append(s.parsed, c)
      /\ t.in_token = TRUE
      /\ t.in_single = s.in_single /\ t.in_double = s.in_double /\ t.escape = s.escape
  BY <1>2, <1>3 DEF IsPushed
<1>5. QED
  BY <1>1, <1>2, <1>4, ItemsPushed

LEMMA AmidUnquoted ==
    ASSUME NEW W, NEW R, NEW s, NEW k, Agrees(W, R, s, k), s.in_token, Unquoted(s)
    PROVE  Reads(R, Items(s), WordRest(W, R, k + 1, Current(s)))
<1>1. PICK q \in 1 .. Len(line) + 1, part \in Seq(Chars) : Amid(W, R, s, k, q, part)
  BY DEF Agrees
<1>2. ~AfterEscape(s, k, q) /\ ~InQuotes(s, k, q)
  BY DEF AfterEscape, InQuotes, Unquoted, Quotes
<1>3. QED
  BY <1>1, <1>2 DEF Amid

LEMMA Places1 ==
    /\ \A m \in Nat : m + 1 \in Int /\ m \in Int /\ m < m + 1 /\ m <= m /\ 0 <= m
    /\ 0 + 1 \in Int /\ 0 + 0 \in Int /\ 0 + 0 < 0 + 1 /\ 0 + 0 = 0
OBVIOUS

LEMMA OneItem == \A x \in Item : <<x>> \in Seq(Item) /\ <<x>> # << >>
OBVIOUS

\* A word begins, or goes on outside of quotes.
LEMMA BeginAgrees ==
    ASSUME line \in Seq(Chars), NEW W, NEW R, IsGrammar(W, R), NEW k, NEW q \in 1 .. Len(line) + 1, q = k + 1,
           NEW s, Tiled(s), s.error = "", Unquoted(s), Agrees(W, R, s, k), WordStarts(q),
           NEW b, b = BeginWord(s)
    PROVE  /\ Tiled(b) /\ b.error = "" /\ b.in_token /\ Unquoted(b) /\ Within(b)
           /\ Current(b) \in Seq(Chars)
           /\ Reads(R, Items(b), WordRest(W, R, q, Current(b)))
<1>1. Tiled(b) /\ b.error = "" /\ b.in_token
  BY BeginWordTiles
<1>2. CASE s.in_token
  <2>1. b = s
    BY <1>2 DEF BeginWord
  <2>2. QED
    BY <1>1, <1>2, <2>1, AmidUnquoted, TiledText DEF Agrees
<1>3. CASE ~s.in_token
  <2>1. b = [s EXCEPT !.start = Len(s.parsed), !.in_token = TRUE] /\ s \in Scanner
    BY <1>3 DEF BeginWord, Tiled
  <2>2. /\ b.parsed = s.parsed /\ b.tokens = s.tokens /\ b.start = Len(b.parsed)
        /\ b.in_single = s.in_single /\ b.in_double = s.in_double /\ b.escape = s.escape
    BY <2>1 DEF Scanner
  <2>3. Within(s) /\ Reads(R, Items(s), R[q])
    BY <1>3 DEF Agrees
  <2>4. Items(b) = Items(s) /\ Within(b)
    BY <2>2, <2>3, SameBuffer
  <2>5. Current(b) = << >> /\ << >> \in Seq(Chars)
    <3>1. Len(b.parsed) \in Nat
      BY <1>1, ScannerFacts DEF Tiled
    <3>2. SubSeq(b.parsed, Len(b.parsed) + 1, Len(b.parsed)) = << >>
      BY <3>1, Places1, SubSeqEmpty
    <3>3. QED
      BY <2>2, <3>2, EmptySeq DEF Current
  <2>6. R[q] = WordRest(W, R, q, << >>)
    BY LineRead
  <2>7. QED
    BY <1>1, <2>2, <2>3, <2>4, <2>5, <2>6 DEF Unquoted
<1>4. QED
  BY <1>2, <1>3

\* A word ends.
LEMMA EndAgrees ==
    ASSUME line \in Seq(Chars), NEW W, NEW R, IsGrammar(W, R), NEW k, NEW q \in 1 .. Len(line) + 1, q = k + 1,
           NEW s, Tiled(s), s.error = "", Unquoted(s), Agrees(W, R, s, k), ~WordStarts(q),
           NEW t, t = EndWord(s)
    PROVE  /\ t.error = "" => ~t.in_token /\ Within(t) /\ Reads(R, Items(t), R[q])
           /\ t.error # "" => TooMany(R)
<1>1. Within(s) /\ s \in Scanner
  BY DEF Agrees, Tiled
<1>2. CASE ~s.in_token
  <2>1. t = s
    BY <1>2 DEF EndWord
  <2>2. QED
    BY <1>2, <2>1 DEF Agrees
<1>3. CASE s.in_token
  <2> DEFINE len == Len(s.parsed) - s.start
             token == [kind |-> "word", start |-> s.start, len |-> len]
             p == PushToken(s, "word", s.start, len)
             item == [kind |-> "word", text |-> Current(s)]
             rest == WordRest(W, R, q, Current(s))
  <2>1. s.start \in Nat /\ Len(s.parsed) \in Nat /\ s.start <= Len(s.parsed) /\ Current(s) \in Seq(Chars)
    BY <1>1, <1>3, ScannerFacts, TiledText
  <2>2. len \in Nat /\ s.start + len = Len(s.parsed)
    BY <2>1, Lengths, Zenon
  <2>3. Reads(R, Items(s), rest)
    BY <1>3, AmidUnquoted
  <2>4. rest.items \in Seq(Item) \ {<< >>}
    BY <2>1, WordRead
  <2>5. StartsWith(rest.items, item, R[q].items) /\ ClosesAs(rest, R[q])
    <3>1. item = [kind |-> "word", text |-> Current(s)] /\ rest = WordRest(W, R, q, Current(s))
      OBVIOUS
    <3> HIDE DEF item, rest
    <3>2. QED
      BY <2>1, <3>1, WordEnded
  <2>6. t = IF p.error # "" THEN p ELSE [p EXCEPT !.in_token = FALSE]
    BY <1>3, Zenon DEF EndWord
  <2> HIDE DEF len
  <2>7. p \in Scanner /\ IsTokenPushed(p, s, token) /\ token \in Token
    BY <1>1, <2>1, <2>2, PushTokenFields DEF Token
  <2>8. token.kind = "word" /\ token.start = s.start /\ token.len = len
    OBVIOUS
  <2>9. Items(s) \in Seq(Item) /\ Len(Items(s)) = Len(s.tokens) /\ Len(s.tokens) \in Nat
    BY <1>1, TiledText, ScannerFacts
  <2>10. item \in Item /\ R[q].items \in Seq(Item)
    BY <2>1, WordItem, GrammarTyped
  <2> HIDE DEF token
  <2>11. ItemOf(s, token) = item
    BY <2>2, <2>8 DEF ItemOf, Text, Current
  <2> HIDE DEF p, item, rest
  <2>12. token.start + token.len <= Len(s.parsed)
    <3>1. token.start + token.len = Len(s.parsed)
      BY <2>2, <2>8
    <3>2. QED
      BY <2>1, <3>1, Places1
  <2>13. CASE Len(s.tokens) >= MaxTokens
    <3>1. p.error = "too many tokens"
      BY <2>7, <2>13 DEF IsTokenPushed
    <3>2. t.error # ""
      BY <2>6, <3>1
    <3>3. Len(R[1].items) > MaxTokens
      BY <2>3, <2>4, <2>9, <2>13, MoreItems, TokenizerSizes
    <3>4. QED
      BY <3>2, <3>3 DEF TooMany
  <2>14. CASE ~(Len(s.tokens) >= MaxTokens)
    <3>1. p.tokens = Append(s.tokens, token) /\ p.error = "" /\ p.parsed = s.parsed
      BY <2>7, <2>14 DEF IsTokenPushed
    <3>2. t = [p EXCEPT !.in_token = FALSE]
      BY <2>6, <3>1
    <3>3. t \in Scanner /\ t.tokens = Append(s.tokens, token) /\ t.parsed = s.parsed /\ ~t.in_token /\ t.error = ""
      BY <2>7, <3>1, <3>2 DEF Scanner
    <3>4. Items(t) = Append(Items(s), item) /\ Within(t)
      BY <1>1, <2>7, <2>11, <2>12, <3>3, ItemsAppended
    <3>5. Reads(R, Items(t), R[q])
      <4>1. Reads(R, Append(Items(s), item), R[q])
        BY <2>3, <2>5, <2>9, <2>10, ItemRead
      <4>2. QED
        BY <3>4, <4>1
    <3>6. QED
      BY <3>3, <3>4, <3>5
  <2>15. QED
    BY <2>13, <2>14
<1>4. QED
  BY <1>2, <1>3

\* An operator stands between words.
Broken(R, t, n) ==
    /\ t.error = "" => ~t.in_token /\ Within(t) /\ Reads(R, Items(t), R[n])
    /\ t.error # "" => TooMany(R) /\ t.error = "too many tokens"

OperatorAt(op, q) == ~(q > Len(line)) /\ op \in Ops /\ line[q] = op

LEMMA OperatorAgrees ==
    ASSUME line \in Seq(Chars), NEW W, NEW R, IsGrammar(W, R),
           NEW q \in 1 .. Len(line) + 1, NEW n \in 1 .. Len(line) + 1, n = q + 1, NEW op, OperatorAt(op, q),
           NEW s, Tiled(s), s.error = "", ~s.in_token, Within(s), Reads(R, Items(s), R[q]),
           NEW t, t = PushToken(s, op, 0, 0)
    PROVE  Broken(R, t, n)
<1>0. ~(q > Len(line)) /\ op \in Ops /\ line[q] = op
  BY DEF OperatorAt
<1> DEFINE token == [kind |-> op, start |-> 0, len |-> 0]
           item == [kind |-> op, text |-> << >>]
           rest == R[n]
<1>1. /\ s \in Scanner /\ Items(s) \in Seq(Item) /\ Len(Items(s)) = Len(s.tokens)
      /\ Len(s.tokens) \in Nat /\ Len(s.parsed) \in Nat
  BY TiledText, ScannerFacts
<1>2. t \in Scanner /\ IsTokenPushed(t, s, token) /\ token \in Token
  BY <1>0, <1>1, PushTokenFields DEF Token
<1>3. StartsWith(R[q].items, item, rest.items) /\ ClosesAs(R[q], rest)
  BY <1>0, LineRead
<1>4. item \in Item
  <2>1. << >> \in Seq(Chars)
    BY EmptySeq
  <2>2. QED
    BY <1>0, <2>1 DEF Item
<1>5. rest.items \in Seq(Item) /\ R[q].items \in Seq(Item)
  BY GrammarTyped
<1>6. token.kind = op /\ token.start = 0 /\ token.len = 0
  OBVIOUS
<1> HIDE DEF token, item, rest
<1>7. ItemOf(s, token) = item
  <2>1. SubSeq(s.parsed, 0 + 1, 0 + 0) = << >>
    BY SubSeqEmpty, Places1
  <2>2. QED
    BY <1>6, <2>1 DEF ItemOf, Text, item
<1>8. token.start + token.len <= Len(s.parsed)
  BY <1>1, <1>6, Places1
<1>9. Reads(R, Append(Items(s), item), rest) /\ R[q].items # << >>
  BY <1>1, <1>3, <1>4, <1>5, ItemRead
<1>10. CASE Len(s.tokens) >= MaxTokens
  <2>1. t.error = "too many tokens"
    BY <1>2, <1>10 DEF IsTokenPushed
  <2>2. Len(R[1].items) > MaxTokens
    BY <1>1, <1>5, <1>9, <1>10, MoreItems, TokenizerSizes
  <2>3. QED
    BY <2>1, <2>2 DEF TooMany, Broken
<1>11. CASE ~(Len(s.tokens) >= MaxTokens)
  <2>1. t.tokens = Append(s.tokens, token) /\ t.error = "" /\ t.parsed = s.parsed /\ ~t.in_token
    BY <1>2, <1>11 DEF IsTokenPushed
  <2>2. Items(t) = Append(Items(s), item) /\ Within(t)
    BY <1>1, <1>2, <1>7, <1>8, <2>1, ItemsAppended
  <2>3. QED
    BY <1>9, <2>1, <2>2 DEF rest, Broken
<1>12. QED
  BY <1>10, <1>11

-----------------------------------------------------------------------------
(* Character by character.                                                  *)

LEMMA ReadsSame ==
    ASSUME NEW R, NEW items, NEW r, NEW v, Reads(R, items, r), v.items = r.items, ClosesAs(r, v)
    PROVE  Reads(R, items, v)
BY DEF Reads, ClosesAs

\* The next character of a line, and where a quote before it was opened.
NextAt(k, q) ==
    /\ Len(line) \in Nat /\ q = k + 1 /\ q \in 1 .. Len(line) /\ q \in 1 .. Len(line) + 1 /\ q + 1 \in 1 .. Len(line) + 1
    /\ ~(q > Len(line)) /\ q < q + 1 /\ q <= Len(line) /\ q \in 1 .. q /\ q # 0
    /\ \A p \in 1 .. k : p \in 1 .. Len(line) /\ q \in p + 1 .. Len(line) /\ p \in 1 .. q
                         /\ q \in p + 1 .. Len(line) + 1 /\ ~(p > Len(line)) /\ p < Len(line)
    /\ line[q] \in Chars

LEMMA StepPlaces ==
    \A m \in Nat : \A k \in 0 .. m - 1 : \A q : q = k + 1 =>
        /\ q \in 1 .. m /\ q \in 1 .. m + 1 /\ q + 1 \in 1 .. m + 1
        /\ ~(q > m) /\ q < q + 1 /\ q <= m /\ q \in 1 .. q /\ q # 0
        /\ \A p \in 1 .. k : /\ p \in 1 .. m /\ q \in p + 1 .. m /\ p \in 1 .. q /\ q \in p + 1 .. m + 1
                             /\ ~(p > m) /\ p < m
OBVIOUS

LEMMA NextPlaceOfLine ==
    ASSUME line \in Seq(Chars), NEW k \in 0 .. Len(line) - 1, NEW q, q = k + 1
    PROVE  NextAt(k, q)
<1>1. Len(line) \in Nat
  BY LenProperties
<1>2. /\ q \in 1 .. Len(line) /\ q \in 1 .. Len(line) + 1 /\ q + 1 \in 1 .. Len(line) + 1
      /\ ~(q > Len(line)) /\ q < q + 1 /\ q <= Len(line) /\ q \in 1 .. q /\ q # 0
      /\ \A p \in 1 .. k : p \in 1 .. Len(line) /\ q \in p + 1 .. Len(line) /\ p \in 1 .. q
                           /\ q \in p + 1 .. Len(line) + 1 /\ ~(p > Len(line)) /\ p < Len(line)
  BY <1>1, StepPlaces
<1>3. line[q] \in Chars
  BY <1>2, ElementOfSeq
<1>4. QED
  BY <1>1, <1>2, <1>3 DEF NextAt

\* What a character must bring about.
Stepped(W, R, t, q) ==
    /\ t.error = "" => Agrees(W, R, t, q)
    /\ t.error = "too many tokens" => TooMany(R)
    /\ t.error \notin ScanErrors

\* A record with the quoting changed has the same words.
LEMMA Requoted ==
    ASSUME NEW s, Tiled(s), Within(s), s.in_token, NEW b \in BOOLEAN,
           NEW t, t \in {[s EXCEPT !.escape = b], [s EXCEPT !.in_single = b], [s EXCEPT !.in_double = b]}
    PROVE  /\ Tiled(t) /\ Within(t) /\ t.in_token /\ t.error = s.error
           /\ Items(t) = Items(s) /\ Current(t) = Current(s)
           /\ t = [s EXCEPT !.escape = b] =>
                 t.escape = b /\ t.in_single = s.in_single /\ t.in_double = s.in_double
           /\ t = [s EXCEPT !.in_single = b] =>
                 t.escape = s.escape /\ t.in_single = b /\ t.in_double = s.in_double
           /\ t = [s EXCEPT !.in_double = b] =>
                 t.escape = s.escape /\ t.in_single = s.in_single /\ t.in_double = b
<1>1. s \in Scanner
  BY DEF Tiled
<1>2. /\ t.parsed = s.parsed /\ t.tokens = s.tokens /\ t.start = s.start /\ t.in_token = s.in_token
      /\ t.error = s.error
  BY <1>1 DEF Scanner
<1>3. Items(t) = Items(s) /\ Within(t) /\ Current(t) = Current(s)
  BY <1>2, SameBuffer
<1>4. Tiled(t)
  BY QuotingTiles
<1>5. /\ t = [s EXCEPT !.escape = b] =>
            t.escape = b /\ t.in_single = s.in_single /\ t.in_double = s.in_double
      /\ t = [s EXCEPT !.in_single = b] =>
            t.escape = s.escape /\ t.in_single = b /\ t.in_double = s.in_double
      /\ t = [s EXCEPT !.in_double = b] =>
            t.escape = s.escape /\ t.in_single = s.in_single /\ t.in_double = b
  BY <1>1 DEF Scanner
<1>6. QED
  BY <1>2, <1>3, <1>4, <1>5

\* A character is pushed: the only error is one that isn't about tokens.
LEMMA PushStepped ==
    ASSUME NEW W, NEW R, NEW q, NEW s, Tiled(s), s.in_token, s.error = "", NEW c \in Chars,
           NEW t, t = PushChar(s, c), t.error = "" => Agrees(W, R, t, q)
    PROVE  Stepped(W, R, t, q)
<1>1. t.error \in {"", "line too long"}
  BY PushCharTiles
<1>2. QED
  BY <1>1 DEF Stepped, ScanErrors

\* Outside of quotes, behind a piece that has just ended.
LEMMA PieceOver ==
    ASSUME line \in Seq(Chars), NEW W, NEW R, IsGrammar(W, R),
           NEW p \in 1 .. Len(line), WordStarts(p), NEW q, q # 0, Piece(p).end = q,
           NEW part \in Seq(Chars), NEW items, Reads(R, items, WordRest(W, R, p, part)),
           NEW t, t.in_token, Unquoted(t), Within(t), Items(t) = items, Current(t) = part \o Piece(p).text
    PROVE  Agrees(W, R, t, q)
<1>1. /\ q + 1 \in 1 .. Len(line) + 1 /\ part \o Piece(p).text \in Seq(Chars)
      /\ WordRest(W, R, p, part) = WordRest(W, R, q + 1, part \o Piece(p).text)
  BY PieceRead
<1>2. Reads(R, Items(t), WordRest(W, R, q + 1, Current(t))) /\ Current(t) \in Seq(Chars)
  BY <1>1
<1>3. Amid(W, R, t, q, q + 1, Current(t))
  BY <1>2 DEF Amid
<1>4. QED
  BY <1>1, <1>2, <1>3 DEF Agrees

\* Behind a backslash outside of quotes.
LEMMA EscapeStep ==
    ASSUME line \in Seq(Chars), NEW W, NEW R, IsGrammar(W, R), NEW k, NEW q, NextAt(k, q),
           NEW c \in Chars, c = line[q], k \in 1 .. k, line[k] = "\\",
           NEW s, Tiled(s), s.error = "", s.in_token, Within(s), Unquoted(s), Current(s) \in Seq(Chars),
           Reads(R, Items(s), WordRest(W, R, k, Current(s))),
           NEW t, t = PushChar(s, c)
    PROVE  Stepped(W, R, t, q)
<1>1. k \in 1 .. Len(line) /\ ~(k > Len(line)) /\ k < Len(line) /\ k + 1 = q /\ q # 0
  BY DEF NextAt
<1>2. ASSUME t.error = "" PROVE Agrees(W, R, t, q)
  <2>1. /\ Items(t) = Items(s) /\ Within(t) /\ Current(t) = Append(Current(s), c) /\ t.in_token
        /\ t.in_single = s.in_single /\ t.in_double = s.in_double /\ t.escape = s.escape
    BY <1>2, CharPushed, ZenonT(30)
  <2>2. line[k] \notin Quotes /\ WordStarts(k)
    BY <1>1 DEF WordStarts, Quotes, Ops, Blank
  <2>3. Piece(k).end = q /\ Piece(k).text = <<c>>
    BY <1>1, <2>2, OneCharacter
  <2>4. Append(Current(s), c) = Current(s) \o <<c>>
    BY AppendIsConcat
  <2>5. Unquoted(t) /\ Current(t) = Current(s) \o Piece(k).text /\ Items(t) = Items(s)
    BY <2>1, <2>3, <2>4 DEF Unquoted
  <2>6. QED
    BY <1>1, <2>1, <2>2, <2>3, <2>5, PieceOver
<1>3. QED
  BY <1>2, PushStepped

LEMMA AppendBehind ==
    \A x, y \in Seq(Chars) : \A c \in Chars : Append(x \o y, c) = x \o Append(y, c)
<1> SUFFICES ASSUME NEW x \in Seq(Chars), NEW y \in Seq(Chars), NEW c \in Chars
             PROVE  Append(x \o y, c) = x \o Append(y, c)
  OBVIOUS
<1>1. <<c>> \in Seq(Chars) /\ x \o y \in Seq(Chars)
  BY ConcatProperties
<1>2. x \o (y \o <<c>>) = (x \o y) \o <<c>>
  BY <1>1, RegroupText
<1>3. y \o <<c>> = Append(y, c) /\ (x \o y) \o <<c>> = Append(x \o y, c)
  BY <1>1, AppendIsConcat
<1>4. QED
  BY <1>2, <1>3

\* The marks of the quotes opened at p.
QuotedBy(s, p) == (s.in_single <=> line[p] = "'") /\ (s.in_double <=> line[p] = "\"")

LEMMA QuoteStarts ==
    ASSUME NEW k, NEW q, NextAt(k, q), NEW p \in 1 .. k, line[p] \in Quotes
    PROVE  /\ p \in 1 .. Len(line) /\ q \in p + 1 .. Len(line) /\ p \in 1 .. q /\ q # 0 /\ q <= Len(line)
           /\ q \in p + 1 .. Len(line) + 1 /\ p \in 1 .. Len(line) + 1 /\ WordStarts(p)
<1>1. /\ p \in 1 .. Len(line) /\ q \in p + 1 .. Len(line) /\ p \in 1 .. q /\ q # 0 /\ q <= Len(line)
      /\ q \in p + 1 .. Len(line) + 1 /\ ~(p > Len(line))
  BY DEF NextAt
<1>2. \A m \in Nat : \A i \in 1 .. m : i \in 1 .. m + 1
  OBVIOUS
<1>3. p \in 1 .. Len(line) + 1
  <2>1. Len(line) \in Nat
    BY DEF NextAt
  <2>2. QED
    BY <1>1, <1>2, <2>1
<1>4. line[p] \notin Ops \cup {Blank}
  BY DEF Quotes, Ops, Blank
<1>5. QED
  BY <1>1, <1>3, <1>4 DEF WordStarts

\* The quote that closes.
LEMMA QuoteCloses ==
    ASSUME line \in Seq(Chars), NEW W, NEW R, IsGrammar(W, R), NEW k, NEW q, NextAt(k, q),
           NEW p \in 1 .. k, line[p] \in Quotes, Open(p, q), Closing(p, q), NEW part \in Seq(Chars),
           NEW t, t.in_token, Within(t), Unquoted(t), Current(t) = part \o Quoted(p, q),
           Reads(R, Items(t), WordRest(W, R, p, part))
    PROVE  Agrees(W, R, t, q)
<1>1. p \in 1 .. Len(line) /\ q \in p + 1 .. Len(line) /\ q # 0 /\ WordStarts(p)
  BY QuoteStarts
<1>2. Piece(p).end = q /\ Piece(p).text = Quoted(p, q)
  BY <1>1, QuotesEnd
<1>3. QED
  BY <1>1, <1>2, PieceOver

\* A backslash between double quotes, which isn't part of the word.
LEMMA QuoteDrops ==
    ASSUME line \in Seq(Chars), NEW W, NEW R, IsGrammar(W, R), NEW k, NEW q, NextAt(k, q),
           NEW p \in 1 .. k, line[p] \in Quotes, Open(p, q), Dropped(p, q), NEW part \in Seq(Chars),
           NEW t, t.in_token, Within(t), QuotedBy(t, p), t.escape, Current(t) = part \o Quoted(p, q),
           Reads(R, Items(t), WordRest(W, R, p, part))
    PROVE  Agrees(W, R, t, q)
<1>1. /\ p \in 1 .. Len(line) /\ q \in p + 1 .. Len(line) /\ p \in 1 .. q /\ q <= Len(line)
      /\ p \in 1 .. Len(line) + 1
  BY QuoteStarts
<1>2. /\ Quoted(p, q + 1) = Quoted(p, q)
      /\ ~Closing(p, q) => Open(p, q + 1)
      /\ Escaped(q + 1, p + 1) <=> line[q] = "\\" /\ ~Escaped(q, p + 1)
  BY <1>1, QuotedNext
<1>3. ~Closing(p, q) /\ line[p] = "\"" /\ line[q] = "\\" /\ ~Escaped(q, p + 1)
  BY DEF Closing, Dropped
<1>4. InQuotes(t, q, p)
  BY <1>1, <1>2, <1>3 DEF InQuotes, QuotedBy
<1>5. Amid(W, R, t, q, p, part)
  BY <1>2, <1>4 DEF Amid
<1>6. QED
  BY <1>1, <1>5 DEF Agrees

\* Any other character between quotes.
LEMMA QuoteGoesOn ==
    ASSUME line \in Seq(Chars), NEW W, NEW R, IsGrammar(W, R), NEW k, NEW q, NextAt(k, q),
           NEW c \in Chars, c = line[q],
           NEW p \in 1 .. k, line[p] \in Quotes, Open(p, q), ~Closing(p, q), ~Dropped(p, q),
           NEW part \in Seq(Chars),
           NEW s, Tiled(s), s.error = "", s.in_token, Within(s), QuotedBy(s, p), ~s.escape,
           Current(s) = part \o Quoted(p, q), Reads(R, Items(s), WordRest(W, R, p, part)),
           NEW t, t = PushChar(s, c)
    PROVE  Stepped(W, R, t, q)
<1>1. /\ p \in 1 .. Len(line) /\ q \in p + 1 .. Len(line) /\ p \in 1 .. q /\ q <= Len(line)
      /\ q \in p + 1 .. Len(line) + 1 /\ p \in 1 .. Len(line) + 1
  BY QuoteStarts
<1>2. /\ Quoted(p, q + 1) = Append(Quoted(p, q), c) /\ Quoted(p, q) \in Seq(Chars)
      /\ Open(p, q + 1)
      /\ Escaped(q + 1, p + 1) <=> line[q] = "\\" /\ ~Escaped(q, p + 1)
  BY <1>1, QuotedNext
<1>3. ~(line[p] = "\"" /\ Escaped(q + 1, p + 1))
  BY <1>2 DEF Dropped
<1>4. ASSUME t.error = "" PROVE Agrees(W, R, t, q)
  <2>1. /\ Items(t) = Items(s) /\ Within(t) /\ Current(t) = Append(Current(s), c) /\ t.in_token
        /\ t.in_single = s.in_single /\ t.in_double = s.in_double /\ t.escape = s.escape
    BY <1>4, CharPushed, ZenonT(30)
  <2>2. Current(t) = part \o Quoted(p, q + 1)
    <3>1. Append(part \o Quoted(p, q), c) = part \o Append(Quoted(p, q), c)
      BY <1>2, AppendBehind
    <3>2. QED
      BY <1>2, <2>1, <3>1
  <2>3. InQuotes(t, q, p)
    BY <1>1, <1>2, <1>3, <2>1 DEF InQuotes, QuotedBy
  <2>4. Amid(W, R, t, q, p, part)
    BY <2>1, <2>2, <2>3 DEF Amid
  <2>5. QED
    BY <1>1, <2>1, <2>4 DEF Agrees
<1>5. QED
  BY <1>4, PushStepped

\* The next character inside of quotes.
LEMMA QuoteStep ==
    ASSUME line \in Seq(Chars), NEW W, NEW R, IsGrammar(W, R), NEW k, NEW q, NextAt(k, q),
           NEW c \in Chars, c = line[q],
           NEW p, NEW part \in Seq(Chars),
           NEW s, Tiled(s), s.error = "", s.in_token, Within(s), InQuotes(s, k, p),
           Current(s) = part \o Quoted(p, q), Reads(R, Items(s), WordRest(W, R, p, part))
    PROVE  Stepped(W, R, Scanned(s, c), q)
<1>1. /\ p \in 1 .. k /\ line[p] \in Quotes /\ QuotedBy(s, p) /\ Open(p, q)
      /\ s.escape <=> line[p] = "\"" /\ Escaped(q, p + 1)
      /\ s.in_single \/ s.in_double
  BY DEF InQuotes, QuotedBy, NextAt, Quotes
<1>2. CASE s.escape
  <2> DEFINE r == [s EXCEPT !.escape = FALSE]
             t == PushChar(r, c)
  <2>1. Tiled(r) /\ Within(r) /\ r.in_token /\ r.error = "" /\ Items(r) = Items(s) /\ Current(r) = Current(s)
        /\ r.escape = FALSE /\ r.in_single = s.in_single /\ r.in_double = s.in_double
    BY Requoted
  <2>2. Scanned(s, c) = t
    BY <1>2, ScannedCases
  <2>3. t = PushChar(r, c)
    OBVIOUS
  <2> HIDE DEF r, t
  <2>4. ~Closing(p, q) /\ ~Dropped(p, q)
    BY <1>1, <1>2 DEF Closing, Dropped
  <2>5. QuotedBy(r, p)
    BY <1>1, <2>1 DEF QuotedBy
  <2>6. QED
    BY <1>1, <2>1, <2>2, <2>3, <2>4, <2>5, QuoteGoesOn
<1>3. CASE ~s.escape /\ Closing(p, q)
  <2>1. ASSUME NEW t, Within(t), t.in_token, t.error = s.error, Items(t) = Items(s),
               Current(t) = Current(s), Unquoted(t), Scanned(s, c) = t
        PROVE  Stepped(W, R, Scanned(s, c), q)
    <3>1. Agrees(W, R, t, q)
      BY <1>1, <1>3, <2>1, QuoteCloses
    <3>2. QED
      BY <2>1, <3>1 DEF Stepped, ScanErrors
  <2>2. CASE s.in_single
    <3> DEFINE t == [s EXCEPT !.in_single = FALSE]
    <3>1. Scanned(s, c) = t
      BY <1>1, <1>3, <2>2, ScannedCases DEF Closing, QuotedBy
    <3>2. /\ Within(t) /\ t.in_token /\ t.error = s.error /\ Items(t) = Items(s) /\ Current(t) = Current(s)
          /\ t.escape = s.escape /\ t.in_single = FALSE /\ t.in_double = s.in_double
      BY Requoted
    <3> HIDE DEF t
    <3>3. Unquoted(t)
      BY <1>1, <1>3, <2>2, <3>2 DEF Unquoted, QuotedBy
    <3>4. QED
      BY <2>1, <3>1, <3>2, <3>3
  <2>3. CASE ~s.in_single
    <3> DEFINE t == [s EXCEPT !.in_double = FALSE]
    <3>1. Scanned(s, c) = t
      BY <1>1, <1>3, <2>3, ScannedCases DEF Closing, QuotedBy
    <3>2. /\ Within(t) /\ t.in_token /\ t.error = s.error /\ Items(t) = Items(s) /\ Current(t) = Current(s)
          /\ t.escape = s.escape /\ t.in_single = s.in_single /\ t.in_double = FALSE
      BY Requoted
    <3> HIDE DEF t
    <3>3. Unquoted(t)
      BY <1>1, <1>3, <2>3, <3>2 DEF Unquoted, QuotedBy
    <3>4. QED
      BY <2>1, <3>1, <3>2, <3>3
  <2>4. QED
    BY <2>2, <2>3
<1>4. CASE ~s.escape /\ ~Closing(p, q) /\ Dropped(p, q)
  <2> DEFINE t == [s EXCEPT !.escape = TRUE]
  <2>1. Scanned(s, c) = t
    BY <1>1, <1>4, ScannedCases DEF Dropped, QuotedBy
  <2>2. /\ Within(t) /\ t.in_token /\ t.error = s.error /\ Items(t) = Items(s) /\ Current(t) = Current(s)
        /\ t.escape = TRUE /\ t.in_single = s.in_single /\ t.in_double = s.in_double
    BY Requoted
  <2> HIDE DEF t
  <2>3. QuotedBy(t, p)
    BY <1>1, <2>2 DEF QuotedBy
  <2>4. Agrees(W, R, t, q)
    BY <1>1, <1>4, <2>2, <2>3, QuoteDrops
  <2>5. QED
    BY <2>1, <2>2, <2>4 DEF Stepped, ScanErrors
<1>5. CASE ~s.escape /\ ~Closing(p, q) /\ ~Dropped(p, q)
  <2>1. Scanned(s, c) = PushChar(s, c)
    <3>1. CASE s.in_single
      <4>1. c # "'"
        BY <1>1, <1>5, <3>1 DEF Closing, QuotedBy
      <4>2. QED
        BY <1>5, <3>1, <4>1, ScannedCases
    <3>2. CASE ~s.in_single
      <4>1. s.in_double /\ c # "\"" /\ c # "\\"
        BY <1>1, <1>5, <3>2 DEF Closing, Dropped, QuotedBy
      <4>2. QED
        BY <1>5, <3>2, <4>1, ScannedCases
    <3>3. QED
      BY <3>1, <3>2
  <2>2. QED
    BY <1>1, <1>5, <2>1, QuoteGoesOn
<1>6. QED
  BY <1>2, <1>3, <1>4, <1>5

LEMMA LastOfItsRange == \A m \in Nat : \A i \in 1 .. m : i \in 1 .. i
OBVIOUS

\* A quote outside of quotes opens them.
LEMMA QuoteOpens ==
    ASSUME line \in Seq(Chars), NEW W, NEW R, NEW k, NEW q, NextAt(k, q), line[q] \in Quotes,
           NEW t, t.in_token, Within(t), QuotedBy(t, q), ~t.escape, Current(t) \in Seq(Chars),
           Reads(R, Items(t), WordRest(W, R, q, Current(t)))
    PROVE  Agrees(W, R, t, q)
<1>1. q \in 1 .. Len(line) /\ q \in 1 .. Len(line) + 1 /\ q \in 1 .. q /\ q <= Len(line)
  BY DEF NextAt
<1>2. Quoted(q, q + 1) = << >> /\ Open(q, q + 1) /\ ~Escaped(q + 1, q + 1)
  BY <1>1, QuotedNext
<1>3. InQuotes(t, q, q)
  BY <1>1, <1>2 DEF InQuotes, QuotedBy
<1>4. Current(t) = Current(t) \o << >>
  BY ConcatEmptySeq
<1>5. Amid(W, R, t, q, q, Current(t))
  BY <1>2, <1>3, <1>4 DEF Amid
<1>6. QED
  BY <1>1, <1>5 DEF Agrees

\* A backslash outside of quotes.
LEMMA EscapeOpens ==
    ASSUME NEW W, NEW R, NEW k, NEW q, NextAt(k, q), line[q] = "\\",
           NEW t, t.in_token, Within(t), ~t.in_single, ~t.in_double, t.escape, Current(t) \in Seq(Chars),
           Reads(R, Items(t), WordRest(W, R, q, Current(t)))
    PROVE  Agrees(W, R, t, q)
<1>1. q \in 1 .. Len(line) /\ q \in 1 .. Len(line) + 1
  BY DEF NextAt
<1>2. AfterEscape(t, q, q)
  BY <1>1 DEF AfterEscape
<1>3. Amid(W, R, t, q, q, Current(t))
  BY <1>2 DEF Amid
<1>4. QED
  BY <1>1, <1>3 DEF Agrees

\* Any other character of a word.
LEMMA LetterStep ==
    ASSUME line \in Seq(Chars), NEW W, NEW R, IsGrammar(W, R), NEW k, NEW q, NextAt(k, q), WordStarts(q),
           NEW c \in Chars, c = line[q], c \notin Quotes, c # "\\",
           NEW s, Tiled(s), s.error = "", s.in_token, Within(s), Unquoted(s), Current(s) \in Seq(Chars),
           Reads(R, Items(s), WordRest(W, R, q, Current(s))),
           NEW t, t = PushChar(s, c)
    PROVE  Stepped(W, R, t, q)
<1>1. q \in 1 .. Len(line) /\ q # 0
  BY DEF NextAt
<1>2. ASSUME t.error = "" PROVE Agrees(W, R, t, q)
  <2>1. /\ Items(t) = Items(s) /\ Within(t) /\ Current(t) = Append(Current(s), c) /\ t.in_token
        /\ t.in_single = s.in_single /\ t.in_double = s.in_double /\ t.escape = s.escape
    BY <1>2, CharPushed, ZenonT(30)
  <2>2. Piece(q).end = q /\ Piece(q).text = <<c>>
    BY <1>1, OneCharacter
  <2>3. Append(Current(s), c) = Current(s) \o <<c>>
    BY AppendIsConcat
  <2>4. Unquoted(t) /\ Current(t) = Current(s) \o Piece(q).text /\ Items(t) = Items(s)
    BY <2>1, <2>2, <2>3 DEF Unquoted
  <2>5. QED
    BY <1>1, <2>1, <2>2, <2>4, PieceOver
<1>3. QED
  BY <1>2, PushStepped

\* The next character outside of quotes, where it begins a word or goes on with it.
LEMMA WordStep ==
    ASSUME line \in Seq(Chars), NEW W, NEW R, IsGrammar(W, R), NEW k, NEW q, NextAt(k, q), WordStarts(q),
           NEW c \in Chars, c = line[q],
           NEW s, Tiled(s), s.error = "", Unquoted(s), Agrees(W, R, s, k)
    PROVE  Stepped(W, R, Scanned(s, c), q)
<1> DEFINE b == BeginWord(s)
<1>1. q = k + 1 /\ q \in 1 .. Len(line) + 1 /\ c \notin Ops \cup {Blank}
  BY DEF NextAt, WordStarts
<1>2. b = BeginWord(s)
  OBVIOUS
<1>3. ~s.escape /\ ~s.in_single /\ ~s.in_double
  BY DEF Unquoted
<1> HIDE DEF b
<1>4. /\ Tiled(b) /\ b.error = "" /\ b.in_token /\ Unquoted(b) /\ Within(b) /\ Current(b) \in Seq(Chars)
      /\ Reads(R, Items(b), WordRest(W, R, q, Current(b)))
  BY <1>1, <1>2, BeginAgrees
<1>5. ~b.escape /\ ~b.in_single /\ ~b.in_double
  BY <1>4 DEF Unquoted
<1>6. CASE c = "'"
  <2> DEFINE t == [b EXCEPT !.in_single = TRUE]
  <2>1. Scanned(s, c) = t
    BY <1>2, <1>3, <1>6, ScannedCases
  <2>2. /\ Within(t) /\ t.in_token /\ t.error = b.error /\ Items(t) = Items(b) /\ Current(t) = Current(b)
        /\ t.escape = b.escape /\ t.in_single = TRUE /\ t.in_double = b.in_double
    BY <1>4, Requoted
  <2> HIDE DEF t
  <2>3. QuotedBy(t, q) /\ line[q] \in Quotes
    BY <1>5, <1>6, <2>2 DEF QuotedBy, Quotes
  <2>4. Agrees(W, R, t, q)
    BY <1>4, <1>5, <2>2, <2>3, QuoteOpens
  <2>5. QED
    BY <1>4, <2>1, <2>2, <2>4 DEF Stepped, ScanErrors
<1>7. CASE c = "\""
  <2> DEFINE t == [b EXCEPT !.in_double = TRUE]
  <2>1. Scanned(s, c) = t
    BY <1>2, <1>3, <1>7, ScannedCases
  <2>2. /\ Within(t) /\ t.in_token /\ t.error = b.error /\ Items(t) = Items(b) /\ Current(t) = Current(b)
        /\ t.escape = b.escape /\ t.in_single = b.in_single /\ t.in_double = TRUE
    BY <1>4, Requoted
  <2> HIDE DEF t
  <2>3. QuotedBy(t, q) /\ line[q] \in Quotes
    BY <1>5, <1>7, <2>2 DEF QuotedBy, Quotes
  <2>4. Agrees(W, R, t, q)
    BY <1>4, <1>5, <2>2, <2>3, QuoteOpens
  <2>5. QED
    BY <1>4, <2>1, <2>2, <2>4 DEF Stepped, ScanErrors
<1>8. CASE c = "\\"
  <2> DEFINE t == [b EXCEPT !.escape = TRUE]
  <2>1. Scanned(s, c) = t
    BY <1>2, <1>3, <1>8, ScannedCases
  <2>2. /\ Within(t) /\ t.in_token /\ t.error = b.error /\ Items(t) = Items(b) /\ Current(t) = Current(b)
        /\ t.escape = TRUE /\ t.in_single = b.in_single /\ t.in_double = b.in_double
    BY <1>4, Requoted
  <2> HIDE DEF t
  <2>3. Agrees(W, R, t, q)
    BY <1>4, <1>5, <1>8, <2>2, EscapeOpens
  <2>4. QED
    BY <1>4, <2>1, <2>2, <2>3 DEF Stepped, ScanErrors
<1>9. CASE c \notin Quotes /\ c # "\\"
  <2>1. Scanned(s, c) = PushChar(b, c)
    BY <1>1, <1>2, <1>3, <1>9, ScannedCases DEF Quotes
  <2>2. QED
    BY <1>4, <1>9, <2>1, LetterStep
<1>10. QED
  BY <1>6, <1>7, <1>8, <1>9 DEF Quotes

LEMMA OutsideWords ==
    ASSUME NEW W, NEW R, NEW t, NEW q, ~t.in_token, Within(t), Reads(R, Items(t), R[q + 1])
    PROVE  Agrees(W, R, t, q)
BY DEF Agrees

LEMMA OutsideWordsThen ==
    ASSUME NEW W, NEW R, NEW t, NEW q, NEW n, n = q + 1, ~t.in_token, Within(t), Reads(R, Items(t), R[n])
    PROVE  Agrees(W, R, t, q)
BY DEF Agrees

LEMMA OperatorStep ==
    ASSUME line \in Seq(Chars), NEW W, NEW R, IsGrammar(W, R),
           NEW q \in 1 .. Len(line) + 1, NEW n \in 1 .. Len(line) + 1, n = q + 1, NEW op, OperatorAt(op, q),
           NEW s, Tiled(s), s.error = "", ~s.in_token, Within(s), Reads(R, Items(s), R[q]),
           NEW t, t = PushToken(s, op, 0, 0)
    PROVE  Stepped(W, R, t, q)
<1>1. Broken(R, t, n)
  BY OperatorAgrees
<1>2. t.error = "" => Agrees(W, R, t, q)
  BY <1>1, OutsideWordsThen DEF Broken
<1>3. QED
  BY <1>1, <1>2 DEF Stepped, Broken, ScanErrors

\* A blank or an operator outside of quotes.
LEMMA BreakStep ==
    ASSUME line \in Seq(Chars), NEW W, NEW R, IsGrammar(W, R), NEW k, NEW q, NextAt(k, q), ~WordStarts(q),
           NEW c \in Chars, c = line[q],
           NEW s, Tiled(s), s.error = "", Unquoted(s), Agrees(W, R, s, k)
    PROVE  Stepped(W, R, Scanned(s, c), q)
<1> DEFINE e == EndWord(s)
<1>1. /\ q = k + 1 /\ q \in 1 .. Len(line) + 1 /\ ~(q > Len(line)) /\ q + 1 \in 1 .. Len(line) + 1
      /\ c \in Ops \cup {Blank}
  BY DEF NextAt, WordStarts
<1>2. e = EndWord(s)
  OBVIOUS
<1>3. ~s.escape /\ ~s.in_single /\ ~s.in_double
  BY DEF Unquoted
<1>4. Tiled(e) /\ (e.error = "" => ~e.in_token) /\ e.error \in {"", "too many tokens"}
  BY <1>3, EndWordTiles
<1> HIDE DEF e
<1>5. /\ e.error = "" => ~e.in_token /\ Within(e) /\ Reads(R, Items(e), R[q])
      /\ e.error # "" => TooMany(R)
  BY <1>1, <1>2, EndAgrees
<1>6. CASE c = Blank
  <2>1. Scanned(s, c) = e
    BY <1>2, <1>3, <1>6, ScannedCases
  <2>2. ASSUME e.error = "" PROVE Agrees(W, R, e, q)
    <3>1. R[q].items = R[q + 1].items /\ ClosesAs(R[q], R[q + 1])
      BY <1>1, <1>6, LineRead
    <3>2. Reads(R, Items(e), R[q])
      BY <1>5, <2>2
    <3>3. Reads(R, Items(e), R[q + 1])
      BY <3>1, <3>2, ReadsSame
    <3>4. QED
      BY <1>5, <2>2, <3>3, OutsideWords
  <2>3. QED
    BY <1>4, <1>5, <2>1, <2>2 DEF Stepped, ScanErrors
<1>7. CASE c \in Ops /\ e.error # ""
  <2>1. Scanned(s, c) = e
    BY <1>2, <1>3, <1>7, ScannedCases
  <2>2. QED
    BY <1>4, <1>5, <1>7, <2>1 DEF Stepped, ScanErrors
<1>8. CASE c \in Ops /\ e.error = ""
  <2> DEFINE t == PushToken(e, c, 0, 0)
  <2>1. Scanned(s, c) = t
    BY <1>2, <1>3, <1>8, ScannedCases
  <2>2. t = PushToken(e, c, 0, 0)
    OBVIOUS
  <2> HIDE DEF t
  <2>3. OperatorAt(c, q)
    BY <1>1, <1>8 DEF OperatorAt
  <2>4. Tiled(e) /\ e.error = "" /\ ~e.in_token /\ Within(e) /\ Reads(R, Items(e), R[q])
    BY <1>4, <1>5, <1>8
  <2>5. Stepped(W, R, t, q)
    BY <1>1, <2>2, <2>3, <2>4, OperatorStep
  <2>6. QED
    BY <2>1, <2>5
<1>9. QED
  BY <1>1, <1>6, <1>7, <1>8

\* The scanner keeps up with the grammar, character by character.
LEMMA StepAgrees ==
    ASSUME line \in Seq(Chars), NEW W, NEW R, IsGrammar(W, R), NEW k, NEW q, NextAt(k, q),
           NEW s, Tiled(s), s.error = "", Agrees(W, R, s, k)
    PROVE  Stepped(W, R, Scanned(s, line[q]), q)
<1> DEFINE c == line[q]
<1>1. c \in Chars /\ c = line[q] /\ q = k + 1
  BY DEF NextAt
<1> HIDE DEF c
<1>2. CASE Unquoted(s)
  <2>1. Stepped(W, R, Scanned(s, c), q)
    BY <1>1, <1>2, WordStep, BreakStep
  <2>2. QED
    BY <1>1, <2>1
<1>3. CASE ~Unquoted(s)
  <2>1. s.in_token
    BY <1>3 DEF Tiled, Unquoted
  <2>2. PICK p \in 1 .. Len(line) + 1, part \in Seq(Chars) : Amid(W, R, s, k, p, part)
    BY <2>1 DEF Agrees
  <2>3. Within(s) /\ Reads(R, Items(s), WordRest(W, R, p, part))
    BY <2>2 DEF Agrees, Amid
  <2>4. CASE InQuotes(s, k, p) /\ Current(s) = part \o Quoted(p, k + 1)
    <3>1. Stepped(W, R, Scanned(s, c), q)
      BY <1>1, <2>1, <2>3, <2>4, QuoteStep
    <3>2. QED
      BY <1>1, <3>1
  <2>5. CASE AfterEscape(s, k, p) /\ Current(s) = part
    <3> DEFINE r == [s EXCEPT !.escape = FALSE]
               t == PushChar(r, c)
    <3>1. s.escape /\ ~s.in_single /\ ~s.in_double /\ p = k /\ line[k] = "\\" /\ k \in 1 .. k
      <4>1. k \in 1 .. Len(line) /\ Len(line) \in Nat
        BY <2>5 DEF AfterEscape, NextAt
      <4>2. k \in 1 .. k
        BY <4>1, LastOfItsRange
      <4>3. QED
        BY <2>5, <4>2 DEF AfterEscape
    <3>2. Tiled(r) /\ Within(r) /\ r.in_token /\ r.error = "" /\ Items(r) = Items(s) /\ Current(r) = Current(s)
          /\ r.escape = FALSE /\ r.in_single = s.in_single /\ r.in_double = s.in_double
      BY <2>1, <2>3, Requoted
    <3>3. Scanned(s, c) = t
      BY <3>1, ScannedCases
    <3>4. t = PushChar(r, c)
      OBVIOUS
    <3> HIDE DEF r, t
    <3>5. Unquoted(r) /\ Current(r) \in Seq(Chars) /\ Reads(R, Items(r), WordRest(W, R, k, Current(r)))
      BY <2>3, <2>5, <3>1, <3>2 DEF Unquoted
    <3>6. Stepped(W, R, t, q)
      BY <1>1, <3>1, <3>2, <3>4, <3>5, EscapeStep
    <3>7. QED
      BY <1>1, <3>3, <3>6
  <2>6. QED
    BY <1>3, <2>2, <2>4, <2>5 DEF Amid
<1>4. QED
  BY <1>2, <1>3

-----------------------------------------------------------------------------
(* At the end of the line.                                                  *)

LEMMA EndPlaces ==
    ASSUME line \in Seq(Chars), NEW k, k = Len(line), NEW q, q = k + 1
    PROVE  /\ q \in 1 .. Len(line) + 1 /\ q > Len(line) /\ ~WordStarts(q)
           /\ \A p \in 1 .. k : p \in 1 .. Len(line) /\ p \in 1 .. Len(line) + 1 /\ ~(p > Len(line))
<1>1. \A m \in Nat : /\ m + 1 \in 1 .. m + 1 /\ m + 1 > m
                     /\ \A p \in 1 .. m : p \in 1 .. m + 1 /\ ~(p > m)
  OBVIOUS
<1>2. Len(line) \in Nat
  BY LenProperties
<1>3. QED
  BY <1>1, <1>2 DEF WordStarts

\* A word that never ends.
LEMMA NeverCloses ==
    ASSUME line \in Seq(Chars), NEW W, NEW R, IsGrammar(W, R),
           NEW p \in 1 .. Len(line) + 1, WordStarts(p), Piece(p).end = 0,
           NEW part \in Seq(Chars), NEW items, Reads(R, items, WordRest(W, R, p, part))
    PROVE  Unclosed(R[1])
<1>1. Unclosed(WordRest(W, R, p, part))
  BY WordRead
<1>2. QED
  BY <1>1 DEF Unclosed, Reads

\* What the scanner says of the line, at its end.
Ended(R, t) ==
    /\ t.error \in ScanErrors => Unclosed(R[1])
    /\ t.error = "too many tokens" => TooMany(R)
    /\ t.error = "" => R[1].closed = TRUE /\ R[1].items = Items(t)

LEMMA EndOpen ==
    ASSUME line \in Seq(Chars), NEW W, NEW R, IsGrammar(W, R), NEW k, k = Len(line),
           NEW s, Tiled(s), Agrees(W, R, s, k), ~Unquoted(s)
    PROVE  Unclosed(R[1])
<1>1. s.in_token
  BY DEF Tiled, Unquoted
<1>2. PICK p \in 1 .. Len(line) + 1, part \in Seq(Chars) : Amid(W, R, s, k, p, part)
  BY <1>1 DEF Agrees
<1>3. Reads(R, Items(s), WordRest(W, R, p, part))
  BY <1>2 DEF Amid
<1>4. AfterEscape(s, k, p) \/ InQuotes(s, k, p)
  BY <1>2 DEF Amid
<1>5. p \in 1 .. k
  <2>1. k \in Nat
    BY LenProperties
  <2>2. \A m \in Nat : \A i \in 1 .. m : i = m => i \in 1 .. m
    OBVIOUS
  <2>3. QED
    BY <1>4, <2>1, <2>2 DEF AfterEscape, InQuotes
<1>6. p \in 1 .. Len(line) /\ ~(p > Len(line))
  BY <1>5, EndPlaces
<1>7. CASE AfterEscape(s, k, p)
  <2>1. line[p] = "\\" /\ p = Len(line) /\ line[p] \notin Quotes
    BY <1>7 DEF AfterEscape, Quotes
  <2>2. Piece(p).end = 0
    BY <1>6, <2>1, OneCharacter
  <2>3. WordStarts(p)
    BY <1>6, <2>1 DEF WordStarts, Ops, Blank
  <2>4. QED
    BY <1>3, <2>2, <2>3, NeverCloses
<1>8. CASE InQuotes(s, k, p)
  <2>1. line[p] \in Quotes /\ Open(p, Len(line) + 1)
    BY <1>8 DEF InQuotes
  <2>2. Piece(p).end = 0
    BY <1>6, <2>1, QuotesEnd
  <2>3. WordStarts(p)
    BY <1>6, <2>1 DEF WordStarts, Ops, Blank, Quotes
  <2>4. QED
    BY <1>3, <2>2, <2>3, NeverCloses
<1>9. QED
  BY <1>4, <1>7, <1>8

LEMMA EndClosed ==
    ASSUME line \in Seq(Chars), NEW W, NEW R, IsGrammar(W, R), NEW k, k = Len(line),
           NEW s, Tiled(s), s.error = "", Agrees(W, R, s, k), Unquoted(s),
           NEW t, t = EndWord(s)
    PROVE  Ended(R, t)
<1> DEFINE q == k + 1
<1>1. q = k + 1
  OBVIOUS
<1> HIDE DEF q
<1>2. q \in 1 .. Len(line) + 1 /\ q > Len(line) /\ ~WordStarts(q)
  BY <1>1, EndPlaces
<1>3. /\ t.error = "" => ~t.in_token /\ Within(t) /\ Reads(R, Items(t), R[q])
      /\ t.error # "" => TooMany(R)
  BY <1>1, <1>2, EndAgrees
<1>4. Tiled(t) /\ t.error \in {"", "too many tokens"}
  BY EndWordTiles DEF Unquoted
<1>5. R[q].items = << >> /\ R[q].closed = TRUE
  BY <1>2, LineRead
<1>6. ASSUME t.error = "" PROVE R[1].closed = TRUE /\ R[1].items = Items(t)
  <2>1. Items(t) \in Seq(Item) /\ Reads(R, Items(t), R[q])
    BY <1>3, <1>4, <1>6, TiledText
  <2>2. Items(t) \o << >> = Items(t)
    BY <2>1, ConcatEmptySeq
  <2>3. QED
    BY <1>5, <2>1, <2>2 DEF Reads
<1>7. t.error \notin ScanErrors
  BY <1>4 DEF ScanErrors
<1>8. QED
  BY <1>3, <1>6, <1>7 DEF Ended

LEMMA AtEndAgrees ==
    ASSUME line \in Seq(Chars), NEW W, NEW R, IsGrammar(W, R), NEW k, k = Len(line),
           NEW s, Tiled(s), s.error = "", Agrees(W, R, s, k)
    PROVE  Ended(R, AtEnd(s))
<1>1. CASE Unquoted(s)
  <2>1. AtEnd(s) = EndWord(s)
    BY <1>1 DEF AtEnd, Unquoted
  <2>2. QED
    BY <1>1, <2>1, EndClosed
<1>2. CASE ~Unquoted(s)
  <2>1. Unclosed(R[1])
    BY <1>2, EndOpen
  <2>2. AtEnd(s).error \in ScanErrors
    <3>1. s \in Scanner
      BY DEF Tiled
    <3>2. \A m : Fails(s, m).error = m
      BY <3>1 DEF Fails, Scanner
    <3>3. AtEnd(s) \in {Fails(s, "trailing escape"), Fails(s, "unclosed quote")}
      BY <1>2 DEF AtEnd, Unquoted
    <3>4. QED
      BY <3>2, <3>3 DEF ScanErrors
  <2>3. QED
    BY <2>1, <2>2 DEF Ended, ScanErrors
<1>3. QED
  BY <1>1, <1>2

-----------------------------------------------------------------------------
(* Along the line.                                                          *)

LEMMA NewScanFacts ==
    /\ NewScan.error = "" /\ ~NewScan.in_token /\ NewScan.tokens = << >> /\ Len(NewScan.tokens) = 0
    /\ NewScan.error \notin ScanErrors
<1>1. NewScan.error = "" /\ ~NewScan.in_token /\ NewScan.tokens = << >>
  BY DEF NewScan
<1>2. Len(<< >>) = 0
  BY EmptySeq
<1>3. QED
  BY <1>1, <1>2 DEF ScanErrors

LEMMA NewScanTiled == Tiled(NewScan)
<1>1. << >> \in Seq(Chars) /\ << >> \in Seq(Token) /\ Len(<< >>) = 0
  BY EmptySeq
<1> DEFINE s == NewScan
<1>2. /\ s \in Scanner /\ s.tokens = << >> /\ s.parsed = << >>
      /\ ~s.in_token /\ ~s.in_single /\ ~s.in_double /\ ~s.escape
  BY <1>1 DEF NewScan, Scanner
<1>3. EndBefore(<< >>, Len(<< >>) + 1) = 0
  BY <1>1 DEF EndBefore, LastEnd, WordsBefore
<1> HIDE DEF s
<1>4. \A i : ~(i \in 1 .. 0)
  OBVIOUS
<1>5. \A i \in 1 .. Len(s.tokens) : s.tokens[i].kind = "word" => s.tokens[i].start = EndBefore(s.tokens, i)
  BY <1>1, <1>2, <1>4
<1>6. EndBefore(s.tokens, Len(s.tokens) + 1) = IF s.in_token THEN s.start ELSE Len(s.parsed)
  BY <1>1, <1>2, <1>3, Zenon
<1>7. Tiled(s)
  BY <1>2, <1>5, <1>6, Zenon DEF Tiled
<1>8. QED
  BY <1>7 DEF s

\* The scanner's states along a line: each comes of the one before and a character.
IsRun(st, chars) ==
    /\ st[0] = NewScan
    /\ \A k \in 1 .. Len(chars) : st[k] = Scanned(st[k - 1], chars[k])
    /\ \A k \in 0 .. Len(chars) - 1 : st[k].error = ""

LEMMA RunPlaces ==
    \A n \in Nat :
        /\ 0 \in 0 .. n + 1 /\ 0 # n + 1 /\ n + 1 \in 0 .. n + 1 /\ n \in 0 .. n + 1 /\ n # n + 1
        /\ (n + 1) - 1 = n
        /\ \A k \in 1 .. n + 1 : k \in 1 .. n \/ k = n + 1
        /\ \A k \in 1 .. n : /\ k \in 0 .. n + 1 /\ k # n + 1 /\ k - 1 \in 0 .. n + 1 /\ k - 1 # n + 1
        /\ \A k \in 0 .. (n + 1) - 1 : k \in 0 .. n + 1 /\ k # n + 1 /\ (k \in 0 .. n - 1 \/ k = n)
OBVIOUS

\* A run that hasn't failed goes on with the next character.
LEMMA RunGrows ==
    ASSUME NEW chars \in Seq(Chars), NEW c \in Chars, NEW more, more = Append(chars, c),
           NEW st, IsRun(st, chars), st[Len(chars)].error = ""
    PROVE  \E u : IsRun(u, more) /\ u[Len(more)] = Scanned(st[Len(chars)], c)
<1> DEFINE n == Len(chars)
           u == [k \in 0 .. n + 1 |-> IF k = n + 1 THEN Scanned(st[n], c) ELSE st[k]]
<1>1. n \in Nat /\ Len(more) = n + 1 /\ more[n + 1] = c /\ \A k \in 1 .. n : more[k] = chars[k]
  <2>1. n \in Nat
    BY LenProperties
  <2>2. /\ Len(Append(chars, c)) = n + 1 /\ Append(chars, c)[n + 1] = c
        /\ \A k \in 1 .. n : Append(chars, c)[k] = chars[k]
    BY AppendProperties, ZenonT(30)
  <2>3. QED
    BY <2>1, <2>2
<1>2. /\ st[0] = NewScan /\ st[n].error = ""
      /\ \A k \in 1 .. n : st[k] = Scanned(st[k - 1], chars[k])
      /\ \A k \in 0 .. n - 1 : st[k].error = ""
  BY DEF IsRun
<1> HIDE DEF n
<1>3. u[n + 1] = Scanned(st[n], c) /\ \A k \in 0 .. n + 1 : k # n + 1 => u[k] = st[k]
  BY <1>1, RunPlaces
<1> HIDE DEF u
<1>4. u[0] = NewScan
  BY <1>1, <1>2, <1>3, RunPlaces
<1>5. ASSUME NEW k \in 1 .. n + 1 PROVE u[k] = Scanned(u[k - 1], more[k])
  <2>1. CASE k \in 1 .. n
    <3>1. u[k] = st[k] /\ u[k - 1] = st[k - 1] /\ more[k] = chars[k]
      BY <1>1, <1>3, <2>1, RunPlaces
    <3>2. QED
      BY <1>2, <2>1, <3>1
  <2>2. CASE k = n + 1
    <3>1. u[k - 1] = st[n]
      BY <1>1, <1>3, <2>2, RunPlaces
    <3>2. QED
      BY <1>1, <1>3, <2>2, <3>1
  <2>3. QED
    BY <1>1, <2>1, <2>2, RunPlaces
<1>6. ASSUME NEW k \in 0 .. (n + 1) - 1 PROVE u[k].error = ""
  <2>1. u[k] = st[k] /\ (k \in 0 .. n - 1 \/ k = n)
    BY <1>1, <1>3, RunPlaces
  <2>2. QED
    BY <1>2, <2>1
<1>7. IsRun(u, more) /\ u[Len(more)] = Scanned(st[n], c)
  BY <1>1, <1>3, <1>4, <1>5, <1>6 DEF IsRun
<1>8. QED
  BY <1>7 DEF n

\* The scanner has run along the line, and has perhaps come to its end.
RunEnds(s, stage, chars) ==
    \E st : /\ IsRun(st, chars)
            /\ stage = "scanning" => s = st[Len(chars)]
            /\ stage # "scanning" => \/ s = st[Len(chars)] /\ s.error # ""
                                     \/ st[Len(chars)].error = "" /\ s = AtEnd(st[Len(chars)])

ScanInv ==
    /\ RunEnds(scan, at, line)
    /\ at = "scanning" => error = ""
    /\ scan.error # "" => error = scan.error
    /\ scan.error = "" => error \notin ScanErrors

LEMMA InitScanInv == Init => ScanInv
<1> SUFFICES ASSUME Init PROVE ScanInv
  OBVIOUS
<1>1. scan = NewScan /\ at = "scanning" /\ line = << >> /\ error = ""
  BY DEF Init
<1> DEFINE u == [k \in {0} |-> NewScan]
<1>2. Len(<< >>) = 0
  BY EmptySeq
<1>3. u[0] = NewScan /\ \A k : ~(k \in 1 .. 0) /\ ~(k \in 0 .. 0 - 1)
  OBVIOUS
<1> HIDE DEF u
<1>4. IsRun(u, << >>) /\ u[Len(<< >>)] = NewScan
  BY <1>2, <1>3 DEF IsRun
<1>5. RunEnds(scan, at, line)
  BY <1>1, <1>4 DEF RunEnds
<1>6. NewScan.error = "" /\ "" \notin ScanErrors
  BY DEF NewScan, ScanErrors
<1>7. QED
  BY <1>1, <1>5, <1>6 DEF ScanInv

LEMMA ScanKeepsRun ==
    ASSUME ScannerInv, ScanInv, NEW c \in Chars, Scan(c)
    PROVE  ScanInv'
<1>1. /\ line \in Seq(Chars) /\ scan.error = "" /\ at = "scanning" /\ error = ""
      /\ line' = Append(line, c) /\ scan' = Scanned(scan, c)
      /\ IF scan'.error # "" THEN at' = "refused" /\ error' = scan'.error
         ELSE at' = at /\ error' = error
  BY DEF ScannerInv, ScanInv, Scan, Refuse
<1>2. PICK st : IsRun(st, line) /\ scan = st[Len(line)]
  BY <1>1 DEF ScanInv, RunEnds
<1>3. PICK u : IsRun(u, line') /\ u[Len(line')] = Scanned(st[Len(line)], c)
  BY <1>1, <1>2, RunGrows, ZenonT(30)
<1>4. RunEnds(scan', at', line')
  BY <1>1, <1>2, <1>3 DEF RunEnds
<1>5. "" \notin ScanErrors
  BY DEF ScanErrors
<1>6. QED
  BY <1>1, <1>4, <1>5 DEF ScanInv

LEMMA SplitErrors ==
    ASSUME NEW stages
    PROVE  SplitError(stages) \notin ScanErrors
BY DEF SplitError, ScanErrors

LEMMA EndOfLineKeepsRun ==
    ASSUME ScannerInv, ScanInv, EndOfLine
    PROVE  ScanInv'
<1> DEFINE split == SplitError(Cuts(scan'.tokens))
<1>1. /\ scan.error = "" /\ at = "scanning" /\ error = "" /\ line' = line /\ scan' = AtEnd(scan)
  BY DEF ScannerInv, ScanInv, EndOfLine
<1>2. /\ at' # "scanning"
      /\ scan'.error # "" => error' = scan'.error
      /\ scan'.error = "" => error' \in {"args too long", split, error}
  BY DEF EndOfLine, Refuse
<1>3. split \notin ScanErrors /\ "args too long" \notin ScanErrors /\ "" \notin ScanErrors
  BY SplitErrors DEF ScanErrors
<1> HIDE DEF split
<1>4. RunEnds(scan', at', line')
  BY <1>1, <1>2 DEF RunEnds, ScanInv
<1>5. QED
  BY <1>1, <1>2, <1>3, <1>4 DEF ScanInv

\* What parse_stage refuses a stage for is no error of the scanner's.
LEMMA ParseErrors ==
    ASSUME NEW tokens \in Seq(Token), NEW first \in BOOLEAN, NEW last \in BOOLEAN
    PROVE  ParsedStage(tokens, first, last).error \notin ScanErrors
<1>1. PICK t : /\ IsParse(t, tokens, first, last)
               /\ ParsedStage(tokens, first, last) = ParseResult(t[Len(tokens)])
  BY StageStepwise
<1> DEFINE s == t[Len(tokens)]
<1>2. s \in StageState
  <2>1. \A n \in Nat : n \in 0 .. n
    OBVIOUS
  <2>2. Len(tokens) \in 0 .. Len(tokens)
    BY <2>1, LenProperties
  <2>3. QED
    BY <1>1, <2>2 DEF IsParse
<1> HIDE DEF s
<1>3. \A m : Fails(s, m).error = m
  BY <1>2 DEF Fails, StageState
<1>4. s.error \notin ScanErrors
  BY <1>2 DEF StageState, StageErrors, ScanErrors
<1>5. ParseResult(s) \in {s, Fails(s, "missing file"), Fails(s, "empty command stage"), Fails(s, "args too long")}
  BY DEF ParseResult
<1>6. ParseResult(s).error \notin ScanErrors
  BY <1>3, <1>4, <1>5 DEF ScanErrors
<1>7. QED
  BY <1>1, <1>6 DEF s

LEMMA NextIsWithin == \A m, n \in Nat : m < n => m + 1 \in 1 .. n
OBVIOUS

LEMMA ParseStageKeepsRun ==
    ASSUME ScannerInv, StageInv, ScanInv, ParseStage
    PROVE  ScanInv'
<1>1. /\ scan' = scan /\ line' = line /\ at = "stages" /\ scan.error = "" /\ Len(ran) < Len(Stages)
      /\ scan.tokens \in Seq(Token)
  BY ScannerFacts DEF ParseStage, StageInv, ScannerInv, Tiled
<1>2. at' # "scanning" /\ error' \in {ParseNext.error, "builtin in a pipeline", error}
  BY DEF ParseStage, Refuse
<1>3. ParseNext.error \notin ScanErrors
  <2> DEFINE k == Len(ran) + 1
  <2>1. k \in 1 .. Len(Stages)
    <3>1. PICK S : ran \in Seq(S)
      BY DEF StageInv
    <3>2. Len(ran) \in Nat /\ Len(Stages) \in Nat
      BY <1>1, <3>1, LenProperties, SomeStage DEF Stages
    <3>3. QED
      BY <1>1, <3>2, NextIsWithin
  <2> HIDE DEF k
  <2>2. Stages[k] \in Seq(Token)
    BY <1>1, <2>1, StageOf
  <2>3. ParsedStage(Stages[k], k = 1, k = Len(Stages)).error \notin ScanErrors
    BY <2>2, ParseErrors
  <2>4. QED
    BY <2>3 DEF ParseNext, k
<1>4. error \notin ScanErrors /\ "builtin in a pipeline" \notin ScanErrors
  BY <1>1 DEF ScanInv, ScanErrors
<1>5. RunEnds(scan', at', line')
  BY <1>1, <1>2 DEF ScanInv, RunEnds
<1>6. QED
  BY <1>1, <1>2, <1>3, <1>4, <1>5 DEF ScanInv

LEMMA StepScanInv == ScannerInv /\ StageInv /\ ScanInv /\ [Next]_tokenizerVars => ScanInv'
<1> SUFFICES ASSUME ScannerInv, StageInv, ScanInv, [Next]_tokenizerVars PROVE ScanInv'
  OBVIOUS
<1>1. ASSUME NEW c \in Chars, Scan(c) PROVE ScanInv'
  BY <1>1, ScanKeepsRun
<1>2. CASE EndOfLine
  BY <1>2, EndOfLineKeepsRun
<1>3. CASE ParseStage
  BY <1>3, ParseStageKeepsRun
<1>4. CASE UNCHANGED tokenizerVars
  BY <1>4 DEF tokenizerVars, ScanInv
<1>5. QED
  BY <1>1, <1>2, <1>3, <1>4 DEF Next

\* Every state along a run is what the grammar says of the line up to there.
LEMMA RunAgrees ==
    ASSUME line \in Seq(Chars), NEW W, NEW R, IsGrammar(W, R), NEW st, IsRun(st, line)
    PROVE  /\ Tiled(st[Len(line)])
           /\ st[Len(line)].error = "" => Agrees(W, R, st[Len(line)], Len(line))
           /\ st[Len(line)].error = "too many tokens" => TooMany(R)
           /\ st[Len(line)].error \notin ScanErrors
<1> DEFINE N == Len(line)
           S == {k \in 0 .. N : /\ Tiled(st[k])
                                /\ st[k].error = "" => Agrees(W, R, st[k], k)
                                /\ st[k].error = "too many tokens" => TooMany(R)
                                /\ st[k].error \notin ScanErrors}
<1>1. N \in Nat
  BY LenProperties
<1>2. 0 \in S
  <2> DEFINE s == st[0]
  <2>1. s = NewScan
    BY DEF IsRun
  <2>2. Tiled(s)
    BY <2>1, NewScanTiled
  <2>3. s.error = "" /\ ~s.in_token /\ Len(s.tokens) = 0 /\ s.error \notin ScanErrors
    BY <2>1, NewScanFacts
  <2> HIDE DEF s
  <2>4. Items(s) = << >> /\ Within(s)
    <3>1. \A i : ~(i \in 1 .. 0)
      OBVIOUS
    <3>2. Within(s)
      BY <2>3, <3>1 DEF Within
    <3>3. Items(s) \in Seq(Item) /\ Len(Items(s)) = 0
      BY <2>2, <2>3, <3>2, TiledText
    <3>4. QED
      BY <3>2, <3>3, EmptySeq
  <2>5. Reads(R, Items(s), R[1])
    <3>1. R[1].items \in Seq(Item)
      <4>1. 1 \in 1 .. Len(line) + 1
        BY <1>1
      <4>2. QED
        BY <4>1, GrammarTyped
    <3>2. << >> \o R[1].items = R[1].items
      BY <3>1, ConcatEmptySeq
    <3>3. QED
      BY <2>4, <3>2 DEF Reads
  <2>6. Agrees(W, R, s, 0)
    <3>1. 0 + 1 = 1
      OBVIOUS
    <3>2. QED
      BY <2>3, <2>4, <2>5, <3>1 DEF Agrees
  <2>7. QED
    <3>1. 0 \in 0 .. N
      BY <1>1
    <3>2. QED
      BY <2>2, <2>3, <2>6, <3>1 DEF s
<1>3. ASSUME NEW k \in 0 .. N - 1, k \in S PROVE k + 1 \in S
  <2> DEFINE q == k + 1
             s == st[k]
             t == st[q]
  <2>1. q = k + 1 /\ q \in 1 .. N /\ q \in 0 .. N /\ q - 1 = k
    BY <1>1
  <2>2. s.error = "" /\ t = Scanned(s, line[q])
    BY <2>1 DEF IsRun
  <2>3. Tiled(s) /\ Agrees(W, R, s, k)
    BY <1>3, <2>2
  <2> HIDE DEF q, s, t
  <2>4. NextAt(k, q)
    BY <2>1, NextPlaceOfLine
  <2>5. Stepped(W, R, t, q)
    BY <2>2, <2>3, <2>4, StepAgrees
  <2>6. Tiled(t)
    <3>1. IsScanned(Scanned(s, line[q]), s)
      BY <2>2, <2>3, <2>4, ScannedTiles DEF NextAt
    <3>2. QED
      BY <2>2, <3>1 DEF IsScanned
  <2>7. q \in S
    BY <2>1, <2>5, <2>6 DEF Stepped, t
  <2>8. QED
    BY <2>1, <2>7
<1>4. \A k \in 0 .. N : k \in S
  <2> HIDE DEF S, N
  <2>1. QED
    BY <1>1, <1>2, <1>3, BoundedInduction
<1>5. N \in S
  <2>1. N \in 0 .. N
    BY <1>1
  <2>2. QED
    BY <1>4, <2>1
<1>6. QED
  BY <1>5

\* What the scanner makes of the line is what the grammar reads in it.
LEMMA ScanInvMatches == ScannerInv /\ ScanInv => TokensMatchGrammar
<1> SUFFICES ASSUME ScannerInv, ScanInv, at # "scanning" PROVE TokensMatchGrammar
  BY DEF TokensMatchGrammar
<1>1. line \in Seq(Chars) /\ Tiled(scan) /\ scan.error # "line too long"
  BY DEF ScannerInv
<1>2. PICK W, R : IsGrammar(W, R) /\ Reading = R[1]
  BY <1>1, GrammarReads
<1>3. PICK st : /\ IsRun(st, line)
                /\ \/ scan = st[Len(line)] /\ scan.error # ""
                   \/ st[Len(line)].error = "" /\ scan = AtEnd(st[Len(line)])
  BY DEF ScanInv, RunEnds
<1>4. /\ Tiled(st[Len(line)])
      /\ st[Len(line)].error = "" => Agrees(W, R, st[Len(line)], Len(line))
      /\ st[Len(line)].error = "too many tokens" => TooMany(R)
      /\ st[Len(line)].error \notin ScanErrors
  BY <1>1, <1>2, <1>3, RunAgrees
<1>5. Ended(R, scan)
  <2>1. CASE scan = st[Len(line)] /\ scan.error # ""
    BY <1>4, <2>1 DEF Ended
  <2>2. CASE st[Len(line)].error = "" /\ scan = AtEnd(st[Len(line)])
    BY <1>1, <1>2, <1>4, <2>2, AtEndAgrees
  <2>3. QED
    BY <1>3, <2>1, <2>2
<1>6. Items(scan) = [i \in 1 .. Len(scan.tokens) |->
                       [kind |-> scan.tokens[i].kind, text |-> Word(scan.tokens[i])]]
  BY DEF Items, ItemOf, Text, Word
<1>7. /\ scan.error # "" => error = scan.error
      /\ scan.error = "" => error \notin ScanErrors
  BY DEF ScanInv
<1>8. CASE error \in ScanErrors
  <2>1. scan.error = error /\ scan.error # "too many tokens"
    BY <1>7, <1>8 DEF ScanErrors
  <2>2. R[1].closed = FALSE
    BY <1>5, <1>8, <2>1 DEF Ended, Unclosed
  <2>3. QED
    BY <1>2, <1>8, <2>1, <2>2 DEF TokensMatchGrammar
<1>9. CASE error \notin ScanErrors /\ scan.error = "too many tokens"
  <2>1. Len(R[1].items) > MaxTokens
    BY <1>5, <1>9 DEF Ended, TooMany
  <2>2. QED
    BY <1>2, <1>9, <2>1 DEF TokensMatchGrammar
<1>10. CASE error \notin ScanErrors /\ scan.error # "too many tokens"
  <2>1. scan.error = ""
    <3>1. scan.error \in {"", "line too long", "too many tokens", "trailing escape", "unclosed quote"}
      BY <1>1 DEF Tiled, Scanner
    <3>2. QED
      BY <1>1, <1>7, <1>10, <3>1 DEF ScanErrors
  <2>2. R[1].closed = TRUE /\ R[1].items = Items(scan)
    BY <1>5, <2>1 DEF Ended
  <2>3. QED
    BY <1>2, <1>6, <1>10, <2>2 DEF TokensMatchGrammar
<1>11. QED
  BY <1>8, <1>9, <1>10

\* No line breaks the invariant.
THEOREM ScanInvariance == Spec => []ScanInv
<1>1. Init => ScanInv
  BY InitScanInv
<1>2. ScannerInv /\ StageInv /\ ScanInv /\ [Next]_tokenizerVars => ScanInv'
  BY StepScanInv
<1>3. QED
  BY <1>1, <1>2, ScannerInvariance, StageInvariance, PTL DEF Spec

\* For every line and all limits, the tokens that tokenize_command finds are the
\* words and operators that the grammar of quotes, backslashes, blanks and operators
\* reads in the line, and it refuses a line just for a quote or backslash left open
\* or for more tokens than there may be.
THEOREM TokensAreTheGrammar == Spec => []TokensMatchGrammar
<1>1. ScannerInv /\ ScanInv => TokensMatchGrammar
  BY ScanInvMatches
<1>2. QED
  BY <1>1, ScannerInvariance, ScanInvariance, PTL
=============================================================================
