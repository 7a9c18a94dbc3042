---------------------------- MODULE TerminalProofs ---------------------------
(***************************************************************************)
(* Theorems about Terminal: the writer stays in its buffer, and the screen    *)
(* shows the line that is being typed.                                      *)
(***************************************************************************)
EXTENDS Terminal, NatFacts, SequenceTheorems

USE TerminalSizes

-----------------------------------------------------------------------------
(* One byte.                                                               *)

Rows == [1 .. Height -> [1 .. Width -> Char]]

Displays == [rows : Rows, col : 0 .. Width]

BlankBehind(d) == \A c \in d.col + 1 .. Width : d.rows[Height][c] = Blank

\* What the writer keeps.
Sound == {d \in Displays : BlankBehind(d)}

\* The text before the cursor ends like the line, or the line like the text.
BackIn(d, r, c) == (Height - r) * Width + d.col - c + 1

Shows(d, line) ==
    \A r \in 1 .. Height, c \in 1 .. Width :
        BackIn(d, r, c) \in 1 .. Len(line) => d.rows[r][c] = line[Len(line) + 1 - BackIn(d, r, c)]

\* The rows above the last one are those of d, k rows further down.
Scrolled(e, d, k) == \A r \in 1 .. Height - 1 : e.rows[r] = d.rows[r + k]

LEMMA Blanks ==
    /\ Blank \in Char /\ BS \in Char /\ NL \in Char /\ Square \in Char /\ Leftover \in Char
    /\ BlankRow \in [1 .. Width -> Char]
    /\ \A c \in 1 .. Width : BlankRow[c] = Blank
    /\ Height \in 1 .. Height
BY TerminalTypes DEF BlankRow

LEMMA NewLineProperties ==
    ASSUME NEW d \in Sound
    PROVE  /\ NewLine(d) \in Sound /\ NewLine(d).col = 0
           /\ Scrolled(NewLine(d), d, 1)
           /\ \A c \in 1 .. Width : NewLine(d).rows[Height][c] = Blank
<1> DEFINE rows == [r \in 1 .. Height |-> IF r = Height THEN RowEntered(d) ELSE d.rows[r + 1]]
<1>1. NewLine(d) = [rows |-> rows, col |-> 0] /\ RowEntered(d) = BlankRow
  BY DEF NewLine, RowEntered
<1>2. d.rows \in Rows
  BY DEF Sound, Displays
<1>3. rows \in Rows
  <2>1. \A r \in 1 .. Height : r # Height => r + 1 \in 1 .. Height
    OBVIOUS
  <2>2. \A r \in 1 .. Height : r # Height => d.rows[r + 1] \in [1 .. Width -> Char]
    BY <1>2, <2>1 DEF Rows
  <2>3. QED
    BY <1>1, <2>2, Blanks DEF Rows
<1>4. \A r \in 1 .. Height - 1 : rows[r] = d.rows[r + 1]
  OBVIOUS
<1>5. rows[Height] = BlankRow
  BY <1>1, Blanks
<1> HIDE DEF rows
<1>6. NewLine(d).rows = rows /\ NewLine(d).col = 0
  BY <1>1
<1>7. \A c \in 1 .. Width : NewLine(d).rows[Height][c] = Blank
  BY <1>5, <1>6, Blanks
<1>8. NewLine(d) \in Displays
  BY <1>1, <1>3 DEF Displays
<1>9. BlankBehind(NewLine(d))
  BY <1>6, <1>7 DEF BlankBehind
<1>10. QED
  BY <1>4, <1>6, <1>7, <1>8, <1>9 DEF Sound, Scrolled

\* One cell of the last row is changed.
IsPut(new, rows, col, byte) ==
    /\ new \in Rows
    /\ new[Height][col + 1] = byte
    /\ \A r \in 1 .. Height, c \in 1 .. Width : r # Height \/ c # col + 1 => new[r][c] = rows[r][c]
    /\ \A r \in 1 .. Height - 1 : new[r] = rows[r]

LEMMA PutProperties ==
    ASSUME NEW rows \in Rows, NEW col \in 0 .. Width - 1, NEW byte \in Char
    PROVE  IsPut(Put(rows, col, byte), rows, col, byte)
<1> DEFINE row == [rows[Height] EXCEPT ![col + 1] = byte]
<1>1. Put(rows, col, byte) = [rows EXCEPT ![Height] = row]
  BY DEF Put
<1>2. rows[Height] \in [1 .. Width -> Char] /\ col + 1 \in 1 .. Width
  BY Blanks DEF Rows
<1>3. /\ row \in [1 .. Width -> Char] /\ row[col + 1] = byte
      /\ \A c \in 1 .. Width : c # col + 1 => row[c] = rows[Height][c]
  BY <1>2
<1> HIDE DEF row
<1>4. /\ [rows EXCEPT ![Height] = row] \in Rows
      /\ [rows EXCEPT ![Height] = row][Height] = row
      /\ \A r \in 1 .. Height : r # Height => [rows EXCEPT ![Height] = row][r] = rows[r]
  BY <1>3, Blanks DEF Rows
<1>5. \A r \in 1 .. Height - 1 : r \in 1 .. Height /\ r # Height
  OBVIOUS
<1> DEFINE new == [rows EXCEPT ![Height] = row]
<1> HIDE DEF new
<1>6. QED
  BY <1>1, <1>3, <1>4, <1>5, Zenon DEF new, IsPut

\* The three cases of write_byte.
Room(d) == IF IsFull(d) THEN NewLine(d) ELSE d

LEMMA WriteByteCases ==
    ASSUME NEW d, NEW byte
    PROVE  /\ byte = NL => WriteByte(d, byte) = NewLine(d)
           /\ byte = BS => WriteByte(d, byte) =
                 IF d.col > 0 THEN [rows |-> Put(d.rows, d.col - 1, Blank), col |-> d.col - 1] ELSE d
           /\ byte # NL /\ byte # BS => WriteByte(d, byte) =
                 [rows |-> Put(Room(d).rows, Room(d).col, byte), col |-> Room(d).col + 1]
BY DEF WriteByte, NL, BS, Room

LEMMA RoomProperties ==
    ASSUME NEW d \in Sound
    PROVE  /\ Room(d) \in Sound /\ Room(d).col \in 0 .. Width - 1
           /\ d.col < Width => Room(d) = d
           /\ ~(d.col < Width) => d.col = Width /\ Room(d) = NewLine(d)
<1>1. d.col \in 0 .. Width
  BY DEF Sound, Displays
<1>2. IsFull(d) <=> ~(d.col < Width)
  BY <1>1 DEF IsFull
<1>3. CASE IsFull(d)
  <2>1. Room(d) = NewLine(d)
    BY <1>3 DEF Room
  <2>2. NewLine(d) \in Sound /\ NewLine(d).col = 0
    BY NewLineProperties
  <2>3. QED
    BY <1>1, <1>2, <1>3, <2>1, <2>2
<1>4. CASE ~IsFull(d)
  <2>1. Room(d) = d
    BY <1>4 DEF Room
  <2>2. QED
    BY <1>1, <1>2, <1>4, <2>1
<1>5. QED
  BY <1>3, <1>4

LEMMA PlainByte ==
    ASSUME NEW d \in Sound, NEW byte \in Char, byte # NL, byte # BS
    PROVE  LET e == WriteByte(d, byte)
               o == Room(d)
           IN  /\ e \in Sound
               /\ e.col = o.col + 1
               /\ e.rows[Height][o.col + 1] = byte
               /\ \A r \in 1 .. Height, c \in 1 .. Width :
                     r # Height \/ c # o.col + 1 => e.rows[r][c] = o.rows[r][c]
               /\ Scrolled(e, o, 0)
<1> DEFINE e   == WriteByte(d, byte)
           o   == Room(d)
           put == Put(o.rows, o.col, byte)
<1>1. o \in Sound /\ o.col \in 0 .. Width - 1
  BY RoomProperties
<1>2. o.rows \in Rows /\ \A c \in o.col + 1 .. Width : o.rows[Height][c] = Blank
  BY <1>1 DEF Sound, Displays, BlankBehind
<1>3. e = [rows |-> put, col |-> o.col + 1]
  BY WriteByteCases
<1> HIDE DEF e, o
<1>4. /\ put \in Rows /\ put[Height][o.col + 1] = byte
      /\ \A r \in 1 .. Height, c \in 1 .. Width :
            r # Height \/ c # o.col + 1 => put[r][c] = o.rows[r][c]
      /\ \A r \in 1 .. Height - 1 : put[r] = o.rows[r]
  <2>1. IsPut(put, o.rows, o.col, byte)
    BY <1>1, <1>2, PutProperties
  <2>2. QED
    BY <2>1, Zenon DEF IsPut
<1> HIDE DEF put
<1>5. e.rows = put /\ e.col = o.col + 1
  BY <1>3
<1>6. e \in Displays
  <2>1. o.col + 1 \in 0 .. Width
    BY <1>1
  <2>2. QED
    BY <1>3, <1>4, <2>1 DEF Displays
<1>7. BlankBehind(e)
  <2>1. \A c \in (o.col + 1) + 1 .. Width : c \in 1 .. Width /\ c # o.col + 1 /\ c \in o.col + 1 .. Width
    BY <1>1
  <2>2. QED
    BY <1>2, <1>4, <1>5, <2>1, Blanks DEF BlankBehind
<1>8. \A r \in 1 .. Height - 1 : r + 0 = r
  OBVIOUS
<1>9. QED
  BY <1>4, <1>5, <1>6, <1>7, <1>8 DEF Sound, Scrolled, e, o

LEMMA Backspace ==
    ASSUME NEW d \in Sound
    PROVE  LET e == WriteByte(d, BS)
           IN  /\ e \in Sound
               /\ d.col = 0 => e = d
               /\ d.col > 0 =>
                     /\ e.col = d.col - 1
                     /\ \A r \in 1 .. Height, c \in 1 .. Width :
                           r # Height \/ c # d.col => e.rows[r][c] = d.rows[r][c]
               /\ Scrolled(e, d, 0)
<1> DEFINE e == WriteByte(d, BS)
<1>1. d.rows \in Rows /\ d.col \in 0 .. Width /\ \A c \in d.col + 1 .. Width : d.rows[Height][c] = Blank
  BY DEF Sound, Displays, BlankBehind
<1>2. CASE d.col = 0
  <2>1. e = d
    BY <1>1, <1>2, WriteByteCases
  <2>2. \A r \in 1 .. Height - 1 : r + 0 = r
    OBVIOUS
  <2>3. QED
    BY <1>2, <2>1, <2>2 DEF Scrolled
<1>3. CASE d.col > 0
  <2> DEFINE put == Put(d.rows, d.col - 1, Blank)
  <2>1. e = [rows |-> put, col |-> d.col - 1]
    BY <1>3, WriteByteCases
  <2> HIDE DEF e
  <2>2. d.col - 1 \in 0 .. Width - 1 /\ (d.col - 1) + 1 = d.col
    BY <1>1, <1>3
  <2>3. /\ put \in Rows /\ put[Height][d.col] = Blank
        /\ \A r \in 1 .. Height, c \in 1 .. Width : r # Height \/ c # d.col => put[r][c] = d.rows[r][c]
        /\ \A r \in 1 .. Height - 1 : put[r] = d.rows[r]
    <3>1. IsPut(put, d.rows, d.col - 1, Blank)
      BY <1>1, <2>2, PutProperties, Blanks
    <3>2. QED
      BY <2>2, <3>1, Zenon DEF IsPut
  <2> HIDE DEF put
  <2>4. e.rows = put /\ e.col = d.col - 1
    BY <2>1
  <2>5. e \in Displays
    <3>1. d.col - 1 \in 0 .. Width
      BY <2>2
    <3>2. QED
      BY <2>1, <2>3, <3>1 DEF Displays
  <2>6. BlankBehind(e)
    <3>1. \A c \in (d.col - 1) + 1 .. Width : c \in 1 .. Width /\ (c # d.col => c \in d.col + 1 .. Width)
      BY <1>1, <1>3
    <3>2. QED
      BY <1>1, <2>3, <2>4, <3>1, Blanks DEF BlankBehind
  <2>7. \A r \in 1 .. Height - 1 : r + 0 = r
    OBVIOUS
  <2>8. QED
    BY <1>3, <2>3, <2>4, <2>5, <2>6, <2>7 DEF Sound, Scrolled, e
<1>4. QED
  BY <1>1, <1>2, <1>3

LEMMA WriteByteSound ==
    ASSUME NEW d \in Sound, NEW byte \in Char
    PROVE  WriteByte(d, byte) \in Sound
<1>1. CASE byte = NL
  BY <1>1, NewLineProperties, WriteByteCases
<1>2. CASE byte = BS
  BY <1>2, Backspace
<1>3. CASE byte # NL /\ byte # BS
  BY <1>3, PlainByte
<1>4. QED
  BY <1>1, <1>2, <1>3

\* A line on the screen that is continued, and one whose end is erased.
LEMMA RowArithmetic ==
    ASSUME NEW r \in 1 .. Height
    PROVE  /\ (Height - r) * Width \in Nat
           /\ r = Height => (Height - r) * Width = 0
           /\ r # Height => /\ (Height - r) * Width >= Width
                           /\ (Height - (r + 1)) * Width = (Height - r) * Width - Width
<1> DEFINE k == Height - r
<1>1. k \in Nat /\ (r = Height <=> k = 0) /\ Height - (r + 1) = k - 1
  OBVIOUS
<1> HIDE DEF k
<1>2. \A i, j \in Nat : i * j \in Nat
  OBVIOUS
<1>3. 0 * Width = 0
  OBVIOUS
<1>4. (k - 1) * Width = k * Width - Width
  BY <1>1
<1>5. k # 0 => (k - 1) * Width \in Nat
  BY <1>1, <1>2
<1>6. k * Width \in Nat
  BY <1>1, <1>2
<1>7. k # 0 => k * Width >= Width
  BY <1>4, <1>5, <1>6
<1>8. QED
  BY <1>1, <1>3, <1>4, <1>6, <1>7 DEF k

LEMMA ShowsNext ==
    ASSUME NEW d \in Sound, NEW byte \in Char, byte # NL, byte # BS,
           NEW line \in Seq(Char), Shows(d, line)
    PROVE  Shows(WriteByte(d, byte), Append(line, byte))
<1> DEFINE e    == WriteByte(d, byte)
           o    == Room(d)
           more == Append(line, byte)
           L    == Len(line)
<1>1. /\ e.col = o.col + 1
      /\ e.rows[Height][o.col + 1] = byte
      /\ \A r \in 1 .. Height, c \in 1 .. Width :
            r # Height \/ c # o.col + 1 => e.rows[r][c] = o.rows[r][c]
  BY PlainByte
<1>2. o \in Sound /\ o.col \in 0 .. Width - 1
  BY RoomProperties
<1>3. d.col \in 0 .. Width
  BY DEF Sound, Displays
<1>4. L \in Nat /\ Len(more) = L + 1 /\ more[L + 1] = byte /\ \A i \in 1 .. L : more[i] = line[i]
  BY AppendProperties, LenProperties
<1> HIDE DEF e, more
<1> SUFFICES ASSUME NEW r \in 1 .. Height, NEW c \in 1 .. Width, BackIn(e, r, c) \in 1 .. L + 1
             PROVE  e.rows[r][c] = more[(L + 1) + 1 - BackIn(e, r, c)]
  BY <1>4, Zenon DEF Shows, e, more
<1> DEFINE w == (Height - r) * Width
           n == BackIn(e, r, c)
<1>5. w \in Nat /\ (r = Height => w = 0) /\ (r # Height => w >= Width)
  BY RowArithmetic
<1>6. n = w + (o.col + 1) - c + 1 /\ BackIn(d, r, c) = w + d.col - c + 1
  <2>1. BackIn(e, r, c) = w + e.col - c + 1 /\ BackIn(d, r, c) = w + d.col - c + 1
    BY DEF BackIn
  <2>2. QED
    BY <1>1, <2>1
<1> HIDE DEF n, o, w
<1>7. c \in 1 .. Width
  OBVIOUS
<1>8. CASE r = Height /\ c = o.col + 1
  <2>1. n = 1
    BY <1>2, <1>5, <1>6, <1>8, <1>7
  <2>2. (L + 1) + 1 - n = L + 1
    BY <1>4, <2>1
  <2>3. QED
    BY <1>1, <1>4, <1>8, <2>2 DEF n
<1>9. CASE r # Height \/ c # o.col + 1
  <2>1. e.rows[r][c] = o.rows[r][c] /\ c \in Nat
    BY <1>1, <1>9
  <2>2. n \in 1 .. L + 1 /\ n # 1
    <3>1. n \in 1 .. L + 1
      BY DEF n
    <3>2. n # 1
      <4> DEFINE k == o.col
      <4>1. k \in 0 .. Width - 1 /\ n = w + (k + 1) - c + 1
        BY <1>2, <1>6
      <4> HIDE DEF k
      <4>2. CASE r # Height
        BY <1>5, <1>7, <4>1, <4>2
      <4>3. CASE r = Height
        <5>1. c # k + 1 /\ w = 0
          BY <1>5, <1>9, <4>3 DEF k
        <5>2. QED
          BY <1>7, <4>1, <5>1
      <4>4. QED
        BY <4>2, <4>3
    <3>3. QED
      BY <3>1, <3>2
  <2>3. n - 1 \in 1 .. L /\ (L + 1) + 1 - n = L + 1 - (n - 1) /\ L + 1 - (n - 1) \in 1 .. L
    <3> HIDE DEF L
    <3>1. QED
      BY <1>4, <2>2
  <2>4. more[(L + 1) + 1 - n] = line[L + 1 - (n - 1)]
    BY <1>4, <2>3
  <2>5. CASE d.col < Width
    <3>1. o = d
      BY <2>5, RoomProperties DEF o
    <3>2. BackIn(d, r, c) = n - 1
      BY <1>2, <1>3, <1>5, <1>6, <2>1, <3>1, SMTT(30)
    <3>3. d.rows[r][c] = line[L + 1 - (n - 1)]
      BY <2>3, <3>2 DEF Shows
    <3>4. QED
      BY <2>1, <2>4, <3>1, <3>3 DEF n
  <2>6. CASE ~(d.col < Width)
    <3>1. d.col = Width /\ o = NewLine(d)
      BY <2>6, RoomProperties DEF o
    <3>2. o.col = 0 /\ \A i \in 1 .. Height - 1 : o.rows[i] = d.rows[i + 1]
      BY <3>1, NewLineProperties DEF Scrolled
    <3>3. r # Height
      BY <1>2, <1>5, <1>6, <2>1, <2>2, <3>2
    <3>4. r + 1 \in 1 .. Height /\ o.rows[r] = d.rows[r + 1]
      BY <3>2, <3>3
    <3>5. BackIn(d, r + 1, c) = (w - Width) + Width - c + 1
      <4>1. (Height - (r + 1)) * Width = w - Width
        BY <3>3, RowArithmetic DEF w
      <4>2. QED
        BY <3>1, <4>1 DEF BackIn
    <3>6. BackIn(d, r + 1, c) = n - 1
      BY <1>5, <1>6, <2>1, <3>2, <3>5
    <3>7. d.rows[r + 1][c] = line[L + 1 - (n - 1)]
      BY <2>3, <3>4, <3>6 DEF Shows
    <3>8. QED
      BY <2>1, <2>4, <3>4, <3>7 DEF n
  <2>7. QED
    BY <2>5, <2>6
<1>10. QED
  BY <1>8, <1>9

\* The bytes one after the other.
LEMMA WrittenIsScan ==
    ASSUME NEW d \in Sound, NEW bytes \in Seq(Char)
    PROVE  \E f \in [0 .. Len(bytes) -> Sound] :
              /\ f[0] = d
              /\ \A n \in 1 .. Len(bytes) : f[n] = WriteByte(f[n - 1], bytes[n])
              /\ Written(d, bytes) = f[Len(bytes)]
<1> DEFINE N == Len(bytes)
           after == CHOOSE f : f = [n \in 0 .. N |-> IF n = 0 THEN d ELSE WriteByte(f[n - 1], bytes[n])]
           step == [x \in (1 .. N) \X Sound |-> WriteByte(x[2], bytes[x[1]])]
<1>1. N \in Nat /\ (\A n \in 0 .. N : n # 0 => n \in 1 .. N) /\ \A n \in 1 .. N : bytes[n] \in Char
  BY LenProperties
<1>2. step \in Steps(N, Sound)
  BY <1>1, WriteByteSound DEF Steps
<1>3. Written(d, bytes) = after[N]
  BY DEF Written
<1> HIDE DEF N
<1>4. PICK f : Recurs(f, N, Sound, d, step)
  <2> HIDE DEF step
  <2>1. QED
    BY <1>1, <1>2, Recursion
<1>5. f \in [0 .. N -> Sound] /\ f[0] = d /\ \A n \in 1 .. N : f[n] = step[<<n, f[n - 1]>>]
  BY <1>4 DEF Recurs
<1>6. \A n \in 1 .. N : f[n] = WriteByte(f[n - 1], bytes[n])
  <2>1. \A n \in 1 .. N : n - 1 \in 0 .. N
    BY <1>1
  <2>2. \A n \in 1 .. N : <<n, f[n - 1]>> \in (1 .. N) \X Sound
    BY <1>5, <2>1
  <2>3. QED
    BY <1>5, <2>2
<1>7. f = [n \in 0 .. N |-> IF n = 0 THEN d ELSE WriteByte(f[n - 1], bytes[n])]
  <2> HIDE DEF step
  <2>1. \A n \in 0 .. N : f[n] = IF n = 0 THEN d ELSE WriteByte(f[n - 1], bytes[n])
    BY <1>1, <1>5, <1>6
  <2>2. QED
    BY <1>5, <2>1
<1>8. after = [n \in 0 .. N |-> IF n = 0 THEN d ELSE WriteByte(after[n - 1], bytes[n])]
  BY <1>7, Zenon
<1> HIDE DEF after, step
<1>9. after[0] = d /\ \A n \in 1 .. N : after[n] = WriteByte(after[n - 1], bytes[n])
  <2>1. 0 \in 0 .. N /\ \A n \in 1 .. N : n \in 0 .. N /\ n # 0
    BY <1>1
  <2>2. QED
    BY <1>8, <2>1, Zenon
<1> DEFINE S == {n \in Nat : after[n] \in Sound}
<1>10. 0 \in S
  BY <1>9
<1>11. ASSUME NEW n \in 0 .. N - 1, n \in S PROVE n + 1 \in S
  <2>1. n + 1 \in 1 .. N /\ n + 1 \in Nat /\ (n + 1) - 1 = n
    BY <1>1
  <2>2. after[n + 1] = WriteByte(after[n], bytes[n + 1]) /\ bytes[n + 1] \in Char
    BY <1>1, <1>9, <2>1
  <2>3. QED
    BY <1>11, <2>1, <2>2, WriteByteSound
<1> HIDE DEF S
<1>12. \A n \in 0 .. N : n \in S
  BY <1>1, <1>10, <1>11, BoundedInduction
<1>13. after \in [0 .. N -> Sound]
  BY <1>8, <1>12 DEF S
<1>14. QED
  BY <1>3, <1>9, <1>13 DEF N

LEMMA WrittenSound ==
    ASSUME NEW d \in Sound, NEW bytes \in Seq(Char)
    PROVE  Written(d, bytes) \in Sound
<1>1. Len(bytes) \in 0 .. Len(bytes)
  BY LenProperties
<1>2. QED
  BY <1>1, WrittenIsScan

LEMMA WrittenByte ==
    ASSUME NEW d \in Sound, NEW byte \in Char
    PROVE  Written(d, <<byte>>) = WriteByte(d, byte)
<1> DEFINE bytes == <<byte>>
<1>1. bytes \in Seq(Char) /\ Len(bytes) = 1 /\ bytes[1] = byte
  OBVIOUS
<1> HIDE DEF bytes
<1>2. PICK f : /\ f[0] = d
               /\ \A n \in 1 .. 1 : f[n] = WriteByte(f[n - 1], bytes[n])
               /\ Written(d, bytes) = f[1]
  BY <1>1, WrittenIsScan
<1>3. 1 \in 1 .. 1 /\ 1 - 1 = 0
  OBVIOUS
<1>4. f[1] = WriteByte(f[1 - 1], bytes[1])
  BY <1>2, <1>3
<1>5. QED
  BY <1>1, <1>2, <1>3, <1>4 DEF bytes

LEMMA WrittenErase ==
    ASSUME NEW d \in Sound
    PROVE  Written(d, <<BS, Blank, BS>>) = WriteByte(WriteByte(WriteByte(d, BS), Blank), BS)
<1> DEFINE bytes == <<BS, Blank, BS>>
<1>1. /\ bytes \in Seq(Char) /\ Len(bytes) = 3
      /\ bytes[1] = BS /\ bytes[2] = Blank /\ bytes[3] = BS
  BY Blanks
<1> HIDE DEF bytes
<1>2. PICK f : /\ f[0] = d
               /\ \A n \in 1 .. 3 : f[n] = WriteByte(f[n - 1], bytes[n])
               /\ Written(d, bytes) = f[3]
  BY <1>1, WrittenIsScan
<1>3. f[1] = WriteByte(f[0], bytes[1]) /\ f[2] = WriteByte(f[1], bytes[2]) /\ f[3] = WriteByte(f[2], bytes[3])
  <2>1. 1 \in 1 .. 3 /\ 2 \in 1 .. 3 /\ 3 \in 1 .. 3 /\ 1 - 1 = 0 /\ 2 - 1 = 1 /\ 3 - 1 = 2
    OBVIOUS
  <2>2. f[1] = WriteByte(f[1 - 1], bytes[1]) /\ f[2] = WriteByte(f[2 - 1], bytes[2]) /\ f[3] = WriteByte(f[3 - 1], bytes[3])
    BY <1>2, <2>1
  <2>3. QED
    BY <2>1, <2>2
<1>4. QED
  BY <1>1, <1>2, <1>3 DEF bytes

-----------------------------------------------------------------------------
(* The prompt, and the bytes that erase a character.                       *)

LEMMA LongerPrefix ==
    ASSUME NEW line \in Seq(Char), NEW n \in 0 .. Len(line) - 1
    PROVE  /\ SubSeq(line, 1, n) \in Seq(Char)
           /\ SubSeq(line, 1, n + 1) = Append(SubSeq(line, 1, n), line[n + 1])
<1>1. Len(line) \in Nat /\ \A i \in 1 .. Len(line) : line[i] \in Char
  BY LenProperties
<1>2. \A i \in 1 .. n + 1 : i \in 1 .. Len(line)
  BY <1>1
<1> DEFINE s == SubSeq(line, 1, n)
           t == SubSeq(line, 1, n + 1)
           u == Append(s, line[n + 1])
<1>3. s \in Seq(Char) /\ Len(s) = n /\ \A i \in 1 .. n : s[i] = line[i]
  BY <1>1, <1>2, SubSeqProperties
<1>4. t \in Seq(Char) /\ Len(t) = n + 1 /\ \A i \in 1 .. n + 1 : t[i] = line[i]
  BY <1>1, <1>2, SubSeqProperties
<1> HIDE DEF s, t
<1>5. /\ u \in Seq(Char) /\ Len(u) = n + 1 /\ u[n + 1] = line[n + 1]
      /\ \A i \in 1 .. n : u[i] = s[i]
  BY <1>1, <1>2, <1>3, AppendProperties
<1> HIDE DEF u
<1>6. \A i \in 1 .. n + 1 : t[i] = u[i]
  BY <1>3, <1>4, <1>5
<1>7. t = u
  BY <1>4, <1>5, <1>6, SeqEqual
<1>8. QED
  BY <1>3, <1>7 DEF s, t, u

LEMMA PromptShown ==
    ASSUME NEW d \in Sound
    PROVE  Shows(Written(d, Prompt), Prompt \o << >>)
<1> DEFINE N == Len(Prompt)
<1>1. /\ Prompt \in Seq(Char) /\ N \in Nat
      /\ \A i \in 1 .. N : Prompt[i] \in Char /\ Prompt[i] # BS /\ Prompt[i] # NL
  BY TerminalTypes, LenProperties
<1>2. PICK f \in [0 .. N -> Sound] :
         /\ f[0] = d
         /\ \A n \in 1 .. N : f[n] = WriteByte(f[n - 1], Prompt[n])
         /\ Written(d, Prompt) = f[N]
  BY <1>1, WrittenIsScan
<1> HIDE DEF N
<1> DEFINE S == {n \in Nat : Shows(f[n], SubSeq(Prompt, 1, n))}
<1>3. 0 \in S
  <2>1. SubSeq(Prompt, 1, 0) = << >>
    BY SubSeqEmpty
  <2>2. Len(<< >>) = 0
    OBVIOUS
  <2>3. Shows(f[0], << >>)
    BY <2>2 DEF Shows
  <2>4. QED
    BY <2>1, <2>3
<1>4. ASSUME NEW n \in 0 .. N - 1, n \in S PROVE n + 1 \in S
  <2>1. n + 1 \in 1 .. N /\ n + 1 \in Nat /\ (n + 1) - 1 = n /\ n \in 0 .. N
    BY <1>1
  <2>2. f[n + 1] = WriteByte(f[n], Prompt[n + 1]) /\ f[n] \in Sound
    BY <1>2, <2>1
  <2>3. SubSeq(Prompt, 1, n) \in Seq(Char) /\ SubSeq(Prompt, 1, n + 1) = Append(SubSeq(Prompt, 1, n), Prompt[n + 1])
    BY <1>1, LongerPrefix DEF N
  <2>4. Shows(f[n], SubSeq(Prompt, 1, n))
    BY <1>4
  <2>5. Shows(WriteByte(f[n], Prompt[n + 1]), Append(SubSeq(Prompt, 1, n), Prompt[n + 1]))
    BY <1>1, <2>1, <2>2, <2>3, <2>4, ShowsNext
  <2>6. QED
    BY <2>1, <2>2, <2>3, <2>5
<1> HIDE DEF S
<1>5. \A n \in 0 .. N : n \in S
  BY <1>1, <1>3, <1>4, BoundedInduction
<1>6. Shows(f[N], SubSeq(Prompt, 1, N))
  BY <1>1, <1>5 DEF S
<1>7. SubSeq(Prompt, 1, N) = Prompt /\ Prompt \o << >> = Prompt
  BY <1>1, SubSeqFull, ConcatEmptySeq DEF N
<1>8. QED
  BY <1>2, <1>6, <1>7

\* read_line's answer to a backspace.
Erased(d) == Written(d, <<BS, Blank, BS>>)

LEMMA ErasedProperties ==
    ASSUME NEW d \in Sound
    PROVE  /\ Erased(d) \in Sound
           /\ Scrolled(Erased(d), d, 0)
           /\ d.col > 0 =>
                 /\ Erased(d).col = d.col - 1
                 /\ \A r \in 1 .. Height, c \in 1 .. Width :
                       r # Height \/ c < d.col => Erased(d).rows[r][c] = d.rows[r][c]
<1> DEFINE e == WriteByte(d, BS)
           o == Room(e)
           f == WriteByte(e, Blank)
           g == WriteByte(f, BS)
<1>1. Erased(d) = g
  BY WrittenErase DEF Erased
<1>2. d.col \in 0 .. Width
  BY DEF Sound, Displays
<1>3. Blank # NL /\ Blank # BS /\ Blank \in Char
  BY Blanks DEF Blank, NL, BS
<1>4. /\ e \in Sound /\ Scrolled(e, d, 0)
      /\ d.col = 0 => e = d
      /\ d.col > 0 => /\ e.col = d.col - 1
                      /\ \A r \in 1 .. Height, c \in 1 .. Width :
                            r # Height \/ c # d.col => e.rows[r][c] = d.rows[r][c]
  BY Backspace
<1>5. e.col < Width
  BY <1>2, <1>4
<1> HIDE DEF e
<1>6. o = e
  BY <1>4, <1>5, RoomProperties
<1>7. /\ f \in Sound /\ f.col = e.col + 1 /\ Scrolled(f, e, 0)
      /\ \A r \in 1 .. Height, c \in 1 .. Width :
            r # Height \/ c # e.col + 1 => f.rows[r][c] = e.rows[r][c]
  BY <1>3, <1>4, <1>6, PlainByte
<1> HIDE DEF f
<1>8. e.col \in 0 .. Width
  BY <1>4 DEF Sound, Displays
<1>9. /\ g \in Sound /\ g.col = f.col - 1 /\ Scrolled(g, f, 0)
      /\ \A r \in 1 .. Height, c \in 1 .. Width :
            r # Height \/ c # f.col => g.rows[r][c] = f.rows[r][c]
  <2>1. f.col > 0
    BY <1>7, <1>8
  <2>2. QED
    BY <1>7, <2>1, Backspace
<1> HIDE DEF g
<1>10. Scrolled(g, d, 0)
  BY <1>4, <1>7, <1>9 DEF Scrolled
<1>11. ASSUME d.col > 0
       PROVE  /\ g.col = d.col - 1
              /\ \A r \in 1 .. Height, c \in 1 .. Width :
                    r # Height \/ c < d.col => g.rows[r][c] = d.rows[r][c]
  <2>1. e.col = d.col - 1 /\ f.col = d.col /\ g.col = d.col - 1 /\ e.col + 1 = d.col
    BY <1>2, <1>4, <1>7, <1>9, <1>11
  <2>2. \A c \in 1 .. Width : c < d.col => c # d.col
    BY <1>2
  <2>3. QED
    BY <1>4, <1>7, <1>9, <1>11, <2>1, <2>2
<1>12. QED
  BY <1>1, <1>9, <1>10, <1>11

LEMMA ShowsLess ==
    ASSUME NEW d \in Sound, d.col > 0, NEW line \in Seq(Char), Len(line) > 0, Shows(d, line),
           NEW less \in Seq(Char), Len(less) = Len(line) - 1, \A i \in 1 .. Len(line) - 1 : less[i] = line[i]
    PROVE  Shows(Erased(d), less)
<1> DEFINE L == Len(line)
           e == Erased(d)
<1>1. /\ e.col = d.col - 1
      /\ \A r \in 1 .. Height, c \in 1 .. Width :
            r # Height \/ c < d.col => e.rows[r][c] = d.rows[r][c]
  BY ErasedProperties
<1>2. L \in Nat /\ d.col \in 0 .. Width /\ d.col > 0
  BY LenProperties DEF Sound, Displays
<1> HIDE DEF L, e
<1> SUFFICES ASSUME NEW r \in 1 .. Height, NEW c \in 1 .. Width, BackIn(e, r, c) \in 1 .. L - 1
             PROVE  e.rows[r][c] = less[(L - 1) + 1 - BackIn(e, r, c)]
  BY DEF Shows, L, e
<1> DEFINE w == (Height - r) * Width
           n == BackIn(d, r, c)
           k == d.col
<1>3. w \in Nat /\ (r = Height => w = 0) /\ (r # Height => w >= Width)
  BY RowArithmetic
<1>4. BackIn(e, r, c) = w + e.col - c + 1 /\ n = w + k - c + 1
  BY DEF BackIn
<1>5. e.col = k - 1 /\ k \in 1 .. Width /\ c \in 1 .. Width
  BY <1>1, <1>2
<1> HIDE DEF w, n, k
<1>6. BackIn(e, r, c) = n - 1 /\ n \in Int
  BY <1>3, <1>4, <1>5
<1>7. n \in 2 .. L
  BY <1>2, <1>6
<1>8. r # Height \/ c < k
  BY <1>3, <1>4, <1>5, <1>7
<1>9. e.rows[r][c] = d.rows[r][c]
  BY <1>1, <1>8 DEF k
<1>10. n \in 1 .. L /\ L + 1 - n \in 1 .. L - 1 /\ (L - 1) + 1 - (n - 1) = L + 1 - n
  BY <1>2, <1>7
<1>11. d.rows[r][c] = line[L + 1 - n]
  BY <1>10 DEF Shows, L, n
<1>12. less[L + 1 - n] = line[L + 1 - n]
  BY <1>10 DEF L
<1>13. QED
  BY <1>6, <1>9, <1>10, <1>11, <1>12

-----------------------------------------------------------------------------
(* The invariant.                                                          *)

TerminalInv ==
    /\ screen \in Rows
    /\ column \in 0 .. Width
    /\ mode \in {"off", "printing", "reading"}
    /\ buf \in Seq(Keys) /\ Len(buf) <= MaxLine
    /\ crossed \in BOOLEAN
    /\ BlankBeyondCursor
    /\ ScreenShowsLine

\* While a line is typed nothing moves by more than this.
ScrollStep ==
    mode = "reading" =>
        \E k \in 0 .. IF mode' # mode \/ Len(buf') > Len(buf) THEN 1 ELSE 0 :
            \A r \in 1 .. Height - 1 : screen'[r] = screen[r + k]

LineShown == Shows(Display, Prompt \o buf)

LEMMA DisplayFacts ==
    /\ Display.rows = screen /\ Display.col = column
    /\ TerminalInv /\ mode # "off" => Display \in Sound
    /\ ScreenShowsLine <=> (mode = "reading" /\ ~crossed => LineShown)
<1>1. Display.rows = screen /\ Display.col = column
  BY DEF Display
<1>2. ASSUME TerminalInv, mode # "off" PROVE Display \in Sound
  <2>1. Display \in Displays
    BY <1>2 DEF Display, Displays, TerminalInv
  <2>2. BlankBehind(Display)
    BY <1>1, <1>2 DEF TerminalInv, BlankBeyondCursor, BlankBehind
  <2>3. QED
    BY <2>1, <2>2 DEF Sound
<1>3. \A r, c : BackIn(Display, r, c) = Back(r, c)
  BY <1>1 DEF BackIn, Back
<1>4. ScreenShowsLine <=> (mode = "reading" /\ ~crossed => LineShown)
  <2> DEFINE line == Prompt \o buf
             Held == \A r \in 1 .. Height, c \in 1 .. Width :
                Back(r, c) \in 1 .. Len(line) => screen[r][c] = line[Len(line) + 1 - Back(r, c)]
  <2>1. LineShown <=> Held
    BY <1>1, <1>3, SMTT(30) DEF Shows, LineShown
  <2>2. ScreenShowsLine <=> (mode = "reading" /\ ~crossed => Held)
    BY DEF ScreenShowsLine
  <2> HIDE DEF Held
  <2>3. QED
    BY <2>1, <2>2
<1>5. QED
  BY <1>1, <1>2, <1>4

\* What is shown, is what the writer has left.
LEMMA Shown ==
    ASSUME NEW d \in Sound, Show(d)
    PROVE  /\ Display' = d /\ screen' = d.rows /\ column' = d.col
           /\ screen' \in Rows /\ column' \in 0 .. Width
           /\ BlankBeyondCursor'
<1>1. screen' = d.rows /\ column' = d.col
  BY DEF Show
<1>2. d \in Displays /\ BlankBehind(d)
  BY DEF Sound
<1>3. Display' = [rows |-> screen', col |-> column']
  BY DEF Display
<1>4. d = [rows |-> d.rows, col |-> d.col]
  BY <1>2 DEF Displays
<1>5. Display' = d
  BY <1>1, <1>3, <1>4
<1>6. d.rows \in Rows /\ d.col \in 0 .. Width
  BY <1>2 DEF Displays
<1>7. BlankBeyondCursor'
  BY <1>1, <1>2 DEF BlankBeyondCursor, BlankBehind
<1>8. QED
  BY <1>1, <1>5, <1>6, <1>7

LEMMA ShowsLineNext == ScreenShowsLine' <=> (mode' = "reading" /\ ~crossed' => Shows(Display', Prompt \o buf'))
<1>1. (ScreenShowsLine <=> (mode = "reading" /\ ~crossed => Shows(Display, Prompt \o buf)))'
  BY DisplayFacts, PTL DEF LineShown
<1>2. QED
  BY <1>1

LEMMA TerminalInit == Init => TerminalInv
<1> SUFFICES ASSUME Init PROVE TerminalInv
  OBVIOUS
<1>1. /\ screen = [r \in 1 .. Height |-> [c \in 1 .. Width |-> Leftover]]
      /\ column = 0 /\ mode = "off" /\ buf = << >> /\ crossed = FALSE
  BY DEF Init
<1>2. screen \in Rows
  BY <1>1, Blanks DEF Rows
<1>3. buf \in Seq(Keys) /\ Len(buf) <= MaxLine
  BY <1>1, EmptySeq
<1>4. BlankBeyondCursor /\ ScreenShowsLine
  BY <1>1 DEF BlankBeyondCursor, ScreenShowsLine
<1>5. column \in 0 .. Width /\ crossed \in BOOLEAN /\ mode \in {"off", "printing", "reading"}
  <2>1. 0 \in 0 .. Width /\ column = 0
    BY <1>1
  <2>2. crossed \in BOOLEAN
    BY <1>1, Zenon
  <2>3. QED
    BY <1>1, <2>1, <2>2
<1>6. QED
  BY <1>2, <1>3, <1>4, <1>5 DEF TerminalInv

LEMMA BootStep ==
    ASSUME TerminalInv, Boot
    PROVE  TerminalInv' /\ ScrollStep
<1> DEFINE d == [rows |-> [r \in 1 .. Height |-> BlankRow], col |-> 0]
           text == [i \in 1 .. Len(BootText) |-> IF BootText[i] = BS THEN Square ELSE BootText[i]]
<1>1. d \in Sound
  <2>1. [r \in 1 .. Height |-> BlankRow] \in Rows
    BY Blanks DEF Rows
  <2>2. d \in Displays
    BY <2>1 DEF Displays
  <2>3. d.rows[Height] = BlankRow /\ d.col = 0
    BY Blanks
  <2>4. BlankBehind(d)
    BY <2>3, Blanks DEF BlankBehind
  <2>5. QED
    BY <2>2, <2>4 DEF Sound
<1>2. text \in Seq(Char)
  <2>1. BootText \in Seq(Char)
    BY TerminalTypes
  <2>2. Len(BootText) \in Nat /\ \A i \in 1 .. Len(BootText) : BootText[i] \in Char
    BY <2>1, LenProperties
  <2>3. text \in [1 .. Len(BootText) -> Char]
    BY <2>2, Blanks
  <2>4. QED
    BY <2>2, <2>3
<1>3. Show(Written(d, text)) /\ mode = "off" /\ mode' = "printing" /\ buf' = buf /\ crossed' = crossed
  BY DEF Boot, Printed
<1> HIDE DEF d, text
<1>4. Written(d, text) \in Sound
  BY <1>1, <1>2, WrittenSound
<1>5. screen' \in Rows /\ column' \in 0 .. Width /\ BlankBeyondCursor'
  BY <1>3, <1>4, Shown
<1>6. ScreenShowsLine'
  BY <1>3 DEF ScreenShowsLine
<1>7. QED
  BY <1>3, <1>5, <1>6 DEF TerminalInv, ScrollStep

LEMMA OutputStep ==
    ASSUME TerminalInv, NEW bytes \in Outputs, Output(bytes)
    PROVE  TerminalInv' /\ ScrollStep
<1>1. /\ Show(Written(Display, bytes)) /\ mode = "printing"
      /\ mode' = mode /\ buf' = buf /\ crossed' = crossed
  BY DEF Output
<1>2. Display \in Sound /\ bytes \in Seq(Char)
  BY <1>1, DisplayFacts, TerminalTypes
<1>3. screen' \in Rows /\ column' \in 0 .. Width /\ BlankBeyondCursor'
  BY <1>1, <1>2, WrittenSound, Shown
<1>4. ScreenShowsLine'
  BY <1>1 DEF ScreenShowsLine
<1>5. QED
  BY <1>1, <1>3, <1>4 DEF TerminalInv, ScrollStep

LEMMA StartLineStep ==
    ASSUME TerminalInv, StartLine
    PROVE  TerminalInv' /\ ScrollStep
<1>1. /\ Show(Written(Display, Prompt)) /\ mode = "printing" /\ mode' = "reading"
      /\ buf' = << >> /\ crossed' = FALSE
  BY DEF StartLine
<1>2. Display \in Sound /\ Prompt \in Seq(Char)
  BY <1>1, DisplayFacts, TerminalTypes
<1>3. /\ screen' \in Rows /\ column' \in 0 .. Width /\ BlankBeyondCursor'
      /\ Display' = Written(Display, Prompt)
  BY <1>1, <1>2, WrittenSound, Shown
<1>4. Shows(Display', Prompt \o << >>)
  BY <1>2, <1>3, PromptShown
<1>5. ScreenShowsLine'
  BY <1>1, <1>4, ShowsLineNext
<1>6. buf' \in Seq(Keys) /\ Len(buf') <= MaxLine
  BY <1>1, EmptySeq
<1>7. QED
  BY <1>1, <1>3, <1>5, <1>6 DEF TerminalInv, ScrollStep

LEMMA KeysAreChars ==
    /\ Keys \subseteq Char /\ \A s \in Seq(Keys) : s \in Seq(Char)
    /\ \A key \in Keys : key # NL /\ key # BS
    /\ Prompt \in Seq(Char)
BY TerminalTypes, SeqMonotonic

LEMMA TypeStep ==
    ASSUME TerminalInv, NEW key \in Keys, Type(key)
    PROVE  TerminalInv' /\ ScrollStep
<1>1. mode = "reading" /\ mode' = mode /\ crossed' = crossed
  BY DEF Type
<1>2. Display \in Sound
  BY <1>1, DisplayFacts
<1>3. buf \in Seq(Keys) /\ Len(buf) \in Nat
  BY LenProperties DEF TerminalInv
<1>4. CASE Len(buf) < MaxLine
  <2> DEFINE e == WriteByte(Display, key)
             line == Prompt \o buf
  <2>1. buf' = Append(buf, key) /\ Show(Written(Display, <<key>>))
    BY <1>4 DEF Type, HasEcho
  <2>2. /\ buf' \in Seq(Keys) /\ Len(buf') = Len(buf) + 1
    BY <1>3, <2>1, AppendProperties
  <2>3. Show(e) /\ e \in Sound
    BY <1>2, <2>1, WrittenByte, WriteByteSound, KeysAreChars
  <2>4. /\ Display' = e /\ screen' = e.rows /\ screen' \in Rows /\ column' \in 0 .. Width
        /\ BlankBeyondCursor'
    BY <2>3, Shown
  <2>5. ASSUME ~crossed PROVE Shows(Display', Prompt \o buf')
    <3>1. Shows(Display, line)
      BY <1>1, <2>5, DisplayFacts DEF TerminalInv, LineShown
    <3>2. line \in Seq(Char)
      BY <1>3, KeysAreChars, ConcatProperties
    <3>3. Shows(e, Append(line, key))
      BY <1>2, <3>1, <3>2, ShowsNext, KeysAreChars
    <3>4. Prompt \o Append(buf, key) = Append(line, key)
      <4>1. buf \in Seq(Char) /\ key \in Char /\ <<key>> \in Seq(Char) /\ Prompt \in Seq(Char)
        BY <1>3, KeysAreChars
      <4>2. Append(buf, key) = buf \o <<key>> /\ Append(line, key) = line \o <<key>>
        BY <3>2, <4>1, AppendIsConcat
      <4>3. line \o <<key>> = Prompt \o (buf \o <<key>>)
        BY <4>1, ConcatAssociative
      <4>4. QED
        BY <4>2, <4>3
    <3>5. QED
      BY <2>1, <2>4, <3>3, <3>4
  <2>6. ScreenShowsLine'
    BY <1>1, <2>5, ShowsLineNext
  <2>7. ScrollStep
    <3>1. \E k \in 0 .. 1 : Scrolled(e, Display, k)
      <4>1. Scrolled(e, Room(Display), 0)
        BY <1>2, PlainByte, KeysAreChars
      <4>2. CASE Display.col < Width
        BY <1>2, <4>1, <4>2, RoomProperties
      <4>3. CASE ~(Display.col < Width)
        <5>1. Room(Display) = NewLine(Display) /\ Scrolled(NewLine(Display), Display, 1)
          BY <1>2, <4>3, RoomProperties, NewLineProperties
        <5>2. Scrolled(e, Display, 1)
          BY <4>1, <5>1 DEF Scrolled
        <5>3. QED
          BY <5>2
      <4>4. QED
        BY <4>2, <4>3
    <3>2. Len(buf') > Len(buf)
      BY <1>3, <2>2
    <3> HIDE DEF e
    <3>3. QED
      BY <2>4, <3>1, <3>2, DisplayFacts DEF ScrollStep, Scrolled
  <2>8. QED
    BY <1>1, <1>3, <1>4, <2>2, <2>4, <2>6, <2>7 DEF TerminalInv
<1>5. CASE ~(Len(buf) < MaxLine)
  <2>1. buf' = buf /\ screen' = screen /\ column' = column
    BY <1>5 DEF Type, HasEcho
  <2>2. BlankBeyondCursor' /\ ScreenShowsLine'
    BY <1>1, <2>1 DEF TerminalInv, BlankBeyondCursor, ScreenShowsLine, Back
  <2>3. ScrollStep
    <3>1. \A r \in 1 .. Height - 1 : screen'[r] = screen[r + 0]
      BY <2>1
    <3>2. 0 \in 0 .. IF mode' # mode \/ Len(buf') > Len(buf) THEN 1 ELSE 0
      OBVIOUS
    <3>3. QED
      BY <3>1, <3>2 DEF ScrollStep
  <2>4. QED
    BY <1>1, <2>1, <2>2, <2>3 DEF TerminalInv
<1>6. QED
  BY <1>4, <1>5

LEMMA EraseStep ==
    ASSUME TerminalInv, Erase
    PROVE  TerminalInv' /\ ScrollStep
<1>1. mode = "reading" /\ mode' = mode
  BY DEF Erase
<1>2. Display \in Sound
  BY <1>1, DisplayFacts
<1>3. buf \in Seq(Keys) /\ Len(buf) \in Nat /\ column \in 0 .. Width /\ crossed \in BOOLEAN
  BY LenProperties DEF TerminalInv
<1>4. CASE Len(buf) > 0
  <2> DEFINE e == Erased(Display)
             line == Prompt \o buf
             less == Prompt \o buf'
  <2>1. buf' = SubSeq(buf, 1, Len(buf) - 1) /\ Show(e) /\ crossed' = (crossed \/ column = 0)
    BY <1>4 DEF Erase, Erased
  <2>2. /\ buf' \in Seq(Keys) /\ Len(buf') = Len(buf) - 1
        /\ \A i \in 1 .. Len(buf) - 1 : buf'[i] = buf[i]
    <3>1. Len(buf) - 1 \in Int /\ \A i \in 1 .. Len(buf) - 1 : i \in 1 .. Len(buf)
      BY <1>3
    <3>2. \A i \in 1 .. Len(buf) - 1 : buf[i] \in Keys
      BY <1>3, <3>1, LenProperties
    <3>3. QED
      <4> DEFINE n == Len(buf) - 1
                 s == SubSeq(buf, 1, n)
      <4>1. n \in Nat /\ n - 1 + 1 = n /\ \A i \in 1 .. n : 1 + i - 1 = i
        BY <1>3, <1>4
      <4>2. \A i \in 1 .. n : buf[i] \in Keys
        BY <3>2
      <4> HIDE DEF n
      <4>3. s \in Seq(Keys) /\ Len(s) = n /\ \A i \in 1 .. n : s[i] = buf[i]
        BY <4>1, <4>2, SubSeqProperties
      <4>4. QED
        BY <2>1, <4>3 DEF n
  <2>3. e \in Sound /\ Scrolled(e, Display, 0)
    BY <1>2, ErasedProperties
  <2>4. /\ Display' = e /\ screen' = e.rows /\ screen' \in Rows /\ column' \in 0 .. Width
        /\ BlankBeyondCursor'
    BY <2>1, <2>3, Shown
  <2>5. ASSUME ~crossed' PROVE Shows(Display', less)
    <3>1. ~crossed /\ Display.col > 0
      <4>1. ~crossed /\ column # 0
        BY <2>1, <2>5
      <4>2. column > 0
        BY <1>3, <4>1
      <4>3. QED
        BY <4>1, <4>2, DisplayFacts
    <3>2. Shows(Display, line)
      BY <1>1, <3>1, DisplayFacts DEF TerminalInv, LineShown
    <3>3. /\ line \in Seq(Char) /\ Len(line) = Len(Prompt) + Len(buf) /\ Len(Prompt) \in Nat
          /\ \A i \in 1 .. Len(Prompt) + Len(buf) :
                line[i] = IF i <= Len(Prompt) THEN Prompt[i] ELSE buf[i - Len(Prompt)]
      BY <1>3, KeysAreChars, ConcatProperties, LenProperties
    <3>4. /\ less \in Seq(Char) /\ Len(less) = Len(Prompt) + Len(buf')
          /\ \A i \in 1 .. Len(Prompt) + Len(buf') :
                less[i] = IF i <= Len(Prompt) THEN Prompt[i] ELSE buf'[i - Len(Prompt)]
      BY <2>2, KeysAreChars, ConcatProperties
    <3> HIDE DEF line, less
    <3>5. Len(less) = Len(line) - 1 /\ Len(line) > 0
      BY <1>3, <1>4, <2>2, <3>3, <3>4
    <3>6. ASSUME NEW i \in 1 .. Len(line) - 1 PROVE less[i] = line[i]
      <4>1. i \in 1 .. Len(Prompt) + Len(buf) /\ i \in 1 .. Len(Prompt) + Len(buf')
        BY <1>3, <2>2, <3>3
      <4>2. ~(i <= Len(Prompt)) => i - Len(Prompt) \in 1 .. Len(buf) - 1
        BY <1>3, <3>3
      <4>3. QED
        BY <2>2, <3>3, <3>4, <4>1, <4>2
    <3>7. Shows(Erased(Display), less)
      BY <1>2, <3>1, <3>2, <3>3, <3>4, <3>5, <3>6, ShowsLess
    <3>8. QED
      BY <2>4, <3>7
  <2>6. ScreenShowsLine'
    BY <2>5, ShowsLineNext
  <2>7. ScrollStep
    <3>1. \A r \in 1 .. Height - 1 : screen'[r] = screen[r + 0]
      BY <2>3, <2>4, DisplayFacts DEF Scrolled
    <3>2. 0 \in 0 .. IF mode' # mode \/ Len(buf') > Len(buf) THEN 1 ELSE 0
      OBVIOUS
    <3>3. QED
      BY <3>1, <3>2 DEF ScrollStep
  <2>8. QED
    <3>1. Len(buf') <= MaxLine /\ crossed' \in BOOLEAN
      BY <1>3, <2>1, <2>2 DEF TerminalInv
    <3>2. QED
      BY <1>1, <2>2, <2>4, <2>6, <2>7, <3>1 DEF TerminalInv
<1>5. CASE ~(Len(buf) > 0)
  <2>1. buf' = buf /\ screen' = screen /\ column' = column /\ crossed' = crossed
    BY <1>5 DEF Erase
  <2>2. BlankBeyondCursor' /\ ScreenShowsLine'
    BY <1>1, <2>1 DEF TerminalInv, BlankBeyondCursor, ScreenShowsLine, Back
  <2>3. ScrollStep
    <3>1. \A r \in 1 .. Height - 1 : screen'[r] = screen[r + 0]
      BY <2>1
    <3>2. 0 \in 0 .. IF mode' # mode \/ Len(buf') > Len(buf) THEN 1 ELSE 0
      OBVIOUS
    <3>3. QED
      BY <3>1, <3>2 DEF ScrollStep
  <2>4. QED
    BY <1>1, <2>1, <2>2, <2>3 DEF TerminalInv
<1>6. QED
  BY <1>4, <1>5

LEMMA EnterStep ==
    ASSUME TerminalInv, Enter
    PROVE  TerminalInv' /\ ScrollStep
<1>1. /\ mode = "reading" /\ mode' = "printing" /\ buf' = buf /\ crossed' = crossed
      /\ Show(Written(Display, <<NL>>))
  BY DEF Enter
<1>2. Display \in Sound /\ NL \in Char
  BY <1>1, DisplayFacts, Blanks
<1> DEFINE e == NewLine(Display)
<1>3. Written(Display, <<NL>>) = e
  BY <1>2, WrittenByte, WriteByteCases
<1>4. e \in Sound /\ Scrolled(e, Display, 1)
  BY <1>2, NewLineProperties
<1>5. screen' = e.rows /\ screen' \in Rows /\ column' \in 0 .. Width /\ BlankBeyondCursor'
  BY <1>1, <1>3, <1>4, Shown
<1>6. ScreenShowsLine'
  BY <1>1 DEF ScreenShowsLine
<1>7. ScrollStep
  <2>1. \A r \in 1 .. Height - 1 : screen'[r] = screen[r + 1]
    BY <1>4, <1>5, DisplayFacts DEF Scrolled
  <2>2. 1 \in 0 .. IF mode' # mode \/ Len(buf') > Len(buf) THEN 1 ELSE 0
    BY <1>1
  <2>3. QED
    BY <2>1, <2>2 DEF ScrollStep
<1>8. QED
  BY <1>1, <1>5, <1>6, <1>7 DEF TerminalInv

LEMMA TerminalStep ==
    ASSUME TerminalInv, [Next]_terminalVars
    PROVE  TerminalInv' /\ (ScrollStep \/ UNCHANGED terminalVars)
<1>1. CASE UNCHANGED terminalVars
  <2>1. screen' = screen /\ column' = column /\ mode' = mode /\ buf' = buf /\ crossed' = crossed
    BY <1>1 DEF terminalVars
  <2>2. BlankBeyondCursor' /\ ScreenShowsLine'
    BY <2>1 DEF TerminalInv, BlankBeyondCursor, ScreenShowsLine, Back
  <2>3. QED
    BY <1>1, <2>1, <2>2 DEF TerminalInv
<1>2. CASE Next
  BY <1>2, BootStep, OutputStep, StartLineStep, TypeStep, EraseStep, EnterStep DEF Next
<1>3. QED
  BY <1>1, <1>2

-----------------------------------------------------------------------------
(* Theorems.                                                               *)

\* The shell's read_line and the writer keep the invariant.
THEOREM TerminalInvariance == Spec => []TerminalInv
<1>1. TerminalInv /\ [Next]_terminalVars => TerminalInv'
  BY TerminalStep
<1>2. QED
  BY TerminalInit, <1>1, PTL DEF Spec

\* write_byte puts no byte outside the buffer of the screen, and read_line none
\* outside the line's.
THEOREM TerminalTypeCorrectness == Spec => []TypeOK
<1>1. TerminalInv => TypeOK
  BY DEF TerminalInv, TypeOK, Rows
<1>2. QED
  BY TerminalInvariance, <1>1, PTL

\* Nothing is left behind the cursor, whatever is printed, typed and erased.
THEOREM BlankBehindCursor == Spec => []BlankBeyondCursor
<1>1. TerminalInv => BlankBeyondCursor
  BY DEF TerminalInv
<1>2. QED
  BY TerminalInvariance, <1>1, PTL

\* What is seen is what return enters, for every width, height and length.
THEOREM SeenIsEntered == Spec => []ScreenShowsLine
<1>1. TerminalInv => ScreenShowsLine
  BY DEF TerminalInv
<1>2. QED
  BY TerminalInvariance, <1>1, PTL

\* Editing a line moves the rows above by one at most and changes none.
THEOREM EditingStaysInRow == Spec => RowsAboveOnlyScroll
<1>1. TerminalInv /\ [Next]_terminalVars => [ScrollStep]_terminalVars
  BY TerminalStep
<1>2. QED
  BY TerminalInvariance, <1>1, PTL DEF Spec, RowsAboveOnlyScroll, ScrollStep
=============================================================================
