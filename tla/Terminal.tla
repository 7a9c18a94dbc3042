------------------------------ MODULE Terminal ------------------------------
(***************************************************************************)
(* Typing a command: read_line of the shell (userspace/apps/init) and the   *)
(* screen it echoes to, the Writer of kernel/src/vga_buffer.rs, which the   *)
(* write system call feeds byte by byte.                                   *)
(*                                                                         *)
(* Bytes are strings of one character, with BS for 8 and NL for newline.    *)
(* The writer knows no other control: everything else takes a cell.         *)
(***************************************************************************)
EXTENDS Integers, Sequences

CONSTANTS
    Width, Height,    \* BUFFER_WIDTH, BUFFER_HEIGHT
    Char,             \* bytes
    MaxLine,          \* MAX_LINE
    Prompt,           \* the shell's prompt
    Keys,             \* bytes a user may type, other than return and backspace
    Outputs,          \* what programs and the shell may print in one write
    BootText,         \* what the kernel prints before it starts the shell
    Leftover          \* what the firmware may have left in a cell

ASSUME TerminalSizes == Width \in Nat \ {0} /\ Height \in Nat \ {0} /\ MaxLine \in Nat

VARIABLES
    screen,     \* Buffer.chars: a sequence of rows
    column,     \* column_position
    mode,       \* "off", "printing", "reading" (in read_line)
    buf,        \* the line read so far
    crossed     \* history: a character was erased that is not in the last row

terminalVars == <<screen, column, mode, buf, crossed>>

BS == "BS"
NL == "NL"
Blank == " "
Square == "0xfe"
BlankRow == [c \in 1 .. Width |-> Blank]

\* The prompt is a line of plain text.
ASSUME TerminalTypes ==
    /\ {BS, NL, Blank, Square, Leftover} \cup Keys \subseteq Char
    /\ Outputs \cup {Prompt, BootText} \subseteq Seq(Char)
    /\ BS \notin Keys /\ NL \notin Keys
    /\ \A i \in 1 .. Len(Prompt) : Prompt[i] # BS /\ Prompt[i] # NL

-----------------------------------------------------------------------------
(* The writer, on a record of its two variables.                           *)

Display == [rows |-> screen, col |-> column]

\* Mutation: the row that was last is not cleared.
RowLeft(d) == d.rows[Height]

RowEntered(d) == BlankRow

NewLine(d) ==
    [rows |-> [r \in 1 .. Height |-> IF r = Height THEN RowEntered(d) ELSE d.rows[r + 1]],
     col  |-> 0]

\* A byte in column col + 1 of the last row.
Put(rows, col, byte) == [rows EXCEPT ![Height] = [@ EXCEPT ![col + 1] = byte]]

\* Mutation: off by one.
IsFullLate(d) == d.col > Width

IsFull(d) == d.col >= Width

\* Mutation: backspace in the first column goes to the row above.
WriteByteUpwards(d, byte) ==
    CASE byte = NL -> NewLine(d)
      [] byte = BS ->
             IF d.col > 0 THEN [rows |-> Put(d.rows, d.col - 1, Blank), col |-> d.col - 1]
             ELSE IF Height = 1 THEN d
             ELSE [rows |-> [d.rows EXCEPT ![Height - 1][Width] = Blank], col |-> 0]
      [] OTHER     -> LET room == IF IsFull(d) THEN NewLine(d) ELSE d
                      IN  [rows |-> Put(room.rows, room.col, byte), col |-> room.col + 1]

\* Writer::write_byte.
WriteByte(d, byte) ==
    CASE byte = NL -> NewLine(d)
      [] byte = BS ->
             IF d.col > 0 THEN [rows |-> Put(d.rows, d.col - 1, Blank), col |-> d.col - 1] ELSE d
      [] OTHER     -> LET room == IF IsFull(d) THEN NewLine(d) ELSE d
                      IN  [rows |-> Put(room.rows, room.col, byte), col |-> room.col + 1]

Written(d, bytes) ==
    LET after[n \in 0 .. Len(bytes)] == IF n = 0 THEN d ELSE WriteByte(after[n - 1], bytes[n])
    IN  after[Len(bytes)]

Show(d) == screen' = d.rows /\ column' = d.col

\* Writer::write_string, which println! uses: the kernel's own text is ASCII.
Printed(d, text) ==
    Written(d, [i \in 1 .. Len(text) |-> IF text[i] = BS THEN Square ELSE text[i]])

-----------------------------------------------------------------------------

Init ==
    /\ screen = [r \in 1 .. Height |-> [c \in 1 .. Width |-> Leftover]]
    /\ column = 0
    /\ mode = "off" /\ buf = << >> /\ crossed = FALSE

\* kernel_main: clear_screen, then its messages.
Boot ==
    /\ mode = "off" /\ mode' = "printing"
    /\ Show(Printed([rows |-> [r \in 1 .. Height |-> BlankRow], col |-> 0], BootText))
    /\ UNCHANGED <<buf, crossed>>

Output(bytes) ==
    /\ mode = "printing"
    /\ Show(Written(Display, bytes))
    /\ UNCHANGED <<mode, buf, crossed>>

\* run: the prompt, wherever the output ended, and read_line.
StartLine ==
    /\ mode = "printing" /\ mode' = "reading"
    /\ Show(Written(Display, Prompt))
    /\ buf' = << >> /\ crossed' = FALSE

\* Mutation: a key that finds the line full is still echoed.
HasEchoAlways == TRUE

HasEcho == Len(buf) < MaxLine

Type(key) ==
    /\ mode = "reading"
    /\ buf' = IF Len(buf) < MaxLine THEN Append(buf, key) ELSE buf
    /\ IF HasEcho THEN Show(Written(Display, <<key>>)) ELSE UNCHANGED <<screen, column>>
    /\ UNCHANGED <<mode, crossed>>

Erase ==
    /\ mode = "reading"
    /\ IF Len(buf) > 0
       THEN /\ buf' = SubSeq(buf, 1, Len(buf) - 1)
            /\ Show(Written(Display, <<BS, Blank, BS>>))
            /\ crossed' = (crossed \/ column = 0)
       ELSE UNCHANGED <<buf, screen, column, crossed>>
    /\ UNCHANGED mode

Enter ==
    /\ mode = "reading" /\ mode' = "printing"
    /\ Show(Written(Display, <<NL>>))
    /\ UNCHANGED <<buf, crossed>>

Next ==
    \/ Boot \/ StartLine \/ Erase \/ Enter
    \/ \E bytes \in Outputs : Output(bytes)
    \/ \E key \in Keys : Type(key)

Spec == Init /\ [][Next]_terminalVars

-----------------------------------------------------------------------------
(* Properties.                                                             *)

\* The cursor stays in the last row or just behind it, so that no byte is put
\* outside the buffer, and read_line stays in its own.
TypeOK ==
    /\ DOMAIN screen = 1 .. Height
    /\ \A r \in 1 .. Height : DOMAIN screen[r] = 1 .. Width
    /\ column \in 0 .. Width
    /\ mode \in {"off", "printing", "reading"}
    /\ Len(buf) <= MaxLine
    /\ crossed \in BOOLEAN

\* How far before the cursor the cell in row r and column c is: 1 for the one
\* that was written last, 0 or less for what is behind the cursor.
Back(r, c) == (Height - r) * Width + column - c + 1

\* While a line is typed the screen ends with the prompt and that line, however
\* it wraps and scrolls and even when it is full: what is entered is what is
\* seen.  Only a backspace over a line break spoils it.
ScreenShowsLine ==
    mode = "reading" /\ ~crossed =>
        LET line == Prompt \o buf
        IN  \A r \in 1 .. Height, c \in 1 .. Width :
               Back(r, c) \in 1 .. Len(line) => screen[r][c] = line[Len(line) + 1 - Back(r, c)]

\* Behind the cursor the screen is blank, whatever was printed and erased.
BlankBeyondCursor == mode # "off" => \A c \in column + 1 .. Width : screen[Height][c] = Blank

\* Erasing changes no row above the last one and moves none, so that it never
\* reaches the prompt or earlier output from another row; a key or return moves
\* the rows up by one at most, and the last one whole.
RowsAboveOnlyScroll ==
    [][ mode = "reading" =>
          \E k \in 0 .. IF mode' # mode \/ Len(buf') > Len(buf) THEN 1 ELSE 0 :
              \A r \in 1 .. Height - 1 : screen'[r] = screen[r + k]
      ]_terminalVars
=============================================================================
