-------------------------------- MODULE Console --------------------------------
(***************************************************************************)
(* The text console of libc/lib.c: the cursor, the colour and the VGA text *)
(* buffer behind addch, move, clear, clrtoeol, clrtobot, attrset and scrl. *)
(*                                                                         *)
(* Nothing stops a backspace in column 0, so that the column may become    *)
(* negative and a char be written in the line before, or in front of the   *)
(* buffer.  Columns and indices are computed in int and turned into size_t *)
(* where the code does so.  What is sent to the serial line is left out.   *)
(***************************************************************************)
EXTENDS Integers, Sequences, FiniteSets, FiniteSetsExt

CONSTANTS
    Glyphs,     \* chars that are shown
    Colours,    \* attributes
    A_NORMAL,   \* the attribute of light grey on black
    LINES, COLS, TabStop,
    MaxOps      \* bound of the model: calls of the console

ASSUME ScreenAssumption ==
    /\ LINES \in Nat /\ LINES > 1 /\ COLS \in Nat \ {0}
    /\ TabStop \in Nat \ {0} /\ MaxOps \in Nat
    /\ A_NORMAL \in Colours

Blank   == "blank"
Control == {"newline", "return", "backspace", "vtab", "tab"}

ASSUME GlyphsAssumption == Glyphs \cap (Control \cup {Blank}) = {}

Cells   == [char : Glyphs \cup {Blank}, colour : Colours]
Screen  == 0 .. LINES * COLS - 1

VARIABLES
    _row, _col, _color, _buffer,
    ops,        \* calls made so far
    text,       \* history: what addch was given since the screen was empty
    empty,      \* history: nothing was put since the screen was cleared
    straight,   \* history: only glyphs and newlines were put since
    last,       \* history: the cell written by the call before
    outside     \* history: a cell outside of the buffer was written

cursor  == <<_row, _col>>
history == <<text, empty, straight, last>>
vars    == <<cursor, _color, _buffer, ops, history, outside>>

NoCell == [char |-> Blank, colour |-> A_NORMAL]

Void(colour) == [char |-> Blank, colour |-> colour]

(* initscr.                                                                *)
Init ==
    /\ _row = 0 /\ _col = 0 /\ _color = A_NORMAL
    /\ _buffer = [i \in Screen |-> Void(A_NORMAL)]
    /\ ops = 0
    /\ text = <<>> /\ empty = TRUE /\ straight = TRUE /\ last = NoCell
    /\ outside = FALSE

Index(row, col) == row * COLS + col

(* The remainder of C has the sign of the dividend.                        *)
Remainder(x, n) == IF x >= 0 THEN x % n ELSE -((-x) % n)

-----------------------------------------------------------------------------
(* Mutant: the line below the last one is not blanked.                     *)
UpButLast(buffer) ==
    [i \in Screen |-> IF i + COLS \in Screen THEN buffer[i + COLS] ELSE buffer[i]]

(* Mutant: the lines are not moved.                                        *)
UpInPlace(buffer) ==
    [i \in Screen |-> IF i + COLS \in Screen THEN buffer[i] ELSE Void(_color)]

Up(buffer) ==
    [i \in Screen |-> IF i + COLS \in Screen THEN buffer[i + COLS] ELSE Void(_color)]

(* Where a char leaves the cursor, before it wraps.                        *)
Advance(c) ==
    <<IF c \in {"newline", "vtab"} THEN _row + 1 ELSE _row,
      IF c \in {"newline", "return"} THEN 0
      ELSE IF c = "vtab" THEN _col
      ELSE IF c = "backspace" THEN _col - 1
      ELSE IF c = "tab" THEN _col + TabStop - Remainder(_col, TabStop)
      ELSE _col + 1>>

(* Mutant: a line may be one char too long.                                *)
WrappedLate(p) == IF p[2] > COLS THEN <<p[1] + 1, 0>> ELSE p

Wrapped(p) == IF p[2] >= COLS THEN <<p[1] + 1, 0>> ELSE p

(* Mutant: the screen scrolls one line too late.                           *)
BelowTheLine(p) == p[1] > LINES

Below(p) == p[1] >= LINES

(* The cell a glyph is written to.                                         *)
Written(c) ==
    LET i == Index(_row, _col)
    IN IF c \in Glyphs /\ i \in Screen
       THEN [_buffer EXCEPT ![i] = [char |-> c, colour |-> _color]]
       ELSE _buffer

Addch(c) ==
    LET p == Wrapped(Advance(c))
    IN /\ _row' = IF Below(p) THEN LINES - 1 ELSE p[1]
       /\ _col' = p[2]
       /\ _buffer' = IF Below(p) THEN Up(Written(c)) ELSE Written(c)
       /\ outside' = (outside \/ (c \in Glyphs /\ Index(_row, _col) \notin Screen))
       /\ empty' = FALSE
       /\ straight' = (straight /\ c \in Glyphs \cup {"newline"})
       /\ text' = IF straight' THEN Append(text, c) ELSE <<>>
       /\ last' = IF c \in Glyphs /\ Index(_row, _col) \in Screen
                  THEN [char |-> c, colour |-> _color] ELSE NoCell
       /\ UNCHANGED _color

(* The history of a call that puts no char.                                *)
NotPut(isEmpty, isStraight) ==
    /\ empty' = isEmpty /\ straight' = isStraight /\ last' = NoCell
    /\ text' = IF isStraight THEN text ELSE <<>>

(* move refuses a place that is not on the screen.                         *)
Move(y, x) ==
    /\ IF x < 0 \/ y < 0 \/ x >= COLS \/ y >= LINES
       THEN UNCHANGED cursor /\ NotPut(empty, straight)
       ELSE _row' = y /\ _col' = x /\ NotPut(empty, empty /\ y = 0 /\ x = 0)
    /\ UNCHANGED <<_color, _buffer, outside>>

Clear ==
    /\ _buffer' = [i \in Screen |-> Void(_color)]
    /\ NotPut(TRUE, FALSE)
    /\ UNCHANGED <<cursor, _color, outside>>

(* A negative column is a huge size_t, and nothing is cleared.             *)
InRow == {i \in Screen : _col >= 0 /\ i >= Index(_row, _col) /\ i < Index(_row + 1, 0)}

RowsBelow == {i \in Screen : i >= Index(_row + 1, 0)}

Cleared(cells) ==
    /\ _buffer' = [i \in Screen |-> IF i \in cells THEN Void(_color) ELSE _buffer[i]]
    /\ NotPut(empty, straight)
    /\ UNCHANGED <<cursor, _color, outside>>

Clrtoeol == Cleared(InRow)
Clrtobot == Cleared(InRow \cup RowsBelow)

Attrset(colour) ==
    /\ _color' = colour
    /\ NotPut(empty, straight)
    /\ UNCHANGED <<cursor, _buffer, outside>>

Scrl ==
    /\ _buffer' = Up(_buffer)
    /\ NotPut(empty, empty /\ straight)
    /\ UNCHANGED <<cursor, _color, outside>>

-----------------------------------------------------------------------------
Call ==
    \/ \E c \in Glyphs \cup Control : Addch(c)
    \/ \E y \in -1 .. LINES, x \in -1 .. COLS : Move(y, x)
    \/ Clear \/ Clrtoeol \/ Clrtobot \/ Scrl
    \/ \E colour \in Colours : Attrset(colour)

Next == ops < MaxOps /\ ops' = ops + 1 /\ Call

Spec == Init /\ [][Next]_vars

-----------------------------------------------------------------------------
TypeOK ==
    /\ _row \in 0 .. LINES - 1 /\ _col \in -MaxOps .. COLS - 1
    /\ _color \in Colours /\ _buffer \in [Screen -> Cells]
    /\ text \in Seq(Glyphs \cup Control)
    /\ {empty, straight, outside} \subseteq BOOLEAN /\ last \in Cells

(* Where the n-th char of a text of glyphs and newlines belongs on an      *)
(* endless sheet: lines end at a newline and after COLS glyphs.            *)
SheetCol(n) ==
    (n - 1 - Max({0} \cup {m \in 1 .. n - 1 : text[m] = "newline"})) % COLS

SheetRow(n) ==
    Cardinality({m \in 1 .. n - 1 : text[m] = "newline" \/ SheetCol(m) = COLS - 1})

(* The line of the sheet that is the first one on the screen.              *)
SheetTop == Max({0, SheetRow(Len(text) + 1) - (LINES - 1)})

OnSheet(row, col) ==
    LET here == {n \in DOMAIN text :
                    text[n] # "newline" /\ SheetRow(n) = row /\ SheetCol(n) = col}
    IN IF here = {} THEN Blank ELSE text[CHOOSE n \in here : TRUE]

(* Glyphs and newlines that are put on an empty screen are shown in order, *)
(* wrapped at COLS; of a longer text the last LINES lines are shown, and   *)
(* the cursor stands where the next char belongs.                          *)
ShowsText ==
    straight =>
        /\ _row = SheetRow(Len(text) + 1) - SheetTop
        /\ _col = SheetCol(Len(text) + 1)
        /\ \A row \in 0 .. LINES - 1, col \in 0 .. COLS - 1 :
              _buffer[Index(row, col)].char = OnSheet(row + SheetTop, col)

(* Wherever the cursor was moved, and whether the line was full or the     *)
(* screen has scrolled, the char put last stands right before the cursor.  *)
LastBeforeCursor ==
    last # NoCell => _buffer[Index(_row, _col) - 1] = last

(* Whatever wraps and scrolls, no char is written behind the buffer; in    *)
(* front of it only by a cursor that backspaces have taken back there.     *)
WritesOnScreen ==
    [][outside' /\ ~ outside => Index(_row, _col) < 0]_vars
=============================================================================
