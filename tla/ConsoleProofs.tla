----------------------------- MODULE ConsoleProofs -----------------------------
(***************************************************************************)
(* On a screen of any size the console keeps its cursor on the screen,     *)
(* shows the char put last right before it, and writes nothing behind the  *)
(* buffer.                                                                 *)
(***************************************************************************)
EXTENDS Console, Induction, FiniteSetTheorems, TLAPS

(* Backspaces are all that moves the column below zero.                    *)
Position ==
    /\ ops \in 0 .. MaxOps
    /\ _row \in 0 .. LINES - 1
    /\ _col \in Int /\ -ops <= _col /\ _col <= COLS - 1

Shown ==
    /\ _color \in Colours
    /\ _buffer \in [Screen -> Cells]
    /\ last \in Cells

Recorded ==
    /\ text \in Seq(Glyphs \cup Control)
    /\ empty \in BOOLEAN /\ straight \in BOOLEAN /\ outside \in BOOLEAN

CInv == Position /\ Shown /\ Recorded /\ LastBeforeCursor

-----------------------------------------------------------------------------
(* Indices: rows follow each other, and the last cell of the last row is   *)
(* the end of the buffer.                                                  *)
LEMMA NextRow ==
    ASSUME NEW r \in Int, NEW c \in Int
    PROVE  /\ Index(r, c) \in Int
           /\ Index(r + 1, c) = Index(r, c + COLS)
           /\ Index(r, c + 1) = Index(r, c) + 1
           /\ Index(r, c + COLS) = Index(r, c) + COLS
  <1>1. COLS \in Int  BY ScreenAssumption
  <1>2. (r + 1) * COLS = r * COLS + COLS  BY <1>1
  <1>3. r * COLS \in Int /\ (r + 1) * COLS \in Int  BY <1>1
  <1> QED  BY <1>1, <1>2, <1>3 DEF Index

LEMMA WithinScreen ==
    ASSUME NEW r \in 0 .. LINES - 1, NEW c \in Int, c <= COLS - 1
    PROVE  /\ Index(r, c) <= LINES * COLS - 1
           /\ Index(LINES - 1, COLS) = LINES * COLS
           /\ LINES * COLS \in Int
           /\ Index(LINES - 1, 0) >= 1
  <1>1. COLS \in Int /\ COLS >= 1 /\ LINES \in Int /\ LINES >= 2  BY ScreenAssumption
  <1>2. LINES * COLS \in Int /\ r * COLS \in Int /\ (LINES - 1 - r) * COLS \in Int
        BY <1>1
  <1>3. (LINES - 1 - r) * COLS = LINES * COLS - COLS - r * COLS  BY <1>1
  <1>4. (LINES - 1 - r) * COLS >= 0
    <2>1. LINES - 1 - r >= 0 /\ LINES - 1 - r \in Int  BY <1>1
    <2> QED  BY <1>1, <2>1
  <1>5. (LINES - 1) * COLS = LINES * COLS - COLS  BY <1>1
  <1>6. (LINES - 1) * COLS >= 1
    <2>1. LINES - 1 >= 1 /\ LINES - 1 \in Int  BY <1>1
    <2> QED  BY <1>1, <2>1
  <1> QED  BY <1>1, <1>2, <1>3, <1>4, <1>5, <1>6 DEF Index

LEMMA RemainderBound ==
    ASSUME NEW x \in Int
    PROVE  Remainder(x, TabStop) \in Int /\ Remainder(x, TabStop) < TabStop
  <1>1. TabStop \in Nat /\ TabStop > 0  BY ScreenAssumption
  <1>2. CASE x >= 0
    <2>1. x % TabStop \in 0 .. TabStop - 1  BY <1>1
    <2> QED  BY <1>1, <1>2, <2>1 DEF Remainder
  <1>3. CASE ~ x >= 0
    <2>1. (-x) % TabStop \in 0 .. TabStop - 1  BY <1>1
    <2> QED  BY <1>1, <1>3, <2>1 DEF Remainder
  <1> QED  BY <1>2, <1>3

(* A char takes the cursor at most one row down, and left only by          *)
(* backspace.                                                              *)
LEMMA AdvanceBounds ==
    ASSUME Position, NEW c
    PROVE  /\ Advance(c) = <<Advance(c)[1], Advance(c)[2]>>
           /\ Advance(c)[1] \in {_row, _row + 1}
           /\ Advance(c)[2] \in Int /\ Advance(c)[2] >= -ops - 1
           /\ Advance(c)[1] = _row + 1 => Advance(c)[2] <= COLS - 1
  <1>1. COLS \in Nat /\ COLS > 0 /\ TabStop \in Nat  BY ScreenAssumption
  <1>2. Remainder(_col, TabStop) \in Int /\ Remainder(_col, TabStop) < TabStop
        BY RemainderBound DEF Position
  <1>3. _row \in Int /\ _col \in Int /\ ops \in Nat /\ -ops <= _col /\ _col <= COLS - 1
        BY DEF Position
  <1>4. CASE c \in {"newline", "return"}  BY <1>1, <1>3, <1>4 DEF Advance
  <1>5. CASE c \in {"backspace", "vtab"}  BY <1>1, <1>3, <1>5 DEF Advance
  <1>6. CASE c = "tab"
    <2>1. Advance(c) = <<_row, _col + TabStop - Remainder(_col, TabStop)>>
          BY <1>6 DEF Advance
    <2> QED  BY <1>1, <1>2, <1>3, <2>1
  <1>7. CASE c \notin Control
    <2>1. Advance(c) = <<_row, _col + 1>>  BY <1>7 DEF Advance, Control
    <2> QED  BY <1>3, <2>1
  <1> QED  BY <1>4, <1>5, <1>6, <1>7 DEF Control

-----------------------------------------------------------------------------
LEMMA WrittenType ==
    ASSUME Shown, NEW c
    PROVE  Written(c) \in [Screen -> Cells]
  BY DEF Shown, Written, Cells

LEMMA UpType ==
    ASSUME _color \in Colours, NEW b \in [Screen -> Cells]
    PROVE  Up(b) \in [Screen -> Cells]
  BY DEF Up, Void, Cells

LEMMA NoCellType == NoCell \in Cells
  BY ScreenAssumption DEF NoCell, Cells

(* Where a glyph is written, and where it is once the screen has scrolled. *)
LEMMA AddchShows ==
    ASSUME Position, Shown, NEW c, Addch(c), last' # NoCell
    PROVE  _buffer'[Index(_row', _col') - 1] = last'
  <1> DEFINE i == Index(_row, _col)
             cell == [char |-> c, colour |-> _color]
             b == [_buffer EXCEPT ![i] = cell]
  <1>1. c \in Glyphs /\ i \in Screen /\ last' = cell  BY DEF Addch
  <1>2. c \notin Control  BY <1>1, GlyphsAssumption
  <1>3. Advance(c) = <<_row, _col + 1>>  BY <1>2 DEF Advance, Control
  <1>4. Written(c) = b  BY <1>1 DEF Written
  <1>5. b[i] = cell  BY <1>1 DEF Shown
  <1>6. /\ COLS \in Int /\ COLS >= 1 /\ LINES \in Int /\ LINES >= 2
        /\ _row \in Int /\ _row <= LINES - 1 /\ _col \in Int /\ _col <= COLS - 1
        BY ScreenAssumption DEF Position
  <1>7. CASE ~ _col + 1 >= COLS
    <2>1. Wrapped(Advance(c)) = <<_row, _col + 1>>  BY <1>3, <1>7 DEF Wrapped
    <2>2. ~ Below(<<_row, _col + 1>>)  BY <1>6 DEF Below
    <2>3. _row' = _row /\ _col' = _col + 1 /\ _buffer' = b
          BY <1>4, <2>1, <2>2 DEF Addch
    <2>4. Index(_row, _col + 1) - 1 = i  BY <1>6, NextRow
    <2> QED  BY <1>1, <1>5, <2>3, <2>4
  <1>8. CASE _col + 1 >= COLS
    <2>1. Wrapped(Advance(c)) = <<_row + 1, 0>>  BY <1>3, <1>8 DEF Wrapped
    <2>2. _col = COLS - 1  BY <1>6, <1>8
    <2>3. Index(_row + 1, 0) = i + 1
      <3>1. Index(_row + 1, 0) = Index(_row, 0 + COLS)  BY <1>6, NextRow
      <3>2. Index(_row, _col + 1) = i + 1  BY <1>6, NextRow
      <3> QED  BY <1>6, <2>2, <3>1, <3>2
    <2>4. i \in Int  BY <1>6, NextRow
    <2>5. CASE ~ Below(<<_row + 1, 0>>)
      <3>1. _row' = _row + 1 /\ _col' = 0 /\ _buffer' = b
            BY <1>4, <2>1, <2>5 DEF Addch
      <3> QED  BY <1>1, <1>5, <2>3, <2>4, <3>1
    <2>6. CASE Below(<<_row + 1, 0>>)
      <3>1. _row' = LINES - 1 /\ _col' = 0 /\ _buffer' = Up(b)
            BY <1>4, <2>1, <2>6 DEF Addch
      <3>2. _row = LINES - 1  BY <1>6, <2>6 DEF Below
      <3> DEFINE j == Index(LINES - 1, 0) - 1
      <3>3. j + COLS = i
        <4>1. Index(LINES - 1 + 1, 0) = Index(LINES - 1, 0 + COLS)
              BY <1>6, NextRow
        <4>2. Index(LINES - 1, 0 + COLS) = Index(LINES - 1, 0) + COLS
              BY <1>6, NextRow
        <4>3. Index(LINES - 1, 0) \in Int  BY <1>6, NextRow
        <4> QED  BY <1>6, <2>3, <2>4, <3>2, <4>1, <4>2, <4>3
      <3>4. j \in Screen
        <4>1. Index(LINES - 1, 0) >= 1  BY <1>6, WithinScreen DEF Position
        <4>2. Index(LINES - 1, 0) \in Int  BY <1>6, NextRow
        <4> QED  BY <1>1, <1>6, <2>4, <3>3, <4>1, <4>2 DEF Screen
      <3>5. Up(b)[j] = b[i]  BY <1>1, <3>3, <3>4 DEF Up
      <3> QED  BY <1>1, <1>5, <3>1, <3>5
    <2> QED  BY <2>5, <2>6
  <1> QED  BY <1>7, <1>8

LEMMA AddchInv ==
    ASSUME CInv, ops < MaxOps, ops' = ops + 1, NEW c \in Glyphs \cup Control, Addch(c)
    PROVE  CInv'
  <1> USE DEF CInv
  <1> DEFINE q == Wrapped(Advance(c))
  <1>1. /\ COLS \in Int /\ COLS >= 1 /\ LINES \in Int /\ LINES >= 2 /\ MaxOps \in Nat
        /\ _row \in Int /\ 0 <= _row /\ _row <= LINES - 1 /\ ops \in Nat
        BY ScreenAssumption DEF Position
  <1>2. /\ q[1] \in {_row, _row + 1}
        /\ q[2] \in Int /\ q[2] >= -ops - 1 /\ q[2] <= COLS - 1
    <2>1. CASE Advance(c)[2] >= COLS
      <3>1. Advance(c)[1] = _row  BY <1>1, <2>1, AdvanceBounds
      <3> QED  BY <1>1, <2>1, <3>1 DEF Wrapped
    <2>2. CASE ~ Advance(c)[2] >= COLS
      <3>1. q = Advance(c)  BY <2>2 DEF Wrapped
      <3> QED  BY <1>1, <2>2, <3>1, AdvanceBounds
    <2> QED  BY <2>1, <2>2
  <1>3. Position'
    <2>1. _col' = q[2] /\ _row' = IF Below(q) THEN LINES - 1 ELSE q[1]  BY DEF Addch
    <2> QED  BY <1>1, <1>2, <2>1 DEF Position, Below
  <1>4. Shown'
    <2>1. Written(c) \in [Screen -> Cells]  BY WrittenType
    <2>2. Up(Written(c)) \in [Screen -> Cells]  BY <2>1, UpType DEF Shown
    <2>3. _buffer' \in [Screen -> Cells] /\ _color' = _color
          BY <2>1, <2>2 DEF Addch
    <2>4. last' \in Cells  BY NoCellType DEF Addch, Shown, Cells
    <2> QED  BY <2>3, <2>4 DEF Shown
  <1>5. Recorded'
    <2>1. straight' \in BOOLEAN /\ empty' \in BOOLEAN /\ outside' \in BOOLEAN
          BY DEF Addch, Recorded
    <2>2. text' \in Seq(Glyphs \cup Control)  BY DEF Addch, Recorded
    <2> QED  BY <2>1, <2>2 DEF Recorded
  <1>6. LastBeforeCursor'  BY AddchShows DEF LastBeforeCursor
  <1> QED  BY <1>3, <1>4, <1>5, <1>6

(* The other calls put no char.                                            *)
LEMMA OtherInv ==
    ASSUME CInv, ops < MaxOps, ops' = ops + 1,
           \/ \E y \in -1 .. LINES, x \in -1 .. COLS : Move(y, x)
           \/ Clear \/ Clrtoeol \/ Clrtobot \/ Scrl
           \/ \E colour \in Colours : Attrset(colour)
    PROVE  CInv' /\ outside' = outside
  <1> USE DEF CInv
  <1>1. LINES \in Nat /\ COLS \in Nat /\ COLS > 0 /\ MaxOps \in Nat  BY ScreenAssumption
  <1>2. last' = NoCell /\ outside' = outside
        BY DEF Move, Clear, Clrtoeol, Clrtobot, Cleared, Scrl, Attrset, NotPut
  <1>3. Position'
    <2>1. CASE UNCHANGED cursor  BY <1>1, <2>1 DEF Position, cursor
    <2>2. CASE \E y \in -1 .. LINES, x \in -1 .. COLS : Move(y, x)
      <3>1. PICK y \in -1 .. LINES, x \in -1 .. COLS : Move(y, x)  BY <2>2
      <3> QED  BY <1>1, <2>1, <3>1 DEF Move, Position, cursor
    <2> QED  BY <2>1, <2>2 DEF Clear, Clrtoeol, Clrtobot, Cleared, Scrl, Attrset
  <1>4. Shown'
    <2>1. _color' \in Colours
          BY DEF Shown, Move, Clear, Clrtoeol, Clrtobot, Cleared, Scrl, Attrset
    <2>2. Void(_color) \in Cells  BY DEF Void, Cells, Shown
    <2>3. Up(_buffer) \in [Screen -> Cells]  BY UpType DEF Shown
    <2>4. ASSUME NEW cells, Cleared(cells) PROVE _buffer' \in [Screen -> Cells]
          BY <2>2, <2>4 DEF Cleared, Shown
    <2>5. _buffer' \in [Screen -> Cells]
          BY <2>2, <2>3, <2>4 DEF Shown, Move, Clear, Clrtoeol, Clrtobot, Scrl, Attrset
    <2> QED  BY <1>2, <2>1, <2>5, NoCellType DEF Shown
  <1>5. Recorded'
    <2>1. ASSUME NEW e \in BOOLEAN, NEW s \in BOOLEAN, NotPut(e, s) PROVE Recorded'
          BY <1>2, <2>1 DEF NotPut, Recorded
    <2>2. CASE \E y \in -1 .. LINES, x \in -1 .. COLS : Move(y, x)
      <3>1. PICK y \in -1 .. LINES, x \in -1 .. COLS : Move(y, x)  BY <2>2
      <3> QED  BY <2>1, <3>1 DEF Move, Recorded
    <2>3. CASE Clear  BY <2>1, <2>3 DEF Clear
    <2>4. ASSUME NEW cells, Cleared(cells) PROVE Recorded'
          BY <2>1, <2>4 DEF Cleared, Recorded
    <2>5. CASE Scrl  BY <2>1, <2>5 DEF Scrl, Recorded
    <2>6. CASE \E colour \in Colours : Attrset(colour)
          BY <2>1, <2>6 DEF Attrset, Recorded
    <2> QED  BY <2>2, <2>3, <2>4, <2>5, <2>6 DEF Clrtoeol, Clrtobot
  <1>6. LastBeforeCursor'  BY <1>2 DEF LastBeforeCursor, NoCell
  <1> QED  BY <1>2, <1>3, <1>4, <1>5, <1>6

LEMMA ConsoleInit == Init => CInv
  <1> SUFFICES ASSUME Init PROVE CInv  OBVIOUS
  <1>1. Position  BY ScreenAssumption DEF Init, Position
  <1>2. Shown  BY ScreenAssumption, NoCellType DEF Init, Shown, Void, Cells
  <1>3. LastBeforeCursor  BY DEF Init, LastBeforeCursor
  <1>4. <<>> \in Seq(Glyphs \cup Control)  OBVIOUS
  <1>5. Recorded  BY <1>4, Zenon DEF Init, Recorded
  <1> QED  BY <1>1, <1>2, <1>3, <1>5 DEF CInv

LEMMA ConsoleStep == CInv /\ [Next]_vars => CInv'
  <1> SUFFICES ASSUME CInv, [Next]_vars PROVE CInv'  OBVIOUS
  <1>1. CASE \E c \in Glyphs \cup Control : Next /\ Addch(c)
        BY <1>1, AddchInv DEF Next
  <1>2. CASE Next /\ ~ \E c \in Glyphs \cup Control : Addch(c)
        BY <1>2, OtherInv DEF Next, Call
  <1>3. CASE UNCHANGED vars
        BY <1>3 DEF CInv, Position, Shown, Recorded, LastBeforeCursor,
                    vars, cursor, history, Index, Screen
  <1> QED  BY <1>1, <1>2, <1>3

(* The console stays in CInv.                                              *)
THEOREM ConsoleInvariance == Spec => []CInv
  BY ConsoleInit, ConsoleStep, PTL DEF Spec

(* On a screen of any size every variable keeps its type: the cursor never *)
(* leaves the screen to the right or below.                                *)
THEOREM CursorOnScreen == Spec => []TypeOK
  <1>1. CInv => TypeOK
    <2> SUFFICES ASSUME CInv PROVE TypeOK  OBVIOUS
    <2>1. _row \in 0 .. LINES - 1 /\ _col \in -MaxOps .. COLS - 1
          BY ScreenAssumption DEF CInv, Position
    <2> QED  BY <2>1 DEF CInv, Shown, Recorded, TypeOK
  <1> QED  BY <1>1, ConsoleInvariance, PTL

(* On a screen of any size the char put last stands right before the       *)
(* cursor, wrapped and scrolled or not.                                    *)
THEOREM LastIsBeforeCursor == Spec => []LastBeforeCursor
  <1>1. CInv => LastBeforeCursor  BY DEF CInv
  <1> QED  BY <1>1, ConsoleInvariance, PTL

(* On a screen of any size nothing is written behind the buffer.           *)
THEOREM NothingBehindTheBuffer == Spec => WritesOnScreen
  <1>1. ASSUME CInv, [Next]_vars
        PROVE  [outside' /\ ~ outside => Index(_row, _col) < 0]_vars
    <2> SUFFICES ASSUME Next, outside', ~ outside PROVE Index(_row, _col) < 0
        BY <1>1
    <2>1. PICK c \in Glyphs \cup Control : Addch(c)
          BY <1>1, OtherInv DEF Next, Call
    <2>2. Index(_row, _col) \notin Screen  BY <2>1 DEF Addch
    <2>3. /\ _row \in 0 .. LINES - 1 /\ _row \in Int
          /\ _col \in Int /\ _col <= COLS - 1
          BY <1>1, ScreenAssumption DEF CInv, Position
    <2>4. Index(_row, _col) \in Int  BY <2>3, NextRow
    <2>5. Index(_row, _col) <= LINES * COLS - 1 /\ LINES * COLS \in Int
          BY <2>3, WithinScreen
    <2> QED  BY <2>2, <2>4, <2>5 DEF Screen
  <1> QED  BY <1>1, ConsoleInvariance, PTL DEF Spec, WritesOnScreen

-----------------------------------------------------------------------------
(* Where chars belong.  The number of a greatest element.                  *)
LEMMA MaxIs ==
    ASSUME NEW S \in SUBSET Int, NEW x \in S, \A y \in S : y <= x
    PROVE  Max(S) = x
  <1>1. x \in S /\ \A y \in S : x >= y  OBVIOUS
  <1>2. \A z \in S : (\A y \in S : z >= y) => z = x  OBVIOUS
  <1>3. Max(S) \in S /\ \A y \in S : Max(S) >= y  BY <1>1, Zenon DEF Max
  <1> QED  BY <1>2, <1>3

(* The last newline before the n-th char, or 0.                            *)
Newlines(n) == {0} \cup {m \in 1 .. n - 1 : text[m] = "newline"}
Start(n)    == Max(Newlines(n))

LEMMA StartFacts ==
    ASSUME NEW n \in Nat \ {0}
    PROVE  /\ Start(n) \in 0 .. n - 1
           /\ Start(n) \in Newlines(n) /\ \A m \in Newlines(n) : m <= Start(n)
  <1> DEFINE T == {k \in 0 .. n - 1 : n - 1 - k \in Newlines(n)}
  <1>1. T \in SUBSET Nat /\ n - 1 \in T  BY DEF Newlines
  <1>2. PICK k \in T : \A j \in T : k <= j  BY <1>1, Least
  <1> DEFINE x == n - 1 - k
  <1>3. x \in Newlines(n) /\ x \in 0 .. n - 1 /\ k \in Int /\ k = n - 1 - x  BY <1>2
  <1>4. ASSUME NEW m \in Newlines(n) PROVE m <= x
    <2>1. m \in 0 .. n - 1  BY DEF Newlines
    <2>2. n - 1 - m \in 0 .. n - 1 /\ n - 1 - (n - 1 - m) = m  BY <2>1
    <2>3. n - 1 - m \in T  BY <2>2
    <2>4. k <= n - 1 - m  BY <1>2, <2>3
    <2> QED  BY <2>1, <2>4, <1>3
  <1>5. Newlines(n) \in SUBSET Int  BY DEF Newlines
  <1> HIDE DEF x
  <1>6. Start(n) = x  BY <1>3, <1>4, <1>5, MaxIs DEF Start
  <1> QED  BY <1>3, <1>4, <1>6

(* The next number has the next remainder, or none.                        *)
LEMMA NextRemainder ==
    ASSUME NEW x \in Nat, NEW k \in Nat \ {0}
    PROVE  /\ x % k \in 0 .. k - 1
           /\ (x + 1) % k = IF x % k = k - 1 THEN 0 ELSE (x % k) + 1
  <1> DEFINE q == x \div k
             r == x % k
             p == (x + 1) \div k
             s == (x + 1) % k
  <1>1. /\ q \in Int /\ r \in 0 .. k - 1 /\ x = k * q + r
        /\ p \in Int /\ s \in 0 .. k - 1 /\ x + 1 = k * p + s
        OBVIOUS
  <1> HIDE DEF q, r, p, s
  <1> DEFINE e == p - q
  <1>2. k * e = r + 1 - s /\ e \in Int
    <2>1. k * q \in Int /\ k * p \in Int /\ k * (p - q) = k * p - k * q  BY <1>1
    <2> QED  BY <1>1, <2>1
  <1> HIDE DEF e
  <1>3. -k < k * e /\ k * e <= k  BY <1>1, <1>2
  <1>4. e = 0 \/ e = 1
    <2>1. CASE e >= 2
      <3>1. k * e = k + k + k * (e - 2) /\ k * (e - 2) \in Int  BY <1>2
      <3>2. k * (e - 2) >= 0  BY <1>2, <2>1
      <3> QED  BY <1>3, <3>1, <3>2
    <2>2. CASE e <= -1
      <3>1. k * e = -k - k * (-1 - e) /\ k * (-1 - e) \in Int  BY <1>2
      <3>2. k * (-1 - e) >= 0  BY <1>2, <2>2
      <3> QED  BY <1>3, <3>1, <3>2
    <2> QED  BY <1>2, <2>1, <2>2
  <1>5. CASE e = 0
    <2>1. s = r + 1  BY <1>1, <1>2, <1>5
    <2> QED  BY <1>1, <2>1 DEF r, s
  <1>6. CASE e = 1
    <2>1. k = r + 1 - s  BY <1>1, <1>2, <1>6
    <2>2. s = 0 /\ r = k - 1  BY <1>1, <2>1
    <2> QED  BY <1>1, <2>2 DEF r, s
  <1> QED  BY <1>4, <1>5, <1>6

(* The chars that end a line.                                              *)
LineEnds(n) == {m \in 1 .. n - 1 : text[m] = "newline" \/ SheetCol(m) = COLS - 1}

LEMMA Place ==
    ASSUME NEW n \in Nat \ {0}
    PROVE  /\ SheetCol(n) \in 0 .. COLS - 1
           /\ IsFiniteSet(LineEnds(n)) /\ SheetRow(n) = Cardinality(LineEnds(n))
           /\ SheetRow(n) \in Nat
  <1>1. SheetCol(n) = (n - 1 - Start(n)) % COLS  BY DEF SheetCol, Start, Newlines
  <1>2. n - 1 - Start(n) \in Nat  BY StartFacts
  <1>3. SheetCol(n) \in 0 .. COLS - 1  BY <1>1, <1>2, NextRemainder, ScreenAssumption
  <1>4. IsFiniteSet(1 .. n - 1)  BY FS_Interval
  <1>5. IsFiniteSet(LineEnds(n))  BY <1>4, FS_Subset DEF LineEnds
  <1> QED  BY <1>3, <1>5, FS_CardinalityType DEF SheetRow, LineEnds

LEMMA FirstPlace == SheetCol(1) = 0 /\ SheetRow(1) = 0
  <1>1. Start(1) = 0  BY StartFacts
  <1>2. SheetCol(1) \in 0 .. COLS - 1 /\ SheetCol(1) = (1 - 1 - Start(1)) % COLS
        BY Place DEF SheetCol, Start, Newlines
  <1>3. 0 % COLS = 0  BY ScreenAssumption
  <1>4. LineEnds(1) = {}  BY DEF LineEnds
  <1> QED  BY <1>1, <1>2, <1>3, <1>4, Place, FS_EmptySet

(* A char that is put changes no place up to its own.                      *)
LEMMA PlacesStay ==
    ASSUME Recorded, NEW c \in Glyphs \cup Control, text' = Append(text, c),
           NEW n \in 1 .. Len(text) + 1
    PROVE  SheetCol(n)' = SheetCol(n) /\ SheetRow(n)' = SheetRow(n)
  <1>1. Len(text) \in Nat /\ \A m \in 1 .. Len(text) : text'[m] = text[m]
        BY DEF Recorded
  <1>2. ASSUME NEW k \in 1 .. n PROVE SheetCol(k)' = SheetCol(k)
    <2>1. {m \in 1 .. k - 1 : text'[m] = "newline"} = {m \in 1 .. k - 1 : text[m] = "newline"}
          BY <1>1
    <2> QED  BY <2>1 DEF SheetCol
  <1>3. \A m \in 1 .. n - 1 : text'[m] = text[m] /\ SheetCol(m)' = SheetCol(m)
        BY <1>1, <1>2
  <1>4. LineEnds(n)' = LineEnds(n)  BY <1>3 DEF LineEnds
  <1>5. SheetRow(n)' = SheetRow(n)  BY <1>4, Zenon DEF SheetRow, LineEnds
  <1> QED  BY <1>2, <1>5

(* The place of the next char.                                             *)
PenRow  == SheetRow(Len(text) + 1)
PenCol  == SheetCol(Len(text) + 1)
Ends(c) == c = "newline" \/ PenCol = COLS - 1

LEMMA NextPlace ==
    ASSUME Recorded, NEW c \in Glyphs \cup Control, text' = Append(text, c)
    PROVE  /\ PenCol' = IF Ends(c) THEN 0 ELSE PenCol + 1
           /\ PenRow' = PenRow + (IF Ends(c) THEN 1 ELSE 0)
           /\ PenRow \in Nat /\ PenCol \in 0 .. COLS - 1
  <1>1. PICK n \in Nat \ {0}, k \in Nat \ {0} :
            /\ n = Len(text) + 1 /\ k = Len(text') + 1
            /\ \A m \in 1 .. n - 1 : text'[m] = text[m]
            /\ text'[n] = c
            /\ k = n + 1 /\ k - 1 = n
        BY DEF Recorded
  <1>2. \A m \in 1 .. n : SheetCol(m)' = SheetCol(m) /\ SheetRow(m)' = SheetRow(m)
        BY <1>1, PlacesStay
  <1>3. /\ PenCol = SheetCol(n) /\ PenRow = SheetRow(n)
        /\ PenCol' = SheetCol(k)' /\ PenRow' = SheetRow(k)'
    <2>1. ASSUME NEW m, m = Len(text) + 1 PROVE PenCol = SheetCol(m) /\ PenRow = SheetRow(m)
          BY <2>1 DEF PenCol, PenRow
    <2>2. ASSUME NEW m, m = Len(text') + 1
          PROVE  PenCol' = SheetCol(m)' /\ PenRow' = SheetRow(m)'
          BY <2>2 DEF PenCol, PenRow
    <2> QED  BY <1>1, <2>1, <2>2
  <1>4. SheetCol(k)' = (n - Start(k)') % COLS
    <2>1. SheetCol(k)' = (k - 1 - Start(k)') % COLS
          BY DEF SheetCol, Start, Newlines
    <2> QED  BY <1>1, <2>1
  <1>5. SheetCol(k)' = IF Ends(c) THEN 0 ELSE SheetCol(n) + 1
    <2>1. CASE c = "newline"
      <3>1. n \in Newlines(k)' /\ \A m \in Newlines(k)' : m <= n
            BY <1>1, <2>1 DEF Newlines
      <3>2. Newlines(k)' \in SUBSET Int  BY DEF Newlines
      <3>3. Start(k)' = n  BY <3>1, <3>2, MaxIs DEF Start
      <3>4. 0 % COLS = 0  BY ScreenAssumption
      <3> QED  BY <1>1, <1>4, <2>1, <3>3, <3>4 DEF Ends
    <2>2. CASE c # "newline"
      <3>1. Newlines(k)' = Newlines(n)
        <4>1. \A m : m \in 1 .. n /\ text'[m] = "newline"
                       <=> m \in 1 .. n - 1 /\ text[m] = "newline"
              BY <1>1, <2>2
        <4> QED  BY <1>1, <4>1 DEF Newlines
      <3>2. Start(k)' = Start(n)  BY <3>1 DEF Start
      <3>3. n - 1 - Start(n) \in Nat /\ n - Start(n) = (n - 1 - Start(n)) + 1
        <4>1. Start(n) \in 0 .. n - 1  BY StartFacts
        <4> QED  BY <4>1
      <3>4. SheetCol(n) = (n - 1 - Start(n)) % COLS  BY DEF SheetCol, Start, Newlines
      <3>5. (n - Start(n)) % COLS = IF SheetCol(n) = COLS - 1 THEN 0 ELSE SheetCol(n) + 1
            BY <3>3, <3>4, NextRemainder, ScreenAssumption
      <3> QED  BY <1>3, <1>4, <2>2, <3>2, <3>5 DEF Ends
    <2> QED  BY <2>1, <2>2
  <1>6. SheetRow(k)' = SheetRow(n) + (IF Ends(c) THEN 1 ELSE 0)
    <2>1. SheetRow(k)' = Cardinality(LineEnds(k)')
          BY DEF SheetRow, LineEnds
    <2>2. /\ IsFiniteSet(LineEnds(n)) /\ SheetRow(n) = Cardinality(LineEnds(n))
          /\ SheetRow(n) \in Nat
          BY <1>1, Place
    <2>3. n \notin LineEnds(n)  BY <1>1 DEF LineEnds
    <2>4. LineEnds(k)' = LineEnds(n) \cup (IF Ends(c) THEN {n} ELSE {})
      <3>1. \A m \in 1 .. n - 1 : text'[m] = text[m] /\ SheetCol(m)' = SheetCol(m)
            BY <1>1, <1>2
      <3>2. text'[n] = c /\ SheetCol(n)' = SheetCol(n)  BY <1>1, <1>2
      <3>3. \A m : m \in 1 .. k - 1 <=> m \in 1 .. n - 1 \/ m = n  BY <1>1
      <3>4. Ends(c) <=> c = "newline" \/ SheetCol(n) = COLS - 1  BY <1>3 DEF Ends
      <3>5. LineEnds(k)' = {m \in 1 .. k - 1 :
                                    text'[m] = "newline" \/ SheetCol(m)' = COLS - 1}
            BY DEF LineEnds
      <3> QED  BY <3>1, <3>2, <3>3, <3>4, <3>5 DEF LineEnds
    <2>5. CASE Ends(c)
      <3>1. Cardinality(LineEnds(n) \cup {n}) = Cardinality(LineEnds(n)) + 1
            BY <2>2, <2>3, FS_AddElement
      <3> QED  BY <2>1, <2>2, <2>4, <2>5, <3>1
    <2>6. CASE ~ Ends(c)
      <3>1. LineEnds(k)' = LineEnds(n)  BY <2>4, <2>6
      <3> QED  BY <2>1, <2>2, <2>6, <3>1
    <2> QED  BY <2>5, <2>6
  <1>7. SheetRow(n) \in Nat /\ SheetCol(n) \in 0 .. COLS - 1  BY Place
  <1> QED  BY <1>3, <1>5, <1>6, <1>7

-----------------------------------------------------------------------------
(* The sheet.  Every char stands before the place of the next one.         *)
Ordered ==
    \A m \in DOMAIN text :
        /\ SheetRow(m) <= PenRow
        /\ SheetRow(m) = PenRow => SheetCol(m) < PenCol

LEMMA OrderedNext ==
    ASSUME Recorded, Ordered, NEW c \in Glyphs \cup Control, text' = Append(text, c)
    PROVE  Ordered'
  <1>1. PICK n \in Nat \ {0} :
            /\ n = Len(text) + 1 /\ n \in 1 .. n
            /\ DOMAIN text = 1 .. n - 1 /\ DOMAIN text' = 1 .. n
        BY DEF Recorded
  <1>2. PenCol = SheetCol(n) /\ PenRow = SheetRow(n)
    <2>1. ASSUME NEW m, m = Len(text) + 1 PROVE PenCol = SheetCol(m) /\ PenRow = SheetRow(m)
          BY <2>1 DEF PenCol, PenRow
    <2> QED  BY <1>1, <2>1
  <1>3. /\ PenCol' = IF Ends(c) THEN 0 ELSE PenCol + 1
        /\ PenRow' = PenRow + (IF Ends(c) THEN 1 ELSE 0)
        /\ PenRow \in Nat /\ PenCol \in 0 .. COLS - 1
        BY NextPlace
  <1>4. ASSUME NEW m \in 1 .. n
        PROVE  /\ SheetRow(m)' <= PenRow'
               /\ SheetRow(m)' = PenRow' => SheetCol(m)' < PenCol'
    <2>1. SheetCol(m)' = SheetCol(m) /\ SheetRow(m)' = SheetRow(m)
          BY <1>1, PlacesStay
    <2>2. SheetCol(m) \in 0 .. COLS - 1 /\ SheetRow(m) \in Nat
      <3>1. m \in Nat \ {0}  OBVIOUS
      <3> QED  BY <3>1, Place
    <2>3. /\ SheetRow(m) <= PenRow
          /\ SheetRow(m) = PenRow => SheetCol(m) <= PenCol
      <3>1. m = n \/ m \in DOMAIN text  BY <1>1
      <3> QED  BY <1>2, <1>3, <2>2, <3>1 DEF Ordered
    <2> QED  BY <1>3, <2>1, <2>2, <2>3
  <1> QED  BY <1>1, <1>4 DEF Ordered

(* From the place of the next char on the sheet is blank.                  *)
LEMMA BlankFrom ==
    ASSUME Ordered, NEW row \in Int, NEW col \in Int,
           \/ row > PenRow
           \/ row = PenRow /\ col >= PenCol,
           Recorded
    PROVE  OnSheet(row, col) = Blank
  <1>1. Len(text) + 1 \in Nat \ {0}  BY DEF Recorded
  <1>2. PenRow \in Int /\ PenCol \in Int  BY <1>1, Place DEF PenRow, PenCol
  <1>3. ASSUME NEW m \in DOMAIN text, SheetRow(m) = row, SheetCol(m) = col PROVE FALSE
        BY <1>2, <1>3 DEF Ordered
  <1> QED  BY <1>3 DEF OnSheet

(* A glyph is added to the sheet at its place, a newline is not shown.     *)
LEMMA SheetNext ==
    ASSUME Recorded, Ordered, NEW c \in Glyphs \cup Control, text' = Append(text, c),
           NEW row \in Int, NEW col \in Int
    PROVE  OnSheet(row, col)' =
              IF c # "newline" /\ row = PenRow /\ col = PenCol
              THEN c ELSE OnSheet(row, col)
  <1>1. PICK n \in Nat \ {0} :
            /\ n = Len(text) + 1
            /\ DOMAIN text = 1 .. n - 1 /\ DOMAIN text' = 1 .. n
            /\ n \notin DOMAIN text /\ text'[n] = c
            /\ DOMAIN text' = DOMAIN text \cup {n}
            /\ \A m \in DOMAIN text : text'[m] = text[m]
        BY DEF Recorded
  <1>2. PenCol = SheetCol(n) /\ PenRow = SheetRow(n)
    <2>1. ASSUME NEW m, m = Len(text) + 1 PROVE PenCol = SheetCol(m) /\ PenRow = SheetRow(m)
          BY <2>1 DEF PenCol, PenRow
    <2> QED  BY <1>1, <2>1
  <1> DEFINE Here == {m \in DOMAIN text : text[m] # "newline" /\ SheetRow(m) = row
                                          /\ SheetCol(m) = col}
             mine == c # "newline" /\ row = PenRow /\ col = PenCol
  <1>3. \A m \in DOMAIN text' : SheetCol(m)' = SheetCol(m) /\ SheetRow(m)' = SheetRow(m)
        BY <1>1, PlacesStay
  <1>4. OnSheet(row, col) = IF Here = {} THEN Blank ELSE text[CHOOSE m \in Here : TRUE]
        BY DEF OnSheet
  <1>5. Here' = Here \cup (IF mine THEN {n} ELSE {})
        BY <1>1, <1>2, <1>3
  <1>6. OnSheet(row, col)' = IF Here' = {} THEN Blank ELSE text'[CHOOSE m \in Here' : TRUE]
        BY DEF OnSheet
  <1>7. CASE mine
    <2>1. Here = {}
      <3>1. PenRow \in Int /\ PenCol \in Int  BY NextPlace
      <3> QED  BY <1>7, <3>1 DEF Ordered
    <2>2. Here' = {n}  BY <1>5, <1>7, <2>1
    <2>3. (CHOOSE m \in {n} : TRUE) = n  OBVIOUS
    <2>4. OnSheet(row, col)' = text'[n]  BY <1>6, <2>2, <2>3
    <2> QED  BY <1>1, <1>7, <2>4
  <1>8. CASE ~ mine
    <2>1. Here' = Here  BY <1>5, <1>8
    <2>2. OnSheet(row, col)' = OnSheet(row, col)
      <3>1. CASE Here = {}
        <4> HIDE DEF Here
        <4> QED  BY <1>4, <1>6, <2>1, <3>1
      <3>2. CASE Here # {}
        <4>1. (CHOOSE m \in Here : TRUE) \in DOMAIN text  BY <3>2
        <4>2. text'[CHOOSE m \in Here : TRUE] = text[CHOOSE m \in Here : TRUE]
              BY <1>1, <4>1
        <4> HIDE DEF Here
        <4> QED  BY <1>4, <1>6, <2>1, <3>2, <4>2
      <3> QED  BY <3>1, <3>2
    <2> QED  BY <1>8, <2>2
  <1> QED  BY <1>7, <1>8

-----------------------------------------------------------------------------
(* The screen.  Every cell of it has its index, and no two have the same.  *)
LEMMA IndexFacts ==
    ASSUME NEW r \in 0 .. LINES - 1, NEW c \in 0 .. COLS - 1
    PROVE  /\ Index(r, c) \in Screen
           /\ \A r2 \in 0 .. LINES - 1, c2 \in 0 .. COLS - 1 :
                 Index(r2, c2) = Index(r, c) => r2 = r /\ c2 = c
           /\ Index(r, c) + COLS = Index(r + 1, c)
           /\ r < LINES - 1 <=> Index(r, c) + COLS \in Screen
  <1>1. COLS \in Int /\ COLS >= 1 /\ LINES \in Int /\ LINES >= 2  BY ScreenAssumption
  <1>2. ASSUME NEW x \in Int, NEW y \in Int, x < y
        PROVE  x * COLS \in Int /\ y * COLS \in Int /\ x * COLS + COLS <= y * COLS
    <2>1. y * COLS = x * COLS + COLS + (y - x - 1) * COLS  BY <1>1
    <2>2. y - x - 1 \in Int /\ y - x - 1 >= 0  BY <1>2
    <2>3. (y - x - 1) * COLS \in Int /\ (y - x - 1) * COLS >= 0  BY <1>1, <2>2
    <2>4. x * COLS \in Int /\ y * COLS \in Int  BY <1>1
    <2> HIDE DEF Index
    <2> QED  BY <1>1, <2>1, <2>3, <2>4
  <1>3. r * COLS \in Int /\ LINES * COLS \in Int /\ 0 * COLS = 0  BY <1>1
  <1>4. Index(r, c) \in Int /\ Index(r, c) = r * COLS + c  BY <1>1, <1>3 DEF Index
  <1>5. r * COLS >= 0
    <2>1. r = 0 \/ 0 < r  OBVIOUS
    <2> QED  BY <1>1, <1>2, <1>3, <2>1
  <1>6. r * COLS + COLS <= LINES * COLS  BY <1>1, <1>2
  <1>7. Index(r, c) \in Screen  BY <1>1, <1>3, <1>4, <1>5, <1>6 DEF Screen
  <1>8. ASSUME NEW r2 \in 0 .. LINES - 1, NEW c2 \in 0 .. COLS - 1,
               Index(r2, c2) = Index(r, c)
        PROVE  r2 = r /\ c2 = c
    <2>1. r2 * COLS \in Int /\ Index(r2, c2) = r2 * COLS + c2  BY <1>1 DEF Index
    <2>2. CASE r2 < r
      <3>1. r2 * COLS + COLS <= r * COLS  BY <1>2, <2>2
      <3> QED  BY <1>1, <1>3, <1>4, <1>8, <2>1, <3>1
    <2>3. CASE r < r2
      <3>1. r * COLS + COLS <= r2 * COLS  BY <1>2, <2>3
      <3> QED  BY <1>1, <1>3, <1>4, <1>8, <2>1, <3>1
    <2>4. CASE r = r2
      BY <1>3, <1>4, <1>8, <2>1, <2>4
    <2> QED  BY <2>2, <2>3, <2>4
  <1>9. Index(r, c) + COLS = Index(r + 1, c)
    <2>1. (r + 1) * COLS = r * COLS + COLS  BY <1>1
    <2> QED  BY <1>1, <1>3, <2>1 DEF Index
  <1>10. ASSUME r < LINES - 1 PROVE Index(r, c) + COLS \in Screen
    <2>1. (r + 1) * COLS + COLS <= LINES * COLS /\ (r + 1) * COLS \in Int
          BY <1>1, <1>2, <1>10
    <2>2. (r + 1) * COLS = r * COLS + COLS  BY <1>1
    <2> QED  BY <1>1, <1>3, <1>4, <1>5, <2>1, <2>2 DEF Screen
  <1>11. ASSUME ~ r < LINES - 1 PROVE Index(r, c) + COLS \notin Screen
    <2>1. r = LINES - 1  BY <1>1, <1>11
    <2>2. r * COLS = LINES * COLS - COLS  BY <1>1, <2>1
    <2> QED  BY <1>1, <1>3, <1>4, <2>2 DEF Screen
  <1> QED  BY <1>7, <1>8, <1>9, <1>10, <1>11

(* The first line of the sheet that is on the screen.                      *)
LEMMA TopOf ==
    ASSUME NEW row \in Nat
    PROVE  Max({0, row - (LINES - 1)})
             = IF row <= LINES - 1 THEN 0 ELSE row - (LINES - 1)
  <1> DEFINE S == {0, row - (LINES - 1)}
  <1>1. LINES \in Int /\ S \in SUBSET Int  BY ScreenAssumption
  <1>2. CASE row <= LINES - 1
    <2>1. 0 \in S /\ \A y \in S : y <= 0  BY <1>1, <1>2
    <2> HIDE DEF S
    <2>2. Max(S) = 0  BY <1>1, <2>1, MaxIs
    <2> QED  BY <1>2, <2>2 DEF S
  <1>3. CASE ~ row <= LINES - 1
    <2> DEFINE x == row - (LINES - 1)
    <2>1. x \in S /\ \A y \in S : y <= x  BY <1>1, <1>3
    <2> HIDE DEF S
    <2>2. Max(S) = x  BY <1>1, <2>1, MaxIs
    <2> QED  BY <1>3, <2>2 DEF S
  <1> QED  BY <1>2, <1>3

(* The cell of a line and column of the screen shows what is on the sheet. *)
Shows(top) ==
    \A row \in 0 .. LINES - 1, col \in 0 .. COLS - 1 :
        \A line \in {row + top} : _buffer[Index(row, col)].char = OnSheet(line, col)

(* The invariant of the text: a screen that is empty is blank, and a text  *)
(* that is straight is shown from a line on that the cursor's line gives.  *)
Sheet ==
    /\ empty => \A i \in Screen : _buffer[i].char = Blank
    /\ empty \/ ~ straight => text = <<>>
    /\ straight => Ordered /\ _row = PenRow - SheetTop /\ _col = PenCol /\ Shows(SheetTop)

LEMMA SheetShowsText == Sheet => ShowsText
  BY DEF Sheet, ShowsText, Shows, PenRow, PenCol

(* With no text the sheet is blank, and the pen at its beginning.          *)
LEMMA EmptySheet ==
    ASSUME text = <<>>
    PROVE  /\ Ordered /\ PenRow = 0 /\ PenCol = 0 /\ SheetTop = 0
           /\ \A row, col : OnSheet(row, col) = Blank
  <1>1. DOMAIN text = {} /\ Len(text) + 1 = 1  OBVIOUS
  <1>2. ASSUME NEW n, n = 1 PROVE SheetCol(n) = 0 /\ SheetRow(n) = 0
        BY <1>2, FirstPlace
  <1>3. PenRow = 0 /\ PenCol = 0  BY <1>1, <1>2 DEF PenRow, PenCol
  <1>4. SheetTop = Max({0, PenRow - (LINES - 1)})  BY DEF SheetTop, PenRow
  <1>5. SheetTop = 0
    <2>1. \A row \in Nat : row = 0 => Max({0, row - (LINES - 1)}) = 0
      <3> TAKE row \in Nat
      <3>1. Max({0, row - (LINES - 1)}) = IF row <= LINES - 1 THEN 0 ELSE row - (LINES - 1)
            BY TopOf
      <3> QED  BY <3>1, ScreenAssumption
    <2> QED  BY <1>3, <1>4, <2>1
  <1> QED  BY <1>1, <1>3, <1>5 DEF Ordered, OnSheet

(* A char that is put straight.                                            *)
LEMMA AddchSheet ==
    ASSUME CInv, Sheet, NEW c \in Glyphs \cup Control, Addch(c)
    PROVE  Sheet'
  <1>1. CASE ~ straight'
    BY <1>1 DEF Addch, Sheet
  <1>2. CASE straight'
    <2>1. /\ straight /\ c \in Glyphs \cup {"newline"} /\ text' = Append(text, c)
          /\ ~ empty' /\ Recorded
          BY <1>2 DEF Addch, CInv, Recorded
    <2>2. /\ Ordered /\ _row = PenRow - SheetTop /\ _col = PenCol /\ Shows(SheetTop)
          BY <2>1 DEF Sheet
    <2>3. /\ PenCol' = IF Ends(c) THEN 0 ELSE PenCol + 1
          /\ PenRow' = PenRow + (IF Ends(c) THEN 1 ELSE 0)
          /\ PenRow \in Nat /\ PenCol \in 0 .. COLS - 1
          BY <2>1, NextPlace
    <2>4. Ordered'  BY <2>1, <2>2, OrderedNext
    <2>5. PICK top \in Nat : top = SheetTop
                             /\ top = IF PenRow <= LINES - 1 THEN 0 ELSE PenRow - (LINES - 1)
      <3>1. SheetTop = Max({0, PenRow - (LINES - 1)})  BY DEF SheetTop, PenRow
      <3> QED  BY <2>3, <3>1, TopOf, ScreenAssumption
    <2>6. SheetTop' = IF PenRow' <= LINES - 1 THEN 0 ELSE PenRow' - (LINES - 1)
      <3>1. SheetTop' = Max({0, PenRow' - (LINES - 1)})  BY DEF SheetTop, PenRow
      <3>2. PenRow' \in Nat  BY <2>3
      <3> QED  BY <3>1, <3>2, TopOf
    <2> DEFINE p == Wrapped(Advance(c))
               d == IF Ends(c) THEN 1 ELSE 0
    <2>7. LINES \in Nat /\ LINES > 1 /\ COLS \in Nat /\ COLS > 0  BY ScreenAssumption
    <2>8. _row \in 0 .. LINES - 1 /\ _col \in 0 .. COLS - 1
          BY <2>2, <2>3 DEF CInv, Position
    <2>9. p = <<_row + d, IF Ends(c) THEN 0 ELSE _col + 1>>
      <3>1. CASE c = "newline"
        <4>1. Advance(c) = <<_row + 1, 0>>  BY <3>1 DEF Advance
        <4> QED  BY <2>7, <3>1, <4>1 DEF Wrapped, Ends
      <3>2. CASE c # "newline"
        <4>1. c \in Glyphs /\ c \notin Control  BY <2>1, <3>2, GlyphsAssumption
        <4>2. Advance(c) = <<_row, _col + 1>>  BY <4>1 DEF Advance, Control
        <4>3. Ends(c) <=> _col = COLS - 1  BY <2>2, <3>2 DEF Ends
        <4> QED  BY <2>7, <2>8, <4>2, <4>3 DEF Wrapped
      <3> QED  BY <3>1, <3>2
    <2>10. ASSUME NEW row \in 0 .. LINES - 1, NEW col \in 0 .. COLS - 1,
                  NEW line \in {row + top}
           PROVE  Written(c)[Index(row, col)].char = OnSheet(line, col)'
      <3>1. _buffer[Index(row, col)].char = OnSheet(line, col)  BY <2>2, <2>5 DEF Shows
      <3>2. row \in Int /\ col \in Int /\ line \in Int  BY <2>7
      <3>3. OnSheet(line, col)' = IF c # "newline" /\ line = PenRow /\ col = PenCol
                                  THEN c ELSE OnSheet(line, col)
            BY <2>1, <2>2, <3>2, SheetNext
      <3>4. line = PenRow <=> row = _row  BY <2>2, <2>3, <2>5, <3>2
      <3>5. CASE c = "newline"
        <4>1. c \notin Glyphs  BY <3>5, GlyphsAssumption DEF Control
        <4> QED  BY <3>1, <3>3, <3>5, <4>1 DEF Written
      <3>6. CASE c # "newline"
        <4>1. c \in Glyphs  BY <2>1, <3>6
        <4>2. Index(_row, _col) \in Screen /\ Index(row, col) \in Screen
              BY <2>8, IndexFacts
        <4>3. Index(row, col) = Index(_row, _col) <=> row = _row /\ col = _col
              BY <2>8, IndexFacts
        <4>4. Written(c) = [_buffer EXCEPT ![Index(_row, _col)]
                                = [char |-> c, colour |-> _color]]
              BY <4>1, <4>2 DEF Written
        <4>5. _buffer \in [Screen -> Cells]  BY DEF CInv, Shown
        <4>6. Written(c)[Index(row, col)].char
                = IF row = _row /\ col = _col THEN c ELSE _buffer[Index(row, col)].char
              BY <4>2, <4>3, <4>4, <4>5
        <4> QED  BY <2>2, <3>1, <3>3, <3>4, <3>6, <4>6
      <3> QED  BY <3>5, <3>6
    <2>11. CASE ~ Below(p)
      <3>1. _row' = _row + d /\ _col' = PenCol' /\ _buffer' = Written(c)
            BY <2>2, <2>3, <2>9, <2>11 DEF Addch
      <3>2. _row + d <= LINES - 1  BY <2>7, <2>8, <2>9, <2>11 DEF Below
      <3>3. SheetTop' = top  BY <2>2, <2>3, <2>5, <2>6, <2>7, <3>2
      <3>4. _row' = PenRow' - SheetTop'
        <4>1. d \in Int  OBVIOUS
        <4>2. PenRow' = PenRow + d  BY <2>3
        <4>3. _row' = _row + d /\ _row = PenRow - top  BY <2>2, <2>5, <3>1
        <4> HIDE DEF d
        <4> QED  BY <2>3, <3>3, <4>1, <4>2, <4>3
      <3>5. Shows(SheetTop)'  BY <2>10, <3>1, <3>3 DEF Shows
      <3> QED  BY <1>2, <2>1, <2>4, <3>1, <3>4, <3>5 DEF Sheet
    <2>12. CASE Below(p)
      <3>1. /\ _row' = LINES - 1 /\ _col' = PenCol' /\ _buffer' = Up(Written(c))
            BY <2>2, <2>3, <2>9, <2>12 DEF Addch
      <3>2. _row = LINES - 1 /\ Ends(c)  BY <2>7, <2>8, <2>9, <2>12 DEF Below
      <3>3. SheetTop' = top + 1 /\ PenRow' = PenRow + 1 /\ PenRow = LINES - 1 + top
            BY <2>2, <2>3, <2>5, <2>6, <2>7, <3>2
      <3>4. _row' = PenRow' - SheetTop'  BY <2>3, <2>7, <3>1, <3>3
      <3>5. ASSUME NEW row \in 0 .. LINES - 1, NEW col \in 0 .. COLS - 1,
                   NEW line \in {row + (top + 1)}
            PROVE  _buffer'[Index(row, col)].char = OnSheet(line, col)'
        <4>1. Index(row, col) \in Screen /\ Index(row, col) + COLS = Index(row + 1, col)
              BY IndexFacts
        <4>2. CASE row < LINES - 1
          <5>1. Index(row, col) + COLS \in Screen  BY <4>2, IndexFacts
          <5>2. _buffer'[Index(row, col)] = Written(c)[Index(row + 1, col)]
                BY <3>1, <4>1, <5>1 DEF Up
          <5>3. row + 1 \in 0 .. LINES - 1 /\ line \in {(row + 1) + top}
                BY <2>7, <4>2
          <5> QED  BY <2>10, <5>2, <5>3
        <4>3. CASE ~ row < LINES - 1
          <5>1. Index(row, col) + COLS \notin Screen  BY <4>3, IndexFacts
          <5>2. _buffer'[Index(row, col)].char = Blank
                BY <3>1, <4>1, <5>1 DEF Up, Void
          <5>3. line \in Int /\ line > PenRow  BY <2>7, <3>3, <4>3
          <5>4. OnSheet(line, col) = Blank  BY <2>1, <2>2, <5>3, BlankFrom
          <5>5. OnSheet(line, col)' = OnSheet(line, col)
                BY <2>1, <2>2, <2>3, <5>3, SheetNext
          <5> QED  BY <5>2, <5>4, <5>5
        <4> QED  BY <4>2, <4>3
      <3>6. Shows(SheetTop)'  BY <3>3, <3>5 DEF Shows
      <3> QED  BY <1>2, <2>1, <2>4, <3>1, <3>4, <3>6 DEF Sheet
    <2> QED  BY <2>11, <2>12
  <1> QED  BY <1>1, <1>2

(* A blank screen with the cursor at its beginning shows no text.          *)
Blanked ==
    /\ text = <<>> /\ \A i \in Screen : _buffer[i].char = Blank
    /\ straight => _row = 0 /\ _col = 0

LEMMA BlankSheet == Blanked => Sheet
  <1>1. \A row \in 0 .. LINES - 1, col \in 0 .. COLS - 1 : Index(row, col) \in Screen
        BY IndexFacts
  <1> QED  BY <1>1, EmptySheet, ScreenAssumption DEF Blanked, Sheet, Shows

LEMMA BlankSheetNext == Blanked' => Sheet'
  BY BlankSheet, PTL

(* Cells that are cleared from the cursor on were blank on the sheet.      *)
LEMMA ClearedSheet ==
    ASSUME CInv, Sheet, NEW cells, Cleared(cells),
           straight => \A row \in 0 .. LINES - 1, col \in 0 .. COLS - 1 :
                          Index(row, col) \in cells
                             => row > _row \/ (row = _row /\ col >= _col)
    PROVE  Sheet'
  <1>1. /\ _row' = _row /\ _col' = _col /\ empty' = empty /\ straight' = straight
        /\ text' = IF straight THEN text ELSE <<>>
        /\ \A i \in Screen : _buffer'[i] = IF i \in cells THEN Void(_color) ELSE _buffer[i]
        BY DEF Cleared, NotPut, cursor
  <1>2. text' = text  BY <1>1 DEF Sheet
  <1>3. empty' => \A i \in Screen : _buffer'[i].char = Blank
        BY <1>1 DEF Sheet, Void
  <1>4. Ordered' = Ordered /\ PenRow' = PenRow /\ PenCol' = PenCol /\ SheetTop' = SheetTop
        /\ \A line, col : OnSheet(line, col)' = OnSheet(line, col)
        BY <1>2 DEF Ordered, PenRow, PenCol, SheetTop, OnSheet, SheetRow, SheetCol
  <1>5. ASSUME straight PROVE Shows(SheetTop)'
    <2>1. PenRow \in Nat /\ PenCol \in 0 .. COLS - 1
      <3>1. Len(text) + 1 \in Nat \ {0}  BY DEF CInv, Recorded
      <3> QED  BY <3>1, Place DEF PenRow, PenCol
    <2>2. PICK top \in Nat : top = SheetTop
      <3>1. SheetTop = Max({0, PenRow - (LINES - 1)})  BY DEF SheetTop, PenRow
      <3> QED  BY <2>1, <3>1, TopOf, ScreenAssumption
    <2>3. Ordered /\ _row = PenRow - top /\ _col = PenCol /\ Shows(top)
          BY <1>5, <2>2 DEF Sheet
    <2>4. ASSUME NEW row \in 0 .. LINES - 1, NEW col \in 0 .. COLS - 1,
                 NEW line \in {row + top}
          PROVE  _buffer'[Index(row, col)].char = OnSheet(line, col)
      <3>1. Index(row, col) \in Screen  BY IndexFacts
      <3>2. CASE Index(row, col) \in cells
        <4>1. row > _row \/ (row = _row /\ col >= _col)  BY <1>5, <3>2
        <4>2. row \in Int /\ col \in Int /\ line \in Int  BY ScreenAssumption
        <4>3. line > PenRow \/ (line = PenRow /\ col >= PenCol)
              BY <2>1, <2>3, <4>1, <4>2
        <4>4. OnSheet(line, col) = Blank
              BY <2>3, <4>2, <4>3, BlankFrom DEF CInv
        <4> QED  BY <1>1, <3>1, <3>2, <4>4 DEF Void
      <3>3. CASE Index(row, col) \notin cells
        BY <1>1, <2>3, <3>1, <3>3 DEF Shows
      <3> QED  BY <3>2, <3>3
    <2>5. \A row \in 0 .. LINES - 1, col \in 0 .. COLS - 1 : \A line \in {row + top} :
             _buffer'[Index(row, col)].char = OnSheet(line, col)'
          BY <1>4, <2>4
    <2> QED  BY <1>4, <2>2, <2>5 DEF Shows
  <1>6. straight => Ordered' /\ _row' = PenRow' - SheetTop' /\ _col' = PenCol'
        BY <1>1, <1>4 DEF Sheet
  <1> QED  BY <1>1, <1>2, <1>3, <1>5, <1>6 DEF Sheet

(* What clrtoeol and clrtobot clear is not before the cursor.              *)
LEMMA NotBefore ==
    ASSUME CInv, NEW row \in 0 .. LINES - 1, NEW col \in 0 .. COLS - 1,
           _row \in 0 .. LINES - 1, _col \in 0 .. COLS - 1,
           Index(row, col) \in InRow \cup RowsBelow
    PROVE  row > _row \/ (row = _row /\ col >= _col)
  <1>1. COLS \in Int /\ COLS >= 1  BY ScreenAssumption
  <1>2. /\ row * COLS \in Int /\ _row * COLS \in Int
        /\ (_row - row) * COLS \in Int /\ (_row - row) * COLS = _row * COLS - row * COLS
        BY <1>1, ScreenAssumption
  <1>3. Index(row, col) >= Index(_row, _col)
    <2>1. CASE Index(row, col) \in InRow  BY <2>1 DEF InRow
    <2>2. CASE Index(row, col) \in RowsBelow
      <3>1. Index(_row + 1, 0) = Index(_row, 0 + COLS)  BY NextRow, ScreenAssumption
      <3>2. Index(row, col) >= Index(_row + 1, 0)  BY <2>2 DEF RowsBelow
      <3> QED  BY <1>1, <1>2, <3>1, <3>2 DEF Index
    <2> QED  BY <2>1, <2>2
  <1>4. row * COLS + col >= _row * COLS + _col  BY <1>3 DEF Index
  <1>5. CASE row < _row
    <2>1. (_row - row) * COLS = COLS + (_row - row - 1) * COLS  BY <1>1, ScreenAssumption
    <2>2. _row - row - 1 \in Int /\ _row - row - 1 >= 0  BY <1>5, ScreenAssumption
    <2>3. (_row - row - 1) * COLS \in Int /\ (_row - row - 1) * COLS >= 0  BY <1>1, <2>2
    <2>4. FALSE  BY <1>1, <1>2, <1>4, <2>1, <2>3
    <2> QED  BY <2>4
  <1>6. CASE row = _row
    BY <1>1, <1>2, <1>4, <1>6
  <1> QED  BY <1>5, <1>6, ScreenAssumption

LEMMA OtherSheet ==
    ASSUME CInv, Sheet,
           \/ \E y \in -1 .. LINES, x \in -1 .. COLS : Move(y, x)
           \/ Clear \/ Clrtoeol \/ Clrtobot \/ Scrl
           \/ \E colour \in Colours : Attrset(colour)
    PROVE  Sheet'
  <1>1. ASSUME UNCHANGED cursor, UNCHANGED _buffer, NotPut(empty, straight)
        PROVE  Sheet'
    <2>1. /\ _row' = _row /\ _col' = _col /\ _buffer' = _buffer
          /\ empty' = empty /\ straight' = straight
          /\ text' = text
          BY <1>1 DEF cursor, NotPut, Sheet
    <2>2. Ordered' = Ordered /\ PenRow' = PenRow /\ PenCol' = PenCol /\ SheetTop' = SheetTop
          BY <2>1 DEF Ordered, PenRow, PenCol, SheetTop, SheetRow, SheetCol
    <2>3. Shows(SheetTop)' = Shows(SheetTop)
          BY <2>1 DEF Shows, SheetTop, OnSheet, SheetRow, SheetCol
    <2> QED  BY <2>1, <2>2, <2>3 DEF Sheet
  <1>2. CASE \E y \in -1 .. LINES, x \in -1 .. COLS : Move(y, x)
    <2>1. PICK y \in -1 .. LINES, x \in -1 .. COLS : Move(y, x)  BY <1>2
    <2>2. CASE x < 0 \/ y < 0 \/ x >= COLS \/ y >= LINES
      BY <1>1, <2>1, <2>2 DEF Move
    <2>3. CASE ~ (x < 0 \/ y < 0 \/ x >= COLS \/ y >= LINES)
      <3>1. /\ _row' = y /\ _col' = x /\ _buffer' = _buffer /\ empty' = empty
            /\ straight' = (empty /\ y = 0 /\ x = 0)
            /\ text' = IF empty /\ y = 0 /\ x = 0 THEN text ELSE <<>>
            BY <2>1, <2>3 DEF Move, NotPut
      <3>2. text' = <<>> /\ (empty' => \A i \in Screen : _buffer'[i].char = Blank)
            BY <3>1 DEF Sheet
      <3>3. CASE ~ straight'  BY <3>2, <3>3 DEF Sheet
      <3>4. CASE straight'
        <4>1. /\ \A i \in Screen : _buffer'[i].char = Blank
              /\ _row' = 0 /\ _col' = 0
              BY <3>1, <3>2, <3>4
        <4> QED  BY <3>2, <4>1, BlankSheetNext DEF Blanked
      <3> QED  BY <3>3, <3>4
    <2> QED  BY <2>2, <2>3
  <1>3. CASE Clear
    <2>1. ~ straight' /\ text' = <<>> /\ \A i \in Screen : _buffer'[i].char = Blank
          BY <1>3 DEF Clear, NotPut, Void
    <2> QED  BY <2>1 DEF Sheet
  <1>4. straight => _row \in 0 .. LINES - 1 /\ _col \in 0 .. COLS - 1
    <2>1. Len(text) + 1 \in Nat \ {0}  BY DEF CInv, Recorded
    <2>2. PenCol \in 0 .. COLS - 1  BY <2>1, Place DEF PenCol
    <2> QED  BY <2>2 DEF CInv, Position, Sheet
  <1>5. CASE Clrtoeol \/ Clrtobot
    <2>1. PICK cells \in SUBSET (InRow \cup RowsBelow) : Cleared(cells)
          BY <1>5 DEF Clrtoeol, Clrtobot
    <2>2. straight => \A row \in 0 .. LINES - 1, col \in 0 .. COLS - 1 :
                          Index(row, col) \in cells
                             => row > _row \/ (row = _row /\ col >= _col)
          BY <1>4, <2>1, NotBefore
    <2> QED  BY <2>1, <2>2, ClearedSheet
  <1>6. CASE Scrl
    <2>1. /\ empty' = empty /\ straight' = (empty /\ straight)
          /\ _row' = _row /\ _col' = _col /\ _buffer' = Up(_buffer)
          /\ text' = IF empty /\ straight THEN text ELSE <<>>
          BY <1>6 DEF Scrl, NotPut, cursor
    <2>2. text' = <<>>  BY <2>1 DEF Sheet
    <2>3. empty => \A i \in Screen : _buffer'[i].char = Blank
          BY <2>1 DEF Up, Void, Sheet
    <2>4. straight' => _row' = 0 /\ _col' = 0
      <3>1. empty /\ straight => PenRow = 0 /\ PenCol = 0 /\ SheetTop = 0
            BY EmptySheet DEF Sheet
      <3>2. empty /\ straight => _row = PenRow - SheetTop /\ _col = PenCol  BY DEF Sheet
      <3>3. empty /\ straight => _row = 0 /\ _col = 0  BY <3>1, <3>2
      <3> QED  BY <2>1, <3>3
    <2>5. CASE ~ straight'  BY <2>1, <2>2, <2>3, <2>5 DEF Sheet
    <2>6. CASE straight'  BY <2>1, <2>2, <2>3, <2>4, <2>6, BlankSheetNext DEF Blanked
    <2> QED  BY <2>5, <2>6
  <1>7. CASE \E colour \in Colours : Attrset(colour)
    BY <1>1, <1>7 DEF Attrset
  <1> QED  BY <1>2, <1>3, <1>5, <1>6, <1>7

(* The text stays on the screen.                                           *)
LEMMA ShowsStep == CInv /\ Sheet /\ [Next]_vars => Sheet'
  <1> SUFFICES ASSUME CInv, Sheet, [Next]_vars PROVE Sheet'  OBVIOUS
  <1>1. CASE \E c \in Glyphs \cup Control : Addch(c)  BY <1>1, AddchSheet
  <1>2. CASE Next /\ ~ \E c \in Glyphs \cup Control : Addch(c)
        BY <1>2, OtherSheet DEF Next, Call
  <1>3. CASE UNCHANGED vars
    <2>1. /\ _row' = _row /\ _col' = _col /\ _buffer' = _buffer
          /\ empty' = empty /\ straight' = straight /\ text' = text
          BY <1>3 DEF vars, cursor, history
    <2>2. Ordered' = Ordered /\ PenRow' = PenRow /\ PenCol' = PenCol /\ SheetTop' = SheetTop
          BY <2>1 DEF Ordered, PenRow, PenCol, SheetTop, SheetRow, SheetCol
    <2>3. Shows(SheetTop)' = Shows(SheetTop)
          BY <2>1 DEF Shows, SheetTop, OnSheet, SheetRow, SheetCol
    <2> QED  BY <2>1, <2>2, <2>3 DEF Sheet
  <1> QED  BY <1>1, <1>2, <1>3

(* On a screen of any size, what is put on an empty screen is shown in     *)
(* order, wrapped and scrolled as it has to be, and nothing else is, also  *)
(* when the cells behind the cursor are cleared in between.                *)
THEOREM TextIsShown == Spec => []ShowsText
  <1>1. Init => Sheet
    <2> SUFFICES ASSUME Init PROVE Sheet  OBVIOUS
    <2>1. Blanked  BY DEF Init, Blanked, Void
    <2> QED  BY <2>1, BlankSheet
  <1> QED  BY <1>1, ConsoleInvariance, ShowsStep, SheetShowsText, PTL DEF Spec
=============================================================================
