---------------------------- MODULE Console_proofs ----------------------------
(***************************************************************************)
(* Console for any size of the screen, any number of terminals, any keys   *)
(* and any texts.  IInv is the inductive invariant: to the types it adds   *)
(* Room, that what the line has put on the screen is behind the cursor.    *)
(***************************************************************************)
EXTENDS Console, SequenceTheorems, NumberFacts, TLAPS

\* Sixteen bits.
LEMMA Wraps == ASSUME NEW n \in Nat PROVE Low16(n) \in Positions /\ (n = 0 => Low16(n) = 0)
BY SMT DEF Low16, Positions

\* The first cell of a row, and that a row fits behind it.
LEMMA RowBounds ==
  ASSUME NEW y \in Rows
  PROVE  /\ NUM_COLS * y \in Nat /\ NUM_COLS * y + NUM_COLS <= NUM_ROWS * NUM_COLS
         /\ NUM_COLS * (y + 1) = NUM_COLS * y + NUM_COLS
         /\ NUM_ROWS * NUM_COLS \in Nat
<1>1. NUM_COLS \in Nat /\ NUM_ROWS \in Nat /\ y \in Nat /\ y + 1 <= NUM_ROWS
  BY ConsoleAssumption DEF Rows
<1>2. PICK d \in Nat : NUM_ROWS = y + 1 + d
  <2>1. NUM_ROWS - (y + 1) \in Nat
    BY <1>1
  <2> QED
    BY <1>1, <2>1
<1>3. NUM_COLS * d \in Nat /\ NUM_COLS * y \in Nat
  BY <1>1, <1>2
<1>4. NUM_ROWS * NUM_COLS = NUM_COLS * y + NUM_COLS + NUM_COLS * d
  BY <1>1, <1>2
<1> QED
  BY <1>1, <1>3, <1>4

\* A row and a column of its own are a cell.
LEMMA CellAt ==
  ASSUME NEW y \in Rows, NEW x \in 0..(NUM_COLS - 1)
  PROVE  At(x, y) \in Cells /\ At(x, y) >= 0
<1>1. NUM_COLS \in Nat /\ x \in Nat /\ x < NUM_COLS
  BY ConsoleAssumption
<1> QED
  BY <1>1, RowBounds DEF At, Cells

\* A character drawn in a cell, in the colour of the terminal.
LEMMA DrawnTyped ==
  ASSUME TypeOK, NEW p \in Cells, NEW c \in Chars
  PROVE  /\ Drawn(p, c) \in Pages
         /\ \A q \in Cells : video_mem.attrib[q] = TermColor[curr_active_terminal]
              => Drawn(p, c).attrib[q] = TermColor[curr_active_terminal]
<1>1. video_mem \in Pages /\ TermColor[curr_active_terminal] \in Nat
  BY ConsoleAssumption DEF TypeOK, ScreensTyped, LineTyped, PaperTyped
<1>2. /\ video_mem.char \in [Cells -> Chars \cup {Noise}]
      /\ video_mem.attrib \in [Cells -> Nat]
  BY <1>1 DEF Pages
<1>3. /\ [video_mem.char EXCEPT ![p] = c] \in [Cells -> Chars \cup {Noise}]
      /\ [video_mem.attrib EXCEPT ![p] = TermColor[curr_active_terminal]] \in [Cells -> Nat]
  BY <1>1, <1>2
<1>4. Drawn(p, c).attrib = [video_mem.attrib EXCEPT ![p] = TermColor[curr_active_terminal]]
  BY DEF Drawn
<1>5. Drawn(p, c) \in Pages
  BY <1>3 DEF Drawn, Pages
<1>6. ASSUME NEW q \in Cells, video_mem.attrib[q] = TermColor[curr_active_terminal]
      PROVE  Drawn(p, c).attrib[q] = TermColor[curr_active_terminal]
  BY <1>2, <1>4, <1>6
<1> QED
  BY <1>5, <1>6

\* scroll moves characters only: the attributes stay.
LEMMA ScrolledTyped == TypeOK => Scrolled \in Pages /\ Scrolled.attrib = video_mem.attrib
<1> SUFFICES ASSUME TypeOK PROVE Scrolled \in Pages /\ Scrolled.attrib = video_mem.attrib
  OBVIOUS
<1>1. video_mem \in Pages
  BY DEF TypeOK, ScreensTyped, LineTyped, PaperTyped
<1>2. Blank \in Chars \cup {Noise}
  BY DEF Chars
<1>3. \A p \in Cells : video_mem.char[p] \in Chars \cup {Noise}
  BY <1>1 DEF Pages
<1>4. [p \in Cells |-> IF p + NUM_COLS \in Cells THEN video_mem.char[p + NUM_COLS] ELSE Blank]
        \in [Cells -> Chars \cup {Noise}]
  BY <1>2, <1>3
<1> QED
  BY <1>1, <1>4 DEF Scrolled, Pages

\* A page of one character and one attribute.
LEMMA AllCellsTyped ==
  ASSUME NEW c \in Chars \cup {Noise}, NEW a \in Nat
  PROVE  AllCells(c, a) \in Pages /\ \A p \in Cells : AllCells(c, a).attrib[p] = a
BY DEF AllCells, Pages

\* Where putc leaves the cursor: on the screen, a place further or at the start of
\* the last row.
LEMMA PutcMoves ==
  ASSUME TypeOK, NEW c \in Chars, putc(c)
  PROVE  /\ screen_x' \in Columns /\ screen_y' \in Rows
         /\ At(screen_x', screen_y') \in Cells /\ cursor' = Low16(At(screen_x', screen_y'))
         /\ video_mem' \in Pages
         /\ (\A q \in Cells : video_mem.attrib[q] = TermColor[curr_active_terminal])
              => \A q \in Cells : video_mem'.attrib[q] = TermColor[curr_active_terminal]
         /\ \/ At(screen_x', screen_y') >= At(screen_x, screen_y) + 1
            \/ At(screen_x', screen_y') >= MaxLine
<1>1. /\ NUM_COLS \in Nat /\ NUM_COLS >= 2 /\ NUM_ROWS \in Nat /\ NUM_ROWS >= 2
      /\ MaxLine \in Nat /\ MaxLine <= (NUM_ROWS - 1) * NUM_COLS
  BY ConsoleAssumption
<1>2. /\ screen_x \in Columns /\ screen_y \in Rows /\ At(screen_x, screen_y) \in Cells
      /\ screen_x \in Int /\ screen_x <= NUM_COLS - 1 /\ screen_y \in Nat
      /\ screen_y <= NUM_ROWS - 1 /\ screen_x >= 1 - NUM_COLS
  BY <1>1 DEF TypeOK, ScreensTyped, LineTyped, PaperTyped, Columns, Rows
<1>3. CASE screen_x' = 0 /\ screen_y + 1 < NUM_ROWS /\ screen_y' = screen_y + 1
           /\ UNCHANGED video_mem /\ update_cursor(0, screen_y')
  <2>1. screen_y' \in Rows /\ 0 \in 0..(NUM_COLS - 1) /\ 0 \in Columns
    BY <1>1, <1>2, <1>3 DEF Rows, Columns
  <2>2. At(screen_x', screen_y') \in Cells
    BY <1>3, <2>1, CellAt
  <2>3. NUM_COLS * (screen_y + 1) = NUM_COLS * screen_y + NUM_COLS /\ NUM_COLS * screen_y \in Nat
    BY <1>2, RowBounds
  <2>4. At(screen_x', screen_y') >= At(screen_x, screen_y) + 1
    BY <1>1, <1>2, <1>3, <2>3 DEF At
  <2>5. video_mem' = video_mem /\ video_mem \in Pages
    <3>1. video_mem \in Pages
      BY DEF TypeOK, ScreensTyped
    <3> QED
      BY <1>3, <3>1
  <2> QED
    BY <1>3, <2>1, <2>2, <2>4, <2>5 DEF update_cursor
<1>4. CASE screen_x' = 0 /\ screen_y + 1 >= NUM_ROWS /\ screen_y' = NUM_ROWS - 1
           /\ video_mem' = Scrolled /\ update_cursor(0, screen_y')
  <2>1. screen_y' \in Rows /\ 0 \in 0..(NUM_COLS - 1) /\ 0 \in Columns
    BY <1>1, <1>4 DEF Rows, Columns
  <2>2. At(screen_x', screen_y') \in Cells
    BY <1>4, <2>1, CellAt
  <2>3. At(screen_x', screen_y') = NUM_COLS * (NUM_ROWS - 1)
    BY <1>1, <1>4 DEF At
  <2>4. At(screen_x', screen_y') >= MaxLine
    BY <1>1, <2>3
  <2> QED
    BY <1>4, <2>1, <2>2, <2>4, ScrolledTyped DEF update_cursor
<1>5. CASE /\ c # NL /\ screen_x # NUM_COLS - 1
           /\ video_mem' = Drawn(At(screen_x, screen_y), c)
           /\ screen_x' = screen_x + 1 /\ UNCHANGED screen_y
           /\ update_cursor(screen_x + 1, screen_y)
  <2>1. screen_x' \in Columns
    BY <1>1, <1>2, <1>5 DEF Columns
  <2>2. NUM_COLS * screen_y \in Nat /\ NUM_COLS * screen_y + NUM_COLS <= NUM_ROWS * NUM_COLS
        /\ NUM_ROWS * NUM_COLS \in Nat
    BY <1>2, RowBounds
  <2>3. At(screen_x', screen_y') = At(screen_x, screen_y) + 1
    BY <1>1, <1>2, <1>5, <2>2 DEF At
  <2>4. At(screen_x', screen_y') \in Cells
    BY <1>1, <1>2, <1>5, <2>2, <2>3 DEF At, Cells
  <2>5. At(screen_x, screen_y) \in Int
    BY <1>2 DEF Cells
  <2> QED
    BY <1>2, <1>5, <2>1, <2>3, <2>4, <2>5, DrawnTyped DEF update_cursor
<1> QED
  BY <1>3, <1>4, <1>5 DEF putc, NextRow

\* Where backspace moves the cursor: one place back, or further on; if that is not
\* in front of video memory, it is a cell.
LEMMA BackMoves ==
  ASSUME TypeOK
  PROVE  /\ ColumnBefore \in Columns /\ At(ColumnBefore, screen_y) \in Int
         /\ At(ColumnBefore, screen_y) >= At(screen_x, screen_y) - 1
         /\ At(ColumnBefore, screen_y) >= 0 => At(ColumnBefore, screen_y) \in Cells
<1>1. NUM_COLS \in Nat /\ NUM_COLS >= 2 /\ NUM_ROWS \in Nat
  BY ConsoleAssumption
<1>2. /\ screen_y \in Rows /\ screen_x \in Int /\ screen_x <= NUM_COLS - 1
      /\ screen_x >= 1 - NUM_COLS
  BY <1>1 DEF TypeOK, ScreensTyped, LineTyped, PaperTyped, Columns
<1>3. /\ NUM_COLS * screen_y \in Nat /\ NUM_ROWS * NUM_COLS \in Nat
      /\ NUM_COLS * screen_y + NUM_COLS <= NUM_ROWS * NUM_COLS
  BY <1>2, RowBounds
<1>4. ColumnBefore \in Int /\ ColumnBefore >= screen_x - 1 /\ ColumnBefore >= 1 - NUM_COLS
      /\ ColumnBefore <= NUM_COLS - 1
  BY <1>1, <1>2 DEF ColumnBefore
<1> QED
  BY <1>1, <1>2, <1>3, <1>4 DEF At, Cells, Columns

\* As long as a line was typed where the cursor is, what it has put on the screen
\* lies behind the cursor or is still to be printed.
Room ==
  ~displaced => \/ At(screen_x, screen_y) >= Len(line)
                \/ /\ At(screen_x, screen_y) + Len(text) >= Len(line)
                   /\ \A k \in 1..Len(text) : text[k] # NUL

IInv == TypeOK /\ Room /\ StaysInVideoMemory /\ CursorShown /\ OwnColour

\* After init_terminal the first terminal is blank and in its colour.
LEMMA InitInv == Init => IInv
<1> SUFFICES ASSUME Init PROVE IInv
  OBVIOUS
<1>1. /\ NUM_COLS \in Nat /\ NUM_COLS >= 2 /\ NUM_ROWS \in Nat /\ NUM_ROWS >= 2
      /\ MAX_TERMINALS \in Nat /\ MAX_TERMINALS > 0 /\ MaxLine \in Nat
      /\ 0 \in Terminals /\ TermColor[0] \in Nat
  BY ConsoleAssumption DEF Terminals
<1>2. /\ AllCells(Blank, TermColor[0]) \in Pages /\ AllCells(Noise, 0) \in Pages
      /\ \A p \in Cells : AllCells(Blank, TermColor[0]).attrib[p] = TermColor[0]
  BY <1>1, AllCellsTyped DEF Chars
<1>3. At(0, 0) = 0 /\ 0 \in Cells /\ 0 \in Columns /\ 0 \in Rows
  <2>1. 0 \in Rows /\ 0 \in 0..(NUM_COLS - 1) /\ 0 \in Columns
    BY <1>1 DEF Rows, Columns
  <2>2. At(0, 0) = 0
    BY <1>1 DEF At
  <2> QED
    BY <2>1, <2>2, CellAt
<1>4. TypeOK
  <2>1. term_blk \in [Terminals -> [page : Pages, cursor_x : Columns, cursor_y : Rows]]
        /\ \A t \in Terminals : At(term_blk[t].cursor_x, term_blk[t].cursor_y) \in Cells
    BY <1>2, <1>3 DEF Init
  <2>2. line = <<>> /\ text = <<>> /\ <<>> \in Seq(Chars) /\ Len(<<>>) = 0
    BY DEF Init
  <2>3. video_mem \in Pages /\ screen_x = 0 /\ screen_y = 0 /\ cursor = 0 /\ cursor \in Positions
    BY <1>2, Wraps DEF Init
  <2>4. /\ paper \in [Terminals -> Seq(Chars)] /\ awkward \in [Terminals -> BOOLEAN]
        /\ backdrop \in [Terminals -> {Blank, Noise}]
    BY DEF Init
  <2> QED
    BY <1>1, <1>3, <2>1, <2>2, <2>3, <2>4 DEF Init, TypeOK, ScreensTyped, LineTyped, PaperTyped
<1>5. Room
  BY <1>3 DEF Init, Room
<1>6. StaysInVideoMemory
  BY DEF Init, StaysInVideoMemory
<1>7. CursorShown
  BY <1>3, Wraps DEF Init, CursorShown
<1>8. OwnColour
  BY <1>2 DEF Init, OwnColour, ScreenOf, Blank, Noise
<1> QED
  BY <1>4, <1>5, <1>6, <1>7, <1>8 DEF IInv

\* A step that leaves the screens alone keeps what is said of them.
LEMMA StillScreens ==
  ASSUME IInv, UNCHANGED <<screen, curr_active_terminal, term_blk, fault, backdrop>>,
         fault => displaced'
  PROVE  StaysInVideoMemory' /\ CursorShown' /\ OwnColour'
<1>1. StaysInVideoMemory'
  BY DEF StaysInVideoMemory
<1>2. CursorShown'
  BY DEF IInv, CursorShown, screen, At
<1>3. OwnColour'
  BY DEF IInv, OwnColour, ScreenOf, screen
<1> QED
  BY <1>1, <1>2, <1>3

\* A step that changes the screen shown: if it keeps it in one colour, all are.
LEMMA ShownChanges ==
  ASSUME IInv, UNCHANGED <<curr_active_terminal, term_blk>>,
         \A t \in Terminals : t # curr_active_terminal => backdrop'[t] = backdrop[t],
         backdrop'[curr_active_terminal] = Blank =>
           \A q \in Cells : video_mem'.attrib[q] = TermColor[curr_active_terminal]
  PROVE  OwnColour'
<1> SUFFICES ASSUME NEW t \in Terminals, backdrop'[t] = Blank, NEW p \in Cells
             PROVE  ScreenOf(t)'.page.attrib[p] = TermColor[t]
  BY DEF OwnColour
<1>1. CASE t = curr_active_terminal
  <2>1. ScreenOf(t)'.page = video_mem'
    BY <1>1 DEF ScreenOf
  <2> QED
    BY <1>1, <2>1
<1>2. CASE t # curr_active_terminal
  <2>1. ScreenOf(t)' = term_blk[t] /\ ScreenOf(t) = term_blk[t]
    BY <1>2 DEF ScreenOf
  <2> QED
    BY <1>2, <2>1 DEF IInv, OwnColour
<1> QED
  BY <1>1, <1>2

\* The facts about single variables that most steps need.
LEMMA Basics ==
  ASSUME TypeOK
  PROVE  /\ At(screen_x, screen_y) \in Nat /\ At(screen_x, screen_y) \in Cells
         /\ line \in Seq(Chars) /\ Len(line) \in Nat /\ Len(line) <= MaxLine
         /\ text \in Seq(Chars) /\ Len(text) \in Nat /\ MaxLine \in Nat
         /\ curr_active_terminal \in Terminals
         /\ enter_flag \in {0, 1} /\ fault \in BOOLEAN /\ displaced \in BOOLEAN
         /\ mixed \in BOOLEAN
<1>1. At(screen_x, screen_y) \in Cells /\ curr_active_terminal \in Terminals
  BY DEF TypeOK, ScreensTyped
<1>2. At(screen_x, screen_y) \in Nat
  BY <1>1 DEF Cells
<1> QED
  BY <1>1, <1>2, ConsoleAssumption DEF TypeOK, LineTyped

\* The types of the screens in the next state, one variable at a time.
LEMMA ScreensNext ==
  ASSUME video_mem' \in Pages, screen_x' \in Columns, screen_y' \in Rows,
         cursor' \in Positions, At(screen_x', screen_y') \in Cells,
         curr_active_terminal' \in Terminals,
         term_blk' \in [Terminals -> [page : Pages, cursor_x : Columns, cursor_y : Rows]],
         \A t \in Terminals : At(term_blk'[t].cursor_x, term_blk'[t].cursor_y) \in Cells
  PROVE  ScreensTyped'
<1>1. At(screen_x, screen_y)' \in Cells
  BY DEF At
<1>2. (\A t \in Terminals : At(term_blk[t].cursor_x, term_blk[t].cursor_y) \in Cells)'
  BY DEF At
<1> QED
  BY <1>1, <1>2 DEF ScreensTyped

\* A step that leaves the screens alone, or the papers, keeps their types.
LEMMA StillTyped ==
  ASSUME TypeOK
  PROVE  /\ UNCHANGED <<screen, curr_active_terminal, term_blk>> =>
              ScreensTyped' /\ At(screen_x, screen_y)' = At(screen_x, screen_y)
         /\ UNCHANGED ghosts => PaperTyped'
<1>1. ASSUME UNCHANGED <<screen, curr_active_terminal, term_blk>>
      PROVE  ScreensTyped' /\ At(screen_x, screen_y)' = At(screen_x, screen_y)
  <2>1. /\ video_mem' = video_mem /\ screen_x' = screen_x /\ screen_y' = screen_y
        /\ cursor' = cursor /\ curr_active_terminal' = curr_active_terminal
        /\ term_blk' = term_blk
    BY <1>1 DEF screen
  <2>2. At(screen_x, screen_y)' = At(screen_x, screen_y)
    BY <2>1 DEF At
  <2>3. ScreensTyped
    BY DEF TypeOK
  <2>4. ScreensTyped'
    BY <2>1, <2>3, ScreensNext DEF ScreensTyped
  <2> QED
    BY <2>2, <2>4
<1>2. ASSUME UNCHANGED ghosts PROVE PaperTyped'
  BY <1>2 DEF TypeOK, PaperTyped, ghosts
<1> QED
  BY <1>1, <1>2

\* Printing the next character.
LEMMA PutStep == IInv /\ Put => IInv'
<1> SUFFICES ASSUME IInv, Put PROVE IInv'
  OBVIOUS
<1> DEFINE c == Head(text)
<1>1. /\ TypeOK /\ text \in Seq(Chars) /\ text # <<>> /\ c \in Chars
      /\ text' = Tail(text) /\ Tail(text) \in Seq(Chars) /\ Len(text) \in Nat
      /\ Len(Tail(text)) = Len(text) - 1 /\ Len(line) \in Nat /\ Len(line) <= MaxLine
      /\ curr_active_terminal \in Terminals /\ MaxLine \in Nat
  <2>1. TypeOK /\ text # <<>> /\ text' = Tail(text)
    BY DEF IInv, Put
  <2> QED
    BY <2>1, Basics
<1>2. UNCHANGED <<curr_active_terminal, term_blk, line, enter_flag, fault, displaced, mixed, steps>>
  BY DEF Put
<1>3. At(screen_x, screen_y) \in Nat
  BY <1>1, Basics
<1>4. (\A k \in 1..Len(text) : text[k] # NUL)
        => c # NUL /\ \A k \in 1..Len(Tail(text)) : Tail(text)[k] # NUL
  BY <1>1
<1>5. CASE c = NUL /\ UNCHANGED <<screen, ghosts>>
  <2>1. TypeOK'
    <3>1. ScreensTyped' /\ PaperTyped'
      BY <1>1, <1>2, <1>5, StillTyped
    <3>2. LineTyped'
      BY <1>1, <1>2 DEF TypeOK, LineTyped
    <3> QED
      BY <3>1, <3>2 DEF TypeOK
  <2>2. Room'
    <3>1. At(screen_x, screen_y)' = At(screen_x, screen_y)
      BY <1>5 DEF screen, At
    <3> QED
      BY <1>2, <1>4, <1>5, <3>1 DEF IInv, Room
  <2>3. StaysInVideoMemory' /\ CursorShown' /\ OwnColour'
    BY <1>2, <1>5, StillScreens DEF ghosts, IInv, StaysInVideoMemory
  <2> QED
    BY <2>1, <2>2, <2>3 DEF IInv
<1>6. CASE /\ c # NUL /\ putc(c) /\ UNCHANGED backdrop
           /\ paper' = [paper EXCEPT ![Here] = Append(paper[Here], c)]
           /\ awkward' = [awkward EXCEPT ![Here] = @ \/ (c = NL /\ screen_x < 0)]
  <2>1. /\ screen_x' \in Columns /\ screen_y' \in Rows
        /\ At(screen_x', screen_y') \in Cells /\ cursor' = Low16(At(screen_x', screen_y'))
        /\ video_mem' \in Pages
        /\ (\A q \in Cells : video_mem.attrib[q] = TermColor[curr_active_terminal])
             => \A q \in Cells : video_mem'.attrib[q] = TermColor[curr_active_terminal]
        /\ \/ At(screen_x', screen_y') >= At(screen_x, screen_y) + 1
           \/ At(screen_x', screen_y') >= MaxLine
    BY <1>1, <1>6, PutcMoves
  <2>2. At(screen_x', screen_y') \in Nat /\ cursor' \in Positions
    <3>1. At(screen_x', screen_y') \in Cells /\ cursor' = Low16(At(screen_x', screen_y'))
      BY <2>1
    <3>2. At(screen_x', screen_y') \in Nat
      BY <3>1 DEF Cells
    <3> QED
      BY <3>1, <3>2, Wraps
  <2>3. TypeOK'
    <3>1. paper' \in [Terminals -> Seq(Chars)]
      <4>1. Append(paper[Here], c) \in Seq(Chars) /\ paper \in [Terminals -> Seq(Chars)]
        BY <1>1 DEF TypeOK, PaperTyped, Here
      <4> QED
        BY <1>6, <4>1
    <3>2. awkward' \in [Terminals -> BOOLEAN]
      <4>1. awkward \in [Terminals -> BOOLEAN]
        BY <1>1 DEF TypeOK, PaperTyped
      <4>2. (awkward[Here] \/ (c = NL /\ screen_x < 0)) \in BOOLEAN
        OBVIOUS
      <4> QED
        BY <1>6, <4>1, <4>2
    <3>3. PaperTyped'
      BY <1>1, <1>6, <3>1, <3>2 DEF TypeOK, PaperTyped
    <3>4. LineTyped'
      BY <1>1, <1>2 DEF TypeOK, LineTyped
    <3>6. ScreensTyped'
      <4>1. /\ video_mem' \in Pages /\ screen_x' \in Columns /\ screen_y' \in Rows
        BY <2>1
      <4>2. cursor' \in Positions
        BY <2>2
      <4>3. /\ curr_active_terminal' = curr_active_terminal /\ term_blk' = term_blk
            /\ ScreensTyped
        BY <1>1, <1>2 DEF TypeOK
      <4> QED
        BY <2>1, <4>1, <4>2, <4>3, ScreensNext DEF ScreensTyped
    <3> QED
      BY <3>3, <3>4, <3>6 DEF TypeOK
  <2>4. Room'
    <3>1. SUFFICES ASSUME ~displaced, ~(At(screen_x', screen_y') >= Len(line))
                   PROVE  /\ At(screen_x', screen_y') + Len(Tail(text)) >= Len(line)
                          /\ \A k \in 1..Len(Tail(text)) : Tail(text)[k] # NUL
      <4>1. At(screen_x, screen_y)' = At(screen_x', screen_y')
        BY DEF At
      <4>2. text' = Tail(text) /\ line' = line /\ displaced' = displaced
        BY <1>1, <1>2
      <4> QED
        BY <4>1, <4>2 DEF Room
    <3>2. At(screen_x', screen_y') >= At(screen_x, screen_y) + 1
      BY <1>1, <2>1, <2>2, <3>1
    <3>3. ~(At(screen_x, screen_y) >= Len(line))
      BY <1>1, <1>3, <2>2, <3>1, <3>2
    <3>4. /\ At(screen_x, screen_y) + Len(text) >= Len(line)
          /\ \A k \in 1..Len(text) : text[k] # NUL
      BY <3>1, <3>3 DEF IInv, Room
    <3> QED
      BY <1>1, <1>3, <1>4, <2>2, <3>2, <3>4
  <2>5. StaysInVideoMemory'
    BY <1>2 DEF IInv, StaysInVideoMemory
  <2>6. CursorShown'
    BY <2>1 DEF CursorShown, At
  <2>7. OwnColour'
    <3>1. ASSUME backdrop'[curr_active_terminal] = Blank
          PROVE  \A q \in Cells : video_mem'.attrib[q] = TermColor[curr_active_terminal]
      <4>1. \A q \in Cells : ScreenOf(curr_active_terminal).page.attrib[q] = TermColor[curr_active_terminal]
        BY <1>1, <1>6, <3>1 DEF IInv, OwnColour
      <4>2. ScreenOf(curr_active_terminal).page = video_mem
        BY DEF ScreenOf
      <4> QED
        BY <2>1, <4>1, <4>2
    <3> QED
      BY <1>2, <1>6, <3>1, ShownChanges
  <2> QED
    BY <2>3, <2>4, <2>5, <2>6, <2>7 DEF IInv
<1> QED
  BY <1>5, <1>6 DEF Put

\* A key, a write, the release of Enter and a read leave the screen alone.
LEMMA TypeStep == IInv /\ Type => IInv'
<1> SUFFICES ASSUME IInv, Type PROVE IInv'
  OBVIOUS
<1>1. PICK s \in Typed : /\ Len(line) + Len(s) <= MaxLine
                         /\ line' = line \o s /\ text' = s
                         /\ enter_flag' = IF s = <<NL>> THEN 1 ELSE enter_flag
  BY DEF Type
<1>2. /\ text = <<>>
      /\ UNCHANGED <<screen, curr_active_terminal, term_blk, fault, ghosts, displaced, mixed>>
  BY DEF Type, MayStep
<1>3. TypeOK /\ line \in Seq(Chars) /\ Len(line) \in Nat /\ MaxLine \in Nat
      /\ enter_flag \in {0, 1} /\ fault \in BOOLEAN /\ displaced \in BOOLEAN
      /\ mixed \in BOOLEAN
  BY Basics DEF IInv
<1>4. s \in Seq(Chars) /\ \A k \in 1..Len(s) : s[k] # NUL
  <2>1. NL # NUL /\ Blank # NUL
    BY DEF NL, NUL, Blank
  <2>2. CASE \E c \in Keys : s = <<c>>
    BY <2>2, ConsoleAssumption DEF Chars
  <2>3. CASE s = <<NL>>
    BY <2>1, <2>3 DEF Chars
  <2>4. CASE s = <<Blank, Blank, Blank>>
    BY <2>1, <2>4 DEF Chars
  <2> QED
    BY <2>2, <2>3, <2>4 DEF Typed
<1>5. line \o s \in Seq(Chars) /\ Len(line \o s) = Len(line) + Len(s) /\ Len(s) \in Nat
  BY <1>3, <1>4
<1>6. /\ At(screen_x, screen_y) \in Nat /\ At(screen_x, screen_y)' = At(screen_x, screen_y)
      /\ ScreensTyped' /\ PaperTyped'
  BY <1>2, <1>3, Basics, StillTyped
<1>7. TypeOK'
  BY <1>1, <1>2, <1>3, <1>4, <1>5, <1>6 DEF TypeOK, LineTyped
<1>8. Room'
  <2>1. ~displaced => At(screen_x, screen_y) >= Len(line)
    BY <1>2, <1>3, <1>6 DEF IInv, Room
  <2> QED
    BY <1>1, <1>2, <1>3, <1>4, <1>5, <1>6, <2>1 DEF Room
<1>9. StaysInVideoMemory' /\ CursorShown' /\ OwnColour'
  BY <1>2, StillScreens DEF ghosts, IInv, StaysInVideoMemory
<1> QED
  BY <1>7, <1>8, <1>9 DEF IInv

\* terminal_write only hands the text over.
LEMMA WriteStep == IInv /\ Write => IInv'
<1> SUFFICES ASSUME IInv, Write PROVE IInv'
  OBVIOUS
<1>1. /\ text = <<>> /\ text' \in Seq(Chars) /\ mixed' \in BOOLEAN
      /\ UNCHANGED <<screen, curr_active_terminal, term_blk, line, enter_flag, fault, ghosts, displaced>>
  BY ConsoleAssumption DEF Write, MayStep
<1>2. TypeOK /\ Len(line) \in Nat
  BY Basics DEF IInv
<1>3. /\ At(screen_x, screen_y) \in Nat /\ At(screen_x, screen_y)' = At(screen_x, screen_y)
      /\ ScreensTyped' /\ PaperTyped'
  BY <1>1, <1>2, Basics, StillTyped
<1>4. TypeOK'
  BY <1>1, <1>2, <1>3 DEF TypeOK, LineTyped
<1>5. Room'
  BY <1>1, <1>2, <1>3 DEF IInv, Room
<1>6. StaysInVideoMemory' /\ CursorShown' /\ OwnColour'
  BY <1>1, StillScreens DEF ghosts, IInv, StaysInVideoMemory
<1> QED
  BY <1>4, <1>5, <1>6 DEF IInv

\* terminal_read empties the line, so nothing is displaced any more.
LEMMA ReadStep == IInv /\ ReadLine => IInv'
<1> SUFFICES ASSUME IInv, ReadLine PROVE IInv'
  OBVIOUS
<1>1. /\ text = <<>> /\ ~fault /\ line' = <<>> /\ enter_flag' = 0 /\ displaced' = FALSE
      /\ mixed' = FALSE
      /\ UNCHANGED <<screen, curr_active_terminal, term_blk, text, fault, ghosts>>
  BY DEF ReadLine, MayStep
<1>2. TypeOK /\ MaxLine \in Nat
  BY Basics DEF IInv
<1>3. /\ At(screen_x, screen_y) \in Nat /\ At(screen_x, screen_y)' = At(screen_x, screen_y)
      /\ ScreensTyped' /\ PaperTyped'
  BY <1>1, <1>2, Basics, StillTyped
<1>4. TypeOK'
  <2>1. line' \in Seq(Chars) /\ Len(line') <= MaxLine
    BY <1>1, <1>2
  <2>2. LineTyped'
    BY <1>1, <1>2, <2>1 DEF TypeOK, LineTyped
  <2> QED
    BY <1>3, <2>2 DEF TypeOK
<1>5. Room'
  BY <1>1, <1>3 DEF Room
<1>6. StaysInVideoMemory' /\ CursorShown' /\ OwnColour'
  BY <1>1, StillScreens DEF ghosts
<1> QED
  BY <1>4, <1>5, <1>6 DEF IInv

\* The release of Enter changes enter_flag alone.
LEMMA ReleaseStep == IInv /\ ReleaseEnter => IInv'
<1> SUFFICES ASSUME IInv, ReleaseEnter PROVE IInv'
  OBVIOUS
<1>1. /\ enter_flag' = 0
      /\ UNCHANGED <<screen, curr_active_terminal, term_blk, line, text, fault, ghosts, displaced,
                     mixed>>
  BY DEF ReleaseEnter
<1>2. TypeOK'
  <2>1. ScreensTyped' /\ PaperTyped'
    BY <1>1, StillTyped DEF IInv
  <2> QED
    BY <1>1, <2>1 DEF IInv, TypeOK, LineTyped
<1>3. Room'
  BY <1>1 DEF IInv, Room, screen, At
<1>4. StaysInVideoMemory' /\ CursorShown' /\ OwnColour'
  BY <1>1, StillScreens DEF ghosts, IInv, StaysInVideoMemory
<1> QED
  BY <1>2, <1>3, <1>4 DEF IInv

\* A line less its last character.
LEMMA LastTaken ==
  ASSUME NEW s \in Seq(Chars), Len(s) >= 1
  PROVE  SubSeq(s, 1, Len(s) - 1) \in Seq(Chars) /\ Len(SubSeq(s, 1, Len(s) - 1)) = Len(s) - 1
<1> DEFINE n == Len(s) - 1
<1>1. n \in Nat /\ 1 \in Int /\ n \in Int /\ \A i \in 1..n : s[i] \in Chars
  OBVIOUS
<1> HIDE DEF n
<1>2. /\ SubSeq(s, 1, n) \in Seq(Chars)
      /\ Len(SubSeq(s, 1, n)) = IF 1 <= n THEN n - 1 + 1 ELSE 0
  BY <1>1, SubSeqProperties
<1>3. Len(SubSeq(s, 1, n)) = n
  BY <1>1, <1>2
<1> QED
  BY <1>2, <1>3 DEF n

\* Backspace (keyboard.c, lib.c): with a line typed where the cursor is there is
\* room behind it, so it does not fault.
LEMMA BackspaceStep == IInv /\ Backspace => IInv'
<1> SUFFICES ASSUME IInv, Backspace PROVE IInv'
  OBVIOUS
<1> DEFINE p == At(ColumnBefore, screen_y)
           q == paper[Here]
<1>1. /\ text = <<>> /\ ~fault /\ line # <<>>
      /\ UNCHANGED <<curr_active_terminal, term_blk, enter_flag, text>>
  BY DEF Backspace, MayStep, MayErase
<1>2. /\ TypeOK /\ At(screen_x, screen_y) \in Nat /\ line \in Seq(Chars)
      /\ Len(line) \in Nat /\ Len(line) <= MaxLine /\ MaxLine \in Nat
      /\ displaced \in BOOLEAN /\ mixed \in BOOLEAN /\ curr_active_terminal \in Terminals
  BY Basics DEF IInv
<1>3. Len(line) >= 1 /\ Len(text) = 0
  BY <1>1, <1>2
<1>4. /\ ColumnBefore \in Columns /\ p \in Int /\ p >= At(screen_x, screen_y) - 1
      /\ p >= 0 => p \in Cells
  BY <1>2, BackMoves
<1>5. ~displaced => At(screen_x, screen_y) >= Len(line)
  BY <1>2, <1>3 DEF IInv, Room
<1> HIDE DEF p, q
<1>6. CASE p < 0 /\ fault' = TRUE /\ UNCHANGED <<screen, line, ghosts, displaced, mixed>>
  <2>1. displaced
    BY <1>2, <1>3, <1>4, <1>5, <1>6
  <2>2. TypeOK'
    <3>1. ScreensTyped' /\ PaperTyped'
      BY <1>1, <1>2, <1>6, StillTyped
    <3>2. LineTyped'
      BY <1>1, <1>2, <1>6 DEF TypeOK, LineTyped
    <3> QED
      BY <3>1, <3>2 DEF TypeOK
  <2>3. Room' /\ StaysInVideoMemory'
    BY <1>6, <2>1 DEF Room, StaysInVideoMemory
  <2>4. CursorShown'
    BY <1>6 DEF IInv, CursorShown, screen, At
  <2>5. OwnColour'
    BY <1>1, <1>6 DEF IInv, OwnColour, ScreenOf, screen, ghosts
  <2> QED
    BY <2>2, <2>3, <2>4, <2>5 DEF IInv
<1>7. CASE /\ p >= 0 /\ video_mem' = Drawn(p, Blank)
           /\ screen_x' = ColumnBefore /\ update_cursor(ColumnBefore, screen_y)
           /\ line' = SubSeq(line, 1, Len(line) - 1)
           /\ paper' = [paper EXCEPT ![Here] = SubSeq(q, 1, Len(q) - 1)]
           /\ awkward' = [awkward EXCEPT ![Here] =
                @ \/ q = <<>> \/ q[Len(q)] = NL \/ screen_x - 1 = -NUM_COLS]
           /\ displaced' = (displaced /\ Len(line) > 1)
           /\ mixed' = (mixed /\ Len(line) > 1)
           /\ UNCHANGED <<screen_y, fault, backdrop, reach>>
  <2>1. /\ p \in Cells /\ p \in Nat /\ At(screen_x', screen_y') = p
        /\ cursor' = Low16(p) /\ cursor' \in Positions
    <3>1. p \in Cells /\ p \in Nat
      BY <1>4, <1>7
    <3>2. At(screen_x', screen_y') = p /\ cursor' = Low16(p)
      BY <1>7 DEF p, update_cursor
    <3> QED
      BY <3>1, <3>2, Wraps
  <2>2. /\ video_mem' \in Pages
        /\ \A c \in Cells : video_mem.attrib[c] = TermColor[curr_active_terminal]
              => video_mem'.attrib[c] = TermColor[curr_active_terminal]
    <3>1. Blank \in Chars
      BY DEF Chars
    <3>2. /\ Drawn(p, Blank) \in Pages
          /\ \A c \in Cells : video_mem.attrib[c] = TermColor[curr_active_terminal]
                => Drawn(p, Blank).attrib[c] = TermColor[curr_active_terminal]
      BY <1>2, <2>1, <3>1, DrawnTyped
    <3>3. video_mem' = Drawn(p, Blank)
      BY <1>7
    <3> QED
      BY <3>2, <3>3, Zenon
  <2>3. line' \in Seq(Chars) /\ Len(line') = Len(line) - 1
    <3>1. line' = SubSeq(line, 1, Len(line) - 1)
      BY <1>7
    <3> QED
      BY <1>2, <1>3, <3>1, LastTaken
  <2>4. TypeOK'
    <3>1. ScreensTyped'
      <4>1. ScreensTyped /\ screen_y \in Rows
        BY <1>2 DEF TypeOK, ScreensTyped
      <4>2. /\ screen_x' \in Columns /\ screen_y' \in Rows
            /\ curr_active_terminal' = curr_active_terminal /\ term_blk' = term_blk
        BY <1>1, <1>4, <1>7, <4>1
      <4> QED
        BY <2>1, <2>2, <4>1, <4>2, ScreensNext DEF ScreensTyped
    <3>2. LineTyped'
      BY <1>1, <1>2, <1>3, <1>7, <2>3 DEF TypeOK, LineTyped
    <3>3. paper' \in [Terminals -> Seq(Chars)]
      <4>1. paper \in [Terminals -> Seq(Chars)] /\ q \in Seq(Chars)
        BY <1>2 DEF TypeOK, PaperTyped, Here, q
      <4>2. SubSeq(q, 1, Len(q) - 1) \in Seq(Chars)
        BY <4>1, SubSeqProperties
      <4> QED
        BY <1>7, <4>1, <4>2
    <3>4. awkward' \in [Terminals -> BOOLEAN]
      <4>1. awkward \in [Terminals -> BOOLEAN]
        BY <1>2 DEF TypeOK, PaperTyped
      <4>2. (awkward[Here] \/ q = <<>> \/ q[Len(q)] = NL \/ screen_x - 1 = -NUM_COLS) \in BOOLEAN
        OBVIOUS
      <4> QED
        BY <1>7, <4>1, <4>2
    <3>5. PaperTyped'
      BY <1>2, <1>7, <3>3, <3>4 DEF TypeOK, PaperTyped
    <3> QED
      BY <3>1, <3>2, <3>5 DEF TypeOK
  <2>5. Room'
    <3>1. ~displaced' => p >= Len(line')
      BY <1>2, <1>3, <1>4, <1>5, <1>7, <2>3
    <3>2. At(screen_x, screen_y)' = p
      BY <2>1 DEF At
    <3> QED
      BY <3>1, <3>2 DEF Room
  <2>6. StaysInVideoMemory'
    BY <1>1, <1>7 DEF StaysInVideoMemory
  <2>7. CursorShown'
    BY <2>1 DEF CursorShown, At
  <2>8. OwnColour'
    <3>1. ASSUME backdrop'[curr_active_terminal] = Blank
          PROVE  \A c \in Cells : video_mem'.attrib[c] = TermColor[curr_active_terminal]
      <4>1. \A c \in Cells : ScreenOf(curr_active_terminal).page.attrib[c] = TermColor[curr_active_terminal]
        BY <1>2, <1>7, <3>1 DEF IInv, OwnColour
      <4>2. ScreenOf(curr_active_terminal).page = video_mem
        BY DEF ScreenOf
      <4> QED
        BY <2>2, <4>1, <4>2
    <3> QED
      BY <1>1, <1>7, <3>1, ShownChanges
  <2> QED
    BY <2>4, <2>5, <2>6, <2>7, <2>8 DEF IInv
<1> QED
  BY <1>6, <1>7 DEF Backspace, p, q

\* Ctrl-L (keyboard.c, clear): the rest of the line is displaced.
LEMMA ClearStep == IInv /\ Clear => IInv'
<1> SUFFICES ASSUME IInv, Clear PROVE IInv'
  OBVIOUS
<1>1. /\ text = <<>> /\ ~fault
      /\ video_mem' = Cleared /\ screen_x' = 0 /\ screen_y' = 0 /\ update_cursor(0, 0)
      /\ paper' = [paper EXCEPT ![Here] = <<>>] /\ backdrop' = [backdrop EXCEPT ![Here] = Blank]
      /\ awkward' = [awkward EXCEPT ![Here] = FALSE]
      /\ displaced' = (line # <<>>)
      /\ UNCHANGED <<curr_active_terminal, term_blk, line, enter_flag, text, fault, mixed>>
  BY DEF Clear, MayStep
<1>2. /\ TypeOK /\ line \in Seq(Chars) /\ Len(line) \in Nat
      /\ curr_active_terminal \in Terminals
  BY Basics DEF IInv
<1>3. /\ 0 \in Columns /\ 0 \in Rows /\ At(0, 0) = 0 /\ At(0, 0) \in Cells
      /\ Low16(0) = 0 /\ 0 \in Positions
  <2>1. 0 \in Rows /\ 0 \in 0..(NUM_COLS - 1) /\ 0 \in Columns
    BY ConsoleAssumption DEF Rows, Columns
  <2>2. At(0, 0) = 0
    BY ConsoleAssumption DEF At
  <2> QED
    BY <2>1, <2>2, CellAt, Wraps
<1>4. cursor' = 0 /\ At(screen_x', screen_y') = 0
  BY <1>1, <1>3 DEF update_cursor
<1>5. /\ video_mem' \in Pages
      /\ \A c \in Cells : video_mem'.attrib[c] = TermColor[curr_active_terminal]
  <2>1. TermColor[curr_active_terminal] \in Nat /\ Blank \in Chars \cup {Noise}
    BY <1>2, ConsoleAssumption DEF Chars
  <2> QED
    BY <1>1, <2>1, AllCellsTyped DEF Cleared
<1>6. TypeOK'
  <2>1. ScreensTyped'
    <3>1. ScreensTyped
      BY <1>2 DEF TypeOK
    <3>2. /\ screen_x' \in Columns /\ screen_y' \in Rows /\ cursor' \in Positions
          /\ At(screen_x', screen_y') \in Cells
          /\ curr_active_terminal' = curr_active_terminal /\ term_blk' = term_blk
      BY <1>1, <1>3, <1>4
    <3> QED
      BY <1>5, <3>1, <3>2, ScreensNext DEF ScreensTyped
  <2>2. LineTyped'
    BY <1>1, <1>2 DEF TypeOK, LineTyped
  <2>3. PaperTyped'
    <3>1. <<>> \in Seq(Chars) /\ FALSE \in BOOLEAN
      OBVIOUS
    <3>2. /\ paper \in [Terminals -> Seq(Chars)] /\ awkward \in [Terminals -> BOOLEAN]
          /\ backdrop \in [Terminals -> {Blank, Noise}]
      BY <1>2 DEF TypeOK, PaperTyped
    <3>3. awkward' \in [Terminals -> BOOLEAN]
      BY <1>1, <3>1, <3>2
    <3>4. /\ paper' \in [Terminals -> Seq(Chars)] /\ backdrop' \in [Terminals -> {Blank, Noise}]
      BY <1>1, <3>1, <3>2
    <3> QED
      BY <3>3, <3>4 DEF PaperTyped
  <2> QED
    BY <2>1, <2>2, <2>3 DEF TypeOK
<1>7. Room'
  <2>1. At(screen_x, screen_y)' = 0
    BY <1>4 DEF At
  <2>2. ~displaced' => Len(line') = 0
    BY <1>1, <1>2
  <2> QED
    BY <2>1, <2>2 DEF Room
<1>8. StaysInVideoMemory'
  BY <1>1 DEF StaysInVideoMemory
<1>9. CursorShown'
  BY <1>3, <1>4 DEF CursorShown, At
<1>10. OwnColour'
  <2>1. \A t \in Terminals : t # curr_active_terminal => backdrop'[t] = backdrop[t]
    BY <1>1, <1>2 DEF TypeOK, PaperTyped, Here
  <2> QED
    BY <1>1, <1>5, <2>1, ShownChanges
<1> QED
  BY <1>6, <1>7, <1>8, <1>9, <1>10 DEF IInv

\* Switching only moves the screens: each terminal has the one it had.
LEMMA SwitchKeeps ==
  ASSUME TypeOK, Switch, NEW t \in Terminals
  PROVE  ScreenOf(t)' = ScreenOf(t)
<1>1. PICK u \in Terminals \ {curr_active_terminal} :
        /\ term_blk' = [term_blk EXCEPT ![curr_active_terminal] = Saved]
        /\ screen_x' = term_blk[u].cursor_x /\ screen_y' = term_blk[u].cursor_y
        /\ video_mem' = term_blk[u].page /\ curr_active_terminal' = u
  BY DEF Switch
<1>2. /\ curr_active_terminal \in Terminals
      /\ term_blk \in [Terminals -> [page : Pages, cursor_x : Columns, cursor_y : Rows]]
  BY DEF TypeOK, ScreensTyped
<1>3. CASE t = u
  <2>1. ScreenOf(t)' = [page |-> term_blk[u].page, cursor_x |-> term_blk[u].cursor_x,
                        cursor_y |-> term_blk[u].cursor_y]
    BY <1>1, <1>3 DEF ScreenOf
  <2>2. ScreenOf(t) = term_blk[u]
    BY <1>1, <1>3 DEF ScreenOf
  <2>3. term_blk[u] \in [page : Pages, cursor_x : Columns, cursor_y : Rows]
    BY <1>1, <1>2
  <2> QED
    BY <2>1, <2>2, <2>3
<1>4. CASE t # u
  <2>1. ScreenOf(t)' = term_blk'[t]
    BY <1>1, <1>4 DEF ScreenOf
  <2> QED
    BY <1>1, <1>2, <2>1 DEF ScreenOf, Saved
<1> QED
  BY <1>3, <1>4

\* Alt-Fn (terminal_swap): the rest of the line is displaced.
LEMMA SwitchStep == IInv /\ Switch => IInv'
<1> SUFFICES ASSUME IInv, Switch PROVE IInv'
  OBVIOUS
<1>1. PICK u \in Terminals \ {curr_active_terminal} :
        /\ term_blk' = [term_blk EXCEPT ![curr_active_terminal] = Saved]
        /\ screen_x' = term_blk[u].cursor_x /\ screen_y' = term_blk[u].cursor_y
        /\ update_cursor(term_blk[u].cursor_x, term_blk[u].cursor_y)
        /\ video_mem' = term_blk[u].page /\ curr_active_terminal' = u
  BY DEF Switch, Restores
<1>2. /\ text = <<>> /\ ~fault
      /\ line' = [k \in 1..Len(line) |-> NUL] /\ displaced' = (line # <<>>)
      /\ UNCHANGED <<enter_flag, text, fault, ghosts, mixed>>
  BY DEF Switch, MayStep
<1>3. /\ TypeOK /\ line \in Seq(Chars) /\ Len(line) \in Nat /\ Len(line) <= MaxLine
  BY Basics DEF IInv
<1>4. /\ video_mem \in Pages /\ screen_x \in Columns /\ screen_y \in Rows
      /\ At(screen_x, screen_y) \in Cells /\ curr_active_terminal \in Terminals
      /\ term_blk \in [Terminals -> [page : Pages, cursor_x : Columns, cursor_y : Rows]]
      /\ \A t \in Terminals : At(term_blk[t].cursor_x, term_blk[t].cursor_y) \in Cells
  BY <1>3 DEF TypeOK, ScreensTyped
<1>5. /\ line' \in Seq(Chars) /\ Len(line') = Len(line)
  BY <1>2, <1>3 DEF Chars
<1>6. /\ video_mem' \in Pages /\ screen_x' \in Columns /\ screen_y' \in Rows
      /\ At(screen_x', screen_y') \in Cells /\ curr_active_terminal' \in Terminals
      /\ cursor' = Low16(At(screen_x', screen_y'))
  <2>1. term_blk[u] \in [page : Pages, cursor_x : Columns, cursor_y : Rows]
    BY <1>1, <1>4
  <2> QED
    BY <1>1, <1>4, <2>1 DEF update_cursor
<1>7. At(screen_x', screen_y') \in Nat /\ cursor' \in Positions
  <2>1. At(screen_x', screen_y') \in Nat
    BY <1>6 DEF Cells
  <2> QED
    BY <1>6, <2>1, Wraps
<1>8. TypeOK'
  <2>1. Saved \in [page : Pages, cursor_x : Columns, cursor_y : Rows]
        /\ At(Saved.cursor_x, Saved.cursor_y) \in Cells
    BY <1>4 DEF Saved
  <2>2. /\ term_blk' \in [Terminals -> [page : Pages, cursor_x : Columns, cursor_y : Rows]]
        /\ \A t \in Terminals : At(term_blk'[t].cursor_x, term_blk'[t].cursor_y) \in Cells
    <3> HIDE DEF Saved
    <3> QED
      BY <1>1, <1>4, <2>1
  <2>3. ScreensTyped'
    BY <1>6, <1>7, <2>2, ScreensNext
  <2>4. LineTyped'
    BY <1>2, <1>3, <1>5 DEF TypeOK, LineTyped
  <2>5. PaperTyped'
    BY <1>2, <1>3, StillTyped
  <2> QED
    BY <2>3, <2>4, <2>5 DEF TypeOK
<1>9. Room'
  <2>1. At(screen_x, screen_y)' = At(screen_x', screen_y')
    BY DEF At
  <2>2. ~displaced' => Len(line') = 0
    BY <1>2, <1>3, <1>5
  <2> QED
    BY <1>7, <2>1, <2>2 DEF Room
<1>10. StaysInVideoMemory'
  BY <1>2 DEF StaysInVideoMemory
<1>11. CursorShown'
  BY <1>6 DEF CursorShown, At
<1>12. OwnColour'
  <2>1. SUFFICES ASSUME NEW t \in Terminals, backdrop'[t] = Blank, NEW c \in Cells
                 PROVE  ScreenOf(t)'.page.attrib[c] = TermColor[t]
    BY DEF OwnColour
  <2>2. ScreenOf(t)' = ScreenOf(t)
    BY <1>3, SwitchKeeps
  <2>3. backdrop[t] = Blank
    BY <1>2, <2>1 DEF ghosts
  <2> QED
    BY <2>2, <2>3 DEF IInv, OwnColour
<1> QED
  BY <1>8, <1>9, <1>10, <1>11, <1>12 DEF IInv

\* Every step keeps the invariant.
LEMMA NextInv == IInv /\ [Next]_vars => IInv'
<1> SUFFICES ASSUME IInv, [Next]_vars PROVE IInv'
  OBVIOUS
<1>1. CASE Next
  BY <1>1, PutStep, WriteStep, ReadStep, TypeStep, ReleaseStep, BackspaceStep, ClearStep,
     SwitchStep DEF Next
<1>2. CASE UNCHANGED vars
  <2>1. TypeOK'
    <3>1. ScreensTyped' /\ PaperTyped'
      BY <1>2, StillTyped DEF IInv, vars
    <3>2. LineTyped'
      BY <1>2 DEF IInv, TypeOK, LineTyped, vars
    <3> QED
      BY <3>1, <3>2 DEF TypeOK
  <2>2. Room'
    BY <1>2 DEF IInv, Room, vars, screen, At
  <2>3. StaysInVideoMemory' /\ CursorShown' /\ OwnColour'
    BY <1>2, StillScreens DEF IInv, StaysInVideoMemory, vars, ghosts
  <2> QED
    BY <2>1, <2>2, <2>3 DEF IInv
<1> QED
  BY <1>1, <1>2

\* The invariant holds of every behaviour.
LEMMA Inductive == Spec => []IInv
BY InitInv, NextInv, PTL DEF Spec

\* putc, backspace, clear and terminal_swap keep the types: every cursor, shown or
\* saved, is on the screen, though a column may be negative.
THEOREM TypeCorrect == Spec => []TypeOK
<1>1. IInv => TypeOK
  BY DEF IInv
<1> QED
  BY <1>1, Inductive, PTL

\* Backspace (lib.c) writes in front of video memory only when Ctrl-L or Alt-Fn
\* came in the middle of a line.
THEOREM InMemory == Spec => []StaysInVideoMemory
<1>1. IInv => StaysInVideoMemory
  BY DEF IInv
<1> QED
  BY <1>1, Inductive, PTL

\* update_cursor is called with every move: the hardware shows the cursor where the
\* next character goes.
THEOREM Cursor == Spec => []CursorShown
<1>1. IInv => CursorShown
  BY DEF IInv
<1> QED
  BY <1>1, Inductive, PTL

\* A terminal that clear has blanked once stays in its own colour.
THEOREM Colours == Spec => []OwnColour
<1>1. IInv => OwnColour
  BY DEF IInv
<1> QED
  BY <1>1, Inductive, PTL

\* save_visible_terminal and restore_new_terminal keep the hidden screens: nothing
\* but what is done while it is shown changes the screen of a terminal.
THEOREM Hidden == Spec => HiddenScreensKept
<1>1. IInv /\ [Next]_vars => [\A t \in Terminals : ScreenOf(t)' # ScreenOf(t) =>
                              t = curr_active_terminal /\ curr_active_terminal' = t]_vars
  <2> SUFFICES ASSUME IInv, Next, NEW t \in Terminals, ScreenOf(t)' # ScreenOf(t)
               PROVE  t = curr_active_terminal /\ curr_active_terminal' = t
    OBVIOUS
  <2>1. ~Switch
    BY SwitchKeeps DEF IInv
  <2>2. UNCHANGED <<curr_active_terminal, term_blk>>
    BY <2>1 DEF Next, Put, Write, ReadLine, Type, ReleaseEnter, Backspace, Clear
  <2> QED
    BY <2>2 DEF ScreenOf
<1> QED
  BY <1>1, Inductive, PTL DEF Spec, HiddenScreensKept

(***************************************************************************)
(* The screen shows the end of the paper.  Where the characters of a paper *)
(* lie, whatever the screen.                                               *)
(***************************************************************************)
\* What the cell at place q of rows without end may show, of paper s over b.
LaidOut(s, b, q) ==
  LET here == {k \in 1..Len(s) : Places(s)[k - 1] = q /\ s[k] # NL}
  IN  IF here = {} THEN {Blank, b} ELSE {s[k] : k \in here}

\* The next place is further on.
LEMMA PlaceNext ==
  ASSUME NEW at \in Nat, NEW c
  PROVE  PlaceAfter(at, c) \in Nat /\ at < PlaceAfter(at, c)
<1>1. /\ NUM_COLS \in Nat \ {0} /\ at \div NUM_COLS \in Nat /\ at % NUM_COLS \in 0..(NUM_COLS - 1)
      /\ (at \div NUM_COLS) * NUM_COLS + (at % NUM_COLS) = at
  <2>1. NUM_COLS \in Nat \ {0}
    BY ConsoleAssumption
  <2> QED
    BY <2>1, DivModNat
<1> DEFINE d == at \div NUM_COLS
           r == at % NUM_COLS
<1>2. d \in Nat /\ r \in Nat /\ r < NUM_COLS /\ d * NUM_COLS + r = at
  BY <1>1
<1> HIDE DEF d, r
<1>3. NUM_COLS * (d + 1) = d * NUM_COLS + NUM_COLS /\ d * NUM_COLS \in Nat
  BY <1>1, <1>2
<1>4. NUM_COLS * (d + 1) \in Nat /\ at < NUM_COLS * (d + 1)
  BY <1>1, <1>2, <1>3
<1> QED
  BY <1>4 DEF PlaceAfter, d

\* A column of a row, and the row of a place.
LEMMA RowOf ==
  ASSUME NEW q \in Nat, NEW x \in 0..(NUM_COLS - 1)
  PROVE  (NUM_COLS * q + x) \div NUM_COLS = q /\ (NUM_COLS * q + x) % NUM_COLS = x
<1>1. NUM_COLS \in Nat \ {0}
  BY ConsoleAssumption
<1>2. q * NUM_COLS = NUM_COLS * q
  BY <1>1
<1> QED
  BY <1>1, <1>2, DivMod

\* Places goes through the paper: each place follows from the one before.
LEMMA PlacesSteps ==
  ASSUME NEW s \in Seq(Chars)
  PROVE  /\ Places(s)[0] = 0 /\ \A k \in 0..Len(s) : Places(s)[k] \in Nat
         /\ \A k \in 1..Len(s) : Places(s)[k] = PlaceAfter(Places(s)[k - 1], s[k])
<1> DEFINE step == [a \in Nat \X (1..Len(s)) |-> PlaceAfter(a[1], s[a[2]])]
<1>1. step \in [Nat \X (1..Len(s)) -> Nat]
  BY PlaceNext
<1>2. Len(s) \in Nat
  OBVIOUS
<1>3. PICK x \in [0..Len(s) -> Nat] : x[0] = 0 /\ \A n \in 1..Len(s) : x[n] = step[<<x[n - 1], n>>]
  <2> DEFINE l == Len(s)
             S == Nat
  <2>1. Stepping(step, S, l) /\ 0 \in S /\ l \in Nat
    BY <1>1, <1>2 DEF Stepping
  <2> HIDE DEF step, l, S
  <2>2. \E x : Recursive(x, l, S, 0, step)
    BY <2>1, Recursion
  <2> QED
    BY <2>2 DEF l, S, Recursive
<1>4. ASSUME NEW n \in 1..Len(s) PROVE x[n] = PlaceAfter(x[n - 1], s[n])
  <2>1. n - 1 \in 0..Len(s)
    BY <1>2
  <2>2. <<x[n - 1], n>> \in Nat \X (1..Len(s))
    BY <1>3, <2>1
  <2>3. x[n] = step[<<x[n - 1], n>>]
    BY <1>3
  <2> QED
    BY <2>2, <2>3
<1>5. x = [n \in 0..Len(s) |-> IF n = 0 THEN 0 ELSE PlaceAfter(x[n - 1], s[n])]
  <2>1. \A n \in 0..Len(s) : n # 0 => n \in 1..Len(s)
    BY <1>2
  <2>2. \A n \in 0..Len(s) : x[n] = IF n = 0 THEN 0 ELSE PlaceAfter(x[n - 1], s[n])
    BY <1>3, <1>4, <2>1, Zenon
  <2> QED
    BY <1>3, <2>2
<1>6. \E z : z = [n \in 0..Len(s) |-> IF n = 0 THEN 0 ELSE PlaceAfter(z[n - 1], s[n])]
  BY <1>5
<1> DEFINE y[n \in 0..Len(s)] == IF n = 0 THEN 0 ELSE PlaceAfter(y[n - 1], s[n])
<1>7. y = [n \in 0..Len(s) |-> IF n = 0 THEN 0 ELSE PlaceAfter(y[n - 1], s[n])]
  BY <1>6, Zenon
<1>8. Places(s) = y
  BY Zenon DEF Places
<1> HIDE DEF y
<1>9. y[0] = 0 /\ \A n \in 1..Len(s) : y[n] = PlaceAfter(y[n - 1], s[n])
  <2>1. 0 \in 0..Len(s) /\ \A n \in 1..Len(s) : n \in 0..Len(s) /\ n # 0
    BY <1>2
  <2>2. \A n \in 0..Len(s) : y[n] = IF n = 0 THEN 0 ELSE PlaceAfter(y[n - 1], s[n])
    BY <1>7, Zenon
  <2> QED
    BY <2>1, <2>2, Zenon
<1> DEFINE T == {n \in Nat : n <= Len(s) => y[n] \in Nat}
<1>10. Nat \subseteq T
  <2>1. 0 \in T
    BY <1>9
  <2>2. ASSUME NEW n \in Nat, n \in T PROVE n + 1 \in T
    <3>1. ASSUME n + 1 <= Len(s) PROVE y[n + 1] \in Nat
      <4>1. n + 1 \in 1..Len(s) /\ n + 1 - 1 = n /\ y[n] \in Nat
        BY <1>2, <2>2, <3>1
      <4>2. y[n + 1] = PlaceAfter(y[n], s[n + 1])
        BY <1>9, <4>1
      <4> QED
        BY <4>1, <4>2, PlaceNext
    <3> QED
      BY <3>1
  <2> HIDE DEF T
  <2> QED
    BY <2>1, <2>2, Induction
<1> QED
  BY <1>2, <1>8, <1>9, <1>10

\* The places of what was printed lie before the end of the paper.
LEMMA PlacesRise ==
  ASSUME NEW s \in Seq(Chars)
  PROVE  End(s) \in Nat /\ \A k \in 1..Len(s) : Places(s)[k - 1] < End(s)
<1> DEFINE x == Places(s)
           T == {n \in Nat : n <= Len(s) => \A k \in 1..n : x[k - 1] < x[n]}
<1>1. Len(s) \in Nat /\ (\A k \in 0..Len(s) : x[k] \in Nat)
      /\ \A k \in 1..Len(s) : x[k - 1] < x[k]
  <2>1. Len(s) \in Nat /\ \A k \in 0..Len(s) : x[k] \in Nat
    BY PlacesSteps
  <2>2. ASSUME NEW k \in 1..Len(s) PROVE x[k - 1] < x[k]
    <3>1. x[k - 1] \in Nat /\ x[k] = PlaceAfter(x[k - 1], s[k])
      BY <2>1, PlacesSteps
    <3> QED
      BY <3>1, PlaceNext
  <2> QED
    BY <2>1, <2>2
<1> HIDE DEF x
<1>2. 0 \in T
  OBVIOUS
<1>3. ASSUME NEW n \in Nat, n \in T PROVE n + 1 \in T
  <2>1. ASSUME n + 1 <= Len(s), NEW k \in 1..(n + 1) PROVE x[k - 1] < x[n + 1]
    <3>1. n + 1 \in 1..Len(s) /\ n \in 0..Len(s) /\ n + 1 \in 0..Len(s) /\ n + 1 - 1 = n
      BY <1>1, <2>1
    <3>2. x[n] < x[n + 1] /\ x[n] \in Nat /\ x[n + 1] \in Nat
      BY <1>1, <3>1
    <3>3. CASE k = n + 1
      BY <3>1, <3>2, <3>3
    <3>4. CASE k # n + 1
      <4>1. k \in 1..n /\ k - 1 \in 0..Len(s)
        BY <2>1, <3>1, <3>4
      <4>2. x[k - 1] < x[n] /\ x[k - 1] \in Nat
        BY <1>1, <1>3, <2>1, <4>1
      <4> QED
        BY <3>2, <4>2
    <3> QED
      BY <3>3, <3>4
  <2> QED
    BY <2>1
<1> HIDE DEF T
<1>4. Len(s) \in T
  BY <1>1, <1>2, <1>3, Induction
<1> QED
  BY <1>1, <1>4 DEF T, End, x

\* One more character: the places before it stay.
LEMMA PlacesAppend ==
  ASSUME NEW s \in Seq(Chars), NEW c \in Chars
  PROVE  /\ \A k \in 0..Len(s) : Places(Append(s, c))[k] = Places(s)[k]
         /\ End(Append(s, c)) = PlaceAfter(End(s), c)
<1> DEFINE u == Append(s, c)
           x == Places(s)
           y == Places(u)
           T == {n \in Nat : n <= Len(s) => y[n] = x[n]}
<1>1. /\ u \in Seq(Chars) /\ Len(s) \in Nat /\ Len(u) = Len(s) + 1 /\ u[Len(s) + 1] = c
      /\ \A k \in 1..Len(s) : u[k] = s[k]
  OBVIOUS
<1> HIDE DEF u
<1>2. x[0] = 0 /\ \A k \in 1..Len(s) : x[k] = PlaceAfter(x[k - 1], s[k])
  BY PlacesSteps
<1>3. y[0] = 0 /\ \A k \in 1..Len(u) : y[k] = PlaceAfter(y[k - 1], u[k])
  BY <1>1, PlacesSteps
<1> HIDE DEF x, y
<1>4. 0 \in T
  BY <1>2, <1>3
<1>5. ASSUME NEW n \in Nat, n \in T PROVE n + 1 \in T
  <2>1. ASSUME n + 1 <= Len(s) PROVE y[n + 1] = x[n + 1]
    <3>1. n + 1 \in 1..Len(s) /\ n + 1 \in 1..Len(u) /\ n + 1 - 1 = n /\ y[n] = x[n]
      BY <1>1, <1>5, <2>1
    <3>2. y[n + 1] = PlaceAfter(y[n], u[n + 1]) /\ x[n + 1] = PlaceAfter(x[n], s[n + 1])
      BY <1>2, <1>3, <3>1
    <3> QED
      BY <1>1, <3>1, <3>2
  <2> QED
    BY <2>1
<1> HIDE DEF T
<1>6. Nat \subseteq T
  BY <1>4, <1>5, Induction
<1>7. \A k \in 0..Len(s) : y[k] = x[k]
  BY <1>1, <1>6 DEF T
<1>8. y[Len(u)] = PlaceAfter(x[Len(s)], c)
  <2>1. Len(u) \in 1..Len(u) /\ Len(u) - 1 = Len(s) /\ Len(s) \in 0..Len(s)
    BY <1>1
  <2> QED
    BY <1>1, <1>3, <1>7, <2>1
<1> QED
  BY <1>7, <1>8 DEF x, y, u, End

\* An empty paper, and the cells behind the end of any.
LEMMA LaidBeyond ==
  ASSUME NEW s \in Seq(Chars), NEW b, NEW q \in Nat, q >= End(s)
  PROVE  LaidOut(s, b, q) = {Blank, b}
<1>1. \A k \in 1..Len(s) : Places(s)[k - 1] # q
  <2>1. ASSUME NEW k \in 1..Len(s) PROVE Places(s)[k - 1] # q
    <3>1. k - 1 \in 0..Len(s)
      OBVIOUS
    <3>2. Places(s)[k - 1] < End(s) /\ Places(s)[k - 1] \in Nat /\ End(s) \in Nat
      BY <3>1, PlacesRise, PlacesSteps
    <3> QED
      BY <3>2
  <2> QED
    BY <2>1
<1> QED
  BY <1>1 DEF LaidOut

\* A character is laid at the end of the paper, and nothing else changes; a newline
\* shows nowhere.
LEMMA LaidAppend ==
  ASSUME NEW s \in Seq(Chars), NEW c \in Chars, NEW b, NEW q \in Nat
  PROVE  LaidOut(Append(s, c), b, q) =
           IF c # NL /\ q = End(s) THEN {c} ELSE LaidOut(s, b, q)
<1> DEFINE u == Append(s, c)
           before == {k \in 1..Len(s) : Places(s)[k - 1] = q /\ s[k] # NL}
           here   == {k \in 1..Len(u) : Places(u)[k - 1] = q /\ u[k] # NL}
<1>1. /\ u \in Seq(Chars) /\ Len(s) \in Nat /\ Len(u) = Len(s) + 1 /\ u[Len(s) + 1] = c
      /\ \A k \in 1..Len(s) : u[k] = s[k]
  OBVIOUS
<1>2. \A k \in 0..Len(s) : Places(u)[k] = Places(s)[k]
  BY PlacesAppend
<1>3. \A k \in 1..Len(u) : k - 1 \in 0..Len(s) /\ Places(u)[k - 1] = Places(s)[k - 1]
  BY <1>1, <1>2
<1>4. Places(u)[Len(u) - 1] = End(s) /\ Len(u) \in 1..Len(u)
  <2>1. Len(u) \in 1..Len(u) /\ Len(u) - 1 = Len(s)
    BY <1>1
  <2> QED
    BY <1>3, <2>1 DEF End
<1> HIDE DEF u
<1>5. here = before \cup {k \in {Len(u)} : q = End(s) /\ c # NL}
  <2>1. ASSUME NEW k PROVE k \in here <=> k \in before \/ (k = Len(u) /\ q = End(s) /\ c # NL)
    <3>1. CASE k = Len(u)
      BY <1>1, <1>4, <3>1
    <3>2. CASE k # Len(u)
      <4>1. k \in 1..Len(u) <=> k \in 1..Len(s)
        BY <1>1, <3>2
      <4> QED
        BY <1>1, <1>3, <3>2, <4>1
    <3> QED
      BY <3>1, <3>2
  <2> HIDE DEF here, before
  <2> QED
    BY <2>1
<1>6. CASE c # NL /\ q = End(s)
  <2>1. before = {}
    <3>1. ASSUME NEW k \in 1..Len(s) PROVE Places(s)[k - 1] # q
      <4>1. k - 1 \in 0..Len(s)
        OBVIOUS
      <4>2. Places(s)[k - 1] < End(s) /\ Places(s)[k - 1] \in Nat /\ End(s) \in Nat
        BY <4>1, PlacesRise, PlacesSteps
      <4> QED
        BY <1>6, <4>2
    <3> QED
      BY <3>1
  <2>2. here = {Len(u)} /\ here # {} /\ u[Len(u)] = c
    BY <1>1, <1>5, <1>6, <2>1
  <2>3. LaidOut(u, b, q) = IF here = {} THEN {Blank, b} ELSE {u[k] : k \in here}
    BY DEF LaidOut
  <2> HIDE DEF here
  <2> QED
    BY <1>6, <2>2, <2>3 DEF u
<1>7. CASE ~(c # NL /\ q = End(s))
  <2>1. here = before
    BY <1>5, <1>7
  <2>2. \A k \in before : u[k] = s[k]
    BY <1>1
  <2>3. {u[k] : k \in here} = {s[k] : k \in before}
    BY <2>1, <2>2
  <2>4. /\ LaidOut(u, b, q) = IF here = {} THEN {Blank, b} ELSE {u[k] : k \in here}
        /\ LaidOut(s, b, q) = IF before = {} THEN {Blank, b} ELSE {s[k] : k \in before}
    BY DEF LaidOut
  <2> HIDE DEF here, before
  <2> QED
    BY <1>7, <2>1, <2>3, <2>4 DEF u
<1> QED
  BY <1>6, <1>7

\* What the paper of one terminal and its screen have in common: the cursor is at
\* the end of the paper, in the furthest row it has come to, or just left of it,
\* and the cells show the last rows.
TopRow(r) == Later(0, r - (NUM_ROWS - 1))

ScreenNow == [page |-> video_mem, cursor_x |-> screen_x, cursor_y |-> screen_y]

Shows(s, p, b, r) ==
  /\ s.cursor_y + TopRow(r) = r
  /\ At(s.cursor_x, s.cursor_y) + NUM_COLS * TopRow(r) = End(p)
  /\ \A q \in Cells : q % NUM_COLS # NUM_COLS - 1 =>
        s.page.char[q] \in LaidOut(p, b, q + NUM_COLS * TopRow(r))

PaperInv ==
  /\ reach \in [Terminals -> Nat]
  /\ \A t \in Terminals : ~awkward[t] /\ ~fault => Shows(ScreenOf(t), paper[t], backdrop[t], reach[t])

\* The screen is scrolled when the paper has come beyond it, and by one row then.
LEMMA Tops ==
  ASSUME NEW r \in Nat, NEW y \in Rows, y + TopRow(r) = r
  PROVE  /\ TopRow(r) \in Nat /\ NUM_COLS * TopRow(r) \in Nat
         /\ NUM_COLS * y + NUM_COLS * TopRow(r) = NUM_COLS * r
         /\ NUM_COLS * (r + 1) = NUM_COLS * r + NUM_COLS
         /\ NUM_COLS * (TopRow(r) + 1) = NUM_COLS * TopRow(r) + NUM_COLS
         /\ TopRow(r + 1) = IF y + 1 < NUM_ROWS THEN TopRow(r) ELSE TopRow(r) + 1
<1> DEFINE T == TopRow(r)
<1>1. /\ NUM_COLS \in Nat /\ NUM_ROWS \in Nat /\ y \in Nat /\ y <= NUM_ROWS - 1
      /\ T = IF r - (NUM_ROWS - 1) > 0 THEN r - (NUM_ROWS - 1) ELSE 0
      /\ TopRow(r + 1) = IF r + 1 - (NUM_ROWS - 1) > 0 THEN r + 1 - (NUM_ROWS - 1) ELSE 0
  <2>1. /\ NUM_COLS \in Nat /\ NUM_ROWS \in Nat /\ y \in Nat /\ y <= NUM_ROWS - 1
    BY ConsoleAssumption DEF Rows
  <2> QED
    BY <2>1 DEF TopRow, Later
<1>2. y + T = r
  OBVIOUS
<1> HIDE DEF T
<1>3. T \in Nat /\ TopRow(r + 1) = IF y + 1 < NUM_ROWS THEN T ELSE T + 1
  BY <1>1, <1>2
<1>4. NUM_COLS * T \in Nat /\ NUM_COLS * y + NUM_COLS * T = NUM_COLS * (y + T)
      /\ NUM_COLS * (T + 1) = NUM_COLS * T + NUM_COLS
      /\ NUM_COLS * (r + 1) = NUM_COLS * r + NUM_COLS
  BY <1>1, <1>3
<1> QED
  BY <1>2, <1>3, <1>4 DEF T

\* The next row: a newline, or the character that falls in the last column.
LEMMA NextRowShows ==
  ASSUME TypeOK, NEW c \in Chars, NextRow, c = NL \/ screen_x = NUM_COLS - 1, screen_x >= 0,
         NEW p \in Seq(Chars), NEW b, NEW r \in Nat, Shows(ScreenNow, p, b, r)
  PROVE  /\ Shows(ScreenNow', Append(p, c), b, r + 1)
         /\ End(Append(p, c)) \div NUM_COLS = r + 1
<1> DEFINE u == Append(p, c)
           N == NUM_COLS
           T == TopRow(r)
           T2 == TopRow(r + 1)
           A == N * screen_y
           B == N * T
           C == N * r
           D == N * (r + 1)
<1>1. /\ N \in Nat /\ N >= 2 /\ NUM_ROWS \in Nat /\ NUM_ROWS >= 2 /\ screen_y \in Rows
      /\ screen_y \in Nat /\ screen_y <= NUM_ROWS - 1
      /\ screen_x \in 0..(N - 1) /\ video_mem \in Pages
  BY ConsoleAssumption DEF TypeOK, ScreensTyped, Columns, Rows
<1>2. /\ screen_y + T = r /\ A + screen_x + B = End(p)
      /\ \A q \in Cells : q % N # N - 1 => video_mem.char[q] \in LaidOut(p, b, q + B)
  BY DEF Shows, ScreenNow, At
<1>3. /\ T \in Nat /\ B \in Nat /\ A + B = C /\ D = C + N
      /\ N * (T + 1) = B + N
      /\ T2 = IF screen_y + 1 < NUM_ROWS THEN T ELSE T + 1
  BY <1>1, <1>2, Tops
<1>4. A \in Nat /\ C \in Nat /\ D \in Nat /\ r + 1 \in Nat /\ screen_x \in Nat
      /\ N * (screen_y + 1) = A + N /\ NUM_ROWS * N \in Nat
      /\ (screen_y = NUM_ROWS - 1 => NUM_ROWS * N = A + N)
  BY <1>1
<1>5. \A x \in 0..(N - 1) : /\ (A + x) % N = x /\ (C + x) \div N = r
                           /\ (D + x) \div N = r + 1
  BY <1>1, <1>4, RowOf
<1>6. At(0, screen_y + 1) = A + N /\ At(0, screen_y) = A
  BY <1>1, <1>4 DEF At
<1>7. N * T2 = IF screen_y + 1 < NUM_ROWS THEN B ELSE B + N
  BY <1>3
<1>8. /\ screen_x' = 0
      /\ \/ screen_y + 1 < NUM_ROWS /\ screen_y' = screen_y + 1 /\ video_mem' = video_mem
         \/ ~(screen_y + 1 < NUM_ROWS) /\ screen_y' = screen_y /\ screen_y = NUM_ROWS - 1
            /\ video_mem' = Scrolled
  BY <1>1 DEF NextRow
<1> DEFINE E == N * T2
<1> HIDE DEF A, B, C, D, E, T, T2, N
<1>9. screen_y' + T2 = r + 1
  <2>1. screen_y + T = r
    BY <1>2
  <2> QED
    BY <1>1, <1>3, <1>8, <2>1
<1>10. End(p) = C + screen_x /\ End(p) \div N = r /\ End(p) \in Nat
  <2>1. End(p) = C + screen_x
    BY <1>2, <1>3, <1>4
  <2> QED
    BY <1>1, <1>5, <2>1, PlacesRise
<1>11. End(u) = D
  <2>1. End(u) = PlaceAfter(End(p), c)
    BY PlacesAppend
  <2>2. CASE c = NL
    BY <1>10, <2>1, <2>2 DEF PlaceAfter, D, N
  <2>3. CASE c # NL
    <3>1. End(u) = End(p) + 1 /\ screen_x = N - 1
      BY <2>1, <2>3 DEF PlaceAfter, N
    <3> QED
      BY <1>1, <1>3, <1>4, <1>10, <3>1
  <2> QED
    BY <2>2, <2>3
<1>12. End(u) \div N = r + 1
  <2>1. 0 \in 0..(N - 1) /\ D + 0 = D
    BY <1>1, <1>4
  <2> QED
    BY <1>5, <1>11, <2>1
<1>13. At(screen_x', screen_y') + E = End(u)
  <2>1. At(screen_x', screen_y') + E = A + N + B
    BY <1>1, <1>3, <1>4, <1>6, <1>7, <1>8 DEF E
  <2> QED
    BY <1>1, <1>3, <1>4, <1>11, <2>1
\* A cell that is not in the last column is laid as before.
<1>14. ASSUME NEW q \in Nat, q % N # N - 1
      PROVE  LaidOut(u, b, q + B) = LaidOut(p, b, q + B)
  <2>1. q + B \in Nat
    BY <1>3
  <2>2. SUFFICES ASSUME c # NL, q + B = End(p) PROVE FALSE
    BY <2>1, LaidAppend
  <2>3. q = A + screen_x /\ screen_x = N - 1
    BY <1>2, <1>3, <1>4, <2>2 DEF N
  <2>4. q % N = N - 1
    BY <1>1, <1>5, <2>3
  <2> QED
    BY <1>14, <2>4
<1>15. ASSUME NEW q \in Cells, q % N # N - 1
       PROVE  video_mem'.char[q] \in LaidOut(u, b, q + E)
  <2>0. q \in Nat
    BY DEF Cells
  <2>1. CASE screen_y + 1 < NUM_ROWS
    <3>1. E = B /\ video_mem' = video_mem
      BY <1>7, <1>8, <2>1 DEF E
    <3> QED
      BY <1>2, <1>14, <1>15, <2>0, <3>1
  <2>2. CASE ~(screen_y + 1 < NUM_ROWS)
    <3>1. E = B + N /\ video_mem' = Scrolled /\ screen_y = NUM_ROWS - 1
      BY <1>7, <1>8, <2>2 DEF E
    <3> DEFINE w == q + N
    <3>2. w \in Nat /\ q + E = w + B /\ w + B \in Nat
      BY <1>1, <1>3, <2>0, <3>1
    <3>3. video_mem'.char[q] = IF w \in Cells THEN video_mem.char[w] ELSE Blank
      BY <1>1, <3>1 DEF Scrolled, Pages, N
    <3>4. w % N # N - 1
      <4>1. N \in Nat \ {0}
        BY <1>1
      <4>2. q \div N \in Nat /\ q % N \in 0..(N - 1) /\ (q \div N) * N + (q % N) = q
        BY <2>0, <4>1, DivModNat
      <4> DEFINE d == q \div N
                 e == q % N
      <4>3. d \in Nat /\ e \in 0..(N - 1) /\ d * N + e = q /\ e # N - 1
        BY <1>15, <4>2
      <4> HIDE DEF d, e
      <4>4. q + N = N * (d + 1) + e /\ d + 1 \in Nat
        BY <1>1, <4>3
      <4>5. w % N = e
        BY <4>3, <4>4, RowOf DEF N
      <4> QED
        BY <4>3, <4>5
    <3>5. CASE w \in Cells
      <4> HIDE DEF w
      <4>1. video_mem.char[w] \in LaidOut(p, b, w + B)
        BY <1>2, <3>4, <3>5
      <4> QED
        BY <1>14, <3>2, <3>3, <3>4, <3>5, <4>1
    <3>6. CASE w \notin Cells
      <4>1. w >= A + N
        BY <1>1, <1>4, <3>1, <3>2, <3>6 DEF Cells, N
      <4> HIDE DEF w
      <4>2. w + B >= End(u)
        BY <1>1, <1>3, <1>4, <1>11, <3>2, <4>1
      <4>3. u \in Seq(Chars)
        OBVIOUS
      <4>4. LaidOut(u, b, w + B) = {Blank, b}
        BY <3>2, <4>2, <4>3, LaidBeyond
      <4> QED
        BY <3>2, <3>3, <3>6, <4>4
    <3> QED
      BY <3>5, <3>6
  <2> QED
    BY <2>1, <2>2
<1> QED
  BY <1>9, <1>12, <1>13, <1>15 DEF Shows, ScreenNow, At, E, T2, N

\* A character drawn at the end of the paper.
LEMMA DrawShows ==
  ASSUME TypeOK, NEW c \in Chars, c # NL, screen_x # NUM_COLS - 1,
         video_mem' = Drawn(At(screen_x, screen_y), c),
         screen_x' = screen_x + 1, screen_y' = screen_y,
         NEW p \in Seq(Chars), NEW b, NEW r \in Nat, Shows(ScreenNow, p, b, r)
  PROVE  /\ Shows(ScreenNow', Append(p, c), b, r)
         /\ End(Append(p, c)) \div NUM_COLS \in Int /\ End(Append(p, c)) \div NUM_COLS <= r
<1> DEFINE u == Append(p, c)
           N == NUM_COLS
           T == TopRow(r)
           A == N * screen_y
           B == N * T
           C == N * r
           a == At(screen_x, screen_y)
<1>1. /\ N \in Nat /\ N >= 2 /\ screen_y \in Rows /\ screen_y \in Nat
      /\ screen_x \in Int /\ screen_x < N - 1 /\ screen_x >= 1 - N
      /\ video_mem \in Pages /\ a \in Cells /\ a \in Nat /\ a = A + screen_x
      /\ At(screen_x', screen_y') = A + (screen_x + 1)
  BY ConsoleAssumption DEF TypeOK, ScreensTyped, Columns, Rows, At, Cells
<1>2. /\ screen_y + T = r /\ a + B = End(p)
      /\ \A q \in Cells : q % N # N - 1 => video_mem.char[q] \in LaidOut(p, b, q + B)
  BY DEF Shows, ScreenNow
<1>3. T \in Nat /\ B \in Nat /\ A + B = C
  BY <1>1, <1>2, Tops
<1>4. A \in Nat /\ C \in Nat /\ (r # 0 => r - 1 \in Nat /\ C = N * (r - 1) + N) /\ (r = 0 => C = 0)
  BY <1>1
<1>5. \A x \in 0..(N - 1) : (C + x) \div N = r /\ (r # 0 => (C - N + x) \div N = r - 1)
  <2>1. \A x \in 0..(N - 1) : (C + x) \div N = r
    BY RowOf
  <2>2. ASSUME r # 0, NEW x \in 0..(N - 1) PROVE (C - N + x) \div N = r - 1
    <3>1. C - N = N * (r - 1) /\ r - 1 \in Nat
      BY <1>1, <1>4, <2>2
    <3> QED
      BY <3>1, RowOf
  <2> QED
    BY <2>1, <2>2
<1> HIDE DEF A, B, C, T, N, a
<1>6. End(u) = End(p) + 1 /\ End(u) \in Nat /\ End(p) \in Nat
  <2>1. u \in Seq(Chars) /\ End(u) = PlaceAfter(End(p), c)
    BY PlacesAppend
  <2> QED
    BY <2>1, PlacesRise DEF PlaceAfter
<1>7. End(u) = C + screen_x + 1
  <2>1. End(u) = A + screen_x + B + 1
    BY <1>1, <1>2, <1>6
  <2> QED
    BY <1>1, <1>3, <1>4, <2>1
<1>8. At(screen_x', screen_y') + B = End(u)
  BY <1>1, <1>3, <1>4, <1>7
<1>9. End(u) \div N \in Int /\ End(u) \div N <= r
  <2>1. CASE screen_x + 1 >= 0
    <3>1. screen_x + 1 \in 0..(N - 1) /\ End(u) = C + (screen_x + 1)
      BY <1>1, <1>4, <1>7, <2>1
    <3> QED
      BY <1>5, <3>1
  <2>2. CASE ~(screen_x + 1 >= 0)
    <3>1. r # 0
      BY <1>1, <1>4, <1>6, <1>7, <2>2
    <3>2. screen_x + 1 + N \in 0..(N - 1) /\ End(u) = C - N + (screen_x + 1 + N)
      BY <1>1, <1>4, <1>7, <2>2
    <3>3. End(u) \div N = r - 1
      BY <1>5, <3>1, <3>2
    <3> QED
      BY <3>1, <3>3
  <2> QED
    BY <2>1, <2>2
<1>10. ASSUME NEW q \in Cells, q % N # N - 1
      PROVE  video_mem'.char[q] \in LaidOut(u, b, q + B)
  <2>1. video_mem'.char[q] = IF q = a THEN c ELSE video_mem.char[q]
    BY <1>1 DEF Drawn, Pages, a
  <2>2. q \in Nat /\ q + B \in Nat /\ (q = a <=> q + B = End(p))
    BY <1>1, <1>2, <1>3 DEF Cells
  <2>3. LaidOut(u, b, q + B) = IF q = a THEN {c} ELSE LaidOut(p, b, q + B)
    BY <2>2, LaidAppend
  <2> QED
    BY <1>2, <1>10, <2>1, <2>3
<1> QED
  BY <1>2, <1>8, <1>9, <1>10 DEF Shows, ScreenNow, B, N, T

\* A step on the shown terminal: the others have the screens and the papers they had.
LEMMA PaperChanges ==
  ASSUME TypeOK, PaperInv, UNCHANGED <<curr_active_terminal, term_blk>>, fault => fault',
         reach' \in [Terminals -> Nat],
         \A t \in Terminals : t # Here =>
           /\ paper'[t] = paper[t] /\ backdrop'[t] = backdrop[t]
           /\ reach'[t] = reach[t] /\ awkward'[t] = awkward[t],
         ~awkward'[Here] /\ ~fault' => Shows(ScreenNow', paper'[Here], backdrop'[Here], reach'[Here])
  PROVE  PaperInv'
<1> SUFFICES ASSUME NEW t \in Terminals, ~awkward'[t], ~fault'
             PROVE  Shows(ScreenOf(t)', paper'[t], backdrop'[t], reach'[t])
  BY DEF PaperInv
<1>1. CASE t = Here
  <2>1. ScreenOf(t)' = ScreenNow'
    BY <1>1 DEF ScreenOf, ScreenNow, Here
  <2> QED
    BY <1>1, <2>1
<1>2. CASE t # Here
  <2>1. ScreenOf(t)' = ScreenOf(t) /\ ~awkward[t] /\ ~fault
    BY <1>2 DEF ScreenOf, Here
  <2>2. Shows(ScreenOf(t), paper[t], backdrop[t], reach[t])
    BY <2>1 DEF PaperInv
  <2> QED
    BY <1>2, <2>1, <2>2
<1> QED
  BY <1>1, <1>2

\* The screen of the terminal that is shown.
LEMMA ShownNow ==
  ASSUME TypeOK, PaperInv
  PROVE  /\ Here \in Terminals /\ paper \in [Terminals -> Seq(Chars)] /\ reach \in [Terminals -> Nat]
         /\ awkward \in [Terminals -> BOOLEAN] /\ backdrop \in [Terminals -> {Blank, Noise}]
         /\ ~awkward[Here] /\ ~fault => Shows(ScreenNow, paper[Here], backdrop[Here], reach[Here])
<1>1. Here \in Terminals /\ ScreenOf(Here) = ScreenNow
  BY DEF TypeOK, ScreensTyped, Here, ScreenOf, ScreenNow
<1> QED
  BY <1>1 DEF TypeOK, PaperTyped, PaperInv

\* A step that leaves screens and papers alone.
LEMMA PaperStays ==
  ASSUME TypeOK, PaperInv, UNCHANGED <<screen, curr_active_terminal, term_blk, fault, ghosts>>
  PROVE  PaperInv'
<1>1. \A t \in Terminals : ScreenOf(t)' = ScreenOf(t)
  BY DEF ScreenOf, screen
<1>2. reach' = reach /\ paper' = paper /\ backdrop' = backdrop /\ awkward' = awkward /\ fault' = fault
  BY DEF ghosts
<1> QED
  BY <1>1, <1>2 DEF PaperInv

\* An empty paper on a screen of one character.
LEMMA EmptyShows ==
  ASSUME NEW b, NEW c \in {Blank, b}, NEW a
  PROVE  Shows([page |-> AllCells(c, a), cursor_x |-> 0, cursor_y |-> 0], <<>>, b, 0)
<1>1. NUM_COLS \in Nat /\ NUM_ROWS \in Nat /\ NUM_ROWS >= 2
  BY ConsoleAssumption
<1>2. TopRow(0) = 0 /\ NUM_COLS * TopRow(0) = 0 /\ At(0, 0) = 0
  BY <1>1 DEF TopRow, Later, At
<1>3. <<>> \in Seq(Chars) /\ Len(<<>>) = 0 /\ End(<<>>) = 0
  <2>1. <<>> \in Seq(Chars) /\ Len(<<>>) = 0
    OBVIOUS
  <2>2. Places(<<>>)[0] = 0
    BY <2>1, PlacesSteps
  <2> QED
    BY <2>1, <2>2 DEF End
<1>4. ASSUME NEW q \in Cells PROVE AllCells(c, a).char[q] \in LaidOut(<<>>, b, q + 0)
  <2>1. q \in Nat /\ q + 0 = q /\ q >= End(<<>>)
    BY <1>3 DEF Cells
  <2>2. LaidOut(<<>>, b, q) = {Blank, b}
    BY <1>3, <2>1, LaidBeyond
  <2>3. AllCells(c, a).char[q] = c
    BY DEF AllCells
  <2> QED
    BY <2>1, <2>2, <2>3
<1> QED
  BY <1>2, <1>3, <1>4 DEF Shows

\* At boot the screens are of one character.
LEMMA InitPaper == Init => PaperInv
<1> SUFFICES ASSUME Init PROVE PaperInv
  OBVIOUS
<1>1. reach = [t \in Terminals |-> 0] /\ paper = [t \in Terminals |-> <<>>]
      /\ backdrop = [t \in Terminals |-> IF t = 0 THEN Blank ELSE Noise]
  BY DEF Init
<1>2. ASSUME NEW t \in Terminals PROVE Shows(ScreenOf(t), paper[t], backdrop[t], reach[t])
  <2>1. CASE t = 0
    <3>1. ScreenOf(t) = [page |-> AllCells(Blank, TermColor[0]), cursor_x |-> 0, cursor_y |-> 0]
      BY <2>1 DEF Init, ScreenOf
    <3>2. paper[t] = <<>> /\ backdrop[t] = Blank /\ reach[t] = 0
      BY <1>1, <2>1
    <3> QED
      BY <3>1, <3>2, EmptyShows
  <2>2. CASE t # 0
    <3>1. ScreenOf(t) = [page |-> AllCells(Noise, 0), cursor_x |-> 0, cursor_y |-> 0]
      BY <2>2 DEF Init, ScreenOf
    <3>2. paper[t] = <<>> /\ backdrop[t] = Noise /\ reach[t] = 0
      BY <1>1, <2>2
    <3> QED
      BY <3>1, <3>2, EmptyShows
  <2> QED
    BY <2>1, <2>2
<1> QED
  BY <1>1, <1>2 DEF PaperInv

\* putc puts the character on the paper and on the screen.
LEMMA PutPaper ==
  ASSUME TypeOK, PaperInv, Put
  PROVE  PaperInv'
<1> DEFINE c == Head(text)
           p == paper[Here]
           u == Append(p, c)
           r == reach[Here]
           e == End(u) \div NUM_COLS
<1>1. /\ c \in Chars /\ ~fault /\ fault' = fault
      /\ UNCHANGED <<curr_active_terminal, term_blk>>
  <2>1. text \in Seq(Chars) /\ text # <<>>
    BY Basics DEF Put
  <2> QED
    BY <2>1 DEF Put
<1>2. /\ Here \in Terminals /\ paper \in [Terminals -> Seq(Chars)] /\ reach \in [Terminals -> Nat]
      /\ awkward \in [Terminals -> BOOLEAN] /\ backdrop \in [Terminals -> {Blank, Noise}]
      /\ ~awkward[Here] => Shows(ScreenNow, p, backdrop[Here], r)
  BY <1>1, ShownNow
<1>3. CASE UNCHANGED <<screen, ghosts>>
  BY <1>1, <1>3, PaperStays
<1>4. CASE /\ putc(c)
           /\ paper' = [paper EXCEPT ![Here] = u]
           /\ reach' = [reach EXCEPT ![Here] = Later(@, e)]
           /\ awkward' = [awkward EXCEPT ![Here] = @ \/ (c = NL /\ screen_x < 0)]
           /\ UNCHANGED backdrop
  <2> HIDE DEF c
  <2>1. /\ paper'[Here] = u /\ reach'[Here] = Later(r, e) /\ backdrop' = backdrop
        /\ awkward'[Here] <=> (awkward[Here] \/ (c = NL /\ screen_x < 0))
    BY <1>2, <1>4
  <2>2. \A t \in Terminals : t # Here =>
           /\ paper'[t] = paper[t] /\ backdrop'[t] = backdrop[t]
           /\ reach'[t] = reach[t] /\ awkward'[t] = awkward[t]
    BY <1>2, <1>4
  <2>4. Later(r, e) \in Nat
    <3>1. End(u) \in Nat
      <4>1. p \in Seq(Chars) /\ c \in Chars
        BY <1>1, <1>2
      <4> HIDE DEF p
      <4>2. u \in Seq(Chars)
        BY <4>1
      <4> HIDE DEF u
      <4> QED
        BY <4>2, PlacesRise
    <3>2. e \in Nat
      <4>1. NUM_COLS \in Nat \ {0}
        BY ConsoleAssumption
      <4> QED
        BY <3>1, <4>1, DivModNat
    <3> HIDE DEF e
    <3> QED
      BY <1>2, <3>2 DEF Later
  <2>5. reach' \in [Terminals -> Nat]
    BY <1>2, <1>4, <2>4
  <2>6. ASSUME ~awkward'[Here] PROVE Shows(ScreenNow', u, backdrop[Here], Later(r, e))
    <3>1. p \in Seq(Chars) /\ r \in Nat /\ screen_x \in Int
          /\ ~awkward[Here] /\ ~(c = NL /\ screen_x < 0) /\ Shows(ScreenNow, p, backdrop[Here], r)
      BY <1>2, <2>1, <2>6, ConsoleAssumption DEF TypeOK, ScreensTyped, Columns
    <3>2. CASE (c = NL \/ screen_x = NUM_COLS - 1) /\ NextRow
      <4>1. screen_x >= 0
        BY <3>1, <3>2, ConsoleAssumption
      <4>2. Shows(ScreenNow', u, backdrop[Here], r + 1) /\ e = r + 1
        BY <1>1, <3>1, <3>2, <4>1, NextRowShows
      <4> HIDE DEF e
      <4>3. Later(r, e) = r + 1
        BY <3>1, <4>2 DEF Later
      <4> QED
        BY <4>2, <4>3
    <3>3. CASE /\ c # NL /\ screen_x # NUM_COLS - 1
               /\ video_mem' = Drawn(At(screen_x, screen_y), c)
               /\ screen_x' = screen_x + 1 /\ UNCHANGED screen_y
      <4>1. Shows(ScreenNow', u, backdrop[Here], r) /\ e \in Int /\ e <= r
        BY <1>1, <3>1, <3>3, DrawShows
      <4> HIDE DEF e
      <4>2. Later(r, e) = r
        BY <3>1, <4>1 DEF Later
      <4> QED
        BY <4>1, <4>2
    <3> QED
      BY <1>4, <3>2, <3>3 DEF putc
  <2> HIDE DEF u, e, p, r
  <2>7. ~awkward'[Here] => Shows(ScreenNow', paper'[Here], backdrop'[Here], reach'[Here])
    BY <2>1, <2>6
  <2> QED
    BY <1>1, <2>2, <2>5, <2>7, PaperChanges
<1> QED
  BY <1>3, <1>4 DEF Put
\* A paper is what is left when its last character is taken, and that character.
LEMMA LastAppended ==
  ASSUME NEW s \in Seq(Chars), s # <<>>
  PROVE  \E f \in Seq(Chars), l \in Chars :
           f = SubSeq(s, 1, Len(s) - 1) /\ l = s[Len(s)] /\ s = Append(f, l)
<1>1. Len(s) \in Nat \ {0}
  BY EmptySeq
<1> DEFINE m == Len(s) - 1
           f == SubSeq(s, 1, m)
<1>2. m \in Nat /\ Len(s) = m + 1 /\ s[m + 1] \in Chars /\ \A n \in 1..m : s[n] \in Chars
  <2>1. m \in Nat /\ Len(s) = m + 1
    BY <1>1
  <2>2. \A n \in 1..Len(s) : s[n] \in Chars
    BY ElementOfSeq
  <2> QED
    BY <1>1, <2>1, <2>2
<1>3. \A n \in Int : n - 1 + 1 = n /\ 1 + n - 1 = n
  OBVIOUS
<1>4. f \in Seq(Chars) /\ Len(f) = m /\ \A n \in 1..m : f[n] = s[n]
  <2> HIDE DEF m
  <2>1. /\ SubSeq(s, 1, m) \in Seq(Chars)
        /\ Len(SubSeq(s, 1, m)) = IF 1 <= m THEN m - 1 + 1 ELSE 0
        /\ \A n \in 1..(m - 1 + 1) : SubSeq(s, 1, m)[n] = s[1 + n - 1]
    BY <1>2, SubSeqProperties
  <2> QED
    BY <1>2, <1>3, <2>1
<1> HIDE DEF f, m
<1>5. s = Append(f, s[m + 1])
  <2>1. /\ Append(f, s[m + 1]) \in Seq(Chars) /\ Len(Append(f, s[m + 1])) = m + 1
        /\ \A n \in 1..m : Append(f, s[m + 1])[n] = f[n]
        /\ Append(f, s[m + 1])[m + 1] = s[m + 1]
    BY <1>2, <1>4
  <2>2. \A n \in 1..(m + 1) : Append(f, s[m + 1])[n] = s[n]
    BY <1>2, <1>4, <2>1
  <2> HIDE DEF m
  <2> QED
    BY <1>2, <2>1, <2>2, SeqEqual
<1> QED
  BY <1>2, <1>4, <1>5 DEF f, m

\* Backspace: the last character, if it is no newline, is blanked.
LEMMA BackShows ==
  ASSUME TypeOK, screen_x - 1 # -NUM_COLS, At(ColumnBefore, screen_y) >= 0,
         video_mem' = Drawn(At(ColumnBefore, screen_y), Blank),
         screen_x' = ColumnBefore, screen_y' = screen_y,
         NEW p \in Seq(Chars), p[Len(p)] # NL, NEW b, NEW r \in Nat, Shows(ScreenNow, p, b, r)
  PROVE  Shows(ScreenNow', SubSeq(p, 1, Len(p) - 1), b, r)
<1> DEFINE T == TopRow(r)
           B == NUM_COLS * T
           A == NUM_COLS * screen_y
           a == At(ColumnBefore, screen_y)
<1>1. /\ screen_y \in Rows /\ A \in Nat /\ screen_x \in Int /\ video_mem \in Pages
      /\ a \in Cells /\ a \in Nat /\ a = A + screen_x - 1 /\ At(screen_x, screen_y) = A + screen_x
      /\ At(screen_x', screen_y') = a
  <2>1. screen_y \in Rows /\ screen_x \in Int /\ video_mem \in Pages /\ NUM_COLS \in Nat
    BY ConsoleAssumption DEF TypeOK, ScreensTyped, Columns
  <2>2. A \in Nat
    BY <2>1, RowBounds
  <2>3. ColumnBefore = screen_x - 1
    BY DEF ColumnBefore
  <2>4. a \in Cells /\ a \in Nat
    BY BackMoves DEF Cells
  <2>5. a = A + screen_x - 1 /\ At(screen_x, screen_y) = A + screen_x
    <3> HIDE DEF A
    <3>1. a = A + (screen_x - 1) /\ At(screen_x, screen_y) = A + screen_x
      BY <2>3 DEF At, A
    <3> QED
      BY <2>1, <2>2, <3>1
  <2>6. At(screen_x', screen_y') = a
    OBVIOUS
  <2> QED
    BY <2>1, <2>2, <2>4, <2>5, <2>6
<1>2. /\ screen_y + T = r /\ At(screen_x, screen_y) + B = End(p)
      /\ \A q \in Cells : q % NUM_COLS # NUM_COLS - 1 => video_mem.char[q] \in LaidOut(p, b, q + B)
  BY DEF Shows, ScreenNow
<1>3. T \in Nat /\ B \in Nat
  BY <1>1, <1>2, Tops
<1> HIDE DEF A, B, T, a
<1>4. p # <<>>
  <2>1. SUFFICES ASSUME p = <<>> PROVE FALSE
    OBVIOUS
  <2>2. End(p) = 0
    <3>1. Len(p) = 0 /\ Places(p)[0] = 0
      BY <2>1, PlacesSteps
    <3> QED
      BY <3>1 DEF End
  <2> QED
    BY <1>1, <1>2, <1>3, <2>2
<1>5. PICK f \in Seq(Chars), l \in Chars :
        f = SubSeq(p, 1, Len(p) - 1) /\ l = p[Len(p)] /\ p = Append(f, l)
  BY <1>4, LastAppended
<1>6. l # NL /\ End(f) \in Nat /\ End(p) = End(f) + 1
  <2>1. End(Append(f, l)) = PlaceAfter(End(f), l) /\ End(f) \in Nat
    BY PlacesAppend, PlacesRise
  <2> QED
    BY <1>5, <2>1 DEF PlaceAfter
<1>7. a + B = End(f)
  <2>1. a = A + (screen_x - 1) /\ A + screen_x + B = End(p) /\ End(p) = End(f) + 1
        /\ A \in Nat /\ screen_x \in Int /\ End(f) \in Nat /\ B \in Nat /\ a \in Nat
    BY <1>1, <1>2, <1>3, <1>6
  <2> QED
    BY <2>1
<1>8. ASSUME NEW q \in Cells, q % NUM_COLS # NUM_COLS - 1
      PROVE  video_mem'.char[q] \in LaidOut(f, b, q + B)
  <2>1. video_mem'.char[q] = IF q = a THEN Blank ELSE video_mem.char[q]
    BY <1>1 DEF Drawn, Pages, a
  <2>2. q \in Nat /\ q + B \in Nat /\ (q = a <=> q + B = End(f))
    BY <1>1, <1>3, <1>7 DEF Cells
  <2>3. CASE q = a
    <3>1. LaidOut(f, b, q + B) = {Blank, b}
      BY <1>6, <2>2, <2>3, LaidBeyond
    <3> QED
      BY <2>1, <2>3, <3>1
  <2>4. CASE q # a
    <3>1. LaidOut(Append(f, l), b, q + B) = LaidOut(f, b, q + B)
      BY <2>2, <2>4, LaidAppend
    <3> QED
      BY <1>2, <1>5, <1>8, <2>1, <2>4, <3>1
  <2> QED
    BY <2>3, <2>4
<1>9. Shows(ScreenNow', f, b, r)
  BY <1>1, <1>2, <1>7, <1>8 DEF Shows, ScreenNow, B, T
<1> QED
  BY <1>5, <1>9

\* Backspace takes the last character from the paper and from the screen.
LEMMA BackspacePaper ==
  ASSUME TypeOK, PaperInv, Backspace
  PROVE  PaperInv'
<1> DEFINE a == At(ColumnBefore, screen_y)
           q == paper[Here]
<1>1. ~fault /\ UNCHANGED <<curr_active_terminal, term_blk>>
  BY DEF Backspace, MayStep
<1>2. /\ Here \in Terminals /\ paper \in [Terminals -> Seq(Chars)] /\ reach \in [Terminals -> Nat]
      /\ awkward \in [Terminals -> BOOLEAN] /\ backdrop \in [Terminals -> {Blank, Noise}]
      /\ ~awkward[Here] => Shows(ScreenNow, q, backdrop[Here], reach[Here])
  BY <1>1, ShownNow
<1>3. CASE a < 0 /\ fault' = TRUE /\ UNCHANGED ghosts
  <2>1. reach' = reach /\ paper' = paper /\ backdrop' = backdrop /\ awkward' = awkward
    BY <1>3 DEF ghosts
  <2> QED
    BY <1>1, <1>2, <1>3, <2>1, PaperChanges
<1>4. CASE /\ a >= 0 /\ video_mem' = Drawn(a, Blank)
           /\ screen_x' = ColumnBefore
           /\ paper' = [paper EXCEPT ![Here] = SubSeq(q, 1, Len(q) - 1)]
           /\ awkward' = [awkward EXCEPT ![Here] =
                @ \/ q = <<>> \/ q[Len(q)] = NL \/ screen_x - 1 = -NUM_COLS]
           /\ UNCHANGED <<screen_y, fault, backdrop, reach>>
  <2>1. /\ paper'[Here] = SubSeq(q, 1, Len(q) - 1) /\ reach' = reach /\ backdrop' = backdrop
        /\ awkward'[Here] <=> (awkward[Here] \/ q = <<>> \/ q[Len(q)] = NL \/ screen_x - 1 = -NUM_COLS)
    BY <1>2, <1>4
  <2>2. \A t \in Terminals : t # Here => paper'[t] = paper[t] /\ awkward'[t] = awkward[t]
    BY <1>2, <1>4
  <2>3. ASSUME ~awkward'[Here]
        PROVE  Shows(ScreenNow', SubSeq(q, 1, Len(q) - 1), backdrop[Here], reach[Here])
    <3>1. /\ ~awkward[Here] /\ q[Len(q)] # NL /\ screen_x - 1 # -NUM_COLS
          /\ q \in Seq(Chars) /\ reach[Here] \in Nat
      BY <1>2, <2>1, <2>3
    <3>2. Shows(ScreenNow, q, backdrop[Here], reach[Here])
      BY <1>2, <3>1
    <3> HIDE DEF q
    <3> QED
      BY <1>4, <3>1, <3>2, BackShows
  <2>4. ~awkward'[Here] => Shows(ScreenNow', paper'[Here], backdrop'[Here], reach'[Here])
    BY <2>1, <2>3
  <2> QED
    BY <1>1, <1>2, <1>4, <2>1, <2>2, <2>4, PaperChanges
<1> QED
  BY <1>3, <1>4 DEF Backspace

\* Ctrl-L starts the paper of the terminal anew.
LEMMA ClearPaper ==
  ASSUME TypeOK, PaperInv, Clear
  PROVE  PaperInv'
<1>1. /\ ~fault /\ fault' = fault /\ UNCHANGED <<curr_active_terminal, term_blk>>
      /\ video_mem' = Cleared /\ screen_x' = 0 /\ screen_y' = 0
      /\ paper' = [paper EXCEPT ![Here] = <<>>] /\ backdrop' = [backdrop EXCEPT ![Here] = Blank]
      /\ reach' = [reach EXCEPT ![Here] = 0] /\ awkward' = [awkward EXCEPT ![Here] = FALSE]
  BY DEF Clear, MayStep
<1>2. /\ Here \in Terminals /\ paper \in [Terminals -> Seq(Chars)] /\ reach \in [Terminals -> Nat]
      /\ awkward \in [Terminals -> BOOLEAN] /\ backdrop \in [Terminals -> {Blank, Noise}]
  BY ShownNow
<1>3. /\ paper'[Here] = <<>> /\ reach'[Here] = 0 /\ backdrop'[Here] = Blank
      /\ reach' \in [Terminals -> Nat]
      /\ \A t \in Terminals : t # Here =>
           /\ paper'[t] = paper[t] /\ backdrop'[t] = backdrop[t]
           /\ reach'[t] = reach[t] /\ awkward'[t] = awkward[t]
  BY <1>1, <1>2
<1>4. Shows(ScreenNow', <<>>, Blank, 0)
  <2> DEFINE colour == TermColor[curr_active_terminal]
  <2>1. ScreenNow' = [page |-> AllCells(Blank, colour), cursor_x |-> 0, cursor_y |-> 0]
    BY <1>1 DEF ScreenNow, Cleared
  <2> HIDE DEF colour
  <2>2. Shows([page |-> AllCells(Blank, colour), cursor_x |-> 0, cursor_y |-> 0], <<>>, Blank, 0)
    BY EmptyShows
  <2> QED
    BY <2>1, <2>2
<1> QED
  BY <1>1, <1>3, <1>4, PaperChanges

\* A switch moves the screens; each paper stays with its terminal.
LEMMA SwitchPaper ==
  ASSUME TypeOK, PaperInv, Switch
  PROVE  PaperInv'
<1>1. \A t \in Terminals : ScreenOf(t)' = ScreenOf(t)
  BY SwitchKeeps
<1>2. reach' = reach /\ paper' = paper /\ backdrop' = backdrop /\ awkward' = awkward /\ fault' = fault
  BY DEF Switch, ghosts
<1> QED
  BY <1>1, <1>2 DEF PaperInv

\* Every step keeps screens and papers together.
LEMMA NextPaper == IInv /\ PaperInv /\ [Next]_vars => PaperInv'
<1> SUFFICES ASSUME TypeOK, PaperInv, [Next]_vars PROVE PaperInv'
  BY DEF IInv
<1>1. CASE Put
  BY <1>1, PutPaper
<1>2. CASE Backspace
  BY <1>2, BackspacePaper
<1>3. CASE Clear
  BY <1>3, ClearPaper
<1>4. CASE Switch
  BY <1>4, SwitchPaper
<1>5. CASE Write \/ ReadLine \/ Type \/ ReleaseEnter \/ UNCHANGED vars
  <2>1. UNCHANGED <<screen, curr_active_terminal, term_blk, fault, ghosts>>
    BY <1>5 DEF Write, ReadLine, Type, ReleaseEnter, vars
  <2> QED
    BY <2>1, PaperStays
<1> QED
  BY <1>1, <1>2, <1>3, <1>4, <1>5 DEF Next

\* putc, backspace, scroll, clear and terminal_swap: every terminal, shown or not,
\* shows the last rows of what was printed on it, and its cursor is at their end.
THEOREM Shown == Spec => []ShowsThePaper
<1>1. PaperInv => ShowsThePaper
  <2> SUFFICES ASSUME PaperInv, NEW t \in Terminals, ~awkward[t], ~fault,
                      NEW s, s = ScreenOf(t), NEW top, top = NUM_COLS * TopRow(reach[t])
               PROVE  /\ At(s.cursor_x, s.cursor_y) + top = End(paper[t])
                      /\ \A p \in Cells : p % NUM_COLS # NUM_COLS - 1 =>
                           s.page.char[p] \in Laid(t, p + top)
    BY DEF ShowsThePaper, TopRow
  <2>1. \A q : Laid(t, q) = LaidOut(paper[t], backdrop[t], q)
    BY DEF Laid, LaidOut
  <2>2. Shows(s, paper[t], backdrop[t], reach[t])
    BY DEF PaperInv
  <2> QED
    BY <2>1, <2>2 DEF Shows
<1> QED
  BY <1>1, InitPaper, NextPaper, Inductive, PTL DEF Spec
=============================================================================
