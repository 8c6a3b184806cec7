------------------------------- MODULE Console -------------------------------
(***************************************************************************)
(* The text screen: putc, scroll, backspace, clear and update_cursor       *)
(* (lib.c), terminal_write and the switch of terminals (terminal.c), and   *)
(* what the keyboard does to the screen and to the line (keyboard.c).      *)
(*                                                                         *)
(* What is to be printed waits in text: by a program's write, which runs   *)
(* with interrupts off, or as the echo of a key.  The model takes a key    *)
(* when the handler of the one before has ended (Input says what happens   *)
(* otherwise).  A write outside the mapped pages is a page fault in the    *)
(* kernel; the model stops there.  The cells of the page behind the last   *)
(* row are left out, and line is key_buffer up to buffer_index.            *)
(*                                                                         *)
(* paper, backdrop, reach, awkward, displaced and mixed are not in the     *)
(* kernel: they keep what was printed.  KeepsBottom, NoGuard, SameRow and  *)
(* the like are slips the code does not make, each before what it would    *)
(* spoil.                                                                  *)
(***************************************************************************)
EXTENDS Integers, Sequences

CONSTANTS NUM_COLS, NUM_ROWS, MAX_TERMINALS,
          TermColor,    \* terminal -> its attribute
          Keys,         \* the characters typed
          Texts,        \* what programs write
          MaxLine,      \* bound on the line
          MaxSteps      \* bound on keys and writes

NL    == "NL"
NUL   == "NUL"
Blank == " "
Noise == "noise"        \* what the video pages hold at boot

Terminals == 0..(MAX_TERMINALS - 1)
Cells     == 0..(NUM_ROWS * NUM_COLS - 1)
Chars     == Keys \cup {NL, NUL, Blank}

ASSUME ConsoleAssumption ==
  /\ NUM_COLS \in Nat /\ NUM_COLS >= 2 /\ NUM_ROWS \in Nat /\ NUM_ROWS >= 2
  /\ MAX_TERMINALS \in Nat \ {0} /\ TermColor \in [Terminals -> Nat]
  /\ NUL \notin Keys /\ Texts \subseteq Seq(Chars) /\ MaxSteps \in Nat
  /\ MaxLine \in Nat /\ MaxLine <= (NUM_ROWS - 1) * NUM_COLS

VARIABLES video_mem,             \* the characters and the attributes of the cells
          screen_x, screen_y,
          cursor,                \* where the hardware shows the cursor
          curr_active_terminal,
          term_blk,              \* terminal -> the saved page, cursor_x, cursor_y
          line, enter_flag,
          text,                  \* left to print
          fault,                 \* a page fault in the kernel
          paper,                 \* terminal -> all it was given since it was cleared
          backdrop,              \* terminal -> what its cells held before that
          reach,                 \* terminal -> the row the paper has come to
          awkward,               \* terminal -> see Put and Backspace
          displaced,             \* the line was typed elsewhere than the cursor is
          mixed,                 \* a program has written in the middle of the line
          steps

screen == <<video_mem, screen_x, screen_y, cursor>>
ghosts == <<paper, backdrop, reach, awkward>>
vars   == <<screen, curr_active_terminal, term_blk, line, enter_flag, text, fault, ghosts,
            displaced, mixed, steps>>

At(x, y) == NUM_COLS * y + x

\* update_cursor: 16 bits, in two halves; column -1 is the end of the row above.
Positions == 0..65535
Low16(n)  == n % 65536
update_cursor(x, y) == cursor' = Low16(At(x, y))

AllCells(c, a) == [char |-> [p \in Cells |-> c], attrib |-> [p \in Cells |-> a]]

Init ==
  /\ video_mem = AllCells(Blank, TermColor[0]) /\ screen_x = 0 /\ screen_y = 0 /\ cursor = 0
  /\ curr_active_terminal = 0
  /\ term_blk = [t \in Terminals |-> [page |-> AllCells(Noise, 0), cursor_x |-> 0, cursor_y |-> 0]]
  /\ line = <<>> /\ enter_flag = 0 /\ text = <<>> /\ fault = FALSE
  /\ paper = [t \in Terminals |-> <<>>] /\ reach = [t \in Terminals |-> 0]
  /\ backdrop = [t \in Terminals |-> IF t = 0 THEN Blank ELSE Noise]
  /\ awkward = [t \in Terminals |-> FALSE]
  /\ displaced = FALSE /\ mixed = FALSE /\ steps = 0

(***************************************************************************)
(* lib.c                                                                   *)
(***************************************************************************)
Drawn(p, c) == [char   |-> [video_mem.char EXCEPT ![p] = c],
                attrib |-> [video_mem.attrib EXCEPT ![p] = TermColor[curr_active_terminal]]]

\* scroll moves the characters, not the attributes, and blanks the bottom row.
KeepsBottom == [video_mem EXCEPT !.char = [p \in Cells |->
                  IF p + NUM_COLS \in Cells THEN video_mem.char[p + NUM_COLS] ELSE video_mem.char[p]]]
Scrolled    == [video_mem EXCEPT !.char = [p \in Cells |->
                  IF p + NUM_COLS \in Cells THEN video_mem.char[p + NUM_COLS] ELSE Blank]]

NextRow ==
  /\ screen_x' = 0
  /\ \/ /\ screen_y + 1 < NUM_ROWS
        /\ screen_y' = screen_y + 1 /\ UNCHANGED video_mem
     \/ /\ screen_y + 1 >= NUM_ROWS
        /\ screen_y' = NUM_ROWS - 1 /\ video_mem' = Scrolled
  /\ update_cursor(0, screen_y')

\* A character that falls in the last column is not drawn: it starts the next row.
putc(c) ==
  \/ (c = NL \/ screen_x = NUM_COLS - 1) /\ NextRow
  \/ /\ c # NL /\ screen_x # NUM_COLS - 1
     /\ video_mem' = Drawn(At(screen_x, screen_y), c)
     /\ screen_x' = screen_x + 1 /\ UNCHANGED screen_y
     /\ update_cursor(screen_x + 1, screen_y)

\* (screen_x - 1) % NUM_COLS keeps its sign in C.
Straight     == screen_x - 1
SameRow      == IF screen_x = 0 THEN NUM_COLS - 1 ELSE screen_x - 1
ColumnBefore == IF screen_x - 1 = -NUM_COLS THEN 0 ELSE screen_x - 1

(***************************************************************************)
(* Where things should be: the paper laid out on rows without end.         *)
(***************************************************************************)
\* From place at, a newline goes to the next row, any other character one on.
PlaceAfter(at, c) == IF c = NL THEN NUM_COLS * ((at \div NUM_COLS) + 1) ELSE at + 1

Places(p) == LET at[k \in 0..Len(p)] == IF k = 0 THEN 0 ELSE PlaceAfter(at[k - 1], p[k]) IN at
End(p)    == Places(p)[Len(p)]

Later(a, b) == IF a > b THEN a ELSE b
MayStep == text = <<>> /\ ~fault /\ steps < MaxSteps /\ steps' = steps + 1
Here    == curr_active_terminal

\* The next character is printed, if it is not NUL.  Awkward: a newline when
\* backspace has gone back over the end of a row leaves an empty row.
Put ==
  /\ text # <<>> /\ ~fault
  /\ LET c == Head(text)  p == Append(paper[Here], c)
     IN  \/ c = NUL /\ UNCHANGED <<screen, ghosts>>
         \/ /\ c # NUL /\ putc(c)
            /\ paper' = [paper EXCEPT ![Here] = p]
            /\ reach' = [reach EXCEPT ![Here] = Later(@, End(p) \div NUM_COLS)]
            /\ awkward' = [awkward EXCEPT ![Here] = @ \/ (c = NL /\ screen_x < 0)]
            /\ UNCHANGED backdrop
  /\ text' = Tail(text)
  /\ UNCHANGED <<curr_active_terminal, term_blk, line, enter_flag, fault, displaced, mixed, steps>>

(***************************************************************************)
(* The running program: it writes on the terminal that is shown.           *)
(***************************************************************************)
Write ==
  /\ MayStep /\ text' \in Texts /\ mixed' = (line # <<>>)
  /\ UNCHANGED <<screen, curr_active_terminal, term_blk, line, enter_flag, fault, ghosts, displaced>>

\* terminal_read takes the line: buffer_index = -1.
ReadLine ==
  /\ MayStep /\ enter_flag = 1
  /\ line' = <<>> /\ enter_flag' = 0 /\ displaced' = FALSE /\ mixed' = FALSE
  /\ UNCHANGED <<screen, curr_active_terminal, term_blk, text, fault, ghosts>>

(***************************************************************************)
(* The keyboard.                                                           *)
(***************************************************************************)
Typed == {<<c>> : c \in Keys} \cup {<<NL>>, <<Blank, Blank, Blank>>}

\* A key, Enter or the tab: into the line, and its echo.
Type ==
  /\ MayStep
  /\ \E s \in Typed : /\ Len(line) + Len(s) <= MaxLine
                      /\ line' = line \o s /\ text' = s
                      /\ enter_flag' = IF s = <<NL>> THEN 1 ELSE enter_flag
  /\ UNCHANGED <<screen, curr_active_terminal, term_blk, fault, ghosts, displaced, mixed>>

ReleaseEnter ==
  /\ MayStep /\ enter_flag' = 0
  /\ UNCHANGED <<screen, curr_active_terminal, term_blk, line, text, fault, ghosts, displaced,
                 mixed>>

\* Awkward: a newline is taken back, or the row above has been gone through to its
\* second column, and the remainder is then 0, the first column of the row below.
NoGuard  == TRUE
MayErase == line # <<>>
Backspace ==
  /\ MayStep /\ MayErase
  /\ LET p == At(ColumnBefore, screen_y)  q == paper[Here]
     IN  \/ p < 0 /\ fault' = TRUE /\ UNCHANGED <<screen, line, ghosts, displaced, mixed>>
         \/ /\ p >= 0 /\ video_mem' = Drawn(p, Blank)
            /\ screen_x' = ColumnBefore /\ update_cursor(ColumnBefore, screen_y)
            /\ line' = SubSeq(line, 1, Len(line) - 1)
            /\ paper' = [paper EXCEPT ![Here] = SubSeq(q, 1, Len(q) - 1)]
            /\ awkward' = [awkward EXCEPT ![Here] =
                 @ \/ q = <<>> \/ q[Len(q)] = NL \/ screen_x - 1 = -NUM_COLS]
            /\ displaced' = (displaced /\ Len(line) > 1)
            /\ mixed' = (mixed /\ Len(line) > 1)
            /\ UNCHANGED <<screen_y, fault, backdrop, reach>>
  /\ UNCHANGED <<curr_active_terminal, term_blk, enter_flag, text>>

\* Ctrl-L: the screen is cleared, the line is not.
InGreen == AllCells(Blank, TermColor[0])
Cleared == AllCells(Blank, TermColor[curr_active_terminal])
Clear ==
  /\ MayStep
  /\ video_mem' = Cleared /\ screen_x' = 0 /\ screen_y' = 0 /\ update_cursor(0, 0)
  /\ paper' = [paper EXCEPT ![Here] = <<>>] /\ backdrop' = [backdrop EXCEPT ![Here] = Blank]
  /\ reach' = [reach EXCEPT ![Here] = 0] /\ awkward' = [awkward EXCEPT ![Here] = FALSE]
  /\ displaced' = (line # <<>>)
  /\ UNCHANGED <<curr_active_terminal, term_blk, line, enter_flag, text, fault, mixed>>

\* save_visible_terminal and restore_new_terminal.  The bytes of the line are
\* cleared, its length stays.  A first visit also starts a shell.
Turned == [page |-> video_mem, cursor_x |-> screen_y, cursor_y |-> screen_x]
Saved  == [page |-> video_mem, cursor_x |-> screen_x, cursor_y |-> screen_y]
Stays(x, y)    == UNCHANGED cursor
Restores(x, y) == update_cursor(x, y)
Switch ==
  /\ MayStep
  /\ \E t \in Terminals \ {curr_active_terminal} :
       /\ term_blk' = [term_blk EXCEPT ![curr_active_terminal] = Saved]
       /\ screen_x' = term_blk[t].cursor_x /\ screen_y' = term_blk[t].cursor_y
       /\ Restores(term_blk[t].cursor_x, term_blk[t].cursor_y)
       /\ video_mem' = term_blk[t].page /\ curr_active_terminal' = t
  /\ line' = [k \in 1..Len(line) |-> NUL] /\ displaced' = (line # <<>>)
  /\ UNCHANGED <<enter_flag, text, fault, ghosts, mixed>>

Next == \/ Put \/ Write \/ ReadLine \/ Type \/ ReleaseEnter \/ Backspace \/ Clear \/ Switch

Spec == Init /\ [][Next]_vars

(***************************************************************************)
(* Properties.                                                             *)
(***************************************************************************)
Pages == [char : [Cells -> Chars \cup {Noise}], attrib : [Cells -> Nat]]

\* The columns and rows a cursor may have, shown or saved.
Columns == (1 - NUM_COLS)..(NUM_COLS - 1)
Rows    == 0..(NUM_ROWS - 1)

ScreensTyped ==
  /\ video_mem \in Pages /\ screen_x \in Columns /\ screen_y \in Rows /\ cursor \in Positions
  /\ At(screen_x, screen_y) \in Cells
  /\ curr_active_terminal \in Terminals
  /\ term_blk \in [Terminals -> [page : Pages, cursor_x : Columns, cursor_y : Rows]]
  /\ \A t \in Terminals : At(term_blk[t].cursor_x, term_blk[t].cursor_y) \in Cells

LineTyped ==
  /\ line \in Seq(Chars) /\ Len(line) <= MaxLine /\ text \in Seq(Chars)
  /\ enter_flag \in {0, 1} /\ fault \in BOOLEAN
  /\ displaced \in BOOLEAN /\ mixed \in BOOLEAN

PaperTyped ==
  /\ paper \in [Terminals -> Seq(Chars)] /\ awkward \in [Terminals -> BOOLEAN]
  /\ backdrop \in [Terminals -> {Blank, Noise}]

\* A cursor, shown or saved, is on the screen: screen_x may be negative, but never
\* by more than the row above, and never on the first row.
TypeOK == ScreensTyped /\ LineTyped /\ PaperTyped

\* The screen of a terminal, shown or saved.
ScreenOf(t) == IF t = curr_active_terminal
               THEN [page |-> video_mem, cursor_x |-> screen_x, cursor_y |-> screen_y]
               ELSE term_blk[t]

\* What a cell of the endless rows may show.
Laid(t, q) ==
  LET here == {k \in 1..Len(paper[t]) : Places(paper[t])[k - 1] = q /\ paper[t][k] # NL}
  IN  IF here = {} THEN {Blank, backdrop[t]} ELSE {paper[t][k] : k \in here}

\* Every terminal, shown or not, shows the last rows of all that was printed on it,
\* by programs and by the echo, less what was taken back: across wraps, scrolling
\* and switches; the last column, where putc does not draw, is left aside, and so
\* is a terminal after one of the awkward moments.
ShowsThePaper ==
  \A t \in Terminals : ~awkward[t] /\ ~fault =>
    LET s == ScreenOf(t)
        top == NUM_COLS * Later(0, reach[t] - (NUM_ROWS - 1))
    IN  /\ At(s.cursor_x, s.cursor_y) + top = End(paper[t])
        /\ \A p \in Cells : p % NUM_COLS # NUM_COLS - 1 => s.page.char[p] \in Laid(t, p + top)

\* Nothing is written in front of video memory, unless Ctrl-L or Alt-Fn came in the
\* middle of a line.
StaysInVideoMemory == fault => displaced

\* Backspace erases the character it takes out of the line, across wraps and scrolls,
\* unless Ctrl-L, Alt-Fn or a program's write came in the middle of the line; the
\* last column, where nothing is drawn, and the awkward moments are left aside.
ErasesWhatItTakes ==
  [][LET p == At(screen_x', screen_y') IN
       /\ Len(paper'[Here]) < Len(paper[Here]) /\ Len(line') = Len(line) - 1
       /\ ~displaced /\ ~mixed /\ ~awkward'[Here] /\ p % NUM_COLS # NUM_COLS - 1
       => video_mem.char[p] = line[Len(line)] /\ video_mem'.char[p] = Blank]_vars

\* The cursor is shown where the next character goes.
CursorShown == cursor = Low16(At(screen_x, screen_y))

\* A terminal that was cleared once is in its own colour all over.
OwnColour ==
  \A t \in Terminals : backdrop[t] = Blank =>
    \A p \in Cells : ScreenOf(t).page.attrib[p] = TermColor[t]

\* Nothing but what is done while it is shown changes the screen of a terminal or
\* its cursor, and a switch changes none.
HiddenScreensKept ==
  [][\A t \in Terminals : ScreenOf(t)' # ScreenOf(t) =>
       t = curr_active_terminal /\ curr_active_terminal' = t]_vars
=============================================================================
