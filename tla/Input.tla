-------------------------------- MODULE Input --------------------------------
(***************************************************************************)
(* Keyboard input: the keyboard interrupt handler and terminal_read share  *)
(* key_buffer, buffer_index and enter_flag (keyboard.c, terminal.c).       *)
(*                                                                         *)
(* The handler re-enables interrupts (keyboard.c:94) before it touches any *)
(* of them, so a key can interrupt the handler of an earlier key: stack    *)
(* holds the handler activations, the processor runs the last one, and     *)
(* terminal_read runs only when there is none.  The build does not         *)
(* optimise, so buffer_index++ is a load and a store, and the index of     *)
(* key_buffer[buffer_index] is loaded again.                               *)
(*                                                                         *)
(* Nothing checks that index: a line that is too long is stored past the   *)
(* array, on whatever the linker put there.  The model stops there, with   *)
(* overrun set, and says nothing of what comes after.                      *)
(*                                                                         *)
(* Which character a key stands for (shift_flag, capslock_flag, the tables *)
(* of scan codes) is data; so is the echo on the screen.  Alt-Fn is "swap",*)
(* a switch to the other one of two terminals that have their shells.  No  *)
(* scheduler runs: the program that reads is the one of terminal Home.     *)
(* FlagBackwards, NoGuard, RawByte, KeepFlag, KeepIndex and ClearNothing   *)
(* are slips the code does not make, each before what it would spoil.      *)
(***************************************************************************)
EXTENDS Integers, Sequences, SequencesExt

CONSTANTS Chars,        \* keys that print themselves
          Keys,         \* keys the user may press
          EXTENDED_BUFFER, \* size of key_buffer, 256 in the code
          NBYTES,       \* what the program asks terminal_read for, at most 128
          MaxDepth,     \* handler activations at a time
          MaxKeys       \* bound on the keys pressed in a behaviour

Special == {"enter", "release", "backspace", "tab", "swap"}
NUL == "NUL"
NL  == "NL"
SPACE == " "

\* No key that prints itself stands for a newline (keyboard.c:5).
ASSUME InputAssumption ==
  /\ Keys \subseteq Chars \cup Special /\ Chars \cap Special = {} /\ NL \notin Chars
  /\ EXTENDED_BUFFER \in Nat /\ NBYTES \in 1..EXTENDED_BUFFER
  /\ MaxDepth \in Nat \ {0} /\ MaxKeys \in Nat

VARIABLES key_buffer, buffer_index, enter_flag,
          overrun,       \* a byte was stored outside key_buffer
          stack,         \* activations of keyboard_interrupt
          rpc, i, buf,   \* terminal_read: where it is, its index, what it copied
          \* What the user did, to compare with what programs read:
          nkeys,         \* keys pressed
          typed,         \* the characters, in order
          shown,         \* the terminal on the screen
          line,          \* the line as the user sees it, edited, of each terminal
          entered,       \* Enter was pressed, the line is not yet returned
          disturbed,     \* a key came when the line was being taken, see Careful
          swapped,       \* another terminal was shown
          erased,        \* backspace was used
          delivered      \* characters programs have read

kbd  == <<key_buffer, buffer_index, enter_flag, overrun>>
read == <<rpc, i, buf>>
user == <<nkeys, typed, shown, line, entered, disturbed, swapped, erased, delivered>>
vars == <<kbd, stack, read, user>>

Home == 0
Positions == 0..(EXTENDED_BUFFER - 1)
Indices   == (-1 - MaxKeys)..(3 * MaxKeys)

Init ==
  /\ key_buffer = [p \in Positions |-> NUL] /\ buffer_index = -1 /\ enter_flag = 0
  /\ overrun = FALSE
  /\ stack = <<>>
  /\ rpc = "user" /\ i = 0 /\ buf = <<>>
  /\ nkeys = 0 /\ typed = <<>> /\ delivered = <<>>
  /\ shown = Home /\ line = [t \in 0..1 |-> <<>>]
  /\ entered = FALSE /\ disturbed = FALSE /\ swapped = FALSE /\ erased = FALSE

(***************************************************************************)
(* The user.                                                               *)
(***************************************************************************)
TextOf(k) == IF k \in Chars THEN <<k>>
             ELSE IF k = "tab" THEN <<SPACE, SPACE, SPACE>> ELSE <<>>

\* A key that cannot go wrong: it comes when no handler is running; Enter comes
\* when the program of the terminal shown waits for it; from then until the line is returned nothing
\* but the release of Enter follows, and that only once the wait has ended.
Careful(k) ==
  /\ stack = <<>>
  /\ k = "enter" => rpc = "wait" /\ shown = Home
  /\ entered => k = "release" /\ rpc # "wait"

\* A scan code arrives and its handler starts: cli, inb, send_eoi, sti.
Arrive(k) ==
  /\ ~overrun
  /\ nkeys < MaxKeys
  /\ Len(stack) < MaxDepth
  /\ stack' = Append(stack, [pc |-> "start", key |-> k, left |-> 0, tmp |-> 0])
  /\ nkeys' = nkeys + 1
  /\ typed' = typed \o TextOf(k)
  /\ shown' = IF k = "swap" THEN 1 - shown ELSE shown
  /\ line' = [line EXCEPT ![shown] = IF k = "backspace" /\ @ # <<>> THEN Front(@)
                                     ELSE @ \o TextOf(k)]
  /\ entered' = (entered \/ k = "enter")
  /\ disturbed' = (disturbed \/ ~Careful(k))
  /\ swapped' = (swapped \/ k = "swap")
  /\ erased' = (erased \/ k = "backspace")
  /\ UNCHANGED <<kbd, read, delivered>>

(***************************************************************************)
(* keyboard_interrupt and printToScreen, after the sti.                    *)
(***************************************************************************)
Top == stack[Len(stack)]

At(label) == ~overrun /\ stack # <<>> /\ Top.pc = label

Become(f) == stack' = [stack EXCEPT ![Len(stack)] = f]

Leave == stack' = Front(stack)

\* enter_flag follows the Enter key; the other branches go by the key.
FlagBackwards(k) == IF k = "enter" THEN 0 ELSE IF k = "release" THEN 1 ELSE enter_flag
Flag(k) == IF k = "enter" THEN 1 ELSE IF k = "release" THEN 0 ELSE enter_flag

\* Backspace does nothing on an empty line.
NoGuard  == TRUE
MayErase == buffer_index >= 0

Cleared == [p \in Positions |-> NUL]

Dispatch ==
  /\ At("start")
  /\ enter_flag' = Flag(Top.key)
  /\ \/ /\ Top.key \in Chars \cup {"enter", "tab"}
        /\ Become([Top EXCEPT !.pc = "load", !.left = IF Top.key = "tab" THEN 3 ELSE 1])
        /\ UNCHANGED key_buffer
     \/ /\ Top.key = "backspace" /\ MayErase
        /\ Become([Top EXCEPT !.pc = "loadBack"])
        /\ UNCHANGED key_buffer
     \/ /\ Top.key = "release" \/ (Top.key = "backspace" /\ ~MayErase)
        /\ Leave
        /\ UNCHANGED key_buffer
     \/ /\ Top.key = "swap"   \* save_visible_terminal clears the key buffer
        /\ key_buffer' = Cleared
        /\ Leave
  /\ UNCHANGED <<buffer_index, overrun, read, user>>

\* buffer_index++ and buffer_index--: a load, then a store.
LoadIndex ==
  /\ At("load") \/ At("loadBack")
  /\ Become([Top EXCEPT !.tmp = buffer_index,
                        !.pc = IF Top.pc = "load" THEN "inc" ELSE "dec"])
  /\ UNCHANGED <<kbd, read, user>>

Increment ==
  /\ At("inc")
  /\ buffer_index' = Top.tmp + 1
  /\ Become([Top EXCEPT !.pc = "index"])
  /\ UNCHANGED <<key_buffer, enter_flag, overrun, read, user>>

Decrement ==
  /\ At("dec")
  /\ buffer_index' = Top.tmp - 1
  /\ Leave
  /\ UNCHANGED <<key_buffer, enter_flag, overrun, read, user>>

\* key_buffer[buffer_index] = c: the index is loaded, then the byte is stored.
LoadPlace ==
  /\ At("index")
  /\ Become([Top EXCEPT !.tmp = buffer_index, !.pc = "store"])
  /\ UNCHANGED <<kbd, read, user>>

RawByte(k) == k
Byte(k) == IF k = "enter" THEN NL ELSE IF k = "tab" THEN SPACE ELSE k

Store ==
  /\ At("store")
  /\ \/ /\ Top.tmp \in Positions
        /\ key_buffer' = [key_buffer EXCEPT ![Top.tmp] = Byte(Top.key)]
        /\ UNCHANGED overrun
     \/ /\ Top.tmp \notin Positions
        /\ overrun' = TRUE
        /\ UNCHANGED key_buffer
  /\ Become([Top EXCEPT !.left = @ - 1, !.pc = IF Top.left = 1 THEN "echo" ELSE "load"])
  /\ UNCHANGED <<buffer_index, enter_flag, read, user>>

\* putc of the key, and the iret.
Echo == At("echo") /\ Leave /\ UNCHANGED <<kbd, read, user>>

Handler == Dispatch \/ LoadIndex \/ Increment \/ Decrement \/ LoadPlace \/ Store \/ Echo

(***************************************************************************)
(* terminal_read.                                                          *)
(***************************************************************************)
Reader(label) == ~overrun /\ stack = <<>> /\ rpc = label

\* The program calls read on descriptor 0.
Call == Reader("user") /\ rpc' = "wait" /\ UNCHANGED <<kbd, stack, i, buf, user>>

\* while(enter_flag == 0) sees a 1.
Wake ==
  /\ Reader("wait") /\ enter_flag = 1
  /\ rpc' = "take"
  /\ UNCHANGED <<kbd, stack, i, buf, user>>

KeepFlag  == enter_flag
FlagTaken == 0

\* enter_flag = 0, and the request is cut to 128 bytes (NBYTES).
Take ==
  /\ Reader("take")
  /\ enter_flag' = FlagTaken
  /\ rpc' = "copy" /\ i' = 0 /\ buf' = <<>>
  /\ UNCHANGED <<key_buffer, buffer_index, overrun, stack, user>>

\* A round of the loop stops at the newline or at nbytes, or goes on to copy a byte.
Copy ==
  /\ Reader("copy")
  /\ IF i < NBYTES /\ key_buffer[i] # NL
     THEN rpc' = "fetch" /\ UNCHANGED buf
     ELSE rpc' = "reset" /\ buf' = Append(buf, NL)
  /\ UNCHANGED <<kbd, stack, i, user>>

\* key_buffer is volatile: the byte is loaded again, and may be another one by now.
Fetch ==
  /\ Reader("fetch")
  /\ buf' = Append(buf, key_buffer[i])
  /\ i' = i + 1
  /\ rpc' = "copy"
  /\ UNCHANGED <<kbd, stack, user>>

KeepIndex      == buffer_index
IndexAfterRead == -1

\* The line is forgotten in two steps: its index first, its bytes later.
Reset ==
  /\ Reader("reset")
  /\ buffer_index' = IndexAfterRead
  /\ rpc' = "clear" /\ i' = 0
  /\ UNCHANGED <<key_buffer, enter_flag, overrun, stack, buf, user>>

ClearNothing ==
  /\ Reader("clear") /\ i < EXTENDED_BUFFER
  /\ i' = i + 1
  /\ UNCHANGED <<kbd, stack, rpc, buf, user>>

\* One round of clear_keyboard_buffer.
Clear ==
  /\ Reader("clear") /\ i < EXTENDED_BUFFER
  /\ key_buffer' = [key_buffer EXCEPT ![i] = NUL]
  /\ i' = i + 1
  /\ UNCHANGED <<buffer_index, enter_flag, overrun, stack, rpc, buf, user>>

\* The characters among the bytes read: neither the newline nor the NULs of an
\* emptied buffer.
IsText(c) == c \notin {NUL, NL}
TextIn(s) ==
  LET text[n \in 0..Len(s)] ==
        IF n = 0 THEN <<>>
        ELSE IF IsText(s[n]) THEN Append(text[n - 1], s[n]) ELSE text[n - 1]
  IN text[Len(s)]

Return ==
  /\ Reader("clear") /\ i = EXTENDED_BUFFER
  /\ rpc' = "done" /\ i' = 0
  /\ delivered' = delivered \o TextIn(buf)
  /\ UNCHANGED <<kbd, stack, buf, nkeys, typed, shown, line, entered, disturbed,
                 swapped, erased>>

\* The program goes on with what it read.
Resume ==
  /\ Reader("done")
  /\ rpc' = "user" /\ buf' = <<>>
  /\ line' = [line EXCEPT ![Home] = <<>>] /\ entered' = FALSE
  /\ UNCHANGED <<kbd, stack, i, nkeys, typed, shown, disturbed, swapped, erased,
                 delivered>>

Read == Wake \/ Take \/ Copy \/ Fetch \/ Reset \/ Clear \/ Return \/ Resume

Next == Handler \/ Call \/ Read \/ \E k \in Keys : Arrive(k)

\* The processor executes the handler it is in, and terminal_read when it is in
\* none: it never stops between two instructions.
Fairness == WF_vars(Handler) /\ WF_vars(Read)

Spec == Init /\ [][Next]_vars /\ Fairness

(***************************************************************************)
(* Properties.                                                             *)
(***************************************************************************)
TypeOK ==
  /\ key_buffer \in [Positions -> Chars \cup {NUL, NL, SPACE}]
  /\ buffer_index \in Indices /\ enter_flag \in {0, 1} /\ overrun \in BOOLEAN
  /\ \A f \in 1..Len(stack) :
        stack[f] \in [pc : {"start", "load", "inc", "index", "store", "echo",
                            "loadBack", "dec"},
                      key : Keys, left : 0..3, tmp : Indices]
  /\ rpc \in {"user", "wait", "take", "copy", "fetch", "reset", "clear", "done"}
  /\ i \in 0..EXTENDED_BUFFER
  /\ \A n \in 1..Len(buf) : buf[n] \in Chars \cup {NUL, NL, SPACE}

FirstOf(s) == SubSeq(s, 1, IF Len(s) < NBYTES THEN Len(s) ELSE NBYTES)

\* "each terminal needs its own keyboard buffer" (terminal.h:15): what a program
\* reads is the line typed on its own terminal, whichever terminals were shown
\* in between.
OwnKeyboardBuffer ==
  rpc = "done" /\ ~disturbed => buf = FirstOf(line[Home]) \o <<NL>>

\* What a program reads is the line the user saw when pressing Enter, cut to
\* the bytes asked for and ended by a newline, as long as the user did not type
\* into the time the line was being taken and stayed on one terminal: typing
\* before the read starts, erasing and erasing on an empty line included.  The line
\* and its newline fit key_buffer, or it is not read at all (WithinBuffer).
ReadsTheLine ==
  rpc = "done" /\ ~disturbed /\ ~swapped => buf = FirstOf(line[Home]) \o <<NL>>

IsSubSequence(s, t) ==
  LET match[n \in 0..Len(t)] ==   \* how much of s the first n elements of t cover
        IF n = 0 THEN 0
        ELSE IF match[n - 1] < Len(s) /\ s[match[n - 1] + 1] = t[n]
             THEN match[n - 1] + 1 ELSE match[n - 1]
  IN match[Len(t)] = Len(s)

\* Whenever the user types, and whatever is lost: without backspace, programs
\* read the characters in the order they were typed, none of them twice.
ReadsInOrder == ~erased => IsSubSequence(delivered, typed)

\* Nothing but the length of a line protects the memory around key_buffer.  Whatever
\* is typed while programs read, nothing is stored in front of it, so no reset and
\* no backspace takes the index too far down; and nothing is stored behind it while
\* the line being typed, with its newline, fits, so no line starts where the one
\* before it ended.
WithinBuffer ==
  overrun =>
    /\ buffer_index >= EXTENDED_BUFFER
    /\ ~disturbed /\ ~swapped =>
         Len(line[Home]) + (IF entered THEN 1 ELSE 0) > EXTENDED_BUFFER

\* Between reads of lines typed with care, buffer_index counts the characters
\* of the line being edited and key_buffer holds them: it is what backspace, the
\* next key and the next read rely on.
IndexCountsLine ==
  stack = <<>> /\ ~disturbed /\ ~swapped /\ rpc \in {"user", "wait"} /\ ~entered =>
    /\ buffer_index = Len(line[Home]) - 1
    /\ \A n \in 1..Len(line[Home]) : key_buffer[n - 1] = line[Home][n]

\* An Enter pressed while a program waits ends the wait and the line is read,
\* even when terminals were swapped before, unless it no longer fits key_buffer.
EnterIsAnswered ==
  (entered /\ ~disturbed) ~> (rpc = "done" \/ disturbed \/ overrun)
=============================================================================
