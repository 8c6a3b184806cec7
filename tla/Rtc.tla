--------------------------------- MODULE Rtc ---------------------------------
(***************************************************************************)
(* The real-time clock: the interrupt handler and the read and write       *)
(* operations share interrupt_flag and the chip's register index, which    *)
(* port 0x70 selects and port 0x71 then reads or writes (rtc.c).           *)
(*                                                                         *)
(* stack holds the programs in progress, the running one last: an Alt-Fn   *)
(* key may launch a shell on top of a program at any point where           *)
(* interrupts are enabled, and the program goes on when the shell halts.   *)
(* int_on is the interrupt flag of the running program.  The handler runs  *)
(* with it clear up to its last instruction, so it is one step.            *)
(*                                                                         *)
(* The chip and the interrupt controller are modelled from how rtc.c uses  *)
(* them: register C must be read before the chip asks for the next         *)
(* interrupt, and register A holds the rate and, above it, the divider.    *)
(* LineKept, CountTicks, KeepIF and KeepFlag are slips the code does not   *)
(* make, each before what it would spoil.                                  *)
(***************************************************************************)
EXTENDS Naturals, Sequences, SequencesExt

CONSTANTS Requests,     \* frequencies programs write
          Dividers,     \* contents of the upper half of register A
          BootDivider,  \* what the BIOS left there
          Ticking,      \* dividers with which the chip raises interrupts
          MaxDepth      \* bound on the programs in progress

ASSUME RtcAssumption ==
  /\ Requests \subseteq Nat
  /\ BootDivider \in Dividers
  /\ MaxDepth \in Nat \ {0}

VARIABLES interrupt_flag,
          selected,       \* the register port 0x71 stands for
          frequency, divider,   \* register A
          line,           \* register C: an interrupt was asked for and not read
          irr,            \* the controller's request latch
          int_on, stack

chip == <<frequency, divider, line>>
vars == <<interrupt_flag, selected, chip, irr, int_on, stack>>

\* The frequencies of the switch in set_freq_rtc; write_rtc's check (a power of
\* two in 2..1024) admits the same.
Frequencies == {2, 4, 8, 16, 32, 64, 128, 256, 512, 1024}
BootFrequency  == 1024
ReadFrequency  == 512

Program == [pc     : {"user", "set", "select", "data", "sti", "spin", "clear"},
            reads  : BOOLEAN,              \* the call in progress is a read
            arg    : Frequencies,          \* what set_freq_rtc was called with
            paced  : BOOLEAN,     \* a tick was handled since its last read
            ticked : BOOLEAN]     \* a tick was handled since this read began

NewProgram == [pc |-> "user", reads |-> FALSE, arg |-> ReadFrequency,
               paced |-> TRUE, ticked |-> FALSE]

\* After init_rtc: register B has been selected last.
Init ==
  /\ interrupt_flag = 0 /\ selected = "B"
  /\ frequency = BootFrequency /\ divider = BootDivider
  /\ line = FALSE /\ irr = FALSE
  /\ int_on = TRUE /\ stack = <<NewProgram>>

Top == stack[Len(stack)]
At(label) == Top.pc = label
Goto(f) == stack' = [stack EXCEPT ![Len(stack)] = f]

(***************************************************************************)
(* The chip asks for an interrupt, and rtc_handler answers.                *)
(***************************************************************************)
Tick ==
  /\ divider \in Ticking
  /\ ~line
  /\ line' = TRUE /\ irr' = TRUE
  /\ UNCHANGED <<interrupt_flag, selected, frequency, divider, int_on, stack>>

LineKept == line
\* inb of the register selected; reading C ends the request.
LineAfterRead == IF selected' = "C" THEN FALSE ELSE line

CountTicks == interrupt_flag + 1
FlagRaised == 1

Marked(p) == [p EXCEPT !.paced = TRUE, !.ticked = TRUE]

rtc_handler ==
  /\ int_on /\ irr
  /\ irr' = FALSE
  /\ selected' = "C"
  /\ interrupt_flag' = FlagRaised
  /\ line' = LineAfterRead
  /\ stack' = [n \in 1..Len(stack) |-> Marked(stack[n])]
  /\ UNCHANGED <<frequency, divider, int_on>>

(***************************************************************************)
(* read_rtc and write_rtc, up to their call of set_freq_rtc.               *)
(***************************************************************************)
read_rtc ==
  /\ At("user")
  /\ Goto([Top EXCEPT !.pc = "set", !.reads = TRUE, !.arg = ReadFrequency,
                      !.ticked = FALSE])
  /\ UNCHANGED <<interrupt_flag, selected, chip, irr, int_on>>

\* A request that is not one of the frequencies, or not four bytes long,
\* returns -1 and changes nothing.
write_rtc(f) ==
  /\ At("user")
  /\ f \in Frequencies
  /\ int_on' = FALSE
  /\ Goto([Top EXCEPT !.pc = "set", !.reads = FALSE, !.arg = f])
  /\ UNCHANGED <<interrupt_flag, selected, chip, irr>>

(***************************************************************************)
(* set_freq_rtc.                                                           *)
(***************************************************************************)
KeepIF == int_on
IFAfterCli == FALSE

Cli ==
  /\ At("set")
  /\ int_on' = IFAfterCli
  /\ Goto([Top EXCEPT !.pc = "select"])
  /\ UNCHANGED <<interrupt_flag, selected, chip, irr>>

Select ==
  /\ At("select")
  /\ selected' = "A"
  /\ Goto([Top EXCEPT !.pc = "data"])
  /\ UNCHANGED <<interrupt_flag, chip, irr, int_on>>

\* The upper half written is that of regA_temp, which nothing initialises.
Data ==
  /\ At("data")
  /\ IF selected = "A"
     THEN frequency' = Top.arg /\ divider' \in Dividers
     ELSE UNCHANGED <<frequency, divider>>
  /\ Goto([Top EXCEPT !.pc = "sti"])
  /\ UNCHANGED <<interrupt_flag, selected, line, irr, int_on>>

\* write_rtc is done after it; read_rtc goes on to wait.
Sti ==
  /\ At("sti")
  /\ int_on' = TRUE
  /\ Goto([Top EXCEPT !.pc = IF Top.reads THEN "spin" ELSE "user"])
  /\ UNCHANGED <<interrupt_flag, selected, chip, irr>>

(***************************************************************************)
(* The rest of read_rtc.                                                   *)
(***************************************************************************)
Spin ==
  /\ At("spin") /\ interrupt_flag = 1
  /\ Goto([Top EXCEPT !.pc = "clear"])
  /\ UNCHANGED <<interrupt_flag, selected, chip, irr, int_on>>

KeepFlag == interrupt_flag
FlagAfterRead == 0

Clear ==
  /\ At("clear")
  /\ interrupt_flag' = FlagAfterRead
  /\ Goto([Top EXCEPT !.pc = "user", !.paced = FALSE])
  /\ UNCHANGED <<selected, chip, irr, int_on>>

(***************************************************************************)
(* Alt-Fn launches a shell from the keyboard interrupt; it ends by halt.   *)
(***************************************************************************)
Launch ==
  /\ int_on /\ Len(stack) < MaxDepth
  /\ stack' = Append(stack, NewProgram)
  /\ UNCHANGED <<interrupt_flag, selected, chip, irr, int_on>>

End ==
  /\ Len(stack) > 1 /\ At("user")
  /\ stack' = Front(stack)
  /\ UNCHANGED <<interrupt_flag, selected, chip, irr, int_on>>

SetFrequency == Cli \/ Select \/ Data \/ Sti
Kernel == SetFrequency \/ Spin \/ Clear

Next ==
  \/ Tick \/ rtc_handler
  \/ read_rtc \/ \E f \in Requests : write_rtc(f)
  \/ Kernel
  \/ Launch \/ End

\* The chip is periodic, an interrupt that stays requested is taken, and the
\* processor does not stop inside a system call.
Spec == Init /\ [][Next]_vars /\ WF_vars(Tick) /\ WF_vars(rtc_handler) /\ WF_vars(Kernel)

(***************************************************************************)
(* Properties.                                                             *)
(***************************************************************************)
TypeOK ==
  /\ interrupt_flag \in {0, 1} /\ selected \in {"A", "B", "C"}
  /\ frequency \in Frequencies /\ divider \in Dividers
  /\ line \in BOOLEAN /\ irr \in BOOLEAN /\ int_on \in BOOLEAN
  /\ stack \in Seq(Program) /\ Len(stack) \in 1..MaxDepth

\* Between the outb that selects register A and the outb of the new rate
\* nothing selects another register, and the two lie in one critical section:
\* a tick there would send the rate to register C (rtc.c:161-168).
IndexHeld == At("data") => selected = "A" /\ ~int_on

\* Two reads of one program return on different ticks, whichever shells read
\* the clock in between: a program that paces itself with reads never runs
\* faster than the clock.
PacedReads == At("clear") => Top.paced

\* What keeps the two: interrupts are off inside the critical section, so no
\* handler runs and no shell is launched there; and the flag, when set, stands
\* for a tick that came after the last read of every program in progress.
Critical == {"select", "data", "sti"}

PacingInvariant ==
  /\ Top.pc \in Critical => ~int_on
  /\ \A n \in 1..(Len(stack) - 1) : stack[n].pc \notin Critical
  /\ \A n \in 1..Len(stack) : interrupt_flag = 1 \/ stack[n].pc = "clear" => stack[n].paced
  /\ IndexHeld

\* A program waiting in read goes on, unless a shell is launched on top of it:
\* each interrupt is acknowledged at the chip, so that the next one can come.
ReadReturns ==
  \A n \in 1..MaxDepth :
    (Len(stack) = n /\ At("spin")) ~> (Len(stack) # n \/ ~At("spin"))

\* "block until next interrupt" (rtc.c:101): a read does not return on a tick
\* that was handled before it was called.
WaitsForNext == At("clear") => Top.ticked
=============================================================================
