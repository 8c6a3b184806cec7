----------------------------- MODULE Rtc_proofs -----------------------------
(***************************************************************************)
(* Type correctness of Rtc, and that its critical section and the flag     *)
(* pace every program, for any number of programs in progress.             *)
(***************************************************************************)
EXTENDS Rtc, TLAPS, SequenceTheorems

\* The rate a read sets is one the chip has.
LEMMA ReadFrequencyTyped == ReadFrequency \in Frequencies
BY DEF ReadFrequency, Frequencies

\* What a program starts with is a program record.
LEMMA NewProgramTyped == NewProgram \in Program
BY DEF NewProgram, Program, ReadFrequency, Frequencies

\* The program that runs is the last one of the stack.
LEMMA TopTyped == TypeOK => Top \in Program /\ Len(stack) \in 1..Len(stack)
BY RtcAssumption DEF TypeOK, Top

\* Moving the running program to another point keeps the stack well formed.
LEMMA GotoTyped ==
  ASSUME TypeOK, NEW f \in Program, Goto(f)
  PROVE  stack' \in Seq(Program) /\ Len(stack') \in 1..MaxDepth
BY RtcAssumption DEF TypeOK, Goto

\* The programs that wait stay as they are when the one above them ends.
LEMMA FrontFacts ==
  ASSUME TypeOK, Len(stack) > 1
  PROVE  /\ Front(stack) \in Seq(Program)
         /\ Len(Front(stack)) = Len(stack) - 1
         /\ \A n \in 1..(Len(stack) - 1) : Front(stack)[n] = stack[n]
BY RtcAssumption DEF TypeOK, Front

\* Marking a tick changes no other field.
LEMMA MarkedFacts ==
  ASSUME NEW p \in Program
  PROVE  Marked(p) \in Program /\ Marked(p).pc = p.pc /\ Marked(p).paced = TRUE
BY DEF Marked, Program

\* The handler marks every program in progress, and changes nothing else of it.
LEMMA HandlerFacts ==
  ASSUME TypeOK, stack' = [n \in 1..Len(stack) |-> Marked(stack[n])]
  PROVE  /\ stack' \in Seq(Program) /\ Len(stack') = Len(stack)
         /\ \A n \in 1..Len(stack) : /\ stack'[n].pc = stack[n].pc
                                      /\ stack'[n].paced = TRUE
<1>1. stack \in Seq(Program) /\ Len(stack) \in Nat
  BY DEF TypeOK
<1>2. ASSUME NEW n \in 1..Len(stack)
      PROVE  /\ stack'[n] \in Program
             /\ stack'[n].pc = stack[n].pc /\ stack'[n].paced = TRUE
  <2>1. stack[n] \in Program /\ stack'[n] = Marked(stack[n])
    BY <1>1
  <2> QED
    BY <2>1, MarkedFacts
<1>3. stack' \in [1..Len(stack) -> Program]
  BY <1>2
<1>4. stack' \in Seq(Program)
  BY <1>1, <1>3, SeqDef
<1>5. Len(stack') = Len(stack)
  BY <1>1, <1>3, <1>4, LenProperties
<1> QED
  BY <1>2, <1>4, <1>5

\* The types hold at first.
LEMMA InitTyped == Init => TypeOK
<1> SUFFICES ASSUME Init PROVE TypeOK
  OBVIOUS
<1>1. stack \in Seq(Program) /\ Len(stack) = 1
  <2>1. stack = <<NewProgram>>
    BY DEF Init
  <2> QED
    BY <2>1, NewProgramTyped
<1>2. 1 \in 1..MaxDepth
  BY RtcAssumption
<1>3. frequency \in Frequencies
  BY DEF Init, BootFrequency, Frequencies
<1> QED
  BY <1>1, <1>2, <1>3, RtcAssumption DEF Init, TypeOK

\* TypeOK is inductive.
LEMMA StepTyped == TypeOK /\ [Next]_vars => TypeOK'
<1> SUFFICES ASSUME TypeOK, [Next]_vars PROVE TypeOK'
  OBVIOUS
<1>1. Top \in Program /\ Len(stack) \in 1..Len(stack)
  BY TopTyped
<1>2. CASE Tick
  BY <1>2 DEF Tick, TypeOK
<1>3. CASE rtc_handler
  <2>1. stack' \in Seq(Program) /\ Len(stack') = Len(stack)
    BY <1>3, HandlerFacts DEF rtc_handler
  <2> QED
    BY <1>3, <2>1 DEF rtc_handler, TypeOK, FlagRaised, LineAfterRead, chip
<1>4. CASE read_rtc
  <2>1. [Top EXCEPT !.pc = "set", !.reads = TRUE, !.arg = ReadFrequency,
                    !.ticked = FALSE] \in Program
    BY <1>1, ReadFrequencyTyped DEF Program
  <2> QED
    BY <1>4, <2>1, GotoTyped DEF read_rtc, TypeOK, chip
<1>5. ASSUME NEW f \in Requests, write_rtc(f) PROVE TypeOK'
  <2>1. [Top EXCEPT !.pc = "set", !.reads = FALSE, !.arg = f] \in Program
    BY <1>1, <1>5 DEF Program, write_rtc
  <2> QED
    BY <1>5, <2>1, GotoTyped DEF write_rtc, TypeOK, chip
<1>6. CASE Cli
  <2>1. [Top EXCEPT !.pc = "select"] \in Program
    BY <1>1 DEF Program
  <2> QED
    BY <1>6, <2>1, GotoTyped DEF Cli, TypeOK, chip, IFAfterCli
<1>7. CASE Select
  <2>1. [Top EXCEPT !.pc = "data"] \in Program
    BY <1>1 DEF Program
  <2> QED
    BY <1>7, <2>1, GotoTyped DEF Select, TypeOK, chip
<1>8. CASE Data
  <2>1. [Top EXCEPT !.pc = "sti"] \in Program /\ Top.arg \in Frequencies
    BY <1>1 DEF Program
  <2> QED
    BY <1>8, <2>1, GotoTyped DEF Data, TypeOK
<1>9. CASE Sti
  <2>1. [Top EXCEPT !.pc = IF Top.reads THEN "spin" ELSE "user"] \in Program
    BY <1>1 DEF Program
  <2> QED
    BY <1>9, <2>1, GotoTyped DEF Sti, TypeOK, chip
<1>10. CASE Spin
  <2>1. [Top EXCEPT !.pc = "clear"] \in Program
    BY <1>1 DEF Program
  <2> QED
    BY <1>10, <2>1, GotoTyped DEF Spin, TypeOK, chip
<1>11. CASE Clear
  <2>1. [Top EXCEPT !.pc = "user", !.paced = FALSE] \in Program
    BY <1>1 DEF Program
  <2> QED
    BY <1>11, <2>1, GotoTyped DEF Clear, TypeOK, chip, FlagAfterRead
<1>12. CASE Launch
  <2>1. stack' \in Seq(Program) /\ Len(stack') \in 1..MaxDepth
    BY <1>12, NewProgramTyped, RtcAssumption DEF Launch, TypeOK
  <2> QED
    BY <1>12, <2>1 DEF Launch, TypeOK, chip
<1>13. CASE End
  <2>1. stack' \in Seq(Program) /\ Len(stack') \in 1..MaxDepth
    BY <1>13, FrontFacts, RtcAssumption DEF End, TypeOK
  <2> QED
    BY <1>13, <2>1 DEF End, TypeOK, chip
<1>14. CASE UNCHANGED vars
  BY <1>14 DEF vars, chip, TypeOK
<1> QED
  BY <1>2, <1>3, <1>4, <1>5, <1>6, <1>7, <1>8, <1>9, <1>10, <1>11, <1>12, <1>13, <1>14
  DEF Next, Kernel, SetFrequency

\* The variables hold what the code, the chip and the controller can put there.
THEOREM TypeCorrect == Spec => []TypeOK
BY InitTyped, StepTyped, PTL DEF Spec

(***************************************************************************)
(* Pacing.                                                                 *)
(***************************************************************************)
LEMMA InitPaced == Init => PacingInvariant
BY DEF Init, PacingInvariant, IndexHeld, At, Top, NewProgram, Critical

\* A step that moves the running program from outside the critical section to
\* outside it, does not set the flag, and reaches "clear" only when paced.
LEMMA StepPaced == TypeOK /\ PacingInvariant /\ [Next]_vars => PacingInvariant'
<1> SUFFICES ASSUME TypeOK, PacingInvariant, [Next]_vars PROVE PacingInvariant'
  OBVIOUS
<1> DEFINE L == Len(stack)
<1>1. /\ stack \in Seq(Program) /\ L \in Nat /\ L >= 1 /\ L \in 1..L
      /\ \A n \in 1..L : stack[n] \in Program
      /\ Top = stack[L] /\ Top \in Program
  BY TopTyped, RtcAssumption DEF TypeOK, Top
<1>2. /\ Top.pc \in Critical => ~int_on
      /\ \A n \in 1..(L - 1) : stack[n].pc \notin Critical
      /\ \A n \in 1..L : interrupt_flag = 1 \/ stack[n].pc = "clear" => stack[n].paced
      /\ Top.pc = "data" => selected = "A" /\ ~int_on
  BY DEF PacingInvariant, IndexHeld, At
\* Where the running program goes.
<1>3. ASSUME NEW f \in Program, Goto(f),
             f.pc \in Critical => ~int_on',
             f.pc = "data" => selected' = "A" /\ ~int_on',
             interrupt_flag' = 1 \/ f.pc = "clear" => f.paced,
             interrupt_flag' = 1 => interrupt_flag = 1
      PROVE  PacingInvariant'
  <2>1. Len(stack') = L /\ stack'[L] = f /\ \A n \in 1..(L - 1) : stack'[n] = stack[n]
    BY <1>1, <1>3 DEF Goto
  <2>2. Top' = f
    BY <2>1 DEF Top
  <2>3. \A n \in 1..L : n = L \/ n \in 1..(L - 1)
    BY <1>1
  <2> QED
    BY <1>1, <1>2, <1>3, <2>1, <2>2, <2>3 DEF PacingInvariant, IndexHeld, At
<1>4. CASE Tick
  BY <1>1, <1>2, <1>4 DEF Tick, PacingInvariant, IndexHeld, At, Top
<1>5. CASE rtc_handler
  <2>1. /\ Len(stack') = L
        /\ \A n \in 1..L : stack'[n].pc = stack[n].pc /\ stack'[n].paced = TRUE
    BY <1>5, HandlerFacts DEF rtc_handler
  <2>2. Top'.pc = Top.pc
    BY <1>1, <2>1 DEF Top
  <2>3. int_on /\ Top.pc \notin Critical /\ int_on' = int_on
    BY <1>2, <1>5 DEF rtc_handler
  <2> QED
    BY <1>1, <1>2, <2>1, <2>2, <2>3 DEF PacingInvariant, IndexHeld, At, Critical
<1>6. CASE read_rtc
  <2> DEFINE f == [Top EXCEPT !.pc = "set", !.reads = TRUE, !.arg = ReadFrequency,
                              !.ticked = FALSE]
  <2>1. f \in Program /\ f.pc = "set" /\ f.paced = Top.paced
    BY <1>1, ReadFrequencyTyped DEF Program
  <2>2. Goto(f) /\ interrupt_flag' = interrupt_flag
    BY <1>6 DEF read_rtc
  <2> QED
    BY <1>1, <1>2, <1>3, <2>1, <2>2 DEF Critical
<1>7. ASSUME NEW r \in Requests, write_rtc(r) PROVE PacingInvariant'
  <2> DEFINE f == [Top EXCEPT !.pc = "set", !.reads = FALSE, !.arg = r]
  <2>1. f \in Program /\ f.pc = "set" /\ f.paced = Top.paced
    BY <1>1, <1>7 DEF Program, write_rtc
  <2>2. Goto(f) /\ interrupt_flag' = interrupt_flag
    BY <1>7 DEF write_rtc
  <2> QED
    BY <1>1, <1>2, <1>3, <2>1, <2>2 DEF Critical
<1>8. CASE Cli
  <2> DEFINE f == [Top EXCEPT !.pc = "select"]
  <2>1. f \in Program /\ f.pc = "select" /\ f.paced = Top.paced
    BY <1>1 DEF Program
  <2>2. Goto(f) /\ interrupt_flag' = interrupt_flag /\ int_on' = FALSE
    BY <1>8 DEF Cli, IFAfterCli
  <2> QED
    BY <1>1, <1>2, <1>3, <2>1, <2>2
<1>9. CASE Select
  <2> DEFINE f == [Top EXCEPT !.pc = "data"]
  <2>1. f \in Program /\ f.pc = "data" /\ f.paced = Top.paced
    BY <1>1 DEF Program
  <2>2. /\ Goto(f) /\ interrupt_flag' = interrupt_flag
        /\ selected' = "A" /\ int_on' = int_on /\ ~int_on
    BY <1>2, <1>9 DEF Select, At, Critical
  <2> QED
    BY <1>1, <1>2, <1>3, <2>1, <2>2
<1>10. CASE Data
  <2> DEFINE f == [Top EXCEPT !.pc = "sti"]
  <2>1. f \in Program /\ f.pc = "sti" /\ f.paced = Top.paced
    BY <1>1 DEF Program
  <2>2. Goto(f) /\ interrupt_flag' = interrupt_flag /\ int_on' = int_on /\ ~int_on
    BY <1>2, <1>10 DEF Data, At
  <2> QED
    BY <1>1, <1>2, <1>3, <2>1, <2>2
<1>11. CASE Sti
  <2> DEFINE f == [Top EXCEPT !.pc = IF Top.reads THEN "spin" ELSE "user"]
  <2>1. f \in Program /\ f.pc \in {"spin", "user"} /\ f.paced = Top.paced
    BY <1>1 DEF Program
  <2>2. Goto(f) /\ interrupt_flag' = interrupt_flag
    BY <1>11 DEF Sti
  <2> QED
    BY <1>1, <1>2, <1>3, <2>1, <2>2 DEF Critical
<1>12. CASE Spin
  <2> DEFINE f == [Top EXCEPT !.pc = "clear"]
  <2>1. f \in Program /\ f.pc = "clear" /\ f.paced = Top.paced
    BY <1>1 DEF Program
  <2>2. Goto(f) /\ interrupt_flag' = interrupt_flag /\ interrupt_flag = 1
    BY <1>12 DEF Spin
  <2>3. Top.paced
    BY <1>1, <1>2, <2>2
  <2> QED
    BY <1>3, <2>1, <2>2, <2>3 DEF Critical
<1>13. CASE Clear
  <2> DEFINE f == [Top EXCEPT !.pc = "user", !.paced = FALSE]
  <2>1. f \in Program /\ f.pc = "user"
    BY <1>1 DEF Program
  <2>2. Goto(f) /\ interrupt_flag' # 1
    BY <1>13 DEF Clear, FlagAfterRead
  <2> QED
    BY <1>3, <2>1, <2>2 DEF Critical
<1>14. CASE Launch
  <2>1. /\ Len(stack') = L + 1 /\ stack'[L + 1] = NewProgram
        /\ \A n \in 1..L : stack'[n] = stack[n]
        /\ int_on /\ interrupt_flag' = interrupt_flag
    BY <1>1, <1>14 DEF Launch
  <2>2. Top' = NewProgram /\ NewProgram.pc = "user" /\ NewProgram.paced = TRUE
    BY <2>1 DEF Top, NewProgram
  <2>3. \A n \in 1..L : stack[n].pc \notin Critical
    BY <1>1, <1>2, <2>1
  <2>4. \A n \in 1..(L + 1) : n = L + 1 \/ n \in 1..L
    BY <1>1
  <2>5. (L + 1) - 1 = L
    BY <1>1
  <2> QED
    BY <1>1, <1>2, <2>1, <2>2, <2>3, <2>4, <2>5 DEF PacingInvariant, IndexHeld, At, Critical
<1>15. CASE End
  <2>1. /\ Len(stack) > 1 /\ Len(stack') = L - 1
        /\ \A n \in 1..(L - 1) : stack'[n] = stack[n]
        /\ interrupt_flag' = interrupt_flag
    BY <1>15, FrontFacts DEF End
  <2>2. Top' = stack[L - 1] /\ L - 1 \in 1..(L - 1)
    BY <1>1, <2>1 DEF Top
  <2>3. Top'.pc \notin Critical
    BY <1>2, <2>2
  <2>4. \A n \in 1..((L - 1) - 1) : n \in 1..(L - 1)
    BY <1>1
  <2>5. \A n \in 1..(L - 1) : n \in 1..L
    BY <1>1
  <2> QED
    BY <1>2, <2>1, <2>3, <2>4, <2>5 DEF PacingInvariant, IndexHeld, At, Critical
<1>16. CASE UNCHANGED vars
  BY <1>2, <1>16 DEF vars, PacingInvariant, IndexHeld, At, Top
<1> QED
  BY <1>4, <1>5, <1>6, <1>7, <1>8, <1>9, <1>10, <1>11, <1>12, <1>13, <1>14, <1>15, <1>16
  DEF Next, Kernel, SetFrequency

\* The pacing invariant always holds.
LEMMA PacedAlways == Spec => []PacingInvariant
BY InitTyped, StepTyped, InitPaced, StepPaced, PTL DEF Spec

\* The new rate always goes to register A, inside one critical section, however
\* many programs and ticks interleave.
THEOREM IndexTheorem == Spec => []IndexHeld
<1>1. PacingInvariant => IndexHeld
  BY DEF PacingInvariant
<1> QED
  BY <1>1, PacedAlways, PTL

\* Every read of every program returns on a tick of its own.
THEOREM PacingTheorem == Spec => []PacedReads
<1>1. TypeOK /\ PacingInvariant => PacedReads
  BY TopTyped DEF PacingInvariant, PacedReads, At, Top
<1> QED
  BY <1>1, InitTyped, StepTyped, PacedAlways, PTL DEF Spec
=============================================================================
