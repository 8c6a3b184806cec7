----------------------------- MODULE CommandLine -----------------------------
(***************************************************************************)
(* How a command becomes the name of a program and its arguments: the      *)
(* parsing in syscall_execute, syscall_getargs, the numbers programs print *)
(* (itoa), and the same parsing in the emulation of the calls that lets    *)
(* the programs run under Linux.  A string is the sequence of its          *)
(* characters without the NUL.  Names are shorter than exe_name.           *)
(***************************************************************************)
EXTENDS Integers, Sequences, SequencesExt, FiniteSetsExt

Blank == " "
NewLine == "NL"

\* The first position of s from k on whose character is not in C, or Len(s) + 1.
Past(s, k, C) == Min({j \in k..Len(s) : s[j] \notin C} \cup {Len(s) + 1})
\* The first position from k on whose character is in C, or Len(s) + 1.
UpTo(s, k, C) == Min({j \in k..Len(s) : s[j] \in C} \cup {Len(s) + 1})

\* The numbers of a set from the least up.
Ascending(S) == [n \in 1..Cardinality(S) |->
                   CHOOSE x \in S : Cardinality({y \in S : y <= x}) = n]

\* exe_name: blanks in front are skipped, the first blank or newline ends it.
NameStart(command) == Past(command, 1, {Blank})
NameEnd(command)   == UpTo(command, NameStart(command), {Blank, NewLine})
exe_name(command)  == SubSeq(command, NameStart(command), NameEnd(command) - 1)

\* args: from the next character that is no blank; j is still 0 when a newline
\* ended the name, and the arguments are then the whole command.
args_of(command) ==
  LET e == NameEnd(command)
      j == IF e <= Len(command) /\ command[e] = NewLine THEN 1 ELSE Past(command, e, {Blank})
  IN  SubSeq(command, j, Len(command))

\* getargs looks at nbytes characters of args, and at the one after: it copies what
\* is no blank, and one blank where blanks follow.
AllBlanks(args, k) == <<args[k]>>
Copied(args, k) == IF args[k] = Blank THEN <<>>
                   ELSE IF k < Len(args) /\ args[k + 1] = Blank THEN <<args[k], Blank>>
                   ELSE <<args[k]>>
syscall_getargs(args, nbytes) ==
  FlattenSeq([k \in 1..Min({nbytes, Len(args)}) |-> Copied(args, k)])

(***************************************************************************)
(* The emulation (ece391emulate.c): words, joined again by one blank.  The *)
(* first word starts where the command does, even if a blank stands there. *)
(***************************************************************************)
WordStarts(command) ==
  {1} \cup {k \in 2..Len(command) : command[k] \notin {Blank, NewLine}
                                    /\ command[k - 1] \in {Blank, NewLine}}
ece391_execute(command) ==
  LET starts == Ascending(WordStarts(command))
  IN  [w \in 1..Len(starts) |->
         SubSeq(command, starts[w], UpTo(command, starts[w], {Blank, NewLine}) - 1)]
ece391_getargs(words) ==
  FlattenSeq([w \in 1..(Len(words) - 1) |->
                IF w = 1 THEN words[2] ELSE <<Blank>> \o words[w + 1]])

(***************************************************************************)
(* Numbers: digits from the lowest place up, then reversed.                *)
(***************************************************************************)
lookup == <<"0", "1", "2", "3", "4", "5", "6", "7", "8", "9", "A", "B", "C", "D", "E", "F">>
LeftAsIs(s) == s
strrev(s) == Reverse(s)
itoa(value, radix) ==
  LET places[newval \in Nat] ==
        IF newval = 0 THEN <<>>
        ELSE <<lookup[(newval % radix) + 1]>> \o places[newval \div radix]
  IN  IF value = 0 THEN <<"0">> ELSE strrev(places[value])

\* What a numeral stands for.
Value(digits, radix) ==
  LET upTo[k \in 0..Len(digits)] ==
        IF k = 0 THEN 0
        ELSE radix * upTo[k - 1] + (CHOOSE d \in 0..15 : lookup[d + 1] = digits[k])
  IN  upTo[Len(digits)]
=============================================================================
