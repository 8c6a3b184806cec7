------------------------------ MODULE CallStack ------------------------------
(***************************************************************************)
(* What the execute and halt system calls promise, without process         *)
(* numbers, PCBs, pages or kernel stacks: running programs form a stack of *)
(* calls.  execute suspends the running program and runs another one in a  *)
(* slot no suspended program is using; halt gives the processor back to    *)
(* the program that called execute, in that program's own slot.  The       *)
(* program at the bottom is the root shell: when it halts it is started    *)
(* afresh, which leaves the stack as it was.                               *)
(***************************************************************************)
EXTENDS Integers, Sequences

CONSTANTS Slots,      \* places a program can be loaded into
          Programs,   \* programs that can be loaded
          Shell,      \* the program the system starts with
          Root        \* the slot of the root shell

VARIABLES calls,      \* the calls in progress, the root shell first
          running     \* the call whose program the processor executes

vars == <<calls, running>>

Call == [slot : Slots, prog : Programs]

InUse == {calls[i].slot : i \in 1..Len(calls)}

Init == /\ calls = <<[slot |-> Root, prog |-> Shell]>>
        /\ running = [slot |-> Root, prog |-> Shell]

\* The running program (or the user, for a new terminal) starts another one.
Start == \E c \in Call :
           /\ c.slot \notin InUse
           /\ calls' = Append(calls, c)
           /\ running' = c

\* The running program ends; its caller continues.
Return == /\ Len(calls) > 1
          /\ calls' = SubSeq(calls, 1, Len(calls) - 1)
          /\ running' = calls[Len(calls) - 1]

Next == Start \/ Return

Spec == Init /\ [][Next]_vars
=============================================================================
