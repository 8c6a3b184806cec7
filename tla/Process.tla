------------------------------- MODULE Process -------------------------------
(***************************************************************************)
(* Processes of the kernel: the execute and halt system calls, the         *)
(* exception path into halt, the descriptor table of a PCB and the launch  *)
(* of a shell by a terminal switch (syscall.c, exceptions.c, terminal.c).  *)
(*                                                                         *)
(* There is no scheduler (scheduler.c is disabled): the processor runs one *)
(* program, every other one waits inside a call of syscall_execute.  Those *)
(* suspended calls live on the kernel stacks, so the model keeps, beside   *)
(* the kernel's own variables,                                             *)
(*   chain   the program activations in progress, the running one last,    *)
(*   frames  the kernel stack each suspended activation's call lies on.    *)
(* The int 0x80 and keyboard gates clear IF, and none of these handlers    *)
(* sets it before it is done, so each handler is one step.  (An exception  *)
(* is a trap gate: a terminal switch that arrives between an exception and *)
(* the end of its halt is not modelled here; the README says so.)          *)
(***************************************************************************)
EXTENDS Integers, Sequences, FiniteSets

CONSTANTS MaxPid,      \* MAX_PID, 6 in the code
          NumTerms,    \* MAX_TERMINALS, 3 in the code
          NumFd,       \* MAX_NUM_FD, 8 in the code
          Programs,    \* names of the ELF files in the file system
          Shell,       \* the name "shell"
          Launchers,   \* programs that call execute
          Faulty,      \* programs that can raise an exception
          BadNames,    \* command names execute cannot load
          Statuses,    \* arguments programs give halt
          MaxLaunch    \* commands a program other than the root shell starts

ASSUME SizesAssumption ==
  /\ MaxPid \in Nat \ {0}
  /\ NumTerms \in Nat \ {0}
  /\ NumFd \in Nat /\ NumFd >= 2
  /\ MaxLaunch \in Nat

ASSUME ProgramsAssumption ==
  /\ Shell \in Programs
  /\ Launchers \subseteq Programs
  /\ Faulty \subseteq Programs
  /\ Statuses \subseteq 0..255

VARIABLES pid_array,             \* the slots marked occupied
          pid, parent_pid,       \* the kernel's globals
          pcb,                   \* the PCB of each slot
          image,                 \* the program in each slot's 4 MB page
          page,                  \* slot whose page the user mapping shows
          tss,                   \* slot whose kernel stack tss.esp0 points to
          globalflag,
          curr_active_terminal,
          opened,                \* terminals with process_active other than -1
          chain, frames,         \* activations and suspended calls, see above
          kids,                  \* commands the activation in a slot has started
          wild,                  \* halt jumped to a call that is not suspended
          ret                    \* what execute last returned, and why

kernelVars == <<pid_array, pid, parent_pid, pcb, page, tss, globalflag>>
userVars   == <<image, chain, frames, kids, wild>>
termVars   == <<curr_active_terminal, opened>>
vars == <<kernelVars, userVars, termVars, ret>>

Slots     == 0..(MaxPid - 1)
Terminals == 0..(NumTerms - 1)
NoProgram == ""

Running == chain[Len(chain)]

(***************************************************************************)
(* The parts of execute and halt.  RootParent, StayOnOldStack, PcbAsStack- *)
(* Top, KeepParent, KeepFlags, ForgetException, NoRelease, ReleaseParent   *)
(* and GrandParent are slips the code does not make: each stands before    *)
(* the definition it would spoil and is used to see that a property below  *)
(* would notice it.                                                        *)
(***************************************************************************)
Free == Slots \ pid_array

\* Slot s is the one the loop over pid_array takes.
FirstFree(s) == s \in Free /\ \A t \in Free : s <= t

RootParent(s) == 0

\* The parent a new process in slot s is recorded with.
RecordedParent(s) == IF s = 0 THEN 0 ELSE parent_pid

\* The PCB execute leaves in slot s: descriptors 0 and 1 are set up, the
\* others keep what the slot's last process left in them.
NewPcb(s, depth) == [pid    |-> s,
                     parent |-> RecordedParent(s),
                     esp    |-> depth,
                     fds    |-> pcb[s].fds \cup {0, 1}]

StayOnOldStack(s) == tss
PcbAsStackTop(s) == s + 1

\* The slot whose kernel stack execute puts into tss.esp0.
StackOf(s) == s

KeepParent(s) == parent_pid

\* parent_pid once a process in slot s is being started.
ParentAfterStart(s) == IF s = 0 THEN parent_pid ELSE s

\* execute from the PCB's allocation to the iret: program p runs in slot s.
\* The call it was made from lies depth calls deep in the kernel stacks.
Enter(s, p, depth) ==
  /\ pid_array' = pid_array \cup {s}
  /\ pid' = s
  /\ parent_pid' = ParentAfterStart(s)
  /\ pcb' = [pcb EXCEPT ![s] = NewPcb(s, depth)]
  /\ page' = s
  /\ tss' = StackOf(s)
  /\ image' = [image EXCEPT ![s] = p]

\* Suspend the running activation in a call of execute and run p in slot s.
Suspend(s, p) ==
  /\ Enter(s, p, Len(frames) + 1)
  /\ frames' = Append(frames, tss)
  /\ chain' = Append(chain, [slot |-> s, prog |-> p])
  /\ kids' = [k \in Slots |->
                IF k = s THEN 0
                ELSE IF k = Running.slot /\ Len(chain) > 1 THEN kids[k] + 1
                ELSE kids[k]]

\* Bounds the commands started by programs other than the root shell.
MayLaunch == Len(chain) = 1 \/ kids[Running.slot] < MaxLaunch

KeepFlags == pcb[pid].fds

\* The open descriptors halt leaves in the PCB: it clears every flag.
FlagsAfterHalt == {}

(***************************************************************************)
(* init_terminal runs the first shell: slot 0, no caller.  Memory is taken *)
(* to be zero at boot: nothing in the kernel clears the descriptors from 2 *)
(* on of a PCB before its first use (syscall.c:155-164).                   *)
(***************************************************************************)
Init ==
  /\ pid_array = {0}
  /\ pid = 0 /\ parent_pid = 0
  /\ pcb = [s \in Slots |-> [pid |-> 0, parent |-> 0, esp |-> 0,
                             fds |-> IF s = 0 THEN {0, 1} ELSE {}]]
  /\ image = [s \in Slots |-> IF s = 0 THEN Shell ELSE NoProgram]
  /\ page = 0 /\ tss = 0
  /\ globalflag = 0
  /\ curr_active_terminal = 0 /\ opened = {0}
  /\ chain = <<[slot |-> 0, prog |-> Shell]>> /\ frames = <<>>
  /\ kids = [s \in Slots |-> 0]
  /\ wild = FALSE
  /\ ret = [cause |-> "none", status |-> 0, value |-> 0]

CanExecute == ~wild /\ Running.prog \in Launchers /\ MayLaunch

\* execute of a program that exists, with a slot free.
Execute(p) ==
  /\ CanExecute
  /\ \E s \in Slots : FirstFree(s) /\ Suspend(s, p)
  /\ opened' = opened \cup {curr_active_terminal}
  /\ UNCHANGED <<globalflag, curr_active_terminal, wild, ret>>

\* execute of a name that cannot be loaded: the slot is given back, but pid,
\* parent_pid, process_active and the PCB keep what was written to them.
ExecuteBad ==
  /\ CanExecute
  /\ BadNames # {}
  /\ \E s \in Slots :
       /\ FirstFree(s)
       /\ pid' = s
       /\ parent_pid' = ParentAfterStart(s)
       /\ pcb' = [pcb EXCEPT ![s] = NewPcb(s, pcb[s].esp)]
  /\ opened' = opened \cup {curr_active_terminal}
  /\ ret' = [cause |-> "bad name", status |-> 0, value |-> -1]
  /\ UNCHANGED <<pid_array, page, tss, globalflag, userVars, curr_active_terminal>>

\* execute with all slots taken prints a message and returns 0.
ExecuteFull ==
  /\ CanExecute
  /\ Free = {}
  /\ ret' = [cause |-> "full", status |-> 0, value |-> 0]
  /\ UNCHANGED <<kernelVars, userVars, termVars>>

ForgetException(status, flag) == IF status # 0 THEN 1 ELSE 0

\* exception_flag as halt computes it: status && 0xF is 0 or 1, then 256
\* replaces a 0 when the exception handler has set globalflag.
HaltValue(status, flag) ==
  IF status = 0 /\ flag = 1 THEN 256 ELSE IF status # 0 THEN 1 ELSE 0

NoRelease(s) == pid_array
ReleaseParent(s) == pid_array \ {pcb[s].parent}

SlotsAfterHalt(s) == pid_array \ {s}

\* The global flag once halt has run.
FlagAfter(status, flag) == IF status = 0 THEN 0 ELSE flag

GrandParent(s) == pcb[pcb[s].parent].parent

\* The slot halt makes current: the parent of the process in slot s.
ParentOf(s) == pcb[s].parent

\* halt of a process with a parent: the parent becomes current, its page and
\* kernel stack are installed, and the saved esp of the PCB is jumped to.
\* If that is not the esp of a suspended call, what runs next is arbitrary.
HaltChild(cause, status, flag) ==
  LET p == ParentOf(pid)
      d == pcb[pid].esp
  IN /\ pid_array' = SlotsAfterHalt(pid)
     /\ pid' = p
     /\ parent_pid' = pcb[p].parent
     /\ pcb' = [pcb EXCEPT ![pid].fds = FlagsAfterHalt]
     /\ page' = p
     /\ tss' = p
     /\ globalflag' = FlagAfter(status, flag)
     /\ ret' = [cause |-> cause, status |-> status,
                value |-> HaltValue(status, flag)]
     /\ IF d \in 1..Len(frames)
        THEN /\ frames' = SubSeq(frames, 1, d - 1)
             /\ chain' = SubSeq(chain, 1, d)
             /\ wild' = FALSE
        ELSE /\ wild' = TRUE
             /\ UNCHANGED <<frames, chain>>
     /\ UNCHANGED <<image, kids, termVars>>

\* halt of the process in slot 0: a fresh shell is executed in the same slot,
\* from a call that nothing will return to (depth 0).  globalflag is kept.
HaltRoot(flag) ==
  /\ pid_array' = pid_array \cup {0}
  /\ pid' = 0
  /\ pcb' = [pcb EXCEPT ![0] = [pid |-> 0, parent |-> 0, esp |-> 0,
                                fds |-> FlagsAfterHalt \cup {0, 1}]]
  /\ page' = 0
  /\ tss' = 0
  /\ image' = [image EXCEPT ![0] = Shell]
  /\ chain' = [chain EXCEPT ![Len(chain)] = [slot |-> 0, prog |-> Shell]]
  /\ globalflag' = flag
  /\ opened' = opened \cup {curr_active_terminal}
  /\ kids' = [kids EXCEPT ![0] = 0]
  /\ UNCHANGED <<parent_pid, frames, wild, curr_active_terminal, ret>>

HaltWith(cause, status, flag) ==
  IF pcb[pid].pid = 0 THEN HaltRoot(flag) ELSE HaltChild(cause, status, flag)

\* The halt system call.
Halt(status) == ~wild /\ HaltWith("halt", status, globalflag)

\* An exception in the running program: exceptions() sets globalflag and
\* halts the program with status 0.
Exception ==
  /\ ~wild
  /\ Running.prog \in Faulty
  /\ HaltWith("exception", 0, 1)

(***************************************************************************)
(* Alt-Fn: terminal_swap, called by the keyboard interrupt.                *)
(***************************************************************************)
\* The terminal has a shell: only the screen changes hands.
SwapToOpened(t) ==
  /\ ~wild
  /\ t # curr_active_terminal
  /\ t \in opened
  /\ curr_active_terminal' = t
  /\ UNCHANGED <<kernelVars, userVars, opened, ret>>

\* First visit: the interrupted program waits in the interrupt handler until
\* the new shell halts.
SwapToNew(t) ==
  /\ ~wild
  /\ t # curr_active_terminal
  /\ t \notin opened
  /\ MayLaunch
  /\ \E s \in Slots : FirstFree(s) /\ Suspend(s, Shell)
  /\ curr_active_terminal' = t
  /\ opened' = opened \cup {t}
  /\ UNCHANGED <<globalflag, wild, ret>>

\* First visit with all slots taken: the message is printed on the new screen
\* and the interrupted program goes on, with no shell for the terminal.
SwapWhenFull(t) ==
  /\ ~wild
  /\ t # curr_active_terminal
  /\ t \notin opened
  /\ Free = {}
  /\ curr_active_terminal' = t
  /\ UNCHANGED <<kernelVars, userVars, opened, ret>>

(***************************************************************************)
(* open and close, as far as they decide which descriptors are in use.     *)
(***************************************************************************)
Open ==
  /\ ~wild
  /\ \E fd \in 2..(NumFd - 1) :
       /\ fd \notin pcb[pid].fds
       /\ \A e \in 2..(fd - 1) : e \in pcb[pid].fds
       /\ pcb' = [pcb EXCEPT ![pid].fds = @ \cup {fd}]
  /\ UNCHANGED <<pid_array, pid, parent_pid, page, tss, globalflag, userVars,
                 termVars, ret>>

Close ==
  /\ ~wild
  /\ \E fd \in 2..(NumFd - 1) :
       /\ fd \in pcb[pid].fds
       /\ pcb' = [pcb EXCEPT ![pid].fds = @ \ {fd}]
  /\ UNCHANGED <<pid_array, pid, parent_pid, page, tss, globalflag, userVars,
                 termVars, ret>>

Next ==
  \/ \E p \in Programs : Execute(p)
  \/ ExecuteBad
  \/ ExecuteFull
  \/ \E status \in Statuses : Halt(status)
  \/ Exception
  \/ \E t \in Terminals : SwapToOpened(t) \/ SwapToNew(t) \/ SwapWhenFull(t)
  \/ Open
  \/ Close

Spec == Init /\ [][Next]_vars

(***************************************************************************)
(* Properties.                                                             *)
(***************************************************************************)
Pcb == [pid : Slots, parent : Slots, esp : Nat, fds : SUBSET (0..(NumFd - 1))]

Activation == [slot : Slots, prog : Programs]

Result == [cause  : {"none", "halt", "exception", "bad name", "full"},
           status : 0..255,
           value  : {-1, 0, 1, 256}]

\* The variables hold what the code can put into them: slots, terminals,
\* descriptor sets, a chain of activations and the stacks of their calls.
TypeOK ==
  /\ pid_array \subseteq Slots
  /\ pid \in Slots /\ parent_pid \in Slots /\ page \in Slots /\ tss \in Slots
  /\ pcb \in [Slots -> Pcb]
  /\ image \in [Slots -> Programs \cup {NoProgram}]
  /\ globalflag \in {0, 1}
  /\ curr_active_terminal \in Terminals /\ opened \subseteq Terminals
  /\ chain \in Seq(Activation) /\ frames \in Seq(Slots)
  /\ kids \in [Slots -> Nat]
  /\ wild \in BOOLEAN
  /\ ret \in Result

\* Whatever programs do, slot 0 is never given away and its PCB stays the one
\* halt recognises as the root shell's; the current PCB is one execute set up;
\* and the user page and the kernel stack in the TSS belong to one slot.
RootSlotHeld ==
  /\ 0 \in pid_array
  /\ pcb[pid].pid = pid
  /\ pcb[0].pid = 0 /\ pcb[0].parent = 0
  /\ page = tss

\* "restore parent paging", "set TSS to parent kernel stack" (syscall.c:80-86):
\* the running program runs in the page it was loaded into, with the kernel
\* stack of its own slot.
ParentRestored == ~wild => page = Running.slot /\ tss = Running.slot

\* The program on the processor is the one the kernel acts for: its calls use
\* its own PCB, its page still holds its image, and no halt has jumped to a
\* call that is not suspended.
RunsAsItself ==
  /\ ~wild
  /\ pid = Running.slot
  /\ ParentRestored
  /\ image[page] = Running.prog

\* "swap to parent stack and ret from execute" (syscall.c:88): when a call of
\* execute returns, it is the most recent one, and its caller is current.
ReturnsToCaller ==
  [][Len(chain') < Len(chain) =>
       /\ chain' = SubSeq(chain, 1, Len(chain) - 1)
       /\ pid' = chain'[Len(chain')].slot]_vars

\* No system call of the running program is made on a kernel stack that holds
\* the call of a suspended program: it would overwrite the return frame.
KernelStacksIntact == \A i \in 1..Len(frames) : frames[i] # tss

\* pid_array says exactly which slots activations in progress occupy, and no
\* two activations share one: no slot leaks, none is handed out twice.
SlotsExact ==
  /\ pid_array = {chain[i].slot : i \in 1..Len(chain)}
  /\ \A i, j \in 1..Len(chain) : chain[i].slot = chain[j].slot => i = j

\* What execute reports: 256 exactly for an exception, -1 exactly for a command
\* that cannot be loaded, 1 exactly for a program that gave halt a status other than
\* 0, whichever (syscall.c:89).  0 tells less: a command that had no slot gives it as
\* well as a program that halted with 0, although the comment of execute has "0 - if
\* halt system call" and "-1 - if failure" (syscall.c:119-120).
EndsToldApart ==
  /\ ret.value = 256 <=> ret.cause = "exception"
  /\ ret.value = -1 <=> ret.cause = "bad name"
  /\ ret.value = 1 <=> ret.cause = "halt" /\ ret.status # 0
  /\ ret.value = 0 <=> ret.cause \in {"none", "full"} \/ (ret.cause = "halt" /\ ret.status = 0)

\* "if terminal is never opened yet, we save current terminal, restore new terminal
\* vidmem, run shell on it" (terminal.c:161): the terminal that is shown has had a
\* shell, so there is someone to read what the user types.
ShownHasShell == curr_active_terminal \in opened

\* A slot that may be handed out has no open descriptor left in its PCB:
\* execute sets up only 0 and 1 and would pass the others on.
NoLeftoverDescriptors == \A s \in Free : pcb[s].fds = {}

(***************************************************************************)
(* The kernel's own record of the calls: from pid along parent_pid to slot *)
(* 0.  Ancestor[n] is the slot n steps up.                                 *)
(***************************************************************************)
Ancestor[n \in 0..MaxPid] == IF n = 0 THEN pid ELSE pcb[Ancestor[n - 1]].parent

Depth == CHOOSE n \in 0..MaxPid : /\ Ancestor[n] = 0
                                  /\ \A m \in 0..(n - 1) : Ancestor[m] # 0

RecordedCalls ==
  IF \E n \in 0..MaxPid : Ancestor[n] = 0
  THEN [i \in 1..(Depth + 1) |->
          LET s == Ancestor[Depth + 1 - i] IN [slot |-> s, prog |-> image[s]]]
  ELSE <<>>

\* The parent links and page contents implement a stack of calls whose top is
\* the program the processor really executes.
Calls == INSTANCE CallStack WITH Root <- 0, calls <- RecordedCalls,
                                 running <- Running
ImplementsCallStack == Calls!Spec

(***************************************************************************)
(* What makes the calls come back in order, when it does: commands load,   *)
(* and a shell other than the root one starts at most one command.         *)
(***************************************************************************)
Disciplined == BadNames = {} /\ MaxLaunch <= 1

Suspended == 1..Len(frames)

\* Each suspended activation left its call on its own stack, and the process
\* above it names it as parent and knows where that call lies.
CallsRecorded ==
  \A i \in Suspended :
    /\ frames[i] = chain[i].slot
    /\ pcb[chain[i + 1].slot].parent = chain[i].slot
    /\ pcb[chain[i + 1].slot].esp = i

\* Each activation's page still holds its program and its PCB its number.
ActivationsKept ==
  \A i \in 1..Len(chain) : /\ image[chain[i].slot] = chain[i].prog
                           /\ pcb[chain[i].slot].pid = chain[i].slot

RootIsShell == chain[1] = [slot |-> 0, prog |-> Shell]

\* parent_pid is right for the next launch: the root shell's slot, or that of a
\* shell that has not started a command yet.
ParentPidReady ==
  /\ Len(chain) = 1 => parent_pid = 0
  /\ Len(chain) > 1 /\ kids[Running.slot] = 0 => parent_pid = Running.slot

KidsCounted == \A i \in Suspended : i > 1 => kids[chain[i].slot] > 0

\* The records of all calls in progress are in order: whichever program halts
\* next, its caller, the caller's page and the caller's stack are found.
CallInvariant ==
  /\ RunsAsItself
  /\ SlotsExact
  /\ CallsRecorded
  /\ ActivationsKept
  /\ RootIsShell
  /\ ParentPidReady
  /\ KidsCounted
=============================================================================
