--------------------------- MODULE Process_proofs ---------------------------
(***************************************************************************)
(* Proofs about Process, for every number of slots, terminals and          *)
(* descriptors and every set of programs.                                  *)
(***************************************************************************)
EXTENDS Process, SequenceTheorems, FiniteSetTheorems, NumberFacts, TLAPS

\* The kinds of the variables, with the one relation between lengths they need:
\* all activations but the running one wait in a call.
Typed == TypeOK /\ Len(chain) = Len(frames) + 1

\* The slot of the first shell.
LEMMA ZeroIsASlot == 0 \in Slots
BY SizesAssumption DEF Slots

\* The types hold after boot.
LEMMA InitTyped == Init => Typed
<1> SUFFICES ASSUME Init PROVE Typed
  OBVIOUS
<1>1. /\ pid_array \subseteq Slots
      /\ pid \in Slots /\ parent_pid \in Slots /\ page \in Slots /\ tss \in Slots
      /\ image \in [Slots -> Programs \cup {NoProgram}]
      /\ globalflag \in {0, 1}
      /\ kids \in [Slots -> Nat]
      /\ wild \in BOOLEAN
  BY ZeroIsASlot, ProgramsAssumption DEF Init
<1>2. /\ curr_active_terminal \in Terminals
      /\ opened \subseteq Terminals
  BY SizesAssumption DEF Init, Terminals
<1>3. pcb \in [Slots -> Pcb]
  <2>1. {0, 1} \subseteq 0..(NumFd - 1)
    BY SizesAssumption
  <2>2. ASSUME NEW s \in Slots PROVE pcb[s] \in Pcb
    BY <2>1, ZeroIsASlot DEF Init, Pcb
  <2> QED
    BY <2>2 DEF Init
<1>4. /\ chain \in Seq(Activation) /\ Len(chain) = 1
      /\ frames \in Seq(Slots) /\ Len(frames) = 0
  BY ZeroIsASlot, ProgramsAssumption DEF Init, Activation
<1>5. ret \in Result
  BY DEF Init, Result
<1> QED
  BY <1>1, <1>2, <1>3, <1>4, <1>5 DEF Typed, TypeOK

\* Starting program p from the running activation keeps the kinds.
LEMMA SuspendTyped ==
  ASSUME Typed, NEW s \in Slots, NEW p \in Programs, Suspend(s, p)
  PROVE  /\ pid_array' \subseteq Slots
         /\ pid' \in Slots /\ parent_pid' \in Slots /\ page' \in Slots /\ tss' \in Slots
         /\ pcb' \in [Slots -> Pcb]
         /\ image' \in [Slots -> Programs \cup {NoProgram}]
         /\ chain' \in Seq(Activation) /\ frames' \in Seq(Slots)
         /\ kids' \in [Slots -> Nat]
         /\ Len(chain') = Len(frames') + 1
<1>1. /\ pid_array' \subseteq Slots
      /\ pid' \in Slots /\ parent_pid' \in Slots /\ page' \in Slots /\ tss' \in Slots
      /\ image' \in [Slots -> Programs \cup {NoProgram}]
  BY DEF Typed, TypeOK, Suspend, Enter, StackOf, ParentAfterStart
<1>2. /\ chain \in Seq(Activation) /\ frames \in Seq(Slots) /\ tss \in Slots
      /\ pcb \in [Slots -> Pcb] /\ Len(chain) = Len(frames) + 1
      /\ kids \in [Slots -> Nat] /\ parent_pid \in Slots
  BY DEF Typed, TypeOK
<1>3. Len(frames) \in Nat
  BY <1>2
<1>4. NewPcb(s, Len(frames) + 1) \in Pcb
  <2>1. pcb[s].fds \cup {0, 1} \subseteq 0..(NumFd - 1)
    BY <1>2, SizesAssumption DEF Pcb
  <2>2. RecordedParent(s) \in Slots
    BY <1>2, ZeroIsASlot DEF RecordedParent
  <2> QED
    BY <1>3, <2>1, <2>2 DEF NewPcb, Pcb
<1>5. pcb' \in [Slots -> Pcb]
  BY <1>2, <1>4 DEF Suspend, Enter
<1>6. chain' \in Seq(Activation) /\ Len(chain') = Len(chain) + 1
  BY <1>2 DEF Suspend, Activation
<1>7. frames' \in Seq(Slots) /\ Len(frames') = Len(frames) + 1
  BY <1>2 DEF Suspend
<1>8. kids' \in [Slots -> Nat]
  <2> DEFINE K(k) == IF k = s THEN 0
                     ELSE IF k = Running.slot /\ Len(chain) > 1 THEN kids[k] + 1
                     ELSE kids[k]
  <2>1. \A k \in Slots : K(k) \in Nat
    BY <1>2
  <2>2. kids' = [k \in Slots |-> K(k)]
    BY DEF Suspend
  <2> QED
    BY <2>1, <2>2
<1> QED
  BY <1>1, <1>2, <1>5, <1>6, <1>7, <1>8, <1>3

\* A halt whose process has a parent keeps the kinds, wherever it returns to.
LEMMA HaltChildTyped ==
  ASSUME Typed, NEW cause \in {"halt", "exception"}, NEW status \in 0..255,
         NEW flag \in {0, 1}, HaltChild(cause, status, flag)
  PROVE  Typed'
<1> DEFINE p == pcb[pid].parent
           d == pcb[pid].esp
<1>1. /\ chain \in Seq(Activation) /\ frames \in Seq(Slots)
      /\ pcb \in [Slots -> Pcb] /\ Len(chain) = Len(frames) + 1
      /\ pid \in Slots /\ pid_array \subseteq Slots
  BY DEF Typed, TypeOK
<1>2. p \in Slots /\ pcb[p].parent \in Slots /\ d \in Nat
  BY <1>1 DEF Pcb
<1>3. /\ pid_array' \subseteq Slots
      /\ pid' \in Slots /\ parent_pid' \in Slots /\ page' \in Slots /\ tss' \in Slots
  BY <1>1, <1>2 DEF HaltChild, ParentOf, SlotsAfterHalt
<1>4. pcb' \in [Slots -> Pcb]
  BY <1>1 DEF HaltChild, FlagsAfterHalt, Pcb
<1>5. /\ globalflag' \in {0, 1}
      /\ ret' \in Result
  BY DEF HaltChild, FlagAfter, HaltValue, Result
<1>6. /\ chain' \in Seq(Activation) /\ frames' \in Seq(Slots)
      /\ Len(chain') = Len(frames') + 1
      /\ wild' \in BOOLEAN
  <2>1. CASE d \in 1..Len(frames)
    <3>1. chain' = SubSeq(chain, 1, d) /\ frames' = SubSeq(frames, 1, d - 1)
          /\ wild' = FALSE
      BY <2>1 DEF HaltChild
    <3>2. d \in 1..Len(chain) /\ d - 1 \in 0..Len(frames)
      BY <1>1, <1>2, <2>1
    <3>3. chain' \in Seq(Activation) /\ Len(chain') = d
      BY <1>1, <3>1, <3>2
    <3>4. frames' \in Seq(Slots) /\ Len(frames') = d - 1
      BY <1>1, <3>1, <3>2
    <3>5. Len(chain') = Len(frames') + 1
      BY <1>2, <3>3, <3>4
    <3>6. wild' \in BOOLEAN
      BY <3>1
    <3> QED
      BY <3>3, <3>4, <3>5, <3>6
  <2>2. CASE d \notin 1..Len(frames)
    BY <1>1, <2>2 DEF HaltChild
  <2> QED
    BY <2>1, <2>2
<1>7. /\ image' \in [Slots -> Programs \cup {NoProgram}]
      /\ kids' \in [Slots -> Nat]
      /\ curr_active_terminal' \in Terminals /\ opened' \subseteq Terminals
  BY DEF Typed, TypeOK, HaltChild, termVars
<1> QED
  BY <1>3, <1>4, <1>5, <1>6, <1>7 DEF Typed, TypeOK

\* A halt of the root shell keeps the kinds.
LEMMA HaltRootTyped ==
  ASSUME Typed, NEW flag \in {0, 1}, HaltRoot(flag)
  PROVE  Typed'
<1>1. /\ chain \in Seq(Activation) /\ frames \in Seq(Slots)
      /\ pcb \in [Slots -> Pcb] /\ Len(chain) = Len(frames) + 1
      /\ kids \in [Slots -> Nat]
  BY DEF Typed, TypeOK
<1>2. /\ pid_array' \subseteq Slots
      /\ pid' \in Slots /\ parent_pid' \in Slots /\ page' \in Slots /\ tss' \in Slots
      /\ image' \in [Slots -> Programs \cup {NoProgram}]
      /\ globalflag' \in {0, 1}
      /\ curr_active_terminal' \in Terminals /\ opened' \subseteq Terminals
      /\ wild' \in BOOLEAN /\ ret' \in Result
  BY ZeroIsASlot, ProgramsAssumption DEF Typed, TypeOK, HaltRoot
<1>3. pcb' \in [Slots -> Pcb]
  <2>1. {0, 1} \subseteq 0..(NumFd - 1)
    BY SizesAssumption
  <2>2. [pid |-> 0, parent |-> 0, esp |-> 0, fds |-> FlagsAfterHalt \cup {0, 1}] \in Pcb
    BY <2>1, ZeroIsASlot DEF Pcb, FlagsAfterHalt
  <2> QED
    BY <1>1, <2>2 DEF HaltRoot
<1>4. chain' \in Seq(Activation) /\ Len(chain') = Len(chain)
  <2>1. [slot |-> 0, prog |-> Shell] \in Activation
    BY ZeroIsASlot, ProgramsAssumption DEF Activation
  <2> QED
    BY <1>1, <2>1 DEF HaltRoot
<1>5. frames' = frames /\ kids' \in [Slots -> Nat]
  BY <1>1 DEF HaltRoot
<1> QED
  BY <1>1, <1>2, <1>3, <1>4, <1>5 DEF Typed, TypeOK

\* A descriptor set changed in the current PCB keeps the kinds.
LEMMA DescriptorsTyped ==
  ASSUME Typed, Open \/ Close
  PROVE  Typed'
<1>1. PICK fds \in SUBSET (0..(NumFd - 1)) : pcb' = [pcb EXCEPT ![pid].fds = fds]
  <2>1. pcb[pid].fds \subseteq 0..(NumFd - 1)
    BY DEF Typed, TypeOK, Pcb
  <2>2. CASE Open
    <3>1. PICK fd \in 2..(NumFd - 1) : pcb' = [pcb EXCEPT ![pid].fds = @ \cup {fd}]
      BY <2>2 DEF Open
    <3>2. pcb[pid].fds \cup {fd} \subseteq 0..(NumFd - 1)
      BY <2>1, <3>1, SizesAssumption
    <3> QED
      BY <3>1, <3>2
  <2>3. CASE Close
    <3>1. PICK fd \in 2..(NumFd - 1) : pcb' = [pcb EXCEPT ![pid].fds = @ \ {fd}]
      BY <2>3 DEF Close
    <3>2. pcb[pid].fds \ {fd} \subseteq 0..(NumFd - 1)
      BY <2>1
    <3> QED
      BY <3>1, <3>2
  <2> QED
    BY <2>2, <2>3
<1>2. pcb' \in [Slots -> Pcb]
  <2>1. pcb \in [Slots -> Pcb] /\ pid \in Slots
    BY DEF Typed, TypeOK
  <2>2. [pcb[pid] EXCEPT !.fds = fds] \in Pcb
    BY <2>1 DEF Pcb
  <2> QED
    BY <1>1, <2>1, <2>2
<1>3. UNCHANGED <<pid_array, pid, parent_pid, page, tss, globalflag, userVars,
                  termVars, ret>>
  BY DEF Open, Close
<1> QED
  BY <1>2, <1>3 DEF Typed, TypeOK, userVars, termVars

\* A failed execute keeps the kinds, although it changes pid and parent_pid.
LEMMA ExecuteBadTyped ==
  ASSUME Typed, ExecuteBad
  PROVE  Typed'
<1>1. PICK s \in Slots : /\ pid' = s
                         /\ parent_pid' = ParentAfterStart(s)
                         /\ pcb' = [pcb EXCEPT ![s] = NewPcb(s, pcb[s].esp)]
  BY DEF ExecuteBad
<1>2. pcb \in [Slots -> Pcb] /\ parent_pid \in Slots
  BY DEF Typed, TypeOK
<1>3. NewPcb(s, pcb[s].esp) \in Pcb
  <2>1. pcb[s].fds \cup {0, 1} \subseteq 0..(NumFd - 1) /\ pcb[s].esp \in Nat
    BY <1>2, SizesAssumption DEF Pcb
  <2>2. RecordedParent(s) \in Slots
    BY <1>2, ZeroIsASlot DEF RecordedParent
  <2> QED
    BY <2>1, <2>2 DEF NewPcb, Pcb
<1>4. pcb' \in [Slots -> Pcb] /\ pid' \in Slots /\ parent_pid' \in Slots
  BY <1>1, <1>2, <1>3 DEF ParentAfterStart
<1>5. ret' \in Result
  <2>1. ret' = [cause |-> "bad name", status |-> 0, value |-> -1]
    BY DEF ExecuteBad
  <2>2. -1 \in {-1, 0, 1, 256} /\ 0 \in 0..255
    OBVIOUS
  <2> QED
    BY <2>1, <2>2 DEF Result
<1>6. /\ UNCHANGED <<pid_array, page, tss, globalflag, curr_active_terminal>>
      /\ UNCHANGED userVars
      /\ opened' = opened \cup {curr_active_terminal}
  BY DEF ExecuteBad
<1> QED
  BY <1>4, <1>5, <1>6 DEF Typed, TypeOK, userVars

\* halt keeps the types.
LEMMA HaltWithTyped ==
  ASSUME Typed, NEW cause \in {"halt", "exception"}, NEW status \in 0..255,
         NEW flag \in {0, 1}, HaltWith(cause, status, flag)
  PROVE  Typed'
<1>1. CASE pcb[pid].pid = 0
  BY <1>1, HaltRootTyped DEF HaltWith
<1>2. CASE pcb[pid].pid # 0
  BY <1>2, HaltChildTyped DEF HaltWith
<1> QED
  BY <1>1, <1>2

\* Typed is inductive.
LEMMA StepTyped == Typed /\ [Next]_vars => Typed'
<1> SUFFICES ASSUME Typed, [Next]_vars PROVE Typed'
  OBVIOUS
<1>1. ASSUME NEW p \in Programs, Execute(p) PROVE Typed'
  <2>1. PICK s \in Slots : Suspend(s, p)
    BY <1>1 DEF Execute
  <2>2. /\ globalflag' \in {0, 1} /\ wild' \in BOOLEAN /\ ret' \in Result
        /\ curr_active_terminal' \in Terminals /\ opened' \subseteq Terminals
    BY <1>1 DEF Execute, Typed, TypeOK
  <2> QED
    BY <2>1, <2>2, SuspendTyped DEF Typed, TypeOK
<1>2. CASE ExecuteBad
  BY <1>2, ExecuteBadTyped
<1>3. CASE ExecuteFull
  <2>1. ret' \in Result
    BY <1>3 DEF ExecuteFull, Result
  <2> QED
    BY <1>3, <2>1 DEF ExecuteFull, Typed, TypeOK, kernelVars, userVars, termVars
<1>4. ASSUME NEW status \in Statuses, Halt(status) PROVE Typed'
  <2>1. status \in 0..255 /\ globalflag \in {0, 1}
    BY ProgramsAssumption DEF Typed, TypeOK
  <2> QED
    BY <1>4, <2>1, HaltWithTyped DEF Halt
<1>5. CASE Exception
  <2>1. 0 \in 0..255 /\ 1 \in {0, 1}
    OBVIOUS
  <2> QED
    BY <1>5, <2>1, HaltWithTyped DEF Exception
<1>6. ASSUME NEW t \in Terminals, SwapToOpened(t) \/ SwapWhenFull(t) PROVE Typed'
  BY <1>6 DEF SwapToOpened, SwapWhenFull, Typed, TypeOK, kernelVars, userVars
<1>7. ASSUME NEW t \in Terminals, SwapToNew(t) PROVE Typed'
  <2>1. PICK s \in Slots : Suspend(s, Shell)
    BY <1>7 DEF SwapToNew
  <2>2. /\ globalflag' \in {0, 1} /\ wild' \in BOOLEAN /\ ret' \in Result
        /\ curr_active_terminal' \in Terminals /\ opened' \subseteq Terminals
    BY <1>7 DEF SwapToNew, Typed, TypeOK
  <2> QED
    BY <2>1, <2>2, SuspendTyped, ProgramsAssumption DEF Typed, TypeOK
<1>8. CASE Open \/ Close
  BY <1>8, DescriptorsTyped
<1>9. CASE UNCHANGED vars
  BY <1>9 DEF vars, kernelVars, userVars, termVars, Typed, TypeOK
<1> QED
  BY <1>1, <1>2, <1>3, <1>4, <1>5, <1>6, <1>7, <1>8, <1>9 DEF Next

\* The types always hold.
LEMMA TypedAlways == Spec => []Typed
BY InitTyped, StepTyped, PTL DEF Spec

\* Every variable keeps to the values the code can give it, whatever programs
\* and the user do, also after execute has failed or halt has gone astray.
THEOREM TypeCorrect == Spec => []TypeOK
<1>1. Typed => TypeOK
  BY DEF Typed
<1> QED
  BY <1>1, TypedAlways, PTL

(***************************************************************************)
(* The root slot.                                                          *)
(***************************************************************************)
\* Every slot that pid may become next has a PCB that execute has numbered:
\* that is what keeps halt from taking another process for the root shell and
\* from releasing slot 0.
ParentsNumbered ==
  /\ pcb[parent_pid].pid = parent_pid
  /\ \A s \in Slots : pcb[pcb[s].parent].pid = pcb[s].parent

RootInv == Typed /\ RootSlotHeld /\ ParentsNumbered

\* The first shell is its own parent after boot.
LEMMA InitRoot == Init => RootInv
<1> SUFFICES ASSUME Init PROVE RootInv
  OBVIOUS
<1>1. Typed
  BY InitTyped
<1>2. \A s \in Slots : pcb[s].pid = 0 /\ pcb[s].parent = 0
  BY DEF Init
<1> QED
  BY <1>1, <1>2, ZeroIsASlot DEF Init, RootInv, RootSlotHeld, ParentsNumbered

\* Writing a fresh PCB into a free slot keeps all parents numbered.
LEMMA NewPcbRoot ==
  ASSUME RootInv, NEW s \in Slots, s \notin pid_array, NEW depth \in Nat,
         pcb' = [pcb EXCEPT ![s] = NewPcb(s, depth)],
         pid' = s, parent_pid' = ParentAfterStart(s)
  PROVE  /\ pcb'[pid'].pid = pid'
         /\ pcb'[0].pid = 0 /\ pcb'[0].parent = 0
         /\ ParentsNumbered'
<1>1. s # 0
  BY DEF RootInv, RootSlotHeld
<1>2. pcb \in [Slots -> Pcb] /\ parent_pid \in Slots
  BY DEF RootInv, Typed, TypeOK
<1>3. \A k \in Slots : pcb'[k] = IF k = s THEN NewPcb(s, depth) ELSE pcb[k]
  BY <1>2
<1>4. NewPcb(s, depth).pid = s /\ NewPcb(s, depth).parent = parent_pid
  BY <1>1 DEF NewPcb, RecordedParent
<1>5. \A k \in Slots : pcb[k].pid = k => pcb'[k].pid = k
  BY <1>3, <1>4
<1>6. \A k \in Slots : pcb'[k].parent \in Slots /\ pcb[pcb'[k].parent].pid = pcb'[k].parent
  BY <1>2, <1>3, <1>4 DEF RootInv, ParentsNumbered, Pcb
<1>7. parent_pid' = s
  BY <1>1 DEF ParentAfterStart
<1> QED
  BY <1>1, <1>3, <1>4, <1>5, <1>6, <1>7, ZeroIsASlot
     DEF RootInv, RootSlotHeld, ParentsNumbered

\* execute makes a child, and leaves the first shell alone.
LEMMA SuspendRoot ==
  ASSUME RootInv, NEW s \in Slots, FirstFree(s), NEW p, Suspend(s, p)
  PROVE  RootSlotHeld' /\ ParentsNumbered'
<1>1. s \notin pid_array
  BY DEF FirstFree, Free
<1>2. Len(frames) + 1 \in Nat
  BY DEF RootInv, Typed, TypeOK
<1>3. /\ pcb' = [pcb EXCEPT ![s] = NewPcb(s, Len(frames) + 1)]
      /\ pid' = s /\ parent_pid' = ParentAfterStart(s)
      /\ page' = s /\ tss' = s /\ pid_array' = pid_array \cup {s}
  BY DEF Suspend, Enter, StackOf
<1> QED
  BY <1>1, <1>2, <1>3, NewPcbRoot DEF RootInv, RootSlotHeld

\* halt starts the first shell again when it ends it.
LEMMA HaltWithRoot ==
  ASSUME RootInv, NEW cause, NEW status, NEW flag, HaltWith(cause, status, flag)
  PROVE  RootSlotHeld' /\ ParentsNumbered'
<1>1. pcb \in [Slots -> Pcb] /\ parent_pid \in Slots /\ pid \in Slots
  BY DEF RootInv, Typed, TypeOK
<1>2. CASE pcb[pid].pid = 0
  <2>1. pid' = 0 /\ page' = 0 /\ tss' = 0 /\ 0 \in pid_array'
        /\ parent_pid' = parent_pid
    BY <1>2 DEF HaltWith, HaltRoot
  <2>2. \A k \in Slots : k # 0 => pcb'[k] = pcb[k]
    BY <1>1, <1>2 DEF HaltWith, HaltRoot
  <2>3. pcb'[0].pid = 0 /\ pcb'[0].parent = 0
    BY <1>1, <1>2, ZeroIsASlot DEF HaltWith, HaltRoot
  <2>4. \A k \in Slots : pcb'[k].pid = pcb[k].pid /\ pcb'[k].parent = pcb[k].parent
    BY <2>2, <2>3 DEF RootInv, RootSlotHeld
  <2>5. \A k \in Slots : pcb[k].parent \in Slots
    BY <1>1 DEF Pcb
  <2> QED
    BY <1>1, <2>1, <2>3, <2>4, <2>5 DEF RootInv, ParentsNumbered, RootSlotHeld
<1>3. CASE pcb[pid].pid # 0
  <2>1. /\ pid' = pcb[pid].parent /\ page' = pid' /\ tss' = pid'
        /\ parent_pid' = pcb[pid'].parent
        /\ pid_array' = pid_array \ {pid}
        /\ pcb' = [pcb EXCEPT ![pid].fds = FlagsAfterHalt]
    BY <1>3 DEF HaltWith, HaltChild, ParentOf, SlotsAfterHalt
  <2>2. \A k \in Slots : pcb'[k].pid = pcb[k].pid /\ pcb'[k].parent = pcb[k].parent
    BY <1>1, <2>1 DEF Pcb
  <2>3. \A k \in Slots : pcb[k].parent \in Slots
    BY <1>1 DEF Pcb
  <2>4. pid # 0
    BY <1>3 DEF RootInv, RootSlotHeld
  <2>5. RootSlotHeld'
    BY <1>1, <2>1, <2>2, <2>3, <2>4, ZeroIsASlot
       DEF RootInv, RootSlotHeld, ParentsNumbered
  <2>6. ParentsNumbered'
    BY <1>1, <2>1, <2>2, <2>3 DEF RootInv, ParentsNumbered
  <2> QED
    BY <2>5, <2>6
<1> QED
  BY <1>2, <1>3

\* The calls on descriptors leave the parent links alone.
LEMMA DescriptorsRoot ==
  ASSUME RootInv, Open \/ Close
  PROVE  RootSlotHeld' /\ ParentsNumbered'
<1>1. pcb \in [Slots -> Pcb] /\ parent_pid \in Slots /\ pid \in Slots
  BY DEF RootInv, Typed, TypeOK
<1>2. PICK fds : pcb' = [pcb EXCEPT ![pid].fds = fds]
  <2>1. CASE Open
    BY <2>1 DEF Open
  <2>2. CASE Close
    BY <2>2 DEF Close
  <2> QED
    BY <2>1, <2>2
<1>3. \A k \in Slots : pcb'[k].pid = pcb[k].pid /\ pcb'[k].parent = pcb[k].parent
  BY <1>1, <1>2 DEF Pcb
<1>4. \A k \in Slots : pcb[k].parent \in Slots
  BY <1>1 DEF Pcb
<1>5. UNCHANGED <<pid_array, pid, parent_pid, page, tss>>
  BY DEF Open, Close
<1> QED
  BY <1>1, <1>3, <1>4, <1>5, ZeroIsASlot DEF RootInv, RootSlotHeld, ParentsNumbered

\* RootInv is inductive.
LEMMA StepRoot == RootInv /\ [Next]_vars => RootInv'
<1> SUFFICES ASSUME RootInv, [Next]_vars PROVE RootSlotHeld' /\ ParentsNumbered'
  BY StepTyped DEF RootInv
<1>1. ASSUME NEW p \in Programs, Execute(p) PROVE RootSlotHeld' /\ ParentsNumbered'
  BY <1>1, SuspendRoot DEF Execute
<1>2. CASE ExecuteBad
  <2>1. PICK s \in Slots : /\ FirstFree(s)
                           /\ pid' = s
                           /\ parent_pid' = ParentAfterStart(s)
                           /\ pcb' = [pcb EXCEPT ![s] = NewPcb(s, pcb[s].esp)]
    BY <1>2 DEF ExecuteBad
  <2>2. s \notin pid_array /\ pcb[s].esp \in Nat
    BY <2>1 DEF FirstFree, Free, RootInv, Typed, TypeOK, Pcb
  <2>3. UNCHANGED <<pid_array, page, tss>>
    BY <1>2 DEF ExecuteBad
  <2> QED
    BY <2>1, <2>2, <2>3, NewPcbRoot DEF RootInv, RootSlotHeld
<1>3. CASE ExecuteFull
  BY <1>3 DEF ExecuteFull, kernelVars, RootInv, RootSlotHeld, ParentsNumbered
<1>4. ASSUME NEW status \in Statuses, Halt(status)
      PROVE  RootSlotHeld' /\ ParentsNumbered'
  BY <1>4, HaltWithRoot DEF Halt
<1>5. CASE Exception
  BY <1>5, HaltWithRoot DEF Exception
<1>6. ASSUME NEW t \in Terminals, SwapToOpened(t) \/ SwapWhenFull(t)
      PROVE  RootSlotHeld' /\ ParentsNumbered'
  BY <1>6 DEF SwapToOpened, SwapWhenFull, kernelVars, RootInv, RootSlotHeld,
              ParentsNumbered
<1>7. ASSUME NEW t \in Terminals, SwapToNew(t) PROVE RootSlotHeld' /\ ParentsNumbered'
  BY <1>7, SuspendRoot DEF SwapToNew
<1>8. CASE Open \/ Close
  BY <1>8, DescriptorsRoot
<1>9. CASE UNCHANGED vars
  BY <1>9 DEF vars, kernelVars, RootInv, RootSlotHeld, ParentsNumbered
<1> QED
  BY <1>1, <1>2, <1>3, <1>4, <1>5, <1>6, <1>7, <1>8, <1>9 DEF Next

\* Slot 0 and its PCB stay the root shell's, the current PCB is a numbered one,
\* and page and kernel stack go together: with no assumption on programs,
\* commands or the order of launches.
THEOREM RootSlotTheorem == Spec => []RootSlotHeld
<1>1. RootInv => RootSlotHeld
  BY DEF RootInv
<1> QED
  BY <1>1, InitRoot, StepRoot, PTL DEF Spec

(***************************************************************************)
(* The order of calls, when commands load and a shell other than the root  *)
(* one starts at most one command (Disciplined).                           *)
(***************************************************************************)
CallInv == RootInv /\ CallInvariant /\ NoLeftoverDescriptors

\* The facts about lengths and types the steps below share.
LEMMA Shape ==
  ASSUME CallInv
  PROVE  /\ chain \in Seq(Activation) /\ frames \in Seq(Slots)
         /\ Len(chain) \in Nat /\ Len(frames) \in Nat
         /\ Len(chain) = Len(frames) + 1
         /\ Suspended = 1..(Len(chain) - 1)
         /\ \A i \in 1..Len(chain) : chain[i].slot \in Slots
         /\ Running \in Activation /\ Running = chain[Len(chain)]
         /\ pcb \in [Slots -> Pcb] /\ kids \in [Slots -> Nat]
         /\ image \in [Slots -> Programs \cup {NoProgram}]
         /\ \A i, j \in 1..Len(chain) : chain[i].slot = chain[j].slot => i = j
         /\ pid_array = {chain[i].slot : i \in 1..Len(chain)}
         /\ chain[1].slot = 0 /\ chain[1].prog = Shell
         /\ pid = Running.slot /\ page = pid /\ tss = pid /\ ~wild
<1>1. /\ chain \in Seq(Activation) /\ frames \in Seq(Slots)
      /\ Len(chain) = Len(frames) + 1
      /\ pcb \in [Slots -> Pcb] /\ kids \in [Slots -> Nat]
      /\ image \in [Slots -> Programs \cup {NoProgram}]
  BY DEF CallInv, RootInv, Typed, TypeOK
<1>2. Len(chain) \in Nat /\ Len(frames) \in Nat /\ Suspended = 1..(Len(chain) - 1)
  BY <1>1 DEF Suspended
<1>3. \A i \in 1..Len(chain) : chain[i] \in Activation
  BY <1>1
<1>4. Running \in Activation /\ Running = chain[Len(chain)]
  BY <1>1, <1>2, <1>3 DEF Running
<1>5. chain[1].slot = 0 /\ chain[1].prog = Shell
  BY DEF CallInv, CallInvariant, RootIsShell
<1>6. pid = Running.slot /\ page = pid /\ tss = pid /\ ~wild
  BY DEF CallInv, CallInvariant, RunsAsItself, ParentRestored
<1>7. /\ \A i, j \in 1..Len(chain) : chain[i].slot = chain[j].slot => i = j
      /\ pid_array = {chain[i].slot : i \in 1..Len(chain)}
  BY DEF CallInv, CallInvariant, SlotsExact
<1>8. \A i \in 1..Len(chain) : chain[i].slot \in Slots
  BY <1>3 DEF Activation
<1> QED
  BY <1>1, <1>2, <1>4, <1>5, <1>6, <1>7, <1>8

\* After boot the first shell runs, and no call is in progress.
LEMMA InitCall == Init => CallInv
<1> SUFFICES ASSUME Init PROVE CallInv
  OBVIOUS
<1>1. RootInv
  BY InitRoot
<1>2. /\ chain = <<[slot |-> 0, prog |-> Shell]>> /\ frames = <<>>
      /\ pid_array = {0} /\ pid = 0 /\ page = 0 /\ tss = 0 /\ ~wild
      /\ parent_pid = 0
      /\ image = [s \in Slots |-> IF s = 0 THEN Shell ELSE NoProgram]
      /\ \A s \in Slots : pcb[s].pid = 0 /\ (s # 0 => pcb[s].fds = {})
  BY DEF Init
<1>3. Len(chain) = 1 /\ Len(frames) = 0 /\ Suspended = {}
      /\ chain[1].slot = 0 /\ chain[1].prog = Shell
      /\ Running.slot = 0 /\ Running.prog = Shell /\ image[0] = Shell
  BY <1>2, ZeroIsASlot DEF Suspended, Running
<1>4. RunsAsItself /\ CallsRecorded /\ ActivationsKept /\ RootIsShell
      /\ ParentPidReady /\ KidsCounted
  BY <1>2, <1>3, ZeroIsASlot
     DEF RunsAsItself, ParentRestored, CallsRecorded, ActivationsKept, RootIsShell,
         ParentPidReady, KidsCounted
<1>5. SlotsExact
  BY <1>2, <1>3 DEF SlotsExact
<1>6. NoLeftoverDescriptors
  BY <1>2 DEF NoLeftoverDescriptors, Free
<1> QED
  BY <1>1, <1>4, <1>5, <1>6 DEF CallInv, CallInvariant

\* Under Disciplined, a launch finds parent_pid at the running program's slot.
LEMMA LaunchParent ==
  ASSUME Disciplined, CallInv, MayLaunch
  PROVE  parent_pid = Running.slot
<1>1. CASE Len(chain) = 1
  BY <1>1, Shape DEF CallInv, CallInvariant, ParentPidReady
<1>2. CASE Len(chain) # 1
  <2>1. kids[Running.slot] < MaxLaunch /\ MaxLaunch \in Nat /\ MaxLaunch <= 1
    BY <1>2, SizesAssumption DEF MayLaunch, Disciplined
  <2>2. kids[Running.slot] \in Nat
    BY Shape DEF Activation
  <2>3. kids[Running.slot] = 0
    BY <2>1, <2>2
  <2>4. Len(chain) > 1
    BY <1>2, Shape
  <2> QED
    BY <2>3, <2>4 DEF CallInv, CallInvariant, ParentPidReady
<1> QED
  BY <1>1, <1>2

\* A launch keeps the records of the calls in order.
LEMMA SuspendCall ==
  ASSUME Disciplined, CallInv, MayLaunch,
         NEW s \in Slots, FirstFree(s), NEW p, Suspend(s, p), wild' = wild
  PROVE  CallInvariant' /\ NoLeftoverDescriptors'
<1> DEFINE n == Len(chain)
           a == [slot |-> s, prog |-> p]
<1>1. /\ s \notin pid_array /\ s # 0
      /\ \A i \in 1..n : chain[i].slot # s
  BY Shape DEF FirstFree, Free, CallInv, RootInv, RootSlotHeld
<1>2. /\ pid' = s /\ page' = s /\ tss' = s /\ parent_pid' = s
      /\ pid_array' = pid_array \cup {s}
      /\ image' = [image EXCEPT ![s] = p]
  BY <1>1 DEF Suspend, Enter, StackOf, ParentAfterStart
<1>3. /\ pcb'[s].pid = s /\ pcb'[s].parent = Running.slot /\ pcb'[s].esp = n
      /\ \A k \in Slots : k # s => pcb'[k] = pcb[k]
  <2>1. pcb' = [pcb EXCEPT ![s] = NewPcb(s, n)]
    BY Shape DEF Suspend, Enter
  <2> QED
    BY <2>1, <1>1, LaunchParent, Shape DEF NewPcb, RecordedParent
<1>4. /\ n \in Nat /\ Len(chain') = n + 1 /\ n >= 1
      /\ chain'[n + 1] = a
      /\ \A i \in 1..n : chain'[i] = chain[i]
  BY Shape DEF Suspend
<1>5. /\ Len(frames') = n
      /\ frames'[n] = Running.slot
      /\ \A i \in 1..(n - 1) : frames'[i] = frames[i]
  BY Shape DEF Suspend
<1>6. Running' = a /\ Suspended' = 1..n
  BY <1>4, <1>5 DEF Running, Suspended
<1>7. RunsAsItself'
  BY <1>2, <1>6, Shape DEF RunsAsItself, ParentRestored
<1>8. SlotsExact'
  <2>1. \A i \in 1..(n + 1) : chain'[i].slot = IF i = n + 1 THEN s ELSE chain[i].slot
    BY <1>4
  <2>2. pid_array' = {chain'[i].slot : i \in 1..(n + 1)}
    <3>1. pid_array = {chain[i].slot : i \in 1..n}
      BY Shape
    <3>2. \A i \in 1..n : i \in 1..(n + 1) /\ i # n + 1
      BY <1>4
    <3>3. \A i \in 1..(n + 1) : i = n + 1 \/ i \in 1..n
      BY <1>4
    <3>4. n + 1 \in 1..(n + 1)
      BY <1>4
    <3> HIDE DEF n
    <3>5. \A x : x \in pid_array' <=> x \in {chain'[i].slot : i \in 1..(n + 1)}
      BY <1>2, <2>1, <3>1, <3>2, <3>3, <3>4
    <3> QED
      BY <3>5
  <2>3. \A i, j \in 1..(n + 1) : chain'[i].slot = chain'[j].slot => i = j
    BY <1>1, <1>4, <2>1, Shape
  <2> QED
    BY <1>4, <2>2, <2>3 DEF SlotsExact
<1>9. CallsRecorded'
  <2> SUFFICES ASSUME NEW i \in 1..n
               PROVE  /\ frames'[i] = chain'[i].slot
                      /\ pcb'[chain'[i + 1].slot].parent = chain'[i].slot
                      /\ pcb'[chain'[i + 1].slot].esp = i
    BY <1>6 DEF CallsRecorded
  <2>1. CASE i = n
    BY <2>1, <1>3, <1>4, <1>5, Shape
  <2>2. CASE i # n
    <3>1. i \in 1..(n - 1) /\ i + 1 \in 1..n
      BY <1>4, <2>2
    <3>2. /\ frames[i] = chain[i].slot
          /\ pcb[chain[i + 1].slot].parent = chain[i].slot
          /\ pcb[chain[i + 1].slot].esp = i
      BY <3>1, Shape DEF CallInv, CallInvariant, CallsRecorded
    <3>3. pcb'[chain[i + 1].slot] = pcb[chain[i + 1].slot]
      BY <1>1, <1>3, <3>1, Shape
    <3> QED
      BY <1>4, <1>5, <3>1, <3>2, <3>3
  <2> QED
    BY <2>1, <2>2
<1>10. ActivationsKept'
  <2> SUFFICES ASSUME NEW i \in 1..(n + 1)
               PROVE  /\ image'[chain'[i].slot] = chain'[i].prog
                      /\ pcb'[chain'[i].slot].pid = chain'[i].slot
    BY <1>4 DEF ActivationsKept
  <2>1. CASE i = n + 1
    BY <2>1, <1>2, <1>3, <1>4, Shape
  <2>2. CASE i # n + 1
    <3>1. i \in 1..n /\ chain'[i] = chain[i] /\ chain[i].slot # s
      BY <1>1, <1>4, <2>2
    <3>2. image[chain[i].slot] = chain[i].prog /\ pcb[chain[i].slot].pid = chain[i].slot
      BY <3>1 DEF CallInv, CallInvariant, ActivationsKept
    <3> QED
      BY <3>1, <3>2, <1>2, <1>3, Shape
  <2> QED
    BY <2>1, <2>2
<1>11. RootIsShell'
  BY <1>4 DEF CallInv, CallInvariant, RootIsShell
<1>12. ParentPidReady'
  BY <1>2, <1>4, <1>6 DEF ParentPidReady
<1>13. KidsCounted'
  <2> SUFFICES ASSUME NEW i \in 1..n, i > 1
               PROVE  kids'[chain'[i].slot] > 0
    BY <1>6 DEF KidsCounted
  <2>1. chain'[i] = chain[i] /\ chain[i].slot # s /\ chain[i].slot \in Slots
    BY <1>1, <1>4, Shape
  <2>2. kids'[chain[i].slot] = IF chain[i].slot = Running.slot /\ Len(chain) > 1
                               THEN kids[chain[i].slot] + 1 ELSE kids[chain[i].slot]
    BY <2>1 DEF Suspend
  <2>3. kids[chain[i].slot] \in Nat
    BY <2>1, Shape
  <2>4. CASE i = n
    <3>1. chain[i].slot = Running.slot /\ Len(chain) > 1
      BY <1>4, <2>4, Shape
    <3>2. kids'[chain[i].slot] = kids[chain[i].slot] + 1
      BY <2>2, <3>1
    <3> QED
      BY <2>1, <2>3, <3>2
  <2>5. CASE i # n
    <3>1. i \in Suspended /\ chain[i].slot # Running.slot
      BY <1>4, <2>5, Shape
    <3>2. kids[chain[i].slot] > 0
      BY <3>1 DEF CallInv, CallInvariant, KidsCounted
    <3> QED
      BY <2>1, <2>2, <3>1, <3>2
  <2> QED
    BY <2>4, <2>5
<1>14. NoLeftoverDescriptors'
  <2>1. \A k \in Slots \ pid_array' : k # s /\ k \in Free
    BY <1>2 DEF Free
  <2> QED
    BY <2>1, <1>3 DEF CallInv, NoLeftoverDescriptors, Free
<1> QED
  BY <1>7, <1>8, <1>9, <1>10, <1>11, <1>12, <1>13, <1>14 DEF CallInvariant

\* A halt that has a caller resumes the most recent suspended activation.
LEMMA HaltChildReturns ==
  ASSUME CallInv, NEW cause, NEW status, NEW flag, pcb[pid].pid # 0,
         HaltChild(cause, status, flag)
  PROVE  /\ Len(chain) > 1
         /\ chain' = SubSeq(chain, 1, Len(chain) - 1)
         /\ frames' = SubSeq(frames, 1, Len(chain) - 2)
         /\ pid' = chain[Len(chain) - 1].slot
         /\ page' = pid' /\ tss' = pid' /\ wild' = FALSE
         /\ parent_pid' = pcb[pid'].parent
<1> DEFINE n == Len(chain)
<1>1. n \in Nat /\ n >= 1 /\ pid = chain[n].slot /\ pcb[pid].pid = pid
  BY Shape DEF CallInv, CallInvariant, ActivationsKept
<1>2. n > 1
  BY <1>1, Shape
<1>3. n - 1 \in Suspended /\ (n - 1) + 1 = n
  BY <1>1, <1>2, Shape
<1>4. pcb[pid].parent = chain[n - 1].slot /\ pcb[pid].esp = n - 1
  <2>1. /\ pcb[chain[(n - 1) + 1].slot].parent = chain[n - 1].slot
        /\ pcb[chain[(n - 1) + 1].slot].esp = n - 1
    BY <1>3 DEF CallInv, CallInvariant, CallsRecorded
  <2> QED
    BY <1>1, <1>3, <2>1
<1>5. n - 1 \in 1..Len(frames) /\ (n - 1) - 1 = n - 2
  BY <1>2, <1>3, Shape
<1>6. /\ chain' = SubSeq(chain, 1, n - 1) /\ frames' = SubSeq(frames, 1, (n - 1) - 1)
      /\ wild' = FALSE
  BY <1>4, <1>5 DEF HaltChild
<1> QED
  BY <1>2, <1>4, <1>5, <1>6 DEF HaltChild, ParentOf

\* halt of a child returns to the execute of its parent.
LEMMA HaltChildCall ==
  ASSUME CallInv, NEW cause, NEW status, NEW flag, pcb[pid].pid # 0,
         HaltChild(cause, status, flag)
  PROVE  CallInvariant' /\ NoLeftoverDescriptors'
<1> DEFINE n == Len(chain)
           c == chain[n - 1].slot
<1>1. /\ n \in Nat /\ n > 1
      /\ chain' = SubSeq(chain, 1, n - 1) /\ frames' = SubSeq(frames, 1, n - 2)
      /\ pid' = c /\ page' = c /\ tss' = c /\ wild' = FALSE
      /\ parent_pid' = pcb[c].parent
  BY HaltChildReturns, Shape
<1>2. /\ Len(chain') = n - 1 /\ Len(frames') = n - 2
      /\ \A i \in 1..(n - 1) : chain'[i] = chain[i]
      /\ \A i \in 1..(n - 2) : frames'[i] = frames[i]
  BY <1>1, Shape
<1>3. Running' = chain[n - 1] /\ Suspended' = 1..(n - 2)
  BY <1>1, <1>2 DEF Running, Suspended
<1>4. pid = chain[n].slot /\ pid \in Slots
  BY Shape, <1>1 DEF Activation
<1>5. /\ pid_array' = pid_array \ {pid} /\ image' = image /\ kids' = kids
      /\ pcb' = [pcb EXCEPT ![pid].fds = {}]
  BY DEF HaltChild, SlotsAfterHalt, FlagsAfterHalt
<1>6. /\ \A k \in Slots : /\ pcb'[k].pid = pcb[k].pid
                          /\ pcb'[k].parent = pcb[k].parent
                          /\ pcb'[k].esp = pcb[k].esp
                          /\ k # pid => pcb'[k].fds = pcb[k].fds
      /\ pcb'[pid].fds = {}
  BY <1>4, <1>5, Shape DEF Pcb
<1>7. \A i \in 1..n : image[chain[i].slot] = chain[i].prog /\ pcb[chain[i].slot].pid = chain[i].slot
  BY DEF CallInv, CallInvariant, ActivationsKept
<1>8. RunsAsItself'
  <2>1. n - 1 \in 1..n
    BY <1>1
  <2>2. image[c] = chain[n - 1].prog
    BY <1>7, <2>1
  <2> QED
    BY <1>1, <1>3, <1>5, <2>2 DEF RunsAsItself, ParentRestored
<1>9. SlotsExact'
  <2>1. \A i \in 1..(n - 1) : chain[i].slot # pid
    BY <1>1, <1>4, Shape
  <2>2. pid_array' = {chain[i].slot : i \in 1..(n - 1)}
    BY <1>1, <1>4, <1>5, <2>1, Shape
  <2>3. {chain[i].slot : i \in 1..(n - 1)} = {chain'[i].slot : i \in 1..(n - 1)}
    BY <1>2
  <2>4. \A i, j \in 1..(n - 1) : chain'[i].slot = chain'[j].slot => i = j
    BY <1>1, <1>2, Shape
  <2> QED
    BY <1>2, <2>2, <2>3, <2>4 DEF SlotsExact
<1>10. CallsRecorded'
  <2> SUFFICES ASSUME NEW i \in 1..(n - 2)
               PROVE  /\ frames'[i] = chain'[i].slot
                      /\ pcb'[chain'[i + 1].slot].parent = chain'[i].slot
                      /\ pcb'[chain'[i + 1].slot].esp = i
    BY <1>3 DEF CallsRecorded
  <2>1. i \in Suspended /\ i \in 1..(n - 1) /\ i + 1 \in 1..(n - 1)
        /\ chain[i + 1].slot \in Slots
    BY <1>1, Shape
  <2>2. /\ frames[i] = chain[i].slot
        /\ pcb[chain[i + 1].slot].parent = chain[i].slot
        /\ pcb[chain[i + 1].slot].esp = i
    BY <2>1 DEF CallInv, CallInvariant, CallsRecorded
  <2> QED
    BY <1>2, <1>6, <2>1, <2>2
<1>11. ActivationsKept'
  <2> SUFFICES ASSUME NEW i \in 1..(n - 1)
               PROVE  /\ image'[chain'[i].slot] = chain'[i].prog
                      /\ pcb'[chain'[i].slot].pid = chain'[i].slot
    BY <1>2 DEF ActivationsKept
  <2>1. i \in 1..n /\ chain[i].slot \in Slots
    BY <1>1, Shape
  <2> QED
    BY <1>2, <1>5, <1>6, <1>7, <2>1
<1>12. RootIsShell'
  BY <1>1, <1>2 DEF CallInv, CallInvariant, RootIsShell
<1>13. ParentPidReady'
  <2>1. CASE n = 2
    BY <2>1, <1>1, <1>2, Shape DEF CallInv, RootInv, RootSlotHeld, ParentPidReady
  <2>2. CASE n # 2
    <3>1. n - 1 \in Suspended /\ n - 1 > 1
      BY <1>1, <2>2, Shape
    <3>2. kids[c] > 0
      BY <3>1 DEF CallInv, CallInvariant, KidsCounted
    <3> QED
      BY <3>1, <3>2, <1>2, <1>3, <1>5 DEF ParentPidReady
  <2> QED
    BY <2>1, <2>2
<1>14. KidsCounted'
  <2> SUFFICES ASSUME NEW i \in 1..(n - 2), i > 1
               PROVE  kids'[chain'[i].slot] > 0
    BY <1>3 DEF KidsCounted
  <2>1. i \in Suspended /\ i \in 1..(n - 1)
    BY <1>1, Shape
  <2>2. kids[chain[i].slot] > 0
    BY <2>1 DEF CallInv, CallInvariant, KidsCounted
  <2> QED
    BY <1>2, <1>5, <2>1, <2>2
<1>15. NoLeftoverDescriptors'
  <2>1. \A k \in Slots \ pid_array' : k = pid \/ k \in Free
    BY <1>5 DEF Free
  <2>2. \A k \in Free : k \in Slots /\ k # pid /\ pcb[k].fds = {}
    BY <1>1, <1>4, Shape DEF CallInv, NoLeftoverDescriptors, Free
  <2> QED
    BY <1>6, <2>1, <2>2 DEF NoLeftoverDescriptors, Free
<1> QED
  BY <1>8, <1>9, <1>10, <1>11, <1>12, <1>13, <1>14, <1>15 DEF CallInvariant

\* Only the root shell itself can be running when the root slot halts.
LEMMA RootAlone ==
  ASSUME CallInv, pcb[pid].pid = 0
  PROVE  Len(chain) = 1 /\ pid = 0
<1>1. /\ pid = chain[Len(chain)].slot /\ chain[1].slot = 0
      /\ \A i, j \in 1..Len(chain) : chain[i].slot = chain[j].slot => i = j
  <2>1. pid = Running.slot /\ Running = chain[Len(chain)] /\ chain[1].slot = 0
    BY Shape, ZenonT(30)
  <2>2. \A i, j \in 1..Len(chain) : chain[i].slot = chain[j].slot => i = j
    BY Shape, ZenonT(30)
  <2> QED
    BY <2>1, <2>2
<1>2. pid = 0
  BY DEF CallInv, RootInv, RootSlotHeld
<1>3. 1 \in 1..Len(chain) /\ Len(chain) \in 1..Len(chain)
  <2>1. Len(frames) \in Nat /\ Len(chain) = Len(frames) + 1
    BY Shape
  <2> QED
    BY <2>1
<1>4. 1 = Len(chain)
  BY <1>1, <1>2, <1>3
<1> QED
  BY <1>2, <1>4

\* halt of the first shell executes it again.
LEMMA HaltRootCall ==
  ASSUME CallInv, pcb[pid].pid = 0, NEW flag, HaltRoot(flag)
  PROVE  CallInvariant' /\ NoLeftoverDescriptors' /\ chain' = chain
<1>1. Len(chain) = 1 /\ pid = 0 /\ Len(frames) = 0
  <2>1. Len(chain) = 1 /\ pid = 0
    BY RootAlone
  <2>2. Len(frames) = Len(chain) - 1
    BY Shape
  <2>3. Len(frames) = 0
    BY <2>1, <2>2
  <2> QED
    BY <2>1, <2>3
<1>2. chain[1] = [slot |-> 0, prog |-> Shell]
  BY DEF CallInv, CallInvariant, RootIsShell
<1>3. chain' = chain
  BY <1>1, <1>2, Shape DEF HaltRoot
<1>4. /\ frames' = frames /\ pid' = 0 /\ page' = 0 /\ tss' = 0
      /\ wild' = wild /\ parent_pid' = parent_pid
      /\ pid_array' = pid_array \cup {0}
  BY DEF HaltRoot
<1>5. /\ image'[0] = Shell /\ pcb'[0].pid = 0
      /\ \A k \in Slots : k # 0 => pcb'[k] = pcb[k]
  BY ZeroIsASlot, Shape DEF HaltRoot
<1>6. Running' = chain[1] /\ Suspended' = {} /\ Running'.slot = 0
      /\ Running'.prog = Shell /\ ~wild
  <2>1. Running' = chain[1]
    BY <1>1, <1>3 DEF Running
  <2>2. Suspended' = {}
    BY <1>1, <1>4 DEF Suspended
  <2> QED
    BY <2>1, <2>2, <1>2, Shape
<1>7. /\ RunsAsItself' /\ CallsRecorded' /\ KidsCounted'
  BY <1>4, <1>5, <1>6 DEF RunsAsItself, ParentRestored, CallsRecorded, KidsCounted
<1>8. pid_array' = pid_array
  BY <1>4 DEF CallInv, RootInv, RootSlotHeld
<1>9. SlotsExact'
  BY <1>3, <1>8 DEF CallInv, CallInvariant, SlotsExact
<1>10. ActivationsKept' /\ RootIsShell'
  <2>1. Len(chain') = 1 /\ chain'[1].slot = 0 /\ chain'[1].prog = Shell
    BY <1>1, <1>2, <1>3
  <2>2. \A i \in 1..Len(chain') : i = 1
    BY <2>1
  <2>3. ActivationsKept'
    BY <2>1, <2>2, <1>5 DEF ActivationsKept
  <2> QED
    BY <1>2, <1>3, <2>3 DEF RootIsShell
<1>11. ParentPidReady'
  <2>1. parent_pid = 0
    BY <1>1 DEF CallInv, CallInvariant, ParentPidReady
  <2>2. parent_pid' = 0 /\ Len(chain') = 1
    BY <2>1, <1>1, <1>3, <1>4
  <2> QED
    BY <2>2 DEF ParentPidReady
<1>12. NoLeftoverDescriptors'
  BY <1>5, <1>8 DEF CallInv, RootInv, RootSlotHeld, NoLeftoverDescriptors, Free
<1> QED
  BY <1>3, <1>7, <1>9, <1>10, <1>11, <1>12 DEF CallInvariant

\* halt keeps CallInv.
LEMMA HaltWithCall ==
  ASSUME CallInv, NEW cause, NEW status, NEW flag, HaltWith(cause, status, flag)
  PROVE  CallInvariant' /\ NoLeftoverDescriptors'
<1>1. CASE pcb[pid].pid = 0
  BY <1>1, HaltRootCall DEF HaltWith
<1>2. CASE pcb[pid].pid # 0
  BY <1>2, HaltChildCall DEF HaltWith
<1> QED
  BY <1>1, <1>2

\* open and close touch only the current PCB, whose slot is occupied.
LEMMA DescriptorsCall ==
  ASSUME CallInv, Open \/ Close
  PROVE  CallInvariant' /\ NoLeftoverDescriptors'
<1>1. PICK fds : pcb' = [pcb EXCEPT ![pid].fds = fds]
  <2>1. CASE Open
    BY <2>1 DEF Open
  <2>2. CASE Close
    BY <2>2 DEF Close
  <2> QED
    BY <2>1, <2>2
<1>2. UNCHANGED <<pid_array, pid, parent_pid, page, tss, userVars>>
  BY DEF Open, Close
<1>3. pid \in Slots /\ pid \in pid_array
  <2>1. pid = chain[Len(chain)].slot /\ Len(chain) \in 1..Len(chain)
    BY Shape
  <2> QED
    BY <2>1, Shape
<1>4. \A k \in Slots :
         /\ pcb'[k].pid = pcb[k].pid
         /\ pcb'[k].parent = pcb[k].parent
         /\ pcb'[k].esp = pcb[k].esp
         /\ k # pid => pcb'[k].fds = pcb[k].fds
  BY <1>1, <1>3, Shape DEF Pcb
<1>5. RunsAsItself' /\ SlotsExact' /\ RootIsShell' /\ ParentPidReady' /\ KidsCounted'
  BY <1>2 DEF CallInv, CallInvariant, RunsAsItself, ParentRestored, SlotsExact,
              RootIsShell, ParentPidReady, KidsCounted, Running, Suspended, userVars
<1>6. CallsRecorded'
  <2> SUFFICES ASSUME NEW i \in Suspended
               PROVE  /\ frames[i] = chain[i].slot
                      /\ pcb'[chain[i + 1].slot].parent = chain[i].slot
                      /\ pcb'[chain[i + 1].slot].esp = i
    BY <1>2 DEF CallsRecorded, Suspended, userVars
  <2>1. i + 1 \in 1..Len(chain)
    BY Shape
  <2>2. chain[i + 1].slot \in Slots
    BY <2>1, Shape
  <2>3. /\ frames[i] = chain[i].slot
        /\ pcb[chain[i + 1].slot].parent = chain[i].slot
        /\ pcb[chain[i + 1].slot].esp = i
    BY DEF CallInv, CallInvariant, CallsRecorded
  <2> QED
    BY <2>2, <2>3, <1>4
<1>7. ActivationsKept'
  <2> SUFFICES ASSUME NEW i \in 1..Len(chain)
               PROVE  /\ image[chain[i].slot] = chain[i].prog
                      /\ pcb'[chain[i].slot].pid = chain[i].slot
    BY <1>2 DEF ActivationsKept, userVars
  <2>1. chain[i].slot \in Slots
    BY Shape
  <2>2. image[chain[i].slot] = chain[i].prog /\ pcb[chain[i].slot].pid = chain[i].slot
    BY DEF CallInv, CallInvariant, ActivationsKept
  <2> QED
    BY <2>1, <2>2, <1>4
<1>8. NoLeftoverDescriptors'
  <2>1. \A k \in Free : k \in Slots /\ k # pid /\ pcb[k].fds = {}
    BY <1>3 DEF CallInv, NoLeftoverDescriptors, Free
  <2>2. Free' = Free
    BY <1>2 DEF Free
  <2> QED
    BY <1>4, <2>1, <2>2 DEF NoLeftoverDescriptors
<1> QED
  BY <1>5, <1>6, <1>7, <1>8 DEF CallInvariant

\* The variables CallInv speaks of beyond RootInv.
LEMMA StutterCall ==
  ASSUME CallInv, UNCHANGED <<kernelVars, userVars>>
  PROVE  CallInvariant' /\ NoLeftoverDescriptors'
BY DEF CallInv, CallInvariant, RunsAsItself, ParentRestored, SlotsExact, CallsRecorded,
       ActivationsKept, RootIsShell, ParentPidReady, KidsCounted,
       NoLeftoverDescriptors, Free, Running, Suspended, kernelVars, userVars

\* CallInv is inductive, for commands that load, at most one under a shell other than the root.
LEMMA StepCall == Disciplined /\ CallInv /\ [Next]_vars => CallInv'
<1> SUFFICES ASSUME Disciplined, CallInv, [Next]_vars
             PROVE  CallInvariant' /\ NoLeftoverDescriptors'
  BY StepRoot DEF CallInv
<1>1. ASSUME NEW p \in Programs, Execute(p)
      PROVE  CallInvariant' /\ NoLeftoverDescriptors'
  BY <1>1, SuspendCall DEF Execute, CanExecute
<1>2. CASE ExecuteBad
  BY <1>2 DEF ExecuteBad, Disciplined
<1>3. CASE ExecuteFull
  BY <1>3, StutterCall DEF ExecuteFull
<1>4. ASSUME NEW status \in Statuses, Halt(status)
      PROVE  CallInvariant' /\ NoLeftoverDescriptors'
  BY <1>4, HaltWithCall DEF Halt
<1>5. CASE Exception
  BY <1>5, HaltWithCall DEF Exception
<1>6. ASSUME NEW t \in Terminals, SwapToOpened(t) \/ SwapWhenFull(t)
      PROVE  CallInvariant' /\ NoLeftoverDescriptors'
  BY <1>6, StutterCall DEF SwapToOpened, SwapWhenFull
<1>7. ASSUME NEW t \in Terminals, SwapToNew(t)
      PROVE  CallInvariant' /\ NoLeftoverDescriptors'
  BY <1>7, SuspendCall DEF SwapToNew
<1>8. CASE Open \/ Close
  BY <1>8, DescriptorsCall
<1>9. CASE UNCHANGED vars
  BY <1>9, StutterCall DEF vars
<1> QED
  BY <1>1, <1>2, <1>3, <1>4, <1>5, <1>6, <1>7, <1>8, <1>9 DEF Next

\* When commands load and shells beyond the root one start one command each,
\* the records of all calls stay in order, for any number of slots.
THEOREM CallTheorem ==
  ASSUME Disciplined
  PROVE  Spec => []CallInvariant
<1>1. CallInv => CallInvariant
  BY DEF CallInv
<1>2. CallInv /\ [Next]_vars => CallInv'
  BY StepCall
<1> QED
  BY <1>1, <1>2, InitCall, PTL DEF Spec

\* Under the same discipline no free slot keeps an open descriptor.
THEOREM DescriptorTheorem ==
  ASSUME Disciplined
  PROVE  Spec => []NoLeftoverDescriptors
<1>1. CallInv => NoLeftoverDescriptors
  BY DEF CallInv
<1>2. CallInv /\ [Next]_vars => CallInv'
  BY StepCall
<1> QED
  BY <1>1, <1>2, InitCall, PTL DEF Spec

\* ... and no system call is made on a kernel stack that holds the call of a
\* suspended program.
THEOREM StackTheorem ==
  ASSUME Disciplined
  PROVE  Spec => []KernelStacksIntact
<1>1. CallInv => KernelStacksIntact
  <2> SUFFICES ASSUME CallInv, NEW i \in Suspended PROVE frames[i] # tss
    BY DEF KernelStacksIntact, Suspended
  <2>1. frames[i] = chain[i].slot
    BY DEF CallInv, CallInvariant, CallsRecorded
  <2>2. /\ tss = chain[Len(chain)].slot /\ Len(chain) \in 1..Len(chain)
        /\ i \in 1..Len(chain) /\ i # Len(chain)
    BY Shape
  <2> QED
    BY <2>1, <2>2, Shape
<1>2. CallInv /\ [Next]_vars => CallInv'
  BY StepCall
<1> QED
  BY <1>1, <1>2, InitCall, PTL DEF Spec

\* The steps that are not a halt leave no shorter chain.
LEMMA ChainShrinks ==
  ASSUME Disciplined, CallInv, [Next]_vars, Len(chain') < Len(chain)
  PROVE  /\ pcb[pid].pid # 0
         /\ \E cause, status, flag : HaltChild(cause, status, flag)
<1>1. ASSUME NEW s, NEW p, Suspend(s, p) PROVE FALSE
  <2>1. chain' = Append(chain, [slot |-> s, prog |-> p])
    BY <1>1 DEF Suspend
  <2> QED
    BY <2>1, Shape
<1>2. ASSUME chain' = chain PROVE FALSE
  BY <1>2, Shape
<1>3. ASSUME NEW flag, pcb[pid].pid = 0, HaltRoot(flag) PROVE FALSE
  BY <1>2, <1>3, HaltRootCall
<1>4. ASSUME NEW cause, NEW status, NEW flag, HaltWith(cause, status, flag)
      PROVE  pcb[pid].pid # 0 /\ HaltChild(cause, status, flag)
  BY <1>3, <1>4 DEF HaltWith
<1>5. ASSUME NEW p \in Programs, Execute(p) PROVE FALSE
  BY <1>1, <1>5 DEF Execute
<1>6. ASSUME NEW t \in Terminals, SwapToNew(t) PROVE FALSE
  BY <1>1, <1>6 DEF SwapToNew
<1>7. CASE ExecuteBad \/ ExecuteFull \/ Open \/ Close \/ UNCHANGED vars
  <2>1. chain' = chain
    BY <1>7 DEF ExecuteBad, ExecuteFull, Open, Close, vars, userVars
  <2> QED
    BY <1>2, <2>1
<1>8. ASSUME NEW t \in Terminals, SwapToOpened(t) \/ SwapWhenFull(t) PROVE FALSE
  BY <1>2, <1>8 DEF SwapToOpened, SwapWhenFull, userVars
<1>9. ASSUME NEW status \in Statuses, Halt(status)
      PROVE  pcb[pid].pid # 0 /\ \E c, s, f : HaltChild(c, s, f)
  BY <1>4, <1>9 DEF Halt
<1>10. CASE Exception
  BY <1>4, <1>10 DEF Exception
<1> QED
  BY <1>5, <1>6, <1>7, <1>8, <1>9, <1>10 DEF Next

\* A call of execute that returns is the most recent one, and the kernel acts
\* for its caller again.
THEOREM ReturnTheorem ==
  ASSUME Disciplined
  PROVE  Spec => ReturnsToCaller
<1>1. ASSUME CallInv, [Next]_vars, Len(chain') < Len(chain)
      PROVE  /\ chain' = SubSeq(chain, 1, Len(chain) - 1)
             /\ pid' = chain'[Len(chain')].slot
  <2>1. PICK cause, status, flag : HaltChild(cause, status, flag)
    BY <1>1, ChainShrinks
  <2>2. pcb[pid].pid # 0
    BY <1>1, ChainShrinks
  <2>3. /\ Len(chain) > 1 /\ chain' = SubSeq(chain, 1, Len(chain) - 1)
        /\ pid' = chain[Len(chain) - 1].slot
    BY <1>1, <2>1, <2>2, HaltChildReturns
  <2>4. /\ Len(chain') = Len(chain) - 1
        /\ chain'[Len(chain) - 1] = chain[Len(chain) - 1]
    BY <1>1, <2>3, Shape
  <2> QED
    BY <2>3, <2>4
<1>2. CallInv /\ [Next]_vars =>
        [Len(chain') < Len(chain) =>
           /\ chain' = SubSeq(chain, 1, Len(chain) - 1)
           /\ pid' = chain'[Len(chain')].slot]_vars
  BY <1>1
<1>3. CallInv /\ [Next]_vars => CallInv'
  BY StepCall
<1> QED
  BY <1>2, <1>3, InitCall, PTL DEF Spec, ReturnsToCaller

(***************************************************************************)
(* What execute returns.  The root shell must not fault: its halt leaves   *)
(* globalflag set, and the next program that ends normally would be        *)
(* reported as terminated by an exception.                                 *)
(***************************************************************************)
EndsInv == CallInv /\ globalflag = 0 /\ EndsToldApart

\* halt returns whether the status of the program was 0, and no value of an exception.
LEMMA HaltEnds ==
  ASSUME EndsInv, NEW status \in 0..255, HaltWith("halt", status, 0)
  PROVE  globalflag' = 0 /\ EndsToldApart'
<1>1. CASE pcb[pid].pid = 0
  <2>1. globalflag' = 0 /\ ret' = ret
    BY <1>1 DEF HaltWith, HaltRoot
  <2> QED
    BY <2>1, Zenon DEF EndsInv, EndsToldApart
<1>2. CASE pcb[pid].pid # 0
  <2>1. /\ globalflag' = FlagAfter(status, 0)
        /\ ret' = [cause |-> "halt", status |-> status, value |-> HaltValue(status, 0)]
    BY <1>2 DEF HaltWith, HaltChild
  <2>2. globalflag' = 0
    BY <2>1 DEF FlagAfter
  <2>3. /\ HaltValue(status, 0) # 256 /\ HaltValue(status, 0) # -1
        /\ HaltValue(status, 0) = 1 <=> status # 0
        /\ HaltValue(status, 0) = 0 <=> status = 0
    BY DEF HaltValue
  <2>4. /\ ret'.cause = "halt" /\ ret'.status = status
        /\ ret'.value = HaltValue(status, 0)
    BY <2>1
  <2> QED
    BY <2>2, <2>3, <2>4 DEF EndsToldApart
<1> QED
  BY <1>1, <1>2

\* An exception ends a command, with the value of an exception.
LEMMA ExceptionEnds ==
  ASSUME EndsInv, Shell \notin Faulty, Exception
  PROVE  globalflag' = 0 /\ EndsToldApart'
<1>1. HaltWith("exception", 0, 1) /\ Running.prog \in Faulty
  BY DEF Exception
<1>2. pcb[pid].pid # 0
  <2> SUFFICES ASSUME pcb[pid].pid = 0 PROVE FALSE
    OBVIOUS
  <2>1. Len(chain) = 1
    BY RootAlone DEF EndsInv
  <2>2. Running = chain[1] /\ chain[1].prog = Shell
    BY <2>1, Shape DEF EndsInv
  <2> QED
    BY <1>1, <2>2
<1>3. /\ globalflag' = FlagAfter(0, 1)
      /\ ret' = [cause |-> "exception", status |-> 0, value |-> HaltValue(0, 1)]
  BY <1>1, <1>2 DEF HaltWith, HaltChild
<1>4. FlagAfter(0, 1) = 0 /\ HaltValue(0, 1) = 256
  BY DEF FlagAfter, HaltValue
<1>5. ret'.cause = "exception" /\ ret'.value = 256
  BY <1>3, <1>4
<1> QED
  BY <1>3, <1>4, <1>5 DEF EndsToldApart

\* Every step of the system keeps the promise of the theorem below.
LEMMA StepEnds ==
  ASSUME Disciplined, Shell \notin Faulty, EndsInv, [Next]_vars
  PROVE  EndsInv'
<1> SUFFICES globalflag' = 0 /\ EndsToldApart'
  BY StepCall DEF EndsInv
<1>1. ASSUME globalflag' = globalflag, ret' = ret
      PROVE  globalflag' = 0 /\ EndsToldApart'
  BY <1>1 DEF EndsInv, EndsToldApart
<1>2. ASSUME NEW p \in Programs, Execute(p) PROVE globalflag' = 0 /\ EndsToldApart'
  BY <1>1, <1>2 DEF Execute
<1>3. CASE ExecuteBad
  BY <1>3 DEF ExecuteBad, Disciplined
<1>4. CASE ExecuteFull
  <2>1. globalflag' = 0 /\ ret'.cause = "full" /\ ret'.value = 0
    BY <1>4 DEF ExecuteFull, kernelVars, EndsInv
  <2> QED
    BY <2>1 DEF EndsToldApart
<1>5. ASSUME NEW status \in Statuses, Halt(status)
      PROVE  globalflag' = 0 /\ EndsToldApart'
  <2>1. status \in 0..255 /\ HaltWith("halt", status, 0)
    BY <1>5, ProgramsAssumption DEF Halt, EndsInv
  <2> QED
    BY <2>1, HaltEnds
<1>6. CASE Exception
  BY <1>6, ExceptionEnds
<1>7. ASSUME NEW t \in Terminals, SwapToOpened(t) \/ SwapWhenFull(t) \/ SwapToNew(t)
      PROVE  globalflag' = 0 /\ EndsToldApart'
  BY <1>1, <1>7 DEF SwapToOpened, SwapWhenFull, SwapToNew, kernelVars
<1>8. CASE Open \/ Close \/ UNCHANGED vars
  BY <1>1, <1>8 DEF Open, Close, vars, kernelVars
<1> QED
  BY <1>2, <1>3, <1>4, <1>5, <1>6, <1>7, <1>8 DEF Next

\* execute returns 256 exactly for programs an exception ended and 1 exactly for
\* programs that gave halt a status other than 0, as long as commands load and the
\* root shell does not fault; a command without a slot returns 0, as does a program
\* that halted with 0.
THEOREM EndsTheorem ==
  ASSUME Disciplined, Shell \notin Faulty
  PROVE  Spec => []EndsToldApart
<1>1. Init => EndsInv
  <2>1. Init => globalflag = 0 /\ ret.cause = "none" /\ ret.value = 0
    BY DEF Init
  <2>2. ASSUME ret.cause = "none", ret.value = 0 PROVE EndsToldApart
    BY <2>2 DEF EndsToldApart
  <2> QED
    BY <2>1, <2>2, InitCall, Zenon DEF EndsInv
<1>2. EndsInv /\ [Next]_vars => EndsInv'
  BY StepEnds
<1>3. EndsInv => EndsToldApart
  BY DEF EndsInv
<1> QED
  BY <1>1, <1>2, <1>3, PTL DEF Spec
(***************************************************************************)
(* The parent links implement CallStack.  Ancestor follows the links from  *)
(* the running process; CallInvariant says what it meets on the way: the   *)
(* slots of the chain from its end to its start, and then 0 forever.       *)
(***************************************************************************)
LEMMA AncestorValue ==
  ASSUME CallInv
  PROVE  \A n \in 0..MaxPid :
           Ancestor[n] = IF n < Len(chain) THEN chain[Len(chain) - n].slot ELSE 0
<1> DEFINE G == [n \in 0..MaxPid |-> IF n < Len(chain) THEN chain[Len(chain) - n].slot ELSE 0]
<1>1. /\ Len(chain) \in Nat /\ Len(chain) >= 1 /\ MaxPid \in Nat
      /\ pid = chain[Len(chain)].slot /\ chain[1].slot = 0 /\ pcb[0].parent = 0
  BY Shape, SizesAssumption DEF CallInv, RootInv, RootSlotHeld
<1>2. ASSUME NEW n \in 0..MaxPid
      PROVE  G[n] = IF n = 0 THEN pid ELSE pcb[G[n - 1]].parent
  <2>1. CASE n = 0
    BY <1>1, <2>1
  <2>2. CASE n # 0 /\ n < Len(chain)
    <3>1. n - 1 \in 0..MaxPid /\ n - 1 < Len(chain) /\ Len(chain) - (n - 1) = (Len(chain) - n) + 1
      BY <1>1, <2>2
    <3>2. G[n - 1] = chain[(Len(chain) - n) + 1].slot
      BY <3>1
    <3>3. Len(chain) - n \in Suspended
      BY <1>1, <2>2, Shape
    <3>4. pcb[chain[(Len(chain) - n) + 1].slot].parent = chain[Len(chain) - n].slot
      BY <3>3 DEF CallInv, CallInvariant, CallsRecorded
    <3> QED
      BY <2>2, <3>2, <3>4
  <2>3. CASE n # 0 /\ ~(n < Len(chain))
    <3>1. n - 1 \in 0..MaxPid
      BY <1>1, <2>3
    <3>2. G[n - 1] = 0
      <4>1. CASE n - 1 < Len(chain)
        <5>1. Len(chain) - (n - 1) = 1
          BY <1>1, <2>3, <4>1
        <5> QED
          BY <1>1, <3>1, <4>1, <5>1
      <4>2. CASE ~(n - 1 < Len(chain))
        BY <3>1, <4>2
      <4> QED
        BY <4>1, <4>2
    <3> QED
      BY <1>1, <2>3, <3>2
  <2> QED
    BY <2>1, <2>2, <2>3
<1>3. \E g : g = [n \in 0..MaxPid |-> IF n = 0 THEN pid ELSE pcb[g[n - 1]].parent]
  <2>1. G = [n \in 0..MaxPid |-> IF n = 0 THEN pid ELSE pcb[G[n - 1]].parent]
    BY <1>2
  <2> HIDE DEF G
  <2> QED
    BY <2>1
<1>4. Ancestor = [n \in 0..MaxPid |-> IF n = 0 THEN pid ELSE pcb[Ancestor[n - 1]].parent]
  BY <1>3 DEF Ancestor
<1> DEFINE T == {n \in Nat : n <= MaxPid => Ancestor[n] = G[n]}
<1>5. 0 \in T
  <2>1. Ancestor[0] = pid
    BY <1>1, <1>4
  <2>2. G[0] = pid
    BY <1>1, <1>2
  <2> QED
    BY <2>1, <2>2
<1>6. ASSUME NEW n \in Nat, n \in T PROVE n + 1 \in T
  <2>1. SUFFICES ASSUME n + 1 <= MaxPid PROVE Ancestor[n + 1] = G[n + 1]
    OBVIOUS
  <2>2. n + 1 \in 0..MaxPid /\ n + 1 # 0 /\ (n + 1) - 1 = n /\ Ancestor[n] = G[n]
    BY <1>1, <1>6, <2>1
  <2>3. Ancestor[n + 1] = pcb[Ancestor[n]].parent
    BY <1>4, <2>2
  <2>4. G[n + 1] = pcb[G[n]].parent
    BY <1>2, <2>2
  <2> QED
    BY <2>2, <2>3, <2>4
<1>7. Nat \subseteq T
  <2> HIDE DEF T
  <2> QED
    BY <1>5, <1>6, Induction
<1>8. ASSUME NEW n \in 0..MaxPid PROVE Ancestor[n] = G[n]
  <2>1. n \in Nat /\ n <= MaxPid
    BY <1>1
  <2>2. n \in T
    <3> HIDE DEF T
    <3> QED
      BY <1>7, <2>1
  <2> QED
    BY <2>1, <2>2
<1> QED
  BY <1>8

\* Activations occupy slots of their own, so there are no more of them than slots.
LEMMA ChainFits == CallInv => Len(chain) <= MaxPid
<1> SUFFICES ASSUME CallInv PROVE Len(chain) <= MaxPid
  OBVIOUS
<1>1. Len(chain) \in Nat /\ MaxPid \in Nat
  BY Shape, SizesAssumption
<1> DEFINE f == [i \in 1..Len(chain) |-> chain[i].slot]
<1>2. f \in [1..Len(chain) -> Slots] /\ \A i, j \in 1..Len(chain) : f[i] = f[j] => i = j
  BY Shape
<1>3. /\ IsFiniteSet(1..Len(chain)) /\ Cardinality(1..Len(chain)) = Len(chain)
      /\ IsFiniteSet(Slots) /\ Cardinality(Slots) = MaxPid
  <2>1. \A a, b \in Int : /\ IsFiniteSet(a..b)
                         /\ Cardinality(a..b) = IF a > b THEN 0 ELSE b - a + 1
    BY FS_Interval
  <2>2. MaxPid >= 1 /\ MaxPid - 1 \in Int
    BY SizesAssumption
  <2> HIDE DEF f
  <2>3. IsFiniteSet(1..Len(chain)) /\ Cardinality(1..Len(chain)) = Len(chain)
    BY <1>1, <2>1
  <2>4. IsFiniteSet(Slots) /\ Cardinality(Slots) = MaxPid
    BY <1>1, <2>1, <2>2 DEF Slots
  <2> QED
    BY <2>3, <2>4
<1>4. f \in Injection(1..Len(chain), Slots)
  BY <1>2 DEF Injection, IsInjective
<1>5. Cardinality(1..Len(chain)) <= Cardinality(Slots)
  BY <1>3, <1>4, FS_Injection
<1> QED
  BY <1>3, <1>5

\* What the kernel records is the chain of activations.
LEMMA RecordedChain == CallInv => RecordedCalls = chain
<1> SUFFICES ASSUME CallInv PROVE RecordedCalls = chain
  OBVIOUS
<1> DEFINE n == Len(chain) - 1
<1>1. /\ chain \in Seq(Activation) /\ Len(chain) \in Nat /\ Len(chain) >= 1
      /\ Len(chain) <= MaxPid /\ MaxPid \in Nat /\ chain[1].slot = 0
      /\ \A i, j \in 1..Len(chain) : chain[i].slot = chain[j].slot => i = j
  BY Shape, ChainFits, SizesAssumption
<1>2. n \in 0..MaxPid /\ Len(chain) - n = 1
  BY <1>1
<1>3. Ancestor[n] = 0
  BY <1>1, <1>2, AncestorValue
<1>4. ASSUME NEW m \in 0..MaxPid, m < n PROVE Ancestor[m] # 0
  <2>1. Ancestor[m] = chain[Len(chain) - m].slot /\ Len(chain) - m \in 1..Len(chain)
        /\ Len(chain) - m # 1
    BY <1>1, <1>4, AncestorValue
  <2> QED
    BY <1>1, <2>1
<1>5. Depth = n
  <2>1. ASSUME NEW m \in 0..(n - 1) PROVE Ancestor[m] # 0
    <3>1. m \in 0..MaxPid /\ m < n
      BY <1>1
    <3> QED
      BY <1>4, <3>1
  <2>2. ASSUME NEW d \in 0..MaxPid, Ancestor[d] = 0, \A m \in 0..(d - 1) : Ancestor[m] # 0
        PROVE  d = n
    <3>1. ~(d < n)
      BY <1>4, <2>2
    <3>2. ~(n < d)
      BY <1>2, <1>3, <2>2
    <3> QED
      BY <1>2, <3>1, <3>2
  <2> HIDE DEF n
  <2> QED
    BY <1>2, <1>3, <2>1, <2>2 DEF Depth
<1>6. ASSUME NEW i \in 1..Len(chain)
      PROVE  [slot |-> Ancestor[Len(chain) - i], prog |-> image[Ancestor[Len(chain) - i]]] = chain[i]
  <2>1. Len(chain) - i \in 0..MaxPid /\ Len(chain) - i < Len(chain)
        /\ Len(chain) - (Len(chain) - i) = i
    BY <1>1
  <2>2. Ancestor[Len(chain) - i] = chain[i].slot
    BY <2>1, AncestorValue
  <2>3. image[chain[i].slot] = chain[i].prog
    BY DEF CallInv, CallInvariant, ActivationsKept
  <2>4. chain[i] \in Activation
    BY <1>1
  <2> QED
    BY <2>2, <2>3, <2>4 DEF Activation
<1>7. Depth + 1 = Len(chain) /\ \E m \in 0..MaxPid : Ancestor[m] = 0
  <2>1. n + 1 = Len(chain)
    BY <1>1
  <2> QED
    BY <1>2, <1>3, <1>5, <2>1
<1>8. RecordedCalls = [i \in 1..Len(chain) |->
         [slot |-> Ancestor[Len(chain) - i], prog |-> image[Ancestor[Len(chain) - i]]]]
  <2> DEFINE Entry(m) == [slot |-> Ancestor[m], prog |-> image[Ancestor[m]]]
  <2>1. RecordedCalls = [i \in 1..(Depth + 1) |-> Entry(Depth + 1 - i)]
    BY <1>7, Zenon DEF RecordedCalls
  <2>2. Depth \in Int
    BY <1>2, <1>5
  <2> HIDE DEF Entry
  <2>3. \A i \in 1..(Depth + 1) : Depth + 1 - i = Len(chain) - i
    BY <1>7, <2>2
  <2>4. RecordedCalls = [i \in 1..Len(chain) |-> Entry(Len(chain) - i)]
    BY <1>7, <2>1, <2>3
  <2> QED
    BY <2>4 DEF Entry
<1>9. RecordedCalls = [i \in 1..Len(chain) |-> chain[i]]
  BY <1>6, <1>8
<1> QED
  BY <1>1, <1>9

\* The first state of the system is one of CallStack.
LEMMA InitCalls == Init => Calls!Init
<1> SUFFICES ASSUME Init PROVE Calls!Init
  OBVIOUS
<1>1. RecordedCalls = chain
  BY InitCall, RecordedChain
<1>2. chain = <<[slot |-> 0, prog |-> Shell]>> /\ Running = [slot |-> 0, prog |-> Shell]
  BY DEF Init, Running
<1> QED
  BY <1>1, <1>2 DEF Calls!Init

\* A launch, of a command or of the shell of a terminal, is a Start.
LEMMA SuspendStarts ==
  ASSUME CallInv, RecordedCalls = chain, RecordedCalls' = chain',
         NEW s \in Slots, FirstFree(s), NEW p \in Programs, Suspend(s, p)
  PROVE  Calls!Start
<1> DEFINE a == [slot |-> s, prog |-> p]
<1>1. chain' = Append(chain, a) /\ chain \in Seq(Activation)
  BY Shape DEF Suspend
<1>2. Running' = a
  BY <1>1 DEF Running
<1>3. a \in Calls!Call
  BY DEF Calls!Call
<1>4. s \notin Calls!InUse
  BY Shape DEF FirstFree, Free, Calls!InUse
<1>5. a.slot = s
  OBVIOUS
<1> HIDE DEF a
<1> QED
  BY <1>1, <1>2, <1>3, <1>4, <1>5 DEF Calls!Start

\* A halt is a Return, or that of the root shell, which leaves the calls as they are.
LEMMA HaltReturns ==
  ASSUME CallInv, RecordedCalls = chain, RecordedCalls' = chain',
         NEW cause, NEW status, NEW flag, HaltWith(cause, status, flag)
  PROVE  Calls!Return \/ chain' = chain
<1>1. CASE pcb[pid].pid = 0
  BY <1>1, HaltRootCall DEF HaltWith
<1>2. CASE pcb[pid].pid # 0
  <2>1. Len(chain) > 1 /\ chain' = SubSeq(chain, 1, Len(chain) - 1)
    BY <1>2, HaltChildReturns DEF HaltWith
  <2>2. Running' = chain[Len(chain) - 1]
    <3>1. Len(chain') = Len(chain) - 1 /\ chain'[Len(chain) - 1] = chain[Len(chain) - 1]
      BY <2>1, Shape
    <3> QED
      BY <3>1 DEF Running
  <2> QED
    BY <2>1, <2>2 DEF Calls!Return
<1> QED
  BY <1>1, <1>2

\* Every step is a call, a return, or a stutter of CallStack.
LEMMA StepCalls ==
  ASSUME CallInv, RecordedCalls = chain, RecordedCalls' = chain', [Next]_vars,
         Disciplined
  PROVE  [Calls!Next]_(Calls!vars)
<1>1. ASSUME chain' = chain PROVE UNCHANGED Calls!vars
  BY <1>1 DEF Calls!vars, Running
<1>2. ASSUME NEW p \in Programs, Execute(p) PROVE Calls!Start
  BY <1>2, SuspendStarts DEF Execute
<1>3. ASSUME NEW t \in Terminals, SwapToNew(t) PROVE Calls!Start
  BY <1>3, SuspendStarts, ProgramsAssumption DEF SwapToNew
<1>4. ASSUME NEW status \in Statuses, Halt(status) PROVE Calls!Return \/ chain' = chain
  BY <1>4, HaltReturns DEF Halt
<1>5. CASE Exception
  BY <1>1, <1>5, HaltReturns DEF Exception, Calls!Next
<1>6. CASE ExecuteBad \/ ExecuteFull \/ Open \/ Close \/ UNCHANGED vars
  BY <1>1, <1>6 DEF ExecuteBad, ExecuteFull, Open, Close, vars, userVars
<1>7. ASSUME NEW t \in Terminals, SwapToOpened(t) \/ SwapWhenFull(t) PROVE chain' = chain
  BY <1>7 DEF SwapToOpened, SwapWhenFull, userVars
<1> QED
  BY <1>1, <1>2, <1>3, <1>4, <1>5, <1>6, <1>7 DEF Next, Calls!Next

\* The parent links the kernel keeps are a stack of calls whose top is the program
\* on the processor: a program starts on top in a slot no other call uses, and a
\* program that ends gives the processor to the call below, in its own slot.
THEOREM CallStackTheorem ==
  ASSUME Disciplined
  PROVE  Spec => ImplementsCallStack
<1>1. CallInv /\ [Next]_vars => CallInv'
  BY StepCall
<1>2. CallInv' => (RecordedCalls = chain)'
  BY RecordedChain, PTL
<1>3. CallInv /\ CallInv' /\ [Next]_vars => [Calls!Next]_(Calls!vars)
  BY <1>2, RecordedChain, StepCalls
<1> QED
  BY <1>1, <1>3, InitCall, InitCalls, PTL DEF Spec, ImplementsCallStack, Calls!Spec

\* The two parts of CallInvariant a reader asks for first: the kernel acts for the
\* program on the processor, in its own page and on its own stack ...
THEOREM RunsTheorem ==
  ASSUME Disciplined
  PROVE  Spec => []RunsAsItself
<1>1. CallInvariant => RunsAsItself
  BY DEF CallInvariant
<1> QED
  BY <1>1, CallTheorem, PTL

\* ... and the slots marked occupied are those of the programs in progress, one each.
THEOREM SlotsTheorem ==
  ASSUME Disciplined
  PROVE  Spec => []SlotsExact
<1>1. CallInvariant => SlotsExact
  BY DEF CallInvariant
<1> QED
  BY <1>1, CallTheorem, PTL
=============================================================================
