---------------------------- MODULE Input_proofs ----------------------------
(***************************************************************************)
(* Keyboard input when a key never interrupts the handler of another one   *)
(* (MaxDepth = 1): for any keys, any buffer and any number of key presses, *)
(* the index stays in step with the handler, nothing is stored outside     *)
(* key_buffer but the end of a line that does not fit, and a line typed    *)
(* with care is read as the user saw it.                                   *)
(***************************************************************************)
EXTENDS Input, SequenceTheorems, NumberFacts, TLAPS

Bytes      == Chars \cup {NUL, NL, SPACE}
Printing   == Chars \cup {"enter", "tab"}
Activation == [pc : {"start", "load", "inc", "index", "store", "echo", "loadBack", "dec"},
               key : Keys, left : 0..3, tmp : Indices]

\* The one activation of the handler, and how many increments of buffer_index
\* it has yet to make.
Act     == stack[1]
Pending == CASE Act.pc = "start" -> 3
             [] Act.pc \in {"load", "inc"} -> Act.left
             [] Act.pc \in {"index", "store"} -> Act.left - 1
             [] OTHER -> 0

\* Where a handler is, and what it holds: the value loaded is still that of
\* the index when it is stored, and a decrement starts from 0 or more.
ActivationInv ==
  /\ Act \in Activation
  /\ buffer_index + Pending < 3 * nkeys
  /\ Act.pc \in {"load", "inc", "index", "store"} =>
       Act.key \in Printing /\ Act.left > 0 /\ (Act.key # "tab" => Act.left = 1)
  /\ Act.pc = "echo" => Act.key \in Printing /\ Act.left = 0
  /\ Act.pc \in {"loadBack", "dec"} => Act.key = "backspace" /\ buffer_index >= 0
  /\ Act.pc \in {"inc", "dec", "store"} => Act.tmp = buffer_index
  /\ Act.pc \in {"index", "store"} => buffer_index >= 0

ReaderInv ==
  /\ rpc \in {"user", "wait", "take", "copy", "fetch", "reset", "clear", "done"}
  /\ i \in 0..EXTENDED_BUFFER /\ (rpc = "copy" => i <= NBYTES) /\ (rpc = "fetch" => i < NBYTES)
  /\ buf \in Seq(Bytes)

TypeInv ==
  /\ key_buffer \in [Positions -> Bytes] /\ enter_flag \in {0, 1}
  /\ buffer_index \in Int /\ buffer_index >= -1
  /\ nkeys \in 0..MaxKeys
  /\ stack \in Seq(Activation) /\ Len(stack) <= 1
  /\ stack = <<>> => buffer_index < 3 * nkeys
  /\ stack # <<>> => ActivationInv
  /\ ReaderInv

(***************************************************************************)
(* A line typed with care.  Unstored is how many characters at the end of  *)
(* the line the handler has yet to store; the others are in key_buffer.    *)
(***************************************************************************)
Line     == line[Home]
Unstored == IF stack = <<>> \/ Act.key \notin Chars \cup {"tab"} THEN 0
            ELSE IF Act.pc = "start" THEN Len(TextOf(Act.key)) ELSE Act.left
Stored   == Len(Line) - Unstored

Holds == \A n \in 1..Stored : n <= EXTENDED_BUFFER => key_buffer[n - 1] = Line[n]
Ended == Len(Line) < EXTENDED_BUFFER => key_buffer[Len(Line)] = NL

\* What buffer_index is, from the last character stored.
IndexInv ==
  IF entered
  THEN IF stack # <<>> /\ Act.key = "enter" /\ Act.pc \in {"start", "load", "inc"}
       THEN buffer_index = Len(Line) - 1
       ELSE rpc \notin {"clear", "done"} => buffer_index = Len(Line)
  ELSE IF stack = <<>> \/ Act.key = "release" THEN buffer_index = Len(Line) - 1
       ELSE IF Act.key = "backspace"
            THEN \/ buffer_index = Len(Line)
                 \/ Line = <<>> /\ buffer_index = -1
            ELSE IF Act.pc \in {"index", "store"} THEN buffer_index = Stored
                 ELSE buffer_index = Stored - 1

\* A line that was entered is ended by a newline, copied and forgotten.
EnteredInv ==
  /\ rpc # "user"
  /\ stack # <<>> => Act.key \in {"enter", "release"} /\ (Act.key = "enter" => rpc = "wait")
  /\ ~(stack # <<>> /\ Act.key = "enter" /\ Act.pc # "echo") /\ rpc \in {"wait", "take", "copy", "fetch"} => Ended
  /\ rpc \in {"copy", "fetch"} => i <= Len(Line) /\ buf = SubSeq(Line, 1, i)
  /\ rpc = "fetch" => i < Len(Line)
  /\ rpc \in {"reset", "clear", "done"} => buf = FirstOf(Line) \o <<NL>>
  /\ rpc \in {"clear", "done"} => buffer_index = -1

CareInv ==
  /\ shown = Home
  /\ stack # <<>> => Act.key # "swap"
  /\ rpc \notin {"clear", "done"} => Holds
  /\ IndexInv
  /\ enter_flag = 1 => entered /\ rpc \in {"wait", "take"}
  /\ entered => EnteredInv
  /\ ~entered => rpc \in {"user", "wait"} /\ (stack # <<>> => Act.key # "enter")
  /\ stack # <<>> /\ Act.key \in Chars \cup {"tab"} =>
       /\ Unstored <= Len(Line)
       /\ \A n \in (Stored + 1)..Len(Line) : Line[n] = Byte(Act.key)

LineInv ==
  /\ line \in [0..1 -> Seq(Chars \cup {SPACE})] /\ shown \in 0..1
  /\ entered \in BOOLEAN /\ disturbed \in BOOLEAN /\ swapped \in BOOLEAN /\ erased \in BOOLEAN
  /\ ~disturbed /\ ~swapped => CareInv

\* Whether a byte went outside key_buffer: the index is in the array, or one past
\* it before a store, until a line that does not fit is stored.
AtStore == stack # <<>> /\ Act.pc \in {"index", "store"}
RunInv ==
  /\ overrun \in BOOLEAN
  /\ ~overrun => buffer_index < EXTENDED_BUFFER + (IF AtStore THEN 1 ELSE 0)
  /\ overrun => /\ stack # <<>> /\ buffer_index >= EXTENDED_BUFFER
                /\ ~disturbed /\ ~swapped => Len(Line) + (IF entered THEN 1 ELSE 0) > EXTENDED_BUFFER

(***************************************************************************)
(* The order of what is read.  Fits(t, S, v, f, lo, hi): the characters    *)
(* that v has at the positions of S are characters of t, those that f      *)
(* gives, in order, between lo and hi.                                     *)
(***************************************************************************)
Fits(t, S, v, f, lo, hi) ==
  \A n \in S : IsText(v[n]) =>
    /\ f[n] \in (lo + 1)..hi /\ t[f[n]] = v[n]
    /\ \A m \in S : m < n /\ IsText(v[m]) => f[m] < f[n]

\* The part of key_buffer that holds what was typed and not yet taken; what is
\* beyond holds no characters, or is being cleared.
Filled  == IF stack # <<>> /\ Act.pc \in {"index", "store"} THEN buffer_index - 1 ELSE buffer_index
Untaken == {p \in Positions : p <= Filled /\ (rpc \in {"copy", "fetch", "reset"} => p >= i)}
Taken   == IF rpc \in {"copy", "fetch", "reset", "clear"} THEN 1..Len(buf) ELSE {}

Beyond == \A p \in Positions : p > Filled /\ (rpc = "clear" => p < i) => ~IsText(key_buffer[p])

\* What was delivered, then what terminal_read has taken, then what key_buffer
\* holds, then what the handler has yet to store, come in that order in typed.
Ordered ==
  \E c1, c2, c3 \in Nat : \E d, f, g :
    /\ c1 <= c2 /\ c2 <= c3 /\ c3 + Unstored <= Len(typed)
    /\ Fits(typed, 1..Len(delivered), delivered, d, 0, c1)
    /\ Fits(typed, Taken, buf, f, c1, c2)
    /\ Fits(typed, Untaken, key_buffer, g, c2, c3)

OrderInv ==
  /\ typed \in Seq(Chars \cup {SPACE})
  /\ ~erased =>
       /\ stack # <<>> => Act.key # "backspace"
       /\ delivered \in Seq(Bytes) /\ \A n \in 1..Len(delivered) : IsText(delivered[n])
       /\ Unstored \in Nat /\ Unstored <= Len(typed)
       /\ \A n \in (Len(typed) - Unstored + 1)..Len(typed) : typed[n] = Byte(Act.key)
       /\ Beyond
       /\ Ordered

(***************************************************************************)
(* One activation: what the moves of the handler do to it.                 *)
(***************************************************************************)
LEMMA ActTop ==
  ASSUME TypeInv, stack # <<>>
  PROVE  Len(stack) = 1 /\ Top = Act /\ Act \in Activation
<1>1. stack \in Seq(Activation) /\ Len(stack) <= 1 /\ ActivationInv
  BY DEF TypeInv
<1>2. Len(stack) \in Nat \ {0}
  BY <1>1, EmptySeq
<1>3. Len(stack) = 1
  BY <1>1, <1>2
<1> QED
  BY <1>1, <1>3 DEF ActivationInv, Top, Act

\* At a point of the handler there is an activation, and it is there.
LEMMA AtPoint ==
  ASSUME TypeInv, NEW label, At(label)
  PROVE  /\ stack # <<>> /\ Top = Act /\ Act.pc = label
         /\ ActivationInv /\ Act \in Activation
BY ActTop DEF At, TypeInv

\* An activation goes on as another record; it stays the only one.
LEMMA BecomeAct ==
  ASSUME TypeInv, stack # <<>>, NEW f \in Activation, Become(f)
  PROVE  stack' \in Seq(Activation) /\ Len(stack') <= 1 /\ stack' # <<>> /\ Act' = f
<1>1. Len(stack) = 1 /\ stack \in Seq(Activation)
  BY ActTop DEF TypeInv
<1>2. stack' = [stack EXCEPT ![1] = f]
  BY <1>1 DEF Become
<1>3. stack' \in Seq(Activation) /\ Len(stack') = 1 /\ stack'[1] = f
  BY <1>1, <1>2, ExceptSeq
<1> QED
  BY <1>3, EmptySeq DEF Act

\* When the handler ends no activation is left.
LEMMA LeaveEmpty ==
  ASSUME TypeInv, stack # <<>>, Leave
  PROVE  stack' = <<>>
<1>1. Len(stack) = 1
  BY ActTop
<1> QED
  BY <1>1, SubSeqEmpty DEF Leave, Front

\* A key comes only when no handler runs, and its handler is at its start.
LEMMA ArriveAct ==
  ASSUME MaxDepth = 1, TypeInv, NEW k \in Keys, Arrive(k)
  PROVE  /\ stack = <<>> /\ stack' # <<>>
         /\ stack' \in Seq(Activation) /\ Len(stack') <= 1
         /\ Act' = [pc |-> "start", key |-> k, left |-> 0, tmp |-> 0]
<1> DEFINE a == [pc |-> "start", key |-> k, left |-> 0, tmp |-> 0]
<1>1. stack = <<>> /\ stack \in Seq(Activation)
  <2>1. stack \in Seq(Activation) /\ Len(stack) < 1
    BY DEF Arrive, TypeInv
  <2> QED
    BY <2>1, EmptySeq
<1>2. a \in Activation
  BY InputAssumption DEF Activation, Indices
<1>3. stack' = Append(stack, a)
  BY DEF Arrive
<1> HIDE DEF a
<1>4. stack' \in Seq(Activation) /\ Len(stack') = 1 /\ stack'[1] = a
  BY <1>1, <1>2, <1>3
<1>5. stack' # <<>>
  <2>1. Len(<<>>) = 0
    OBVIOUS
  <2>2. Len(stack') # Len(<<>>)
    BY <1>4, <2>1
  <2> QED
    BY <2>2, Zenon
<1>6. Act' = a
  BY <1>4 DEF Act
<1>7. Len(stack') <= 1
  BY <1>4
<1> QED
  BY <1>1, <1>4, <1>5, <1>6, <1>7 DEF a

(***************************************************************************)
(* Type correctness.                                                       *)
(***************************************************************************)
LEMMA InitTyped == Init => TypeInv
BY InputAssumption, EmptySeq DEF Init, TypeInv, ReaderInv, Positions, Bytes

\* Where the handler is after a step of it, when it is not over.
LEMMA HandlerTyped ==
  ASSUME TypeInv, Handler
  PROVE  TypeInv'
<1> USE InputAssumption
<1>1. CASE Dispatch
  <2>1. /\ stack # <<>> /\ Top = Act /\ Act.pc = "start"
        /\ ActivationInv /\ Act \in Activation
    BY <1>1, AtPoint DEF Dispatch
  <2>2. /\ enter_flag' \in {0, 1} /\ buffer_index' = buffer_index /\ nkeys' = nkeys
        /\ ReaderInv' /\ buffer_index + 3 < 3 * nkeys /\ nkeys \in Nat
    BY <1>1, <2>1 DEF Dispatch, Flag, TypeInv, ReaderInv, read, user, ActivationInv, Pending
  <2>3. key_buffer' \in [Positions -> Bytes]
    BY <1>1 DEF Dispatch, TypeInv, Cleared, Bytes
  <2>4. CASE Leave
    <3>1. stack' = <<>>
      BY <2>1, <2>4, LeaveEmpty
    <3> QED
      BY <2>2, <2>3, <3>1, EmptySeq DEF TypeInv
  <2>5. CASE Act.key \in Printing /\ Become([Act EXCEPT !.pc = "load", !.left = IF Act.key = "tab" THEN 3 ELSE 1])
    <3> DEFINE f == [Act EXCEPT !.pc = "load", !.left = IF Act.key = "tab" THEN 3 ELSE 1]
    <3>1. /\ f \in Activation /\ f.pc = "load" /\ f.key = Act.key
          /\ f.left \in 1..3 /\ (f.key # "tab" => f.left = 1)
      <4> DEFINE l == IF Act.key = "tab" THEN 3 ELSE 1
      <4>1. l \in 0..3 /\ l \in 1..3 /\ (Act.key # "tab" => l = 1)
        OBVIOUS
      <4> HIDE DEF l
      <4>2. LET g == [Act EXCEPT !.pc = "load", !.left = l]
            IN g \in Activation /\ g.pc = "load" /\ g.key = Act.key /\ g.left = l
        BY <2>1, <4>1 DEF Activation
      <4> QED
        BY <4>1, <4>2 DEF l
    <3> HIDE DEF f
    <3>2. stack' \in Seq(Activation) /\ Len(stack') <= 1 /\ stack' # <<>> /\ Act' = f
      BY <2>1, <2>5, <3>1, BecomeAct DEF f
    <3>3. ActivationInv'
      BY <2>1, <2>2, <2>5, <3>1, <3>2 DEF ActivationInv, Pending, TypeInv
    <3> QED
      BY <2>2, <2>3, <3>2, <3>3 DEF TypeInv
  <2>6. CASE Act.key = "backspace" /\ MayErase /\ Become([Act EXCEPT !.pc = "loadBack"])
    <3> DEFINE f == [Act EXCEPT !.pc = "loadBack"]
    <3>1. f \in Activation /\ f.pc = "loadBack" /\ f.key = "backspace"
      BY <2>1, <2>6 DEF Activation
    <3> HIDE DEF f
    <3>2. stack' \in Seq(Activation) /\ Len(stack') <= 1 /\ stack' # <<>> /\ Act' = f
      BY <2>1, <2>6, <3>1, BecomeAct DEF f
    <3>3. ActivationInv'
      BY <2>1, <2>2, <2>6, <3>1, <3>2 DEF ActivationInv, Pending, TypeInv, MayErase
    <3> QED
      BY <2>2, <2>3, <3>2, <3>3 DEF TypeInv
  <2> QED
    BY <1>1, <2>1, <2>4, <2>5, <2>6 DEF Dispatch, Printing
<1>2. CASE LoadIndex
  <2>1. /\ stack # <<>> /\ Top = Act /\ Act.pc \in {"load", "loadBack"}
        /\ ActivationInv /\ Act \in Activation
    BY <1>2, AtPoint DEF LoadIndex
  <2> DEFINE f == [Act EXCEPT !.tmp = buffer_index, !.pc = IF Act.pc = "load" THEN "inc" ELSE "dec"]
  <2>2. buffer_index \in Indices
    <3>1. Act.left \in 0..3 /\ buffer_index \in Int /\ buffer_index >= -1 /\ nkeys \in 0..MaxKeys
      BY <2>1 DEF TypeInv, Activation
    <3>2. buffer_index < 3 * nkeys
      BY <2>1, <3>1 DEF ActivationInv, Pending
    <3> QED
      BY <3>1, <3>2 DEF Indices
  <2>3. /\ f \in Activation /\ f.pc = (IF Act.pc = "load" THEN "inc" ELSE "dec")
        /\ f.key = Act.key /\ f.left = Act.left /\ f.tmp = buffer_index
    BY <2>1, <2>2 DEF Activation
  <2> HIDE DEF f
  <2>4. stack' \in Seq(Activation) /\ Len(stack') <= 1 /\ stack' # <<>> /\ Act' = f
    BY <1>2, <2>1, <2>3, BecomeAct DEF f, LoadIndex
  <2>5. ActivationInv'
    BY <1>2, <2>1, <2>3, <2>4 DEF ActivationInv, Pending, TypeInv, LoadIndex, kbd, user
  <2> QED
    BY <1>2, <2>4, <2>5 DEF TypeInv, ReaderInv, LoadIndex, kbd, read, user
<1>3. CASE Increment
  <2>1. /\ stack # <<>> /\ Top = Act /\ Act.pc = "inc"
        /\ ActivationInv /\ Act \in Activation
    BY <1>3, AtPoint DEF Increment
  <2> DEFINE f == [Act EXCEPT !.pc = "index"]
  <2>2. f \in Activation /\ f.pc = "index" /\ f.key = Act.key /\ f.left = Act.left
    BY <2>1 DEF Activation
  <2> HIDE DEF f
  <2>3. stack' \in Seq(Activation) /\ Len(stack') <= 1 /\ stack' # <<>> /\ Act' = f
    BY <1>3, <2>1, <2>2, BecomeAct DEF f, Increment
  <2>4. buffer_index' = buffer_index + 1
    BY <1>3, <2>1 DEF Increment, ActivationInv
  <2>5. ActivationInv'
    BY <1>3, <2>1, <2>2, <2>3, <2>4 DEF ActivationInv, Pending, TypeInv, Increment, Activation, user
  <2> QED
    BY <1>3, <2>3, <2>4, <2>5 DEF TypeInv, ReaderInv, Increment, read, user
<1>4. CASE Decrement
  <2>1. /\ stack # <<>> /\ Top = Act /\ Act.pc = "dec"
        /\ ActivationInv /\ Act \in Activation
    BY <1>4, AtPoint DEF Decrement
  <2>2. stack' = <<>>
    BY <1>4, <2>1, LeaveEmpty DEF Decrement
  <2>3. buffer_index' = buffer_index - 1 /\ buffer_index >= 0 /\ buffer_index < 3 * nkeys
    BY <1>4, <2>1 DEF Decrement, ActivationInv, Pending, TypeInv
  <2> QED
    BY <1>4, <2>2, <2>3, EmptySeq DEF TypeInv, ReaderInv, Decrement, read, user
<1>5. CASE LoadPlace
  <2>1. /\ stack # <<>> /\ Top = Act /\ Act.pc = "index"
        /\ ActivationInv /\ Act \in Activation
    BY <1>5, AtPoint DEF LoadPlace
  <2> DEFINE f == [Act EXCEPT !.tmp = buffer_index, !.pc = "store"]
  <2>2. buffer_index \in Indices
    <3>1. Act.left \in 0..3 /\ buffer_index \in Int /\ buffer_index >= -1 /\ nkeys \in 0..MaxKeys
      BY <2>1 DEF TypeInv, Activation
    <3>2. buffer_index < 3 * nkeys
      BY <2>1, <3>1 DEF ActivationInv, Pending
    <3> QED
      BY <3>1, <3>2 DEF Indices
  <2>3. /\ f \in Activation /\ f.pc = "store"
        /\ f.key = Act.key /\ f.left = Act.left /\ f.tmp = buffer_index
    BY <2>1, <2>2 DEF Activation
  <2> HIDE DEF f
  <2>4. stack' \in Seq(Activation) /\ Len(stack') <= 1 /\ stack' # <<>> /\ Act' = f
    BY <1>5, <2>1, <2>3, BecomeAct DEF f, LoadPlace
  <2>5. ActivationInv'
    BY <1>5, <2>1, <2>3, <2>4 DEF ActivationInv, Pending, TypeInv, LoadPlace, kbd, user
  <2> QED
    BY <1>5, <2>4, <2>5 DEF TypeInv, ReaderInv, LoadPlace, kbd, read, user
<1>6. CASE Store
  <2>1. /\ stack # <<>> /\ Top = Act /\ Act.pc = "store"
        /\ ActivationInv /\ Act \in Activation /\ Act.left \in 1..3
    BY <1>6, AtPoint DEF Store, ActivationInv, Activation
  <2> DEFINE f == [Act EXCEPT !.left = @ - 1, !.pc = IF Act.left = 1 THEN "echo" ELSE "load"]
  <2>2. /\ f \in Activation /\ f.pc = (IF Act.left = 1 THEN "echo" ELSE "load")
        /\ f.key = Act.key /\ f.left = Act.left - 1
    <3> DEFINE label == IF Act.left = 1 THEN "echo" ELSE "load"
               l     == Act.left - 1
    <3>1. l \in 0..3 /\ label \in {"echo", "load"}
      BY <2>1
    <3> HIDE DEF l, label
    <3>2. LET g == [Act EXCEPT !.left = l, !.pc = label]
          IN g \in Activation /\ g.pc = label /\ g.key = Act.key /\ g.left = l
      BY <2>1, <3>1 DEF Activation
    <3> QED
      BY <3>2 DEF l, label
  <2> HIDE DEF f
  <2>3. stack' \in Seq(Activation) /\ Len(stack') <= 1 /\ stack' # <<>> /\ Act' = f
    BY <1>6, <2>1, <2>2, BecomeAct DEF f, Store
  <2>4. ActivationInv'
    BY <1>6, <2>1, <2>2, <2>3 DEF ActivationInv, Pending, TypeInv, Store, user
  <2>5. key_buffer' \in [Positions -> Bytes]
    <3>1. Byte(Act.key) \in Bytes
      BY <2>1 DEF ActivationInv, Byte, Bytes, Printing
    <3> QED
      BY <1>6, <2>1, <3>1 DEF Store, TypeInv
  <2> QED
    BY <1>6, <2>3, <2>4, <2>5 DEF TypeInv, ReaderInv, Store, read, user
<1>7. CASE Echo
  <2>1. /\ stack # <<>> /\ Top = Act /\ Act.pc = "echo"
        /\ ActivationInv /\ Act \in Activation
    BY <1>7, AtPoint DEF Echo
  <2>2. stack' = <<>>
    BY <1>7, <2>1, LeaveEmpty DEF Echo
  <2>3. buffer_index < 3 * nkeys
    BY <2>1 DEF ActivationInv, Pending, TypeInv
  <2> QED
    BY <1>7, <2>2, <2>3, EmptySeq DEF TypeInv, ReaderInv, Echo, kbd, read, user
<1> QED
  BY <1>1, <1>2, <1>3, <1>4, <1>5, <1>6, <1>7 DEF Handler

\* The arrival of a key keeps the types.
LEMMA ArriveTyped ==
  ASSUME MaxDepth = 1, TypeInv, NEW k \in Keys, Arrive(k)
  PROVE  TypeInv'
<1>1. /\ stack = <<>> /\ stack' # <<>>
      /\ stack' \in Seq(Activation) /\ Len(stack') <= 1
      /\ Act' = [pc |-> "start", key |-> k, left |-> 0, tmp |-> 0]
  BY ArriveAct
<1>2. nkeys' = nkeys + 1 /\ nkeys < MaxKeys /\ UNCHANGED <<kbd, read>>
  BY DEF Arrive
<1>3. ActivationInv'
  <2>1. Act' \in Activation
    BY <1>1, InputAssumption DEF Activation, Indices
  <2>2. Act'.pc = "start"
    BY <1>1
  <2> QED
    BY <1>1, <1>2, <2>1, <2>2 DEF ActivationInv, Pending, TypeInv, kbd
<1> QED
  BY <1>1, <1>2, <1>3, InputAssumption DEF TypeInv, ReaderInv, kbd, read

\* So does every step of terminal_read.
LEMMA ReadTyped ==
  ASSUME TypeInv, Call \/ Read
  PROVE  TypeInv'
<1> USE InputAssumption
<1>1. stack = <<>> /\ stack' = <<>> /\ nkeys' = nkeys
  BY DEF Call, Read, Wake, Take, Copy, Fetch, Reset, Clear, Return, Resume, Reader, user
<1>2. buffer_index' \in {buffer_index, -1}
  BY DEF Call, Read, Wake, Take, Copy, Fetch, Reset, Clear, Return, Resume, kbd, IndexAfterRead
<1>3. enter_flag' \in {0, 1}
  BY DEF Call, Read, Wake, Take, Copy, Fetch, Reset, Clear, Return, Resume, kbd, FlagTaken, TypeInv
<1>4. key_buffer' \in [Positions -> Bytes]
  BY DEF Call, Read, Wake, Take, Copy, Fetch, Reset, Clear, Return, Resume, kbd, TypeInv, Bytes, Positions
<1>5. ReaderInv'
  <2>1. CASE Copy
    <3>1. i \in 0..EXTENDED_BUFFER /\ i <= NBYTES /\ buf \in Seq(Bytes)
      BY <2>1 DEF Copy, Reader, TypeInv, ReaderInv
    <3>2. CASE i < NBYTES /\ key_buffer[i] # NL
      <4>1. buf' = buf /\ rpc' = "fetch" /\ i' = i
        BY <2>1, <3>2 DEF Copy
      <4> QED
        BY <3>1, <3>2, <4>1 DEF ReaderInv
    <3>3. CASE ~(i < NBYTES /\ key_buffer[i] # NL)
      <4>1. NL \in Bytes
        BY DEF Bytes
      <4>2. buf' = Append(buf, NL) /\ rpc' = "reset" /\ i' = i
        BY <2>1, <3>3 DEF Copy
      <4> QED
        BY <3>1, <4>1, <4>2 DEF ReaderInv
    <3> QED
      BY <3>2, <3>3
  <2>2. CASE Fetch
    <3>1. i \in 0..EXTENDED_BUFFER /\ i < NBYTES /\ buf \in Seq(Bytes)
      BY <2>2 DEF Fetch, Reader, TypeInv, ReaderInv
    <3>2. key_buffer[i] \in Bytes
      BY <3>1 DEF TypeInv, Positions
    <3>3. buf' = Append(buf, key_buffer[i]) /\ rpc' = "copy" /\ i' = i + 1
      BY <2>2 DEF Fetch
    <3> QED
      BY <3>1, <3>2, <3>3 DEF ReaderInv
  <2>3. CASE ~Copy /\ ~Fetch
    BY <2>3, EmptySeq DEF Call, Read, Wake, Take, Reset, Clear, Return, Resume, Reader, TypeInv, ReaderInv
  <2> QED
    BY <2>1, <2>2, <2>3
<1> QED
  BY <1>1, <1>2, <1>3, <1>4, <1>5, EmptySeq DEF TypeInv

\* TypeInv is inductive.
LEMMA StepTyped ==
  ASSUME MaxDepth = 1, TypeInv, [Next]_vars
  PROVE  TypeInv'
<1>1. CASE UNCHANGED vars
  BY <1>1 DEF vars, kbd, read, user, TypeInv, ReaderInv, ActivationInv, Pending, Act
<1> QED
  BY <1>1, HandlerTyped, ArriveTyped, ReadTyped DEF Next

\* Only a store goes outside the array, and nothing follows it.
LEMMA OverrunSteps ==
  ASSUME [Next]_vars
  PROVE  \/ ~overrun /\ Store
         \/ overrun' = overrun /\ (overrun => UNCHANGED vars)
<1>1. ASSUME NEW k \in Keys, Arrive(k) PROVE ~overrun /\ overrun' = overrun
  BY <1>1 DEF Arrive, kbd
<1>2. CASE Call \/ Read
  BY <1>2 DEF Call, Read, Wake, Take, Copy, Fetch, Reset, Clear, Return, Resume, Reader, kbd
<1>3. CASE Handler
  BY <1>3 DEF Handler, Dispatch, LoadIndex, Increment, Decrement, LoadPlace, Store, Echo, At, kbd
<1>4. CASE UNCHANGED vars
  BY <1>4 DEF vars, kbd
<1> QED
  BY <1>1, <1>2, <1>3, <1>4 DEF Next

\* It implies the type invariant of Input.
LEMMA TypedIsTypeOK == TypeInv /\ overrun \in BOOLEAN => TypeOK
<1> SUFFICES ASSUME TypeInv, overrun \in BOOLEAN PROVE TypeOK
  OBVIOUS
<1>1. buffer_index \in Indices
  <2>1. nkeys \in 0..MaxKeys /\ buffer_index < 3 * nkeys /\ buffer_index \in Int /\ buffer_index >= -1
    BY DEF TypeInv, ActivationInv, Pending, Activation
  <2> QED
    BY <2>1, InputAssumption DEF Indices
<1>2. \A f \in 1..Len(stack) : stack[f] \in Activation
  BY ElementOfSeq DEF TypeInv
<1>3. \A n \in 1..Len(buf) : buf[n] \in Bytes
  BY ElementOfSeq DEF TypeInv, ReaderInv
<1> QED
  BY <1>1, <1>2, <1>3 DEF TypeInv, TypeOK, ReaderInv, Activation, Bytes

\* While one key is handled at a time, every variable keeps its range, whatever is
\* typed, whenever: the index is never more than the characters typed.
THEOREM TypeTheorem ==
  ASSUME MaxDepth = 1
  PROVE  Spec => []TypeOK
<1> DEFINE Ran == overrun \in BOOLEAN
<1>1. Init => Ran
  BY DEF Init
<1>2. Ran /\ [Next]_vars => Ran'
  BY OverrunSteps DEF Store
<1>3. TypeInv /\ Ran => TypeOK
  BY TypedIsTypeOK
<1>4. TypeInv /\ [Next]_vars => TypeInv'
  BY StepTyped
<1> HIDE DEF Ran
<1> QED
  BY <1>1, <1>2, <1>3, <1>4, InitTyped, PTL DEF Spec

(***************************************************************************)
(* A line typed with care is what is read.                                 *)
(***************************************************************************)
Typing(k) == k \in Chars \cup {"tab"}

\* What a key adds to the line: copies of the byte it stores, or nothing.
LEMMA TextFacts ==
  ASSUME NEW k \in Keys
  PROVE  /\ TextOf(k) \in Seq(Chars \cup {SPACE})
         /\ Typing(k) => /\ Len(TextOf(k)) \in 1..3 /\ Len(TextOf(k)) = (IF k = "tab" THEN 3 ELSE 1)
                         /\ \A n \in 1..Len(TextOf(k)) : TextOf(k)[n] = Byte(k)
                         /\ k \notin {"enter", "release", "backspace", "swap"}
         /\ ~Typing(k) => TextOf(k) = <<>> /\ k \in {"enter", "release", "backspace", "swap"}
<1>1. /\ Chars \cap {"enter", "release", "backspace", "tab", "swap"} = {}
      /\ k \in Chars \cup {"enter", "release", "backspace", "tab", "swap"}
  BY InputAssumption DEF Special
<1>2. CASE k \in Chars
  <2>1. TextOf(k) = <<k>> /\ k # "enter" /\ k # "tab" /\ Byte(k) = k
    BY <1>1, <1>2 DEF TextOf, Byte
  <2> QED
    BY <1>1, <1>2, <2>1 DEF Typing
<1>3. CASE k = "tab"
  <2>1. TextOf(k) = <<SPACE, SPACE, SPACE>> /\ Byte(k) = SPACE
    BY <1>1, <1>3 DEF TextOf, Byte
  <2>2. TextOf(k) \in Seq({SPACE}) /\ Len(TextOf(k)) = 3
    BY <2>1
  <2>3. \A n \in 1..3 : TextOf(k)[n] = SPACE
    BY <2>1
  <2> QED
    BY <1>1, <1>3, <2>1, <2>2, <2>3 DEF Typing
<1>4. CASE k \notin Chars /\ k # "tab"
  BY <1>1, <1>4, EmptySeq DEF TextOf, Typing
<1> QED
  BY <1>2, <1>3, <1>4

\* What the handler and terminal_read leave alone.
Watched == <<shown, line, entered, disturbed, swapped, erased>>

\* The line of the terminal of the program is a sequence of characters.
LEMMA LineTyped ==
  ASSUME LineInv
  PROVE  /\ Line \in Seq(Chars \cup {SPACE}) /\ Len(Line) \in Nat
         /\ \A n \in 1..Len(Line) : Line[n] # NL
<1>1. Line \in Seq(Chars \cup {SPACE})
  BY DEF LineInv, Line, Home
<1>2. NL \notin Chars \cup {SPACE}
  <2>1. NL # SPACE
    BY Zenon DEF NL, SPACE
  <2> QED
    BY <2>1, InputAssumption
<1> QED
  BY <1>1, <1>2, ElementOfSeq

\* A line that lost its last character.
LEMMA FrontOf ==
  ASSUME NEW S, NEW s \in Seq(S), s # <<>>
  PROVE  /\ Front(s) \in Seq(S) /\ Len(Front(s)) = Len(s) - 1
         /\ \A n \in 1..Len(Front(s)) : Front(s)[n] = s[n]
<1>1. Len(s) \in Nat \ {0}
  BY EmptySeq
<1> DEFINE m == Len(s) - 1
<1>2. m \in Nat /\ \A n \in 1..m : s[n] \in S
  BY <1>1, ElementOfSeq
<1>3. Front(s) = SubSeq(s, 1, m)
  BY DEF Front
<1>4. \A n \in Int : n - 1 + 1 = n /\ 1 + n - 1 = n
  OBVIOUS
<1> HIDE DEF m
<1>5. /\ SubSeq(s, 1, m) \in Seq(S)
      /\ Len(SubSeq(s, 1, m)) = IF 1 <= m THEN m - 1 + 1 ELSE 0
      /\ \A n \in 1..(m - 1 + 1) : SubSeq(s, 1, m)[n] = s[1 + n - 1]
  BY <1>2, SubSeqProperties
<1>6. Len(Front(s)) = m /\ \A n \in 1..m : Front(s)[n] = s[n]
  BY <1>2, <1>3, <1>4, <1>5
<1> QED
  BY <1>3, <1>5, <1>6 DEF m

\* TypeInv bounds the index by the keys pressed.
LEMMA IndexInRange == TypeInv => buffer_index \in Indices
<1> SUFFICES ASSUME TypeInv PROVE buffer_index \in Indices
  OBVIOUS
<1>1. nkeys \in 0..MaxKeys /\ buffer_index < 3 * nkeys /\ buffer_index \in Int /\ buffer_index >= -1
  BY DEF TypeInv, ActivationInv, Pending, Activation
<1> QED
  BY <1>1, InputAssumption DEF Indices

\* A line is typed with care as long as nothing is typed.
LEMMA InitCare == Init => LineInv
<1> SUFFICES ASSUME Init PROVE LineInv
  OBVIOUS
<1>1. line \in [0..1 -> Seq(Chars \cup {SPACE})] /\ Line = <<>> /\ Len(Line) = 0
  BY EmptySeq DEF Init, Line, Home
<1>2. /\ stack = <<>> /\ rpc = "user" /\ buffer_index = -1 /\ enter_flag = 0 /\ shown = Home
      /\ shown \in 0..1
  BY DEF Init, Home
<1>3. /\ ~entered /\ entered \in BOOLEAN /\ disturbed \in BOOLEAN /\ swapped \in BOOLEAN
      /\ erased \in BOOLEAN
  BY Zenon DEF Init
<1>4. Stored = 0 /\ Holds /\ IndexInv
  BY <1>1, <1>2, <1>3 DEF Stored, Unstored, Holds, IndexInv
<1>5. CareInv
  BY <1>2, <1>4, <1>3 DEF CareInv
<1> QED
  BY <1>1, <1>2, <1>5, <1>3 DEF LineInv

\* A key that comes with care changes the line, and leaves its bytes to be stored.
LEMMA ArriveCare ==
  ASSUME MaxDepth = 1, TypeInv, LineInv, CareInv, NEW k \in Keys, Arrive(k),
         Careful(k), k # "swap"
  PROVE  CareInv'
<1> DEFINE T == TextOf(k)
<1>0. /\ stack = <<>> /\ stack' # <<>> /\ Act'.pc = "start" /\ Act'.key = k
  BY ArriveAct
<1>1. /\ stack = <<>> /\ stack' # <<>> /\ Act'.pc = "start" /\ Act'.key = k
      /\ key_buffer' = key_buffer /\ buffer_index' = buffer_index /\ enter_flag' = enter_flag
      /\ rpc' = rpc /\ i' = i /\ buf' = buf /\ shown' = Home /\ shown = Home
      /\ entered' = (entered \/ k = "enter")
      /\ entered \in BOOLEAN
      /\ k = "enter" => rpc = "wait"
      /\ entered => k = "release" /\ rpc # "wait"
  BY <1>0 DEF Arrive, kbd, read, Careful, CareInv, LineInv
<1>2. /\ Line \in Seq(Chars \cup {SPACE}) /\ Len(Line) \in Nat
      /\ Line' = IF k = "backspace" /\ Line # <<>> THEN Front(Line) ELSE Line \o T
  BY <1>1, LineTyped DEF Arrive, Line, LineInv, Home
<1>3. /\ rpc \notin {"clear", "done"} => Holds
      /\ Stored = Len(Line)
      /\ IF entered THEN rpc \notin {"clear", "done"} => buffer_index = Len(Line)
         ELSE buffer_index = Len(Line) - 1
  BY <1>1, <1>2 DEF CareInv, IndexInv, Stored, Unstored
<1>4. CASE Typing(k)
  <2>1. /\ T \in Seq(Chars \cup {SPACE}) /\ Len(T) \in 1..3 /\ \A n \in 1..Len(T) : T[n] = Byte(k)
        /\ k \notin {"enter", "release", "backspace", "swap"} /\ k \in Chars \cup {"tab"}
    BY <1>4, TextFacts DEF Typing
  <2>2. ~entered /\ ~entered' /\ rpc \in {"user", "wait"}
    BY <1>1, <2>1 DEF CareInv
  <2>3. Unstored' = Len(T)
    BY <1>1, <2>1 DEF Unstored
  <2> HIDE DEF T
  <2>4. /\ Len(Line') = Len(Line) + Len(T)
        /\ \A n \in 1..Len(Line) : Line'[n] = Line[n]
        /\ \A n \in (Len(Line) + 1)..Len(Line') : Line'[n] = Byte(k)
    <3>1. Line' = Line \o T
      BY <1>2, <2>1
    <3>2. /\ Len(Line \o T) = Len(Line) + Len(T)
          /\ \A n \in 1..(Len(Line) + Len(T)) :
                (Line \o T)[n] = IF n <= Len(Line) THEN Line[n] ELSE T[n - Len(Line)]
      BY <1>2, <2>1, ConcatProperties
    <3> QED
      BY <1>2, <2>1, <3>1, <3>2
  <2>5. Stored' = Len(Line)
    BY <1>2, <2>3, <2>4, <2>1 DEF Stored
  <2>6. Holds'
    BY <1>1, <1>3, <2>2, <2>4, <2>5 DEF Holds
  <2>7. IndexInv'
    BY <1>1, <1>3, <2>1, <2>2, <2>5 DEF IndexInv
  <2> QED
    BY <1>1, <1>2, <2>1, <2>2, <2>3, <2>4, <2>5, <2>6, <2>7 DEF CareInv
<1>5. CASE ~Typing(k) /\ k # "backspace"
  <2>1. Line' = Line /\ k \in {"enter", "release"} /\ k \notin Chars \cup {"tab"}
    BY <1>2, <1>5, TextFacts, ConcatEmptySeq DEF Typing
  <2>2. Unstored' = 0 /\ Stored' = Stored
    BY <1>1, <1>2, <1>3, <2>1 DEF Unstored, Stored
  <2>3. Holds => Holds'
    BY <1>1, <2>1, <2>2 DEF Holds
  <2>4. IndexInv'
    BY <1>1, <1>3, <2>1, <2>2 DEF IndexInv
  <2>5. entered' => EnteredInv'
    BY <1>1, <2>1 DEF CareInv, EnteredInv, Ended
  <2>6. ~entered' => rpc \in {"user", "wait"} /\ k # "enter"
    BY <1>1 DEF CareInv
  <2> QED
    BY <1>1, <1>3, <2>1, <2>2, <2>3, <2>4, <2>5, <2>6 DEF CareInv
<1>6. CASE k = "backspace"
  <2>1. k \notin Chars \cup {"tab"} /\ ~entered /\ ~entered'
    BY <1>1, <1>6, InputAssumption DEF Special
  <2>2. Unstored' = 0 /\ Stored' = Len(Line')
    <3>1. Unstored' = 0
      BY <1>1, <2>1 DEF Unstored
    <3>2. Len(Line') \in Nat
      <4>1. Line \o T = Line
        BY <1>2, <1>6, <2>1, TextFacts, ConcatEmptySeq DEF Typing
      <4> QED
        BY <1>2, <4>1, FrontOf
    <3> QED
      BY <3>1, <3>2 DEF Stored
  <2>3. CASE Line = <<>>
    <3>1. Line' = <<>> /\ Len(Line') = 0
      BY <1>2, <2>1, <2>3, <1>6, TextFacts, ConcatEmptySeq DEF Typing
    <3> QED
      BY <1>1, <1>3, <1>6, <2>1, <2>2, <2>3, <3>1 DEF CareInv, IndexInv, Holds
  <2>4. CASE Line # <<>>
    <3>1. Len(Line') = Len(Line) - 1 /\ \A n \in 1..Len(Line') : Line'[n] = Line[n]
      BY <1>2, <1>6, <2>4, FrontOf
    <3>2. Holds => Holds'
      BY <1>1, <1>2, <1>3, <2>2, <3>1 DEF Holds
    <3> QED
      BY <1>1, <1>2, <1>3, <1>6, <2>1, <2>2, <3>1, <3>2 DEF CareInv, IndexInv
  <2> QED
    BY <2>3, <2>4
<1> QED
  BY <1>4, <1>5, <1>6

\* The branches of the handler.
LEMMA DispatchCare ==
  ASSUME TypeInv, LineInv, CareInv, Dispatch
  PROVE  CareInv'
<1>1. /\ stack # <<>> /\ Top = Act /\ Act.pc = "start"
      /\ Act \in Activation /\ Act.key \in Keys /\ Act.key # "swap"
  <2>1. stack # <<>> /\ Top = Act /\ Act.pc = "start" /\ Act \in Activation
    BY AtPoint DEF Dispatch
  <2> QED
    BY <2>1 DEF CareInv, Activation
<1>2. /\ Line' = Line /\ entered' = entered /\ shown' = shown /\ entered \in BOOLEAN
      /\ rpc' = rpc /\ i' = i /\ buf' = buf /\ key_buffer' = key_buffer
      /\ buffer_index' = buffer_index /\ buffer_index \in Int
      /\ enter_flag' = Flag(Act.key)
  BY <1>1 DEF Dispatch, user, read, Line, LineInv, TypeInv
<1>3. Line \in Seq(Chars \cup {SPACE}) /\ Len(Line) \in Nat
  BY LineTyped
<1>4. CASE Typing(Act.key)
  <2> DEFINE f == [Act EXCEPT !.pc = "load", !.left = IF Act.key = "tab" THEN 3 ELSE 1]
  <2>1. /\ Act.key \notin {"enter", "release", "backspace", "swap"} /\ Act.key \in Chars \cup {"tab"}
        /\ Len(TextOf(Act.key)) = (IF Act.key = "tab" THEN 3 ELSE 1)
    BY <1>1, <1>4, TextFacts DEF Typing
  <2>2. Become(f)
    BY <1>1, <2>1 DEF Dispatch
  <2>3. f \in Activation /\ f.pc = "load" /\ f.key = Act.key /\ f.left = Len(TextOf(Act.key))
    <3> DEFINE l == IF Act.key = "tab" THEN 3 ELSE 1
    <3>1. l \in 0..3 /\ l = Len(TextOf(Act.key))
      BY <2>1
    <3> HIDE DEF l
    <3>2. LET g == [Act EXCEPT !.pc = "load", !.left = l]
          IN g \in Activation /\ g.pc = "load" /\ g.key = Act.key /\ g.left = l
      BY <1>1, <3>1 DEF Activation
    <3> QED
      BY <3>1, <3>2 DEF l
  <2> HIDE DEF f
  <2>4. stack' # <<>> /\ Act' = f
    BY <1>1, <2>2, <2>3, BecomeAct
  <2>5. Unstored' = Unstored /\ Stored' = Stored
    BY <1>1, <1>2, <2>1, <2>3, <2>4 DEF Unstored, Stored
  <2>6. ~entered /\ enter_flag' = enter_flag
    BY <1>1, <1>2, <2>1 DEF CareInv, EnteredInv, Flag
  <2>7. IndexInv' /\ (Holds => Holds')
    BY <1>1, <1>2, <2>1, <2>3, <2>4, <2>5, <2>6 DEF CareInv, IndexInv, Holds
  <2> QED
    BY <1>1, <1>2, <2>1, <2>3, <2>4, <2>5, <2>6, <2>7 DEF CareInv
<1>5. CASE Act.key = "enter"
  <2> DEFINE f == [Act EXCEPT !.pc = "load", !.left = IF Act.key = "tab" THEN 3 ELSE 1]
  <2>1. Act.key \notin Chars \cup {"tab"} /\ entered /\ rpc = "wait"
    BY <1>1, <1>2, <1>5, InputAssumption DEF Special, CareInv, EnteredInv
  <2>2. Become(f)
    BY <1>1, <1>5 DEF Dispatch
  <2>3. f \in Activation /\ f.pc = "load" /\ f.key = "enter"
    <3> DEFINE l == IF Act.key = "tab" THEN 3 ELSE 1
    <3>1. l \in 0..3
      OBVIOUS
    <3> HIDE DEF l
    <3>2. LET g == [Act EXCEPT !.pc = "load", !.left = l]
          IN g \in Activation /\ g.pc = "load" /\ g.key = Act.key
      BY <1>1, <3>1 DEF Activation
    <3> QED
      BY <1>5, <3>2 DEF l
  <2> HIDE DEF f
  <2>4. stack' # <<>> /\ Act' = f
    BY <1>1, <2>2, <2>3, BecomeAct
  <2>5. Unstored' = Unstored /\ Stored' = Stored /\ Unstored = 0
    BY <1>1, <1>2, <1>5, <2>1, <2>3, <2>4 DEF Unstored, Stored
  <2>6. IndexInv' /\ Holds'
    BY <1>1, <1>2, <1>5, <2>1, <2>3, <2>4, <2>5 DEF CareInv, IndexInv, Holds
  <2>7. EnteredInv'
    BY <1>2, <2>1, <2>3, <2>4 DEF EnteredInv
  <2> QED
    BY <1>2, <1>5, <2>1, <2>3, <2>4, <2>6, <2>7 DEF CareInv
<1>6. CASE Act.key = "backspace" /\ MayErase
  <2> DEFINE f == [Act EXCEPT !.pc = "loadBack"]
  <2>1. Act.key \notin Chars \cup {"tab"} /\ ~entered
    BY <1>1, <1>2, <1>6, InputAssumption DEF Special, CareInv, EnteredInv
  <2>2. Become(f)
    BY <1>1, <1>6, <2>1 DEF Dispatch
  <2>3. f \in Activation /\ f.pc = "loadBack" /\ f.key = "backspace"
    BY <1>1, <1>6 DEF Activation
  <2> HIDE DEF f
  <2>4. stack' # <<>> /\ Act' = f
    BY <1>1, <2>2, <2>3, BecomeAct
  <2>5. Unstored' = Unstored /\ Stored' = Stored
    BY <1>1, <1>2, <1>6, <2>1, <2>3, <2>4 DEF Unstored, Stored
  <2>6. IndexInv' /\ (Holds => Holds')
    BY <1>1, <1>2, <1>6, <2>1, <2>3, <2>4, <2>5 DEF CareInv, IndexInv, Holds
  <2> QED
    BY <1>2, <1>6, <2>1, <2>3, <2>4, <2>6 DEF CareInv, Flag
<1>7. CASE Act.key = "release" \/ (Act.key = "backspace" /\ ~MayErase)
  <2>1. Act.key \notin Chars \cup {"tab"} /\ Act.key \notin {"enter", "swap"}
    BY <1>1, <1>7, InputAssumption DEF Special
  <2>2. stack' = <<>>
    <3>1. Leave
      BY <1>1, <1>7, <2>1 DEF Dispatch
    <3> QED
      BY <1>1, <3>1, LeaveEmpty
  <2>3. Unstored' = 0 /\ Unstored = 0 /\ Stored' = Stored
    BY <1>1, <1>2, <2>1, <2>2 DEF Unstored, Stored
  <2>4. IndexInv' /\ (Holds => Holds')
    BY <1>1, <1>2, <1>3, <1>7, <2>1, <2>2, <2>3 DEF CareInv, IndexInv, Holds, MayErase
  <2>5. entered => EnteredInv'
    BY <1>1, <1>2, <2>1, <2>2 DEF CareInv, EnteredInv, Ended
  <2>6. enter_flag' = 1 => enter_flag = 1
    BY <1>2, <2>1 DEF Flag
  <2> QED
    BY <1>1, <1>2, <2>1, <2>2, <2>4, <2>5, <2>6 DEF CareInv
<1> QED
  BY <1>1, <1>4, <1>5, <1>6, <1>7, TextFacts

\* The steps of buffer_index++ and buffer_index--.
LEMMA CountCare ==
  ASSUME TypeInv, LineInv, CareInv, LoadIndex \/ Increment \/ Decrement \/ LoadPlace
  PROVE  CareInv'
<1>1. /\ stack # <<>> /\ Top = Act /\ Act \in Activation /\ ActivationInv
      /\ Act.key # "swap" /\ Act.pc \in {"load", "loadBack", "inc", "dec", "index"}
  <2>1. stack # <<>> /\ Top = Act /\ Act \in Activation /\ ActivationInv
        /\ Act.pc \in {"load", "loadBack", "inc", "dec", "index"}
    BY AtPoint DEF LoadIndex, Increment, Decrement, LoadPlace
  <2> QED
    BY <2>1 DEF CareInv
<1>2. /\ Line' = Line /\ entered' = entered /\ shown' = shown /\ entered \in BOOLEAN
      /\ rpc' = rpc /\ i' = i /\ buf' = buf /\ key_buffer' = key_buffer
      /\ enter_flag' = enter_flag /\ buffer_index \in Int
  BY DEF LoadIndex, Increment, Decrement, LoadPlace, kbd, user, read, Line, LineInv, TypeInv
<1>3. Line \in Seq(Chars \cup {SPACE}) /\ Len(Line) \in Nat
  BY LineTyped
<1>4. ASSUME NEW f \in Activation, Become(f), f.key = Act.key, f.left = Act.left,
             Act.key \in Printing,
             \/ Act.pc = "load" /\ f.pc = "inc" /\ buffer_index' = buffer_index
             \/ Act.pc = "inc" /\ f.pc = "index" /\ buffer_index' = buffer_index + 1
             \/ Act.pc = "index" /\ f.pc = "store" /\ buffer_index' = buffer_index
      PROVE  CareInv'
  <2>1. stack' # <<>> /\ Act' = f
    BY <1>1, <1>4, BecomeAct
  <2>2. Unstored' = Unstored /\ Stored' = Stored /\ Stored \in Int
    BY <1>1, <1>2, <1>3, <1>4, <2>1 DEF Unstored, Stored, Activation
  <2>3. Act.key \in Chars \cup {"enter", "tab"} /\ Act.key # "release" /\ Act.key # "backspace"
    BY <1>4, InputAssumption DEF Printing, Special
  <2>4. IndexInv'
    BY <1>1, <1>2, <1>3, <1>4, <2>1, <2>2, <2>3 DEF CareInv, EnteredInv, IndexInv
  <2>5. Holds => Holds'
    BY <1>2, <2>2 DEF Holds
  <2>6. entered => EnteredInv'
    BY <1>1, <1>2, <1>4, <2>1, <2>3 DEF CareInv, EnteredInv, Ended
  <2> QED
    BY <1>1, <1>2, <1>4, <2>1, <2>2, <2>4, <2>5, <2>6 DEF CareInv
<1>5. CASE LoadIndex /\ Act.pc = "load"
  <2> DEFINE f == [Act EXCEPT !.tmp = buffer_index, !.pc = "inc"]
  <2>1. f \in Activation /\ f.pc = "inc" /\ f.key = Act.key /\ f.left = Act.left
    BY <1>1, IndexInRange DEF Activation
  <2>2. Become(f) /\ buffer_index' = buffer_index
    BY <1>1, <1>5 DEF LoadIndex, kbd
  <2> HIDE DEF f
  <2> QED
    BY <1>1, <1>4, <1>5, <2>1, <2>2 DEF ActivationInv
<1>6. CASE Increment
  <2> DEFINE f == [Act EXCEPT !.pc = "index"]
  <2>0. Act.pc = "inc"
    BY <1>6, AtPoint DEF Increment
  <2>1. f \in Activation /\ f.pc = "index" /\ f.key = Act.key /\ f.left = Act.left
    BY <1>1 DEF Activation
  <2>2. Become(f) /\ buffer_index' = buffer_index + 1
    BY <1>1, <1>6, <2>0 DEF Increment, ActivationInv
  <2> HIDE DEF f
  <2> QED
    BY <1>1, <1>4, <2>0, <2>1, <2>2 DEF ActivationInv
<1>7. CASE LoadPlace
  <2> DEFINE f == [Act EXCEPT !.tmp = buffer_index, !.pc = "store"]
  <2>0. Act.pc = "index"
    BY <1>7, AtPoint DEF LoadPlace
  <2>1. f \in Activation /\ f.pc = "store" /\ f.key = Act.key /\ f.left = Act.left
    BY <1>1, IndexInRange DEF Activation
  <2>2. Become(f) /\ buffer_index' = buffer_index
    BY <1>1, <1>7 DEF LoadPlace, kbd
  <2> HIDE DEF f
  <2> QED
    BY <1>1, <1>4, <2>0, <2>1, <2>2 DEF ActivationInv
<1>8. CASE LoadIndex /\ Act.pc = "loadBack"
  <2> DEFINE f == [Act EXCEPT !.tmp = buffer_index, !.pc = "dec"]
  <2>1. f \in Activation /\ f.pc = "dec" /\ f.key = "backspace"
    BY <1>1, <1>8, IndexInRange DEF Activation, ActivationInv
  <2>2. Become(f) /\ buffer_index' = buffer_index
    BY <1>1, <1>8 DEF LoadIndex, kbd
  <2> HIDE DEF f
  <2>3. stack' # <<>> /\ Act' = f
    BY <1>1, <2>1, <2>2, BecomeAct
  <2>4. Act.key = "backspace" /\ Act.key \notin Chars \cup {"tab"} /\ ~entered
    BY <1>1, <1>2, <1>8, InputAssumption DEF Special, CareInv, EnteredInv, ActivationInv
  <2>5. Unstored' = Unstored /\ Stored' = Stored
    BY <1>1, <1>2, <2>1, <2>3, <2>4 DEF Unstored, Stored
  <2>6. IndexInv' /\ (Holds => Holds')
    BY <1>1, <1>2, <2>1, <2>2, <2>3, <2>4, <2>5 DEF CareInv, IndexInv, Holds
  <2> QED
    BY <1>2, <2>1, <2>3, <2>4, <2>6 DEF CareInv
<1>9. CASE Decrement
  <2>1. Act.pc = "dec" /\ stack' = <<>>
    BY <1>1, <1>9, AtPoint, LeaveEmpty DEF Decrement
  <2>2. Act.key = "backspace" /\ Act.key \notin Chars \cup {"tab"} /\ ~entered
    BY <1>1, <1>2, <2>1, InputAssumption DEF Special, CareInv, EnteredInv, ActivationInv
  <2>3. buffer_index' = buffer_index - 1 /\ buffer_index >= 0
    BY <1>1, <1>9, <2>1 DEF Decrement, ActivationInv
  <2>4. Unstored' = 0 /\ Unstored = 0 /\ Stored' = Stored
    BY <1>1, <1>2, <2>1, <2>2 DEF Unstored, Stored
  <2>5. IndexInv' /\ (Holds => Holds')
    BY <1>1, <1>2, <1>3, <2>1, <2>2, <2>3, <2>4 DEF CareInv, IndexInv, Holds
  <2> QED
    BY <1>2, <2>1, <2>2, <2>5 DEF CareInv
<1> QED
  BY <1>1, <1>5, <1>6, <1>7, <1>8, <1>9, AtPoint DEF LoadIndex

\* The handler stores a byte and goes on to the next one, or to the echo.
LEMMA StoreMoves ==
  ASSUME TypeInv, Store
  PROVE  /\ stack' # <<>> /\ Act'.key = Act.key /\ Act'.left = Act.left - 1
         /\ Act'.pc = IF Act.left = 1 THEN "echo" ELSE "load"
<1> DEFINE label == IF Act.left = 1 THEN "echo" ELSE "load"
           l     == Act.left - 1
           f     == [Act EXCEPT !.left = l, !.pc = label]
<1>1. stack # <<>> /\ Top = Act /\ Act \in Activation /\ Act.left \in 1..3
  BY AtPoint DEF Store, ActivationInv, Activation
<1>2. l \in 0..3 /\ label \in {"echo", "load"}
  BY <1>1
<1>3. Become(f)
  BY <1>1 DEF Store
<1> HIDE DEF l, label
<1>4. f \in Activation /\ f.pc = label /\ f.key = Act.key /\ f.left = l
  BY <1>1, <1>2 DEF Activation
<1> HIDE DEF f
<1>5. stack' # <<>> /\ Act' = f
  BY <1>1, <1>3, <1>4, BecomeAct
<1> QED
  BY <1>4, <1>5 DEF l, label

\* A character goes to its place, the next one of the line, or the newline after it.
LEMMA StoreCare ==
  ASSUME TypeInv, LineInv, CareInv, Store
  PROVE  CareInv'
<1>1. /\ stack # <<>> /\ Top = Act /\ Act \in Activation /\ ActivationInv /\ Act.pc = "store"
      /\ Act.key \in Printing /\ Act.left \in 1..3 /\ Act.tmp = buffer_index
      /\ Act.key # "tab" => Act.left = 1
  BY AtPoint DEF Store, ActivationInv, Activation
<1>2. /\ Line' = Line /\ entered' = entered /\ shown' = shown /\ entered \in BOOLEAN
      /\ rpc' = rpc /\ i' = i /\ buf' = buf /\ enter_flag' = enter_flag
      /\ buffer_index \in Int /\ buffer_index' = buffer_index
      /\ key_buffer \in [Positions -> Bytes]
      /\ key_buffer' = IF buffer_index \in Positions
                       THEN [key_buffer EXCEPT ![buffer_index] = Byte(Act.key)] ELSE key_buffer
  BY <1>1 DEF Store, user, read, Line, LineInv, TypeInv
<1>3. Line \in Seq(Chars \cup {SPACE}) /\ Len(Line) \in Nat
  BY LineTyped
<1>4. /\ stack' # <<>> /\ Act'.key = Act.key /\ Act'.left = Act.left - 1
      /\ Act'.pc = IF Act.left = 1 THEN "echo" ELSE "load"
  BY StoreMoves
<1>5. CASE Act.key = "enter"
  <2>1. Act.key \notin Chars \cup {"tab"} /\ entered /\ rpc = "wait"
    BY <1>1, <1>2, <1>5, InputAssumption DEF Special, CareInv, EnteredInv
  <2>2. Unstored = 0 /\ Unstored' = 0 /\ Stored = Len(Line) /\ Stored' = Len(Line)
    BY <1>1, <1>2, <1>3, <1>4, <2>1 DEF Unstored, Stored
  <2>3. buffer_index = Len(Line) /\ IndexInv'
    BY <1>1, <1>2, <1>4, <1>5, <2>1 DEF CareInv, IndexInv
  <2>4. Holds'
    BY <1>2, <1>3, <2>1, <2>2, <2>3, InputAssumption DEF CareInv, Holds, Positions
  <2>5. Ended'
    BY <1>2, <1>3, <1>5, <2>3, InputAssumption DEF Ended, Positions, Byte
  <2> QED
    BY <1>1, <1>2, <1>4, <1>5, <2>1, <2>3, <2>4, <2>5 DEF CareInv, EnteredInv
<1>6. CASE Act.key # "enter"
  <2>1. /\ Act.key \in Chars \cup {"tab"} /\ ~entered /\ rpc \in {"user", "wait"}
        /\ Act.key # "release" /\ Act.key # "backspace"
    BY <1>1, <1>2, <1>6, InputAssumption DEF Special, CareInv, EnteredInv, Printing
  <2>2. /\ Unstored = Act.left /\ Unstored' = Act.left - 1
        /\ Stored = Len(Line) - Act.left /\ Stored' = Stored + 1 /\ Stored \in Nat
        /\ \A n \in (Stored + 1)..Len(Line) : Line[n] = Byte(Act.key)
    BY <1>1, <1>2, <1>3, <1>4, <2>1 DEF Unstored, Stored, CareInv
  <2>3. buffer_index = Stored /\ IndexInv'
    BY <1>1, <1>2, <1>4, <2>1, <2>2 DEF CareInv, IndexInv
  <2>4. Holds
    BY <2>1 DEF CareInv
  <2>5. ASSUME NEW n \in 1..Stored', n <= EXTENDED_BUFFER
        PROVE  key_buffer'[n - 1] = Line[n]
    <3>1. CASE n = Stored + 1
      <4>1. n - 1 = buffer_index /\ buffer_index \in Positions /\ Line[n] = Byte(Act.key)
        BY <1>1, <1>3, <2>2, <2>3, <2>5, <3>1, InputAssumption DEF Positions
      <4> QED
        BY <1>2, <4>1
    <3>2. CASE n # Stored + 1
      <4>1. n \in 1..Stored /\ n - 1 # buffer_index /\ n - 1 \in Positions
        BY <2>2, <2>3, <2>5, <3>2, InputAssumption DEF Positions
      <4>2. key_buffer[n - 1] = Line[n]
        BY <2>4, <2>5, <4>1 DEF Holds
      <4> QED
        BY <1>2, <4>1, <4>2
    <3> QED
      BY <3>1, <3>2
  <2>6. Holds'
    BY <1>2, <2>5 DEF Holds
  <2>7. \A n \in (Stored' + 1)..Len(Line) : Line[n] = Byte(Act.key)
    BY <1>3, <2>2
  <2> QED
    BY <1>1, <1>2, <1>3, <1>4, <1>6, <2>1, <2>2, <2>3, <2>6, <2>7 DEF CareInv
<1> QED
  BY <1>5, <1>6

\* The handler ends when the bytes of its key are stored.
LEMMA EchoCare ==
  ASSUME TypeInv, LineInv, CareInv, Echo
  PROVE  CareInv'
<1>1. stack # <<>> /\ Top = Act /\ Act \in Activation /\ Act.pc = "echo"
  BY AtPoint DEF Echo
<1>2. /\ Line' = Line /\ entered' = entered /\ shown' = shown /\ entered \in BOOLEAN
      /\ rpc' = rpc /\ i' = i /\ buf' = buf /\ key_buffer' = key_buffer
      /\ enter_flag' = enter_flag /\ buffer_index' = buffer_index
  BY DEF Echo, kbd, user, read, Line, LineInv
<1>3. stack' = <<>>
  BY <1>1, LeaveEmpty DEF Echo
<1>4. Act.key \in Chars \cup {"enter", "tab"} /\ Act.key \notin {"release", "backspace"} /\ Act.left = 0
  BY <1>1, AtPoint, InputAssumption DEF Echo, ActivationInv, Printing, Special
<1>5. Unstored = 0 /\ Unstored' = 0 /\ Stored' = Stored /\ Stored = Len(Line)
  BY <1>1, <1>2, <1>3, <1>4, LineTyped DEF Unstored, Stored
<1>6. IndexInv' /\ (Holds => Holds')
  BY <1>1, <1>2, <1>3, <1>4, <1>5 DEF CareInv, EnteredInv, IndexInv, Holds
<1>7. entered => EnteredInv'
  BY <1>1, <1>2, <1>3, <1>4 DEF CareInv, EnteredInv, Ended
<1> QED
  BY <1>1, <1>2, <1>3, <1>5, <1>6, <1>7 DEF CareInv

\* Every step of the handler keeps CareInv.
LEMMA HandlerCare ==
  ASSUME TypeInv, LineInv, CareInv, Handler
  PROVE  CareInv'
BY DispatchCare, CountCare, StoreCare, EchoCare DEF Handler

(***************************************************************************)
(* terminal_read takes the line: no handler is running.                    *)
(***************************************************************************)
LEMMA FirstOfNext ==
  ASSUME NEW S, NEW s \in Seq(S), NEW n \in Nat, n < Len(s)
  PROVE  Append(SubSeq(s, 1, n), s[n + 1]) = SubSeq(s, 1, n + 1)
<1>1. n + 1 \in 1..Len(s) /\ 1 \in 1..Len(s) /\ n + 1 - 1 = n
  OBVIOUS
<1>2. SubSeq(s, 1, n + 1) = SubSeq(s, 1, n + 1 - 1) \o <<s[n + 1]>>
  BY <1>1, SubSeqRecursiveSecond
<1>3. SubSeq(s, 1, n) \in Seq(S)
  BY ElementOfSeq, SubSeqProperties
<1> QED
  BY <1>1, <1>2, <1>3

\* A byte of the line that key_buffer holds.
LEMMA HeldAt ==
  ASSUME Holds, NEW p \in Nat, p + 1 \in 1..Stored, p + 1 <= EXTENDED_BUFFER
  PROVE  key_buffer[p] = Line[p + 1]
<1> DEFINE n == p + 1
<1>1. n \in 1..Stored /\ n <= EXTENDED_BUFFER /\ n - 1 = p
  OBVIOUS
<1> HIDE DEF n
<1>2. key_buffer[n - 1] = Line[n]
  BY <1>1 DEF Holds
<1> QED
  BY <1>1, <1>2 DEF n

\* The line goes on, or the newline that ends what is read is added.
LEMMA CopyCare ==
  ASSUME TypeInv, LineInv, CareInv, Copy
  PROVE  CareInv'
<1> USE InputAssumption
<1>1. /\ stack = <<>> /\ stack' = <<>> /\ rpc = "copy"
      /\ Line' = Line /\ entered' = entered /\ shown' = shown /\ entered \in BOOLEAN
      /\ key_buffer' = key_buffer /\ enter_flag' = enter_flag /\ buffer_index' = buffer_index
      /\ i \in Nat /\ i <= NBYTES /\ buf \in Seq(Bytes)
  BY DEF Copy, Reader, kbd, user, Line, LineInv, TypeInv, ReaderInv
<1>2. /\ Line \in Seq(Chars \cup {SPACE}) /\ Len(Line) \in Nat
      /\ \A n \in 1..Len(Line) : Line[n] # NL
  BY LineTyped
<1>3. /\ entered /\ i <= Len(Line) /\ buf = SubSeq(Line, 1, i) /\ Ended /\ Holds
      /\ Stored = Len(Line) /\ Stored' = Stored
  BY <1>1, <1>2 DEF CareInv, EnteredInv, Stored, Unstored
<1>4. i < NBYTES => (key_buffer[i] # NL <=> i < Len(Line))
  <2>1. CASE i < NBYTES /\ i < Len(Line)
    <3>1. i + 1 \in 1..Len(Line) /\ i + 1 <= EXTENDED_BUFFER /\ i + 1 - 1 = i
      BY <1>1, <1>2, <2>1
    <3>2. key_buffer[i] = Line[i + 1]
      BY <1>1, <1>3, <3>1, HeldAt
    <3> QED
      BY <1>2, <2>1, <3>1, <3>2
  <2>2. CASE i < NBYTES /\ ~(i < Len(Line))
    <3>1. i = Len(Line) /\ i < EXTENDED_BUFFER
      BY <1>1, <1>2, <1>3, <2>2
    <3> QED
      BY <1>3, <3>1, <2>2 DEF Ended
  <2> QED
    BY <2>1, <2>2
<1>5. CASE i < NBYTES /\ key_buffer[i] # NL
  <2>1. i < Len(Line) /\ i' = i /\ rpc' = "fetch" /\ buf' = buf
    BY <1>4, <1>5 DEF Copy
  <2>2. EnteredInv'
    BY <1>1, <1>3, <2>1 DEF EnteredInv, Ended
  <2>3. IndexInv' /\ Holds'
    BY <1>1, <1>3, <2>1 DEF CareInv, IndexInv, Holds
  <2> QED
    BY <1>1, <1>3, <2>1, <2>2, <2>3 DEF CareInv
<1>6. CASE ~(i < NBYTES /\ key_buffer[i] # NL)
  <2>1. i' = i /\ rpc' = "reset" /\ buf' = Append(buf, NL)
    BY <1>6 DEF Copy
  <2>2. i = IF Len(Line) < NBYTES THEN Len(Line) ELSE NBYTES
    <3>1. NBYTES \in Nat
      OBVIOUS
    <3> QED
      BY <1>1, <1>2, <1>3, <1>4, <1>6, <3>1
  <2>3. buf = FirstOf(Line)
    BY <1>3, <2>2 DEF FirstOf
  <2>4. buf' = FirstOf(Line) \o <<NL>>
    <3>1. NL \in Bytes
      BY DEF Bytes
    <3> QED
      BY <1>1, <2>1, <2>3, <3>1
  <2>5. EnteredInv'
    BY <1>1, <2>1, <2>4 DEF EnteredInv
  <2>6. IndexInv' /\ Holds'
    BY <1>1, <1>3, <2>1 DEF CareInv, IndexInv, Holds
  <2> QED
    BY <1>1, <1>3, <2>1, <2>5, <2>6 DEF CareInv
<1> QED
  BY <1>5, <1>6

\* The byte copied is the next one of the line.
LEMMA FetchCare ==
  ASSUME TypeInv, LineInv, CareInv, Fetch
  PROVE  CareInv'
<1> USE InputAssumption
<1>1. /\ stack = <<>> /\ stack' = <<>> /\ rpc = "fetch" /\ rpc' = "copy"
      /\ Line' = Line /\ entered' = entered /\ shown' = shown /\ entered \in BOOLEAN
      /\ key_buffer' = key_buffer /\ enter_flag' = enter_flag /\ buffer_index' = buffer_index
      /\ i \in Nat /\ i < NBYTES /\ i' = i + 1 /\ buf' = Append(buf, key_buffer[i])
  BY DEF Fetch, Reader, kbd, user, Line, LineInv, TypeInv, ReaderInv
<1>2. Line \in Seq(Chars \cup {SPACE}) /\ Len(Line) \in Nat
  BY LineTyped
<1>3. /\ entered /\ i < Len(Line) /\ buf = SubSeq(Line, 1, i) /\ Ended /\ Holds
      /\ Stored = Len(Line) /\ Stored' = Stored
  BY <1>1, <1>2 DEF CareInv, EnteredInv, Stored, Unstored
<1>4. key_buffer[i] = Line[i + 1]
  <2>1. i + 1 \in 1..Len(Line) /\ i + 1 <= EXTENDED_BUFFER
    BY <1>1, <1>2, <1>3
  <2> QED
    BY <1>1, <1>3, <2>1, HeldAt
<1>5. buf' = SubSeq(Line, 1, i')
  BY <1>1, <1>2, <1>3, <1>4, FirstOfNext
<1>6. EnteredInv'
  BY <1>1, <1>2, <1>3, <1>5 DEF EnteredInv, Ended
<1>7. IndexInv' /\ Holds'
  BY <1>1, <1>3 DEF CareInv, IndexInv, Holds
<1> QED
  BY <1>1, <1>3, <1>6, <1>7 DEF CareInv

\* Every step of terminal_read keeps CareInv.
LEMMA ReadCare ==
  ASSUME TypeInv, LineInv, CareInv, Call \/ Read
  PROVE  CareInv'
<1>0. stack = <<>> /\ stack' = <<>> /\ shown' = Home
  BY DEF Call, Read, Wake, Take, Copy, Fetch, Reset, Clear, Return, Resume, Reader, user, CareInv
<1>1. Line \in Seq(Chars \cup {SPACE}) /\ Len(Line) \in Nat /\ Stored = Len(Line)
  BY <1>0, LineTyped DEF Stored, Unstored
<1>2. entered \in BOOLEAN
  BY DEF LineInv
<1>3. CASE Call \/ Wake \/ Take
  <2>1. \/ rpc = "user" /\ rpc' = "wait" /\ i' = i /\ enter_flag' = enter_flag
        \/ rpc = "wait" /\ rpc' = "take" /\ i' = i /\ enter_flag = 1 /\ enter_flag' = enter_flag
        \/ rpc = "take" /\ rpc' = "copy" /\ i' = 0 /\ buf' = <<>> /\ enter_flag' = 0
    BY <1>3 DEF Call, Wake, Take, Reader, FlagTaken, kbd
  <2>2. Line' = Line /\ entered' = entered /\ key_buffer' = key_buffer /\ buffer_index' = buffer_index
    BY <1>3 DEF Call, Wake, Take, kbd, user, Line
  <2>3. Stored' = Stored
    BY <1>0, <1>1, <2>2 DEF Stored, Unstored
  <2>4. IndexInv' /\ Holds'
    BY <1>0, <2>1, <2>2, <2>3 DEF CareInv, IndexInv, Holds
  <2>5. entered => EnteredInv'
    <3>1. SubSeq(Line, 1, 0) = <<>>
      BY SubSeqEmpty
    <3>2. ASSUME entered PROVE Ended /\ Ended' /\ rpc # "user"
      BY <1>0, <2>1, <2>2, <3>2 DEF CareInv, EnteredInv, Ended
    <3>3. rpc' = "copy" => i' <= Len(Line') /\ buf' = SubSeq(Line', 1, i')
      BY <1>1, <2>1, <2>2, <3>1
    <3> QED
      BY <1>0, <2>1, <2>2, <3>2, <3>3 DEF EnteredInv
  <2>6. entered \/ rpc = "user"
    BY <2>1 DEF CareInv
  <2> QED
    BY <1>0, <2>1, <2>2, <2>4, <2>5, <2>6 DEF CareInv
<1>4. CASE Reset \/ Clear \/ Return
  <2>1. /\ Line' = Line /\ entered' = entered /\ enter_flag' = enter_flag /\ buf' = buf
        /\ rpc \in {"reset", "clear"} /\ rpc' \in {"clear", "done"}
        /\ buffer_index' = -1
    BY <1>4 DEF Reset, Clear, Return, Reader, kbd, user, Line, CareInv, EnteredInv, IndexAfterRead
  <2>2. entered
    BY <2>1 DEF CareInv
  <2>3. EnteredInv' /\ IndexInv'
    BY <1>0, <2>1, <2>2 DEF CareInv, EnteredInv, IndexInv
  <2> QED
    BY <1>0, <2>1, <2>2, <2>3 DEF CareInv
<1>5. CASE Resume
  <2>1. /\ rpc = "done" /\ rpc' = "user" /\ ~entered' /\ enter_flag' = enter_flag
        /\ buffer_index' = buffer_index /\ Line' = <<>>
    BY <1>5 DEF Resume, Reader, kbd, Line, LineInv, Home
  <2>2. buffer_index = -1 /\ enter_flag # 1
    BY <2>1 DEF CareInv, EnteredInv
  <2>3. Unstored' = 0 /\ Len(Line') = 0 /\ Stored' = 0
    BY <1>0, <2>1, EmptySeq DEF Stored, Unstored
  <2>4. IndexInv' /\ Holds'
    BY <1>0, <2>1, <2>2, <2>3 DEF IndexInv, Holds
  <2> QED
    BY <1>0, <2>1, <2>2, <2>4 DEF CareInv
<1> QED
  BY <1>3, <1>4, <1>5, CopyCare, FetchCare DEF Read

\* LineInv is inductive, with TypeInv.
LEMMA StepCare ==
  ASSUME MaxDepth = 1, TypeInv, LineInv, [Next]_vars
  PROVE  LineInv'
<1>1. /\ line' \in [0..1 -> Seq(Chars \cup {SPACE})] /\ shown' \in 0..1
      /\ entered' \in BOOLEAN /\ disturbed' \in BOOLEAN /\ swapped' \in BOOLEAN /\ erased' \in BOOLEAN
  <2>1. ASSUME NEW k \in Keys, Arrive(k)
        PROVE  line' \in [0..1 -> Seq(Chars \cup {SPACE})]
    <3> DEFINE l == line[shown]
    <3>1. l \in Seq(Chars \cup {SPACE}) /\ l \o TextOf(k) \in Seq(Chars \cup {SPACE})
          /\ (l # <<>> => Front(l) \in Seq(Chars \cup {SPACE}))
      BY TextFacts, ConcatProperties, FrontOf DEF LineInv
    <3> QED
      BY <2>1, <3>1 DEF Arrive, LineInv
  <2>2. ASSUME NEW k \in Keys, Arrive(k)
        PROVE  /\ shown' \in 0..1 /\ entered' \in BOOLEAN /\ disturbed' \in BOOLEAN
               /\ swapped' \in BOOLEAN /\ erased' \in BOOLEAN
    BY <2>2 DEF Arrive, LineInv
  <2>3. CASE Resume
    BY <2>3, EmptySeq DEF Resume, LineInv, Home
  <2>4. CASE UNCHANGED Watched
    BY <2>4 DEF Watched, LineInv
  <2>5. Handler \/ Call \/ (Read /\ ~Resume) \/ UNCHANGED vars => UNCHANGED Watched
    BY DEF Handler, Dispatch, LoadIndex, Increment, Decrement, LoadPlace, Store, Echo, Call, Read,
           Wake, Take, Copy, Fetch, Reset, Clear, Return, user, vars, Watched
  <2> QED
    BY <2>1, <2>2, <2>3, <2>4, <2>5 DEF Next
<1>2. ASSUME ~disturbed', ~swapped' PROVE CareInv'
  <2>1. ASSUME NEW k \in Keys, Arrive(k) PROVE CareInv'
    <3>1. ~disturbed /\ ~swapped /\ Careful(k) /\ k # "swap"
      BY <1>2, <2>1 DEF Arrive, LineInv
    <3> QED
      BY <2>1, <3>1, ArriveCare DEF LineInv
  <2>2. ASSUME Handler \/ Call \/ Read \/ UNCHANGED vars PROVE ~disturbed /\ ~swapped
    BY <1>2, <2>2 DEF Handler, Dispatch, LoadIndex, Increment, Decrement, LoadPlace, Store, Echo, Call,
           Read, Wake, Take, Copy, Fetch, Reset, Clear, Return, Resume, user, vars
  <2>3. CASE UNCHANGED vars
    <3>1. CareInv
      BY <2>2, <2>3 DEF LineInv
    <3> QED
      BY <2>3, <3>1 DEF vars, kbd, read, user, CareInv, IndexInv, EnteredInv, Holds, Ended, Stored,
                         Unstored, Line, Act
  <2> QED
    BY <2>1, <2>2, <2>3, HandlerCare, ReadCare DEF Next, LineInv
<1> QED
  BY <1>1, <1>2 DEF LineInv

\* The index is in the array as long as the handler did not store outside it.
LEMMA StepRun ==
  ASSUME MaxDepth = 1, TypeInv, LineInv, RunInv, [Next]_vars
  PROVE  RunInv'
<1> USE InputAssumption
<1>1. buffer_index \in Int /\ EXTENDED_BUFFER \in Nat /\ EXTENDED_BUFFER > 0
  BY DEF TypeInv
<1>2. CASE overrun
  <2>1. UNCHANGED vars
    BY <1>2, OverrunSteps
  <2> QED
    BY <1>2, <2>1 DEF vars, kbd, user, RunInv, AtStore, Act, Line
<1>3. CASE ~overrun /\ Store
  <2>1. /\ stack # <<>> /\ Top = Act /\ Act \in Activation /\ ActivationInv /\ Act.pc = "store"
        /\ Act.key \in Printing /\ Act.left \in 1..3 /\ Act.tmp = buffer_index
    BY <1>3, AtPoint DEF Store, ActivationInv, Activation
  <2>2. /\ stack' # <<>> /\ Act'.key = Act.key
        /\ Act'.pc = IF Act.left = 1 THEN "echo" ELSE "load"
    BY <1>3, StoreMoves
  <2>3. ~AtStore' /\ AtStore
    BY <2>1, <2>2 DEF AtStore
  <2>4. /\ buffer_index' = buffer_index /\ Line' = Line /\ entered' = entered
        /\ disturbed' = disturbed /\ swapped' = swapped
        /\ \/ buffer_index \in Positions /\ overrun' = overrun
           \/ buffer_index \notin Positions /\ overrun' = TRUE
    BY <1>3, <2>1 DEF Store, user, Line
  <2>5. buffer_index >= 0
    BY <2>1 DEF ActivationInv
  <2>6. CASE buffer_index \in Positions
    BY <1>1, <1>3, <2>3, <2>4, <2>6 DEF RunInv, Positions
  <2>7. CASE buffer_index \notin Positions
    <3>1. buffer_index >= EXTENDED_BUFFER
      BY <1>1, <2>5, <2>7 DEF Positions
    <3>2. ASSUME ~disturbed, ~swapped
          PROVE  Len(Line) + (IF entered THEN 1 ELSE 0) > EXTENDED_BUFFER
      <4>1. CareInv /\ Len(Line) \in Nat /\ entered \in BOOLEAN
        BY <3>2, LineTyped DEF LineInv
      <4>2. CASE Act.key = "enter"
        <5>1. entered /\ rpc = "wait"
          BY <2>1, <4>1, <4>2 DEF CareInv, EnteredInv
        <5>2. buffer_index = Len(Line)
          BY <2>1, <4>1, <4>2, <5>1 DEF CareInv, IndexInv
        <5> QED
          BY <1>1, <3>1, <4>1, <5>1, <5>2
      <4>3. CASE Act.key # "enter"
        <5>1. Act.key \in Chars \cup {"tab"} /\ Act.key # "release" /\ Act.key # "backspace"
          BY <2>1, <4>3 DEF Printing, Special
        <5>2. ~entered
          BY <2>1, <4>1, <4>3, <5>1 DEF CareInv, EnteredInv
        <5>3. Unstored = Act.left
          BY <2>1, <5>1 DEF Unstored
        <5>4. buffer_index = Len(Line) - Act.left
          BY <2>1, <4>1, <5>1, <5>2, <5>3 DEF CareInv, IndexInv, Stored
        <5> QED
          BY <1>1, <2>1, <3>1, <4>1, <5>2, <5>4
      <4> QED
        BY <4>2, <4>3
    <3> QED
      BY <2>2, <2>4, <2>7, <3>1, <3>2 DEF RunInv
  <2> QED
    BY <2>6, <2>7
<1>4. CASE ~overrun /\ ~Store
  <2>1. ~overrun' /\ overrun' \in BOOLEAN
    BY <1>4, OverrunSteps DEF RunInv
  <2>2. buffer_index' < EXTENDED_BUFFER + (IF AtStore' THEN 1 ELSE 0)
    <3>1. buffer_index < EXTENDED_BUFFER + (IF AtStore THEN 1 ELSE 0)
      BY <1>4 DEF RunInv
    <3>2. ASSUME NEW k \in Keys, Arrive(k) PROVE buffer_index' < EXTENDED_BUFFER
      <4>1. stack = <<>> /\ buffer_index' = buffer_index
        BY <3>2, ArriveAct DEF Arrive, kbd
      <4> QED
        BY <3>1, <4>1 DEF AtStore
    <3>3. CASE Call \/ Read
      <4>1. stack = <<>> /\ buffer_index' \in {buffer_index, -1}
        BY <3>3 DEF Call, Read, Wake, Take, Copy, Fetch, Reset, Clear, Return, Resume, Reader, kbd,
                    IndexAfterRead
      <4> QED
        BY <1>1, <3>1, <4>1 DEF AtStore
    <3>4. CASE Dispatch \/ Echo \/ (LoadIndex /\ Act.pc # "index")
      <4>1. buffer_index' = buffer_index /\ ~AtStore
        BY <3>4, AtPoint DEF Dispatch, Echo, LoadIndex, AtStore, kbd
      <4> QED
        BY <1>1, <3>1, <4>1
    <3>5. CASE Decrement
      <4>1. buffer_index' = buffer_index - 1
        BY <3>5, AtPoint DEF Decrement, ActivationInv
      <4> QED
        BY <1>1, <3>1, <4>1
    <3>6. CASE Increment
      <4>1. Act.pc = "inc" /\ Act \in Activation /\ Become([Act EXCEPT !.pc = "index"]) /\ stack # <<>>
            /\ buffer_index' = buffer_index + 1
        BY <3>6, AtPoint DEF Increment, ActivationInv
      <4> DEFINE f == [Act EXCEPT !.pc = "index"]
      <4>2. f \in Activation /\ f.pc = "index"
        BY <4>1 DEF Activation
      <4>3. Become(f)
        BY <4>1
      <4> HIDE DEF f
      <4>4. stack' # <<>> /\ Act' = f
        BY <4>1, <4>2, <4>3, BecomeAct
      <4>5. ~AtStore /\ AtStore'
        BY <4>1, <4>2, <4>4 DEF AtStore
      <4> QED
        BY <1>1, <3>1, <4>1, <4>5
    <3>7. CASE LoadPlace
      <4>1. Act.pc = "index" /\ Act \in Activation /\ Become([Act EXCEPT !.tmp = buffer_index, !.pc = "store"])
            /\ stack # <<>> /\ buffer_index' = buffer_index
        BY <3>7, AtPoint DEF LoadPlace, kbd
      <4> DEFINE f == [Act EXCEPT !.tmp = buffer_index, !.pc = "store"]
      <4>2. f \in Activation /\ f.pc = "store"
        BY <4>1, IndexInRange DEF Activation
      <4>3. Become(f)
        BY <4>1
      <4> HIDE DEF f
      <4>4. stack' # <<>> /\ Act' = f
        BY <4>1, <4>2, <4>3, BecomeAct
      <4>5. AtStore /\ AtStore'
        BY <4>1, <4>2, <4>4 DEF AtStore
      <4> QED
        BY <3>1, <4>1, <4>5
    <3>8. CASE UNCHANGED vars
      BY <3>1, <3>8 DEF vars, kbd, AtStore, Act
    <3>9. LoadIndex => Act.pc # "index"
      BY AtPoint DEF LoadIndex
    <3>10. EXTENDED_BUFFER <= EXTENDED_BUFFER + (IF AtStore' THEN 1 ELSE 0)
      BY <1>1
    <3>11. buffer_index' \in Int
      BY StepTyped DEF TypeInv
    <3>12. buffer_index' < EXTENDED_BUFFER => buffer_index' < EXTENDED_BUFFER + (IF AtStore' THEN 1 ELSE 0)
      BY <1>1, <3>11
    <3> QED
      BY <1>4, <3>2, <3>3, <3>4, <3>5, <3>6, <3>7, <3>8, <3>9, <3>12 DEF Next, Handler
  <2> QED
    BY <2>1, <2>2 DEF RunInv
<1> QED
  BY <1>2, <1>3, <1>4

\* The three together are inductive.
LineIInv == TypeInv /\ LineInv /\ RunInv

LEMMA InitLine == Init => LineIInv
<1>1. Init => RunInv
  <2> SUFFICES ASSUME Init PROVE RunInv
    OBVIOUS
  <2>1. ~overrun /\ overrun \in BOOLEAN
    BY Zenon DEF Init
  <2>2. buffer_index < EXTENDED_BUFFER + (IF AtStore THEN 1 ELSE 0)
    BY InputAssumption DEF Init, AtStore
  <2> QED
    BY <2>1, <2>2 DEF RunInv
<1> QED
  BY <1>1, InitTyped, InitCare DEF LineIInv

LEMMA StepLine == MaxDepth = 1 /\ LineIInv /\ [Next]_vars => LineIInv'
BY StepTyped, StepCare, StepRun DEF LineIInv

\* What the three properties say follows.
LEMMA CareIsRead == LineIInv => ReadsTheLine /\ IndexCountsLine /\ WithinBuffer
<1> SUFFICES ASSUME LineIInv PROVE ReadsTheLine /\ IndexCountsLine /\ WithinBuffer
  OBVIOUS
<1>0. TypeInv /\ LineInv /\ RunInv
  BY DEF LineIInv
<1>1. rpc = "done" /\ ~disturbed /\ ~swapped => buf = FirstOf(Line) \o <<NL>>
  BY <1>0 DEF LineInv, CareInv, EnteredInv
<1>2. ASSUME stack = <<>>, ~disturbed, ~swapped, rpc \in {"user", "wait"}, ~entered
      PROVE  /\ buffer_index = Len(Line) - 1
             /\ \A n \in 1..Len(Line) : key_buffer[n - 1] = Line[n]
  <2>1. CareInv
    BY <1>0, <1>2 DEF LineInv
  <2>2. Stored = Len(Line) /\ Len(Line) \in Nat
    BY <1>0, <1>2, LineTyped DEF Stored, Unstored
  <2>3. buffer_index = Len(Line) - 1
    BY <1>2, <2>1 DEF CareInv, IndexInv
  <2>4. Len(Line) <= EXTENDED_BUFFER
    BY <1>0, <1>2, <2>2, <2>3, InputAssumption DEF RunInv, AtStore
  <2> QED
    BY <1>2, <2>1, <2>2, <2>3, <2>4, InputAssumption DEF CareInv, Holds
<1>3. WithinBuffer
  BY <1>0 DEF RunInv, WithinBuffer, Line
<1> QED
  BY <1>1, <1>2, <1>3 DEF ReadsTheLine, IndexCountsLine, Line

\* A program reads the line the user saw when pressing Enter, cut to what it asked
\* for, whatever was erased, when the user stayed on one terminal and did not type
\* while the line was being taken.  The line and its newline fit key_buffer: another
\* one ends the behaviour before it is read.
THEOREM ReadsTheLineTheorem ==
  ASSUME MaxDepth = 1
  PROVE  Spec => []ReadsTheLine
<1>1. LineIInv /\ [Next]_vars => LineIInv'
  BY StepLine
<1>2. LineIInv => ReadsTheLine
  BY CareIsRead
<1> QED
  BY <1>1, <1>2, InitLine, PTL DEF Spec

\* Between two reads the index counts the characters of the line on the screen, and
\* key_buffer holds them.
THEOREM IndexTheorem ==
  ASSUME MaxDepth = 1
  PROVE  Spec => []IndexCountsLine
<1>1. LineIInv /\ [Next]_vars => LineIInv'
  BY StepLine
<1>2. LineIInv => IndexCountsLine
  BY CareIsRead
<1> QED
  BY <1>1, <1>2, InitLine, PTL DEF Spec

\* Whatever is typed, and whenever, no byte is stored in front of key_buffer; and
\* with care none behind it, as long as the line and its newline fit.
THEOREM WithinBufferTheorem ==
  ASSUME MaxDepth = 1
  PROVE  Spec => []WithinBuffer
<1>1. LineIInv /\ [Next]_vars => LineIInv'
  BY StepLine
<1>2. LineIInv => WithinBuffer
  BY CareIsRead
<1> QED
  BY <1>1, <1>2, InitLine, PTL DEF Spec

(***************************************************************************)
(* What is read is in the order it was typed.                              *)
(***************************************************************************)
Kept(S, v, T, w) == \A n \in T : IsText(w[n]) => n \in S /\ v[n] = w[n]

\* Fewer positions, wider limits.
LEMMA FitsWithin ==
  ASSUME NEW t, NEW S, NEW v, NEW f, NEW lo \in Int, NEW hi \in Int,
         Fits(t, S, v, f, lo, hi),
         NEW T, NEW w, NEW lo2 \in Int, NEW hi2 \in Int, lo2 <= lo, hi <= hi2,
         Kept(S, v, T, w)
  PROVE  Fits(t, T, w, f, lo2, hi2)
<1> USE DEF Kept
<1> SUFFICES ASSUME NEW n \in T, IsText(w[n])
             PROVE  /\ f[n] \in (lo2 + 1)..hi2 /\ t[f[n]] = w[n]
                    /\ \A m \in T : m < n /\ IsText(w[m]) => f[m] < f[n]
  BY DEF Fits
<1>1. n \in S /\ v[n] = w[n]
  OBVIOUS
<1>2. f[n] \in (lo + 1)..hi /\ t[f[n]] = v[n] /\ \A m \in S : m < n /\ IsText(v[m]) => f[m] < f[n]
  BY <1>1, Zenon DEF Fits
<1> QED
  BY <1>1, <1>2

\* What was typed stays where it is when more is typed.
LEMMA FitsAfterTyping ==
  ASSUME NEW C, NEW t \in Seq(C), NEW u \in Seq(C), NEW S, NEW v, NEW f,
         NEW lo \in Nat, NEW hi \in 0..Len(t), Fits(t, S, v, f, lo, hi)
  PROVE  Fits(t \o u, S, v, f, lo, hi)
<1> SUFFICES ASSUME NEW n \in S, IsText(v[n]) PROVE (t \o u)[f[n]] = t[f[n]]
  BY Zenon DEF Fits
<1>1. f[n] \in (lo + 1)..hi
  BY Zenon DEF Fits
<1>2. f[n] \in 1..Len(t) /\ Len(u) \in Nat /\ Len(t) \in Nat
  BY <1>1
<1> QED
  BY <1>2, ConcatProperties

\* Of the positions in T all but p are in S, below p; p has the character at c of t.
OneMore(t, c, S, v, T, w, p) ==
  w[p] = t[c] /\ \A n \in T : n # p /\ IsText(w[n]) => n \in S /\ v[n] = w[n] /\ n < p /\ n \in Int

\* A character after all the others, found after all theirs.
LEMMA FitsOneMore ==
  ASSUME NEW t, NEW S, NEW v, NEW f, NEW lo \in Int, NEW hi \in Int,
         Fits(t, S, v, f, lo, hi), lo <= hi,
         NEW p \in Int, NEW c \in Int, c > hi, NEW w,
         NEW T, OneMore(t, c, S, v, T, w, p)
  PROVE  \E g : Fits(t, T, w, g, lo, c)
<1> USE DEF OneMore
<1> DEFINE g == [n \in S \cup {p} |-> IF n = p THEN c ELSE f[n]]
<1>1. ASSUME NEW n \in T, IsText(w[n])
      PROVE  /\ g[n] \in (lo + 1)..c /\ t[g[n]] = w[n]
             /\ \A m \in T : m < n /\ IsText(w[m]) => g[m] < g[n]
  <2>1. \A m \in T : m # p /\ IsText(w[m]) =>
          /\ m \in S /\ v[m] = w[m] /\ m < p /\ m \in Int
          /\ g[m] = f[m] /\ f[m] \in (lo + 1)..hi /\ t[f[m]] = v[m]
    <3> SUFFICES ASSUME NEW m \in T, m # p, IsText(w[m])
                 PROVE  /\ m \in S /\ v[m] = w[m] /\ m < p /\ m \in Int
                        /\ g[m] = f[m] /\ f[m] \in (lo + 1)..hi /\ t[f[m]] = v[m]
      BY Zenon
    <3>1. m \in S /\ v[m] = w[m] /\ m < p /\ m \in Int
      OBVIOUS
    <3>2. f[m] \in (lo + 1)..hi /\ t[f[m]] = v[m]
      BY <3>1, Zenon DEF Fits
    <3> QED
      BY <3>1, <3>2
  <2>2. g[p] = c
    OBVIOUS
  <2> HIDE DEF g
  <2>3. CASE n = p
    BY <2>1, <2>2, <2>3
  <2>4. CASE n # p
    <3>1. n \in S /\ IsText(v[n]) /\ n < p /\ n \in Int /\ g[n] = f[n]
      BY <1>1, <2>1, <2>4
    <3>2. \A m \in S : m < n /\ IsText(v[m]) => f[m] < f[n]
      BY <3>1, Zenon DEF Fits
    <3>3. ASSUME NEW m \in T, m < n, IsText(w[m]) PROVE g[m] < g[n]
      <4>1. m # p
        <5>1. ~(p < n)
          BY <3>1
        <5> QED
          BY <3>3, <5>1
      <4> QED
        BY <2>1, <3>1, <3>2, <3>3, <4>1
    <3> QED
      BY <1>1, <2>1, <2>4, <3>3
  <2> QED
    BY <2>3, <2>4
<1> HIDE DEF g
<1> QED
  BY <1>1 DEF Fits

\* How TextIn goes through what was read.
LEMMA TextInSteps ==
  ASSUME NEW s \in Seq(Bytes)
  PROVE  \E x : /\ x[0] = <<>> /\ TextIn(s) = x[Len(s)]
                /\ \A n \in 1..Len(s) :
                     x[n] = IF IsText(s[n]) THEN Append(x[n - 1], s[n]) ELSE x[n - 1]
<1> DEFINE step == [a \in Seq(Bytes) \X (1..Len(s)) |->
                      IF IsText(s[a[2]]) THEN Append(a[1], s[a[2]]) ELSE a[1]]
<1>1. step \in [Seq(Bytes) \X (1..Len(s)) -> Seq(Bytes)]
  BY ElementOfSeq
<1>2. <<>> \in Seq(Bytes) /\ Len(s) \in Nat
  OBVIOUS
<1>3. PICK x \in [0..Len(s) -> Seq(Bytes)] :
        x[0] = <<>> /\ \A n \in 1..Len(s) : x[n] = step[<<x[n - 1], n>>]
  <2> DEFINE S == Seq(Bytes)
             l == Len(s)
             b == <<>>
  <2>1. Stepping(step, S, l) /\ b \in S /\ l \in Nat
    BY <1>1, <1>2 DEF Stepping
  <2> HIDE DEF step, S, l, b
  <2>2. \E x : Recursive(x, l, S, b, step)
    BY <2>1, Recursion
  <2> QED
    BY <2>2 DEF S, l, b, Recursive
<1>4. ASSUME NEW n \in 1..Len(s)
      PROVE  x[n] = IF IsText(s[n]) THEN Append(x[n - 1], s[n]) ELSE x[n - 1]
  <2>1. n - 1 \in 0..Len(s)
    BY <1>2
  <2>2. <<x[n - 1], n>> \in Seq(Bytes) \X (1..Len(s))
    BY <1>3, <2>1
  <2>3. x[n] = step[<<x[n - 1], n>>]
    BY <1>3
  <2> QED
    BY <2>2, <2>3
<1>5. x = [n \in 0..Len(s) |-> IF n = 0 THEN <<>>
             ELSE IF IsText(s[n]) THEN Append(x[n - 1], s[n]) ELSE x[n - 1]]
  <2>1. \A n \in 0..Len(s) : n # 0 => n \in 1..Len(s)
    BY <1>2
  <2>2. \A n \in 0..Len(s) : x[n] = IF n = 0 THEN <<>>
             ELSE IF IsText(s[n]) THEN Append(x[n - 1], s[n]) ELSE x[n - 1]
    BY <1>3, <1>4, <2>1, Zenon
  <2> QED
    BY <2>2
<1>6. \E z : z = [n \in 0..Len(s) |-> IF n = 0 THEN <<>>
             ELSE IF IsText(s[n]) THEN Append(z[n - 1], s[n]) ELSE z[n - 1]]
  BY <1>5
<1> DEFINE y[n \in 0..Len(s)] == IF n = 0 THEN <<>>
             ELSE IF IsText(s[n]) THEN Append(y[n - 1], s[n]) ELSE y[n - 1]
<1>7. y = [n \in 0..Len(s) |-> IF n = 0 THEN <<>>
             ELSE IF IsText(s[n]) THEN Append(y[n - 1], s[n]) ELSE y[n - 1]]
  BY <1>6, Zenon
<1>8. TextIn(s) = y[Len(s)]
  BY Zenon DEF TextIn
<1> HIDE DEF y
<1>9. y[0] = <<>> /\ \A n \in 1..Len(s) :
             y[n] = IF IsText(s[n]) THEN Append(y[n - 1], s[n]) ELSE y[n - 1]
  <2>1. 0 \in 0..Len(s) /\ \A n \in 1..Len(s) : n \in 0..Len(s) /\ n # 0
    BY <1>2
  <2>2. \A n \in 0..Len(s) : y[n] = IF n = 0 THEN <<>>
             ELSE IF IsText(s[n]) THEN Append(y[n - 1], s[n]) ELSE y[n - 1]
    BY <1>7
  <2> QED
    BY <2>1, <2>2, Zenon
<1> QED
  BY <1>8, <1>9

\* The characters of what was read join what was delivered before.
LEMMA TextDelivered ==
  ASSUME NEW t, NEW r \in Seq(Bytes), NEW s \in Seq(Bytes), NEW c1 \in Nat, NEW c2 \in Nat, c1 <= c2,
         NEW d, Fits(t, 1..Len(r), r, d, 0, c1), \A n \in 1..Len(r) : IsText(r[n]),
         NEW f, Fits(t, 1..Len(s), s, f, c1, c2)
  PROVE  LET w == r \o TextIn(s)
         IN /\ w \in Seq(Bytes) /\ \A n \in 1..Len(w) : IsText(w[n])
            /\ \E e : Fits(t, 1..Len(w), w, e, 0, c2)
<1>0. Len(s) \in Nat /\ Len(r) \in Nat
  OBVIOUS
<1>1. PICK x : /\ x[0] = <<>> /\ TextIn(s) = x[Len(s)]
               /\ \A n \in 1..Len(s) :
                    x[n] = IF IsText(s[n]) THEN Append(x[n - 1], s[n]) ELSE x[n - 1]
  BY TextInSteps
\* After n bytes: the characters found so far end before those still to come.
<1> DEFINE w(n) == r \o x[n]
           Good(n) == /\ x[n] \in Seq(Bytes) /\ \A m \in 1..Len(w(n)) : IsText(w(n)[m])
                      /\ \E h \in c1..c2 : /\ \A m \in (n + 1)..Len(s) : IsText(s[m]) => h < f[m]
                                          /\ \E e : Fits(t, 1..Len(w(n)), w(n), e, 0, h)
           T == {n \in Nat : n <= Len(s) => Good(n)}
<1>2. 0 \in T
  <2>1. x[0] \in Seq(Bytes) /\ w(0) = r
    BY <1>1, ConcatEmptySeq
  <2>2. \A m \in 1..Len(s) : IsText(s[m]) => c1 < f[m]
    BY DEF Fits
  <2>3. 0 + 1 = 1 /\ c1 \in c1..c2
    OBVIOUS
  <2> HIDE DEF w
  <2>4. Good(0)
    BY <2>1, <2>2, <2>3
  <2> QED
    BY <2>4
<1>3. ASSUME NEW n \in Nat, n \in T PROVE n + 1 \in T
  <2> DEFINE q == n + 1
  <2> HIDE DEF Good
  <2>1. SUFFICES ASSUME q <= Len(s) PROVE Good(q)
    OBVIOUS
  <2>2. Good(n) /\ q \in 1..Len(s) /\ q - 1 = n /\ q \in (n + 1)..Len(s)
    BY <1>0, <1>3, <2>1
  <2> USE DEF Good
  <2>3. PICK h \in c1..c2 : /\ \A m \in (n + 1)..Len(s) : IsText(s[m]) => h < f[m]
                            /\ \E e : Fits(t, 1..Len(w(n)), w(n), e, 0, h)
    BY <2>2
  <2>4. PICK e : Fits(t, 1..Len(w(n)), w(n), e, 0, h)
    BY <2>3
  <2>5. x[q] = IF IsText(s[q]) THEN Append(x[n], s[q]) ELSE x[n]
    BY <1>1, <2>2
  <2>6. x[n] \in Seq(Bytes) /\ \A m \in 1..Len(w(n)) : IsText(w(n)[m])
    BY <2>2
  <2>7. s[q] \in Bytes /\ h \in Int /\ h >= 0
    BY <2>2, ElementOfSeq
  <2>8. \A m \in (q + 1)..Len(s) : m \in (n + 1)..Len(s)
    BY <1>0, <1>3
  <2> HIDE DEF w, Good, T, q
  <2>9. CASE ~IsText(s[q])
    <3>1. x[q] = x[n] /\ w(q) = w(n)
      BY <2>5, <2>9 DEF w
    <3> QED
      BY <2>3, <2>4, <2>6, <2>8, <3>1 DEF Good
  <2>10. CASE IsText(s[q])
    <3> DEFINE u == w(n)
    <3>1. x[q] = Append(x[n], s[q]) /\ x[q] \in Seq(Bytes)
      BY <2>5, <2>6, <2>7, <2>10
    <3>2. u \in Seq(Bytes) /\ w(q) = Append(u, s[q])
      <4>1. u \in Seq(Bytes)
        BY <2>6, ConcatProperties DEF w
      <4>2. r \o Append(x[n], s[q]) = Append(r \o x[n], s[q])
        BY <2>6, <2>7
      <4> QED
        BY <3>1, <4>1, <4>2 DEF w
    <3> HIDE DEF u
    <3>3. /\ Len(w(q)) = Len(u) + 1 /\ Len(u) \in Nat /\ w(q)[Len(u) + 1] = s[q]
          /\ \A m \in 1..Len(u) : w(q)[m] = u[m]
      BY <2>7, <3>2
    <3>4. /\ f[q] \in (c1 + 1)..c2 /\ t[f[q]] = s[q] /\ h < f[q]
          /\ \A m \in 1..Len(s) : m < q /\ IsText(s[m]) => f[m] < f[q]
      BY <2>2, <2>3, <2>10, Zenon DEF Fits
    <3>5. \A m \in (q + 1)..Len(s) : IsText(s[m]) => f[q] < f[m]
      <4> SUFFICES ASSUME NEW m \in (q + 1)..Len(s), IsText(s[m]) PROVE f[q] < f[m]
        OBVIOUS
      <4>1. m \in 1..Len(s) /\ q < m
        BY <1>0, <2>2
      <4> QED
        BY <2>2, <2>10, <4>1, Zenon DEF Fits
    <3>6. \A m \in 1..Len(w(q)) : IsText(w(q)[m])
      BY <2>6, <2>10, <3>3 DEF u
    <3>7. \E g : Fits(t, 1..Len(w(q)), w(q), g, 0, f[q])
      <4>1. Fits(t, 1..Len(u), u, e, 0, h)
        BY <2>4 DEF u
      <4>2. \A m \in 1..Len(w(q)) : m # Len(u) + 1 /\ IsText(w(q)[m]) =>
              m \in 1..Len(u) /\ u[m] = w(q)[m] /\ m < Len(u) + 1
        BY <3>3
      <4>3. 1..Len(u) \subseteq Int /\ f[q] \in Int /\ f[q] > h /\ Len(u) + 1 \in Int
        BY <2>7, <3>3, <3>4
      <4> DEFINE S == 1..Len(u)
                 V == 1..Len(w(q))
                 p == Len(u) + 1
                 c == f[q]
                 z == w(q)
      <4>4. c \in Int /\ c > h /\ p \in Int /\ z[p] = t[c] /\ 0 <= h
            /\ Fits(t, S, u, e, 0, h)
            /\ OneMore(t, c, S, u, V, z, p) /\ 0 \in Int /\ h \in Int
        BY <2>7, <3>3, <3>4, <4>1, <4>2, <4>3 DEF OneMore
      <4> HIDE DEF S, V, p, c, z
      <4>5. \E g : Fits(t, V, z, g, 0, c)
        BY <4>4, FitsOneMore
      <4> QED
        BY <4>5 DEF V, c, z
    <3>8. f[q] \in c1..c2
      BY <3>4
    <3> QED
      BY <3>1, <3>5, <3>6, <3>7, <3>8 DEF Good
  <2> QED
    BY <2>9, <2>10
<1>4. Good(Len(s))
  <2>1. Len(s) \in T
    <3> HIDE DEF T
    <3> QED
      BY <1>0, <1>2, <1>3, Induction
  <2> QED
    <3> HIDE DEF Good
    <3> QED
      BY <1>0, <2>1
<1>5. PICK h \in c1..c2 : \E e : Fits(t, 1..Len(w(Len(s))), w(Len(s)), e, 0, h)
  BY <1>4
<1>6. PICK e : Fits(t, 1..Len(w(Len(s))), w(Len(s)), e, 0, h)
  BY <1>5
<1>7. w(Len(s)) = r \o TextIn(s)
  BY <1>1
<1>8. w(Len(s)) \in Seq(Bytes) /\ \A m \in 1..Len(w(Len(s))) : IsText(w(Len(s))[m])
  BY <1>4, ConcatProperties
<1> HIDE DEF w
<1> DEFINE v == w(Len(s))
<1>9. Fits(t, 1..Len(v), v, e, 0, c2)
  <2>1. 1..Len(v) \subseteq Int /\ h <= c2 /\ h \in Int /\ c2 \in Int
    OBVIOUS
  <2> HIDE DEF v
  <2>2. Fits(t, 1..Len(v), v, e, 0, h)
    BY <1>6 DEF v
  <2> QED
    BY <2>1, <2>2, FitsWithin DEF Kept
<1> QED
  BY <1>7, <1>8, <1>9

\* The increasing positions of Fits are found by match, from the left.
LEMMA FitsIsSubSequence ==
  ASSUME NEW t, Len(t) \in Nat, NEW s, Len(s) \in Nat, NEW d,
         Fits(t, 1..Len(s), s, d, 0, Len(t)), \A n \in 1..Len(s) : IsText(s[n])
  PROVE  IsSubSequence(s, t)
<1> DEFINE step == [a \in (0..Len(s)) \X (1..Len(t)) |->
              IF a[1] < Len(s) /\ s[a[1] + 1] = t[a[2]] THEN a[1] + 1 ELSE a[1]]
<1>1. step \in [(0..Len(s)) \X (1..Len(t)) -> 0..Len(s)]
  OBVIOUS
<1>2. PICK x \in [0..Len(t) -> 0..Len(s)] :
        x[0] = 0 /\ \A n \in 1..Len(t) : x[n] = step[<<x[n - 1], n>>]
  <2> DEFINE S == 0..Len(s)
             l == Len(t)
  <2>1. Stepping(step, S, l) /\ 0 \in S /\ l \in Nat
    BY <1>1 DEF Stepping
  <2> HIDE DEF step, S, l
  <2>2. \E x : Recursive(x, l, S, 0, step)
    BY <2>1, Recursion
  <2> QED
    BY <2>2 DEF S, l, Recursive
<1>3. \A n \in 0..Len(t) : x[n] = IF n = 0 THEN 0
             ELSE IF x[n - 1] < Len(s) /\ s[x[n - 1] + 1] = t[n] THEN x[n - 1] + 1 ELSE x[n - 1]
  <2>1. ASSUME NEW n \in 1..Len(t)
        PROVE  x[n] = IF x[n - 1] < Len(s) /\ s[x[n - 1] + 1] = t[n] THEN x[n - 1] + 1 ELSE x[n - 1]
    <3>1. n - 1 \in 0..Len(t)
      OBVIOUS
    <3>2. <<x[n - 1], n>> \in (0..Len(s)) \X (1..Len(t))
      BY <3>1
    <3>3. x[n] = step[<<x[n - 1], n>>]
      BY <1>2
    <3> QED
      BY <3>2, <3>3
  <2>2. \A n \in 0..Len(t) : n # 0 => n \in 1..Len(t)
    OBVIOUS
  <2> QED
    BY <1>2, <2>1, <2>2, Zenon
<1>4. \E z : z = [n \in 0..Len(t) |-> IF n = 0 THEN 0
             ELSE IF z[n - 1] < Len(s) /\ s[z[n - 1] + 1] = t[n] THEN z[n - 1] + 1 ELSE z[n - 1]]
  BY <1>3
<1> DEFINE match[n \in 0..Len(t)] == IF n = 0 THEN 0
             ELSE IF match[n - 1] < Len(s) /\ s[match[n - 1] + 1] = t[n]
                  THEN match[n - 1] + 1 ELSE match[n - 1]
<1>5. match = [n \in 0..Len(t) |-> IF n = 0 THEN 0
             ELSE IF match[n - 1] < Len(s) /\ s[match[n - 1] + 1] = t[n]
                  THEN match[n - 1] + 1 ELSE match[n - 1]]
  BY <1>4, Zenon
<1>6. IsSubSequence(s, t) <=> match[Len(t)] = Len(s)
  BY Zenon DEF IsSubSequence
<1> HIDE DEF match
<1>7. match[0] = 0 /\ \A n \in 1..Len(t) :
             match[n] = IF match[n - 1] < Len(s) /\ s[match[n - 1] + 1] = t[n]
                        THEN match[n - 1] + 1 ELSE match[n - 1]
  <2>1. 0 \in 0..Len(t) /\ \A n \in 1..Len(t) : n \in 0..Len(t) /\ n # 0
    OBVIOUS
  <2>2. \A n \in 0..Len(t) : match[n] = IF n = 0 THEN 0
             ELSE IF match[n - 1] < Len(s) /\ s[match[n - 1] + 1] = t[n]
                  THEN match[n - 1] + 1 ELSE match[n - 1]
    BY <1>5
  <2> QED
    BY <2>1, <2>2, Zenon
\* After n elements of t, every element of s found there by d is covered.
<1> DEFINE Good(n) == /\ match[n] \in 0..Len(s)
                      /\ \A m \in 1..Len(s) : d[m] <= n => m <= match[n]
           T == {n \in Nat : n <= Len(t) => Good(n)}
<1>8. \A m \in 1..Len(s) : /\ d[m] \in 1..Len(t) /\ t[d[m]] = s[m]
                           /\ \A k \in 1..Len(s) : k < m => d[k] < d[m]
  BY DEF Fits
<1>9. 0 \in T
  BY <1>7, <1>8
<1>10. ASSUME NEW n \in Nat, n \in T PROVE n + 1 \in T
  <2> DEFINE q == n + 1
  <2>1. SUFFICES ASSUME q <= Len(t) PROVE Good(q)
    OBVIOUS
  <2>2. Good(n) /\ q \in 1..Len(t) /\ q - 1 = n
    BY <1>10, <2>1
  <2>3. match[q] = IF match[n] < Len(s) /\ s[match[n] + 1] = t[q] THEN match[n] + 1 ELSE match[n]
    BY <1>7, <2>2
  <2>4. match[q] \in 0..Len(s) /\ match[n] \in 0..Len(s) /\ match[q] >= match[n]
    BY <2>2, <2>3
  <2>5. ASSUME NEW m \in 1..Len(s), d[m] <= q PROVE m <= match[q]
    <3>1. CASE d[m] <= n
      BY <2>2, <2>4, <3>1
    <3>2. CASE ~(d[m] <= n)
      <4>1. d[m] = q /\ t[q] = s[m]
        BY <1>8, <2>5, <3>2
      <4>2. ASSUME m > 1 PROVE m - 1 <= match[n]
        <5>1. m - 1 \in 1..Len(s) /\ m - 1 < m
          BY <4>2
        <5>2. d[m - 1] <= n
          BY <1>8, <4>1, <5>1
        <5> QED
          BY <2>2, <5>1, <5>2
      <4>3. m - 1 <= match[n]
        BY <2>4, <4>2
      <4>4. CASE match[n] >= m
        BY <2>4, <4>4
      <4>5. CASE match[n] < m
        <5>1. match[n] = m - 1 /\ match[n] + 1 = m /\ match[n] < Len(s)
          BY <2>4, <4>3, <4>5
        <5> QED
          BY <2>3, <4>1, <5>1
      <4> QED
        BY <2>4, <4>4, <4>5
    <3> QED
      BY <3>1, <3>2
  <2> QED
    BY <2>4, <2>5
<1>11. Good(Len(t))
  <2>1. Len(t) \in T
    <3> HIDE DEF T
    <3> QED
      BY <1>9, <1>10, Induction
  <2> QED
    BY <2>1
<1>12. match[Len(t)] = Len(s)
  <2>1. CASE Len(s) = 0
    BY <1>11, <2>1
  <2>2. CASE Len(s) # 0
    <3>1. Len(s) \in 1..Len(s)
      BY <2>2
    <3> QED
      BY <1>8, <1>11, <3>1
  <2> QED
    BY <2>1, <2>2
<1> QED
  BY <1>6, <1>12

\* A step that types nothing and delivers nothing, and only forgets.
LEMMA SameOrder ==
  ASSUME Ordered, Len(typed) \in Nat, typed' = typed, delivered' = delivered,
         Unstored' \in Nat, Unstored \in Nat, Unstored' <= Unstored,
         Kept(Taken, buf, Taken', buf'), Kept(Untaken, key_buffer, Untaken', key_buffer')
  PROVE  Ordered'
<1>1. PICK c1, c2, c3 \in Nat : \E d, f, g :
    /\ c1 <= c2 /\ c2 <= c3 /\ c3 + Unstored <= Len(typed)
    /\ Fits(typed, 1..Len(delivered), delivered, d, 0, c1)
    /\ Fits(typed, Taken, buf, f, c1, c2)
    /\ Fits(typed, Untaken, key_buffer, g, c2, c3)
  BY DEF Ordered
<1>2. PICK d, f, g :
    /\ c1 <= c2 /\ c2 <= c3 /\ c3 + Unstored <= Len(typed)
    /\ Fits(typed, 1..Len(delivered), delivered, d, 0, c1)
    /\ Fits(typed, Taken, buf, f, c1, c2)
    /\ Fits(typed, Untaken, key_buffer, g, c2, c3)
  BY <1>1
<1>3. Fits(typed', Taken', buf', f, c1, c2) /\ Fits(typed', Untaken', key_buffer', g, c2, c3)
  BY <1>2, FitsWithin
<1>4. c3 + Unstored' <= Len(typed')
  BY <1>2
<1> QED
  BY <1>2, <1>3, <1>4 DEF Ordered

\* At first nothing is typed and nothing holds a character.
LEMMA InitOrder == Init => OrderInv
<1> SUFFICES ASSUME Init PROVE OrderInv
  OBVIOUS
<1>1. /\ typed = <<>> /\ delivered = <<>> /\ stack = <<>> /\ Len(typed) = 0 /\ Len(delivered) = 0
      /\ typed \in Seq(Chars \cup {SPACE}) /\ delivered \in Seq(Bytes)
      /\ Unstored = 0 /\ Taken = {} /\ \A p \in Positions : key_buffer[p] = NUL
  BY EmptySeq DEF Init, Unstored, Taken
<1>2. Beyond
  BY <1>1 DEF Beyond, IsText
<1>3. Fits(typed, 1..Len(delivered), delivered, 0, 0, 0) /\ Fits(typed, Taken, buf, 0, 0, 0)
      /\ Fits(typed, Untaken, key_buffer, 0, 0, 0)
  BY <1>1 DEF Fits, Untaken, IsText
<1>4. Ordered
  BY <1>1, <1>3 DEF Ordered
<1> QED
  BY <1>1, <1>2, <1>4 DEF OrderInv

\* The characters of a key come after all the others; its handler has yet to store them.
LEMMA ArriveOrder ==
  ASSUME MaxDepth = 1, TypeInv, OrderInv, NEW k \in Keys, Arrive(k)
  PROVE  OrderInv'
<1> DEFINE u == TextOf(k)
<1>1. /\ stack = <<>> /\ stack' # <<>> /\ Act'.pc = "start" /\ Act'.key = k
  BY ArriveAct
<1>2. /\ typed' = typed \o u /\ typed \in Seq(Chars \cup {SPACE}) /\ u \in Seq(Chars \cup {SPACE})
      /\ delivered' = delivered /\ buf' = buf /\ key_buffer' = key_buffer /\ rpc' = rpc /\ i' = i
      /\ buffer_index' = buffer_index
      /\ erased' = (erased \/ k = "backspace")
  BY TextFacts DEF Arrive, OrderInv, kbd, read
<1>3. typed' \in Seq(Chars \cup {SPACE}) /\ Len(typed') = Len(typed) + Len(u)
      /\ Len(typed) \in Nat /\ Len(u) \in Nat
      /\ \A n \in 1..(Len(typed) + Len(u)) :
            typed'[n] = IF n <= Len(typed) THEN typed[n] ELSE u[n - Len(typed)]
  BY <1>2, ConcatProperties
<1>4. SUFFICES ASSUME ~erased, k # "backspace" PROVE OrderInv'
  BY <1>2, <1>3 DEF OrderInv
<1>5. Filled' = Filled /\ Untaken' = Untaken /\ Taken' = Taken /\ Unstored = 0
  BY <1>1, <1>2 DEF Filled, Untaken, Taken, Unstored
<1>6. /\ Unstored' = Len(u)
      /\ \A n \in (Len(typed') - Unstored' + 1)..Len(typed') : typed'[n] = Byte(k)
  <2>1. CASE Typing(k)
    <3>1. Unstored' = Len(u) /\ \A n \in 1..Len(u) : u[n] = Byte(k)
      BY <1>1, <2>1, TextFacts DEF Typing, Unstored
    <3> HIDE DEF u
    <3> QED
      BY <1>3, <3>1
  <2>2. CASE ~Typing(k)
    <3>1. Unstored' = 0 /\ Len(u) = 0
      BY <1>1, <2>2, TextFacts, EmptySeq DEF Typing, Unstored
    <3> HIDE DEF u
    <3> QED
      BY <1>3, <3>1
  <2> QED
    BY <2>1, <2>2
<1>7. Beyond'
  BY <1>2, <1>4, <1>5 DEF OrderInv, Beyond
<1>8. Ordered'
  <2>1. PICK c1, c2, c3 \in Nat : \E d, f, g :
      /\ c1 <= c2 /\ c2 <= c3 /\ c3 + Unstored <= Len(typed)
      /\ Fits(typed, 1..Len(delivered), delivered, d, 0, c1)
      /\ Fits(typed, Taken, buf, f, c1, c2)
      /\ Fits(typed, Untaken, key_buffer, g, c2, c3)
    BY <1>4 DEF OrderInv, Ordered
  <2>2. PICK d, f, g :
      /\ c1 <= c2 /\ c2 <= c3 /\ c3 + Unstored <= Len(typed)
      /\ Fits(typed, 1..Len(delivered), delivered, d, 0, c1)
      /\ Fits(typed, Taken, buf, f, c1, c2)
      /\ Fits(typed, Untaken, key_buffer, g, c2, c3)
    BY <2>1
  <2>3. c3 \in 0..Len(typed) /\ c2 \in 0..Len(typed) /\ c1 \in 0..Len(typed) /\ 0 \in Nat
    BY <1>3, <1>5, <2>2
  <2> HIDE DEF u
  <2>4. /\ Fits(typed \o u, 1..Len(delivered), delivered, d, 0, c1)
        /\ Fits(typed \o u, Taken, buf, f, c1, c2)
        /\ Fits(typed \o u, Untaken, key_buffer, g, c2, c3)
    BY <1>2, <2>2, <2>3, FitsAfterTyping
  <2>5. c3 + Unstored' <= Len(typed')
    BY <1>3, <1>6, <2>3
  <2> QED
    BY <1>2, <1>5, <2>2, <2>4, <2>5 DEF Ordered
<1> HIDE DEF u
<1>9. \A n \in (Len(typed') - Unstored' + 1)..Len(typed') : typed'[n] = Byte(Act'.key)
  BY <1>1, <1>6
<1>10. /\ delivered' \in Seq(Bytes) /\ \A n \in 1..Len(delivered') : IsText(delivered'[n])
  BY <1>2, <1>4 DEF OrderInv
<1>11. Unstored' \in Nat /\ Unstored' <= Len(typed')
  BY <1>3, <1>6
<1> QED
  BY <1>1, <1>3, <1>4, <1>7, <1>8, <1>9, <1>10, <1>11 DEF OrderInv

\* The steps of the handler that store no character.
LEMMA MoveOrder ==
  ASSUME OrderInv, ~erased, typed' = typed, delivered' = delivered, buf' = buf, rpc' = rpc, i' = i,
         key_buffer' = key_buffer \/ \A p \in Positions : ~IsText(key_buffer'[p]),
         Filled' = Filled, Unstored' = Unstored,
         stack # <<>>, stack' = <<>> \/ Act'.key = Act.key
  PROVE  OrderInv'
<1>1. /\ Len(typed) \in Nat /\ Unstored \in Nat
      /\ Unstored' = 0 \/ Act'.key = Act.key
      /\ stack' # <<>> => Act'.key # "backspace"
  BY DEF OrderInv, Unstored
<1>2. Kept(Taken, buf, Taken', buf')
  BY DEF Kept, Taken
<1>3. Kept(Untaken, key_buffer, Untaken', key_buffer')
  BY DEF Kept, Untaken
<1>4. Ordered'
  BY <1>1, <1>2, <1>3, SameOrder DEF OrderInv
<1>5. Beyond'
  BY DEF OrderInv, Beyond
<1>6. \A n \in (Len(typed') - Unstored' + 1)..Len(typed') : typed'[n] = Byte(Act'.key)
  <2>1. CASE Unstored' = 0
    BY <1>1, <2>1
  <2>2. CASE Act'.key = Act.key
    BY <2>2 DEF OrderInv
  <2> QED
    BY <1>1, <2>1, <2>2
<1>7. typed' \in Seq(Chars \cup {SPACE}) /\ Unstored' \in Nat /\ Unstored' <= Len(typed')
      /\ delivered' \in Seq(Bytes) /\ \A n \in 1..Len(delivered') : IsText(delivered'[n])
  BY DEF OrderInv
<1> QED
  BY <1>1, <1>4, <1>5, <1>6, <1>7 DEF OrderInv

\* A character stored is the one typed after all those in key_buffer.
LEMMA StoreOrder ==
  ASSUME TypeInv, OrderInv, ~erased, Store
  PROVE  OrderInv'
<1>1. /\ stack # <<>> /\ Top = Act /\ Act \in Activation /\ ActivationInv /\ Act.pc = "store"
      /\ Act.key \in Printing /\ Act.left \in 1..3 /\ Act.tmp = buffer_index
      /\ Act.key # "tab" => Act.left = 1
  BY AtPoint DEF Store, ActivationInv, Activation
<1>2. /\ typed' = typed /\ delivered' = delivered /\ rpc' = rpc /\ i' = i /\ buf' = buf /\ erased' = erased
      /\ buffer_index \in Int /\ buffer_index' = buffer_index
      /\ key_buffer \in [Positions -> Bytes]
      /\ key_buffer' = IF buffer_index \in Positions
                       THEN [key_buffer EXCEPT ![buffer_index] = Byte(Act.key)] ELSE key_buffer
      /\ typed \in Seq(Chars \cup {SPACE}) /\ Len(typed) \in Nat
  BY <1>1 DEF Store, user, read, OrderInv, TypeInv
<1>3. /\ stack' # <<>> /\ Act'.key = Act.key /\ Act'.left = Act.left - 1
      /\ Act'.pc = IF Act.left = 1 THEN "echo" ELSE "load"
  BY <1>1, StoreMoves
<1>4. Filled = buffer_index - 1 /\ Filled' = buffer_index
  BY <1>1, <1>2, <1>3 DEF Filled
<1>5. \A p \in Positions : p # buffer_index => key_buffer'[p] = key_buffer[p]
  BY <1>2
<1>6. Beyond'
  <2> SUFFICES ASSUME NEW p \in Positions, p > buffer_index, rpc = "clear" => p < i
               PROVE  ~IsText(key_buffer'[p])
    BY <1>2, <1>4 DEF Beyond
  <2>1. p \in Int /\ p > buffer_index - 1 /\ p # buffer_index
    BY <1>2 DEF Positions
  <2>2. ~IsText(key_buffer[p])
    BY <1>4, <2>1 DEF OrderInv, Beyond
  <2> QED
    BY <1>5, <2>1, <2>2
<1>7. \A p \in Untaken' : p # buffer_index => p \in Untaken /\ key_buffer'[p] = key_buffer[p] /\ p < buffer_index
  BY <1>2, <1>4, <1>5 DEF Untaken, Positions
<1>8. Taken' = Taken
  BY <1>2 DEF Taken
<1>9. CASE Act.key = "enter"
  <2>1. Act.key \notin Chars \cup {"tab"}
    BY <1>9, InputAssumption DEF Special
  <2>2. Unstored = 0 /\ Unstored' = 0
    BY <1>3, <2>1 DEF Unstored
  <2>3. buffer_index \in Positions => ~IsText(key_buffer'[buffer_index])
    BY <1>2, <1>9 DEF IsText, Byte
  <2>4. Kept(Untaken, key_buffer, Untaken', key_buffer')
    BY <1>7, <2>3 DEF Kept, Untaken
  <2>5. Kept(Taken, buf, Taken', buf')
    BY <1>2, <1>8 DEF Kept
  <2>6. Ordered'
    BY <1>2, <2>2, <2>4, <2>5, SameOrder DEF OrderInv
  <2> QED
    BY <1>2, <1>3, <1>6, <1>9, <2>2, <2>6 DEF OrderInv
<1>10. CASE Act.key # "enter"
  <2>1. Act.key \in Chars \cup {"tab"} /\ Act.key # "backspace"
    BY <1>1, <1>10, InputAssumption DEF Special, Printing
  <2>2. /\ Unstored = Act.left /\ Unstored' = Act.left - 1 /\ Unstored <= Len(typed)
        /\ \A n \in (Len(typed) - Unstored + 1)..Len(typed) : typed[n] = Byte(Act.key)
    BY <1>1, <1>3, <2>1 DEF Unstored, OrderInv
  <2> DEFINE c == Len(typed) - Unstored + 1
  <2>3. c \in Nat /\ c \in 1..Len(typed) /\ typed[c] = Byte(Act.key) /\ c + Unstored' = Len(typed)
    BY <1>1, <1>2, <2>2
  <2>4. Ordered'
    <3>1. CASE buffer_index \in Positions
      <4>1. PICK c1, c2, c3 \in Nat : \E d, f, g :
          /\ c1 <= c2 /\ c2 <= c3 /\ c3 + Unstored <= Len(typed)
          /\ Fits(typed, 1..Len(delivered), delivered, d, 0, c1)
          /\ Fits(typed, Taken, buf, f, c1, c2)
          /\ Fits(typed, Untaken, key_buffer, g, c2, c3)
        BY DEF OrderInv, Ordered
      <4>2. PICK d, f, g :
          /\ c1 <= c2 /\ c2 <= c3 /\ c3 + Unstored <= Len(typed)
          /\ Fits(typed, 1..Len(delivered), delivered, d, 0, c1)
          /\ Fits(typed, Taken, buf, f, c1, c2)
          /\ Fits(typed, Untaken, key_buffer, g, c2, c3)
        BY <4>1
      <4>3. c > c3 /\ c2 <= c /\ c \in Int
        BY <1>1, <1>2, <2>2, <4>2
      <4>4. key_buffer'[buffer_index] = typed[c]
        BY <1>2, <2>3, <3>1
      <4>5. OneMore(typed, c, Untaken, key_buffer, Untaken', key_buffer', buffer_index)
        <5>1. \A p \in Untaken' : p \in Int
          BY DEF Untaken, Positions
        <5> QED
          BY <1>7, <4>4, <5>1 DEF OneMore
      <4> HIDE DEF c
      <4>6. PICK h : Fits(typed, Untaken', key_buffer', h, c2, c)
        BY <1>2, <4>2, <4>3, <4>4, <4>5, FitsOneMore
      <4>7. c + Unstored' <= Len(typed)
        BY <1>2, <2>3
      <4> QED
        BY <1>2, <1>8, <2>3, <4>2, <4>3, <4>6, <4>7 DEF Ordered
    <3>2. CASE buffer_index \notin Positions
      <4>1. Kept(Untaken, key_buffer, Untaken', key_buffer')
        BY <1>7, <3>2 DEF Kept, Untaken
      <4>2. Kept(Taken, buf, Taken', buf')
        BY <1>2, <1>8 DEF Kept
      <4>3. Unstored' \in Nat /\ Unstored \in Nat /\ Unstored' <= Unstored
        BY <1>1, <2>2
      <4> QED
        BY <1>2, <4>1, <4>2, <4>3, SameOrder DEF OrderInv
    <3> QED
      BY <3>1, <3>2
  <2>5. \A n \in (Len(typed') - Unstored' + 1)..Len(typed') : typed'[n] = Byte(Act'.key)
    BY <1>1, <1>2, <1>3, <2>2
  <2>6. Unstored' \in Nat /\ Unstored' <= Len(typed')
    BY <1>1, <1>2, <2>2
  <2>7. delivered' \in Seq(Bytes) /\ \A n \in 1..Len(delivered') : IsText(delivered'[n])
    BY <1>2 DEF OrderInv
  <2> QED
    BY <1>2, <1>3, <1>6, <2>1, <2>4, <2>5, <2>6, <2>7 DEF OrderInv
<1> QED
  BY <1>9, <1>10

\* The key of an activation that is on its way is the key it started with.
LEMMA DispatchOrder ==
  ASSUME TypeInv, OrderInv, ~erased, Dispatch
  PROVE  OrderInv'
<1>1. /\ stack # <<>> /\ Top = Act /\ Act.pc = "start" /\ Act \in Activation
      /\ Act.key \in Keys /\ Act.key # "backspace"
  <2>1. stack # <<>> /\ Top = Act /\ Act.pc = "start" /\ Act \in Activation
    BY AtPoint DEF Dispatch
  <2> QED
    BY <2>1 DEF OrderInv, Activation
<1>2. /\ typed' = typed /\ delivered' = delivered /\ rpc' = rpc /\ i' = i /\ buf' = buf
      /\ buffer_index' = buffer_index
  BY DEF Dispatch, user, read
<1>3. CASE Act.key \in Printing
  <2> DEFINE l == IF Act.key = "tab" THEN 3 ELSE 1
             f == [Act EXCEPT !.pc = "load", !.left = l]
  <2>1. Act.key \notin {"release", "swap"} /\ l \in 0..3
        /\ (Act.key \in Chars \cup {"tab"} => Len(TextOf(Act.key)) = l)
    <3>1. Act.key \notin {"release", "swap"}
      BY <1>3, InputAssumption DEF Printing, Special
    <3>2. Typing(Act.key) => Len(TextOf(Act.key)) = l
      BY <1>1, TextFacts
    <3> QED
      BY <3>1, <3>2 DEF Typing
  <2>2. Become(f) /\ key_buffer' = key_buffer
    BY <1>1, <2>1 DEF Dispatch
  <2> HIDE DEF l
  <2>3. f \in Activation /\ f.pc = "load" /\ f.key = Act.key /\ f.left = l
    BY <1>1, <2>1 DEF Activation
  <2> HIDE DEF f
  <2>4. stack' # <<>> /\ Act' = f
    BY <1>1, <2>2, <2>3, BecomeAct
  <2>5. Unstored' = Unstored /\ Filled' = Filled
    BY <1>1, <1>2, <2>1, <2>3, <2>4 DEF Unstored, Filled
  <2> QED
    BY <1>1, <1>2, <2>2, <2>3, <2>4, <2>5, MoveOrder
<1>4. CASE Act.key = "release" \/ Act.key = "swap"
  <2>1. Act.key \notin Chars \cup {"tab", "enter"}
    BY <1>4, InputAssumption DEF Special
  <2>2. Leave /\ (key_buffer' = key_buffer \/ key_buffer' = Cleared)
    BY <1>1, <2>1 DEF Dispatch
  <2>3. stack' = <<>>
    BY <1>1, <2>2, LeaveEmpty
  <2>4. Unstored' = Unstored /\ Filled' = Filled
    BY <1>1, <1>2, <2>1, <2>3 DEF Unstored, Filled
  <2>5. key_buffer' = key_buffer \/ \A p \in Positions : ~IsText(key_buffer'[p])
    BY <2>2 DEF Cleared, IsText
  <2> QED
    BY <1>1, <1>2, <2>3, <2>4, <2>5, MoveOrder
<1> QED
  BY <1>1, <1>3, <1>4, TextFacts DEF Typing, Printing

\* The steps of buffer_index++; what is not stored yet stays beyond the index.
LEMMA CountOrder ==
  ASSUME TypeInv, OrderInv, ~erased, LoadIndex \/ Increment \/ Decrement \/ LoadPlace
  PROVE  OrderInv'
<1>1. /\ stack # <<>> /\ Top = Act /\ Act \in Activation /\ ActivationInv
      /\ Act.pc \in {"load", "inc", "index"} /\ ~Decrement
  <2>1. /\ stack # <<>> /\ Top = Act /\ Act \in Activation /\ ActivationInv
        /\ Act.pc \in {"load", "loadBack", "inc", "dec", "index"} /\ (Decrement => Act.pc = "dec")
    BY AtPoint DEF LoadIndex, Increment, Decrement, LoadPlace
  <2> QED
    BY <2>1 DEF OrderInv, ActivationInv
<1>2. /\ typed' = typed /\ delivered' = delivered /\ rpc' = rpc /\ i' = i /\ buf' = buf
      /\ key_buffer' = key_buffer /\ buffer_index \in Int
  BY DEF LoadIndex, Increment, Decrement, LoadPlace, kbd, user, read, TypeInv
<1>3. ASSUME NEW f \in Activation, Become(f), f.key = Act.key, f.left = Act.left,
             \/ Act.pc = "load" /\ f.pc = "inc" /\ buffer_index' = buffer_index
             \/ Act.pc = "inc" /\ f.pc = "index" /\ buffer_index' = buffer_index + 1
             \/ Act.pc = "index" /\ f.pc = "store" /\ buffer_index' = buffer_index
      PROVE  OrderInv'
  <2>1. stack' # <<>> /\ Act' = f
    BY <1>1, <1>3, BecomeAct
  <2>2. Unstored' = Unstored /\ Filled' = Filled
    BY <1>1, <1>2, <1>3, <2>1 DEF Unstored, Filled
  <2> QED
    BY <1>1, <1>2, <1>3, <2>1, <2>2, MoveOrder
<1>4. CASE LoadIndex
  <2> DEFINE f == [Act EXCEPT !.tmp = buffer_index, !.pc = "inc"]
  <2>1. Act.pc = "load"
    BY <1>1, <1>4 DEF LoadIndex, At
  <2>2. f \in Activation /\ f.pc = "inc" /\ f.key = Act.key /\ f.left = Act.left
    BY <1>1, IndexInRange DEF Activation
  <2>3. Become(f) /\ buffer_index' = buffer_index
    BY <1>1, <1>4, <2>1 DEF LoadIndex, kbd
  <2> HIDE DEF f
  <2> QED
    BY <1>3, <2>1, <2>2, <2>3
<1>5. CASE Increment
  <2> DEFINE f == [Act EXCEPT !.pc = "index"]
  <2>1. Act.pc = "inc"
    BY <1>5, AtPoint DEF Increment
  <2>2. f \in Activation /\ f.pc = "index" /\ f.key = Act.key /\ f.left = Act.left
    BY <1>1 DEF Activation
  <2>3. Become(f) /\ buffer_index' = buffer_index + 1
    BY <1>1, <1>5, <2>1 DEF Increment, ActivationInv
  <2> HIDE DEF f
  <2> QED
    BY <1>3, <2>1, <2>2, <2>3
<1>6. CASE LoadPlace
  <2> DEFINE f == [Act EXCEPT !.tmp = buffer_index, !.pc = "store"]
  <2>1. Act.pc = "index"
    BY <1>6, AtPoint DEF LoadPlace
  <2>2. f \in Activation /\ f.pc = "store" /\ f.key = Act.key /\ f.left = Act.left
    BY <1>1, IndexInRange DEF Activation
  <2>3. Become(f) /\ buffer_index' = buffer_index
    BY <1>1, <1>6 DEF LoadPlace, kbd
  <2> HIDE DEF f
  <2> QED
    BY <1>3, <2>1, <2>2, <2>3
<1> QED
  BY <1>1, <1>4, <1>5, <1>6

\* The end of a handler: all its characters are stored.
LEMMA EchoOrder ==
  ASSUME TypeInv, OrderInv, ~erased, Echo
  PROVE  OrderInv'
<1>1. stack # <<>> /\ Top = Act /\ Act \in Activation /\ ActivationInv /\ Act.pc = "echo"
  BY AtPoint DEF Echo
<1>2. /\ typed' = typed /\ delivered' = delivered /\ rpc' = rpc /\ i' = i /\ buf' = buf
      /\ key_buffer' = key_buffer /\ buffer_index' = buffer_index
  BY DEF Echo, kbd, user, read
<1>3. stack' = <<>>
  BY <1>1, LeaveEmpty DEF Echo
<1>4. Unstored' = Unstored /\ Filled' = Filled
  BY <1>1, <1>2, <1>3 DEF Unstored, Filled, ActivationInv
<1> QED
  BY <1>1, <1>2, <1>3, <1>4, MoveOrder

\* While terminal_read runs, all that was typed is stored.
LEMMA ReaderRuns ==
  ASSUME TypeInv, Call \/ Read
  PROVE  /\ stack = <<>> /\ stack' = <<>> /\ Unstored = 0 /\ Unstored' = 0
         /\ Filled = buffer_index /\ Filled' = buffer_index' /\ typed' = typed /\ erased' = erased
         /\ i \in 0..EXTENDED_BUFFER /\ EXTENDED_BUFFER \in Nat /\ buf \in Seq(Bytes)
         /\ buffer_index \in Int
<1>1. stack = <<>> /\ stack' = <<>> /\ typed' = typed /\ erased' = erased
  BY DEF Call, Read, Wake, Take, Copy, Fetch, Reset, Clear, Return, Resume, Reader, user
<1> QED
  BY <1>1, InputAssumption DEF Unstored, Filled, TypeInv, ReaderInv

\* What is left of OrderInv when terminal_read takes a step.
LEMMA ReaderOrder ==
  ASSUME TypeInv, OrderInv, ~erased, Call \/ Read, Beyond', Ordered',
         delivered' \in Seq(Bytes), \A n \in 1..Len(delivered') : IsText(delivered'[n])
  PROVE  OrderInv'
<1>1. stack' = <<>> /\ Unstored' = 0 /\ typed' = typed /\ typed \in Seq(Chars \cup {SPACE})
  BY ReaderRuns DEF OrderInv
<1>2. Unstored' \in Nat /\ Unstored' <= Len(typed')
      /\ (Len(typed') - Unstored' + 1)..Len(typed') = {}
  BY <1>1
<1> QED
  BY <1>1, <1>2 DEF OrderInv

\* The steps of terminal_read that take no byte and return none.
LEMMA QuietOrder ==
  ASSUME TypeInv, OrderInv, ~erased, Call \/ Wake \/ Take \/ Reset \/ Clear \/ Resume
  PROVE  OrderInv'
<1>1. Call \/ Read
  BY DEF Read
<1>2. /\ stack = <<>> /\ stack' = <<>> /\ Unstored = 0 /\ Unstored' = 0
      /\ Filled = buffer_index /\ Filled' = buffer_index' /\ typed' = typed
      /\ i \in 0..EXTENDED_BUFFER /\ EXTENDED_BUFFER \in Nat /\ buffer_index \in Int
      /\ Positions \subseteq Nat
  BY <1>1, ReaderRuns DEF Positions
<1>3. delivered' = delivered /\ delivered \in Seq(Bytes) /\ Beyond
      /\ \A n \in 1..Len(delivered) : IsText(delivered[n])
  BY DEF Call, Wake, Take, Reset, Clear, Resume, user, OrderInv
<1>4. /\ Beyond'
      /\ Kept(Taken, buf, Taken', buf') /\ Kept(Untaken, key_buffer, Untaken', key_buffer')
  <2>1. CASE Call \/ Wake \/ Resume
    <3>1. /\ key_buffer' = key_buffer /\ buffer_index' = buffer_index
          /\ rpc \notin {"copy", "fetch", "reset", "clear"} /\ rpc' \notin {"copy", "fetch", "reset", "clear"}
      BY <2>1 DEF Call, Wake, Resume, Reader, kbd
    <3> QED
      BY <1>2, <1>3, <3>1 DEF Beyond, Kept, Taken, Untaken
  <2>2. CASE Take
    <3>1. /\ key_buffer' = key_buffer /\ buffer_index' = buffer_index
          /\ rpc = "take" /\ rpc' = "copy" /\ Len(buf') = 0
      BY <2>2, EmptySeq DEF Take, Reader
    <3>2. Beyond'
      BY <1>2, <1>3, <3>1 DEF Beyond
    <3>3. Taken' = {}
      BY <3>1 DEF Taken
    <3> QED
      BY <1>2, <3>1, <3>2, <3>3 DEF Kept, Untaken
  <2>3. CASE Reset
    <3>1. buffer_index' = -1 /\ i' = 0 /\ rpc = "reset" /\ rpc' = "clear" /\ buf' = buf
      BY <2>3 DEF Reset, Reader, IndexAfterRead
    <3>2. Taken' = Taken
      BY <3>1 DEF Taken
    <3>3. \A p \in Positions : ~(p <= Filled') /\ ~(p < i')
      BY <1>2, <3>1
    <3>4. \A p : p \notin Untaken'
      BY <3>3, Zenon DEF Untaken
    <3>5. Beyond'
      BY <3>1, <3>3, Zenon DEF Beyond
    <3> QED
      BY <3>1, <3>2, <3>4, <3>5, Zenon DEF Kept
  <2>4. CASE Clear
    <3>1. /\ buffer_index' = buffer_index /\ rpc = "clear" /\ rpc' = "clear" /\ buf' = buf
          /\ i' = i + 1 /\ i < EXTENDED_BUFFER /\ key_buffer \in [Positions -> Bytes]
          /\ key_buffer' = [key_buffer EXCEPT ![i] = NUL]
      BY <2>4 DEF Clear, Reader, TypeInv
    <3>2. \A p \in Positions : IF p = i THEN key_buffer'[p] = NUL ELSE key_buffer'[p] = key_buffer[p]
      BY <3>1
    <3>3. Beyond'
      BY <1>2, <1>3, <3>1, <3>2 DEF Beyond, IsText
    <3> QED
      BY <1>2, <3>1, <3>2, <3>3 DEF Kept, Taken, Untaken, IsText
  <2> QED
    BY <2>1, <2>2, <2>3, <2>4
<1>5. Ordered'
  <2>1. Len(typed) \in Nat
    BY DEF OrderInv
  <2> QED
    BY <1>2, <1>3, <1>4, <2>1, SameOrder DEF OrderInv
<1> QED
  BY <1>1, <1>3, <1>4, <1>5, ReaderOrder

\* Nothing is taken when the line goes on.
LEMMA LookOrder ==
  ASSUME TypeInv, OrderInv, ~erased, Copy, rpc' = "fetch"
  PROVE  OrderInv'
<1>1. Call \/ Read
  BY DEF Read
<1>2. Unstored = 0 /\ Unstored' = 0 /\ Filled = buffer_index /\ Filled' = buffer_index' /\ typed' = typed
  BY <1>1, ReaderRuns
<1>3. /\ delivered' = delivered /\ delivered \in Seq(Bytes) /\ Beyond /\ Len(typed) \in Nat
      /\ \A n \in 1..Len(delivered) : IsText(delivered[n])
  BY DEF Copy, user, OrderInv
<1>4. /\ key_buffer' = key_buffer /\ buffer_index' = buffer_index
      /\ rpc = "copy" /\ i' = i /\ buf' = buf
  BY DEF Copy, Reader, kbd
<1>5. Beyond'
  BY <1>2, <1>3, <1>4 DEF Beyond
<1>6. Kept(Taken, buf, Taken', buf') /\ Kept(Untaken, key_buffer, Untaken', key_buffer')
  BY <1>2, <1>4 DEF Kept, Taken, Untaken
<1>7. Ordered'
  BY <1>2, <1>3, <1>6, SameOrder DEF OrderInv
<1> QED
  BY <1>1, <1>3, <1>5, <1>7, ReaderOrder

\* A byte is taken: a character is the first of those key_buffer still holds.
LEMMA CopyOrder ==
  ASSUME TypeInv, OrderInv, ~erased, Copy \/ Fetch, rpc' # "fetch"
  PROVE  OrderInv'
<1>1. Call \/ Read
  BY DEF Read
<1>2. /\ stack = <<>> /\ Unstored = 0 /\ Unstored' = 0
      /\ Filled = buffer_index /\ Filled' = buffer_index' /\ typed' = typed
      /\ i \in 0..EXTENDED_BUFFER /\ EXTENDED_BUFFER \in Nat /\ buf \in Seq(Bytes)
      /\ buffer_index \in Int /\ Positions \subseteq Nat /\ Len(buf) \in Nat
  BY <1>1, ReaderRuns DEF Positions
<1>3. /\ delivered' = delivered /\ delivered \in Seq(Bytes) /\ Beyond /\ Len(typed) \in Nat
      /\ \A n \in 1..Len(delivered) : IsText(delivered[n])
  BY DEF Copy, Fetch, user, OrderInv
<1>4. /\ key_buffer' = key_buffer /\ buffer_index' = buffer_index
      /\ rpc \in {"copy", "fetch"} /\ rpc' \in {"copy", "reset"} /\ i' \in {i, i + 1}
      /\ Taken = 1..Len(buf) /\ Taken' = 1..Len(buf')
  BY DEF Copy, Fetch, Reader, kbd, Taken
<1>5. Beyond'
  BY <1>2, <1>3, <1>4 DEF Beyond
<1>6. PICK c \in Bytes : /\ buf' = Append(buf, c)
                         /\ IsText(c) => i < NBYTES /\ c = key_buffer[i] /\ i' = i + 1
  <2>1. i < NBYTES => key_buffer[i] \in Bytes
    BY <1>2, InputAssumption DEF Positions, TypeInv
  <2>2. CASE Copy
    BY <2>2 DEF Copy, Bytes, IsText
  <2>3. CASE Fetch
    <3>1. i < NBYTES
      BY <2>3 DEF Fetch, Reader, TypeInv, ReaderInv
    <3> QED
      BY <2>1, <2>3, <3>1 DEF Fetch
  <2> QED
    BY <2>2, <2>3
<1>7. /\ Len(buf') = Len(buf) + 1 /\ buf'[Len(buf) + 1] = c
      /\ \A n \in 1..Len(buf) : buf'[n] = buf[n]
  BY <1>2, <1>6
<1>8. Kept(Untaken, key_buffer, Untaken', key_buffer')
  BY <1>2, <1>4 DEF Kept, Untaken
<1>9. CASE ~IsText(c)
  <2>1. Kept(Taken, buf, Taken', buf')
    BY <1>2, <1>4, <1>7, <1>9 DEF Kept
  <2>2. Ordered'
    BY <1>2, <1>3, <1>8, <2>1, SameOrder DEF OrderInv
  <2> QED
    BY <1>1, <1>3, <1>5, <2>2, ReaderOrder
<1>10. CASE IsText(c)
  <2>1. i \in Positions /\ i \in Nat /\ key_buffer[i] = c /\ i' = i + 1
    BY <1>2, <1>6, <1>10, InputAssumption DEF Positions
  <2>2. i \in Untaken
    <3>1. i <= Filled
      BY <1>2, <1>3, <1>4, <1>10, <2>1 DEF Beyond
    <3> QED
      BY <2>1, <3>1 DEF Untaken
  <2>3. PICK c1, c2, c3 \in Nat : \E d, f, g :
      /\ c1 <= c2 /\ c2 <= c3 /\ c3 + Unstored <= Len(typed)
      /\ Fits(typed, 1..Len(delivered), delivered, d, 0, c1)
      /\ Fits(typed, Taken, buf, f, c1, c2)
      /\ Fits(typed, Untaken, key_buffer, g, c2, c3)
    BY DEF OrderInv, Ordered
  <2>4. PICK d, f, g :
      /\ c1 <= c2 /\ c2 <= c3 /\ c3 + Unstored <= Len(typed)
      /\ Fits(typed, 1..Len(delivered), delivered, d, 0, c1)
      /\ Fits(typed, Taken, buf, f, c1, c2)
      /\ Fits(typed, Untaken, key_buffer, g, c2, c3)
    BY <2>3
  <2>5. g[i] \in (c2 + 1)..c3 /\ typed[g[i]] = c
        /\ \A n \in Untaken : IsText(key_buffer[n]) =>
             /\ g[n] \in (c2 + 1)..c3 /\ typed[g[n]] = key_buffer[n]
             /\ \A m \in Untaken : m < n /\ IsText(key_buffer[m]) => g[m] < g[n]
    BY <1>10, <2>1, <2>2, <2>4 DEF Fits
  <2> DEFINE p == Len(buf) + 1
             h == g[i]
             T == 1..Len(buf')
  <2>6. OneMore(typed, h, Taken, buf, T, buf', p) /\ h \in Int /\ h > c2 /\ p \in Int /\ h \in Nat
    BY <1>2, <1>4, <1>7, <2>5 DEF OneMore
  <2>7. Fits(typed, Untaken', key_buffer', g, h, c3)
    <3>1. \A n \in Untaken' : n \in Untaken /\ i < n
      BY <1>2, <1>4, <2>1 DEF Untaken
    <3>2. \A n \in Untaken' : IsText(key_buffer[n]) => g[n] \in (h + 1)..c3
      BY <1>10, <2>1, <2>2, <2>5, <3>1
    <3> QED
      BY <1>4, <2>5, <3>1, <3>2 DEF Fits
  <2> HIDE DEF h, p
  <2>8. PICK e : Fits(typed, T, buf', e, c1, h)
    BY <2>4, <2>6, FitsOneMore
  <2>9. c1 <= h /\ h <= c3 /\ c3 + Unstored' <= Len(typed)
    BY <1>2, <2>4, <2>5, <2>6 DEF h
  <2>10. Ordered'
    BY <1>2, <1>3, <1>4, <2>4, <2>6, <2>7, <2>8, <2>9 DEF Ordered
  <2> QED
    BY <1>1, <1>3, <1>5, <2>10, ReaderOrder
<1> QED
  BY <1>9, <1>10

\* What was taken is delivered, after what was delivered before.
LEMMA ReturnOrder ==
  ASSUME TypeInv, OrderInv, ~erased, Return
  PROVE  OrderInv'
<1>1. Call \/ Read
  BY DEF Read
<1>2. /\ stack = <<>> /\ Unstored = 0 /\ Unstored' = 0
      /\ Filled = buffer_index /\ Filled' = buffer_index' /\ typed' = typed
      /\ i \in 0..EXTENDED_BUFFER /\ EXTENDED_BUFFER \in Nat /\ buf \in Seq(Bytes)
      /\ buffer_index \in Int /\ Positions \subseteq Nat
  BY <1>1, ReaderRuns DEF Positions
<1>3. /\ delivered \in Seq(Bytes) /\ Beyond /\ Len(typed) \in Nat
      /\ \A n \in 1..Len(delivered) : IsText(delivered[n])
  BY DEF OrderInv
<1>4. /\ key_buffer' = key_buffer /\ buffer_index' = buffer_index
      /\ rpc = "clear" /\ rpc' = "done" /\ i = EXTENDED_BUFFER
      /\ Taken = 1..Len(buf) /\ Taken' = {} /\ delivered' = delivered \o TextIn(buf)
  BY DEF Return, Reader, kbd, Taken
<1>5. Beyond'
  BY <1>2, <1>3, <1>4 DEF Beyond, Positions
<1>6. Untaken' = Untaken
  BY <1>2, <1>4 DEF Untaken
<1>7. PICK c1, c2, c3 \in Nat : \E d, f, g :
    /\ c1 <= c2 /\ c2 <= c3 /\ c3 + Unstored <= Len(typed)
    /\ Fits(typed, 1..Len(delivered), delivered, d, 0, c1)
    /\ Fits(typed, Taken, buf, f, c1, c2)
    /\ Fits(typed, Untaken, key_buffer, g, c2, c3)
  BY DEF OrderInv, Ordered
<1>8. PICK d, f, g :
    /\ c1 <= c2 /\ c2 <= c3 /\ c3 + Unstored <= Len(typed)
    /\ Fits(typed, 1..Len(delivered), delivered, d, 0, c1)
    /\ Fits(typed, Taken, buf, f, c1, c2)
    /\ Fits(typed, Untaken, key_buffer, g, c2, c3)
  BY <1>7
<1>9. /\ delivered' \in Seq(Bytes) /\ \A n \in 1..Len(delivered') : IsText(delivered'[n])
      /\ \E e : Fits(typed, 1..Len(delivered'), delivered', e, 0, c2)
  BY <1>2, <1>3, <1>4, <1>8, TextDelivered
<1>10. Fits(typed, Taken', buf', f, c2, c2) /\ Fits(typed, Untaken', key_buffer', g, c2, c3)
  BY <1>4, <1>6, <1>8 DEF Fits
<1>11. Ordered'
  BY <1>2, <1>8, <1>9, <1>10 DEF Ordered
<1> QED
  BY <1>1, <1>5, <1>9, <1>11, ReaderOrder

\* OrderInv is inductive, with TypeInv.
LEMMA StepOrder ==
  ASSUME MaxDepth = 1, TypeInv, OrderInv, [Next]_vars
  PROVE  OrderInv'
<1>1. ASSUME NEW k \in Keys, Arrive(k) PROVE OrderInv'
  BY <1>1, ArriveOrder
<1>2. ASSUME Handler \/ Call \/ Read PROVE OrderInv'
  <2>1. typed' = typed /\ erased' = erased
    BY <1>2 DEF Handler, Dispatch, LoadIndex, Increment, Decrement, LoadPlace, Store, Echo, Call, Read,
           Wake, Take, Copy, Fetch, Reset, Clear, Return, Resume, user
  <2>2. CASE erased
    BY <2>1, <2>2 DEF OrderInv
  <2>3. CASE ~erased
    <3>1. Handler => OrderInv'
      BY <2>3, DispatchOrder, CountOrder, StoreOrder, EchoOrder DEF Handler
    <3>2. Copy \/ Fetch => OrderInv'
      <4>1. CASE Copy /\ rpc' = "fetch"
        BY <2>3, <4>1, LookOrder
      <4>2. CASE (Copy \/ Fetch) /\ rpc' # "fetch"
        BY <2>3, <4>2, CopyOrder
      <4>3. Fetch => rpc' # "fetch"
        BY DEF Fetch
      <4> QED
        BY <4>1, <4>2, <4>3
    <3>3. Call \/ Read => OrderInv'
      BY <2>3, <3>2, QuietOrder, ReturnOrder DEF Read
    <3> QED
      BY <1>2, <3>1, <3>3
  <2> QED
    BY <2>2, <2>3
<1>3. CASE UNCHANGED vars
  <2>1. /\ Unstored' = Unstored /\ Filled' = Filled /\ Untaken' = Untaken /\ Taken' = Taken
        /\ Act' = Act /\ stack' = stack /\ erased' = erased /\ typed' = typed
        /\ delivered' = delivered /\ buf' = buf /\ key_buffer' = key_buffer
        /\ (Beyond => Beyond')
    BY <1>3 DEF vars, kbd, read, user, Unstored, Beyond, Filled, Untaken, Taken, Act
  <2>2. Kept(Taken, buf, Taken', buf') /\ Kept(Untaken, key_buffer, Untaken', key_buffer')
    BY <2>1 DEF Kept
  <2>3. ~erased => Ordered'
    BY <2>1, <2>2, SameOrder DEF OrderInv
  <2> QED
    BY <2>1, <2>3 DEF OrderInv
<1> QED
  BY <1>1, <1>2, <1>3 DEF Next

\* The positions of the characters delivered show that they are in order.
LEMMA OrderIsRead == OrderInv => ReadsInOrder
<1> SUFFICES ASSUME OrderInv, ~erased PROVE IsSubSequence(delivered, typed)
  BY DEF ReadsInOrder
<1>1. /\ Len(typed) \in Nat /\ Len(delivered) \in Nat /\ Unstored \in Nat
      /\ \A n \in 1..Len(delivered) : IsText(delivered[n])
  BY DEF OrderInv
<1>2. PICK c1, c2, c3 \in Nat : \E d, f, g :
    /\ c1 <= c2 /\ c2 <= c3 /\ c3 + Unstored <= Len(typed)
    /\ Fits(typed, 1..Len(delivered), delivered, d, 0, c1)
    /\ Fits(typed, Taken, buf, f, c1, c2)
    /\ Fits(typed, Untaken, key_buffer, g, c2, c3)
  BY DEF OrderInv, Ordered
<1>3. PICK d : Fits(typed, 1..Len(delivered), delivered, d, 0, c1) /\ c1 <= Len(typed)
  BY <1>1, <1>2
<1>4. Kept(1..Len(delivered), delivered, 1..Len(delivered), delivered)
  BY DEF Kept
<1>5. Fits(typed, 1..Len(delivered), delivered, d, 0, Len(typed))
  <2>1. 0 \in Int /\ 0 <= 0 /\ Len(typed) \in Int /\ c1 \in Int
    BY <1>1
  <2> QED
    BY <1>3, <1>4, <2>1, FitsWithin
<1> QED
  BY <1>1, <1>5, FitsIsSubSequence

\* Whatever the user types and whatever is lost, without backspace the characters
\* programs read are characters typed, in that order, none of them twice.
THEOREM ReadsInOrderTheorem ==
  ASSUME MaxDepth = 1
  PROVE  Spec => []ReadsInOrder
<1>1. TypeInv /\ OrderInv /\ [Next]_vars => TypeInv' /\ OrderInv'
  BY StepTyped, StepOrder
<1> QED
  BY <1>1, InitTyped, InitOrder, OrderIsRead, PTL DEF Spec
=============================================================================
