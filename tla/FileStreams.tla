----------------------------- MODULE FileStreams -----------------------------
(***************************************************************************)
(* What the file calls promise to a program (the comments of syscall.c):   *)
(* an open descriptor is a stream with a position.  A read of a file       *)
(* returns the next bytes, as many as asked for and left, and 0 at the     *)
(* end; a read of the directory returns the next name, and 0 after the     *)
(* last; a write returns how many bytes it was given.  Nothing else moves  *)
(* a position, a call fails only when it must, and it never ends the       *)
(* program.  No block, no inode table and no descriptor table appears      *)
(* here: Content is a sequence of bytes.                                   *)
(*                                                                         *)
(* The kernel departs from it in three ways, and Deviates says in which:   *)
(* whatever else it does breaks the specification.                         *)
(***************************************************************************)
EXTENDS Integers, Sequences

CONSTANTS Files,      \* name -> [kind |-> "rtc", "dir" or "file", inode |-> its key]
          Content,    \* key -> bytes
          Listing,    \* the names, in the order of the directory
          Fds,        \* the descriptors open may hand out
          PastFd,     \* the first descriptor past the table, see Faults
          NUL         \* the character the screen does not show

VARIABLES stream,     \* descriptor -> what it reads, and its position
          ret,        \* the last call, its arguments and its answer
          out,        \* what was shown
          fate        \* the program is running, halted, or killed by an exception

vars == <<stream, ret, out, fate>>

Closed == [kind |-> "none", inode |-> 0, pos |-> 0]

InUse(fd) == fd \in Fds /\ stream[fd] # Closed

Reads(fd, kind) == InUse(fd) /\ stream[fd].kind = kind

Least(a, b) == IF a < b THEN a ELSE b

AllClosed == [fd \in Fds |-> Closed]

Init ==
  /\ stream = AllClosed
  /\ ret = [op |-> "none", fd |-> 0, name |-> <<>>, n |-> 0, count |-> 0, bytes |-> <<>>]
  /\ out = <<>> /\ fate = "running"

Answer(op, fd, name, n, count, bytes) ==
  ret' = [op |-> op, fd |-> fd, name |-> name, n |-> n, count |-> count, bytes |-> bytes]

\* The lowest free descriptor, at the start of what the name stands for.
Open(name) ==
  /\ name \in DOMAIN Files
  /\ \E fd \in Fds :
       /\ ~InUse(fd) /\ \A e \in Fds : e < fd => InUse(e)
       /\ stream' = [stream EXCEPT ![fd] = [kind |-> Files[name].kind,
                                            inode |-> Files[name].inode, pos |-> 0]]
       /\ Answer("open", 0, name, 0, fd, <<>>)
  /\ UNCHANGED <<out, fate>>

Close(fd) ==
  /\ InUse(fd)
  /\ stream' = [stream EXCEPT ![fd] = Closed]
  /\ Answer("close", fd, <<>>, 0, 0, <<>>)
  /\ UNCHANGED <<out, fate>>

\* The next bytes of a file.
ReadBytes(fd, n) ==
  /\ Reads(fd, "file") /\ n >= 0
  /\ LET all == Content[stream[fd].inode]
         pos == stream[fd].pos
         got == Least(n, Len(all) - pos)
     IN  /\ stream' = [stream EXCEPT ![fd].pos = pos + got]
         /\ Answer("read", fd, <<>>, n, got, SubSeq(all, pos + 1, pos + got))
  /\ UNCHANGED <<out, fate>>

\* The next name of the directory, then none: the position may move on then.
ReadName(fd, n) ==
  /\ Reads(fd, "dir")
  /\ LET pos == stream[fd].pos
         name == IF pos < Len(Listing) THEN Listing[pos + 1] ELSE <<>>
     IN  /\ \/ stream' = [stream EXCEPT ![fd].pos = pos + 1]
            \/ pos >= Len(Listing) /\ UNCHANGED stream
         /\ Answer("read", fd, <<>>, n, Len(name), name)
  /\ UNCHANGED <<out, fate>>

\* A line of the keyboard (any: Input says which); a tick of the clock, no data.
ReadDevice(fd, n) ==
  /\ \/ fd = 0 /\ Answer("read", fd, <<>>, n, Len(ret'.bytes), ret'.bytes)
     \/ Reads(fd, "rtc") /\ Answer("read", fd, <<>>, n, 0, <<>>)
  /\ UNCHANGED <<stream, out, fate>>

\* A text without its NULs.
Visible(text) ==
  LET visible[n \in 0..Len(text)] ==
        IF n = 0 THEN <<>>
        ELSE IF text[n] = NUL THEN visible[n - 1] ELSE Append(visible[n - 1], text[n])
  IN  visible[Len(text)]

WriteScreen(n, text) ==
  /\ n >= 0
  /\ out' = out \o Visible(text)
  /\ Answer("write", 1, <<>>, n, n, text)
  /\ UNCHANGED <<stream, fate>>

\* A write to the clock may set its rate; Rtc says when.
WriteClock(fd, n, text) ==
  /\ Reads(fd, "rtc") /\ n >= 0
  /\ Answer("write", fd, <<>>, n, n, text)
  /\ UNCHANGED <<stream, out, fate>>

\* What may fail, by the call.
Refusable(op, fd, name, n) ==
  \/ op = "open" /\ (name \notin DOMAIN Files \/ \A e \in Fds : InUse(e))
  \/ op = "close" /\ ~InUse(fd)
  \/ op = "read" /\ ((fd # 0 /\ ~InUse(fd)) \/ (Reads(fd, "file") /\ n < 0))
  \/ op = "write" /\ (n < 0 \/ fd # 1)

Refuse(op, fd, name, n, text) ==
  /\ Refusable(op, fd, name, n)
  /\ Answer(op, fd, name, n, -1, text)
  /\ UNCHANGED <<stream, out, fate>>

\* The program halts: nothing stays open.
Halt ==
  /\ stream' = AllClosed /\ fate' = "halted"
  /\ UNCHANGED <<ret, out>>

Promised(op, fd, name, n, text) ==
  \/ Open(name) \/ Close(fd) \/ ReadBytes(fd, n) \/ ReadName(fd, n) \/ ReadDevice(fd, n)
  \/ WriteScreen(n, text) \/ WriteClock(fd, n, text) \/ Refuse(op, fd, name, n, text) \/ Halt

(***************************************************************************)
(* What the kernel does instead.                                           *)
(***************************************************************************)
\* A write is done and answers 0 (terminal.c:94, rtc.c:88).
WritesUncounted(fd, n, text) ==
  /\ n >= 0
  /\ \/ fd = 1 /\ out' = out \o Visible(text)
     \/ Reads(fd, "rtc") /\ UNCHANGED out
  /\ Answer("write", fd, <<>>, n, 0, text)
  /\ UNCHANGED <<stream, fate>>

\* The directory answers 0 once after its last name, and -1 from then on (filesys.c:187).
DirectoryDone(fd, n) ==
  /\ Reads(fd, "dir") /\ stream[fd].pos > Len(Listing)
  /\ Answer("read", fd, <<>>, n, -1, <<>>)
  /\ UNCHANGED <<stream, out, fate>>

\* A read or a write on PastFd, which should be refused, ends the program (syscall.c:309).
Faults(op, fd, n, text) ==
  /\ op \in {"read", "write"} /\ fd = PastFd
  /\ Answer(op, fd, <<>>, n, 0, text)
  /\ stream' = AllClosed /\ fate' = "killed"
  /\ UNCHANGED out

Deviates(op, fd, n, text) ==
  WritesUncounted(fd, n, text) \/ DirectoryDone(fd, n) \/ Faults(op, fd, n, text)

Next ==
  LET op == ret'.op  fd == ret'.fd  n == ret'.n  name == ret'.name  text == ret'.bytes IN
  /\ fate = "running"
  /\ Promised(op, fd, name, n, text) \/ Deviates(op, fd, n, text)

Spec == Init /\ [][Next]_vars
=============================================================================
