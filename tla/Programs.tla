------------------------------ MODULE Programs -------------------------------
(***************************************************************************)
(* The user programs cat, ls, grep, counter and syserr, from the command   *)
(* line that starts them to their halt, over the calls of FileSystem, and  *)
(* "user", a program that makes any calls.                                 *)
(*                                                                         *)
(* A step is what a program does between two calls, and the call: label is *)
(* the place in the program, ret the answer it looks at.  A message a      *)
(* program prints is one element of what it writes; calls of fdputs with   *)
(* nothing between are one write.  Characters are strings, and bytes are   *)
(* characters.  NeverEmpty and NoCarry are slips the code does not make.   *)
(***************************************************************************)
EXTENDS FileSystem, CommandLine

CONSTANTS Commands,    \* what is typed at the shell
          ProgramOf,   \* the names of the files that are programs
          BUFSIZE,     \* of cat and grep
          Garbage,     \* what the stack may hold where grep puts data
          Counts,      \* how far counter counts, by the digit chosen
          Known,       \* a file that exists, for err_open
          UserNames, UserFds, UserSizes, UserTexts, MaxCalls   \* what "user" does

\* What the programs are written for: eight descriptors, a directory that has an
\* entry of its own, messages without a NUL, and for syserr a file that exists and
\* whose name changed by a letter does not.  The shell takes the newline off a line,
\* which is a string and ends at a NUL, starts nothing for an empty one, and its
\* buffer is as long as those of the programs.  "user" passes numbers for numbers.
ASSUME ProgramsAssumption ==
  /\ MAX_NUM_FD = 8 /\ BUFSIZE \in Nat \ {0}
  /\ Garbage \subseteq [0..BUFSIZE -> STRING]
  /\ <<".">> \in Names /\ Dentry(<<".">>).type = 1
  /\ NUL \notin {NewLine, ":", "file not found", "Enter the Test Number"}
                \cup {lookup[d] : d \in 1..16}
  /\ Append(Known, "o") \notin Names /\ Front(Known) \notin Names
  /\ \A c \in Commands : /\ c \in Seq(STRING) \ {<<>>} /\ Len(args_of(c)) <= BUFSIZE
                         /\ \A j \in 1..Len(c) : c[j] \notin {NewLine, NUL}
  /\ UserFds \subseteq Int /\ UserSizes \subseteq Int

VARIABLES command, prog, args, label, status,
          dir_fd, fd, fname,                  \* ls and grep; the file read
          data, last, cnt, line_start, line_end,   \* grep, in do_one_file
          stale,                              \* the byte past data, never written
          k, todo, failed                     \* counter, syserr: how far, tests to run, failed

grepvars == <<data, last, cnt, line_start, line_end>>
tests == <<k, todo, failed>>
own   == <<dir_fd, fd, fname, grepvars, stale, tests>>
all   == <<vars, command, prog, args, label, status, own>>

\* data is not initialised: stale is its last byte.
ProgramInit ==
  /\ Init
  /\ command \in Commands
  /\ prog = "shell" /\ args = <<>> /\ label = "start" /\ status = -1
  /\ dir_fd = 0 /\ fd = 0 /\ fname = <<>> /\ k = 0 /\ todo = <<>> /\ failed = {}
  /\ data \in Garbage /\ stale = data[BUFSIZE]
  /\ last = 0 /\ cnt = 0 /\ line_start = 0 /\ line_end = 0

\* execute finds the file by its name and checks that it is a program.
Launch ==
  /\ prog = "shell" /\ label = "start"
  /\ args' = args_of(command)
  /\ IF Exists(exe_name(command)) /\ exe_name(command) \in DOMAIN ProgramOf
     THEN prog' = ProgramOf[exe_name(command)] /\ UNCHANGED label
     ELSE label' = "exit" /\ UNCHANGED prog
  /\ UNCHANGED <<vars, command, status, own>>

At(p, l) == Running /\ prog = p /\ label = l

Goto(l) == label' = l /\ UNCHANGED <<command, prog, args, status>>

Exit(s) == /\ syscall_halt
           /\ label' = "exit" /\ status' = s /\ UNCHANGED <<command, prog, args>>

\* A message, then the halt.
Die(message, s) ==
  /\ syscall_write(1, <<message>>, 1)
  /\ label' = "dying" /\ status' = s /\ UNCHANGED <<command, prog, args>>

Dying == Running /\ label = "dying" /\ Exit(status) /\ UNCHANGED own

Argument == syscall_getargs(args, BUFSIZE)

(***************************************************************************)
(* cat                                                                     *)
(***************************************************************************)
CatBegin ==
  /\ At("cat", "start") /\ UNCHANGED own
  /\ \/ args = <<>> /\ Die("could not read arguments", 3)
     \/ args # <<>> /\ syscall_open(Argument) /\ Goto("opened")

CatOpened ==
  /\ At("cat", "opened") /\ UNCHANGED <<dir_fd, fname, grepvars, stale, tests>>
  /\ \/ ret.count = -1 /\ Die("file not found", 2) /\ UNCHANGED fd
     \/ ret.count # -1 /\ fd' = ret.count /\ syscall_read(ret.count, BUFSIZE) /\ Goto("read")

NeverEmpty(count) == FALSE
Empty(count)      == count = 0

CatLoop ==
  /\ At("cat", "read") /\ UNCHANGED own
  /\ \/ Empty(ret.count) /\ Exit(0)
     \/ ret.count = -1 /\ Die("file read failed", 3)
     \/ ~Empty(ret.count) /\ ret.count # -1
        /\ syscall_write(1, ret.bytes, ret.count) /\ Goto("written")

CatWritten ==
  /\ At("cat", "written") /\ UNCHANGED own
  /\ \/ ret.count = -1 /\ Exit(3)
     \/ ret.count # -1 /\ syscall_read(fd, BUFSIZE) /\ Goto("read")

(***************************************************************************)
(* ls                                                                      *)
(***************************************************************************)
LsBegin == At("ls", "start") /\ syscall_open(<<".">>) /\ Goto("opened") /\ UNCHANGED own

LsOpened ==
  /\ At("ls", "opened") /\ UNCHANGED <<fd, fname, grepvars, stale, tests>>
  /\ \/ ret.count = -1 /\ Die("directory open failed", 2) /\ UNCHANGED dir_fd
     \/ ret.count # -1 /\ dir_fd' = ret.count
        /\ syscall_read(ret.count, FILENAME_MAX_LENGTH) /\ Goto("read")

LsLoop ==
  /\ At("ls", "read") /\ UNCHANGED own
  /\ \/ ret.count = 0 /\ Exit(0)
     \/ ret.count = -1 /\ Die("directory entry read failed", 3)
     \/ ret.count > 0 /\ syscall_write(1, Append(ret.bytes, NewLine), ret.count + 1)
        /\ Goto("written")

LsWritten ==
  /\ At("ls", "written") /\ UNCHANGED own
  /\ \/ ret.count = -1 /\ Exit(3)
     \/ ret.count # -1 /\ syscall_read(dir_fd, FILENAME_MAX_LENGTH) /\ Goto("read")

(***************************************************************************)
(* grep: main.                                                             *)
(***************************************************************************)
GrepBegin ==
  /\ At("grep", "start") /\ UNCHANGED own
  /\ \/ args = <<>> /\ Die("could not read argument", 3)
     \/ args # <<>> /\ syscall_open(<<".">>) /\ Goto("opened")

GrepOpened ==
  /\ At("grep", "opened") /\ UNCHANGED <<fd, fname, grepvars, stale, tests>>
  /\ \/ ret.count = -1 /\ Die("directory open failed", 2) /\ UNCHANGED dir_fd
     \/ ret.count # -1 /\ dir_fd' = ret.count
        /\ syscall_read(ret.count, FILENAME_MAX_LENGTH) /\ Goto("entry")

GrepEntry ==
  /\ At("grep", "entry") /\ UNCHANGED <<dir_fd, fd, grepvars, stale, tests>>
  /\ \/ ret.count = 0 /\ Exit(0) /\ UNCHANGED fname
     \/ ret.count = -1 /\ Die("directory entry read failed", 3) /\ UNCHANGED fname
     \/ ret.count > 0 /\ ret.bytes[1] = "."
        /\ syscall_read(dir_fd, FILENAME_MAX_LENGTH) /\ Goto("entry") /\ UNCHANGED fname
     \/ ret.count > 0 /\ ret.bytes[1] # "."
        /\ fname' = ret.bytes /\ syscall_open(ret.bytes) /\ Goto("file")

(***************************************************************************)
(* grep: do_one_file.                                                      *)
(***************************************************************************)
GrepFile ==
  /\ At("grep", "file") /\ UNCHANGED <<dir_fd, fname, data, cnt, line_start, line_end, stale, tests>>
  /\ \/ ret.count = -1 /\ Die("file open failed", 3) /\ UNCHANGED <<fd, last>>
     \/ ret.count # -1 /\ fd' = ret.count /\ last' = 0
        /\ syscall_read(ret.count, BUFSIZE) /\ Goto("chunk")

\* A chunk lies behind what was carried over; lines are looked for from 0.
GrepChunk ==
  /\ At("grep", "chunk") /\ UNCHANGED <<dir_fd, fd, fname, line_end, stale, tests>>
  /\ \/ ret.count = -1 /\ Die("file read failed", 3) /\ UNCHANGED <<data, last, cnt, line_start>>
     \/ /\ ret.count # -1
        /\ data' = [p \in 0..BUFSIZE |-> IF p \in last..(last + ret.count - 1)
                                         THEN ret.bytes[p - last + 1] ELSE data[p]]
        /\ last' = last + ret.count /\ cnt' = ret.count /\ line_start' = 0
        /\ Goto("line") /\ UNCHANGED vars

LineEnd == Min({p \in line_start..(last - 1) : data[p] = NewLine} \cup {last})
Ended   == [data EXCEPT ![LineEnd] = NUL]
Strlen(d, p) == Min({q \in p..BUFSIZE : d[q] = NUL}) - p
Text(d, p)   == [j \in 1..Strlen(d, p) |-> d[p + j - 1]]

\* The line goes on in the next chunk: it is moved to the front (strcpy).
Unfinished == data[LineEnd] # NewLine /\ cnt # 0 /\ line_start # 0
NoCarry    == [p \in 0..BUFSIZE |-> data[p]]
Carried    == [p \in 0..BUFSIZE |->
                 IF p <= Strlen(Ended, line_start) THEN Ended[p + line_start] ELSE Ended[p]]

GrepCarry ==
  /\ At("grep", "line") /\ Unfinished
  /\ data' = Carried /\ last' = last - line_start
  /\ syscall_read(fd, BUFSIZE - (last - line_start)) /\ Goto("chunk")
  /\ UNCHANGED <<dir_fd, fd, fname, cnt, line_start, line_end, stale, tests>>

Found(d, p, s) == p + Len(s) <= BUFSIZE /\ \A j \in 1..Len(s) : d[p + j - 1] = s[j]

\* The line is searched, and printed behind the name of the file.
GrepSearch ==
  /\ At("grep", "line") /\ ~Unfinished
  /\ data' = Ended /\ line_end' = LineEnd /\ Goto("next")
  /\ IF \E check \in line_start..(LineEnd - 1) : Found(Ended, check, Argument)
     THEN LET shown == fname \o <<":">> \o Text(Ended, line_start) \o <<NewLine>>
          IN  syscall_write(1, shown, Len(shown))
     ELSE UNCHANGED vars
  /\ UNCHANGED <<dir_fd, fd, fname, last, cnt, line_start, stale, tests>>

GrepNext ==
  /\ At("grep", "next")
  /\ line_start' = line_end + 1
  /\ \/ line_end + 1 < last /\ Goto("line") /\ UNCHANGED <<vars, last>>
     \/ line_end + 1 >= last /\ last' = 0
        /\ IF cnt = 0 THEN syscall_close(fd) /\ Goto("closed")
           ELSE syscall_read(fd, BUFSIZE) /\ Goto("chunk")
  /\ UNCHANGED <<dir_fd, fd, fname, data, cnt, line_end, stale, tests>>

GrepClosed ==
  /\ At("grep", "closed") /\ UNCHANGED own
  /\ \/ ret.count = -1 /\ Die("file close failed", 3)
     \/ ret.count # -1 /\ syscall_read(dir_fd, FILENAME_MAX_LENGTH) /\ Goto("entry")

(***************************************************************************)
(* counter                                                                 *)
(***************************************************************************)
CounterBegin ==
  /\ At("counter", "start") /\ UNCHANGED own
  /\ syscall_write(1, <<"Enter the Test Number">>, 1) /\ Goto("ask")

CounterAsk ==
  /\ At("counter", "ask") /\ syscall_read(0, BUFSIZE - 1) /\ Goto("choice") /\ UNCHANGED own

\* A line of one character, the newline alone, counts nothing.
CountTo == IF ret.bytes[1] \in DOMAIN Counts THEN Counts[ret.bytes[1]] ELSE 0
WrongChoice == \/ Len(ret.bytes) > 2
               \/ Len(ret.bytes) = 2 /\ ret.bytes[1] \notin DOMAIN Counts

CounterChoice ==
  /\ At("counter", "choice")
  /\ \/ WrongChoice /\ Die("Wrong Choice!", 0) /\ UNCHANGED cnt
     \/ ~WrongChoice /\ cnt' = CountTo /\ Goto("count") /\ UNCHANGED vars
  /\ UNCHANGED <<dir_fd, fd, fname, data, last, line_start, line_end, stale, tests>>

CounterCount ==
  /\ At("counter", "count") /\ UNCHANGED <<dir_fd, fd, fname, grepvars, stale, todo, failed>>
  /\ \/ /\ k < cnt /\ k' = k + 1
        /\ syscall_write(1, Append(itoa(k + 1, 10), NewLine), Len(itoa(k + 1, 10)) + 1)
        /\ Goto("count")
     \/ k >= cnt /\ Exit(0) /\ UNCHANGED k

(***************************************************************************)
(* syserr: calls that must be refused, test by test.                       *)
(***************************************************************************)
NEG_FD == -1073741823
BIG_FD == 1073741823
OnFd(ops, f) == [j \in 1..Len(ops) |-> [op |-> ops[j], x |-> f]]
On(op, xs)   == [j \in 1..Len(xs) |-> [op |-> op, x |-> xs[j]]]
FromTo(a, b) == [j \in 1..(b - a + 1) |-> a + j - 1]

err_neg_fd      == OnFd(<<"read", "write", "close">>, NEG_FD)
err_big_fd      == OnFd(<<"read", "write", "close">>, BIG_FD)
err_open_lots   == On("open", [j \in 1..7 |-> <<".">>]) \o On("close", FromTo(2, 7))
err_open(known) == On("open", <<Append(known, "o"), Front(known), <<>>>>)
err_unopened    == On("close", FromTo(0, 7)) \o On("read", FromTo(2, 7)) \o On("write", FromTo(2, 7))
err_vidmap      == On("vidmap", <<0, 4194304>>)
err_stdin_out   == <<[op |-> "write", x |-> 0], [op |-> "read", x |-> 1]>>
err_syscall_num == On("call", <<BIG_FD, NEG_FD, 0>>)

Tests == <<err_neg_fd, err_big_fd, err_open_lots, err_open(Known), err_unopened, err_vidmap,
           err_stdin_out, err_syscall_num>>

\* The calls that do not reach the file system: the range of vidmap's pointer
\* (the 4 MB of the user page), the numbers the system call entry accepts.
USER_LOCATION == 134217728
PAGE_SIZE_4MB == 4194304
VidmapRefuses(p) == p = 0 \/ p <= USER_LOCATION \/ p > USER_LOCATION + PAGE_SIZE_4MB
NumberRefused(n) == n <= 0 \/ n > 10

SyserrBegin ==
  /\ At("syserr", "start") /\ UNCHANGED own
  /\ syscall_write(1, <<"Choose from tests 1-8">>, 1) /\ Goto("ask")

SyserrAsk ==
  /\ At("syserr", "ask") /\ syscall_read(0, 127) /\ Goto("choice") /\ UNCHANGED own

SyserrSelect ==
  /\ At("syserr", "choice")
  /\ \/ /\ ret.bytes[1] = "0" /\ todo' = FromTo(1, 8) /\ Goto("call") /\ UNCHANGED vars
     \/ /\ \E t \in 1..8 : ret.bytes[1] = lookup[t + 1] /\ todo' = <<t>>
        /\ Goto("call") /\ UNCHANGED vars
     \/ /\ \A t \in 0..8 : ret.bytes[1] # lookup[t + 1]
        /\ Die("Invalid test number", 0) /\ UNCHANGED todo
  /\ UNCHANGED <<dir_fd, fd, fname, grepvars, stale, k, failed>>

Script == Tests[Head(todo)]
InTest == At("syserr", "call") /\ todo # <<>> /\ k < Len(Script)

SyserrCall ==
  /\ InTest /\ UNCHANGED own
  /\ LET c == Script[k + 1]
     IN  \/ c.op = "open" /\ syscall_open(c.x)
         \/ c.op = "close" /\ syscall_close(c.x)
         \/ c.op = "read" /\ syscall_read(c.x, 31)
         \/ c.op = "write" /\ syscall_write(c.x, <<NUL>>, 31)
  /\ Goto("check")

SyserrOther ==
  /\ InTest
  /\ LET c == Script[k + 1]
         refused == IF c.op = "vidmap" THEN VidmapRefuses(c.x) ELSE NumberRefused(c.x)
     IN  /\ c.op \in {"vidmap", "call"}
         /\ failed' = IF refused THEN failed ELSE failed \cup {Head(todo)}
  /\ k' = k + 1 /\ Goto("call")
  /\ UNCHANGED <<vars, dir_fd, fd, fname, grepvars, stale, todo>>

\* err_open_lots counts the refusals of open; every other call must be refused.
SyserrCheck ==
  /\ At("syserr", "check")
  /\ LET refused == ret.count = -1
     IN  IF Head(todo) = 3
         THEN /\ cnt' = IF refused /\ ret.op = "open" THEN cnt + 1 ELSE cnt
              /\ UNCHANGED failed
         ELSE /\ failed' = IF refused THEN failed ELSE failed \cup {Head(todo)}
              /\ UNCHANGED cnt
  /\ k' = k + 1 /\ Goto("call")
  /\ UNCHANGED <<vars, dir_fd, fd, fname, data, last, line_start, line_end, stale, todo>>

SyserrVerdict ==
  /\ At("syserr", "call") /\ todo # <<>> /\ k = Len(Script)
  /\ LET bad == IF Head(todo) = 3 /\ cnt # 1 THEN failed \cup {3} ELSE failed
     IN  /\ failed' = bad
         /\ syscall_write(1, <<IF Head(todo) \in bad THEN "FAIL" ELSE "PASS">>, 1)
  /\ todo' = Tail(todo) /\ k' = 0 /\ cnt' = 0 /\ Goto("call")
  /\ UNCHANGED <<dir_fd, fd, fname, data, last, line_start, line_end, stale>>

SyserrEnd ==
  At("syserr", "call") /\ todo = <<>> /\ Exit(2 * Cardinality(failed)) /\ UNCHANGED own

(***************************************************************************)
(* Any program.                                                            *)
(***************************************************************************)
UserCall ==
  /\ At("user", "start") /\ k < MaxCalls /\ k' = k + 1 /\ Goto("start")
  /\ \/ \E name \in UserNames : syscall_open(name)
     \/ \E f \in UserFds : syscall_close(f)
     \/ \E f \in UserFds, n \in UserSizes : syscall_read(f, n)
     \/ \E f \in UserFds, t \in UserTexts : syscall_write(f, t, Len(t))
     \/ \E f \in UserFds : syscall_write(f, <<>>, -1)
  /\ UNCHANGED <<dir_fd, fd, fname, grepvars, stale, todo, failed>>

UserEnd == At("user", "start") /\ Exit(0) /\ UNCHANGED own

Kernel == (ReadByte \/ ReadReturns) /\ UNCHANGED <<command, prog, args, label, status, own>>

Cat     == CatBegin \/ CatOpened \/ CatLoop \/ CatWritten
Ls      == LsBegin \/ LsOpened \/ LsLoop \/ LsWritten
Grep    == \/ GrepBegin \/ GrepOpened \/ GrepEntry \/ GrepFile \/ GrepChunk \/ GrepCarry
           \/ GrepSearch \/ GrepNext \/ GrepClosed
Counter == CounterBegin \/ CounterAsk \/ CounterChoice \/ CounterCount
Syserr  == \/ SyserrBegin \/ SyserrAsk \/ SyserrSelect \/ SyserrCall \/ SyserrOther
           \/ SyserrCheck \/ SyserrVerdict \/ SyserrEnd
User    == UserCall \/ UserEnd

ProgramNext == Launch \/ Kernel \/ Dying \/ Cat \/ Ls \/ Grep \/ Counter \/ Syserr \/ User

\* The processor runs the one program there is.
ProgramSpec == ProgramInit /\ [][ProgramNext]_all /\ WF_all(ProgramNext)

(***************************************************************************)
(* What the programs are for.                                              *)
(***************************************************************************)
Done(p) == prog = p /\ label = "exit"

\* The lines of a text, a last one without newline too.
LinesOf(text) ==
  LET stops == {p \in 1..Len(text) : text[p] = NewLine}
      ends  == Ascending(IF text = <<>> \/ Last(text) = NewLine THEN stops
                         ELSE stops \cup {Len(text) + 1})
  IN  [l \in 1..Len(ends) |->
         SubSeq(text, IF l = 1 THEN 1 ELSE ends[l - 1] + 1, ends[l] - 1)]

\* What is stored under a name: the clock has no bytes, the directory's are names.
Stored(name) == CASE Dentry(name).type = 0 -> <<>>
                  [] Dentry(name).type = 1 -> FlattenSeq(Listing)
                  [] OTHER                 -> ContentOf(Dentry(name).inode)

\* cat shows all of the file it is given and nothing else, whatever its length is
\* to the buffer's and to a block's, or says that there is none.
CatShowsFile ==
  Done("cat") /\ args # <<>> =>
    IF Argument \in Names THEN status = 0 /\ out = Shown(Stored(Argument))
    ELSE status = 2 /\ out = <<"file not found">>

\* ls shows every name of the directory once, in order: a full directory ends too.
LsListsDirectory ==
  Done("ls") => status = 0 /\ out = FlattenSeq([e \in 1..Len(Listing) |->
                                                 Append(Listing[e], NewLine)])

\* What grep is for: every entry it opens is the clock's or a text, with no NUL and
\* no line longer than the buffer.
TextFiles ==
  \A name \in Names : name[1] # "." =>
    LET text == Stored(name)
    IN  /\ Dentry(name).type # 1
        /\ \A p \in 1..Len(text) : text[p] # NUL
        /\ \A p \in 1..(Len(text) - BUFSIZE) : \E q \in p..(p + BUFSIZE) : text[q] = NewLine

Matches(name) ==
  LET lines  == LinesOf(Stored(name))
      Has(l) == \E p \in 1..Len(l) : \E q \in p..Len(l) : SubSeq(l, p, q) = Argument
  IN  FlattenSeq([l \in 1..Len(lines) |->
        IF Has(lines[l]) THEN name \o <<":">> \o lines[l] \o <<NewLine>> ELSE <<>>])

\* grep prints every line of a text that has the word, once and whole, wherever the
\* chunks of its buffer cut the file; unless the byte past the buffer, which it reads
\* before it ever wrote it, happens to be a newline.
GrepPrintsMatches ==
  Done("grep") /\ args # <<>> /\ stale # NewLine /\ TextFiles =>
    /\ status = 0
    /\ out = FlattenSeq([e \in 1..Len(Listing) |->
                           IF Listing[e][1] = "." THEN <<>> ELSE Matches(Listing[e])])

\* Every call that syserr makes is refused as it expects.
SyserrPasses == prog = "syserr" => failed = {}

\* counter prints the numbers from 1 on, in decimal, without leading zeros.
CounterCounts ==
  prog = "counter" /\ label = "count" =>
    LET lines == LinesOf(Tail(out))
    IN  /\ Len(lines) = k
        /\ \A l \in 1..k : Value(lines[l], 10) = l /\ lines[l][1] # "0"

\* The kernel's parsing gives a program the name and the arguments the emulation
\* gives it, but for a blank that is left at the end when the line ends in blanks
\* (cat then asks for a file of that name).
ArgsAsTyped ==
  prog # "shell" /\ command[1] # Blank =>
    LET words == ece391_execute(command)
    IN  /\ exe_name(command) = words[1]
        /\ Argument = ece391_getargs(words)
                        \o IF args # <<>> /\ Last(args) = Blank THEN <<Blank>> ELSE <<>>

\* A program comes to its end, if the keyboard and the clock answer.
ProgramsEnd == <>(label = "exit" \/ fate = "killed")
=============================================================================
