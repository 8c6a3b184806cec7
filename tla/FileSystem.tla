----------------------------- MODULE FileSystem ------------------------------
(***************************************************************************)
(* The file system and the calls that reach it: open, close, read, write   *)
(* (syscall.c), the operations tables, file_read, dir_read and read_data   *)
(* (filesys.c), for the descriptors of one program.                        *)
(*                                                                         *)
(* A call is one step, except the read of a file: read_data copies byte by *)
(* byte, a round of its loop a step, and walks from data block to data     *)
(* block as it goes.  The image is constant: the file system is read-only. *)
(* A name is the sequence of its characters without the padding, and       *)
(* pointers are valid (the programs pass their own buffers).  What a read  *)
(* of the keyboard returns is Input's matter, what the clock answers       *)
(* Rtc's.  StartsWith, StaysInBlock, ... are slips the code does not       *)
(* make, each before what it would spoil.                                  *)
(***************************************************************************)
EXTENDS Integers, Sequences

CONSTANTS BLOCK_4KB,       \* bytes in a block
          FILENAME_MAX_LENGTH,
          DENTRY_NUM,      \* entries in the boot block
          MAX_NUM_FD,      \* descriptors of a program
          boot,            \* total_dentries, total_inodes and the dentries
          inode_ptr,       \* inode -> length and data_block
          data_start,      \* the data blocks
          Lines,           \* what a read of the keyboard may return
          NUL

Entries == 0..(DENTRY_NUM - 1)
Inodes  == 1..(boot.total_inodes - 1)
Fds     == 2..(MAX_NUM_FD - 1)
Types   == 0..2

\* What is stored: names fit and have no NUL, entries past the last are zero, a
\* regular file has an inode other than 0, and the data blocks its length needs.
ASSUME ImageAssumption ==
  /\ BLOCK_4KB \in Nat \ {0} /\ FILENAME_MAX_LENGTH \in Nat \ {0}
  /\ MAX_NUM_FD \in Nat /\ MAX_NUM_FD >= 3 /\ DENTRY_NUM \in Nat
  /\ boot.total_inodes \in Nat /\ boot.total_dentries \in 1..DENTRY_NUM
  /\ boot.dentries \in [Entries -> [file_name : Seq(STRING), type : Types, inode : Nat]]
  /\ \A e \in Entries :
       /\ Len(boot.dentries[e].file_name) <= FILENAME_MAX_LENGTH
       /\ \A c \in 1..Len(boot.dentries[e].file_name) : boot.dentries[e].file_name[c] # NUL
       /\ e < boot.total_dentries <=> boot.dentries[e].file_name # <<>>
       /\ boot.dentries[e].type = 2 => boot.dentries[e].inode \in Inodes
  /\ \A ino \in Inodes :
       /\ inode_ptr[ino].length \in Nat
       /\ \A n \in 0..(inode_ptr[ino].length - 1) :
            /\ n \div BLOCK_4KB \in DOMAIN inode_ptr[ino].data_block
            /\ data_start[inode_ptr[ino].data_block[n \div BLOCK_4KB]][n % BLOCK_4KB] \in STRING
  /\ Lines \subseteq Seq(STRING) /\ NUL \in STRING

VARIABLES fd_array,        \* of the PCB: ops, inode, file_pos, flags
          pc,              \* "user", or "read_data" inside its loop
          fd_read, offset, length, i, dblock_location, dblock_data_location, buf,
          ret,             \* the last call, its arguments, its value and its data
          out,             \* what terminal_write sent to the screen
          fate             \* the program is running, halted, or killed by an exception

locals == <<fd_read, offset, length, i, dblock_location, dblock_data_location, buf>>
vars   == <<fd_array, pc, locals, ret, out, fate>>

(***************************************************************************)
(* The directory.                                                          *)
(***************************************************************************)
\* Past the last entry of the boot block lies inode 0, which is all zeros, as is
\* every entry that is not used.
NoEntry == [file_name |-> <<>>, type |-> 0, inode |-> 0]
DentryAt(index) == IF index \in Entries THEN boot.dentries[index] ELSE NoEntry

\* read_dentry_by_index fails only beyond the entry past the last.
LastIndexRefused(index) == index >= boot.total_dentries
IndexRefused(index)     == index > boot.total_dentries

\* read_dentry_by_name: the first entry with that name; all its characters count.
StartsWith(stored, name) == Len(name) <= Len(stored) /\ SubSeq(stored, 1, Len(name)) = name
SameName(stored, name)   == stored = name
IsAt(name, e)  == SameName(DentryAt(e).file_name, name)
Exists(name)   == Len(name) <= FILENAME_MAX_LENGTH /\ \E e \in 0..DENTRY_NUM : IsAt(name, e)
Dentry(name)   == DentryAt(CHOOSE e \in 0..DENTRY_NUM :
                             IsAt(name, e) /\ \A f \in 0..(e - 1) : ~IsAt(name, f))

(***************************************************************************)
(* Calls.                                                                  *)
(***************************************************************************)
\* The operations tables by the type of an entry.
OpsOf(type) == IF type = 0 THEN "rtc" ELSE IF type = 1 THEN "dir" ELSE "file"

Unused == [ops |-> "none", inode |-> 0, file_pos |-> 0, flags |-> 0]

\* Descriptors 2 on: memory is taken to be zero at boot, and halt clears the flags.
Init ==
  /\ fd_array = [fd \in 0..(MAX_NUM_FD - 1) |->
       IF fd = 0 THEN [Unused EXCEPT !.ops = "stdin", !.flags = 1]
       ELSE IF fd = 1 THEN [Unused EXCEPT !.ops = "stdout", !.flags = 1] ELSE Unused]
  /\ pc = "user" /\ fd_read = 0 /\ offset = 0 /\ length = 0 /\ i = 0
  /\ dblock_location = 0 /\ dblock_data_location = 0 /\ buf = <<>>
  /\ ret = [op |-> "none", fd |-> 0, name |-> <<>>, n |-> 0, count |-> 0, bytes |-> <<>>]
  /\ out = <<>> /\ fate = "running"

Returns(op, fd, name, n, count, bytes) ==
  ret' = [op |-> op, fd |-> fd, name |-> name, n |-> n, count |-> count, bytes |-> bytes]

InUse(fd) == fd \in 0..(MAX_NUM_FD - 1) /\ fd_array[fd].flags = 1

Running == pc = "user" /\ fate = "running"

\* The first free descriptor, set up for the kind of file.
syscall_open(name) ==
  /\ Running
  /\ \/ /\ name # <<>> /\ Exists(name)
        /\ \E fd \in Fds :
             /\ ~InUse(fd) /\ \A e \in 2..(fd - 1) : InUse(e)
             /\ fd_array' = [fd_array EXCEPT ![fd] =
                  [ops |-> OpsOf(Dentry(name).type), inode |-> Dentry(name).inode,
                   file_pos |-> 0, flags |-> 1]]
             /\ Returns("open", 0, name, 0, fd, <<>>)
     \/ /\ name = <<>> \/ ~Exists(name) \/ \A fd \in Fds : InUse(fd)
        /\ Returns("open", 0, name, 0, -1, <<>>)
        /\ UNCHANGED fd_array
  /\ UNCHANGED <<pc, locals, out, fate>>

\* The operations table stays behind; every close_fn returns 0.  Descriptor
\* MAX_NUM_FD is not refused, but the stack pointer it takes for flags is not 1.
AlwaysOpen(fd) == fd \in Fds
MayClose(fd) == fd >= 2 /\ InUse(fd)
syscall_close(fd) ==
  /\ Running
  /\ \/ /\ MayClose(fd)
        /\ fd_array' = [fd_array EXCEPT ![fd] = [@ EXCEPT !.flags = 0, !.inode = 0, !.file_pos = 0]]
        /\ Returns("close", fd, <<>>, 0, 0, <<>>)
     \/ /\ ~MayClose(fd)
        /\ Returns("close", fd, <<>>, 0, -1, <<>>)
        /\ UNCHANGED fd_array
  /\ UNCHANGED <<pc, locals, out, fate>>

\* halt clears every flag.
Cleared == [fd \in DOMAIN fd_array |-> [fd_array[fd] EXCEPT !.flags = 0]]
syscall_halt ==
  /\ Running
  /\ fd_array' = Cleared /\ fate' = "halted"
  /\ UNCHANGED <<pc, locals, ret, out>>

\* fd = MAX_NUM_FD passes the checks and lies on the rest of the PCB: execute_esp
\* for flags, pid for the operations table.  The call through it is a page fault,
\* and the exception ends the program: the call has no answer.
PastTheTable(fd) ==
  /\ fd = MAX_NUM_FD
  /\ fate' = "killed" /\ fd_array' = Cleared
  /\ UNCHANGED <<pc, locals, out>>

(***************************************************************************)
(* read: by the operations table.                                          *)
(***************************************************************************)
Answers(fd, n, count, bytes) ==
  /\ Returns("read", fd, <<>>, n, count, bytes)
  /\ UNCHANGED <<fd_array, pc, locals, out, fate>>

dir_read(fd, n) ==
  LET index == fd_array[fd].file_pos
      name  == DentryAt(index).file_name
  IN  \/ /\ ~IndexRefused(index)
         /\ fd_array' = [fd_array EXCEPT ![fd].file_pos = index + 1]
         /\ Returns("read", fd, <<>>, n, Len(name), name)
         /\ UNCHANGED <<pc, locals, out, fate>>
      \/ IndexRefused(index) /\ Answers(fd, n, -1, <<>>)

\* file_read and the head of read_data.
file_read(fd, n) ==
  \/ n < 0 /\ Answers(fd, n, -1, <<>>)
  \/ n = 0 /\ Answers(fd, n, 0, <<>>)
  \/ /\ n > 0 /\ fd_array[fd].inode \notin Inodes
     /\ Answers(fd, n, -1, <<>>)
  \/ /\ n > 0 /\ fd_array[fd].inode \in Inodes
     /\ pc' = "read_data" /\ fd_read' = fd /\ length' = n
     /\ offset' = fd_array[fd].file_pos /\ i' = 0 /\ buf' = <<>>
     /\ dblock_location' = fd_array[fd].file_pos \div BLOCK_4KB
     /\ dblock_data_location' = fd_array[fd].file_pos % BLOCK_4KB
     /\ UNCHANGED <<fd_array, ret, out, fate>>

syscall_read(fd, n) ==
  /\ Running
  /\ \/ PastTheTable(fd) /\ Returns("read", fd, <<>>, n, 0, <<>>)
     \/ fd # MAX_NUM_FD /\ ~InUse(fd) /\ Answers(fd, n, -1, <<>>)
     \/ /\ InUse(fd)
        /\ \/ fd_array[fd].ops = "stdin" /\ \E l \in Lines : Answers(fd, n, Len(l), l)
           \/ fd_array[fd].ops = "stdout" /\ Answers(fd, n, -1, <<>>)
           \/ fd_array[fd].ops = "rtc" /\ Answers(fd, n, 0, <<>>)
           \/ fd_array[fd].ops = "dir" /\ dir_read(fd, n)
           \/ fd_array[fd].ops = "file" /\ file_read(fd, n)

curr_inode == inode_ptr[fd_array[fd_read].inode]

\* The index of the data block and the offset in it, as a round finds them.
StaysInBlock == <<dblock_location, dblock_data_location % BLOCK_4KB>>
Place == IF dblock_data_location >= BLOCK_4KB THEN <<dblock_location + 1, 0>>
         ELSE <<dblock_location, dblock_data_location>>

AtEnd == i = length \/ offset + i >= curr_inode.length

\* A round of the loop copies a byte.
ReadByte ==
  /\ pc = "read_data" /\ ~AtEnd
  /\ buf' = Append(buf, data_start[curr_inode.data_block[Place[1]]][Place[2]])
  /\ dblock_location' = Place[1]
  /\ dblock_data_location' = Place[2] + 1
  /\ i' = i + 1
  /\ UNCHANGED <<fd_array, pc, fd_read, offset, length, ret, out, fate>>

\* read_data returns the count, and file_read moves the position by it.
WholeRequest == [fd_array EXCEPT ![fd_read].file_pos = @ + length]
Advanced     == [fd_array EXCEPT ![fd_read].file_pos = @ + i]
ReadReturns ==
  /\ pc = "read_data" /\ AtEnd
  /\ fd_array' = Advanced
  /\ Returns("read", fd_read, <<>>, length, i, buf)
  /\ pc' = "user" /\ fd_read' = 0 /\ offset' = 0 /\ length' = 0 /\ i' = 0
  /\ dblock_location' = 0 /\ dblock_data_location' = 0 /\ buf' = <<>>
  /\ UNCHANGED <<out, fate>>

(***************************************************************************)
(* write: terminal_write shows what is not NUL; files and directories take *)
(* nothing, nor does the keyboard.                                         *)
(***************************************************************************)
Shown(text) ==
  LET shown[n \in 0..Len(text)] ==
        IF n = 0 THEN <<>>
        ELSE IF text[n] = NUL THEN shown[n - 1] ELSE Append(shown[n - 1], text[n])
  IN  shown[Len(text)]

syscall_write(fd, text, n) ==
  /\ Running
  /\ \/ n >= 0 /\ PastTheTable(fd) /\ Returns("write", fd, <<>>, n, 0, text)
     \/ /\ n >= 0 /\ InUse(fd) /\ fd_array[fd].ops = "stdout"
        /\ out' = out \o Shown(text)
        /\ Returns("write", fd, <<>>, n, 0, text)
        /\ UNCHANGED <<fd_array, pc, locals, fate>>
     \/ /\ n >= 0 /\ InUse(fd) /\ fd_array[fd].ops = "rtc"
        /\ \E r \in {0, -1} : Returns("write", fd, <<>>, n, r, text)
        /\ UNCHANGED <<fd_array, pc, locals, out, fate>>
     \/ /\ \/ n < 0 \/ (fd # MAX_NUM_FD /\ ~InUse(fd))
           \/ InUse(fd) /\ fd_array[fd].ops \in {"stdin", "dir", "file"}
        /\ Returns("write", fd, <<>>, n, -1, text)
        /\ UNCHANGED <<fd_array, pc, locals, out, fate>>

\* Any program: any call with any arguments.
Call ==
  \/ \E name \in Seq(STRING) : syscall_open(name)
  \/ \E fd \in Int : syscall_close(fd)
  \/ \E fd, n \in Int : syscall_read(fd, n)
  \/ \E fd, n \in Int, text \in Seq(STRING) : syscall_write(fd, text, n)
  \/ syscall_halt

Next == Call \/ ReadByte \/ ReadReturns

Spec == Init /\ [][Next]_vars

(***************************************************************************)
(* What the loop should do, and what the calls promise.                    *)
(***************************************************************************)
\* Byte n of a file, from 0, found in one go.
FileByte(ino, n) == data_start[inode_ptr[ino].data_block[n \div BLOCK_4KB]][n % BLOCK_4KB]

ContentOf(ino) == [k \in 1..inode_ptr[ino].length |-> FileByte(ino, k - 1)]

Listing == [k \in 1..boot.total_dentries |-> boot.dentries[k - 1].file_name]

Names == {boot.dentries[e].file_name : e \in 0..(boot.total_dentries - 1)}

StreamOf(f) == IF f.flags = 1 THEN [kind |-> f.ops, inode |-> f.inode, pos |-> f.file_pos]
               ELSE [kind |-> "none", inode |-> 0, pos |-> 0]

Streams == INSTANCE FileStreams WITH
  Files   <- [name \in Names |-> [kind |-> OpsOf(Dentry(name).type), inode |-> Dentry(name).inode]],
  Content <- [ino \in Inodes |-> ContentOf(ino)],
  PastFd  <- MAX_NUM_FD,
  stream  <- [fd \in Fds |-> StreamOf(fd_array[fd])]

\* The calls keep the promise of FileStreams, but for the deviations named there: a
\* read returns the next bytes of the file across its blocks, wherever it starts and
\* however far it goes.
ImplementsStreams == Streams!Spec

\* Beside the types: the position in a file never lies beyond its end.
TypeOK ==
  /\ fd_array \in [0..(MAX_NUM_FD - 1) ->
       [ops : {"none", "stdin", "stdout", "rtc", "dir", "file"},
        inode : Nat, file_pos : Nat, flags : {0, 1}]]
  /\ \A fd \in Fds : InUse(fd) /\ fd_array[fd].ops = "file" =>
       /\ fd_array[fd].inode \in Inodes
       /\ fd_array[fd].file_pos <= inode_ptr[fd_array[fd].inode].length
  /\ pc \in {"user", "read_data"} /\ fate \in {"running", "halted", "killed"}
  /\ fd_read \in 0..(MAX_NUM_FD - 1) /\ offset \in Nat /\ length \in Nat /\ i \in Nat
  /\ dblock_location \in Nat /\ dblock_data_location \in 0..BLOCK_4KB
  /\ ret.count \in Int /\ ret.fd \in Int

\* read_data has copied the bytes from offset on, neither more nor beyond the end,
\* and its two indices stand where byte offset + i is, or just past the block.
CopiesTheFile ==
  pc = "read_data" =>
    /\ i <= length /\ offset + i <= curr_inode.length
    /\ buf = SubSeq(ContentOf(fd_array[fd_read].inode), offset + 1, offset + i)
    /\ dblock_location * BLOCK_4KB + dblock_data_location = offset + i

\* A read moves the position of its own descriptor by the count it returns (by one
\* entry, in the directory), and no other; nothing but open and close resets one.
OnlyReadsMove ==
  [][\A fd \in Fds :
       /\ fd_array[fd].flags = 1 /\ fd_array'[fd].flags = 1
       /\ fd_array'[fd].file_pos # fd_array[fd].file_pos
       => /\ ret'.op = "read" /\ ret'.fd = fd /\ ret'.count >= 0
          /\ fd_array'[fd] = [fd_array[fd] EXCEPT
               !.file_pos = @ + IF fd_array[fd].ops = "dir" THEN 1 ELSE ret'.count]]_vars
=============================================================================
