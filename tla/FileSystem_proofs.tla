-------------------------- MODULE FileSystem_proofs --------------------------
(***************************************************************************)
(* FileSystem for any image, any size of block and of the descriptor table *)
(* and any calls: the inductive invariant IInv, the loop of read_data, the *)
(* positions of the descriptors, and that the calls implement FileStreams. *)
(* IInv adds to TypeOK and CopiesTheFile what the table holds (Descriptors)*)
(* and that the loop runs on an open file from its position (Reading).     *)
(***************************************************************************)
EXTENDS FileSystem, SequenceTheorems, NumberFacts, TLAPS

\* A part of a sequence grows by the next element.
LEMMA Grow ==
  ASSUME NEW S, NEW s \in Seq(S), NEW o \in Nat, NEW n \in Nat, o + n < Len(s),
         NEW x, x = s[o + (n + 1)]
  PROVE  Append(SubSeq(s, o + 1, o + n), x) = SubSeq(s, o + 1, o + (n + 1))
<1> DEFINE a == SubSeq(s, o + 1, o + n)
           b == SubSeq(s, o + 1, o + (n + 1))
<1>1. /\ a \in Seq(S) /\ Len(a) = n
      /\ \A j \in 1..n : a[j] = s[o + j]
  BY SubSeqProperties
<1>2. /\ b \in Seq(S) /\ Len(b) = n + 1
      /\ \A j \in 1..(n + 1) : b[j] = s[o + j]
  BY SubSeqProperties
<1>3. x \in S
  OBVIOUS
<1> HIDE DEF a, b
<1>4. /\ Append(a, x) \in Seq(S) /\ Len(Append(a, x)) = n + 1
      /\ Append(a, x)[n + 1] = x /\ \A j \in 1..n : Append(a, x)[j] = a[j]
  BY <1>1, <1>3
<1>5. ASSUME NEW j \in 1..(n + 1) PROVE Append(a, x)[j] = b[j]
  <2>1. CASE j = n + 1
    BY <2>1, <1>2, <1>4
  <2>2. CASE j # n + 1
    <3>1. j \in 1..n
      BY <2>2
    <3> QED
      BY <3>1, <1>1, <1>2, <1>4
  <2> QED
    BY <2>1, <2>2
<1>6. Append(a, x) = b
  BY <1>2, <1>4, <1>5, SeqEqual
<1> QED
  BY <1>6 DEF a, b

\* An entry read by its index, the one past the table included, is typed.
LEMMA EntryTyped ==
  ASSUME NEW e \in Nat
  PROVE  /\ DentryAt(e).file_name \in Seq(STRING)
         /\ DentryAt(e).type \in Types /\ DentryAt(e).inode \in Nat
         /\ Len(DentryAt(e).file_name) <= FILENAME_MAX_LENGTH
         /\ DentryAt(e).file_name # <<>> <=> e < boot.total_dentries
         /\ DentryAt(e).type = 2 => DentryAt(e).inode \in Inodes
<1>1. CASE e \in Entries
  <2>1. boot.dentries[e] \in [file_name : Seq(STRING), type : Types, inode : Nat]
    BY <1>1, ImageAssumption
  <2> QED
    BY <1>1, <2>1, ImageAssumption DEF DentryAt
<1>2. CASE e \notin Entries
  <2>1. e >= DENTRY_NUM
    BY <1>2, ImageAssumption DEF Entries
  <2> QED
    BY <1>2, <2>1, ImageAssumption DEF DentryAt, NoEntry, Types
<1> QED
  BY <1>1, <1>2

\* The lookup of a name that exists returns the first entry that has it.
LEMMA DentryFound ==
  ASSUME NEW name, Exists(name), name # <<>>
  PROVE  \E e \in 0..(boot.total_dentries - 1) :
           /\ e \in Entries /\ DentryAt(e).file_name = name /\ Dentry(name) = DentryAt(e)
<1> DEFINE Hits == {e \in 0..DENTRY_NUM : IsAt(name, e)}
           First(e) == IsAt(name, e) /\ \A f \in 0..(e - 1) : ~IsAt(name, f)
<1>1. DENTRY_NUM \in Nat /\ boot.total_dentries \in 1..DENTRY_NUM
  BY ImageAssumption
<1>2. Hits \subseteq Nat /\ Hits # {}
  BY <1>1 DEF Exists
<1>3. PICK e \in Hits : \A f \in Hits : e <= f
  BY <1>2, LeastNumber
<1>4. \A f \in 0..(e - 1) : ~IsAt(name, f)
  BY <1>1, <1>3
<1>5. \E x \in 0..DENTRY_NUM : First(x)
  BY <1>3, <1>4
<1> DEFINE d == CHOOSE x \in 0..DENTRY_NUM : First(x)
<1>6. d \in 0..DENTRY_NUM /\ First(d)
  BY <1>5
<1>7. Dentry(name) = DentryAt(d)
  BY DEF Dentry
<1> HIDE DEF d
<1>8. DentryAt(d).file_name = name
  BY <1>6 DEF IsAt, SameName
<1>9. d \in Nat /\ d < boot.total_dentries
  BY <1>1, <1>6, <1>8, EntryTyped
<1>10. d \in 0..(boot.total_dentries - 1) /\ d \in Entries
  BY <1>1, <1>9 DEF Entries
<1> QED
  BY <1>7, <1>8, <1>10

\* open finds exactly the names of the directory.
LEMMA NameExists ==
  ASSUME NEW name
  PROVE  name \in Names <=> name # <<>> /\ Exists(name)
<1>1. DENTRY_NUM \in Nat /\ boot.total_dentries \in 1..DENTRY_NUM
  BY ImageAssumption
<1>2. ASSUME NEW e \in 0..(boot.total_dentries - 1)
      PROVE  e \in Nat /\ e \in 0..DENTRY_NUM /\ e < boot.total_dentries
             /\ DentryAt(e) = boot.dentries[e]
  BY <1>1 DEF DentryAt, Entries
<1>3. ASSUME name \in Names PROVE name # <<>> /\ Exists(name)
  <2>1. PICK e \in 0..(boot.total_dentries - 1) : boot.dentries[e].file_name = name
    BY <1>3 DEF Names
  <2> QED
    BY <2>1, <1>2, EntryTyped DEF Exists, IsAt, SameName
<1>4. ASSUME name # <<>>, Exists(name) PROVE name \in Names
  BY <1>4, <1>2, DentryFound DEF Names
<1> QED
  BY <1>3, <1>4

\* What open puts in the table is typed, and a file has an inode of its own.
LEMMA OpenedTyped ==
  ASSUME NEW name, Exists(name), name # <<>>
  PROVE  /\ OpsOf(Dentry(name).type) \in {"rtc", "dir", "file"}
         /\ Dentry(name).inode \in Nat
         /\ OpsOf(Dentry(name).type) = "file" => Dentry(name).inode \in Inodes
<1>1. PICK e \in 0..(boot.total_dentries - 1) : Dentry(name) = DentryAt(e)
  BY DentryFound
<1>2. e \in Nat
  BY ImageAssumption
<1>3. /\ DentryAt(e).type \in Types /\ DentryAt(e).inode \in Nat
      /\ DentryAt(e).type = 2 => DentryAt(e).inode \in Inodes
  BY <1>2, EntryTyped
<1>4. ASSUME NEW type \in Types
      PROVE  OpsOf(type) \in {"rtc", "dir", "file"} /\ (OpsOf(type) = "file" => type = 2)
  BY DEF OpsOf, Types
<1> QED
  BY <1>1, <1>3, <1>4

\* The content of a file is a sequence as long as the file.
LEMMA ContentTyped ==
  ASSUME NEW ino \in Inodes
  PROVE  /\ \E S : ContentOf(ino) \in Seq(S)
         /\ Len(ContentOf(ino)) = inode_ptr[ino].length /\ Len(ContentOf(ino)) \in Nat
         /\ \A n \in 0..(inode_ptr[ino].length - 1) : ContentOf(ino)[n + 1] = FileByte(ino, n)
<1> DEFINE len == inode_ptr[ino].length
           S == {FileByte(ino, n) : n \in 0..(len - 1)}
<1>1. len \in Nat
  BY ImageAssumption
<1>2. ContentOf(ino) = [p \in 1..len |-> FileByte(ino, p - 1)]
  BY DEF ContentOf
<1> HIDE DEF len
<1>3. ContentOf(ino) \in [1..len -> S]
  BY <1>1, <1>2
<1>4. ContentOf(ino) \in Seq(S)
  BY <1>1, <1>3, SeqDef
<1>5. Len(ContentOf(ino)) = len
  BY <1>1, <1>3, <1>4, LenProperties
<1>6. \A n \in 0..(len - 1) : ContentOf(ino)[n + 1] = FileByte(ino, n)
  BY <1>1, <1>2
<1> QED
  BY <1>1, <1>4, <1>5, <1>6 DEF len

\* Descriptors 0 and 1 are the keyboard and the screen until the program ends, and
\* every other open one has the operations table of an entry.
Descriptors ==
  /\ \A fd \in Fds : /\ fd_array[fd].ops \in {"none", "rtc", "dir", "file"}
                     /\ InUse(fd) => fd_array[fd].ops # "none"
  /\ fd_array[0].ops = "stdin" /\ fd_array[1].ops = "stdout"
  /\ fate = "running" => InUse(0) /\ InUse(1)

\* The loop runs for a program in a read, on an open file, from its position.
Reading ==
  pc = "read_data" => /\ fate = "running" /\ fd_read \in Fds
                      /\ InUse(fd_read) /\ fd_array[fd_read].ops = "file"
                      /\ offset = fd_array[fd_read].file_pos

IInv == TypeOK /\ CopiesTheFile /\ Descriptors /\ Reading

\* The descriptors are 0, 1 and those open hands out; the one past them is none.
LEMMA Bounds ==
  /\ MAX_NUM_FD \in Nat /\ Fds \subseteq 0..(MAX_NUM_FD - 1)
  /\ 0 \in 0..(MAX_NUM_FD - 1) /\ 1 \in 0..(MAX_NUM_FD - 1)
  /\ 0 \notin Fds /\ 1 \notin Fds /\ MAX_NUM_FD \notin Fds
  /\ \A fd \in 0..(MAX_NUM_FD - 1) : fd = 0 \/ fd = 1 \/ fd \in Fds
BY ImageAssumption DEF Fds

\* A program starts with its two streams and nothing else.
LEMMA InitInv == Init => IInv
<1> SUFFICES ASSUME Init PROVE IInv
  OBVIOUS
<1>1. TypeOK
  <2>1. fd_array \in [0..(MAX_NUM_FD - 1) ->
          [ops : {"none", "stdin", "stdout", "rtc", "dir", "file"},
           inode : Nat, file_pos : Nat, flags : {0, 1}]]
    BY DEF Init, Unused
  <2>2. \A fd \in Fds : fd_array[fd].flags = 0
    BY Bounds DEF Init, Unused
  <2>3. /\ fd_read = 0 /\ offset = 0 /\ length = 0 /\ i = 0 /\ dblock_location = 0
        /\ dblock_data_location = 0 /\ ret.count = 0 /\ ret.fd = 0 /\ fate = "running"
        /\ pc = "user"
    BY DEF Init
  <2> QED
    BY <2>1, <2>2, <2>3, Bounds, ImageAssumption DEF TypeOK, InUse
<1>2. CopiesTheFile /\ Reading
  BY DEF Init, CopiesTheFile, Reading
<1>3. Descriptors
  BY Bounds DEF Init, Descriptors, Unused, InUse
<1> QED
  BY <1>1, <1>2, <1>3 DEF IInv

\* A step that changes no descriptor and stays out of the loop.
LEMMA QuietStep ==
  ASSUME IInv, UNCHANGED <<fd_array, pc, locals, fate>>, ret'.count \in Int, ret'.fd \in Int
  PROVE  IInv'
BY DEF IInv, TypeOK, CopiesTheFile, Descriptors, Reading, locals, InUse, curr_inode

\* A step of a call that changes one descriptor.
LEMMA TableStep ==
  ASSUME IInv, pc = "user", UNCHANGED <<pc, locals, fate>>,
         NEW fd \in Fds, NEW d,
         fd_array' = [fd_array EXCEPT ![fd] = d],
         d \in [ops : {"none", "rtc", "dir", "file"}, inode : Nat, file_pos : Nat, flags : {0, 1}],
         d.flags = 1 => d.ops # "none",
         d.flags = 1 /\ d.ops = "file" =>
           d.inode \in Inodes /\ d.file_pos <= inode_ptr[d.inode].length,
         ret'.count \in Int, ret'.fd \in Int
  PROVE  IInv'
<1>1. /\ fd_array'[fd] = d
      /\ \A e \in 0..(MAX_NUM_FD - 1) : e # fd => fd_array'[e] = fd_array[e]
      /\ DOMAIN fd_array' = 0..(MAX_NUM_FD - 1)
  BY Bounds DEF IInv, TypeOK
<1>2. TypeOK'
  BY <1>1, Bounds DEF IInv, TypeOK, locals, InUse
<1>3. CopiesTheFile' /\ Reading'
  BY DEF CopiesTheFile, Reading
<1>4. Descriptors'
  BY <1>1, Bounds DEF IInv, Descriptors, InUse
<1> QED
  BY <1>2, <1>3, <1>4 DEF IInv

\* open keeps the invariant: the new descriptor is at the start of its file.
LEMMA OpenStep ==
  ASSUME IInv, NEW name, syscall_open(name)
  PROVE  IInv'
<1>1. CASE UNCHANGED fd_array
  <2>1. UNCHANGED <<pc, locals, fate>> /\ ret'.count \in Int /\ ret'.fd \in Int
    BY Bounds DEF syscall_open, Returns, Fds
  <2> QED
    BY <1>1, <2>1, QuietStep
<1>2. CASE ~UNCHANGED fd_array
  <2>1. /\ name # <<>> /\ Exists(name) /\ pc = "user"
        /\ UNCHANGED <<pc, locals, fate>>
    BY <1>2 DEF syscall_open, Running
  <2>2. PICK fd \in Fds :
          /\ fd_array' = [fd_array EXCEPT ![fd] =
               [ops |-> OpsOf(Dentry(name).type), inode |-> Dentry(name).inode,
                file_pos |-> 0, flags |-> 1]]
          /\ Returns("open", 0, name, 0, fd, <<>>)
    BY <1>2 DEF syscall_open
  <2>3. ret'.count \in Int /\ ret'.fd \in Int
    BY <2>2 DEF Returns, Fds
  <2>4. /\ OpsOf(Dentry(name).type) \in {"rtc", "dir", "file"}
        /\ Dentry(name).inode \in Nat
        /\ OpsOf(Dentry(name).type) = "file" =>
             /\ Dentry(name).inode \in Inodes
             /\ 0 <= inode_ptr[Dentry(name).inode].length
    BY <2>1, OpenedTyped, ImageAssumption
  <2> QED
    BY <2>1, <2>2, <2>3, <2>4, TableStep
<1> QED
  BY <1>1, <1>2

\* close keeps it.
LEMMA CloseStep ==
  ASSUME IInv, NEW fd \in Int, syscall_close(fd)
  PROVE  IInv'
<1>1. CASE MayClose(fd)
  <2> DEFINE d == [fd_array[fd] EXCEPT !.flags = 0, !.inode = 0, !.file_pos = 0]
  <2>1. fd \in Fds /\ pc = "user"
    BY <1>1, Bounds DEF MayClose, InUse, syscall_close, Running, Fds
  <2>2. /\ d \in [ops : {"none", "rtc", "dir", "file"}, inode : Nat, file_pos : Nat, flags : {0, 1}]
        /\ d.flags = 0
    <3>1. /\ fd_array[fd] \in [ops : {"none", "stdin", "stdout", "rtc", "dir", "file"},
                               inode : Nat, file_pos : Nat, flags : {0, 1}]
          /\ fd_array[fd].ops \in {"none", "rtc", "dir", "file"}
      BY <2>1, Bounds DEF IInv, TypeOK, Descriptors
    <3> QED
      BY <3>1
  <2>3. /\ fd_array' = [fd_array EXCEPT ![fd] = d]
        /\ UNCHANGED <<pc, locals, fate>> /\ ret'.count \in Int /\ ret'.fd \in Int
    BY <1>1 DEF syscall_close, Returns
  <2> HIDE DEF d
  <2>4. ~(d.flags = 1)
    BY <2>2
  <2> QED
    BY <2>1, <2>2, <2>3, <2>4, TableStep
<1>2. CASE ~MayClose(fd)
  BY <1>2, QuietStep DEF syscall_close, Returns
<1> QED
  BY <1>1, <1>2

\* The program ends: every flag is cleared.
LEMMA EndStep ==
  ASSUME IInv, pc = "user", UNCHANGED <<pc, locals>>, ret'.count \in Int, ret'.fd \in Int,
         fd_array' = Cleared, fate' \in {"halted", "killed"}
  PROVE  IInv'
<1>1. \A fd \in 0..(MAX_NUM_FD - 1) :
        /\ fd_array'[fd] \in [ops : {"none", "stdin", "stdout", "rtc", "dir", "file"},
                               inode : Nat, file_pos : Nat, flags : {0, 1}]
        /\ fd_array'[fd].flags = 0 /\ fd_array'[fd].ops = fd_array[fd].ops
  <2> SUFFICES ASSUME NEW fd \in 0..(MAX_NUM_FD - 1)
               PROVE  /\ fd_array'[fd] \in [ops : {"none", "stdin", "stdout", "rtc", "dir", "file"},
                                             inode : Nat, file_pos : Nat, flags : {0, 1}]
                      /\ fd_array'[fd].flags = 0 /\ fd_array'[fd].ops = fd_array[fd].ops
    OBVIOUS
  <2>1. fd_array[fd] \in [ops : {"none", "stdin", "stdout", "rtc", "dir", "file"},
                          inode : Nat, file_pos : Nat, flags : {0, 1}]
    BY DEF IInv, TypeOK
  <2>2. fd_array'[fd] = [fd_array[fd] EXCEPT !.flags = 0]
    BY DEF Cleared, IInv, TypeOK
  <2> QED
    BY <2>1, <2>2
<1>2. fd_array' \in [0..(MAX_NUM_FD - 1) ->
        [ops : {"none", "stdin", "stdout", "rtc", "dir", "file"},
         inode : Nat, file_pos : Nat, flags : {0, 1}]]
  BY <1>1 DEF Cleared, IInv, TypeOK
<1>3. TypeOK'
  <2>1. \A fd \in Fds : ~InUse(fd)'
    BY <1>1, Bounds DEF InUse
  <2>2. /\ pc' \in {"user", "read_data"} /\ fd_read' \in 0..(MAX_NUM_FD - 1) /\ offset' \in Nat
        /\ length' \in Nat /\ i' \in Nat /\ dblock_location' \in Nat
        /\ dblock_data_location' \in 0..BLOCK_4KB
    BY DEF IInv, TypeOK, locals
  <2> QED
    BY <1>2, <2>1, <2>2 DEF TypeOK
<1>4. CopiesTheFile' /\ Reading'
  BY DEF CopiesTheFile, Reading
<1>5. Descriptors'
  BY <1>1, Bounds DEF IInv, Descriptors, InUse
<1> QED
  BY <1>3, <1>4, <1>5 DEF IInv

\* A read of the directory keeps it.
LEMMA DirStep ==
  ASSUME IInv, pc = "user", NEW fd \in Int, NEW n \in Int,
         InUse(fd), fd_array[fd].ops = "dir", dir_read(fd, n)
  PROVE  IInv'
<1>1. fd \in Fds
  BY Bounds DEF InUse, IInv, Descriptors
<1>2. CASE IndexRefused(fd_array[fd].file_pos)
  BY <1>2, QuietStep DEF dir_read, Answers, Returns
<1>3. CASE ~IndexRefused(fd_array[fd].file_pos)
  <2> DEFINE d == [fd_array[fd] EXCEPT !.file_pos = fd_array[fd].file_pos + 1]
             name == DentryAt(fd_array[fd].file_pos).file_name
  <2>1. fd_array[fd] \in [ops : {"none", "stdin", "stdout", "rtc", "dir", "file"},
                          inode : Nat, file_pos : Nat, flags : {0, 1}]
    BY <1>1, Bounds DEF IInv, TypeOK
  <2>2. /\ d \in [ops : {"none", "rtc", "dir", "file"}, inode : Nat, file_pos : Nat, flags : {0, 1}]
        /\ d.ops = "dir"
    BY <2>1
  <2>3. name \in Seq(STRING)
    BY <2>1, EntryTyped
  <2>4. /\ fd_array' = [fd_array EXCEPT ![fd].file_pos = fd_array[fd].file_pos + 1]
        /\ UNCHANGED <<pc, locals, fate>> /\ ret'.count = Len(name) /\ ret'.fd = fd
    BY <1>3 DEF dir_read, Returns
  <2>5. fd_array' = [fd_array EXCEPT ![fd] = d]
    BY <2>4
  <2>6. ret'.count \in Int /\ ret'.fd \in Int
    BY <2>3, <2>4
  <2> HIDE DEF d
  <2>7. d.ops # "none" /\ d.ops # "file"
    BY <2>2
  <2> QED
    BY <1>1, <2>2, <2>4, <2>5, <2>6, <2>7, TableStep
<1> QED
  BY <1>2, <1>3

\* The head of read_data starts the loop at the position of the descriptor.
LEMMA FileStep ==
  ASSUME IInv, pc = "user", fate = "running", NEW fd \in Int, NEW n \in Int,
         InUse(fd), fd_array[fd].ops = "file", file_read(fd, n)
  PROVE  IInv'
<1>1. fd \in Fds
  BY Bounds DEF InUse, IInv, Descriptors
<1>2. CASE pc' = "user"
  BY <1>2, QuietStep DEF file_read, Answers, Returns
<1>3. CASE pc' # "user"
  <2> DEFINE pos == fd_array[fd].file_pos
  <2>1. /\ n > 0 /\ fd_array[fd].inode \in Inodes
        /\ pc' = "read_data" /\ fd_read' = fd /\ length' = n
        /\ offset' = pos /\ i' = 0 /\ buf' = <<>>
        /\ dblock_location' = pos \div BLOCK_4KB
        /\ dblock_data_location' = pos % BLOCK_4KB
        /\ UNCHANGED <<fd_array, ret, out, fate>>
    BY <1>3 DEF file_read, Answers
  <2>2. /\ pos \in Nat /\ pos <= inode_ptr[fd_array[fd].inode].length
        /\ inode_ptr[fd_array[fd].inode].length \in Nat
    BY <1>1, <2>1, Bounds, ImageAssumption DEF IInv, TypeOK
  <2>3. /\ dblock_location' \in Nat /\ dblock_data_location' \in 0..(BLOCK_4KB - 1)
        /\ dblock_location' * BLOCK_4KB + dblock_data_location' = pos
    BY <2>1, <2>2, DivModNat, ImageAssumption
  <2>4. SubSeq(ContentOf(fd_array[fd].inode), pos + 1, pos + 0) = <<>>
    BY <2>2, SubSeqEmpty
  <2> HIDE DEF pos
  <2>5. TypeOK'
    <3>1. /\ fd_read' \in 0..(MAX_NUM_FD - 1) /\ offset' \in Nat /\ length' \in Nat /\ i' \in Nat
          /\ dblock_location' \in Nat /\ dblock_data_location' \in 0..BLOCK_4KB
      BY <1>1, <2>1, <2>2, <2>3, Bounds, ImageAssumption
    <3>2. pc' \in {"user", "read_data"} /\ fate' = fate /\ fd_array' = fd_array /\ ret' = ret
      BY <2>1
    <3> QED
      BY <3>1, <3>2 DEF IInv, TypeOK, InUse
  <2>6. CopiesTheFile'
    BY <2>1, <2>2, <2>3, <2>4 DEF CopiesTheFile, curr_inode
  <2>7. Descriptors' /\ Reading'
    BY <1>1, <2>1 DEF IInv, Descriptors, Reading, InUse, pos
  <2> QED
    BY <2>5, <2>6, <2>7 DEF IInv
<1> QED
  BY <1>2, <1>3

\* read keeps it, by the operations table.
LEMMA ReadStep ==
  ASSUME IInv, NEW fd \in Int, NEW n \in Int, syscall_read(fd, n)
  PROVE  IInv'
<1>1. pc = "user" /\ fate = "running"
  BY DEF syscall_read, Running
<1>2. CASE PastTheTable(fd) /\ Returns("read", fd, <<>>, n, 0, <<>>)
  <2>1. ret'.count \in Int /\ ret'.fd \in Int
    BY <1>2 DEF Returns
  <2> QED
    BY <1>1, <1>2, <2>1, EndStep DEF PastTheTable
<1>3. CASE InUse(fd) /\ fd_array[fd].ops = "dir" /\ dir_read(fd, n)
  BY <1>1, <1>3, DirStep
<1>4. CASE InUse(fd) /\ fd_array[fd].ops = "file" /\ file_read(fd, n)
  BY <1>1, <1>4, FileStep
<1>5. CASE \/ Answers(fd, n, -1, <<>>) \/ Answers(fd, n, 0, <<>>)
           \/ \E l \in Lines : Answers(fd, n, Len(l), l)
  <2>1. \A l \in Lines : Len(l) \in Int
    BY ImageAssumption
  <2> QED
    BY <1>5, <2>1, QuietStep DEF Answers, Returns
<1> QED
  BY <1>2, <1>3, <1>4, <1>5 DEF syscall_read

\* write keeps it: it moves nothing.
LEMMA WriteStep ==
  ASSUME IInv, NEW fd \in Int, NEW n, NEW text, syscall_write(fd, text, n)
  PROVE  IInv'
<1>1. CASE PastTheTable(fd)
  <2>1. fate' = "killed"
    BY <1>1 DEF PastTheTable
  <2>2. pc = "user" /\ fate = "running" /\ ret'.count \in {0, -1} /\ ret'.fd = fd
    BY DEF syscall_write, Running, Returns
  <2> QED
    BY <1>1, <2>1, <2>2, EndStep DEF PastTheTable
<1>2. CASE ~PastTheTable(fd)
  <2>1. UNCHANGED <<fd_array, pc, locals, fate>> /\ ret'.count \in {0, -1} /\ ret'.fd = fd
    BY <1>2 DEF syscall_write, Returns
  <2> QED
    BY <2>1, QuietStep
<1> QED
  BY <1>1, <1>2

\* A round of the loop finds the byte it should copy.
LEMMA PlaceFound ==
  ASSUME IInv, pc = "read_data", ~AtEnd
  PROVE  /\ Place[1] \in Nat /\ Place[2] \in 0..(BLOCK_4KB - 1)
         /\ Place[1] * BLOCK_4KB + Place[2] = offset + i
         /\ Place[1] = (offset + i) \div BLOCK_4KB /\ Place[2] = (offset + i) % BLOCK_4KB
<1>1. /\ BLOCK_4KB \in Nat \ {0}
      /\ dblock_location \in Nat /\ dblock_data_location \in 0..BLOCK_4KB
      /\ dblock_location * BLOCK_4KB + dblock_data_location = offset + i
  BY ImageAssumption DEF IInv, TypeOK, CopiesTheFile
<1>2. CASE dblock_data_location >= BLOCK_4KB
  <2>1. dblock_data_location = BLOCK_4KB
    BY <1>1, <1>2
  <2>2. Place = <<dblock_location + 1, 0>>
    BY <1>2 DEF Place
  <2>3. (dblock_location + 1) * BLOCK_4KB + 0 = offset + i
    BY <1>1, <2>1
  <2>4. 0 \in 0..(BLOCK_4KB - 1) /\ dblock_location + 1 \in Nat
    BY <1>1
  <2> QED
    BY <1>1, <2>2, <2>3, <2>4, DivMod
<1>3. CASE ~(dblock_data_location >= BLOCK_4KB)
  <2>1. Place = <<dblock_location, dblock_data_location>>
    BY <1>3 DEF Place
  <2>2. dblock_data_location \in 0..(BLOCK_4KB - 1)
    BY <1>1, <1>3
  <2> QED
    BY <1>1, <2>1, <2>2, DivMod
<1> QED
  BY <1>2, <1>3

\* A round of the loop keeps it: one byte more of the file.
LEMMA ByteStep ==
  ASSUME IInv, ReadByte
  PROVE  IInv'
<1> DEFINE ino == fd_array[fd_read].inode
           c == ContentOf(ino)
           n == offset + i
<1>1. /\ pc = "read_data" /\ ~AtEnd
      /\ buf' = Append(buf, data_start[curr_inode.data_block[Place[1]]][Place[2]])
      /\ dblock_location' = Place[1] /\ dblock_data_location' = Place[2] + 1
      /\ i' = i + 1
      /\ UNCHANGED <<fd_array, pc, fd_read, offset, length, ret, out, fate>>
  BY DEF ReadByte
<1>2. /\ fd_read \in Fds /\ InUse(fd_read) /\ fd_array[fd_read].ops = "file"
      /\ ino \in Inodes /\ offset \in Nat /\ i \in Nat /\ length \in Nat
  BY <1>1, Bounds DEF IInv, TypeOK, Reading
<1>3. /\ i < length /\ n < inode_ptr[ino].length /\ inode_ptr[ino].length \in Nat
      /\ buf = SubSeq(c, offset + 1, offset + i)
  <2>1. /\ i <= length /\ offset + i <= inode_ptr[ino].length
        /\ buf = SubSeq(c, offset + 1, offset + i)
    BY <1>1 DEF IInv, CopiesTheFile, curr_inode
  <2>2. i # length /\ ~(offset + i >= inode_ptr[ino].length)
    BY <1>1 DEF AtEnd, curr_inode
  <2>3. inode_ptr[ino].length \in Nat
    BY <1>2, ImageAssumption
  <2> HIDE DEF c, ino
  <2> QED
    BY <1>2, <2>1, <2>2, <2>3
<1>4. /\ Place[1] \in Nat /\ Place[2] \in 0..(BLOCK_4KB - 1) /\ BLOCK_4KB \in Nat
      /\ Place[1] * BLOCK_4KB + Place[2] = n
      /\ Place[1] = n \div BLOCK_4KB /\ Place[2] = n % BLOCK_4KB
  BY <1>1, PlaceFound, ImageAssumption
<1>5. data_start[curr_inode.data_block[Place[1]]][Place[2]] = c[offset + (i + 1)]
  <2>1. n \in 0..(inode_ptr[ino].length - 1)
    BY <1>2, <1>3
  <2>2. c[n + 1] = FileByte(ino, n)
    BY <1>2, <2>1, ContentTyped
  <2>3. n + 1 = offset + (i + 1)
    BY <1>2
  <2> HIDE DEF c, n
  <2> QED
    BY <1>4, <2>2, <2>3 DEF FileByte, curr_inode
<1>6. buf' = SubSeq(c, offset + 1, offset + i')
  <2>1. PICK S : c \in Seq(S)
    BY <1>2, ContentTyped
  <2>2. offset + i < Len(c)
    BY <1>2, <1>3, ContentTyped
  <2> HIDE DEF c
  <2>3. Append(buf, c[offset + (i + 1)]) = SubSeq(c, offset + 1, offset + (i + 1))
    BY <1>2, <1>3, <2>1, <2>2, Grow
  <2> QED
    BY <1>1, <1>5, <2>3
<1> HIDE DEF c, n
<1>7. CopiesTheFile'
  <2>1. i' <= length' /\ offset' + i' <= curr_inode'.length
    BY <1>1, <1>2, <1>3 DEF curr_inode, n
  <2>2. (Place[1]) * BLOCK_4KB + (Place[2] + 1) = offset + (i + 1)
    BY <1>2, <1>4 DEF n
  <2>3. dblock_location' * BLOCK_4KB + dblock_data_location' = offset' + i'
    BY <1>1, <2>2
  <2>4. buf' = SubSeq(ContentOf(fd_array'[fd_read'].inode), offset' + 1, offset' + i')
    BY <1>1, <1>6 DEF c
  <2> QED
    BY <2>1, <2>3, <2>4 DEF CopiesTheFile
<1>8. TypeOK'
  <2>1. i' \in Nat /\ dblock_location' \in Nat /\ dblock_data_location' \in 0..BLOCK_4KB
    <3>1. i + 1 \in Nat
      BY <1>2
    <3>2. Place[2] + 1 \in 0..BLOCK_4KB
      BY <1>4
    <3> QED
      BY <1>1, <1>4, <3>1, <3>2
  <2> QED
    BY <1>1, <2>1 DEF IInv, TypeOK, InUse
<1>9. Descriptors' /\ Reading'
  BY <1>1 DEF IInv, Descriptors, Reading, InUse
<1> QED
  BY <1>7, <1>8, <1>9 DEF IInv

\* What the loop has done when it ends: all that was asked for or all that is left.
LEMMA LoopDone ==
  ASSUME IInv, pc = "read_data", AtEnd
  PROVE  LET ino == fd_array[fd_read].inode
             pos == fd_array[fd_read].file_pos
         IN  /\ fd_read \in Fds /\ InUse(fd_read) /\ fd_array[fd_read].ops = "file"
             /\ ino \in Inodes /\ pos \in Nat /\ i \in Nat /\ length \in Nat
             /\ inode_ptr[ino].length \in Nat /\ pos + i <= inode_ptr[ino].length
             /\ i = IF length < inode_ptr[ino].length - pos THEN length
                    ELSE inode_ptr[ino].length - pos
             /\ buf = SubSeq(ContentOf(ino), pos + 1, pos + i)
             /\ fate = "running"
<1> DEFINE ino == fd_array[fd_read].inode
           pos == fd_array[fd_read].file_pos
<1>1. /\ fd_read \in Fds /\ InUse(fd_read) /\ fd_array[fd_read].ops = "file"
      /\ ino \in Inodes /\ pos \in Nat /\ i \in Nat /\ length \in Nat
      /\ offset = pos /\ fate = "running"
  BY Bounds DEF IInv, TypeOK, Reading
<1>2. /\ inode_ptr[ino].length \in Nat
      /\ i <= length /\ pos + i <= inode_ptr[ino].length
      /\ i = length \/ pos + i >= inode_ptr[ino].length
      /\ buf = SubSeq(ContentOf(ino), pos + 1, pos + i)
  <2>1. /\ i <= length /\ offset + i <= inode_ptr[ino].length
        /\ buf = SubSeq(ContentOf(ino), offset + 1, offset + i)
    BY DEF IInv, CopiesTheFile, curr_inode
  <2>2. i = length \/ offset + i >= inode_ptr[ino].length
    BY DEF AtEnd, curr_inode
  <2>3. inode_ptr[ino].length \in Nat
    BY <1>1, ImageAssumption
  <2> QED
    BY <1>1, <2>1, <2>2, <2>3
<1> HIDE DEF ino, pos
<1>3. i = IF length < inode_ptr[ino].length - pos THEN length ELSE inode_ptr[ino].length - pos
  BY <1>1, <1>2
<1> QED
  BY <1>1, <1>2, <1>3 DEF ino, pos

\* The return of read_data keeps it: the position stays within the file.
LEMMA ReturnStep ==
  ASSUME IInv, ReadReturns
  PROVE  IInv'
<1> DEFINE d == [fd_array[fd_read] EXCEPT !.file_pos = fd_array[fd_read].file_pos + i]
<1>1. /\ pc = "read_data" /\ AtEnd /\ pc' = "user" /\ fate' = fate
      /\ fd_read' = 0 /\ offset' = 0 /\ length' = 0 /\ i' = 0
      /\ dblock_location' = 0 /\ dblock_data_location' = 0
      /\ ret'.fd = fd_read /\ ret'.count = i
      /\ fd_array' = [fd_array EXCEPT ![fd_read] = d]
  BY DEF ReadReturns, Advanced, Returns
<1>2. /\ fd_read \in Fds /\ InUse(fd_read) /\ fd_array[fd_read].ops = "file"
      /\ fd_array[fd_read].inode \in Inodes
      /\ fd_array[fd_read].file_pos \in Nat /\ i \in Nat
      /\ fd_array[fd_read].file_pos + i <= inode_ptr[fd_array[fd_read].inode].length
  BY <1>1, LoopDone
<1>3. fd_array[fd_read] \in [ops : {"none", "stdin", "stdout", "rtc", "dir", "file"},
                             inode : Nat, file_pos : Nat, flags : {0, 1}]
  BY <1>2, Bounds DEF IInv, TypeOK
<1>4. /\ d \in [ops : {"none", "stdin", "stdout", "rtc", "dir", "file"},
                inode : Nat, file_pos : Nat, flags : {0, 1}]
      /\ d.ops = "file" /\ d.inode = fd_array[fd_read].inode
      /\ d.file_pos = fd_array[fd_read].file_pos + i
      /\ d.flags = fd_array[fd_read].flags
  BY <1>2, <1>3
<1> HIDE DEF d
<1>5. /\ fd_array'[fd_read] = d
      /\ \A e \in 0..(MAX_NUM_FD - 1) : e # fd_read => fd_array'[e] = fd_array[e]
      /\ fd_array' \in [0..(MAX_NUM_FD - 1) ->
           [ops : {"none", "stdin", "stdout", "rtc", "dir", "file"},
            inode : Nat, file_pos : Nat, flags : {0, 1}]]
  BY <1>1, <1>2, <1>4, Bounds DEF IInv, TypeOK
<1>6. TypeOK'
  <2>1. \A fd \in Fds : InUse(fd)' /\ fd_array'[fd].ops = "file" =>
          /\ fd_array'[fd].inode \in Inodes
          /\ fd_array'[fd].file_pos <= inode_ptr[fd_array'[fd].inode].length
    BY <1>2, <1>4, <1>5, Bounds DEF IInv, TypeOK, InUse
  <2>2. /\ fd_read' \in 0..(MAX_NUM_FD - 1) /\ offset' \in Nat /\ length' \in Nat /\ i' \in Nat
        /\ dblock_location' \in Nat /\ dblock_data_location' \in 0..BLOCK_4KB
        /\ ret'.fd \in Int /\ ret'.count \in Int
    BY <1>1, <1>2, Bounds, ImageAssumption DEF Fds
  <2>3. pc' \in {"user", "read_data"} /\ fate' \in {"running", "halted", "killed"}
    BY <1>1 DEF IInv, TypeOK
  <2> QED
    BY <1>5, <2>1, <2>2, <2>3 DEF TypeOK
<1>7. CopiesTheFile' /\ Reading'
  BY <1>1 DEF CopiesTheFile, Reading
<1>8. Descriptors'
  BY <1>1, <1>2, <1>4, <1>5, Bounds DEF IInv, Descriptors, InUse
<1> QED
  BY <1>6, <1>7, <1>8 DEF IInv

\* A call with anything for a name, a text and its length, or a round of the loop.
AnyCall ==
  \/ \E name : syscall_open(name)
  \/ \E fd \in Int : syscall_close(fd)
  \/ \E fd, n \in Int : syscall_read(fd, n)
  \/ \E fd \in Int : \E n, text : syscall_write(fd, text, n)
  \/ syscall_halt \/ ReadByte \/ ReadReturns

\* The steps of FileSystem are such calls.
LEMMA NextCalls == Next => AnyCall
BY DEF Next, Call, AnyCall

\* Every call keeps the invariant.
LEMMA CallsKeep == IInv /\ [AnyCall]_vars => IInv'
<1> SUFFICES ASSUME IInv, [AnyCall]_vars PROVE IInv'
  OBVIOUS
<1>1. CASE \E name : syscall_open(name)
  BY <1>1, OpenStep
<1>2. CASE \E fd \in Int : syscall_close(fd)
  BY <1>2, CloseStep
<1>3. CASE \E fd, n \in Int : syscall_read(fd, n)
  BY <1>3, ReadStep
<1>4. CASE \E fd \in Int : \E n, text : syscall_write(fd, text, n)
  BY <1>4, WriteStep
<1>5. CASE syscall_halt
  <2>1. ret'.count \in Int /\ ret'.fd \in Int
    BY <1>5 DEF syscall_halt, IInv, TypeOK
  <2> QED
    BY <1>5, <2>1, EndStep DEF syscall_halt, Running
<1>6. CASE ReadByte
  BY <1>6, ByteStep
<1>7. CASE ReadReturns
  BY <1>7, ReturnStep
<1>8. CASE UNCHANGED vars
  BY <1>8, QuietStep DEF vars, IInv, TypeOK
<1> QED
  BY <1>1, <1>2, <1>3, <1>4, <1>5, <1>6, <1>7, <1>8 DEF AnyCall

\* Every step keeps the invariant.
LEMMA NextInv == IInv /\ [Next]_vars => IInv'
BY NextCalls, CallsKeep

\* The tables stay what they are, for any image and any calls, and no position
\* moves beyond the end of its file (FileSystem!TypeOK).
THEOREM TypeCorrect == Spec => []TypeOK
<1>1. IInv => TypeOK
  BY DEF IInv
<1> QED
  BY <1>1, InitInv, NextInv, PTL DEF Spec

\* read_data copies the file (filesys.c:242-267), whatever the size of a block, the
\* offset it starts from and the length asked for.
THEOREM LoopCopies == Spec => []CopiesTheFile
<1>1. IInv => CopiesTheFile
  BY DEF IInv
<1> QED
  BY <1>1, InitInv, NextInv, PTL DEF Spec

(***************************************************************************)
(* Positions.                                                              *)
(***************************************************************************)
Moved(fd) == /\ fd_array[fd].flags = 1 /\ fd_array'[fd].flags = 1
             /\ fd_array'[fd].file_pos # fd_array[fd].file_pos

ByARead(fd) == /\ ret'.op = "read" /\ ret'.fd = fd /\ ret'.count >= 0
               /\ fd_array'[fd] = [fd_array[fd] EXCEPT
                    !.file_pos = @ + IF fd_array[fd].ops = "dir" THEN 1 ELSE ret'.count]

\* Calls that open, close or end move the position of no open descriptor.
LEMMA OthersStay ==
  ASSUME IInv, NEW fd \in Fds, Moved(fd),
         \/ \E name : syscall_open(name)
         \/ \E f \in Int : syscall_close(f)
         \/ fd_array' = Cleared
         \/ UNCHANGED fd_array
  PROVE  FALSE
<1>1. /\ fd \in 0..(MAX_NUM_FD - 1) /\ DOMAIN fd_array = 0..(MAX_NUM_FD - 1)
  BY Bounds DEF IInv, TypeOK
<1>2. ~UNCHANGED fd_array
  BY DEF Moved
<1>3. CASE \E name : syscall_open(name)
  <2>1. PICK name : syscall_open(name)
    BY <1>3
  <2>2. PICK f \in Fds :
          /\ ~InUse(f)
          /\ fd_array' = [fd_array EXCEPT ![f] =
               [ops |-> OpsOf(Dentry(name).type), inode |-> Dentry(name).inode,
                file_pos |-> 0, flags |-> 1]]
    BY <1>2, <2>1 DEF syscall_open
  <2>3. CASE f = fd
    BY <1>1, <2>2, <2>3 DEF InUse, Moved
  <2>4. CASE f # fd
    BY <1>1, <2>2, <2>4 DEF Moved
  <2> QED
    BY <2>3, <2>4
<1>4. CASE \E f \in Int : syscall_close(f)
  <2>1. PICK f \in Int :
          fd_array' = [fd_array EXCEPT ![f] = [@ EXCEPT !.flags = 0, !.inode = 0, !.file_pos = 0]]
    BY <1>2, <1>4 DEF syscall_close
  <2>2. CASE f = fd
    <3>1. fd_array'[fd] = [fd_array[fd] EXCEPT !.flags = 0, !.inode = 0, !.file_pos = 0]
      BY <1>1, <2>1, <2>2
    <3>2. fd_array[fd] \in [ops : {"none", "stdin", "stdout", "rtc", "dir", "file"},
                            inode : Nat, file_pos : Nat, flags : {0, 1}]
      BY <1>1 DEF IInv, TypeOK
    <3>3. fd_array'[fd].flags = 0
      BY <3>1, <3>2
    <3> QED
      BY <3>3 DEF Moved
  <2>3. CASE f # fd
    BY <1>1, <2>1, <2>3 DEF Moved
  <2> QED
    BY <2>2, <2>3
<1>5. CASE fd_array' = Cleared
  <2>1. fd_array'[fd] = [fd_array[fd] EXCEPT !.flags = 0]
    BY <1>1, <1>5 DEF Cleared
  <2>2. fd_array[fd] \in [ops : {"none", "stdin", "stdout", "rtc", "dir", "file"},
                          inode : Nat, file_pos : Nat, flags : {0, 1}]
    BY <1>1 DEF IInv, TypeOK
  <2> QED
    BY <2>1, <2>2 DEF Moved
<1> QED
  BY <1>2, <1>3, <1>4, <1>5

\* A read of the directory moves one descriptor by one entry.
LEMMA DirMoves ==
  ASSUME IInv, NEW fd \in Fds, Moved(fd), NEW f \in Int, NEW n \in Int,
         InUse(f), fd_array[f].ops = "dir", dir_read(f, n)
  PROVE  ByARead(fd)
<1> DEFINE name == DentryAt(fd_array[f].file_pos).file_name
<1>1. /\ fd \in 0..(MAX_NUM_FD - 1) /\ DOMAIN fd_array = 0..(MAX_NUM_FD - 1)
      /\ fd_array[fd] \in [ops : {"none", "stdin", "stdout", "rtc", "dir", "file"},
                            inode : Nat, file_pos : Nat, flags : {0, 1}]
      /\ f \in 0..(MAX_NUM_FD - 1)
      /\ fd_array[f] \in [ops : {"none", "stdin", "stdout", "rtc", "dir", "file"},
                            inode : Nat, file_pos : Nat, flags : {0, 1}]
  BY Bounds DEF IInv, TypeOK, InUse
<1>2. ~UNCHANGED fd_array
  BY DEF Moved
<1>3. /\ fd_array' = [fd_array EXCEPT ![f].file_pos = fd_array[f].file_pos + 1]
      /\ ret'.op = "read" /\ ret'.fd = f /\ ret'.count = Len(name)
  BY <1>2 DEF dir_read, Answers, Returns
<1>4. f = fd
  BY <1>1, <1>3 DEF Moved
<1>5. name \in Seq(STRING)
  BY <1>1, EntryTyped
<1>6. fd_array'[fd] = [fd_array[fd] EXCEPT !.file_pos = fd_array[fd].file_pos + 1]
  BY <1>1, <1>3, <1>4
<1> HIDE DEF name
<1>7. ret'.count >= 0
  BY <1>3, <1>5
<1> QED
  BY <1>3, <1>4, <1>6, <1>7 DEF ByARead

\* A read of a file moves one descriptor by what it returns.
LEMMA ReturnMoves ==
  ASSUME IInv, NEW fd \in Fds, Moved(fd), ReadReturns
  PROVE  ByARead(fd)
<1>1. /\ fd \in 0..(MAX_NUM_FD - 1) /\ DOMAIN fd_array = 0..(MAX_NUM_FD - 1)
  BY Bounds DEF IInv, TypeOK
<1>2. /\ fd_array' = [fd_array EXCEPT ![fd_read].file_pos = @ + i]
      /\ ret'.op = "read" /\ ret'.fd = fd_read /\ ret'.count = i
  BY DEF ReadReturns, Advanced, Returns
<1>3. i \in Nat /\ fd_array[fd_read].ops = "file"
  BY LoopDone DEF ReadReturns
<1>4. fd_read = fd
  BY <1>1, <1>2 DEF Moved
<1>5. fd_array'[fd] = [fd_array[fd] EXCEPT !.file_pos = @ + i]
  BY <1>1, <1>2, <1>4
<1> QED
  BY <1>2, <1>3, <1>4, <1>5 DEF ByARead

\* Every call moves positions as OnlyReadsMove says.
LEMMA CallsMove ==
  ASSUME IInv, [AnyCall]_vars, NEW fd \in Fds, Moved(fd)
  PROVE  ByARead(fd)
<1>1. CASE \E f, n \in Int : syscall_read(f, n)
  <2>1. PICK f \in Int, n \in Int : syscall_read(f, n)
    BY <1>1
  <2>2. \/ InUse(f) /\ fd_array[f].ops = "dir" /\ dir_read(f, n)
        \/ fd_array' = Cleared \/ UNCHANGED fd_array
    BY <2>1 DEF syscall_read, PastTheTable, Answers, file_read
  <2> QED
    BY <2>2, DirMoves, OthersStay
<1>2. CASE \E f \in Int : \E n, text : syscall_write(f, text, n)
  <2>1. fd_array' = Cleared \/ UNCHANGED fd_array
    BY <1>2 DEF syscall_write, PastTheTable
  <2> QED
    BY <2>1, OthersStay
<1>3. CASE ReadReturns
  BY <1>3, ReturnMoves
<1>4. CASE \/ \E name : syscall_open(name)
           \/ \E f \in Int : syscall_close(f)
           \/ syscall_halt \/ ReadByte \/ UNCHANGED vars
  BY <1>4, OthersStay DEF syscall_halt, ReadByte, vars
<1> QED
  BY <1>1, <1>2, <1>3, <1>4 DEF AnyCall

\* What a call does to the positions, in the words of the property.
LEMMA Moves ==
  IInv /\ [AnyCall]_vars =>
    [\A fd \in Fds :
       /\ fd_array[fd].flags = 1 /\ fd_array'[fd].flags = 1
       /\ fd_array'[fd].file_pos # fd_array[fd].file_pos
       => /\ ret'.op = "read" /\ ret'.fd = fd /\ ret'.count >= 0
          /\ fd_array'[fd] = [fd_array[fd] EXCEPT
               !.file_pos = @ + IF fd_array[fd].ops = "dir" THEN 1 ELSE ret'.count]]_vars
<1>1. IInv /\ [AnyCall]_vars => [\A fd \in Fds : Moved(fd) => ByARead(fd)]_vars
  BY CallsMove
<1>2. [\A fd \in Fds : Moved(fd) => ByARead(fd)]_vars =>
      [\A fd \in Fds :
         /\ fd_array[fd].flags = 1 /\ fd_array'[fd].flags = 1
         /\ fd_array'[fd].file_pos # fd_array[fd].file_pos
         => /\ ret'.op = "read" /\ ret'.fd = fd /\ ret'.count >= 0
            /\ fd_array'[fd] = [fd_array[fd] EXCEPT
                 !.file_pos = @ + IF fd_array[fd].ops = "dir" THEN 1 ELSE ret'.count]]_vars
  BY DEF Moved, ByARead
<1> QED
  BY <1>1, <1>2

\* Only a read moves a position, its own and by what it returned; the other open
\* descriptors, of the same file too, stay where they are (filesys.c:79 and 108).
THEOREM ReadsMove == Spec => OnlyReadsMove
<1>1. IInv /\ [Next]_vars => IInv /\ [AnyCall]_vars
  BY NextCalls
<1> QED
  BY <1>1, Moves, InitInv, NextInv, PTL DEF Spec, OnlyReadsMove

(***************************************************************************)
(* The calls implement FileStreams: each is a step of it, and the rounds   *)
(* of the loop are none.                                                   *)
(***************************************************************************)
Map == [fd \in Fds |-> StreamOf(fd_array[fd])]

NoStream == [kind |-> "none", inode |-> 0, pos |-> 0]

\* The stream a descriptor stands for.
LEMMA StreamFacts ==
  ASSUME IInv, NEW fd \in Fds
  PROVE  /\ InUse(fd) => Map[fd] = [kind |-> fd_array[fd].ops, inode |-> fd_array[fd].inode,
                                    pos |-> fd_array[fd].file_pos]
         /\ ~InUse(fd) => Map[fd] = NoStream
         /\ InUse(fd) <=> Map[fd] # NoStream
<1>1. InUse(fd) => Map[fd] = [kind |-> fd_array[fd].ops, inode |-> fd_array[fd].inode,
                              pos |-> fd_array[fd].file_pos]
  BY DEF Map, StreamOf, InUse
<1>2. ~InUse(fd) => Map[fd] = NoStream
  BY Bounds DEF Map, StreamOf, InUse, NoStream
<1>3. InUse(fd) => fd_array[fd].ops # "none"
  BY DEF IInv, Descriptors
<1> QED
  BY <1>1, <1>2, <1>3 DEF NoStream

\* A descriptor in use is an open stream, and a free one a closed stream.
LEMMA InUseMaps ==
  ASSUME IInv, NEW fd
  PROVE  Streams!InUse(fd) <=> fd \in Fds /\ InUse(fd)
BY StreamFacts DEF Streams!InUse, Streams!Closed, NoStream, Map

\* The operations table says the kind of the stream.
LEMMA ReadsMaps ==
  ASSUME IInv, NEW fd, NEW kind
  PROVE  Streams!Reads(fd, kind) <=> fd \in Fds /\ InUse(fd) /\ fd_array[fd].ops = kind
<1>1. CASE fd \in Fds /\ InUse(fd)
  <2>1. Map[fd] = [kind |-> fd_array[fd].ops, inode |-> fd_array[fd].inode,
                   pos |-> fd_array[fd].file_pos]
    BY <1>1, StreamFacts
  <2>2. Map[fd].kind = fd_array[fd].ops
    BY <2>1
  <2> QED
    BY <1>1, <2>2, InUseMaps DEF Streams!Reads, Map
<1>2. CASE ~(fd \in Fds /\ InUse(fd))
  BY <1>2, InUseMaps DEF Streams!Reads
<1> QED
  BY <1>1, <1>2

\* Changing a descriptor changes its stream alone.
LEMMA MapSet ==
  ASSUME IInv, NEW fd \in Fds, NEW d, fd_array' = [fd_array EXCEPT ![fd] = d]
  PROVE  Map' = [Map EXCEPT ![fd] = StreamOf(d)]
<1>1. /\ DOMAIN fd_array = 0..(MAX_NUM_FD - 1) /\ fd \in DOMAIN fd_array
      /\ \A e \in Fds : fd_array'[e] = IF e = fd THEN d ELSE fd_array[e]
  BY Bounds DEF IInv, TypeOK
<1>2. Map' = [e \in Fds |-> StreamOf(fd_array'[e])]
  BY DEF Map, StreamOf
<1>3. Map = [e \in Fds |-> StreamOf(fd_array[e])]
  BY DEF Map
<1>4. [Map EXCEPT ![fd] = StreamOf(d)] =
        [e \in Fds |-> IF e = fd THEN StreamOf(d) ELSE StreamOf(fd_array[e])]
  BY <1>3
<1>5. \A e \in Fds : StreamOf(fd_array'[e]) = IF e = fd THEN StreamOf(d) ELSE StreamOf(fd_array[e])
  BY <1>1
<1> QED
  BY <1>2, <1>4, <1>5

\* A program starts with no stream open.
LEMMA InitMaps == Init => Streams!Init
<1> SUFFICES ASSUME Init PROVE Streams!Init
  OBVIOUS
<1>1. IInv
  BY InitInv
<1>2. \A fd \in Fds : ~InUse(fd)
  BY Bounds DEF Init, InUse, Unused
<1>3. Map = [fd \in Fds |-> NoStream]
  BY <1>1, <1>2, StreamFacts DEF Map
<1> QED
  BY <1>3 DEF Init, Streams!Init, Streams!AllClosed, Streams!Closed, Map, NoStream

Files == [name \in Names |-> [kind |-> OpsOf(Dentry(name).type), inode |-> Dentry(name).inode]]

\* open opens a stream at its start, or is refused for a reason.
LEMMA OpenMaps ==
  ASSUME IInv, NEW name, syscall_open(name)
  PROVE  Streams!Next
<1>1. fate = "running" /\ UNCHANGED <<out, fate>>
  BY DEF syscall_open, Running
<1>2. CASE /\ name # <<>> /\ Exists(name)
           /\ \E fd \in Fds :
                /\ ~InUse(fd) /\ \A e \in 2..(fd - 1) : InUse(e)
                /\ fd_array' = [fd_array EXCEPT ![fd] =
                     [ops |-> OpsOf(Dentry(name).type), inode |-> Dentry(name).inode,
                      file_pos |-> 0, flags |-> 1]]
                /\ Returns("open", 0, name, 0, fd, <<>>)
  <2>1. PICK fd \in Fds :
          /\ ~InUse(fd) /\ \A e \in 2..(fd - 1) : InUse(e)
          /\ fd_array' = [fd_array EXCEPT ![fd] =
               [ops |-> OpsOf(Dentry(name).type), inode |-> Dentry(name).inode,
                file_pos |-> 0, flags |-> 1]]
          /\ Returns("open", 0, name, 0, fd, <<>>)
    BY <1>2
  <2>2. name \in DOMAIN Files /\ ret'.name = name
        /\ Files[name] = [kind |-> OpsOf(Dentry(name).type), inode |-> Dentry(name).inode]
    BY <1>2, <2>1, NameExists DEF Files, Returns
  <2>3. Map' = [Map EXCEPT ![fd] = [kind |-> Files[name].kind, inode |-> Files[name].inode, pos |-> 0]]
    <3> DEFINE d == [ops |-> OpsOf(Dentry(name).type), inode |-> Dentry(name).inode,
                     file_pos |-> 0, flags |-> 1]
    <3>1. StreamOf(d) = [kind |-> Files[name].kind, inode |-> Files[name].inode, pos |-> 0]
      BY <2>2 DEF StreamOf
    <3>2. fd_array' = [fd_array EXCEPT ![fd] = d]
      BY <2>1
    <3> HIDE DEF d
    <3>3. Map' = [Map EXCEPT ![fd] = StreamOf(d)]
      BY <3>2, MapSet
    <3> QED
      BY <3>1, <3>3
  <2>4. ~Streams!InUse(fd) /\ \A e \in Fds : e < fd => Streams!InUse(e)
    BY <2>1, InUseMaps DEF Fds
  <2>5. Streams!Open(name)
    BY <1>1, <2>1, <2>2, <2>3, <2>4 DEF Streams!Open, Streams!Answer, Returns, Map, Files
  <2> QED
    BY <1>1, <2>2, <2>5 DEF Streams!Next, Streams!Promised
<1>3. CASE /\ name = <<>> \/ ~Exists(name) \/ \A fd \in Fds : InUse(fd)
           /\ Returns("open", 0, name, 0, -1, <<>>)
           /\ UNCHANGED fd_array
  <2>1. name \notin DOMAIN Files \/ \A e \in Fds : Streams!InUse(e)
    BY <1>3, NameExists, InUseMaps DEF Files
  <2>2. Streams!Refusable("open", 0, name, 0)
    BY <2>1 DEF Streams!Refusable, Files
  <2>3. Streams!Refuse("open", 0, name, 0, <<>>)
    BY <1>1, <1>3, <2>2 DEF Streams!Refuse, Streams!Answer, Returns
  <2>4. /\ ret'.op = "open" /\ ret'.fd = 0 /\ ret'.name = name
        /\ ret'.n = 0 /\ ret'.bytes = <<>>
    BY <1>3 DEF Returns
  <2> QED
    BY <1>1, <2>3, <2>4 DEF Streams!Next, Streams!Promised
<1> QED
  BY <1>2, <1>3 DEF syscall_open

\* close closes a stream, or is refused for a reason.
LEMMA CloseMaps ==
  ASSUME IInv, NEW fd \in Int, syscall_close(fd)
  PROVE  Streams!Next
<1>1. fate = "running" /\ UNCHANGED <<out, fate>>
  BY DEF syscall_close, Running
<1>2. CASE MayClose(fd)
  <2> DEFINE d == [fd_array[fd] EXCEPT !.flags = 0, !.inode = 0, !.file_pos = 0]
  <2>1. /\ fd_array' = [fd_array EXCEPT ![fd] = d] /\ Returns("close", fd, <<>>, 0, 0, <<>>)
    BY <1>2 DEF syscall_close
  <2>2. fd \in Fds /\ InUse(fd)
    BY <1>2, Bounds DEF MayClose, InUse
  <2>3. fd_array[fd] \in [ops : {"none", "stdin", "stdout", "rtc", "dir", "file"},
                          inode : Nat, file_pos : Nat, flags : {0, 1}]
    BY <2>2, Bounds DEF IInv, TypeOK
  <2>4. d.flags = 0
    BY <2>3
  <2> HIDE DEF d
  <2>5. Map' = [Map EXCEPT ![fd] = NoStream]
    <3>1. StreamOf(d) = NoStream
      BY <2>4 DEF StreamOf, NoStream
    <3>2. Map' = [Map EXCEPT ![fd] = StreamOf(d)]
      BY <2>1, <2>2, MapSet
    <3> QED
      BY <3>1, <3>2
  <2>6. Streams!Close(fd)
    BY <1>1, <2>1, <2>2, <2>5, InUseMaps
       DEF Streams!Close, Streams!Closed, Streams!Answer, Returns, Map, NoStream
  <2> QED
    BY <1>1, <2>1, <2>6 DEF Streams!Next, Streams!Promised, Returns
<1>3. CASE ~MayClose(fd)
  <2>1. Returns("close", fd, <<>>, 0, -1, <<>>) /\ UNCHANGED fd_array
    BY <1>3 DEF syscall_close
  <2>2. ~Streams!InUse(fd)
    BY <1>3, InUseMaps DEF MayClose, Fds
  <2>3. Streams!Refuse("close", fd, <<>>, 0, <<>>)
    BY <1>1, <2>1, <2>2 DEF Streams!Refuse, Streams!Refusable, Streams!Answer, Returns
  <2> QED
    BY <1>1, <2>1, <2>3 DEF Streams!Next, Streams!Promised, Returns
<1> QED
  BY <1>2, <1>3

\* The end of the program leaves no stream open.
LEMMA EndClears ==
  ASSUME IInv, fd_array' = Cleared
  PROVE  Map' = [fd \in Fds |-> NoStream]
<1>1. \A fd \in Fds : fd_array'[fd].flags = 0
  <2> SUFFICES ASSUME NEW fd \in Fds PROVE fd_array'[fd].flags = 0
    OBVIOUS
  <2>1. /\ fd_array[fd] \in [ops : {"none", "stdin", "stdout", "rtc", "dir", "file"},
                             inode : Nat, file_pos : Nat, flags : {0, 1}]
        /\ fd_array'[fd] = [fd_array[fd] EXCEPT !.flags = 0]
    BY Bounds DEF IInv, TypeOK, Cleared
  <2> QED
    BY <2>1
<1> QED
  BY <1>1 DEF Map, StreamOf, NoStream

\* halt is promised.
LEMMA HaltMaps ==
  ASSUME IInv, syscall_halt
  PROVE  Streams!Next
<1>1. fate = "running" /\ fate' = "halted" /\ UNCHANGED <<ret, out>> /\ fd_array' = Cleared
  BY DEF syscall_halt, Running
<1>2. Map' = [fd \in Fds |-> NoStream]
  BY <1>1, EndClears
<1>3. Streams!Halt
  BY <1>1, <1>2 DEF Streams!Halt, Streams!AllClosed, Streams!Closed, Map, NoStream
<1> QED
  BY <1>1, <1>3 DEF Streams!Next, Streams!Promised

\* A call on the descriptor past the table is the fault that FileStreams names.
LEMMA FaultMaps ==
  ASSUME IInv, fate = "running", NEW fd, NEW n, NEW text, NEW op \in {"read", "write"},
         PastTheTable(fd), Returns(op, fd, <<>>, n, 0, text)
  PROVE  Streams!Next
<1>1. fd = MAX_NUM_FD /\ fate' = "killed" /\ UNCHANGED out /\ fd_array' = Cleared
  BY DEF PastTheTable
<1>2. Map' = [e \in Fds |-> NoStream]
  BY <1>1, EndClears
<1>3. Streams!Faults(op, fd, n, text)
  BY <1>1, <1>2
     DEF Streams!Faults, Streams!Answer, Streams!AllClosed, Streams!Closed, Map, NoStream, Returns
<1> QED
  BY <1>3 DEF Streams!Next, Streams!Deviates, Returns

\* A call that returns -1 is a refusal of FileStreams when it may be refused.
LEMMA RefuseMaps ==
  ASSUME IInv, fate = "running", UNCHANGED <<fd_array, out, fate>>,
         NEW op, NEW fd, NEW n, NEW text,
         Returns(op, fd, <<>>, n, -1, text), Streams!Refusable(op, fd, <<>>, n)
  PROVE  Streams!Next
<1>1. Streams!Refuse(op, fd, <<>>, n, text)
  BY DEF Streams!Refuse, Streams!Answer, Returns
<1> QED
  BY <1>1 DEF Streams!Next, Streams!Promised, Returns

\* The entries by index are the listing, with an empty name after it.
LEMMA ListingFacts ==
  /\ Len(Listing) = boot.total_dentries
  /\ \A p \in Nat : DentryAt(p).file_name = IF p < Len(Listing) THEN Listing[p + 1] ELSE <<>>
<1>1. /\ boot.total_dentries \in Nat /\ boot.total_dentries \in 1..DENTRY_NUM /\ DENTRY_NUM \in Nat
  BY ImageAssumption
<1>2. Listing \in Seq({boot.dentries[e].file_name : e \in 0..(boot.total_dentries - 1)})
  <2>1. Listing \in [1..boot.total_dentries ->
                      {boot.dentries[e].file_name : e \in 0..(boot.total_dentries - 1)}]
    BY <1>1 DEF Listing
  <2> QED
    BY <1>1, <2>1, SeqDef
<1>3. Len(Listing) = boot.total_dentries
  BY <1>1, <1>2, LenProperties DEF Listing
<1>4. ASSUME NEW p \in Nat
      PROVE  DentryAt(p).file_name = IF p < Len(Listing) THEN Listing[p + 1] ELSE <<>>
  <2>1. CASE p < Len(Listing)
    <3>1. p + 1 \in 1..boot.total_dentries /\ p \in Entries /\ (p + 1) - 1 = p
      BY <1>1, <1>3, <2>1 DEF Entries
    <3>2. Listing[p + 1] = boot.dentries[(p + 1) - 1].file_name
      BY <3>1 DEF Listing
    <3> QED
      BY <2>1, <3>1, <3>2 DEF DentryAt
  <2>2. CASE ~(p < Len(Listing))
    BY <1>3, <2>2, EntryTyped
  <2> QED
    BY <2>1, <2>2
<1> QED
  BY <1>3, <1>4

\* A read of the directory returns the next name, or an empty one, or fails as
\* DirectoryDone says.
LEMMA DirMaps ==
  ASSUME IInv, fate = "running", NEW fd \in Int, NEW n \in Int,
         InUse(fd), fd_array[fd].ops = "dir", dir_read(fd, n)
  PROVE  Streams!Next
<1> DEFINE pos == fd_array[fd].file_pos
           name == DentryAt(pos).file_name
<1>1. fd \in Fds /\ Streams!Reads(fd, "dir")
  BY Bounds, ReadsMaps DEF InUse, IInv, Descriptors
<1>2. /\ fd_array[fd] \in [ops : {"none", "stdin", "stdout", "rtc", "dir", "file"},
                            inode : Nat, file_pos : Nat, flags : {0, 1}]
      /\ boot.total_dentries \in Nat
  BY <1>1, Bounds, ImageAssumption DEF IInv, TypeOK
<1>3. Map[fd] = [kind |-> fd_array[fd].ops, inode |-> fd_array[fd].inode, pos |-> pos]
  BY <1>1, StreamFacts
<1>4. Map[fd].pos = pos
  BY <1>3
<1>5. CASE IndexRefused(pos)
  <2>1. /\ UNCHANGED <<fd_array, out, fate>> /\ Returns("read", fd, <<>>, n, -1, <<>>)
    BY <1>5 DEF dir_read, Answers
  <2>2. Map[fd].pos > Len(Listing)
    BY <1>2, <1>4, <1>5, ListingFacts DEF IndexRefused
  <2>3. Streams!DirectoryDone(fd, n)
    BY <1>1, <2>1, <2>2 DEF Streams!DirectoryDone, Streams!Answer, Returns, Map
  <2> QED
    BY <2>1, <2>3 DEF Streams!Next, Streams!Deviates, Returns
<1>6. CASE ~IndexRefused(pos)
  <2> DEFINE d == [fd_array[fd] EXCEPT !.file_pos = pos + 1]
  <2>1. /\ fd_array' = [fd_array EXCEPT ![fd].file_pos = pos + 1]
        /\ Returns("read", fd, <<>>, n, Len(name), name) /\ UNCHANGED <<out, fate>>
    BY <1>6 DEF dir_read
  <2>2. fd_array' = [fd_array EXCEPT ![fd] = d]
    BY <2>1
  <2>3. /\ d.flags = fd_array[fd].flags /\ d.ops = fd_array[fd].ops
        /\ d.inode = fd_array[fd].inode /\ d.file_pos = pos + 1
    BY <1>2
  <2> HIDE DEF d
  <2>4. Map' = [Map EXCEPT ![fd] = StreamOf(d)]
    BY <1>1, <2>2, MapSet
  <2>5. StreamOf(d) = [kind |-> fd_array[fd].ops, inode |-> fd_array[fd].inode, pos |-> pos + 1]
    BY <2>3 DEF StreamOf, InUse
  <2>6. StreamOf(d) = [Map[fd] EXCEPT !.pos = Map[fd].pos + 1]
    BY <1>3, <2>5
  <2>7. Map' = [Map EXCEPT ![fd].pos = Map[fd].pos + 1]
    BY <2>4, <2>6
  <2>8. name = IF Map[fd].pos < Len(Listing) THEN Listing[Map[fd].pos + 1] ELSE <<>>
    BY <1>2, <1>4, ListingFacts
  <2> HIDE DEF name, pos
  <2>9. Streams!ReadName(fd, n)
    BY <1>1, <2>1, <2>7, <2>8 DEF Streams!ReadName, Streams!Answer, Returns, Map
  <2> QED
    BY <2>1, <2>9 DEF Streams!Next, Streams!Promised, Returns
<1> QED
  BY <1>5, <1>6

\* A read that returns bytes of a file, none of them moving anything else.
LEMMA BytesMap ==
  ASSUME IInv, fate = "running", NEW fd \in Fds, NEW n \in Nat, NEW got \in Nat,
         InUse(fd), fd_array[fd].ops = "file",
         LET ino == fd_array[fd].inode
             pos == fd_array[fd].file_pos
             left == inode_ptr[ino].length - pos
         IN  /\ got = IF n < left THEN n ELSE left
             /\ fd_array' = [fd_array EXCEPT ![fd].file_pos = pos + got]
             /\ Returns("read", fd, <<>>, n, got, SubSeq(ContentOf(ino), pos + 1, pos + got)),
         UNCHANGED <<out, fate>>
  PROVE  Streams!Next
<1> DEFINE ino == fd_array[fd].inode
           pos == fd_array[fd].file_pos
           d == [fd_array[fd] EXCEPT !.file_pos = pos + got]
<1>1. /\ fd_array[fd] \in [ops : {"none", "stdin", "stdout", "rtc", "dir", "file"},
                            inode : Nat, file_pos : Nat, flags : {0, 1}]
      /\ ino \in Inodes
  BY Bounds DEF IInv, TypeOK
<1>2. Map[fd] = [kind |-> fd_array[fd].ops, inode |-> ino, pos |-> pos]
  BY StreamFacts
<1>3. Map[fd].pos = pos /\ Map[fd].inode = ino
  BY <1>2
<1>4. fd_array' = [fd_array EXCEPT ![fd] = d]
  OBVIOUS
<1>5. /\ d.flags = fd_array[fd].flags /\ d.ops = fd_array[fd].ops
      /\ d.inode = ino /\ d.file_pos = pos + got
  BY <1>1
<1>6. Len(ContentOf(ino)) = inode_ptr[ino].length
  BY <1>1, ContentTyped
<1>7. got = Streams!Least(n, Len(ContentOf(ino)) - pos)
  BY <1>6 DEF Streams!Least
<1>8. Returns("read", fd, <<>>, n, got, SubSeq(ContentOf(ino), pos + 1, pos + got))
  OBVIOUS
<1> HIDE DEF d
<1>9. Map' = [Map EXCEPT ![fd] = StreamOf(d)]
  BY <1>4, MapSet
<1>10. StreamOf(d) = [kind |-> fd_array[fd].ops, inode |-> ino, pos |-> pos + got]
  BY <1>5 DEF StreamOf, InUse
<1>11. StreamOf(d) = [Map[fd] EXCEPT !.pos = Map[fd].pos + got]
  BY <1>2, <1>10
<1>12. Map' = [Map EXCEPT ![fd].pos = Map[fd].pos + got]
  BY <1>9, <1>11
<1>13. Streams!Reads(fd, "file")
  BY ReadsMaps
<1> DEFINE all == [e \in Inodes |-> ContentOf(e)][Map[fd].inode]
<1>14. all = ContentOf(ino)
  BY <1>1, <1>3
<1>15. got = Streams!Least(n, Len(all) - Map[fd].pos)
  BY <1>3, <1>7, <1>14
<1>16. Streams!Answer("read", fd, <<>>, n, got, SubSeq(all, Map[fd].pos + 1, Map[fd].pos + got))
  BY <1>3, <1>8, <1>14 DEF Streams!Answer, Returns
<1> HIDE DEF ino, pos, all
<1> DEFINE count == Streams!Least(n, Len(all) - Map[fd].pos)
<1>17. Map' = [Map EXCEPT ![fd].pos = Map[fd].pos + count]
  BY <1>12, <1>15
<1>18. Streams!Answer("read", fd, <<>>, n, count, SubSeq(all, Map[fd].pos + 1, Map[fd].pos + count))
  BY <1>15, <1>16
<1>19. n >= 0
  OBVIOUS
<1>20. Streams!ReadBytes(fd, n)
  BY <1>13, <1>17, <1>18, <1>19, Zenon DEF Streams!ReadBytes, Map, all
<1> QED
  BY <1>8, <1>20 DEF Streams!Next, Streams!Promised, Returns

\* The head of the read of a file: it is refused, returns nothing, or starts the loop.
LEMMA FileMaps ==
  ASSUME IInv, fate = "running", NEW fd \in Int, NEW n \in Int,
         InUse(fd), fd_array[fd].ops = "file", file_read(fd, n)
  PROVE  Streams!Next \/ UNCHANGED Streams!vars
<1>1. fd \in Fds /\ Streams!Reads(fd, "file")
  BY Bounds, ReadsMaps DEF InUse, IInv, Descriptors
<1>2. /\ fd_array[fd].inode \in Inodes /\ fd_array[fd].file_pos \in Nat
      /\ fd_array[fd].file_pos <= inode_ptr[fd_array[fd].inode].length
      /\ inode_ptr[fd_array[fd].inode].length \in Nat
      /\ fd_array[fd] \in [ops : {"none", "stdin", "stdout", "rtc", "dir", "file"},
                            inode : Nat, file_pos : Nat, flags : {0, 1}]
      /\ DOMAIN fd_array = 0..(MAX_NUM_FD - 1)
  BY <1>1, Bounds, ImageAssumption DEF IInv, TypeOK
<1>3. CASE n < 0
  <2>1. UNCHANGED <<fd_array, out, fate>> /\ Returns("read", fd, <<>>, n, -1, <<>>)
    BY <1>3 DEF file_read, Answers
  <2>2. Streams!Refusable("read", fd, <<>>, n)
    BY <1>1, <1>3, Bounds DEF Streams!Refusable
  <2> QED
    BY <2>1, <2>2, RefuseMaps
<1>4. CASE n = 0
  <2> DEFINE ino == fd_array[fd].inode
             pos == fd_array[fd].file_pos
  <2>1. UNCHANGED <<fd_array, out, fate>> /\ Returns("read", fd, <<>>, 0, 0, <<>>)
    BY <1>4 DEF file_read, Answers
  <2>2. SubSeq(ContentOf(ino), pos + 1, pos + 0) = <<>>
    BY <1>2, SubSeqEmpty
  <2>3. Returns("read", fd, <<>>, 0, 0, SubSeq(ContentOf(ino), pos + 1, pos + 0))
    BY <2>1, <2>2
  <2>4. 0 = IF 0 < inode_ptr[ino].length - pos THEN 0 ELSE inode_ptr[ino].length - pos
    BY <1>2
  <2>5. fd_array' = [fd_array EXCEPT ![fd].file_pos = pos + 0]
    <3>1. pos + 0 = pos
      BY <1>2
    <3>2. [fd_array[fd] EXCEPT !.file_pos = pos] = fd_array[fd]
      BY <1>2
    <3>3. [fd_array EXCEPT ![fd].file_pos = pos] = fd_array
      <4>1. fd_array \in [0..(MAX_NUM_FD - 1) ->
              [ops : {"none", "stdin", "stdout", "rtc", "dir", "file"},
               inode : Nat, file_pos : Nat, flags : {0, 1}]]
        BY DEF IInv, TypeOK
      <4> QED
        BY <1>1, <3>2, <4>1
    <3> QED
      BY <2>1, <3>1, <3>3
  <2>6. PICK z \in Nat : z = 0
    OBVIOUS
  <2>7. /\ z = IF z < inode_ptr[ino].length - pos THEN z ELSE inode_ptr[ino].length - pos
        /\ fd_array' = [fd_array EXCEPT ![fd].file_pos = pos + z]
        /\ Returns("read", fd, <<>>, z, z, SubSeq(ContentOf(ino), pos + 1, pos + z))
        /\ UNCHANGED <<out, fate>>
    BY <2>1, <2>3, <2>4, <2>5, <2>6
  <2> QED
    BY <1>1, <2>7, BytesMap
<1>5. CASE n > 0
  <2>1. UNCHANGED <<fd_array, ret, out, fate>>
    BY <1>2, <1>5 DEF file_read
  <2> QED
    BY <2>1 DEF Streams!vars
<1> QED
  BY <1>3, <1>4, <1>5

\* read does what FileStreams promises, or starts the loop, which it does not see.
LEMMA ReadMaps ==
  ASSUME IInv, NEW fd \in Int, NEW n \in Int, syscall_read(fd, n)
  PROVE  Streams!Next \/ UNCHANGED Streams!vars
<1>1. fate = "running" /\ InUse(0)
  BY DEF syscall_read, Running, IInv, Descriptors
<1>2. CASE PastTheTable(fd) /\ Returns("read", fd, <<>>, n, 0, <<>>)
  BY <1>1, <1>2, FaultMaps
<1>3. CASE fd # MAX_NUM_FD /\ ~InUse(fd) /\ Answers(fd, n, -1, <<>>)
  <2>1. Streams!Refusable("read", fd, <<>>, n)
    BY <1>1, <1>3, InUseMaps DEF Streams!Refusable
  <2> QED
    BY <1>1, <1>3, <2>1, RefuseMaps DEF Answers
<1>4. CASE /\ InUse(fd) /\ fd_array[fd].ops = "stdin"
           /\ \E l \in Lines : Answers(fd, n, Len(l), l)
  <2>1. fd = 0
    BY <1>4, Bounds DEF IInv, Descriptors, InUse
  <2>2. PICK l \in Lines : Answers(fd, n, Len(l), l)
    BY <1>4
  <2>3. Streams!ReadDevice(fd, n)
    BY <2>1, <2>2 DEF Streams!ReadDevice, Streams!Answer, Answers, Returns
  <2> QED
    BY <1>1, <2>2, <2>3 DEF Streams!Next, Streams!Promised, Answers, Returns
<1>5. CASE InUse(fd) /\ fd_array[fd].ops = "stdout" /\ Answers(fd, n, -1, <<>>)
  <2>1. fd = 1
    BY <1>5, Bounds DEF IInv, Descriptors, InUse
  <2>2. Streams!Refusable("read", fd, <<>>, n)
    BY <2>1, Bounds, InUseMaps, ImageAssumption DEF Streams!Refusable
  <2> QED
    BY <1>1, <1>5, <2>2, RefuseMaps DEF Answers
<1>6. CASE InUse(fd) /\ fd_array[fd].ops = "rtc" /\ Answers(fd, n, 0, <<>>)
  <2>1. Streams!Reads(fd, "rtc")
    BY <1>6, Bounds, ReadsMaps DEF IInv, Descriptors, InUse
  <2>2. Streams!ReadDevice(fd, n)
    BY <1>6, <2>1 DEF Streams!ReadDevice, Streams!Answer, Answers, Returns
  <2> QED
    BY <1>1, <1>6, <2>2 DEF Streams!Next, Streams!Promised, Answers, Returns
<1>7. CASE InUse(fd) /\ fd_array[fd].ops = "dir" /\ dir_read(fd, n)
  BY <1>1, <1>7, DirMaps
<1>8. CASE InUse(fd) /\ fd_array[fd].ops = "file" /\ file_read(fd, n)
  BY <1>1, <1>8, FileMaps
<1> QED
  BY <1>2, <1>3, <1>4, <1>5, <1>6, <1>7, <1>8 DEF syscall_read

\* write shows the text or is refused, and its answer deviates.
LEMMA WriteMaps ==
  ASSUME IInv, NEW fd \in Int, NEW n, NEW text, syscall_write(fd, text, n)
  PROVE  Streams!Next
<1>1. fate = "running" /\ InUse(1)
  BY DEF syscall_write, Running, IInv, Descriptors
<1>2. CASE PastTheTable(fd) /\ Returns("write", fd, <<>>, n, 0, text)
  BY <1>1, <1>2, FaultMaps
<1>3. CASE /\ n >= 0 /\ InUse(fd) /\ fd_array[fd].ops = "stdout"
           /\ out' = out \o Shown(text) /\ Returns("write", fd, <<>>, n, 0, text)
           /\ UNCHANGED <<fd_array, pc, locals, fate>>
  <2>1. fd = 1
    BY <1>3, Bounds DEF IInv, Descriptors, InUse
  <2>2. UNCHANGED Map
    BY <1>3 DEF Map, StreamOf
  <2>3. Streams!WritesUncounted(fd, n, text)
    BY <1>3, <2>1, <2>2, Zenon
       DEF Streams!WritesUncounted, Streams!Visible, Streams!Answer, Returns, Shown, Map
  <2> QED
    BY <1>1, <1>3, <2>3 DEF Streams!Next, Streams!Deviates, Returns
<1>4. CASE /\ n >= 0 /\ InUse(fd) /\ fd_array[fd].ops = "rtc"
           /\ \E r \in {0, -1} : Returns("write", fd, <<>>, n, r, text)
           /\ UNCHANGED <<fd_array, pc, locals, out, fate>>
  <2>1. fd \in Fds /\ Streams!Reads(fd, "rtc")
    BY <1>4, Bounds, ReadsMaps DEF IInv, Descriptors, InUse
  <2>2. CASE Returns("write", fd, <<>>, n, 0, text)
    <3>1. Streams!WritesUncounted(fd, n, text)
      BY <1>4, <2>1, <2>2 DEF Streams!WritesUncounted, Streams!Answer, Returns
    <3> QED
      BY <1>1, <2>2, <3>1 DEF Streams!Next, Streams!Deviates, Returns
  <2>3. CASE Returns("write", fd, <<>>, n, -1, text)
    <3>1. Streams!Refusable("write", fd, <<>>, n)
      BY <2>1, Bounds DEF Streams!Refusable
    <3> QED
      BY <1>1, <1>4, <2>3, <3>1, RefuseMaps
  <2> QED
    BY <1>4, <2>2, <2>3
<1>5. CASE /\ \/ n < 0 \/ (fd # MAX_NUM_FD /\ ~InUse(fd))
              \/ InUse(fd) /\ fd_array[fd].ops \in {"stdin", "dir", "file"}
           /\ Returns("write", fd, <<>>, n, -1, text)
           /\ UNCHANGED <<fd_array, pc, locals, out, fate>>
  <2>1. Streams!Refusable("write", fd, <<>>, n)
    BY <1>1, <1>5, Bounds DEF Streams!Refusable, IInv, Descriptors, InUse
  <2> QED
    BY <1>1, <1>5, <2>1, RefuseMaps
<1> QED
  BY <1>2, <1>3, <1>4, <1>5 DEF syscall_write

\* The return of read_data is the one step of the loop that FileStreams sees.
LEMMA ReturnMaps ==
  ASSUME IInv, ReadReturns
  PROVE  Streams!Next
<1> DEFINE ino == fd_array[fd_read].inode
           pos == fd_array[fd_read].file_pos
<1>1. /\ fd_read \in Fds /\ InUse(fd_read) /\ fd_array[fd_read].ops = "file"
      /\ i \in Nat /\ length \in Nat /\ fate = "running"
      /\ i = IF length < inode_ptr[ino].length - pos THEN length ELSE inode_ptr[ino].length - pos
      /\ buf = SubSeq(ContentOf(ino), pos + 1, pos + i)
  BY LoopDone DEF ReadReturns
<1>2. /\ fd_array' = [fd_array EXCEPT ![fd_read].file_pos = pos + i]
      /\ Returns("read", fd_read, <<>>, length, i, buf) /\ UNCHANGED <<out, fate>>
  BY DEF ReadReturns, Advanced
<1> QED
  BY <1>1, <1>2, BytesMap

\* Every call is a step of FileStreams or a stutter.
LEMMA CallsMap == IInv /\ [AnyCall]_vars => [Streams!Next]_(Streams!vars)
<1> SUFFICES ASSUME IInv, [AnyCall]_vars PROVE Streams!Next \/ UNCHANGED Streams!vars
  OBVIOUS
<1>1. CASE \E name : syscall_open(name)
  BY <1>1, OpenMaps
<1>2. CASE \E fd \in Int : syscall_close(fd)
  BY <1>2, CloseMaps
<1>3. CASE \E fd, n \in Int : syscall_read(fd, n)
  BY <1>3, ReadMaps
<1>4. CASE \E fd \in Int : \E n, text : syscall_write(fd, text, n)
  BY <1>4, WriteMaps
<1>5. CASE syscall_halt
  BY <1>5, HaltMaps
<1>6. CASE ReadByte
  BY <1>6 DEF ReadByte, Streams!vars
<1>7. CASE ReadReturns
  BY <1>7, ReturnMaps
<1>8. CASE UNCHANGED vars
  BY <1>8 DEF vars, Streams!vars
<1> QED
  BY <1>1, <1>2, <1>3, <1>4, <1>5, <1>6, <1>7, <1>8 DEF AnyCall

\* Every step is, too.
LEMMA NextMaps == IInv /\ [Next]_vars => [Streams!Next]_(Streams!vars)
BY NextCalls, CallsMap

\* For any image and any calls of a program, what it sees is what FileStreams
\* promises, streams of the bytes of the files with positions of their own, but for
\* the three deviations it names: a write answers 0, the directory -1 after its end,
\* and a read or write on descriptor 8 ends the program.
THEOREM Implements == Spec => ImplementsStreams
<1> QED
  BY InitInv, NextInv, InitMaps, NextMaps, PTL DEF Spec, ImplementsStreams, Streams!Spec
=============================================================================
