# A TLA+ model of the kernel

The repository holds a small x86 kernel (`src/myLinuxOS/student-distrib`): one
processor, six process slots, three text terminals, a keyboard, a real-time
clock and a read-only file system in memory. User programs live in
`src/myLinuxOS/syscalls` and `src/myLinuxOS/fish`. This directory models the
parts whose correctness depends on the order of events, checks them with TLC
and proves the central theorems with TLAPS.

All paths below are relative to `src/myLinuxOS/student-distrib` unless they
start with `syscalls/`.

## 1. The system

### How control moves

There is no scheduler: `init_scheduler` is commented out in `kernel.c` and the
body of `scheduler_enable` is a comment. The processor executes one program. Every
other program that has been started waits inside a call of `syscall_execute`,
which returns when the program it started calls `syscall_halt` or faults. Such
a call is made by a shell through `int 0x80`, or by the keyboard interrupt when
Alt-Fn shows a terminal that has no shell yet (`terminal_swap`). So programs
nest like procedure calls, across terminals, and the program on the terminal
that is *shown* is not always the one that *runs*.

Interrupt and system call gates (vectors 32 and up) clear the interrupt flag;
exception gates (0 to 31) are trap gates and do not. Handlers re-enable
interrupts themselves: `keyboard_interrupt` right after reading the scan code,
`rtc_handler` as its last statement, `terminal_read` and `read_rtc` as their
first.

### Components

| Component | State | Operations | What makes it correct |
|---|---|---|---|
| Process control (`syscall.c`) | `pid_array`, `pid`, `parent_pid`, six PCBs, the user page, `tss.esp0`, the kernel stacks | `syscall_execute`, `syscall_halt` | a halt returns to the caller, in the caller's page and on its stack; slots neither leak nor are handed out twice; ends are told apart |
| Exceptions (`exceptions.c`) | `globalflag` | `exceptions` | the program is ended and its parent learns why |
| Terminal switch (`terminal.c`) | `curr_active_terminal`, `term_blk` | `terminal_swap`, `save_visible_terminal`, `restore_new_terminal` | a switch changes the screen only; a first visit gets a shell; input and screen of each terminal are kept |
| Keyboard (`keyboard.c`) | `key_buffer`, `buffer_index`, `enter_flag`, modifier flags | `keyboard_interrupt`, `printToScreen`, `clear_keyboard_buffer` | the buffer holds the line the user sees |
| Terminal input (`terminal.c`) | shares the keyboard's | `terminal_read` | a read waits for Enter and returns that line, once |
| Real-time clock (`rtc.c`) | `interrupt_flag`, the chip's index and registers | `rtc_handler`, `read_rtc`, `write_rtc`, `set_freq_rtc` | reads return, each on its own tick; the rate reaches the right register |
| File descriptors (`syscall.c`) | `fd_array` of each PCB | open, close, read, write | the lowest free descriptor is handed out; a call on one acts on its own file and position |
| File system (`filesys.c`) | the image, `file_pos` | `read_data`, `file_read`, `dir_read`, lookups | reads return the file's bytes in order and stop at its end |
| Console (`lib.c`) | video memory, `screen_x`, `screen_y` | `putc`, `scroll`, `backspace`, `clear` | the cursor stays on the screen; writes stay in video memory |
| Paging (`paging.c`) | page directory and tables | `syscall_helper`, `vidmap` helper | the user mapping is that of the running program |
| Command line (`syscall.c`) | `args` | parsing in execute, `syscall_getargs` | the name and the arguments are what was typed |
| Interrupt controller (`i8259.c`) | the two masks | init, enable, disable, EOI | exactly the enabled lines are unmasked |
| Boot, IDT, linkage | tables | `entry`, `initialize_idt`, assembly stubs | done once, before interrupts |
| Scheduler, signals | none | stubs | nothing to check |

Interactions: `execute` and `halt` share every global of process control with
the exception path and with `terminal_swap`; the keyboard interrupt writes the
variables `terminal_read` polls; the clock's handler and `set_freq_rtc` share
the register index; `terminal_swap` runs a whole program inside an interrupt
handler.

What is hard: programs launched from interrupts, long sequences of execute and
halt over shared globals, failures half-way through execute, keys that
interrupt the handler of other keys, flags polled by loops. `PROJECT.json`
lists these hazards line by line.

## 2. Modules

| Module | What it models |
|---|---|
| `CallStack` | the abstract promise of process control: a stack of calls, whose top is the program that runs |
| `Process` | process control, exceptions, terminal switches as far as processes are concerned, which descriptors are in use |
| `Input` | keyboard handler activations and `terminal_read`, instruction by instruction |
| `Rtc` | the clock: handler, read, write, the register index, shells launched on top of a reader |
| `FileStreams` | the abstract promise of the file calls: a descriptor is a stream of bytes or of names |
| `FileSystem` | open, close, read and write for one program's descriptors, names, the directory, `read_data` byte by byte |
| `CommandLine` | the parsing of a command, `getargs`, the emulation's parsing, `itoa`: operators only |
| `Programs` | cat, ls, grep, counter, syserr and an arbitrary program over `FileSystem` |
| `Console` | the screen: `putc`, `scroll`, `backspace`, `clear`, the cursor, the saved screens, the echo of keys |
| `Process_proofs`, `Input_proofs`, `Rtc_proofs`, `FileSystem_proofs`, `CommandLine_proofs`, `Programs_proofs`, `Console_proofs` | theorems |
| `NumberFacts` | lemmas about numbers the proofs share: quotients, induction, functions defined by recursion |
| `MCProcess`, `MCInput`, `MCRtc`, `MCFiles`, `MCConsole` | the small sets, images and texts the configurations use |

`CallStack`, `Process`, `Input`, `Rtc`, `Console` and `FileSystem` each have a
state of their own. They meet at few places, and each module states there what
it takes from its neighbour: `Process` decides which program runs and on which
stack; `Rtc` stacks its readers the way `Process` nests programs; a read of
descriptor 0 in `FileSystem` returns any line of `Lines`, and `Input` says which;
`Console` prints what a write of descriptor 1 hands to `terminal_write`.
`Programs` extends `FileSystem` and `CommandLine`.

### Process

The variables `pid_array`, `pid`, `parent_pid`, `globalflag`,
`curr_active_terminal` are the kernel's. `pcb[s]` keeps the fields of a PCB that
outlive a call: `pid`, `parent_pid`, `execute_esp` (as the depth of the
suspended call it points to) and the set of descriptors whose `flags` is 1.
`page` is the slot that entry 32 of the page directory maps, `tss` the slot
whose stack `tss.esp0` points to, `image[s]` the program loaded into the slot's
page. What the kernel does not record but the machine has is `chain`, the
activations of programs (the running one last), and `frames`, the kernel stack
each suspended call of execute lies on. `opened` is the set of terminals whose
`process_active` is not -1; the count itself is only ever increased and never
used. `Init` takes memory to be zero at boot: nothing in the kernel clears
descriptors 2 to 7 of a PCB before its first use (`syscall.c:155-164`), and
`NoLeftoverDescriptors` rests on it.

Each handler is one action, because interrupts are off while it runs:
`Execute`, `ExecuteBad` (the name does not load), `ExecuteFull` (no slot),
`Halt`, `Exception`, `SwapToOpened`, `SwapToNew`, `SwapWhenFull`, `Open`,
`Close`. `halt` of slot 0 (`HaltRoot`) loads a fresh shell; any other halt
(`HaltChild`) follows the PCB's `parent_pid` for page, stack and pid, and its
`execute_esp` for where to go on. When that stack pointer is not the one of a
suspended call, `wild` records it and the model stops.

`MaxLaunch` bounds the commands a shell other than the root one starts. It is
both a bound and the line between what works and what does not: see section 4.
It also counts the shells Alt-Fn launches on top of a program other than the
root shell, since `execute` takes `parent_pid` for them in the same way; so
`Disciplined` allows one such launch or command per program.

### Input

`key_buffer`, `buffer_index` and `enter_flag` are the kernel's. A handler
activation has a program counter; `buffer_index++` is a load and a store, and
the index of `key_buffer[buffer_index] = c` is loaded again, as the build
without optimisation compiles it. `stack` holds the activations:
`terminal_read` advances only when it is empty. The copying loop loads the byte
twice, to compare it (`Copy`) and to copy it (`Fetch`); a round of the clearing
loop is one step. Nothing in the code bounds `buffer_index`: a byte stored
outside `key_buffer` sets `overrun` and the model stops, as it cannot say what
is overwritten. Which character a key stands
for (shift, caps lock, the tables) is abstracted; the echo is left out. Ghost
variables keep what the user did: the characters typed, the line as it should
look on each terminal, whether Enter was pressed, and whether a key came at a
moment where it may go wrong (`Careful`).

### Rtc

The chip and the interrupt controller are modelled from how `rtc.c` uses them:
an interrupt is requested by the chip (`line`), latched by the controller
(`irr`), and not requested again before register C has been read through the
index that port 0x70 selects. `stack` holds the programs in progress, because
Alt-Fn can start a shell, and so another reader, on top of a reader at any
point where interrupts are on. `Data` writes an arbitrary upper half of
register A: `set_freq_rtc` takes it from a variable nothing initialises.
The chip is taken to tick whatever its dividers are, so that `ReadReturns` says
nothing about a divider that would stop it. `set_freq_rtc(2)` in `open_rtc` is
not modelled, since `syscall_open` never
calls the open function of a driver.

### FileSystem and FileStreams

`fd_array` is that of the running program's PCB, with the operations table as a
name (`ops`). The image is a constant, since nothing writes to it: the boot
block's entries, the length and block numbers of each inode, the data blocks. A
call is one step, because the gate of `int 0x80` clears the interrupt flag,
except the read of a file: `file_read` enters the loop of `read_data`, a round
of it (`ReadByte`) copies one byte and moves the two indices as the code does,
and `ReadReturns` adds the count to `file_pos`. `ret` holds the last call and
its answer, `out` what reached the screen.

Two boundaries of the code are kept as they are. `read_dentry_by_index` accepts
the index one past the last entry, and `ls` ends because of the empty entry it
finds there; in a full boot block that entry lies in the next block
(`DentryAt`). Descriptor 8 passes `fd > 8` in read, write and close; a read or
write of it calls through the PCB's `pid` field, which is a page fault and ends
the program (`PastTheTable`).

`FileStreams` says what the comments of `syscall.c` promise a program and knows
neither blocks nor inodes (`Promised`): a read of a file returns the next bytes,
as many as asked for and left, and moves its own position by that; a read of the
directory returns the next name, and 0 after the last; a write returns how many
bytes it was given; open takes the lowest free descriptor; a call is refused
only where `Refusable` allows it, with -1, and none ends the program. The kernel
departs from this in three ways, and `Deviates` names them with their lines: a
write answers 0 (`WritesUncounted`), the directory answers 0 once and -1 from
then on (`DirectoryDone`), a read or write on descriptor 8 ends the program
(`Faults`); whatever else the kernel might do differently breaks the refinement.
The mapping keeps `ret`, `out` and `fate` and shows each descriptor in use with
its kind, inode and position.

### CommandLine and Programs

`exe_name`, `args_of` and `syscall_getargs` follow the loops of
`syscall_execute` and `syscall_getargs`. `ece391_execute` and `ece391_getargs`
are the same two jobs in `syscalls/ece391emulate.c`, which lets the programs run
under Linux, and serve as the reference.

In `Programs`, `label` is the place in the running program between two calls and
`ret` the answer it looks at next; a step runs from one call to the next.
`Launch` is the part of execute that finds the program. grep's `do_one_file`
keeps its buffer `data` with `last`, `line_start`, `line_end` and `cnt`; it
starts with any of the contents in `Garbage`, and `stale` is its byte
`data[BUFSIZE]`, read before it is ever written. syserr's tests are sequences of
calls that must be refused (`Tests`); vidmap and the system call numbers are the
two kinds that do not reach the file system. The program `user` makes any
`MaxCalls` calls.

### Console

`video_mem` holds the characters and attributes of the rows on the screen,
`term_blk` the saved page and cursor of each terminal. What is to be printed
waits in `text`, and `Put` prints one character: a program's write and the echo
of a key print nothing but through `putc`. `Backspace`, `Clear` (Ctrl-L) and
`Switch` are one step each. The column may be negative: `backspace` takes
`(screen_x - 1) % 80`, which keeps its sign in C, and row *y*, column -1 is the
last cell of row *y - 1*. A write in front of video memory is a page fault in
the kernel (`fault`), and the model stops there. `line` is the key buffer up to
`buffer_index`, which is all that `backspace` looks at.

Ghost variables: `paper[t]` is all that terminal *t* was given since it was last
cleared, less what backspace took back; `backdrop` what its cells held before,
`reach` the row the paper has come to on a screen without end. `awkward`,
`displaced` and `mixed` mark the moments the next section names.

## 3. What the runs check

Bounds are the constants of each `.cfg`.

| Run | States | Shows |
|---|---|---|
| `process` | 202,216 | With commands that load and `MaxLaunch = 1`: types; `RunsAsItself` (the kernel acts for the program on the processor, in its page and on its stack, with its image intact); `KernelStacksIntact`; `SlotsExact`; `NoLeftoverDescriptors`; `EndsToldApart`; `CallInvariant`; the action property `ReturnsToCaller`; and `ImplementsCallStack`, the refinement of `CallStack` by the parent links the kernel keeps |
| `process_any` | 14,930 | Mistyped commands and repeated launches included: `RootSlotHeld`; `EndsToldApart`, here with the -1 of a command that cannot be loaded |
| `process_second_child` | violation | `ParentRestored` fails when a shell other than the root starts two commands |
| `process_bad_name` | violation | `ParentRestored` fails after a mistyped command |
| `process_no_shell` | violation | `ShownHasShell` fails: a new terminal is shown and no slot is left for its shell |
| `input` | 1,727,944 | One key at a time: `ReadsTheLine`, `ReadsInOrder`, `WithinBuffer` (nothing is stored in front of `key_buffer`, and with care nothing behind it before the line is too long), `IndexCountsLine`, `EnterIsAnswered` |
| `input_nested` | violation | `ReadsInOrder` fails when a key interrupts the handler of another |
| `input_swap` | violation | `OwnKeyboardBuffer` fails after a visit to another terminal |
| `rtc` | 99,618 | `IndexHeld`, `PacedReads`, `ReadReturns`, with shells launched at any point |
| `rtc_next` | violation | `WaitsForNext` fails: a read returns on an old tick |
| `files` | 38,985 | From the typed line to the halt: `ArgsAsTyped`, `CatShowsFile`, `LsListsDirectory`, `GrepPrintsMatches`, `SyserrPasses`, `CounterCounts`, `ProgramsEnd`; of the calls: `CopiesTheFile`, `OnlyReadsMove`, and `ImplementsStreams`, the refinement of `FileStreams` |
| `screen` | 1,249,897 | `ShowsThePaper` (each terminal, shown or hidden, shows the last rows of what was printed on it, with the cursor behind it), `StaysInVideoMemory`, `CursorShown`, `OwnColour`, and the action properties `ErasesWhatItTakes` (the cell backspace blanks showed the character it takes out of the line) and `HiddenScreensKept` |

**Bounds.** `process` uses 4 slots, 3 terminals and 4 descriptors: a root shell,
a shell for each of two other terminals and one command fill the slots, so every
path with a full table, every nesting of terminal shells and commands, and the
reuse of a slot occur. Two descriptors besides 0 and 1 are enough for the
first-free search to skip one. A process model with 3 slots is enough for the
violations of `ParentRestored`, with 2 for `process_no_shell` (in the kernel
six: a shell started inside another five times takes them all); the traces have
3 to 6 states. `input` presses up to 5 keys on a buffer of 4 characters with
reads of 2: two lines, a line longer than the read, one that fills the buffer,
one that no longer fits, where the model stops (a tab is three characters),
backspaces on an empty line, an Enter before, in and after a read, and a switch
all fit. Keys are unbounded in the code; `MaxKeys` makes the model finite; its
end and `overrun` are the only reasons the runs of `Input` turn deadlock
checking off. In `process_any` the model stops where `halt` has jumped to a call
that is not there, which the code may do in that run, so deadlock checking is
off too. `rtc` stacks three programs.

`files` has blocks of 2 bytes, a buffer of 5 for cat and grep, 8 descriptors and
a full directory of 11 entries, so that the entry past the last lies in the next
block. The file `f` of 16 bytes is longer than the buffer, lines of it lie
across the buffer's end, one line is exactly as long as the buffer, so that its
newline is the first byte of the next chunk, it has an empty line, and its last
line has no newline; `ab` fills its blocks exactly; `e` is empty. A file's
blocks are in descending order. The 20 commands contain names alone, blanks in
front, in the middle and at the end, a missing file, the directory and the clock
as cat's argument, a file that is no program. `user` makes 4 calls: enough to
open two descriptors on one file, read both, close one and open again. grep's
buffer starts with newlines in none of its bytes, in two before the last, or in
the last (`MCGarbage`). `CHECK_DEADLOCK FALSE`, because a program that has
halted makes no step.

`screen` has two terminals of 3 rows and 3 columns, where a tab fills a row and
two tabs, or a tab and a write, scroll. `MaxLine` is 6, and must be at most
`(NUM_ROWS - 1) * NUM_COLS`: in the code it is 256, the size of `key_buffer`,
against 1,920. `MaxSteps` = 7 keys and writes: fill, wrap, scroll, erase back
over a wrap, switch away and back. The end of the steps is the only reason for
`CHECK_DEADLOCK FALSE`, beside `fault`.

**Fairness.** `Process` states none: nothing in it has to happen. `Input` has
weak fairness of the handler and of `terminal_read` after it has begun:
the processor does not stop between two instructions. The user need not press
anything. `Rtc` has it for the chip's ticks, for taking an interrupt that stays
requested while interrupts are on, and for the instructions of a system call. A
shell launched on top of a reader need not end, and `ReadReturns` allows for
it. `Programs` has weak fairness of its whole next-state relation: there is one
program on the processor and no scheduler to take it away, and the keyboard and
the clock are assumed to answer (which `Input` and `Rtc` show). `FileSystem` and
`Console` state none.

**What `ReadsTheLine` assumes.** A line is read as edited if no key but the
release of Enter comes between Enter and the end of the read, Enter is pressed
while a program waits, and Enter is not released before the polling loop has
seen it; typing before the read begins is allowed. The line and its newline must
fit `key_buffer`: a longer one is stored past the array, and nothing is said of
it. `ReadsInOrder` assumes none of this: with one key at a time, what is read is
a subsequence of what was typed. It leaves backspace out, because a backspace
over a stored newline of an Enter that was not waited for makes two lines one.

**What the properties of `files` and `screen` leave aside.**

* `GrepPrintsMatches`: a newline that happens to lie in `data[BUFSIZE]`, which
  makes grep take the first part of a line for a whole one (`stale # NewLine`).
  And files that are no text (`TextFiles`): a line longer than the buffer is
  printed in pieces, and a line with a NUL up to the NUL. A line may be exactly
  as long as the buffer. Entries that begin with a dot are exempt, as grep does
  not open them.
  The premise is about all files of the directory, because `grep` opens all of
  them: the run's image meets it, the image of the repository, which holds the
  programs too, does not.
* `ArgsAsTyped` is about the text `getargs` hands out, not about the number it
  returns. It leaves aside blanks at the end of the command. The kernel leaves
  one of them in the argument, the emulation none, and the property says exactly
  that. `CatShowsFile` then expects "file not found", as happens. A command that
  begins with a blank is out, because the emulation takes the empty word.
* `ShowsThePaper`: the last column, where `putc` draws nothing and starts the
  next row (`lib.c:308`); and a terminal after an *awkward* moment, until it is
  cleared. Those are: a newline with the cursor at a negative column, which
  leaves an empty row (`lib.c:301`); backspace through the whole row above,
  where the remainder of -80 is 0 and the cursor jumps back down (`lib.c:342`);
  and a stored newline taken back, where no cell was drawn.
* `StaysInVideoMemory` and `ErasesWhatItTakes`: a line *displaced* by Ctrl-L or
  Alt-Fn. Both move the cursor and keep `buffer_index`, so backspace goes on
  erasing what is not there, and in the top left corner writes in front of video
  memory.
* `ErasesWhatItTakes`: besides, a line *mixed* with a program's output, which is
  then what backspace erases; the last column and the awkward moments, as above.
  All four exclusions are needed: without any of them TLC finds the property
  violated.

* `OwnColour`: terminals 1 and 2 before their first Ctrl-L. Nothing fills their
  saved pages at boot.

## 4. What the violations say

* **`parent_pid`** (`syscall.c:77`). `halt` sets the global to the parent's own
  parent instead of the parent, so after its first command a shell other than
  the root has its commands recorded as children of its parent. The root shell
  is its own parent, which is why the usual session on the first terminal works.
  The halt of the second command returns into the right call, with the wrong
  page, stack and `pid`.
* **A mistyped command** (`syscall.c:219-233`) undoes `pid_array` only.
* **No slot** (`syscall.c:137-140`): execute prints a message, starts nothing and
  returns 0. `terminal_swap` (`terminal.c:161-172`) has switched the screen before
  and does not look at the answer: the message appears on the new terminal, and no
  shell is there to read what is typed.
* **Nested keys** (`keyboard.c:94`): `sti` ends the critical section before the
  shared buffer is updated. Two characters change places (`input_nested`); in
  the same way two backspaces on one character both pass `buffer_index >= 0`
  (`keyboard.c:126`), and the next character is stored in front of `key_buffer`.
* **One key buffer** (`terminal.c:198`): all terminals share it, and a switch
  clears it without resetting `buffer_index`.
* **The clock's flag** (`rtc.c:108`) is not cleared before the wait.

The comments of the code and the code differ in more places, which no run of
their own shows; the passing properties say what the code does there:

* **0 for a command without a slot** (`syscall.c:137-140`), where the comment of
  `execute` has "-1 - if failure" (`syscall.c:120`): `EndsToldApart` gives 0 both
  meanings.
* **The status** (`syscall.c:89`): `status && 0xF` is 1 for every status but 0,
  where the comment of the user library wants the low byte
  (`syscalls/ece391syscall.h:9`): `EndsToldApart` says 1.
* **Descriptor 8** (`syscall.c:309`, `333`): the check is `fd > 8` for a table of
  8, where the comment has -1 for a failure: `Faults` in `FileStreams`.
* **The answer of a write** (`terminal.c:94`, `rtc.c:88`) is 0, where the comment
  has the number of bytes (`syscall.c:327`): `WritesUncounted`. The repository's
  programs only compare it with -1.
* **The end of the directory** (`filesys.c:187`): index `total_dentries` passes
  and gives an empty name, the answer 0; every read after that is -1, where the
  comment has 0 (`syscall.c:302`): `DirectoryDone`.

The passing runs state what holds beside these: `Disciplined` in `Process`
(commands load, and shells other than the root start at most one) is exactly
what keeps the first two away.

## 5. What is proved

`Process_proofs`, for any number of slots, terminals and descriptors and any
programs (assumptions `SizesAssumption`, `ProgramsAssumption`):

* `TypeCorrect`: `Spec => []TypeOK`. Needs that `chain` is one longer than
  `frames` (`Typed`).
* `RootSlotTheorem`: `Spec => []RootSlotHeld`, with no assumption on the
  commands. Needs that a PCB's and the global's parent are slots whose PCB
  carries their own number (`ParentsNumbered`).
* Under `Disciplined`: `CallTheorem` (`[]CallInvariant`), `DescriptorTheorem`
  (`[]NoLeftoverDescriptors`), `StackTheorem` (`[]KernelStacksIntact`),
  `ReturnTheorem` (`ReturnsToCaller`), and, with a shell that does not fault,
  `EndsTheorem` (`[]EndsToldApart`; its clause about -1 matters where commands may
  fail to load, which only `process_any` has).

`RunsAsItself` is not inductive: to know that a halt restores the caller one
needs that each suspended activation is named as parent, with the depth of its
call, by the PCB above it (`CallsRecorded`), that its page was not reloaded and
its PCB not reused (`ActivationsKept`, from `SlotsExact`: only free slots are
written), and that `parent_pid` is right for the next launch
(`ParentPidReady`), which in turn needs the count of commands a shell has
started (`KidsCounted`) and that the chain starts with the root shell.
`CallInvariant` is the conjunction, checked by the run `process` and proved
inductive together with `NoLeftoverDescriptors` and `RootSlotHeld` (`CallInv`).
There is one lemma per action and case of halt. From the same invariant follow
`RunsTheorem` (`[]RunsAsItself`), `SlotsTheorem` (`[]SlotsExact`) and

* `CallStackTheorem` (`ImplementsCallStack`): the parent links followed from the
  running process are a stack of calls. The mapping walks the links with the
  recursive function `Ancestor`; `AncestorValue` unfolds it, `RecordedChain` says
  that what it meets on the way is the chain of activations, from the top to the
  root shell, and then the simulation is short: a launch is a `Start`, a halt of
  another program a `Return`, everything else a stutter.

`Input_proofs`, for any keys, buffer, read size and number of key presses, with
`MaxDepth = 1`: no key interrupts the handler of another. Without that
hypothesis `ReadsInOrder` is false (run `input_nested`).

* `TypeTheorem` (`[]TypeOK`), from `TypeInv`: an activation holds the value of
  the index it loaded, because nothing stores it in between (`terminal_read`
  waits for the handler, and no other handler runs), and the index is bounded by
  the increments still to come.
* `ReadsTheLineTheorem` (`[]ReadsTheLine`), `IndexTheorem` (`[]IndexCountsLine`)
  and `WithinBufferTheorem` (`[]WithinBuffer`), from `LineIInv`: while the user
  types with care, `key_buffer` holds the line as far as the handler has stored
  it (`Stored`), the index is its length, one less or one more according to the
  place of handler and reader (`IndexInv`), and once Enter is pressed nothing
  changes the line while it is copied (`EnteredInv`). `RunInv` says of the index
  that a store is about to use that it is not below 0 and, with care, not beyond
  the line, and of an overrun what `WithinBuffer` says. The three speak of a
  line that fits the buffer with its newline, which is all the code is good for.
* `ReadsInOrderTheorem` (`[]ReadsInOrder`), from `OrderInv`, with no care at all:
  what was delivered, what `terminal_read` has copied, what `key_buffer` still
  holds and what the handler has yet to store come in this order in what was
  typed. The invariant says so with functions from positions to positions, which
  is what lets a step move a piece from one part to the next; only at the end is
  it turned into the recursive `IsSubSequence` (`FitsIsSubSequence`).

`Rtc_proofs`, for any depth of programs: `TypeCorrect`, `IndexTheorem`
(`[]IndexHeld`) and `PacingTheorem` (`[]PacedReads`), from `PacingInvariant`:
interrupts are off inside the critical section, so no program below the top of
the stack is inside one, and a set flag stands for a tick later than the last
read of every program in progress.

`FileSystem_proofs`, for any image, block size, descriptor table and any calls,
from `ImageAssumption` (names fit their field and hold no NUL; entries past the
last are empty; a regular file has an inode in range with the blocks its length
needs, and its bytes are characters):

* `TypeCorrect` (`[]TypeOK`, with the position of a file never beyond its end)
  and `LoopCopies` (`[]CopiesTheFile`): whatever the offset and the length, the
  loop has copied the bytes from `offset` to `offset + i`, and the block index
  times the block size plus the index in the block is `offset + i`. The second
  half is the invariant the first needs; it holds across the change of block,
  where the code sets the index to 0 and moves one block on.
* `ReadsMove` (`OnlyReadsMove`).
* `Implements`: `Spec => ImplementsStreams`. The rounds of the loop are
  stutters, `ReadReturns` is `ReadBytes`, every other call is the step of the
  same name, a refusal, the halt, or one of the three departures.

The inductive invariant `IInv` adds to the two of them `Descriptors` (which kind
of entry a descriptor in use names, and that 0 and 1 stay what they are) and
`Reading` (inside the loop, the descriptor is open on a file and `offset` is
still its position). The lemmas are about `AnyCall`, a call with any number for
a descriptor or a count and any text, so that they serve `Programs` too.

`CommandLine_proofs`, about the operators of `CommandLine`, for any texts:

* `Itoa`: for every radix from 2 to 16 and every positive value, `itoa` writes
  digits, none of them a zero in front, that stand for the value. `places` is a
  recursive function on all numbers: it exists because it does on every interval
  from 0 (`PlacesToExist`, `PlacesToAgree`, `AllPlacesExist`).
* `CommandParsed`: for every command that starts with a word and holds no newline,
  the name and the arguments `execute` and `getargs` find are those of the
  emulation, but for the blank left at the end. The proof goes a character at a
  time (`ParsingMore`): `Parsing` says of a command that its words have ended, the
  last one only where a blank ends the command, that it has arguments exactly
  when it has a second word, and that the copy of the arguments is the words
  joined. One lemma says for each operator what a character more changes
  (`StartsStep`, `WordsStep`, `JoinedMore`, `JoinedLonger`, `ArgsStep`,
  `CopyMore`).

`Programs_proofs`, for any image, any commands and any size of the programs'
buffer, from `ProgramsAssumption` (what the programs are written for: eight
descriptors, a directory with an entry `.`, messages without a NUL, and for
syserr a file that exists and whose changed names do not; what the shell hands
to `execute`: a string without its newline and with no NUL before its end, not
empty, no longer than the buffers):

* `Shows` (`[]CatShowsFile`), `Lists` (`[]LsListsDirectory`), `Refuses`
  (`[]SyserrPasses`): what these programs have done when they halt, or, for
  syserr, at every moment.
* `CountsOn` (`[]CounterCounts`): what counter has printed behind its question is
  a text whose lines are the numerals of 1 to `k`.
* `Greps` (`[]GrepPrintsMatches`): in a directory of texts, grep prints each line
  that has the word, once, whole and in order, whatever the size of its buffer
  and wherever the chunks cut the files.
* `Parsed` (`[]ArgsAsTyped`), from `CommandParsed`: a program keeps the arguments
  of the command that started it (`ArgsInv`).
* `ProgramsTyped` (`[](TypeOK /\ CopiesTheFile)`) and `ProgramsStreams`
  (`ImplementsStreams` and `OnlyReadsMove`): every step of every program, grep,
  counter and the arbitrary one included, is a call or none (`ProgramCalls`), and
  it asks with numbers (`Numbers`), so what holds of `FileSystem` holds here.

None of the first three, nor `CounterCounts`, nor `GrepPrintsMatches`, is
inductive. `ProgramInv` says of each place between two calls
of a program what the descriptor, the last answer and the output are there: cat
has shown exactly what its reads have passed (`Passed`), up to the bytes now in
its buffer, and the answer 0 comes only where nothing is left; ls has printed a
line for each name before the position (`Lined`); err_open_lots has open, after n
of its calls, the descriptors `OpenAfter(n)`, which makes exactly its seventh open
fail; every other test asks, with no descriptor open, what is refused then
(`AllRefused`); counter has printed the numbers up to `k` and a newline behind
each (`CounterInv`, `Numbered`), so that one more is one more line
(`LinesAppend`). The argument about cat needs that what the screen shows of two
texts behind one another is what it shows of each (`ShownSteps` and the lemmas
after it), since the reads cut the file anywhere.

grep has an invariant of its own, `GrepInv`. `BufferInv` holds from the shell's
prompt on: the byte past the buffer is no newline, and never becomes one: a
chunk does not reach it, and all that grep writes there is a NUL. `GrepPlaces`
says of each place that some first `d` characters of the entry have been
searched (`Searched`): `out` is what the entries before and those characters
have to show, `d` is where a line starts or where the newline of a line that
filled the buffer stands (`Clean`), and the characters from `d` to the position
of the descriptor lie in the buffer, behind one another (`Holds`), from
`line_start` on once a chunk has been read. A chunk that is read makes these
more, the carry to the front moves them without changing which they are, and a
line that is searched moves `d` behind its newline. Four arguments carry the
proof: what lies between `line_start` and `line_end` are the next characters of
the file, up to a newline or as far as the buffer is filled (`LineAtHand`); a
line that is not carried is whole (`LineIsWhole`); strncmp at every place of a
buffer that is ended with a NUL finds the word exactly where the line has it
(`WordFound`); and what a text has to show grows by one line at a time, also
when its last line has no newline yet (`LineMore`, `TextStep`). The buffer makes
the premise on lines necessary: a full buffer without a newline is searched as a
line, and it is one only if the line ends there.

`Console_proofs`, for any size of the screen, any terminals, characters and
texts, from `ConsoleAssumption`: `TypeCorrect` (`[]TypeOK`: a cursor, shown or
saved, addresses a cell), `InMemory` (`[]StaysInVideoMemory`), `Cursor`
(`[]CursorShown`), `Colours` (`[]OwnColour`), `Hidden` (`HiddenScreensKept`) and
`Shown` (`[]ShowsThePaper`).
`StaysInVideoMemory` is not inductive: it needs `Room`, that a line which was not
displaced has its characters between the first cell and the cursor, those of an
echo still under way included. Scrolling takes cells away in front of the
cursor, and this is where `MaxLine <= (NUM_ROWS - 1) * NUM_COLS` comes in: on
the bottom row there is always room for the longest line.

`ShowsThePaper` is not inductive either. `PaperInv` adds that the cursor is in
the last row the paper has come to, or left of it at a negative column
(`cursor_y` plus the rows scrolled away is `reach`): without it a scroll could
come before its time. Where the characters of a paper lie is a recursion
(`Places`), so first come lemmas about it: places rise (`PlacesRise`), one more
character leaves the places before it (`PlacesAppend`), it is laid at the end and
nowhere else (`LaidAppend`), and beyond the end only the backdrop shows
(`LaidBeyond`). Then one lemma per way to change a screen: the next row
(`NextRowShows`), a character drawn (`DrawShows`), one blanked (`BackShows`), a
page of one character (`EmptyShows`).

**Recursion.** The library's theorems about induction and recursive functions
take an operator as a parameter, which the provers cannot instantiate.
`NumberFacts` derives both from the well-foundedness of the natural numbers with
sets and functions in place of operators: `Induction` (a set with 0 and the
successor of each of its members contains the numbers) and `Recursion` (a
function that starts with a value and goes on by steps exists).

Only model-checked:

* `ReadReturns`, `EnterIsAnswered` and `ProgramsEnd`: liveness under fairness,
  which needs ENABLED.
* `ErasesWhatItTakes`: it says where on the screen each character of the line is,
  which `Room` and `PaperInv` only say of their number and of the paper.

## 6. What is not modelled

* `Process` distinguishes commands that load from commands that do not; the text
  is `CommandLine`'s. The copy of the program into its page is left out.
* An exception is one step, although the handler runs with interrupts on.
* Shift, caps lock and the scan code tables, which only choose the character;
  what nested key handlers do to the screen (`Input` has what they do to the
  line).
* What lies behind `key_buffer`, `exe_name`, `args` and the buffer given to
  `getargs`, when a line or a word is too long or `getargs` is asked for more
  than `args` holds; the byte behind the buffer of a read of the terminal.
* `set_freq_rtc(512)` at every read: the rate a program wrote lasts until any
  program reads. Nothing beyond the assignment itself could be stated.
* `printf`, `puts` and number formatting in the kernel, which print through
  `putc`; the string and memory routines of `lib.c`; the page's cells behind the
  last row.
* Which terminal a program belongs to: output goes to the one shown, so the
  paper of `Console` is that terminal's, not that program's.
* fish and pingpong, which draw through the page vidmap maps and never call the
  kernel about it; that page stays mapped for later programs, which no program
  of the repository looks at. sigtest, hello, testprint: signals are refused,
  and the other two are a few writes.
* The static page tables, the mask arithmetic of `i8259.c`, boot, descriptor
  tables and assembly stubs: filled or run once, in one order.
* The scheduler (disabled), signals (stubs), the compiled-out tests.

## 7. Plan

Done: `CallStack`, `Process`, `Input`, `Rtc`; then `FileSystem` with
`FileStreams`, `CommandLine`, `Programs`, `Console`, and the proofs of section
5. Left, in this order:

1. `ExceptionWindow`: `Process` with an exception as several steps and Alt-Fn in
   between.
2. Nested key handlers on the screen: `Console` with `Put` split at its stores.
