# A formal model of uuki

uuki is a small C library (`src/src/base`, `src/include/uuki/base`) with the
first stage of a language front end (`src/src/lang`) and a command line
(`src/src/cli`). This directory models its parts in TLA+, checks them with TLC
on small instances and proves the main results with TLAPS for all instances.

## The system

| Part | State it keeps | Operations | What makes it correct |
|---|---|---|---|
| virtual memory (`vmem.c`, `vmem_unix.c`, `vmem_windows.c`) | the process' address space: reserved and committed pages | create (reserve), commit, uncommit, destroy | requests are whole granules inside a reservation; nothing is leaked or released twice |
| linear allocator (`mem.c`) | `mem`, `reserved`, `committed`, `used` | create, destroy, allocate, reallocate, free | blocks keep apart, aligned and intact across moves; a failed call changes nothing |
| tracer (`trace.c`, `trace.h`) | fixed pools of key/datum pairs, a mutex | attach, detach, find | one datum per live object; a find sees what was attached, also when its datum is used after the unlock |
| logger (`log.c`) | pool of 8 loggers, a mutex | register, deregister, deregister all, log | calls are atomic; a stale handle is harmless; the mutex is always given back |
| dynamic array (`array.c`, `array.h`) | buffer, capacity, length | create, resize, push, pop, extend | a stack whose failed operations change nothing; sizes do not wrap |
| tokenizer (`token.c`) | position, line, column, up to 32 errors | create, advance | the tokens and blanks tile the source; every literal of the grammar is one token |
| platform (`platform*.c`) | lazily created mutexes, the Windows print mutex | lock, unlock, print, format, truncate | one mutex per variable; every way out unlocks |
| file system and command line (`fs*.c`, `main.c`) | a file handle, a buffer | open, size, read, close | what is opened is closed; a short read ends |
| integers (`math.c`, `macros.h`) | none | power-of-two rounding, wrapping tests | agree with arithmetic at their width |

Interactions: the allocator calls virtual memory and, when traced, the tracer;
the array calls the allocator through `struct w_alloc`; the command line calls
files and the allocator; everything logs. The logger and the tracer are the
parts entered by several threads, each under its own mutex; the allocator and
the tokenizer are used by one thread at a time and are hard for another reason:
every system call may fail in the middle of an operation, and correctness
depends on long histories of calls.

## Modules

| Module | Models | Role |
|---|---|---|
| `Vmem` | `vmem*.c`, and the memory contents | address space under the allocator |
| `LinearAlloc` | `mem.c` | extends `Vmem` with the allocator and a client |
| `Arena` | what `struct w_alloc` promises (`mem.h`) | abstract specification of `LinearAlloc` |
| `LinearAllocProofs` | | theorems on `LinearAlloc` |
| `TracePool` | the pools of `trace.c` | shared by the next two |
| `TracedAlloc` | what tracing adds to `mem.c` and `vmem_unix.c` | composes `LinearAlloc` with two pools |
| `Tracer` | `trace.c`, the macros of `trace.h` | threads, a pool and a mutex of `WinMutex` |
| `TraceTable` | what a tracer promises | abstract specification of `Tracer` |
| `TracerProofs` | | theorems on `Tracer` |
| `WinMutex` | the mutexes of `platform_windows.c` | shared by `Tracer` and `WinConsole` |
| `WinMutexProofs` | | its invariant, for both |
| `Text` | the functions that cut a text (`platform.c`, `platform_windows.c`) | pure operators |
| `TextCuts` | their calls, on texts put together from units | what the cuts keep whole |
| `WinConsole` | `w_print()` of `platform_windows.c` | composes `WinMutex` and `Text` |
| `Terminal` | what `w_print()` promises | abstract specification of `WinConsole` |
| `WinConsoleProofs` | | theorems on `WinConsole` and `TextCuts` |
| `Logger` | `log.c` | threads, mutex and pool |
| `LogRegistry` | what the four functions promise | abstract specification of `Logger` |
| `LoggerProofs` | | theorems on `Logger` |
| `Literals` | the lexemes the cases of `token.c` are meant to accept | reference grammar for `Tokenizer` |
| `Tokenizer` | `token.c` | the tokenizer with a client |
| `TokenizerProofs` | | theorems on `Tokenizer` |
| `SizeArith` | `size_t`, parts of `macros.h` and `math.c` | sizes that wrap, tests for it, powers of two |
| `Array` | `array.c`, `array.h` | the array with a client |
| `Stack` | what an array promises (`array.h`) | abstract specification of `Array` |
| `ArrayProofs` | | theorems on `Array` |
| `FileRun` | `main.c`, `fs_unix.c`, `fs_windows.c` | the program, and another one that changes its file |
| `FileRunProofs` | | theorems on `FileRun` |

`MCLinearAlloc`, `MCTracedAlloc`, `MCTracer`, `MCText`, `MCWinConsole`,
`MCLogger`, `MCTokenizer`, `MCArray` and `MCFileRun` are the instances for TLC.

### Vmem and LinearAlloc

Addresses are small integers below `AddressEnd`, standing for bytes. `mapped`
is what the system reserved for the process, `rw` the committed part, `cell`
what each byte holds (`Blank` when the program cannot know). Reserving returns
any free range of whole allocation granules, or fails; committing may fail;
releasing may fail when `ReleaseMayFail`, which the code only logs. One
granularity rounds reservations, the other commits, as on Windows; on Unix they
are equal.

An operation of the allocator that needs memory is a sequence of steps, one per
system call, because each has its own failure path: `Reserve`, `CommitBuffer`,
`MoveContents`, `ReleaseOld` and `UndoReserve` are the body of
`wp_mem_realloc()`, `CommitMore` the other branch of
`wp_mem_linear_alloc_ensure_has_enough_space()`. `call` keeps the C locals
(the total size, the padding computed before the memory may move, whether the
block is the last); `buf` is the local `mem_buf`. The client's side, `blk`,
remembers for each pointer variable the pointer it was given, and the pattern
it wrote. After a move a client recomputes its pointers from the base address
(`ClientRefresh`), as the repository's tests do; until then it does not use them.

The modelled build has tracing off. `Asserts` says whether `W_ASSERT` is
compiled in: a failing one leads to `pc = "abort"`. A copy outside of the
committed memory leads to `pc = "fault"`. Integers are unbounded, except in the
sum of `mem.c:385-387` (`SumFits`, modulo `WordSize`), the only one of those the
code asserts about that wraps in a process.

### Logger

`pool` is `wp_log_logger_pool` with the level, id and validity of each slot (the
stream and the format only say where and how a logger prints). A handle is the
pair of slot and id that `WP_LOG_SET_HANDLE` packs in 32 bits. Each thread has a
program counter, its call in progress (`request`) and its C locals. Everything
is done under the mutex `mtx`, and yet a thread holding it stops between finding
a slot or a logger and changing it, and between two prints: what keeps threads
apart is the mutex alone and not the grain of the actions. A print may fail, and
with `MayFail` so may locking and unlocking; a mutex that could not be unlocked
stays locked. `issued` is a history variable: the handles written to clients'
variables, which is also where the arguments of deregistration come from,
together with a zeroed handle. A thread may get the handle another thread just
registered before that call returned.

`LogRegistry` has no pool and no mutex: calls that take effect one at a time. It
leaves one thing open (`Goals`): where loggers are registered and none accepts the
level of a message, `log.c:276` says that the default logger is a fallback "if
none was explicitly registered", and the code uses it all the same. So
`ImplementsRegistry` does not say who prints such a message; for all others, it
does. What the code does is stated apart, by `MessageReachesGoalAlways`.

### Literals and Tokenizer

`Literals` says which stretches of a source are lexemes, declaratively: sets of
characters, a form per id (`IsLiteral`), and the rule that a literal ends where
a character of `FollowUp` begins (`IsLexeme`). It knows nothing of scanning and
is what the scanners are compared with.

`Tokenizer` is the code. Each `wp_token_scan_*` function is an operator of the
same name on the offset of the next character; it returns where it stops, the
id found, the message if it fails, and whether one of its assertions did. The
scanners touch nothing but the iterator, the column and the errors, nothing else
runs meanwhile, and so a call is one step per blank skipped and one for the
token (`SkipSpace`, `SkipNewline`, `ScanFound`, `ScanFails`, `ScanAborts`,
`TooLarge`). Every conversion to the bit fields of `struct w_token` is modelled
(`Return`). A message is a kind and a subject, without its wording. Formatting a
message may fail when `FormatMayFail`; `Asserts` says whether `W_ASSERT` is
compiled in.

The client (`Call`) asks for tokens until the end, a failing status, or
`MaxErrors` errors. `w_tokenizer_advance()` guards against none of the three: a
call after the end would read beyond the source, and a 33rd error would be
written beyond `tokenizer.errors`. That is the client's part of the bargain, and
the module takes it for granted; `ErrorsMatchTokens` shows that a client can
keep it, since every error comes with an invalid token.

### SizeArith, Array and Stack

`SizeArith` has the sizes of a machine: 0 to `SizeMax`, one less than a power of
two, with the `Powers` of two among them, and the macros and functions on them
that the array uses. Shifting a size by its width or more is undefined in C; the
one place the array can reach it, `w_size_round_up_pow2(0)`, returns 0 or 1.

In `Array` a call is one step, as nothing else runs meanwhile; the one point
where it may stop halfway is the allocator, which is that of `struct w_alloc`:
it fails, or it returns a block that starts with the contents of the old one.
`Reallocate` is `wp_array_realloc()`: its assertions fail (`Abort`), or the
allocator does and the array is left alone (`Fail`), or it gets the new block and
its caller goes on. `block` is how many bytes the allocator believes the block
has, `buf` the elements in it. `call` and `status` remember the last call and
how it ended; `call` is no state of the code, it is there so that a push can
only pass for a push in `Stack`. The client uses an array that it created, and
pops from one that is not empty: the code does no more than assert both.

`Stack` knows of no capacity, no block and no size: a sequence of items, calls
that change its end, and calls that fail and do nothing.

### TracePool and TracedAlloc

A pool is a function from indices to entries, each valid or not; the functions
of `trace.c` all take the first entry that fits.

`TracedAlloc` is `LinearAlloc` in a debug build (its run sets `Asserts`): each of
its actions is one of `LinearAlloc` with what tracing does around it. `regions`
is `wp_vmem_tracer`, whose keys are addresses of `struct w_vmem`: that of
`alloc->mem`, or that of the local `mem_buf` of `wp_mem_realloc()`, which may be
another in every call. `ptrs` is the pool of the allocator, keyed by the
addresses of blocks. An assertion on what was traced leads to `pc = "abort"`, the
use of a datum that was not found to `pc = "fault"`. `moved` and `resized` are
history variables: they tell apart what the tracing follows from what it loses.
The three calls that a debug build never survives have actions of their own:
`FreeNull`, `TracedReallocateToZero`, and destroying after a move.

### WinMutex, Tracer and TraceTable

`WinMutex` is `w_mtx_lock()` and `w_mtx_unlock()` of Windows: one step per access
to `*mtx` or call to the system. `mtx` is shared; `live` says which mutexes of the
system exist, `owner` and `count` who took them how often, for they can be taken
again by the thread that has them. The calls in `MayFail` may fail. Waiting for a
mutex abandoned by a thread that ended succeeds.

`Tracer` has threads that attach, find and detach, each a call with its program
counter, under such a mutex. A thread stops between finding an entry and writing
it, and between the unlock of `W_TRACER_FIND_DATA` and its use of the address it
got. The objects are allocators and regions, so that no two threads work on the
same one at once; this is the discipline under which the code is safe, and what
`EntriesApart` rests on. `asserts` is a variable because tracing exists in both
builds.

`TraceTable` has no pool, no mutex and no entries: a partial function from
objects to data with room for `Capacity` of them.

### Text, WinConsole and Terminal

`Text` knows the classes of bytes that `wp_platform_truncate()` and
`wp_platform_break_str()` tell apart. The latter is a state machine on bytes, a
recursive function here; it does not look for the null byte inside of an escape
sequence, which `At` accounts for by giving it more text to read. `TextCuts` makes
every text of a few units (what a reader sees as one: a character, or a whole
escape sequence), cuts it once and keeps the result.

In `WinConsole` a print is a step per call to the system, for messages whose
escape sequences are `Complete`, as those of `log.c` are: setting the mode of the
console, and each `WriteConsoleW()` or `WriteFile()`, which may accept a part of
what it is given. A wide character stands for the place in the message of the
bytes it was converted from, which is what tells a lost character from a
repeated one. `kept` has the threads that returned with the mutex: those whose
print found no console, and those that could not unlock. `spoilt` says that a
file accepted a part of a write; the code then goes on at the wrong place
(`Place`), and of the rest of that message `Terminal` promises how many characters
there are, but not which.

### FileRun

The command line in one thread, with every call of `w_run()` failing, on both
systems, next to another program that changes the file: at any time on Unix,
and only while it is not open on Windows. `GetFileSize()` gives the low word of
the size, or all ones when it fails. The allocator is reduced to what
`LinearAlloc` and `TracedAlloc` say of it: the first allocation larger than the
reservation moves it, and a traced one that moved faults when it is destroyed.

## Runs

| Run | Question | Bounds |
|---|---|---|
| `linear_alloc` | With clients that grow, shrink, free and refresh, and every reservation and commit free to fail: do the sizes nest, are requests valid, regions owned, blocks disjoint, aligned and intact, is it an arena? | 2 blocks, sizes 0, 1, 5, alignments 1 and 4, granularities 2 and 4, a first size of 3, 24 bytes of addresses: room for moves, and one reservation too many; a copy that faults ends a run, so deadlock is not checked. Releases succeed: the regions that failing ones leave behind would fill the addresses |
| `linear_shrink_copy` | Does a copy stay in the committed memory? (violated) | 2 blocks, 18 bytes |
| `traced_alloc` | In a debug build, does what is traced follow what there is? | 3 blocks and 2 entries for them, granularity 1, 7 bytes, sizes 0, 1, 2, 2 stack addresses; every call to the system may fail, releases included, and the program may stop |
| `traced_move` | Is the region of an allocator always traced? (violated) | the same without failing releases |
| `tracer` | Is every interleaving one of a table with atomic operations? | 2 threads, 3 objects, 2 entries, 2 data, 2 handles, all four calls on a mutex may fail, both builds |
| `logger` | Is every interleaving one of atomic calls on a registry, are handles never reused, and is the mutex always given back? | 2 threads, 2 slots, 2 ids per slot (so that slots retire), 2 levels, failing prints and mutexes |
| `win_console` | Do messages come out whole and apart, and who waits forever? | 2 threads, 3 prints, a buffer of 4 (chunks of 3, so that a message has two and the cut must move), a console or a file; creating and releasing a mutex may fail |
| `text` | Is nothing split that belongs together, and is no room wasted? | up to 3 units (characters of 1, 2 and 3 bytes, escape sequences with and without parameters and intermediates), with any incomplete sequence after them; up to 6 characters to format; up to 12 bytes of room |
| `token_sources` | Do tokens and blanks tile the source, are tokens what they claim to be, is none missed, are lines, columns and errors exact, do messages fit what stopped the scan, is the end reached? | 9 beginnings and up to 3 of 11 characters, largest position 5, at most 7 errors |
| `token_nine` | Is what a message calls no hexadecimal character none? (violated) | the same sources |
| `array_stack` | Is the array a stack whose failed calls change nothing, does its block have room for its capacity, and do pushes respect the assertions? | sizes of 4 bits, elements of 2 bytes, so that capacities are 1, 2 and 4 and a block for 8 does not exist; lengths around those; an assertion ends a run, so deadlock is not checked |
| `file_run` | What does a success mean, what is left behind, does the program end? | files of up to 4 bytes, a DWORD of 4 values (so that a file may have more), a first reservation of 2 bytes, 2 changes of the file; both systems and both builds |

The bounds are the smallest at which the interesting cases all occur: a second
move, a block before the last one, a reservation rounded up past its commit, an
alignment that needs padding; a pool that is full, an entry reused by another
thread while one is in use, a mutex created twice; a retired slot, a handle whose
slot was reused, a scan interrupted by a failing print; a capacity that fits
until it is rounded, one that fits until it is multiplied; a file that grows,
shrinks or appears between two questions about it. The proofs take over from
there for all values where there are some. Two threads are enough to have one
in a critical section and one anywhere else; the theorems say that it does not
depend on the number.

For the tokenizer the alphabet holds a character of each class that a `switch` of
`token.c` tells apart (`0` and `8` for the digits that are and are not octal, `9`
for the one that the code treats apart, `Z` for what no literal contains), and
the beginnings bring every scanner within three characters of each of its exits.
As an error consumes a character unless the scan is stuck for good, a client that
stops after 7 of them stops for no other reason in sources of 6. `LenLimit` keeps
its value of 4096, which no source of the runs reaches.

**Fairness.** Four runs assume any.

* `logger`: weak fairness of each thread's steps inside a call. The system
  schedules threads that can run, prints return and `log.c` waits for nothing
  else while it holds the mutex. On Windows a print to the standard error or
  another stream waits for the mutex of `w_print()` in turn, so that there it
  returns unless a thread kept that one: what `WaitEnds` of `win_console` says is
  a premise of `HolderReleases`. Calls are never forced to be made, and no
  fairness among the threads waiting for the mutex is assumed: a particular
  thread may starve, as POSIX allows.
* `win_console`: weak fairness of each thread's steps inside a print, for the
  same reasons. Threads are not forced to print, or to end. With few prints to
  make, a thread that waits for the mutex is overtaken only so often, so
  `WaitEnds` says that nobody keeps the mutex, and not that waiting is fair.
* `token_sources`: weak fairness of `Next`, the loop of one thread and a client
  that calls again until it stops.
* `file_run`: weak fairness of the program's steps without `TransferFails`: a
  read that could fail may succeed every time, so nothing rests on it failing.

The allocator, the tracer and the array have no loop that could run forever, and
their runs are about safety only.

## What the violated runs show

* `linear_shrink_copy`: a block that is not the last is moved to the end with
  its old size (`mem.c:415`) into space ensured for the new one: the copy passes
  the used part and, at a page boundary, the committed memory. `linear_alloc`
  shows that as long as it does not fault nothing of the clients is lost: what
  is overwritten lies past the used part.
* `traced_move`: `wp_mem_realloc()` creates the new region through a local
  variable (`mem.c:83`), whose address becomes its key in the tracer, and copies
  the struct. After a first move nothing is traced under `&alloc->mem`, and the
  assertion of the next commit or destruction reads through the null pointer
  that the tracer returns (`vmem_unix.c:133`).
* `token_nine`: the list of first digits of a hexadecimal literal lacks the 9
  (`token.c:42`), unlike that of the others: `0x9` is refused, `0x19` is not.

Other disagreements met while modelling are part of the modules and of what
their properties leave out, without a run of their own:

* The padding of a new block is computed from the base address before the call
  may move the memory (`mem.c:264-272`). The new base is only aligned to the
  allocation granularity, so a larger alignment is lost: `PointersAligned` is
  about the others.
* When the last block shrinks, `new_size - old_size` wraps and the assertion of
  `mem.c:385-387` fails in a debug build, although the sum computed next is right.
* In a debug build, freeing a block of size zero stops at an assertion, for
  its address is null and never a key; so does a reallocation to size zero, which
  frees with `ptr` in place of `*ptr` (`mem.c:374`); and a block resized where it
  was keeps its former size in the tracer (`mem.c:419`), which the next
  reallocation compares with the new one.
* The fallback to the standard error is used whenever no logger accepts the
  level, also when loggers are registered, unlike what the comment at
  `log.c:276` says. The run `logger` reaches such messages, `LogRegistry` leaves
  open who prints them, and `MessageReachesGoalAlways` proves that the default
  logger does.
* After a leading 0 any other character is consumed (`token.c:785`) before a
  scanner that asserts it was a digit or a point. On `0Z` a debug build aborts; a
  release build returns a decimal integer, which is why `TokensAreLexemes` is
  about builds with assertions.
* `w_print()` returns with the mutex when the mode of the console cannot be set
  (`platform_windows.c:393-401`), as when the standard error is not a console.
  Other threads wait until that one ends; `WaitEnds` and `SomePrintReturns` say
  how far this goes: the thread itself can print again, for it owns the mutex.
* A write to a file counts bytes and goes on at that count in characters.
* On Windows a file that turns out shorter than it was said to be is read
  forever (`fs_windows.c:78-98`), as is one whose size could not be asked for.
* A failure in `w_run()` after the file was opened leaves it open, and an empty
  file makes `buf` null, so that the second read asks for the size again
  (`main.c:30-52`); in a debug build freeing `buf` then stops the program.

## Theorems

TLAPS checks every statement below for all values of the constants that satisfy
the modules' assumptions: granularities that are positive with one dividing the
other, positive sizes where the code asserts it, at least one slot and one id,
any number of threads, objects, entries and handles.

**Allocator** (`LinearAllocProofs`). The arithmetic of rounding comes first, as
lemmas on divisions. The invariants are proved in layers, each inductive
relative to the ones before.

1. `SizesInv`: types of the fields, `SizesNested`, `VmemRequestsValid` and
   `CallConsistent`. `SizesNested` alone is not inductive: that a returning call
   has enough committed space needs what its locals were computed from, which
   `CallConsistent` carries through the steps of a move.
2. `PlacementInv`: `BlocksDisjoint`, `BlocksWithinUsed`, and alignments of
   offsets. A block placed by a returning call starts past the used part, which
   is the end of all the others.
3. `RegionsInv`: what is mapped and committed belongs to the reservation and,
   during a move, to the new one; from it `OwnsItsRegions` and
   `MoveTouchesCommitted`.
4. `CellsInv`: types of the memory contents, hence `TypeCorrect`.
5. `DataInv`: the bytes of every block are there, and between the copy and the
   release of the old reservation also at their places in the new one. A client
   writes inside of its own block, which is apart from the others. It gives
   `DataIntactAlways`.
6. `CallSized`, and from all of these `StepRefines`: what a client can see of its
   blocks in memory is what was written (`SeesKnown`), so that each step is one
   operation of `Arena` or changes nothing it knows of. `Implements` follows.

`GrowingNeverFaults` shows that the fault of `linear_shrink_copy` needs a
shrinking client: when `MayShrink` is false no copy leaves the committed memory.

**Debug builds of the allocator** (`LinearAllocProofs` as well). Every step of
`TracedAlloc` is one of `LinearAlloc` or stops the program (`TracedStep`), so the
invariants above hold of it too. `RegionsTraced` says that up to the first move
the entries of `regions` are those of the reservations, with their sizes, also
halfway through a move. `PtrsTraced` says that there is a one-to-one assignment
of the blocks held to the valid entries of `ptrs`, whose keys differ. After a move
the key of a block is still its former address, so which entry is its own cannot
be read off the pool: that some such assignment exists is what is inductive. The
key of an entry is the present address of its block or lies outside of the
region, hence an entry found under the address of a block is its own
(`OwnEntry`), and `TraceFollowsClientsAlways` follows. `Kept`, that the program is
stopped or all the invariants of the allocator hold, is inductive and gives
`TracedBlocksKept`. `TracedImplements` maps the step that stops the program to
the end of the arena, and any other as `StepRefines` does.
`MovesOnceAlways` explains `traced_move`: after a first move the allocator keeps its
region. Destroying it and moving it again both stop at the assertion of
`vmem_unix.c:132-133`, since nothing is found under its address (`FoundRegion`).

**Logger** (`LoggerProofs`). One inductive invariant `IInv`: types, labels that
fit the call (`Labels`), the mutex held in critical steps (`Exclusive`), handles
given are those up to the id of each slot (`Handed`), and the two properties on
what a thread may rely on (`MessageSeesOnePool`, `FoundStillHolds`). Mutual
exclusion is what makes the last two inductive: while one thread changes the
pool no other is in the middle of using it. From `IInv` follow `TypeCorrect`,
`MutualExclusion`, `StaleHandlesStayStale` and, with a lemma per action,
`LoggerImplementsRegistry`: the step that sets a call's status is the atomic
call of the registry, the steps before it are stutters. `MessageReachesGoalAlways`
is about the case that the registry leaves open: a step that brings a message to
success ends its scan (`SuccessfulStep`), when `MessageSeesOnePool` says which
loggers have printed it.

**Tokenizer** (`TokenizerProofs`), for every set of sources and characters.
Running over digits ends at the first other character (`AfterRun`): there is one
since a source ends with a null character, and a first one since the naturals
are well ordered (`LeastNatural`). Then one lemma per scanner: under what its
callers know of the characters consumed before, it stops inside of the source,
what it found has the form of its id, and an error fits the character at which
it stopped (`Fits`). `ScanTokenSound` combines them along
the cases of `w_tokenizer_advance()`. With it `TypeCorrect` follows from
`TypeInv`, which adds to the types that the null character is the last of the
source, and that a client which may call has not passed it: the reason why no
call reads beyond. `TokensAreLexemesAlways` assumes that assertions are compiled
in, without which `0Z` refutes it, and that sources are shorter than `LenLimit`,
without which the end of a token cannot be told from its fields. `TileInv`
strengthens `TokensTileSource` with the end of the last token, for every label;
`LineAndColumnAlways` counts the newlines scanned in a finite set, and
`ErrorsMatchTokensAlways` the errors along the tokens (`InvalidUpTo`).
`LexemesAreFoundAlways` is the converse of `TokensAreLexemesAlways`, and rests on
the grammar rather than on the code: no stretch of the source is two lexemes, and
no two of different lengths begin at the same place (`LexemesAreUnique`). So a
scanner that returns a lexeme returned the one there is; and one that fails did
so where there is none, but for the digit 9 (`Whole`).

**Array** (`ArrayProofs`), for builds with assertions, without which sizes wrap.
The invariant is `TypeOK`, `BlockHoldsCapacity` and that only a created array
has a capacity. `Growth` shows that what passes the assertions of
`wp_array_grow_capacity()` is a power of two that holds the length asked for and
whose block fits a size. `PushNeverAbortsAlways` explains the odd test of
`array.c:183`, which adds the present length to the new one although the new one
includes it already: an array is full when a push grows it, so the test is on
twice its capacity, and a capacity that is a power of two with a double that
passes the test is one whose rounding and multiplication pass the assertions
(`Doubles`). `ArrayImplementsStack` rests on one lemma for the three operations
that resize (`ResizeOutcome`): an abort, a failure, or a buffer with the new
values and everywhere else the old ones. The same does not hold of
`wp_array_create()` and of extensions: a length that fits the maximum of
`array.c:12` may fail the assertion of `array.c:36` once it is rounded up, and
the run reaches such aborts.

**Windows mutex** (`WinMutexProofs`). `MtxInv` says that what `*mtx` holds is open
(`KeptIsOpen`), that a thread about to close its own mutex knows that another one
is in use (`ClosersKnow`), that the handles of the threads differ from each other
and from `*mtx` (`OwnHandles`), that no other is open unless closing failed
(`NoneForgotten`), that what is owned was counted (`OwnedIsCounted`), and that
locking fails for a reason. `OwnHandles` is what makes it inductive: closing
a mutex would hurt whoever else had it. Each step of `w_mtx_lock()`, of
`w_mtx_unlock()` and of a caller elsewhere keeps it, as lemmas that the two
modules below cite.

**Tracer** (`TracerProofs`). The invariant adds to `MtxInv` that a thread in the
pool owns the mutex (`LockedOwns`), that a valid entry is the only one of an
object that is traced (`PoolInv`), and per thread that its label fits its call,
its object is traced or not as the operation wants it, and its entry still is
what it was when it was found (`CallInv`, `ObjectInv`, `EntryInv`).
`EntriesStayApart` follows. For `TracerImplementsTable` the steps that change the
table are `FillEntry`, `wp_trace_pool_remove_data`, `UseDatum` and those that stop.
Two facts about pools carry it: a pool without a vacant entry has none that is
invalid, since the natural numbers are well founded and `Vacant` takes the first;
and then there is a bijection from the objects recorded to the entries, so that
the table is full.

**Console** (`WinConsoleProofs`). That a printing thread owns the mutex is
inductive together with `MtxInv`; from it `OneMutexKeptAlways` and
`OneThreadPrintsAlways`, also when prints return with the mutex and threads end
with it. `OwnersKnownAlways` is what remains of `WaitEnds` without fairness: the
mutex is with the thread that prints, with one in `kept`, or with nobody. It needs
how often a mutex is held (`OwnersInv`): once by a print, and once more when its
thread had returned with it before, since a mutex of Windows is only free after
as many unlocks as locks.

`PlacesInv` adds to the types what the locals of `w_print()` mean at each label:
what was converted lies inside of the message, what was written inside of the
chunk. It needs that a chunk never ends behind the message, which is not obvious
of `wp_platform_break_str()`: inside of an escape sequence it does not look for
the null byte. `ScanStaysInside` follows the scan byte after byte and shows that
the end of the sequence it is in still lies ahead; for this the messages are
`Complete`, without which `text` shows chunks that end too far. `TypeOKAlways`
follows.

`DeviceInv` says that what a thread showed of its message is the last on the
device as long as it is in its loop: other threads write only in theirs. With it
`ImplementsTerminalAlways` has a case per action. A write shows the next
characters of the message, for those of a message cut in two are those of its
first part and of its second (`WideJoins`), and they are where `Place` says unless
a file accepted a part of a write. The print succeeds at the null character, where
all of them were shown.

What this means on the device is proved from the steps of `Terminal`: the
characters of a print are one stretch of it, the last one as long as the thread
prints (`PrintsInv`). `NotInterleavedAlways` is the promise of the comment at
`platform_windows.c:418`; `SuccessShowsMessageAlways` says what a success is worth.

The last part is about `TextCuts`, for any number of units. `FlattenIs` finds
`FlattenSeq`, which the community modules define by recursion, equal to an
iteration, so that one more unit adds its bytes (`PrefixStep`) and induction over
the units becomes possible. `ChunkIsWholeUnitsAlways` follows the scan from unit
to unit (`UnitScanned`): at each boundary it is outside of any sequence and the cut
is there, and before the next one it stays there (`Broken`). For
`FormattedAtWordAlways` the space at which the text is cut is a unit of its own,
as no other contains one (`SpacesAreUnits`, `WordStartIs`).

Both recursive functions, `Scan` and `Wide`, are iterations of a step. That such
a function exists (`Iterated`) is proved from the well-foundedness of the natural
numbers for sets (`AllNaturals`), as is what they compute: the induction theorems
of the library need an operator, a set does as well.

**Command line** (`FileRunProofs`), for files of every length and every width of
a DWORD. The invariant follows the labels of `w_run()`: an error leads to the
cleanup (`FailureCleansUp`); as long as nobody changed the file, the size is an
answer of the first query, and a second one is asked only after a zero
(`SizeInv`); the buffer is a prefix of the file no longer than the size
(`BufInv`); and who still holds the file and the memory (`HeldInv`). With them
`SuccessMeansRead`: a size of all ones, which may mean that `GetFileSize()` failed,
is read to the end only if it is the true one, or if there are bytes that a DWORD
does not count.

Only model-checked: `HolderReleases`, `WaitEnds`, `SomePrintReturns`, `ReachesEnd` and
`RunEnds`, since liveness under fairness and `ENABLED` are out of the prover's
reach; every other property of a passing run is stated by a theorem. Of `WaitEnds`
and `HolderReleases` the safety part is proved (`OwnersKnownAlways`, `Exclusive`).

## Not modelled

* `w_vmem_uncommit()` and `W_UINT_IS_SUB_WRAPPING`, which nothing under `src/` calls.
* The rest of the platform layer: single calls to the system or the C library
  (`w_print()` of Unix, `w_format_system_error()`, memory sizes, debugger and
  compiler helpers). Surrogate pairs in the console's messages.
* Assertions as a component: `w_assert` formats a message and aborts; what each
  assertion guards is modelled where it stands.
* The wording and the styles of messages, the labels of tokens, build files, tests.
* Sums of sizes that wrap in the allocator. The code asserts about several
  (`mem.c:51`, `265`, `269`, `395`, `398-400`, `vmem.c:36` and `50`), and they
  would need sizes near that of the address space. The one of `mem.c:385-387`
  wraps for small sizes too and is modelled (`SumFits`).
* Literals of `LenLimit` characters and more: their lengths wrap (`token.c:875`), in
  the module as in the code, and nothing says what they should be.
* A dynamic array over a linear allocator that another client makes move
  (`array.h:13`): `Array` has the only block of its allocator, and every client of
  a linear allocator is told to recompute its pointers, which an array cannot be.
