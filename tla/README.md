# A verification of cobol-pc86

cobol-pc86 is an operating system kernel for the PC: COBOL programs (`*.cbl`,
compiled by GnuCOBOL) on a freestanding C library (`libc/`), booted by GRUB.
One processor runs it, no interrupt is ever enabled and there is one thread: every device is polled.
What makes the code hard is therefore not concurrency of its own, but

* state that is only right after a long sequence of calls (the heap's lists, `is_press`, `free_size`),
* addresses that are recomputed by walking a list instead of being stored,
* a keyboard and devices that act on their own between two reads of a port, and
* limits: a table or a line that is full, a size that wraps, a column that becomes negative, a text longer than its buffer, and
* functions with the names of the C library and of devices that do something else than those names say.

Paths below are relative to `src/`.  `PROJECT.json` lists the components, the
runs, the lines each definition models, the hazards and the theorems.

## 1. Inventory

| Component | State | Operations | Hard part | What makes it correct | Here |
|---|---|---|---|---|---|
| Heap (`libc/alloc.c`) | `master.regions[]`, a table of descriptors per region, `free_size` | `mem_new_region`, `mem_alloc`, `mem_free`, `mem_realloc`, `mem_fix_block`, `mem_total_free` | a block's address is the sum of the sizes before it; merging during a walk; `free_size` drifts | memory handed out is in RAM and disjoint, `free` releases its own block, no byte is lost, calls return | MemMaster, MemSafety, MemSafetyProofs, Malloc, MemRealloc, MemReallocProofs |
| `malloc`, `free`, `realloc` (`libc/lib.c` 1066-1093), boot (`main.c` 12-28) | none | wrappers; one bank of 8 MB | `malloc` never returns NULL: it halts | as above | MemMaster, MemRealloc |
| Text console (`libc/lib.c` 104-268, 465-501) | `_row`, `_col`, `_color`, `_buffer` | `addch`, `move`, `clear`, `clrtoeol`, `clrtobot`, `scrl`, `attrset`, `initscr` | wrap, scroll and tab in one call; negative columns | text is shown as put, nothing is written past the buffer | Console, ConsoleProofs |
| Keyboard (`libc/lib.c` 281-482) | `is_press`, `_kb_shift`, `_last_saved_ch` | `getch`, `ungetch`, `flushinp` | the data port shows a code until the next; repeats; prefixes; an index out of the array | each key once, in order, in the right case; `getch` returns | Keyboard, KeyboardProofs |
| `printf` and its family (`libc/printf.c`) | `idx`, `flags`, `width`, `precision` | `_vsnprintf` behind `printf`, `sprintf`, `snprintf`, `vsprintf`, `fctprintf` | a limit that is passed; padding, precision, sign and prefix that meet in one buffer; narrowing | nothing behind the limit is written, a NUL ends the text, a number reads back | Printf, PrintfProofs |
| Memory, strings, numbers (`libc/lib.c` 13-100, 550-761, 789-1017) | `_tok_g` | `memcpy`, `memmove`, `strcmp`, `strcat`, `itoa`, ... | overlap, ends of strings, signs, chars at the end of a range | each does what is defined of it, and touches nothing else | LibC, LibCProofs (without `qsort`, `strtok`) |
| Port I/O (`main.c` 35-93), `KRNLHWIO` (`krnlhwio.cbl`) | `IO-*`, `WS-IO-*` | `IO_IN`, `IO_OUT` by size and mode | `IO_IN` falls through to wider accesses; `KRNLHWIO` has no `USING` | what a caller reads, it knows the origin of | Kernel, KernelProofs |
| ATAPI driver (`kernel.cbl` 224-355) | `WS-TIMEOUT`, `ATAPI-STATUS` | select, wait, send packet | waits give up silently; a late drive | the start-up goes on whatever the drive does | Kernel, KernelProofs |
| PS/2 driver (`krnlps2c.cbl`) | `PS2-CONFIG`, `PS2-NUM-DEVICES` | `PS2-INIT`, `PS2-INIT-KEYBOARD` | waits that do not wait; its own commands taken for answers | what it concludes | Kernel, KernelProofs |
| Serial port (`kernel.cbl` 361-413) | none | `UART-INIT`, `UART-TEST` | shares its first port with the console | left set up for use | Kernel, KernelProofs |
| Menu, slides, shell (`kernel.cbl` 152-209, `krnlpres.cbl`, `krnlshel.cbl`) | `WS-REPLY`, the PERFORM stack | slide by slide | slides PERFORM each other without returning | the menu comes up, and comes back | Kernel, KernelProofs |
| Bitwise arithmetic (`kernel.cbl` 600-631) | scratch | `BITWISE-AND` | decimal fields | the operation of its name | Kernel, KernelProofs |
| SB16, floppy, PCI, `BITWISE-OR`, `HTOPRINT` | scratch | port accesses | nothing performs or calls them | - | not modelled |
| `krnlstub.cbl`, `krnlcurs.cbl`, `krnlltdl.cbl`, `krnlgetx.cbl` | - | entry points for libcob that return a code | none | - | not modelled |
| `krnluart.cbl` | - | not part of the build | - | - | not modelled |
| `crt0.S`, `linker.ld`, `multiboot2.h`, scripts | - | start-up, build | none at run time | - | not modelled |

How they interact: `main` registers the bank, sets up the screen, and calls the
COBOL runtime, which calls `malloc`/`free`/`realloc`, and the `ncurses` subset of the console and of the
keyboard for `DISPLAY` and `ACCEPT`.  The kernel program calls the drivers, which
reach the ports through `KRNLHWIO` and `IO_IN`/`IO_OUT`.  Heap, console and keyboard share no
state, which is why they are separate modules without a composition.  The console and the serial
port do share something: `addch` writes every char to port `0x3F8`, so what the kernel
program displays between two accesses reaches the port it is setting up.  Kernel has that write
in every operation that displays.  `printf` calls nothing but `putchar`, and the functions of LibC
call each other only where the model says so.

## 2. Modules

    Malloc ............. contract of malloc and free          (abstract)
    MemMaster .......... the heap, one loop iteration a step
      MemSafety ........ its properties and inductive invariant, INSTANCE Malloc
        MemSafetyProofs  the proofs about it
        MemRealloc ..... mem_realloc on top of it
          MemReallocProofs  the proofs about it, with those of MemSafetyProofs
    Keyboard ........... getch and the keyboard controller
      KeyboardProofs ... the proofs about it
    Console ............ the screen
      ConsoleProofs .... the proofs about it
    Printf ............. the formatter
      PrintfProofs ..... the proofs about it
    Kernel ............. the kernel program and the devices it starts
      KernelProofs ..... the proofs about it
    LibC ............... memory, strings and numbers
      LibCProofs ....... the proofs about it
    Numerals ........... powers and digit counts, for the properties of LibC and Printf
      Induction ........ induction and recursion over numbers, and what Numerals defines,
                         for MemSafetyProofs, ConsoleProofs, PrintfProofs, LibCProofs and KernelProofs
    MC*.tla, MC*.cfg ... instances for TLC

### MemMaster

`regions` and `blocks` are the slots of `master` and the descriptor tables behind
them; descriptor `<<r, n>>` is `regions[r].blocks[n]`, and `absent` is the code's
value for an unused one.  `pc`, `i`, `block`, `prev`, `bptr` and `arg` are the
locals of the call in progress.  `held` is what the clients own, and the history
variable `at` records the address each block really has, which no descriptor stores.

| Action | Code |
|---|---|
| `Init`, `NewRegion` | `mem_init_master`, `mem_new_region` |
| `Malloc`, `AllocRegion`, `AllocBlock`, `MallocReturn` | call of `malloc`, outer loop, list loop and return |
| `Free`, `FreeRegion`, `FreeBlock` | the same for `free` |

`Fixed` (`mem_fix_block`), `NewBlocks` (`mem_new_block`), `Carved` (splitting) and
`Released` are the pieces, in the order the code runs them.  Arithmetic is modulo `Word`.

The table of descriptors lies at the start of its bank, and the addresses that are
handed out start there too (finding `mem_table`).  A client that owns such bytes may
overwrite descriptors with anything, so no call starts in such a state (`Ready`).  The
same holds in MemRealloc, where the copy inside `mem_realloc` may do it
(`overwritten`).  This, and the endless loop of a `malloc` without memory
(`halted`), is why the heap's runs say `CHECK_DEADLOCK FALSE`.

### MemRealloc

`frame` is the activation of `mem_realloc` while it calls `mem_alloc` and `mem_free`, whose
steps are MemMaster's.  The eight ways to end have an action each: `TakeFromNext`, `TakeFromPrev`,
`MoveElsewhere`, `GiveToPrev`, `GiveToNext`, `Split`, `SameSize`, and `Missed` for a block
that is not found (memory is allocated and dropped, as in the code).  Shrinking gives the bytes
to a free neighbour and credits `free_size`, and so breaks the heap
unless the neighbour is the first block: the history variable `sound` says that it always was, and that no copy has hit
the table.  The safety properties are about those histories; types and liveness are about all.

### Keyboard

The keyboard (`Down`, `Repeat`, `Up`, `Answer`) is the environment, external to the
repository: codes travel through `queue` to `port`, which goes on showing the last
one.  Each read of the port is a step: `PollNext` is the first read of a new code, `PollAgain` one more read of the same.
Keys are classes: those with a char inside `is_press`, those with a
negative char (shift, function and keypad keys), and those behind `0xE0`.  For a negative char
`is_press[ch]` is outside of the array: what is read there is either value, and the write
hits nothing, `_kb_shift` or `_last_saved_ch`.  `caps`, `typed`, `mixed`, `got`,
`flushed` and `stray` are histories that the properties compare.  A code carries, as a history too, the number of the
stroke it comes from and the case that CapsLock had then (`Sent`).
What char `ungetch` saves is not followed, only whether there is one: a zero is none.

### Console

One action per call.  `_buffer` is indexed as the code does, `row * COLS + col`, with
a column that backspaces may make negative; `Remainder` is the `%` of C.  `text`,
`empty` and `straight` remember what was put on an empty screen.  `ShowsText`
compares the screen with a definition that knows nothing of cursors: the line and column of the n-th
char of a text are counted from the text alone.

### Printf

One call of `_vsnprintf`.  `format` and `pos` are its pointer, `pc` the part of a directive that is read next
(`Flag`, `Width`, `Point`, `Precision`, `Length` are one iteration or one `if` each), `out`
the output function and `maxlen` the limit.  `Integer` and `Pointer` choose the argument among the
values of the type `va_arg` is asked for and format it: `DigitsOf` (one digit for each division until nothing is left), `ZeroPadded`, `Prefixed` and `Reversed` are the stages of
`_ntoa_long`, `_ntoa_format` and `_out_rev`.  `memory` is what the buffer holds, `text`
everything that was given to `out`.  A format that ends within a directive is read past its NUL,
as in the code, so a format is given with what lies behind it, up to two NULs in a row.

### Kernel

`kernel.cbl` performs a fixed list of operations before its menu: `StartUp` is that list, a
record for each access, comparison, wait and display, put together by paragraphs that have
their names in the code.  The actions `Out`, `In`, `Checked`, `Until`, `TakeStatus`, `Hwio`, ... are
the statements that run over it; `pc` is the place in it.  A read of a port is three steps, for `IO_IN`
falls through from the 8-bit access to the 16-bit and the 32-bit one, and the devices go on between them.
`Hwio` is a call of `KRNLHWIO`: without a `USING` it looks for mode and size at address 0,
where there may be anything, so it accesses port 0 or nothing, and hands back the data it was given.

`drive` is external: absent, ready, busy, asking for a packet or failing; it gets ready or fails
on its own (`DriveGoes`), or never.  `uart` is external as well, the registers of a 16550: good, broken (nothing comes back
in its loop) or absent.  `Menu`, `Turn`, `LeaveSlides`, `LeaveShell` and `PowerOff` are what the user may do;
`frames` is the stack of slides, each performed by the one before.

### LibC

One call of one function, on any memory, with any arguments its caller had the right to give
(`Legal`: strings end, regions lie in the memory, `memcpy` and the string copies do not overlap, while `memmove` may; a number that is
written fits the 32 digits of `itoa`'s buffer and one that is read fits an `int`: the code checks neither).  An
iteration of a loop is a step; `d`, `s`, `n` and `i` are the locals.  Functions with the same loop share
an action: `calloc` clears by `Memset`, `strncpy` is `Strcpy` with a count, `strcasecmp` is `Strcmp` with folded chars,
`atoi` is `internal_atoi`, and `sitoa` continues as `itoa`.  The properties state what each function does, which is often not
what the C standard says of the name: `strcpy` and `strncpy` write no NUL, `strcmp` takes
a string for equal to what it begins, `memmove` upwards moves the bytes one further, `puts` walks down, `sitoa` of a negative
number shows the whole word behind the sign, and base 11 and above take one letter too many for a digit.

## 3. Runs

| Run | Instance | Shows |
|---|---|---|
| `mem_two_banks` | banks of 9 and 12 bytes with a hole between them, 3 and 4 descriptors, 3 slots | all properties of MemSafety, with the first bank alone as `main` sets the heap up, and when the second one is plugged in at any time between calls |
| `mem_realloc` | one bank of 13 bytes, 4 descriptors, all pairs of sizes 1-3 | `realloc` over `malloc` and `free` |
| `keyboard` | Enter, one more plain key, CapsLock, a shift key, the keypad's dot, Del, keypad Enter; 4 strokes, 3 codes on their way | order, case and progress of `getch` |
| `console` | 2 lines of 3 columns, tab stop 2, 9 calls | what the screen shows |
| `printf` | directives of every flag or two, width, precision, length and specifier; texts with limits 0-6; int of 5, long long of 6 bits | where a text is cut, where a format ends, what a number shows |
| `kernel` | the constants of the code: 5 tries, packets of 12 words; 6 slides on top of each other | the start-up against every drive and serial port |
| `kernel_comments` | the instance of `kernel` | a start-up of which three comments of the code are wrong: the violation of `OneOfTheCommentsHolds` |
| `libc` | 5 bytes, each a NUL, a digit, a capital or a small letter; bases 10 and 11; words of 8 bits, a buffer of 3 digits | what each function answers and writes |
| `mem_realloc_split`, `mem_takes_from_free`, `mem_table`, `mem_hotplug` | one bank of 16 bytes or, for realloc, of 13; two banks for `mem_hotplug` | the findings of section 5, each the violation of one property |

Properties of the passing runs:

* `UsedIsGranted`: the used descriptors are exactly the memory that is granted, each at its
  address.  `mem_free` compares with `>=`, so this is a fact about walks, not about a comparison.
* `HeadCovers`: the first block is free and has at least `free_size` bytes, so the
  subtraction in `mem_alloc`, which tests `free_size` only, does not wrap.
* `BytesConserved`: `mem_total_free`, which adds up sizes list by list, is the number of usable addresses
  that are not granted, also in the middle of a call.
* `Linked`: no descriptor is lost or on two lists.  `Inv` and `ReallocInv`: the invariants of the proofs.
* `KeepsPromise`: the heap implements `Malloc`.  `CallReturns`: every call ends.
* `ReservedIsUsed`, `ReservedApart`, `HeadCoveredWhileSound`: the same for `realloc`, as long as `sound` holds, that is, until a
  shrink gives bytes to another block than the first one or splits (`alloc.c` 363, 371, 389).  Behind such a shrink `free_size` counts
  bytes that the first block does not have, and none of the three has to hold.  `ReallocTypeOK` and `ReallocReturns` are without that condition.
* `KeysInOrder`, `CaseOfCapsLock`, `NeverTwice`, `GetchReturns`: see the comments in Keyboard.
* `ShowsText`, `LastBeforeCursor`, `WritesOnScreen`: see the comments in Console.
* `CutToTheBuffer`, `StopsAtTheEnd`: the buffer holds the beginning of the text and a NUL, whatever
  the limit; only an incomplete directive is read past the end of its format.  `Denotes`, `FieldWidth`: a
  number read back from its field is the argument in the type the format names, and the field is as wide as asked for.  Both
  compare with a definition that knows nothing of buffers, and state exactly when `#` destroys
  digits (`PrefixEatsDigits`) and when a field is wider than it should be (`Excess`).
* `UartReady`, `ChecksSayTheSame`, `ReadsItself`, `MenuReached`: what state the start-up leaves behind for every drive and serial
  port, and that it never hangs.  They are about what the checks of the code are worth.  `UartReady` leaves the low byte of the divisor
  out, which is wrong (section 5).
* `OneOfTheCommentsHolds` is expected to be violated.  It is the disjunction of `DivisorIsThree`, `GoodPortPasses` and `ControllerIsRead`, each what
  a comment says, so a state that violates it refutes all three.
* `Answers`, `Writes`, `Returns`: the result of a call, the memory behind it byte by byte compared
  with the memory before, and that it returns.

Every property of a passing run has a mutant in `PROJECT.json`: a plausible
mistake in a modelled definition with which TLC finds the property violated.  The
mutated definitions stand before the ones they replace, marked "Mutant".

### Bounds, and why they are enough

* Heap: the code has 4 slots, tables of 8192 descriptors and more, and 32-bit sizes.  What
  matters is that every relation occurs: a first block that runs empty, a table that runs
  full, `free_size` smaller than the first block, blocks between free and used neighbours on either side, a
  free block between two used ones, requests that no bank has.  With up to three used
  blocks of three sizes all of them do.  `Word` is larger than any end of a bank; wrapping would show
  as a wrong address.  The theorems need no bound.
* Keyboard: four strokes are two keys pressed and released, in every overlap, with any
  number of repeats; three codes in flight let a key's whole history be behind by more than one key.  Five strokes (2.2 million states)
  were checked too and hold.
* Console: nine calls fill a screen of six cells and scroll twice.  Only sums with
  `COLS`, `LINES` and the tab stop are computed, and the instance has a tab that wraps and one that does not.
* Printf: the widths of the types are scaled (char 3, short 4, int and long 5, long long 6 bits, a
  conversion buffer of 15 for the code's 32 and a `size_t` up to 255), keeping the relations of the code: int and
  long alike, every type a proper part of the next.  The values include both ends of each type and one beyond.  Every two-flag
  combination that interacts is there, pointers with a sign, a prefix, a precision or a length included, and limits run from 0 past the length of each text.
* Kernel: nothing is scaled, only the depth of the slides is cut (`FrameBound`); a fifth frame already repeats a slide.
* LibC: five bytes hold two strings that differ late, regions that overlap by any amount in either
  direction, and a number with sign, three digits and NUL.  `Word` is 256, and its largest number fills the buffer of 3 digits.  `B` is the letter that base 11 should not take.

### Fairness

`CallStep` (and its counterpart in MemRealloc) is weakly fair: there is one processor, no
interrupt and no other thread, so a call that can take a step does.  In Keyboard only `PollNext` is
fair: `getch` polls for ever, and a code the controller has arrives at
the port some time.  Nobody is obliged to press a key, and neither `Getch` nor `Flushinp` is fair.  Console states no liveness.
In Kernel `StartUpStep` is weakly fair: one processor, and no operation waits for a device.  The drive need never get ready and the
user need never choose.  In LibC the running call is weakly fair, as in the heap.  Printf states no liveness: its
graph is finite and acyclic but for the end, and deadlock is checked.

## 4. Proofs

TLAPS checks them.  They hold for every value of the constants that satisfies the named assumptions, which TLC
evaluates for the instances.

### The heap: MemSafetyProofs

For every number and size of banks, every table, request and word that satisfy
`BanksAssumption` and `SizesAssumption`:

| Theorem | Statement |
|---|---|
| `Invariance` | `Spec => []Inv` |
| `TypeCorrect` | `Spec => []TypeOK` |
| `FreesItsOwn` | `Spec => []UsedIsGranted` |
| `HeadAlwaysCovers` | `Spec => []HeadCovers` |
| `StaysLinked` | `Spec => []Linked` |
| `BytesStay` | `Spec => []BytesConserved` |
| `Implements` | `Spec => KeepsPromise`: each step is a step of `Malloc` or leaves its variables alone |

Assumptions: banks lie above address 0 without overlap, are registered from the lowest to the highest,
each is larger than its own table and there is a slot for each; nobody asks for zero
bytes.  The single bank of `main.c` satisfies the first part.  What happens
without it: `mem_hotplug`.

Why `UsedIsGranted` is not inductive, and the argument.  `mem_free` reaches an
address by adding sizes and takes the first used block at or above the pointer.
That this is the right one needs (a) `HeapOK`: the list of each bank tiles it - it starts at the
bank's address, every block begins where its predecessor ends, the last one ends the bank, and blocks share no byte and
no successor; (b) `FreeOK`: while `mem_free` walks, `bptr` is the address of the cursor's block and the
block it looks for is still ahead; (c) `AllocOK`, `RegionsOK`: `mem_alloc` only ever
stops at the first block of a bank, which is free and covers `free_size`.  `Inv` is the
conjunction.  The lemmas `MergedOK`, `FixedOK`, `CarvedOK`, `MarkedOK` and
`NewBankOK` say that each change of a list keeps `HeapOK`; there is one lemma for each action; `StepInv` combines them.

`Linked` needs two more facts in `HeapOK`, that every descriptor in use is reached (`Reached`)
and that addresses rise along a list (`Acyclic`).  Only used blocks are known to have a byte: the first block
may be handed out to its last byte and stays on the list with size zero, which is why `Acyclic` is
a claim of its own.

`BytesConserved` speaks of recursive functions: `FreeInList` adds sizes along a list as `mem_total_free` does.  That such a function exists, and its
value, are shown by giving it in closed form - the bytes from a block to the
end of its bank that nobody owns (`Rest`, `Left`) - and by showing that this satisfies the recursion; a second function that does so too would differ
at a block nearest to the end of the list, which `Acyclic` excludes.  Induction is used in the form of `Induction.tla`, a
set of numbers that is not empty has a least element: the theorems of the library take the
claim as an operator, and no prover here can instantiate that.

### realloc: MemReallocProofs

| Theorem | Statement |
|---|---|
| `ReallocTypes` | `ReallocSpec => []ReallocTypeOK`, for any banks and also after an unsound shrink |
| `ReallocInvariance` | `Len(Banks) <= 1 /\ ReallocSpec => []ReallocInv` |
| `ResizesItsOwn` | `... => []ReservedIsUsed` |
| `ApartWhileSound` | `... => []ReservedApart` |
| `CoveredWhileSound` | `... => []HeadCoveredWhileSound` |

The last three speak of a heap that is `sound`: shrinking has given bytes to nothing but the first block of the bank, and no copy has
run over the table.  The code shrinks into other blocks and splits as well (`alloc.c` 358-391), credits `free_size` each time, and
then may hand memory out twice; of the heap from there on only `ReallocTypes` and the run's `ReallocReturns` say something.  `ReallocInvariance` is about the
lists under the same condition.  The lemma `SoundUntil` proves that nothing else ends `sound`: only `GiveToPrev` into another block than the first,
`GiveToNext`, `Split`, or a copy over the table.

The condition `Len(Banks) <= 1` is that of the code: `main.c` registers one bank.  It is not there for convenience.
`mem_realloc` passes over a region whose `free_size` is below the new size, the one with the block included, goes on in the
next region with addresses that are all above the pointer, and resizes the first used block there: another client's.  With two
banks `ReservedIsUsed` is false: on those of `mem_two_banks`, TLC reaches after 24 steps a `realloc` that answers with the block of another
client.

The argument takes the invariant of the heap over with what is reserved instead of what is held: `MemSafety` is instantiated with `held` extended by
the blocks that `mem_realloc` keeps, and its lemmas apply to the calls of `mem_alloc` and
`mem_free` in the middle.  A change in place moves the boundary between two neighbours, which
`BoundaryMoved` shows to keep `HeapOK`; `sound` is what makes `free_size` agree with it.  `ReallocInv` is checked by TLC too.

### The keyboard: KeyboardProofs

For every set of keys, any number of strokes and any length of the queue (`KeysAssumption` says which kinds of keys are disjoint):

| Theorem | Statement |
|---|---|
| `Invariant`, `Types` | `Spec => []Inv`, `Spec => []TypeOK` |
| `InOrder` | `Spec => []KeysInOrder` |
| `CaseWhenTyped` | `Spec => []CaseOfCapsLock` |
| `NoneTwice` | `Spec => []NeverTwice` |

A key that came back in `got` was read when its break code found `is_press` set.  The invariant is about
`wire`, the code that the port shows followed by the queue: the numbers of strokes rise along it (`NthOK`); a break
code that has to count finds a make code of its own before it, or the key in `is_press` with no other break code before it
(`Armed`, `MustCount`); and the case a code carries is what `caps` will be when the breaks of CapsLock before it have been
read.  The rest is where the port may show the same code again, and why a second read changes nothing.

### The console: ConsoleProofs

For every size of the screen with at least two lines, every tab stop and
every number of calls (`ScreenAssumption`, `GlyphsAssumption`):

| Theorem | Statement |
|---|---|
| `CursorOnScreen` | `Spec => []TypeOK` |
| `LastIsBeforeCursor` | `Spec => []LastBeforeCursor` |
| `NothingBehindTheBuffer` | `Spec => WritesOnScreen` |
| `TextIsShown` | `Spec => []ShowsText` |

The invariant `CInv` adds to `LastBeforeCursor` that the row is on the screen and the
column at most at its end, and at least minus the number of calls made.
`AdvanceBounds` is the argument why one scroll is enough: a char that moves the cursor
down leaves the column inside the line, so a char cannot both move down and wrap.
`AddchShows` follows the cell through wrap and scroll, with the facts about products
in `NextRow` and `WithinScreen`.

`TextIsShown` is about the whole screen.  `Sheet` is its invariant: the pen, which is counted from the text alone, is where
the cursor is, less the lines that have scrolled away, and every cell shows the char whose place it is, or a blank.  That no two chars
have the same place is `Ordered`: each stands before the pen, by line and then by column, and the next one is written at the
pen.  What `clrtobot` and `clrtoeol` clear lies behind the pen and is blank.

### printf: PrintfProofs

For every format, limit, argument, width of a type and size of the conversion buffer
(`PrintfAssumption`: the sizes are numbers, a type has at least one bit, strings are sequences, and a format ends with two NULs; `IntAssumption`: an int is no wider than a `size_t`):

| Theorem | Statement |
|---|---|
| `TypeInvariant` | `Spec => []TypeOK` |
| `CutToTheBufferThm` | `Spec => []CutToTheBuffer` |
| `StopsAtTheEndThm` | `Spec => []StopsAtTheEnd` |
| `DenotesThm` | `Spec => []Denotes` |
| `FieldWidthThm` | `Spec => []FieldWidth` |

`Inv` says that `idx` is the length of the text, that the text, `width` and `precision` have their types, and
that memory is what `Held` says.  Most lemmas show that every stage of the formatting returns a
sequence, whatever number it formats, for then `Out` adds its length to `idx`.  The memory itself is one argument for all actions
(`OutInv`) and one for the end (`TerminateInv`).  `EndInv` strengthens `StopsAtTheEnd` with
the fact that a NUL, once shown, stays shown.  `TypeOK` has the claim that `pos` stays inside of what is given: a
directive may read one NUL as its specifier and pass over it, and then the second one ends the format (`Reads`: a char that was
passed over inside of a directive is no NUL).

What a number shows is proved from the invariant `Numbers`, which adds two claims to `Inv` and `Reads`.  `DirectiveRead` says how
far a directive has been read: behind its flags the precision is still 0, and at its specifier the flags of its length are
those of the one or two chars before it (`LengthIs`).  Without it `Integer` could be taken with flags that no format spells, and the type that `va_arg` is asked for would not be the
one the property reads off the format.  `FieldInv` says that the field shown last is `Ntoa` of its argument, narrowed to that type, under
the flags, width and precision that still stand (`FieldFlagsAre`).  The rest is about the operators, without any state:

1. `DigitsAre`, `DigitsSpell`: the remainders of repeated division are the digits of the value, exactly `DigitCount` of
   them (`NothingLeft`: the quotient after k divisions is 0 just when the value is below the k-th power).
2. `ReadsDigits`, `ReadsNothing`, `ReadBack`: reading the field from the left undoes the division digit by digit, and padding, sign, zeros
   and the `x` or `b` of a prefix add nothing to it.
3. `PaddedNumeral`, `KeptIs`, `WithPrefix`, `ReversedIs`, `NtoaIs`: where each stage of `_ntoa_format` puts what, and that
   the conversion buffer holds all of it if `FitsTheConversion`.
4. `Laid`: from these lengths, when the prefix overwrites a digit that counts (then what is read back is smaller than the number), and
   how long the field is.

The attempt showed that both properties had been wrong outside of the formats TLC was given.  They took `%hp` for a short, where the code
ignores the `h` of a pointer; they did not know that `%+p` shows a sign; that with a sign the prefix
of `%+#p` meets the digits one place earlier (`printf.c` 237-240 and 256); nor that a pointer is padded with zeros in spite of a
precision (`printf.c` 959), while with a precision its prefix takes the place of none of them, so that the field of `%#.p` is two chars
too wide.  TLC confirmed each of them on a larger instance.  The statements were corrected, and `MCPrintf` now has those formats.

### Memory, strings and numbers: LibCProofs

For every size of memory, everything it may hold, every call a caller has the right to make, every base from 2 to 35 and every
word (`LibCAssumption`):

| Theorem | Statement |
|---|---|
| `AnswersAreRight` | `Spec => []Answers` |
| `WritesAreRight` | `Spec => []Writes` |

The invariant `Inv` says of a call that runs where it stands: there is a predicate for each function (`InStrlen`, `InStrcpy`,
`InMemmove`, `InItoa`, ...), a lemma that each step of the function keeps it or returns as promised (`StrlenStep`, ...), and
`InCall` is the choice among them.  What the copies have in common is `Copied`, a memory with the first bytes of the copy:
`CopyUp` is one more byte of a copy from the first to the last and `CopyDown` one of a copy from the last to the first, which
is right only where the regions overlap as `memmove` makes sure they do.  The comparisons keep that all bytes so far are the same.

The numbers need induction over their digits.  The prover cannot instantiate the induction theorems of the library, so powers and
positional values are recursive *functions*, `Induction!Recursion` proves that such a function exists and satisfies its
recursion, and induction runs over the set of numbers for which a claim holds.  `ValueGrows`: a digit more multiplies by the base and adds.
`itoa` keeps that what is left of the number, times the power of the digits that are written, and what these are worth add up to
the number (`Counts`); `DigitCounts` says that the number of digits is well defined, and `WrittenNumber` that a text
with these digits, no zero at its front and the right value is the one the property asks for.  `atoi` keeps that what it has is the
value of the digits it has read (`InAtoi`).

### The kernel program: KernelProofs

For any number of tries of a wait, any length of the packet and any depth of slides (`KernelAssumption`):

| Theorem | Statement |
|---|---|
| `Invariant` | `Spec => []KInv` |
| `TypeCorrect` | `Spec => []TypeOK` |
| `UartSetUp` | `Spec => []UartReady` |
| `ChecksAreBlind` | `Spec => []ChecksSayTheSame` |
| `Ps2ReadsItself` | `Spec => []ReadsItself` |

None of these is inductive, for each speaks of the end of the start-up and depends on what was done long before.  `KInv` says what holds at
each place in between:

* `Typed`: `TypeOK`, and the registers are bytes.
* `Waiting`: a status is taken only while tries are left, so `WS-TIMEOUT` stays a number.  The second wait ends before its
  first read, so the status is 0 when its error bit is looked at.  What the checks of the drive and of the serial port compare
  was read with 32 bits, and of the upper three bytes one is never 0: for an absent drive all are 255, and
  the third byte of the serial port says that no interrupt is pending.  So neither can equal a byte.
* `Complained`: the checks that have spoken are exactly the three that stand before `pc`.
* `Answered`: the record of `KRNLHWIO` holds the command sent last where it is read as an answer; from this follow the
  configuration 32, the two devices it seems to show, and the one that is left after the next command.
* `Registers`: what each register of the serial port holds from the write that sets it on.  The latch is open between two
  writes, and there what is displayed sets the divisor.  The port may drop or delay a byte that loops, and a read may take it off.

Two things had to be shown before.  The first is where each operation stands, because `StartUp` is put together from paragraphs, one of them of
any length: `Joined` is about two lists one behind the other, `StartUpPlaces` says where each paragraph begins, `DriveOps`, `UartOps`,
`Ps2Ops` and `KeyboardOps` what stands where, and the lemmas `WhereOut`, `WhereIn`, `WhereFails`, ... the other way around
at which places an action can be taken.  The second is `BitAnd`, a function that calls itself with half of both
arguments: `BitAndExists` shows with `Induction!Recursion` that there is one, `BitAndBits` and `BitAndBounded` that it satisfies its
recursion and is at most its mask, and `MasksOf32` is the value the PS/2 driver computes with.  Then each
action has a lemma (`OutInv`, `InInv`, `TakeStatusInv`, `HwioInv`, ...) and `NextInv` combines them.  TLC found `KInv` to hold on
the instance of run `kernel` before it was proved; it is not among the run's properties, since it implies all of them but
`MenuReached`.

### Only model-checked

* Liveness (`CallReturns`, `ReallocReturns`, `GetchReturns`, `MenuReached`, `Returns`): it rests on fairness, and the provers do not handle `ENABLED`.

## 5. Where the code and its comments disagree

| Run | Code | What is said |
|---|---|---|
| `mem_realloc_split` | `alloc.c:382`: the descriptor of the remainder is never linked; its bytes are lost, and later addresses on the list are too low | `alloc.c:374-375` "Create (split) block with remainder size. We will put it after the block for simplicity" |
| `mem_takes_from_free` | `alloc.c:115`: a region is passed over by `free_size`, which `mem_free` never gives back | `alloc.c:7-9` "the heap *will* take space from the free block" |
| `mem_table` | `alloc.c:114`: addresses are counted from the start of the table | `alloc.c:73` "New genesis block = less free memory on region" |
| `mem_hotplug` | `alloc.c:169`: with a bank below the first one, `free` releases a block of another client | `alloc.c:2` "Supports RAM holes and RAM hotplug" |
| `kernel_comments` | `kernel.cbl:374`: what is displayed after the access goes to the same port while the latch is open; the divisor is left at 32, a blank | `kernel.cbl:371` "Set divisor to 3" |
| `kernel_comments` | `kernel.cbl:411`: all 32 bits that `IO_IN` reads are compared, and displayed text loops as well; a good port fails the test | `kernel.cbl:391-392` "a good serial port should return (loop) what we send over" |
| `kernel_comments` | `krnlhwio.cbl:16`: without a `USING` no call reaches the controller; what is taken for its configuration is the command 32, and it is masked before it is checked | `krnlps2c.cbl:43` "Read configuration and disable IRQs", `:61` "Check if it's dual", `:122` "Read back configuration status byte" |
| `libc` (passes: `Writes` states what the code does) | `lib.c:880`: the bit below the sign becomes the sign, a negative number stays negative, and the whole word is shown behind the minus | `lib.c:879` "Clear last bit" |

Not contradictions of a comment, but shown by properties that state what the code does:

* `ChecksSayTheSame`: an absent drive (`kernel.cbl:273`) is never reported, since the byte that is read comes from a 32-bit access;
  the second wait ends before it has read a status.
* `ReadsItself`: the PS/2 driver takes the next command after its command 32 for the proof that the second channel did not start.
* `Writes`: the shifted window of `memmove`, and the missing NUL of `strcpy`.  `Denotes`: `#` may overwrite digits.

## 6. Not modelled, within the modelled parts

* Contents of memory: `mem_realloc` growing into the block before it leaves the contents where they were, and
  nothing here shows it.
* `mem_align_alloc` (no caller, does not end), `mem_print`.  `calloc` clears its memory in LibC; its product, which may wrap, is a hazard in `PROJECT.json`.
* The serial line: `outb` in `lib.c` sends a newline whatever it is given.
* Zero-byte requests, `free(NULL)`, and a master with every slot taken: hazards in `PROJECT.json`.
* Which key code `getch` returns for special keys: their names and chars differ in sign.
* Floating point in `printf` (`_ftoa`, `_etoa`): nothing in the kernel asks for it, and TLA+ as used here has no reals.
* `qsort` takes `j * size` for an address and copies as many bytes as that address says; `strtok` dereferences NULL when it is asked for a second token.  Both have undefined
  behaviour there.  `toupper`, and functions that stop or answer a constant.
* Paragraphs nothing performs: `INIT-SB16`, `INIT-FLOPPY`, `PCI-READ-32`, `PCI-WRITE-32`, `KDEMO-ERROR`, `FILE-CREATE`, `PS2-WRITE-SECOND`.
* What the slides and the shell display, and the limit of libcob's PERFORM stack, which `frames` would reach.
* The bytes of the ATAPI packet: nothing that is read depends on them.

## 7. Plan

The modules of the plan exist, and so do the proofs about the heap, the keyboard, the console, `printf`, the functions of LibC and
the kernel program: every safety property of every passing run is a theorem.  What is left:

1. `ReservedIsUsed` for several banks under the condition that no resize meets a region whose `free_size` is too small.
2. Growth and moving in MemRealloc as implementations of a `realloc` in Malloc.
