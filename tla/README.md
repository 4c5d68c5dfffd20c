# SYPAS: TLA+ models, model checks and proofs

SYPAS is a small x86-64 operating system: a UEFI loader, a boot protocol, and
a kernel that brings up memory, interrupts and a timer and then idles. This
directory holds TLA+ models of its core logic, the TLC configurations that
check them and TLAPS proofs about every part but the image builder. Paths below
are relative to the repository.

## 1. Inventory

| Component | State | Operations | Used by |
|---|---|---|---|
| UEFI loader (`bootloader/uefi/main.c`) | buffers, map size, descriptor stride, map key, attempt and grow counters | `efi_main`: read file, load kernel, allocate, size the map, final map, `ExitBootServices` | firmware calls it; jumps to the kernel |
| ELF planner (`bootloader/uefi/elf.c`) | load plan (segments, span, entry) | `elf_plan_load` | loader |
| Map translator (`bootloader/uefi/memory_map.c`) | sorted descriptors, output array, byte counts | `sypas_translate_memory_map` | loader, before every `ExitBootServices` |
| Self-relocation (`reloc.c`, `start.S`) | the loader's own image | `sypas_reloc` | `_start` |
| ACPI search (`acpi.c`, `main.c`) | position in the firmware's tables, the 1.0 table found | `find_acpi_rsdp`, `sypas_acpi_validate_rsdp` | loader |
| Boot protocol (`bootloader/protocols`) | `sypas_bootinfo_t`, ownership map | none | loader writes, kernel reads |
| kmain (`kernel/main.c`, `entry.S`, `gdt.c`) | bring-up position, loaded tables, counters read before and after a test | `_kstart`, `kmain`, `gdt_init` | loader |
| Page allocator (`kernel/mm/pmm.c`) | bitmap, cursor, counters | `pmm_init`, `pmm_alloc_page`, `pmm_free_page`, `pmm_selftest` | kmain |
| IDT and dispatch (`idt.c`, `isr.S`) | handler table, test counter | `isr_dispatch`, `irq_install` | processor |
| 8259A driver (`pic.c`) | masks, spurious counter | `pic_init`, `pic_unmask`, `pic_send_eoi`, `pic_handle_spurious` | dispatch, PIT |
| PIT (`pit.c`) | `ticks` | `pit_init`, `pit_irq`, `sleep_ticks` | kmain, dispatch |
| Console (`kprintf.c`, `fbcon.c`, `serial.c`), `panic.c` | sinks, cursor | `kprintf`, `fbcon_putc`, `panic` | everyone |
| CPU identification, BIOS stub | none that others read | print | kmain, BIOS |
| Image builders (`tools/mkfat.py`, `mkiso.py`) | image bytes | `build` | make |
| Boot tests (`tests/boot/boot_test.py`) | log read so far | `run_one` | make, CI |

How they interact: the firmware calls the loader and shares the memory map
with it until `ExitBootServices` succeeds; the loader calls the planner once
and the translator on every attempt; the kernel receives one structure and one
map and shares nothing afterwards. In the kernel the only concurrency is that
of interrupts with the code they interrupt: `ticks` and `isr_test_hits` are
the shared variables.

What is hard, and what makes each component correct:

* loader: the firmware changes the map at any moment; a retry must use a fresh
  map *and* a fresh translation; after a failed `ExitBootServices` almost
  nothing may be called; buffers must be large enough and given back;
* planner and translator: sums that overflow, ranges that overlap, touch or
  nest, inputs in any order; accept exactly the valid input, produce exactly
  the right output;
* allocator: a next-fit scan that skips whole bytes and wraps in the middle of
  one; counters kept one page at a time; reserved pages must stay reserved;
* interrupts: lines that drop between request and acknowledge; which chip gets
  an EOI; nothing left in service, nobody starved;
* kmain: the order of unmasking, `sti` and handlers; checks that must not pass
  without the event nor fail with it; a wait that ends; an NMI before the
  kernel's own gates are loaded;
* console: a panic prints through the sinks it interrupted, from whatever
  state they are in, and may itself be interrupted by one; it must stay inside
  the framebuffer, be complete, and end; the most negative number, zero and
  padding in the conversions;
* boot protocol: written by one program and read by another; both must mean
  the same pages, the same pixels and the same byte order;
* boot test: the log is read while the guest writes it and may exit;
* relocation and ACPI: untrusted sizes and offsets, tables that change while
  they are applied, checks that must cover all of a table;
* FAT builder: two sizes that depend on each other, one counter that gives out
  clusters; what is read back must be what went in.

`PROJECT.json` lists the hazards with their lines.

## 2. Modules

| Module | Models | Shape |
|---|---|---|
| `Pmm` | `kernel/mm/pmm.c` | state machine, one loop iteration of `pmm_alloc_page` per step |
| `PageAllocator` | what the `pmm_*` API promises | abstract specification |
| `PmmProofs` | | theorems about `Pmm`, lemmas about `PmmSelftest` |
| `PmmSelftest` | `pmm_selftest` | extends `Pmm` with the test as its caller |
| `MemoryMap` | `memory_map.c` | one call, one loop iteration per step |
| `MemoryMapProofs` | | theorems about `MemoryMap` |
| `ElfPlan` | `elf.c`, and `load_kernel_elf` executing the plan | one program header, then one segment per step |
| `ElfPlanProofs` | | theorems about `ElfPlan` |
| `Loader` | `efi_main` and the firmware | one step per firmware call, interleaved with firmware events |
| `LoaderProofs` | | theorems about `Loader` and `Boot`; instantiates `PmmProofs` |
| `Boot` | the jump to the kernel and the start of its allocator | composes `Loader` with `PmmSelftest` |
| `Acpi` | `acpi.c`, `find_acpi_rsdp` | one configuration table per step |
| `Bootinfo` | `fill_framebuffer`, and how `fbcon.c` draws by it | extends `Acpi` with the rest of the bootinfo |
| `BootinfoProofs` | | theorems about `Acpi` and `Bootinfo` |
| `Interrupts` | `idt.c`, `isr.S`, `pic.c`, `pit_irq`, with the 8259As | devices, chips, processor and dispatcher interleaved |
| `Kmain` | `kernel/main.c`, `entry.S`, `gdt_init`, `sleep_ticks`, `pit_init` | extends `Interrupts` with the main line |
| `BootTest` | `run_one` of `tests/boot/boot_test.py` | composes `Kmain` with the harness |
| `KernelProofs` | | theorems about `Interrupts`, `Kmain` and `BootTest` |
| `Console` | `kprintf.c`, `fbcon.c`, `serial.c`, `panic.c` | one step per store, a panic between any two |
| `ConsoleProofs` | | theorems about `Console` |
| `Reloc` | `reloc.c`, `_start` | one table entry per step |
| `RelocProofs` | | theorems about `Reloc` |
| `MkFat` | `tools/mkfat.py`, and the reader in `tests/media/validate_media.py` | one mapping or tree node per step; the reader is an operator |
| `MC*` | | constants for TLC |

Definitions whose comment says *mutant* are faulty variants of the definition
that follows them; no specification uses them. For each property one of them
is substituted for the original and TLC then reports the property violated,
which shows that the property depends on that piece of code.

### Pmm

Addresses are page numbers and the bitmap is the set of set bits (with eight
bits per byte, so the padding of the last byte is there too). `PmmInit` is
`pmm_init` in one step: `IsHighest` is pass 1, `Fitting` pass 2, `UnusableBits`
the fill and the clearing loop, `TakenBack` the two loops that reserve the
bitmap and the first MiB. `InitPanic` is its two panics. `AllocCall`,
`ScanStep` and `ScanExhausted` are `pmm_alloc_page`; `ScanSkip`, `ScanBusy`
and `ScanTake` the three ways an iteration can go. A page past the last byte
of the bitmap reads whatever is there (`BitsRead`). `FreeCall` is
`pmm_free_page`, called with a page the caller holds or with an address the
function promises to refuse (unaligned, out of range, already free); freeing a
page that was never handed out is accepted by the code, and no caller does it.
The byte totals printed at boot are left out.

### MemoryMap

Addresses are bytes up to `MaxU64`. `SortStep` is one round of the insertion
sort, `CheckSegment` one of the guard on the load plan, `CheckDescriptor` the
validation of a descriptor, `SplitStep` one turn of the inner loop that cuts
kernel segments out of loader memory, `TailStep` the rest of the descriptor,
`Finish` the byte count and the result. The acceptability of the stride is an
input. The pointer-alignment check cannot fail once the stride is a multiple of
eight and the buffer page aligned, and is left out.

### ElfPlan

`CheckHeader`, `PlanHeader` (`Refuse`, `Skip` or `Accept`) and `FinishPlan`
are `elf_plan_load`; `LoadSegment` is the body of the loop in
`load_kernel_elf`, which clears a segment's pages and copies its bytes. A byte
of memory holds the file offset it was copied from. The checks on the fixed
header fields only compare constants, so the header names the first that
fails.

### Loader

Memory is a row of pages with EFI types; every change outdates the map key.
Firmware events (a callback takes or frees a page, the descriptor size
changes) happen between any two loader steps until boot services end.
`GetMemoryMap`, `ExitBootServices` and page allocation are external and behave
as `main.c` uses them. The map has one descriptor per run of equal types, so
the loader's own allocations make it longer. `Translate` uses page by page the
classification that `MemoryMap` establishes, or fails. Errors the firmware may
return at will are alternatives of each step. Callbacks touch only the pages of
`CallbackPages`, a bound.

### Boot

`EnterKernel` is the jump: the ownership map the loader translated last becomes
the kernel's, one entry per run of pages of one type, and the actions of
`PmmSelftest` take over (`pmm_init`, then the test; `SelftestFailed` is kmain's
panic). The firmware's page types stay in the state, so that
`KernelOwnMemory` can compare what the kernel uses with what is really free.
`Loader`, `Pmm` and `PmmSelftest` are used as they are.

### Acpi and Bootinfo

A configuration table is a GUID and a sequence of bytes modulo `ByteSize`, of
which the signature, the two checksums, the revision and the length are told
apart. The signature is one byte instead of eight. `Valid` is
`sypas_acpi_validate_rsdp`; `FindStep` is a turn of the loop in
`find_acpi_rsdp`. `Bootinfo` goes on: the page is cleared, the root pointer and
the graphics mode are filled in, and the kernel's `fbcon_init`, `set_colors`
and `draw_glyph` store pixels as four bytes. `Shows` is what the adapter makes
of them, by the mode it is in and not by what the bootinfo says.

### Interrupts and Kmain

Each chip has request, in-service and mask bits. Being told of a request
(`MasterRequest`) and acknowledging it (`TakeIrq`) are separate steps; a line
that drops in between gives vector 39 or 47 with no in-service bit. Gates are
interrupt gates, so a dispatch is not interrupted except by NMI, and
`isr_dispatch` to `iretq` is one step. `Interrupts` has drivers that enable
lines, execute `sti`, `hlt` and `int` in any order; `Kmain` replaces them by
the main line, in which the start of the sleep, the test of `ticks` and `hlt`
are separate steps. It starts at `_kstart`; whose GDT and IDT are loaded is
part of the state, and an NMI that comes before the kernel's own are leaves
the processor stuck. A build with `SYPAS_TEST_FAULT` raises its fault instead
of idling. The results of the bootinfo checks and of the allocator are part of
the environment (`Boot` has the allocator).

### BootTest

The guest is `Kmain`; the log is the set of marks written so far, a panic
writes its marks one per step, and QEMU may exit at any moment. `Poll` is the
head of the loop in `run_one` (deadline and `proc.poll`), `ReadLog` the rest of
its body; `Verdict` looks for the marks in the order of the code, RUNNING first
(finding 4). A panic within a panic is left to `Console`.

### PmmSelftest

The test's loops call the actions of `Pmm`, so that every step of every
`pmm_alloc_page` is still there. The word the test writes to a page is
modelled; the quadratic search for duplicates is one step per page. `Boot`
runs it.

### Console

A call of `kprintf` is one directive of its format; `Expand` gives the text it
comes to: `emit_uint` with its digits, width and padding, `Magnitude` the
negation of the most negative number, strings, characters and unknown
conversions. The bases and the sizes of an int and a long are constants. `emit`
passes each character of the text to each sink in turn. `fbcon_putc` is cut at
every store to the cursor and at every row of cells `scroll` copies, because
`Panic` (an NMI, a fault or a failed check) may come between any two and starts
printing with the cursor as it is; the pixels of one row are copied in one step.
One NMI may strike a panic too, printing or halted;
the next stays blocked, as no handler returns. `reach` records the last pixels
touched. Registering a sink is one step, and the stores of a call happen in the
order of the source.

### Reloc

What an entry of a table holds is chosen when it is read; each is read once,
so this covers an entry that an earlier relocation overwrote. A byte of memory
holds the value written and the index of the byte in it.

### MkFat

The recursions `assign` and `render` are the same walk with an explicit stack
(`todo`). The image maps sectors to pieces of the FAT, of directories or of
files. Names are compared as given: the upper-casing of `name83` and the cases
where one path is a directory of another are excluded from the inputs, as the
Makefile passes neither; names that do not fit 8.3 are refused as in the code.

## 3. Runs

| Run | Checks | Bounds |
|---|---|---|
| `pmm` | types, reserved pages stay reserved, exact counters, exhaustion only when full, every call returns, refinement of `PageAllocator` | five maps of up to 26 pages, 8 low pages, bitmap pages of one byte: several bitmap pages, a partial last byte, fragmentation, a cursor that starts on a padding bit, and both panics occur; every sequence of calls is explored |
| `pmm_tail` (violation) | `HandedOutFromPool` | one map in which the bitmap ends at the highest page, a multiple of eight |
| `memory_map` | output contract at every moment, exact ownership, exact verdict, when the call returns | all sequences of up to three of 21 descriptors, eight plans, one with a segment of two pages that may lie in two descriptors and three that `elf_plan_load` never makes (overlapping, unaligned, empty), arrays of 3 and 7 entries: too small and just enough for every case |
| `elf_plan` | plan soundness at every moment, exact verdict, the loaded image, the entry point | all sequences of up to three of 30 program headers, six headers, 16 bytes of memory, two segments at most |
| `boot` | recovery pair, exact final map, ownership of the handoff pages and no leaks, room for the translation, the kernel works in its own memory, its self-test's verdict is right, the boot ends | 21 pages, eight of them low, two segments, two strides, four firmware events on four pages, a self-test of two pages: all four attempts and all four growth rounds occur, success after three failures, a self-test that fails and one that passes with pages to spare |
| `bootinfo` | damage to a table is noticed, ACPI 2.0 is preferred, the screen shows the colours meant | every list of up to three of sixteen configuration tables (valid, and each thing wrong), tables of seven bytes modulo sixteen; thirteen graphics modes: both byte orders, padded scan lines, no linear framebuffer, too small, none |
| `interrupts` | nothing left in service, EOIs match, handlers run exactly for real interrupts, the timer is served | devices 0, 7, 9 and 15: both spurious vectors, the cascade, and priorities on both chips; counters stop at 1 |
| `kmain` | RUNNING only after every check and no false alarm, from `lidt` on nothing strikes before it has a handler, a verdict of the boot test has its cause in the kernel that ran, the kernel comes up, or hangs when the timer is dead | ten machines (good, each thing wrong, and the fault build), both modes of the test, devices 0, 7 and 15, a sleep of three ticks |
| `boot_test_panic` (violation) | `PanicFails` | the good machine, both modes of the test |
| `console` | pixels stay in the framebuffer, the screen shows the text, a printed number reads back as its argument, a panic's text is complete and ends | screens of two by two and two by three cells, five characters before the panic, a panic text that wraps and scrolls; a working, a stuck and an absent UART; two framebuffers that are refused and one too small; every value of a four-bit long and a three-bit int, signed and unsigned, padded and not |
| `reloc` | accesses inside the image; it runs fully relocated, or its tables are malformed | six-bit addresses, images in the middle, at both ends and past the end of the address space, up to four dynamic entries and three relocations |
| `mkfat` | round trip, refused only when impossible; layout | up to three of seven files in three sizes, in every order; six image sizes: too small, FAT exactly full, one entry over, two clusters short, large enough, too large |

Deadlock is not checked where the system really stops: one call of the
translator, the planner, the relocator or `mkfat.py` returns; a boot ends when
the loader dies or halts, or with the kernel's self-test.

Fairness. `Pmm`, `MemoryMap`, `Boot` and `Console`: weak fairness of the
program's own steps, since a processor executes the next instruction; nothing
is assumed of callers or of the firmware. `Interrupts`: the chips pass requests
on and a handler that was entered runs to its end (weak); the processor looks
at INTR at every instruction boundary, so an interrupt that is enabled again
and again is taken (strong). `Kmain`: in addition the main line is not starved
(strong; a tick period is some ten thousand times a handler's length) and a PIT
that works keeps ticking (weak). `BootTest` assumes the same of the guest and
nothing of the harness.

### Findings

1. `pmm_tail`. `pmm_init` sets the cursor to `bm_last` (`pmm.c:113`). When the
   bitmap fills the last usable region, that is `highest_page`, which is not a
   tracked page. If `highest_page` is a multiple of eight the first
   `pmm_alloc_page` reads the byte after the bitmap, and if the bit is clear
   returns the page past the end of memory. If it is not a multiple of eight
   the bit is a padding bit, which is set, and nothing happens (a map of the
   `pmm` run). Nothing in the loader prevents such a map: whether usable memory
   ends at a multiple of eight pages is up to the firmware. In the `boot` run
   it never does, because the kernel lies in the page before the only such
   boundary.
2. `kmain`, `ComesUpUnlessDead`. `docs/kernel.md:51` says a kernel that cannot
   demonstrate interrupt delivery panics. `sleep_ticks` waits for the ticks
   without a bound (`main.c:134`), so the test after it (`main.c:136`) cannot
   fail, and with a dead timer the kernel hangs in silence. The property says
   when the kernel comes up; its second half is this case, and the run shows
   that nothing but an NMI, or the power switch, ends the wait.
3. `memory_map`, `ReturnsUnlessCrossed`. When a kernel segment goes on behind
   the end of a loader descriptor, the inner loop of the translator cuts out
   the part inside and leaves `cursor == end`; `next_kernel_segment` still
   finds the segment (`page_end > cursor`, `page_base < end`), both ranges are
   empty, and the loop never ends (`memory_map.c:222`). It happens on a valid
   map in which two loader descriptors share the segment, and on a map that
   should give `SYPAS_MAP_ERR_KERNEL_NOT_TAGGED`; `docs/boot-protocol.md:140`
   promises a message and a halt for every loader failure. The property says
   exactly when the call returns, and the run shows both halves of it; a plan
   of one-page segments never meets the second. It came up in the proof: the
   step that cuts a segment out could not be shown to move the cursor. A
   compiled `memory_map.c` behaves the same. The safety theorems of section 4
   hold in this case too. Stopping when `cursor == end` repairs it. `Loader`
   does not meet it, because its firmware reports one descriptor per run of
   pages of one type; so `Decides` in the `boot` run says nothing about it.
4. `boot_test_panic`. `boot_test.py:12` and `docs/testing.md:37` say that the
   boot test fails on `SYPAS KERNEL PANIC` and `SYSTEM STATUS: HALTED`. In
   normal mode `run_one` looks for RUNNING first (`boot_test.py:126`) and stops
   at the first match, so a transcript with both passes. The run finds it: an
   NMI after RUNNING, within the quarter of a second until the log is read
   again. `VerdictTruthfulUnlessNmi`, in the `kmain` run, shows that this is the
   only way: no failed check, dead timer or injected fault passes. Looking for
   `FAIL_MARKS` first repairs it, but for a panic after the last read.

## 4. Proofs

Every theorem is about the specification the runs check, for every value of the
constants that satisfies the named assumptions; where a bound is a constant
(counters, events, descriptors), for every bound. Each of them rests on an
inductive invariant, a conjunction of named parts that TLC checked on a run's
instance before it was proved, with one lemma per action.

### PmmProofs

`PmmProofs` proves, for every set of well-formed maps, every size of the low
area (at least eight pages; 256 in the source), of a page and of the counters:

* `TypeCorrect`: `[]TypeOK`;
* `ReservedSafe`: `[](ReservedStaysAllocated /\ HandedOutFromPool)`;
* `CountersExact`: `[]FreePagesExact`;
* `ScanComplete`: `[]ExhaustedOnlyWhenFull`;
* `Refinement`: `Spec => PA!Spec`, the bitmap allocator implements
  `PageAllocator`.

Assumptions: `MapsAssumption` (entries sorted and disjoint, which the
translator guarantees, its `OutputContract`), `LowPagesAssumption`,
`PageBytesAssumption`, `MaxU64Assumption` (no address overflows), and, in the
theorems themselves, `NoTailPlacement`: no map makes the bitmap end at the
highest page when that is a multiple of eight. The first finding shows that
the theorems fail without it.

The argument. The properties are not inductive: that exhaustion means full
depends on what the scan has passed. `IInv` adds the layout `pmm_init`
establishes, that every clear bit belongs to the pool, that the counter is the
size of the pool's free part, and `Covered`: during a scan, every page of the
pool between the position where the scan started and the cursor (around the
wrap) is taken. A byte skip covers eight pages at once; a wrap that lands
inside the first byte leaves out only pages below eight, which belong to the
low area, and this is why `LowPages >= 8` is needed. The induction step has one
lemma per action. The counters use the cardinality theorems of
`FiniteSetTheorems` for adding and removing one page. For the refinement,
`pmm_init` maps to `Start`, the iteration that takes a page to `Allocate`, the
end of the loop to `Exhaust` (by `ScanComplete`), a free to `Release`, a panic
to `Halt`, and every other step to a stutter.

### MemoryMapProofs

* `OutputIsSound`: `[]OutputContract`;
* `OwnershipIsExact`: `[]ExactOwnership`;
* `VerdictIsExact`: `[]VerdictExact`. `SYPAS_MAP_OK` is returned only for a
  `ValidReport`, whatever the plan; and with a plan that is `WellPlanned` (what
  `ElfPlanProofs` proves of `elf_plan_load`'s) and the room `efi_main` provides,
  for every such report.

Assumptions: descriptors and segments have 64-bit fields, a page has at least
one byte and fits the address space. Nothing is assumed of the report or of the
plan: segments may overlap, be unaligned or empty.

The argument. `MInv` says that the sorted array is a rearrangement of the
report (`Rearranged`, a bijection of positions), that the descriptors behind
the current one are valid, in order and apart (`Checked`), that the output is
sound (`Sound`), and that the output gives every byte of the descriptors behind,
and of the current one up to the cursor, the type it should have, and nothing
else a type (`Owned`). `AppendEffect` is the lemma about `append` that the
steps share. `Counted` is what the final comparison needs: the bytes expected
are the cardinality of the set of pairs (segment, byte of it), the bytes tagged
that of the set of bytes that are `KERNEL` in the output. At the end the tagged
bytes are a subset of the plan's bytes, which are an image of the pairs; as the
two cardinalities are equal, all three sets have the same size, and every byte
of the plan is tagged (`AllTagged`). So comparing two sums, as the code does,
is enough, and a plan whose segments overlap is always refused.

That no valid report is refused needs a second invariant. `VInv` says of a
proper input that no error has been returned, that the array is sorted, that no
segment goes on behind a loader descriptor that has been left (`Uncrossed`), and
that `Len(out) <= i - 1 + 2 * Cardinality(Cut(cursor))`, `Cut` being the
segments that start below the cursor: a turn of the inner loop that appends
something puts one more segment there, so the array never is full.
`CountsAgree` then shows that the two byte counts are equal at the end, again
by comparing cardinalities. The call may still fail to return (finding 3);
whether it does is left to TLC.

### ElfPlanProofs

* `PlanIsSound`: `[]PlanSound`;
* `VerdictIsExact`: `[]PlanExact`;
* `ImageIsLoaded`: `[]LoadedImage`.

Assumptions: the types of headers and constants, and `PowerAssumption`: every
power of two up to the width of an address is positive and divides the size of
the address space. That is true of every `Width`, but a statement about
`2^k` for all `k`, which the provers do not know; TLC evaluates it on the run's
constants. It is used for `p_align`, because the code compares
`p_paddr - p_offset` modulo `p_align` with wrapping subtraction.

The argument. `EInv` says which headers have been looked at (`Judged`: all of
them are good so far, and the plan's segments are in one to one correspondence
with those that occupy memory), what the segments look like (`Shaped`: inside
the span, in pages, pairwise `Apart`), and what is in memory (`Loading`: the
pages of the segments loaded so far hold their bytes and zeros, all others are
as they were). The comparison of span and limit at the end uses the least and
greatest page, which exist because the set of segments is finite; the sums that
may wrap are compared with the unbounded ones the specification uses.

### LoaderProofs

* `BootRunsLoader`: a behaviour of `Boot` is one of `Loader`, so the others are
  stated for `BootSpec`;
* `RecoveryPairOnly`: `[]OnlyRecoveryPair`;
* `HandoffIsExact`: `[]HandoffMapExact`;
* `PagesAreOwned`: `[]HandoffPagesOwned`;
* `RoomIsEnough`: `[]RoomForTranslation`;
* `KernelKeepsToItsMemory`: `[](~KP!TailPlacement(map) => KernelOwnMemory)`;
* `SelftestVerdictIsRight`: `[](~KP!TailPlacement(map) => VerdictRight)`.

The last two are about loader and kernel together. Their hypothesis is the one
of `PmmProofs`, here on the map the kernel got: before that both hold anyway,
and on a map of the first finding they are false.

Assumptions: `LoaderAssumption` and `ImageAssumption` (types; at most sixteen
segments, which `elf_plan_load` enforces), and `StrideAssumption`: two
descriptor sizes differ by a factor of eight at most, and the slack covers the
rounding to pages. Real descriptors have 40 to 48 bytes, and the second part is
true of any of 40 bytes or more with the code's `PageBytes` of 4096 and `Slack`
of 32. Without the first a firmware that changes from huge to small descriptors
between the sizing and the final map could report more than the output array
holds; the translator would refuse that map.

The argument. In `LInv`, `Keyed` relates keys to snapshots: a key that is still
current belongs to a map that is, and before `ExitBootServices` the translation
is that of the last map fetched. `Recovery` keeps the loader in the retry loop
after the first failure. `Accounted` says that the pages of type loader are
exactly the image, the segments placed so far and the four buffers, no two of
which share a page; firmware callbacks cannot touch them. `Sized` relates both
capacities to one count of descriptors.

For the kernel, `PmmProofs` is instantiated with `BootMaps`, the maps that
`Entries` makes of any assignment of types to pages, and its assumptions are
proved of them: the starts of the runs, numbered by rank, are in address order,
each run ends where the next starts, all its pages have one type and every page
is in a run (`EntriesWellFormed`, `EntriesUsable`). The kernel's pages were
loader memory when boot services ended, so the pages offered are exactly the
conventional ones (`HandedOver`). `KInv` carries `IInv` and `TInv` of
`PmmProofs` along; once the kernel runs neither loader nor firmware takes a
step (`LoaderGone`). `TInv` describes `pmm_selftest`: while it allocates, the
pages owned are the distinct ones it holds, plus the one just returned; with
the last one their number shows that the pool has `ST_PAGES` pages, and a
refusal means that it holds the whole pool (`HeldCount`); the patterns written
stay, since no page comes twice; each page it frees is still allocated, so
`pmm_free_page` does not panic; and at the end the counter is what it was.

### KernelProofs

* `NothingStaysInService`, `EoisMatch`, `HandlersExact`: the three safety
  properties of `Interrupts`, for every set of devices;
* `ChecksAreHonest`, `NothingUnarmed`: those of `Kmain`, for every set of
  machines;
* `VerdictIsTruthful`: `[]VerdictTruthfulUnlessNmi` of `BootTest`; `PanicFails`
  is false (finding 4).

Assumptions: IRQ numbers from 0 to 15, and bounds large enough for what kmain
waits for (`KmainAssumption`).

The argument. `ServiceInv` says what is in service on the two chips for each
way into a dispatch: a real interrupt of the master, one of the slave (with the
cascade), the two spurious vectors and the test vector; the EOIs of
`isr_dispatch` undo each. `KInv` adds the main line: which lines are open and
which handlers installed at each step (`Masked`), the tables (`Armed`), the
test interrupts counted one by one (`Tested`), where ticks come from and when
the sleep may end (`Timed`), and what each check has established (`Justified`).
`TInv` adds the order of a panic's marks in the log.

### RelocProofs

* `StaysInside`: `[]InsideImage`;
* `RelocatesOrRefuses`: `[]RelocatedOrMalformed`.

Assumptions: sizes are positive and the fields of images, dynamic entries and
relocations have `Width` bits. `RInv` says which bounds have been checked when
(`GoodImage`, `GoodTable`) and that every relocation read has been applied, and
still holds unless a later one overlaps it (`Applied`).
The contents of the tables are read anew at each step, so that a relocation may
rewrite the table it comes from.

### BootinfoProofs

* `CorruptionIsDetected`: `[]CorruptionDetected`;
* `Acpi20IsPreferred`: `[]PrefersAcpi20`;
* `ColoursAreShown`: `[]ScreenShowsColours`.

Assumptions: `AcpiAssumption` (the lengths are ordered as in the source, and
`MAX_LENGTH < ByteSize`: the model keeps a table's length in one byte, where the
source has four and a bound of 4096) and `BootinfoAssumption` (a
scan line is no shorter than the visible part of it).

The argument. The checksum is a loop that adds bytes. That two tables which
differ in one byte have different sums (`IsSum`) is an induction over the
number of bytes added; it is done with a set of counter-examples, which would
have a least element. `BInv` says what the search has seen (`Searching`): the
1.0 table remembered is a valid one of those behind, and none of them was a
valid 2.0 table; that the bootinfo describes the mode of the adapter
(`Described`); and that every pixel of the screen holds the native form of the
colour last asked of it (`Painted`). Two pixels never share memory, because the
pitch is at least the width.

### ConsoleProofs

* `StaysOnScreen`: `[]InsideFramebuffer`;
* `PanicIsComplete`: `[]PanicTextComplete`;
* `ScreenIsRight`: `[]ScreenShowsText`.

Assumptions: `ConsoleAssumption`: a framebuffer that is accepted has room for
one cell and its pitch is no less than its width, which the loader's modes
satisfy; two sinks can be registered (`kmain` registers two, the source has
room for four).

The argument. `Tracked`, in `FInv`, says where the cursor can be before each
store of `fbcon_putc`. After a panic interrupts it the cursor may be past the
last column or row, and then the panic's first newline is still on its way to
fbcon (`NewlinePending`), through the serial sink and its polling; nothing is
drawn before it arrives.

`PInv` adds who is registered and how far the panic's text has come: what is on
the wire and on the screen are prefixes of it (`Progress`), one character apart
while one is `OnItsWay` through the sinks. The wire's text is defined by a
recursion over the text; a lemma says that it is the only solution of its
recurrence, and the steps use the recurrence.

`SInv` compares the screen with a typewriter that never scrolls (`Paper`), row
by row from the cursor up (`Shows`). Between the stores of `fbcon_putc` the
screen shows the paper before or after the character, and during a scroll the
rows copied so far show the one and the others the other (`Halfway`). A panic
answers only for its own lines from the second on, as it may strike in the
middle of a row or of a scroll; its cursor is right from its first newline on
(`Steady`).

### Only model-checked

* Liveness (`AllocReturns`, `ReturnsUnlessCrossed`, `Decides`, `TimerServed`,
  `ComesUpUnlessDead`, `PanicHalts`): out of the prover's reach.
* `PrintedReadsBack`: that the digits of a number, read in their base, give it
  back takes products of powers of the base, which the provers do not find.
* `RoundTrip` and `LayoutSound` of `MkFat`: about trees of files, walked by
  recursion; they would need an induction over that data.

## 5. Not modelled, and the plan

Not modelled, and why:

* `cpu.c`: decodes CPUID registers for two lines of output that no step reads;
* the BIOS stub: prints a message and halts;
* `mkiso.py`, version, path and environment tools: hand fixed structures to a
  library or compare files, without state of their own;
* the benchmark `run.py`: repeats the loop of the boot test for its timings;
* the font: data; a glyph is any set of points in `Bootinfo`;
* `efi.h` and the layout of `sypas_bootproto.h`: offsets and sizes, which the
  compiler's static assertions compare;
* `pmm_free_page` of a reserved page: accepted by the code, called by nobody,
  and no document says what it should do.

What is left to prove are the last two entries of section 4's last list. The
models should change with the four findings: with `cursor` reduced modulo
`highest_page` in `pmm_init` the hypothesis about `TailPlacement` goes away;
with a bound on the wait in `sleep_ticks` the second half of
`ComesUpUnlessDead` becomes a panic; with a test for `cursor == end` in the
translator `ReturnsUnlessCrossed` becomes termination; and with the failure
marks looked for first, `PanicFails` becomes an invariant of the `kmain` run.
