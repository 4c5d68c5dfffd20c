---------------------------------- MODULE Pmm ----------------------------------
(***************************************************************************)
(* kernel/mm/pmm.c: the bitmap page allocator.                             *)
(*                                                                         *)
(* Addresses are counted in pages: the boot map the allocator trusts is    *)
(* page aligned (bootloader/uefi/memory_map.h).  The bitmap is the set of  *)
(* the page numbers whose bit is 1, so a byte is eight consecutive page    *)
(* numbers and the bits past highest_page in the last byte are members     *)
(* too.  Nothing runs concurrently with the allocator (interrupt handlers  *)
(* do not call it), but pmm_alloc_page is modelled one loop iteration at a *)
(* time because what it skips is the interesting part.                     *)
(***************************************************************************)
EXTENDS Integers, Sequences, FiniteSets

CONSTANTS
    Maps,        \* the boot memory maps the loader may hand over
    LowPages,    \* pages below 1 MiB: 256 in the source
    PageBytes,   \* PAGE_SIZE: bytes of bitmap that one page holds
    MaxU64       \* the largest value of a counter

\* sypas_memmap_entry_t, base and length in pages.
Entry == [base : Nat, length : Nat \ {0},
          type : {"usable", "mmio", "reserved"}]

\* What sypas_translate_memory_map guarantees of the map: entries in
\* address order and disjoint.
WellFormedMap(m) ==
    /\ m \in Seq(Entry)
    /\ \A i, j \in DOMAIN m : i < j => m[i].base + m[i].length <= m[j].base

ASSUME MapsAssumption == \A m \in Maps : WellFormedMap(m)
ASSUME LowPagesAssumption == LowPages \in Nat /\ LowPages >= 8
ASSUME PageBytesAssumption == PageBytes \in Nat \ {0}
ASSUME MaxU64Assumption ==
    /\ MaxU64 \in Nat
    /\ \A m \in Maps : \A i \in DOMAIN m : m[i].base + m[i].length <= MaxU64

VARIABLES
    status,           \* "boot", "idle", "scan" (in pmm_alloc_page), "panic"
    map,              \* bi->memmap
    highest_page, bitmap_bytes,
    bm_first,         \* the page the bitmap starts at
    bitmap,           \* pages whose bit is 1 (allocated or reserved)
    free_pages, usable_pages, allocator_pages,
    cursor,           \* next-fit scan position
    scanned,          \* loop counter of pmm_alloc_page
    ret               \* its last result, as a page number; 0 is "exhausted"

layout == <<map, highest_page, bitmap_bytes, bm_first>>
vars == <<status, layout, bitmap, free_pages, usable_pages, allocator_pages,
          cursor, scanned, ret>>

--------------------------------------------------------------------------------
(* pmm_init *)

UsableEntries(m) == {i \in DOMAIN m : m[i].type = "usable"}
Pages(e) == e.base .. (e.base + e.length - 1)
UsablePages(m) == UNION {Pages(m[i]) : i \in UsableEntries(m)}

Ends(m) == {m[i].base + m[i].length : i \in UsableEntries(m)}

\* h is max_addr / PAGE_SIZE of pass 1.
IsHighest(m, h) == h \in Ends(m) /\ \A e \in Ends(m) : e <= h

\* Mutant: highest_page / 8, rounded down.
BitmapBytesRoundedDown(h) == h \div 8

\* ALIGN_UP(highest_page, 8) / 8
BitmapBytes(h) == (h + 7) \div 8

\* ALIGN_UP(bytes, PAGE_SIZE) / PAGE_SIZE
PagesFor(bytes) == (bytes + PageBytes - 1) \div PageBytes

\* A region with its part below 1 MiB skipped: where it starts, what is left.
SkippedBase(e) == IF e.base < LowPages THEN LowPages ELSE e.base
SkippedLength(e) == e.base + e.length - SkippedBase(e)

\* Pass 2 takes the region: its part above 1 MiB holds the bitmap.
Fits(e, bytes) ==
    /\ SkippedLength(e) > 0
    /\ SkippedLength(e) * PageBytes >= bytes

Fitting(m, bytes) == {i \in UsableEntries(m) : Fits(m[i], bytes)}

\* u64 decrement: free_pages-- below zero wraps.
Dec(n) == IF n = 0 THEN MaxU64 ELSE n - 1

\* The (range, page) pairs for which the clearing loop runs free_pages++.
Cleared(m) ==
    {x \in UsableEntries(m) \X UsablePages(m) :
       x[2] \in Pages(m[x[1]]) /\ x[2] # 0}

BitmapPages == bm_first .. (bm_first + PagesFor(bitmap_bytes) - 1)
LowArea == 0 .. (LowPages - 1)

\* Every tracked bit that the initialisation leaves clear.
Pool == (UsablePages(map) \ BitmapPages) \ LowArea

Panic == status' = "panic"

\* The map has no usable range, or none large enough for the bitmap.
InitPanic ==
    /\ status = "boot"
    /\ \/ UsableEntries(map) = {}
       \/ \E h \in Ends(map) :
            IsHighest(map, h) /\ Fitting(map, BitmapBytes(h)) = {}
    /\ Panic
    /\ UNCHANGED <<layout, bitmap, free_pages, usable_pages, allocator_pages,
                   cursor, scanned, ret>>

\* Mutants: the last byte's padding is left clear; the bitmap's own pages are
\* not taken back; pages already marked are counted again.
PaddingLeftClear(h) == (0 .. (h - 1)) \ (UsablePages(map) \ {0})
BitmapPagesKept(h, first) == {p \in LowArea : p < h} \ PaddingLeftClear(h)
CountedTwice(h, first) ==
    (first .. (first + PagesFor(BitmapBytes(h)) - 1))
       \union {p \in LowArea : p < h}

\* Bits left at 1 by "everything starts reserved; free exactly the usable
\* ranges", and the pages the last two loops take back.
UnusableBits(h) == (0 .. (8 * BitmapBytes(h) - 1)) \ (UsablePages(map) \ {0})
TakenBack(h, first) ==
    ((first .. (first + PagesFor(BitmapBytes(h)) - 1))
       \union {p \in LowArea : p < h}) \ UnusableBits(h)

\* pmm_init past its checks, the bitmap placed in entry i of the map.
InitAt(h, i) ==
    LET first == SkippedBase(map[i])
        taken == TakenBack(h, first)
    IN  /\ highest_page' = h
        /\ bitmap_bytes' = BitmapBytes(h)
        /\ bm_first' = first
        /\ bitmap' = UnusableBits(h) \union taken
        /\ usable_pages' = Cardinality(Cleared(map))
        /\ free_pages' = Cardinality(Cleared(map)) - Cardinality(taken)
        /\ allocator_pages' = Cardinality(Cleared(map)) - Cardinality(taken)
        /\ cursor' = first + PagesFor(BitmapBytes(h))

\* pmm_init that returns: the bitmap goes to the first region that fits.
PmmInit ==
    /\ status = "boot"
    /\ \E h \in Ends(map) : \E i \in Fitting(map, BitmapBytes(h)) :
         /\ IsHighest(map, h)
         /\ \A k \in Fitting(map, BitmapBytes(h)) : i <= k
         /\ InitAt(h, i)
    /\ status' = "idle"
    /\ UNCHANGED <<map, scanned, ret>>

--------------------------------------------------------------------------------
(* pmm_alloc_page *)

Bits == 0 .. (8 * bitmap_bytes - 1)

AllocCall ==
    /\ status = "idle"
    /\ status' = "scan"
    /\ scanned' = 0
    /\ UNCHANGED <<layout, bitmap, free_pages, usable_pages, allocator_pages,
                   cursor, ret>>

\* Mutant: the byte test without (p & 7) == 0.
FullByteUnaligned(p, bits) == \A k \in 0 .. 7 : 8 * (p \div 8) + k \in bits

\* (p & 7) == 0 && bitmap[p >> 3] == 0xFF
FullByte(p, bits) == p % 8 = 0 /\ \A k \in 0 .. 7 : p + k \in bits

\* Mutants: skipping a byte does not count towards the loop; the page handed
\* out is not marked.
SkipUncounted(p, bits) ==
    /\ FullByte(p, bits)
    /\ cursor' = (p + 8) % highest_page
    /\ UNCHANGED <<status, bitmap, free_pages, ret, scanned>>

TakeUnmarked(p, bits) ==
    /\ ~FullByte(p, bits)
    /\ p \notin bits
    /\ cursor' = (p + 1) % highest_page
    /\ free_pages' = Dec(free_pages)
    /\ ret' = p
    /\ status' = "idle"
    /\ UNCHANGED <<scanned, bitmap>>

\* One iteration at page p, when the bytes it reads hold the given bits.
ScanSkip(p, bits) ==
    /\ FullByte(p, bits)
    /\ cursor' = (p + 8) % highest_page
    /\ scanned' = scanned + 8
    /\ UNCHANGED <<status, bitmap, free_pages, ret>>

ScanBusy(p, bits) ==
    /\ ~FullByte(p, bits)
    /\ p \in bits
    /\ cursor' = (p + 1) % highest_page
    /\ scanned' = scanned + 1
    /\ UNCHANGED <<status, bitmap, free_pages, ret>>

ScanTake(p, bits) ==
    /\ ~FullByte(p, bits)
    /\ p \notin bits
    /\ cursor' = (p + 1) % highest_page
    /\ bitmap' = bitmap \union {p}
    /\ free_pages' = Dec(free_pages)
    /\ ret' = p
    /\ status' = "idle"
    /\ UNCHANGED scanned

ScanAt(p, bits) == ScanSkip(p, bits) \/ ScanBusy(p, bits) \/ ScanTake(p, bits)

\* The bits a read at page p may find.  A page past the last byte of the
\* bitmap reads whatever that memory holds.
BitsRead(p) ==
    IF p \in Bits THEN {bitmap}
    ELSE {bitmap \union s : s \in SUBSET (p .. (p + 7))}

ScanStep ==
    /\ status = "scan"
    /\ scanned < highest_page
    /\ \E bits \in BitsRead(cursor) : ScanAt(cursor, bits)
    /\ UNCHANGED <<layout, usable_pages, allocator_pages>>

\* The loop ends without a page: return 0.
ScanExhausted ==
    /\ status = "scan"
    /\ scanned >= highest_page
    /\ status' = "idle"
    /\ ret' = 0
    /\ UNCHANGED <<layout, bitmap, free_pages, usable_pages, allocator_pages,
                   cursor, scanned>>

--------------------------------------------------------------------------------
(* pmm_free_page *)

\* The address is page p of memory, plus an offset when it is not aligned.
Free(p, aligned) ==
    /\ status = "idle"
    /\ IF aligned /\ p < highest_page /\ p \in bitmap
       THEN /\ bitmap' = bitmap \ {p}
            /\ free_pages' = free_pages + 1
            /\ UNCHANGED status
       ELSE /\ Panic
            /\ UNCHANGED <<bitmap, free_pages>>
    /\ UNCHANGED <<layout, usable_pages, allocator_pages, cursor, scanned, ret>>

\* Pages the kernel holds: handed out and not yet freed.
Owned == Pool \intersect bitmap

\* A caller frees what it was given, or makes a mistake pmm_free_page
\* promises to catch (docs/memory.md, "Failure modes tested").
FreeCall ==
    \E p \in 0 .. highest_page, aligned \in BOOLEAN :
        /\ aligned /\ p < highest_page /\ p \in bitmap => p \in Owned
        /\ Free(p, aligned)

--------------------------------------------------------------------------------
Init ==
    /\ status = "boot"
    /\ map \in Maps
    /\ highest_page = 0 /\ bitmap_bytes = 0 /\ bm_first = 0
    /\ bitmap = {}
    /\ free_pages = 0 /\ usable_pages = 0 /\ allocator_pages = 0
    /\ cursor = 0 /\ scanned = 0 /\ ret = 0

\* The kernel is halted for good once it has panicked.
Halted == status = "panic" /\ UNCHANGED vars

Next ==
    \/ InitPanic \/ PmmInit
    \/ AllocCall \/ ScanStep \/ ScanExhausted
    \/ FreeCall
    \/ Halted

Spec == Init /\ [][Next]_vars

\* The processor keeps executing a call that has begun.
FairSpec == Spec /\ WF_vars(ScanStep \/ ScanExhausted)

--------------------------------------------------------------------------------
(* Properties *)

Tracked == 0 .. (highest_page - 1)
Running == status \in {"idle", "scan"}

\* The variables have the types of the C declarations, the bitmap has a bit
\* for every tracked page and none beyond its last byte.
TypeOK ==
    /\ status \in {"boot", "idle", "scan", "panic"}
    /\ map \in Maps
    /\ highest_page \in Nat /\ bitmap_bytes \in Nat /\ bm_first \in Nat
    /\ highest_page <= 8 * bitmap_bytes
    /\ bitmap \in SUBSET Bits
    /\ free_pages \in 0 .. MaxU64
    /\ usable_pages \in 0 .. MaxU64 /\ allocator_pages \in 0 .. MaxU64
    /\ cursor \in 0 .. highest_page /\ scanned \in Nat /\ ret \in Nat

\* "Everything not SYPAS_MEM_USABLE stays permanently marked allocated"
\* (pmm.c:11), and so do the bitmap's own pages, the low 1 MiB and the bits
\* past highest_page in the last byte, through every sequence of calls.
ReservedStaysAllocated == Running => Bits \ bitmap \subseteq Pool

\* pmm_alloc_page hands out only usable pages the allocator does not itself
\* need: the same promise (pmm.c:11), seen by the caller.
HandedOutFromPool == ret # 0 => ret \in Pool

\* free_pages, decremented and incremented one page at a time, counts
\* exactly the clear bits; with the pages callers hold it makes up the
\* allocator_pages reported at boot.
FreePagesExact ==
    Running =>
        /\ free_pages = Cardinality(Tracked \ bitmap)
        /\ allocator_pages = free_pages + Cardinality(Owned)

\* pmm_alloc_page returns 0 only when no page is free, although the loop
\* steps over whole bytes, wraps by (p + 8) % highest_page, and so never
\* looks at the first pages after a wrap.
ExhaustedOnlyWhenFull ==
    status = "scan" /\ scanned >= highest_page => Pool \subseteq bitmap

\* Every call of pmm_alloc_page returns.
AllocReturns == status = "scan" ~> status = "idle"

\* The allocator does what its callers rely on.
PA == INSTANCE PageAllocator WITH
    phase <- CASE status = "boot" -> "off"
               [] status = "panic" -> "halted"
               [] OTHER -> "on",
    grant <- UsablePages(map),
    pool <- IF highest_page = 0 THEN {} ELSE Pool,
    owned <- IF highest_page = 0 THEN {} ELSE Owned,
    out <- ret

\* pmm_alloc_page and pmm_free_page implement a page allocator: a page has at
\* most one owner, comes from the usable memory of the boot map, and an
\* allocation is refused only when all are owned.
RefinesPageAllocator == PA!Spec

================================================================================
