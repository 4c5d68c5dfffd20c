---------------------------------- MODULE Boot ----------------------------------
(***************************************************************************)
(* From power-on to a working allocator: the UEFI loader of Loader, on a   *)
(* firmware that changes its map at any moment, hands the map over, and    *)
(* the kernel of PmmSelftest starts from it.  The loader trusts the        *)
(* firmware's map; the kernel trusts the loader's.                         *)
(***************************************************************************)
EXTENDS Loader

CONSTANTS
    LowPages,      \* pages below 1 MiB
    BitmapPage,    \* bytes of bitmap that a page holds
    MaxU64,
    ST_PAGES       \* pages the self-test allocates

ASSUME BootAssumption ==
    /\ LowPages \in Nat /\ LowPages >= 8 /\ BitmapPage \in Nat \ {0}
    /\ MaxU64 \in Nat /\ MaxU64 >= NPages /\ ST_PAGES \in Nat \ {0}

VARIABLES
    \* pmm.c
    status, map, highest_page, bitmap_bytes, bm_first, bitmap, free_pages,
    usable_pages, allocator_pages, cursor, scanned, ret,
    \* pmm_selftest
    step, i, got, before, word

K == INSTANCE PmmSelftest WITH Maps <- {}, PageBytes <- BitmapPage

layout == <<highest_page, bitmap_bytes, bm_first, bitmap, free_pages,
            usable_pages, allocator_pages, cursor, scanned, ret>>
test == <<step, i, got, before>>
kernel == <<status, map, layout, test, word>>
bootvars == <<vars, kernel>>

--------------------------------------------------------------------------------
(* The map in the bootinfo: one entry per run of pages of one type. *)

\* Mutant: the kernel takes over the loader's memory too.
LoaderUsable(t) == IF t \in {"USABLE", "LOADER"} THEN "usable" ELSE "reserved"

\* The types of the entries, as far as the kernel tells them apart.
KernelType(t) == IF t = "USABLE" THEN "usable" ELSE "reserved"

Starts(m) == {p \in Page : p = 0 \/ m[p] # m[p - 1]}
EntryAt(m, p) ==
    LET later == {q \in Starts(m) : q > p} \union {NPages}
    IN  [base |-> p, type |-> KernelType(m[p]),
         length |-> (CHOOSE q \in later : \A r \in later : q <= r) - p]
Entries(m) ==
    [k \in 1 .. Cardinality(Starts(m)) |->
       EntryAt(m, CHOOSE p \in Starts(m) :
                    Cardinality({q \in Starts(m) : q <= p}) = k)]

\* The jump to the kernel's entry with RDI = bootinfo; kmain reads bi->memmap.
EnterKernel ==
    /\ pc = "kernel" /\ status = "off"
    /\ status' = "boot"
    /\ map' = Entries(smap)
    /\ word' = [p \in {0} \union K!UsablePages(map') |-> -1]
    /\ UNCHANGED <<vars, layout, test>>

\* kmain: panic("pmm: self-test failed")
SelftestFailed ==
    /\ status = "idle" /\ step = "fail"
    /\ K!Panic
    /\ UNCHANGED <<map, layout, test, word>>

KernelStep == (K!Boot \/ K!Selftest \/ SelftestFailed) /\ UNCHANGED vars

BootInit ==
    /\ Init
    /\ status = "off" /\ map = << >>
    /\ highest_page = 0 /\ bitmap_bytes = 0 /\ bm_first = 0 /\ bitmap = {}
    /\ free_pages = 0 /\ usable_pages = 0 /\ allocator_pages = 0
    /\ cursor = 0 /\ scanned = 0 /\ ret = 0
    /\ step = "off" /\ i = 0 /\ got = << >> /\ before = 0 /\ word = << >>

BootNext ==
    \/ LoaderStep /\ UNCHANGED kernel
    \/ FirmwareEvent /\ UNCHANGED kernel
    \/ EnterKernel
    \/ KernelStep

\* The processor keeps running; the firmware owes it nothing.
BootSpec ==
    /\ BootInit /\ [][BootNext]_bootvars
    /\ WF_vars(LoaderStep) /\ WF_kernel(EnterKernel) /\ WF_kernel(KernelStep)

--------------------------------------------------------------------------------
(* Properties *)

\* The kernel works in its own memory, although it only has the loader's word
\* for what that is: its map offers exactly the pages that were free when
\* boot services ended; the bitmap, every page handed out and every page the
\* self-test writes to (pmm.c:186) are among them, and apart from each other.
\* None is the firmware's, the kernel's image or the stack it runs on.
KernelOwnMemory ==
    LET free == {p \in Page : mem[p] = "conventional"}
    IN  /\ status = "boot" => K!WellFormedMap(map) /\ K!UsablePages(map) = free
        /\ K!Running =>
             /\ K!BitmapPages \subseteq free
             /\ ret # 0 => ret \in free \ K!BitmapPages
             /\ step \in {"write", "verify"} =>
                  \A k \in DOMAIN got : got[k] \in K!Owned

\* The self-test's verdict is right on every memory map the loader can leave
\* (PmmSelftest): it passes exactly when the pool is large enough, and leaves
\* the allocator as it found it.
VerdictRight == K!VerdictRight

\* The boot always comes to an end, even if the firmware changes the map before
\* every attempt: the loader dies with a message or halts, or the kernel it
\* enters panics for lack of memory or passes its self-test.
Decides == <>(pc \in {"dead", "halted"} \/ status = "panic" \/ step = "pass")

================================================================================
