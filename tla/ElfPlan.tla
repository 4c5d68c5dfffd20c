-------------------------------- MODULE ElfPlan --------------------------------
(***************************************************************************)
(* bootloader/uefi/elf.c and load_kernel_elf of bootloader/uefi/main.c:    *)
(* the kernel image is validated into a load plan, one program header at a *)
(* time, and the plan is executed, one segment at a time.                  *)
(*                                                                         *)
(* Memory is byte addressed.  What a byte of memory holds is the offset of *)
(* the file's byte that was copied there, so that what was loaded can be   *)
(* compared with what the program headers ask for.                         *)
(***************************************************************************)
EXTENDS Integers, Sequences, FiniteSetsExt

CONSTANTS
    ELF_PAGE,             \* page size, a power of two
    Width,                \* bits of an address: 64
    ELF_MAX_SEGMENTS,
    ELF_MAX_KERNEL_SPAN,
    PhdrBytes,            \* sizeof(Elf64_Phdr)
    FileSize,             \* fsize
    Headers,              \* the ELF headers a file may start with
    Phdrs,                \* the program headers it may contain
    MaxPhdrs              \* bound on e_phnum

MaxU64 == 2 ^ Width - 1
U64 == 0 .. MaxU64
PowersOfTwo == {2 ^ n : n \in 0 .. (Width - 1)}

\* first: the first of the ten checks on the header's fixed fields that
\* fails, "OK" if none does.
Header == [first : STRING, e_phoff : U64, e_entry : U64]
Phdr == [p_type : STRING, p_flags : SUBSET {"R", "W", "X", "other"},
         p_offset : U64, p_vaddr : U64, p_paddr : U64, p_filesz : U64,
         p_memsz : U64, p_align : U64]

ASSUME ElfAssumption ==
    /\ Width \in Nat \ {0}
    /\ ELF_PAGE \in PowersOfTwo /\ FileSize \in U64
    /\ ELF_MAX_SEGMENTS \in Nat /\ ELF_MAX_KERNEL_SPAN \in Nat
    /\ PhdrBytes \in Nat \ {0} /\ MaxPhdrs \in Nat
    /\ Headers \subseteq Header /\ Phdrs \subseteq Phdr

\* What is used of the powers of two; it is so for every Width.
ASSUME PowerAssumption ==
    /\ MaxU64 \in Nat /\ 1 \in PowersOfTwo
    /\ \A q \in PowersOfTwo : q \in Nat \ {0} /\ (MaxU64 + 1) % q = 0

VARIABLES
    pc,          \* "header", "segments", "load", "done", "dead"
    status,      \* elf_status_t
    eh, ph,      \* the file: its header and its program header table
    i,           \* program header, then segment to load
    segs, phys_base, phys_end, entry,   \* the plan
    mem          \* what each byte of physical memory holds

file == <<eh, ph>>
plan == <<segs, phys_base, phys_end, entry>>
vars == <<pc, status, file, i, plan, mem>>

Untouched == -2
Zero == -1

--------------------------------------------------------------------------------
(* elf_plan_load *)

\* A list of <<status, failed>> pairs in the order the code makes the checks.
FirstError(checks) ==
    LET failed == {k \in DOMAIN checks : checks[k][2]}
    IN  IF failed = {} THEN "OK" ELSE checks[Min(failed)][1]

Return(s) == pc' = "done" /\ status' = s

HeaderChecks ==
    <<<<eh.first, eh.first # "OK">>,
      <<"ERR_NO_SEGMENTS", ph = << >>>>,
      <<"ERR_PHDR_BOUNDS", \/ eh.e_phoff + Len(ph) * PhdrBytes > MaxU64
                           \/ eh.e_phoff + Len(ph) * PhdrBytes > FileSize>>>>

CheckHeader ==
    /\ pc = "header"
    /\ IF FirstError(HeaderChecks) = "OK"
       THEN pc' = "segments" /\ i' = 1 /\ UNCHANGED status
       ELSE Return(FirstError(HeaderChecks)) /\ UNCHANGED i
    /\ UNCHANGED <<file, plan, mem>>

\* (a - b) & (align - 1), where a - b may wrap.
Residue(a, b, align) == ((a - b) % (MaxU64 + 1)) % align

\* The rules every PT_LOAD must meet, empty ones too.
PolicyChecks(h) ==
    <<<<"ERR_SEG_SIZES", h.p_filesz > h.p_memsz>>,
      <<"ERR_SEG_ALIGN", /\ h.p_align > 1
                         /\ \/ h.p_align \notin PowersOfTwo
                            \/ Residue(h.p_vaddr, h.p_offset, h.p_align) # 0>>,
      <<"ERR_SEG_VADDR", h.p_vaddr # h.p_paddr>>,
      <<"ERR_SEG_FLAGS", "other" \in h.p_flags \/ {"W", "X"} \subseteq h.p_flags>>>>

PageDown(a) == a - (a % ELF_PAGE)

\* Mutant: the end of a segment is not rounded up.
PageEndExact(h) == h.p_paddr + h.p_memsz

PageEnd(h) == PageDown(h.p_paddr + h.p_memsz + ELF_PAGE - 1)

\* elf_segment_t; memsz is not used after planning.
SegmentOf(h) ==
    [paddr |-> h.p_paddr, page_base |-> PageDown(h.p_paddr),
     page_end |-> PageEnd(h), offset |-> h.p_offset, filesz |-> h.p_filesz,
     flags |-> h.p_flags]

\* Mutants: segments overlap only when their bytes do; when they touch.
OverlapsBytes(s) ==
    \E j \in DOMAIN segs : /\ s.paddr < segs[j].paddr + segs[j].filesz
                           /\ segs[j].paddr < s.paddr + s.filesz
OverlapsTouching(s) ==
    \E j \in DOMAIN segs : /\ s.page_base <= segs[j].page_end
                           /\ segs[j].page_base <= s.page_end

Overlaps(s) ==
    \E j \in DOMAIN segs : /\ s.page_base < segs[j].page_end
                           /\ segs[j].page_base < s.page_end

\* What a PT_LOAD that occupies memory must meet besides.
RangeChecks(h) ==
    <<<<"ERR_TOO_MANY_SEGS", Len(segs) = ELF_MAX_SEGMENTS>>,
      <<"ERR_SEG_OVERFLOW", h.p_offset + h.p_filesz > MaxU64>>,
      <<"ERR_SEG_BOUNDS", h.p_offset + h.p_filesz > FileSize>>,
      <<"ERR_SEG_OVERFLOW", h.p_paddr + h.p_memsz > MaxU64>>,
      <<"ERR_SEG_OVERFLOW", h.p_paddr + h.p_memsz + ELF_PAGE - 1 > MaxU64>>,
      <<"ERR_SEG_OVERLAP", Overlaps(SegmentOf(h))>>>>

HeaderError(h) ==
    IF h.p_type # "PT_LOAD" THEN "OK"
    ELSE IF h.p_memsz = 0 THEN FirstError(PolicyChecks(h))
    ELSE FirstError(PolicyChecks(h) \o RangeChecks(h))

Refuse(h) ==
    /\ HeaderError(h) # "OK"
    /\ Return(HeaderError(h))
    /\ UNCHANGED <<i, plan>>

Occupies(h) == h.p_type = "PT_LOAD" /\ h.p_memsz > 0

Skip(h) ==
    /\ HeaderError(h) = "OK"
    /\ ~Occupies(h)
    /\ i' = i + 1
    /\ UNCHANGED <<pc, status, plan>>

Accept(h) ==
    /\ HeaderError(h) = "OK"
    /\ Occupies(h)
    /\ segs' = Append(segs, SegmentOf(h))
    /\ phys_base' = Min({phys_base, PageDown(h.p_paddr)})
    /\ phys_end' = Max({phys_end, PageEnd(h)})
    /\ i' = i + 1
    /\ UNCHANGED <<pc, status, entry>>

PlanHeader ==
    /\ pc = "segments"
    /\ i <= Len(ph)
    /\ Refuse(ph[i]) \/ Skip(ph[i]) \/ Accept(ph[i])
    /\ UNCHANGED <<file, mem>>

EntryIn(s) ==
    /\ "X" \in s.flags
    /\ s.paddr <= eh.e_entry /\ eh.e_entry < s.paddr + s.filesz

FinalChecks ==
    <<<<"ERR_NO_SEGMENTS", segs = << >>>>,
      <<"ERR_TOO_BIG", phys_end - phys_base > ELF_MAX_KERNEL_SPAN>>,
      <<"ERR_ENTRY", \A k \in DOMAIN segs : ~EntryIn(segs[k])>>>>

FinishPlan ==
    /\ pc = "segments"
    /\ i > Len(ph)
    /\ entry' = IF FirstError(FinalChecks) \in {"OK", "ERR_ENTRY"}
                 THEN eh.e_entry ELSE entry
    /\ IF FirstError(FinalChecks) = "OK"
       THEN pc' = "load" /\ i' = 1 /\ UNCHANGED status
       ELSE Return(FirstError(FinalChecks)) /\ UNCHANGED i
    /\ UNCHANGED <<file, segs, phys_base, phys_end, mem>>

--------------------------------------------------------------------------------
(* load_kernel_elf: clear the segment's pages, then copy from the file. *)

Loaded(s) ==
    [a \in U64 |->
       IF s.paddr <= a /\ a < s.paddr + s.filesz THEN s.offset + (a - s.paddr)
       ELSE IF s.page_base <= a /\ a < s.page_end THEN Zero
       ELSE mem[a]]

LoadSegment ==
    /\ pc = "load"
    /\ i <= Len(segs)
    /\ mem' = Loaded(segs[i])
    /\ i' = i + 1
    /\ UNCHANGED <<pc, status, file, plan>>

\* The firmware has given the segment's pages to someone else.
LoadRefused ==
    /\ pc = "load"
    /\ i <= Len(segs)
    /\ pc' = "dead"
    /\ UNCHANGED <<status, file, i, plan, mem>>

LoadDone ==
    /\ pc = "load"
    /\ i > Len(segs)
    /\ Return("OK")
    /\ UNCHANGED <<file, i, plan, mem>>

--------------------------------------------------------------------------------
Init ==
    /\ pc = "header" /\ status = "OK" /\ i = 0
    /\ eh \in Headers
    /\ \E n \in 0 .. MaxPhdrs : ph \in [1 .. n -> Phdrs]
    /\ segs = << >> /\ phys_base = MaxU64 /\ phys_end = 0 /\ entry = 0
    /\ mem = [a \in U64 |-> Untouched]

Next ==
    \/ CheckHeader \/ PlanHeader \/ FinishPlan
    \/ LoadSegment \/ LoadRefused \/ LoadDone

Spec == Init /\ [][Next]_vars

--------------------------------------------------------------------------------
(* Properties *)

\* What AllocatePages and the map translator rely on (elf.c:132), at every
\* moment of planning: room in the array, whole pages, no page in two
\* segments, none outside phys_base .. phys_end.
PlanSound ==
    /\ Len(segs) <= ELF_MAX_SEGMENTS
    /\ \A k \in DOMAIN segs :
         /\ segs[k].page_base % ELF_PAGE = 0 /\ segs[k].page_end % ELF_PAGE = 0
         /\ phys_base <= segs[k].page_base /\ segs[k].page_base < segs[k].page_end
         /\ segs[k].page_end <= phys_end
    /\ \A a \in U64 :
         Cardinality({k \in DOMAIN segs :
             segs[k].page_base <= a /\ a < segs[k].page_end}) <= 1

PageRange(h) == {p \in 0 .. (MaxU64 \div ELF_PAGE) :
    /\ (p + 1) * ELF_PAGE > h.p_paddr
    /\ p * ELF_PAGE < h.p_paddr + h.p_memsz}
Occupying == {k \in DOMAIN ph : Occupies(ph[k])}
KernelPages == UNION {PageRange(ph[k]) : k \in Occupying}

LoadOk(h) ==
    /\ h.p_filesz <= h.p_memsz
    /\ h.p_vaddr = h.p_paddr
    /\ h.p_align \in {0} \union PowersOfTwo
    /\ h.p_align > 1 => (h.p_vaddr - h.p_offset) % h.p_align = 0
    /\ h.p_flags \subseteq {"R", "W", "X"} /\ ~({"W", "X"} \subseteq h.p_flags)
    /\ h.p_memsz > 0 =>
         /\ h.p_offset + h.p_filesz <= FileSize
         /\ \A p \in PageRange(h) : (p + 1) * ELF_PAGE <= MaxU64
         /\ h.p_paddr + h.p_memsz <= MaxU64

\* A SYPAS v1 kernel image (elf.h:11), with no order of checks in it.
GoodImage ==
    /\ eh.first = "OK"
    /\ eh.e_phoff + Len(ph) * PhdrBytes <= FileSize
    /\ \A k \in DOMAIN ph : ph[k].p_type = "PT_LOAD" => LoadOk(ph[k])
    /\ Cardinality(Occupying) \in 1 .. ELF_MAX_SEGMENTS
    /\ \A j, k \in Occupying :
         j # k => PageRange(ph[j]) \intersect PageRange(ph[k]) = {}
    /\ (Max(KernelPages) + 1 - Min(KernelPages)) * ELF_PAGE <= ELF_MAX_KERNEL_SPAN
    /\ \E k \in Occupying :
         /\ "X" \in ph[k].p_flags
         /\ eh.e_entry - ph[k].p_paddr \in 0 .. (ph[k].p_filesz - 1)

\* elf.h:11: "returns ELF_OK only if every offset, size, address, alignment
\* and permission in the file has been proven valid", and every good image
\* is accepted.
PlanExact ==
    /\ pc \in {"load", "dead"} => GoodImage
    /\ pc = "done" => (status = "OK" <=> GoodImage)

\* When the kernel is loaded, memory is what the program headers say: the
\* file's bytes, zeros behind them, and nothing outside the kernel's pages.
\* Clearing one segment's pages never wipes another segment, and the kernel
\* is entered at a byte of the file, on executable pages ("never in a
\* non-executable segment or a zero-filled BSS tail", elf.c:153).
LoadedImage ==
    pc = "done" /\ status = "OK" =>
        /\ \A a \in U64 :
             LET users == {h \in {ph[k] : k \in Occupying} :
                             a - h.p_paddr \in 0 .. (h.p_memsz - 1)}
             IN  /\ \A h \in users :
                      mem[a] = IF a - h.p_paddr < h.p_filesz
                               THEN h.p_offset + (a - h.p_paddr) ELSE Zero
                 /\ users = {} => mem[a] \in {Zero, Untouched}
                 /\ a \div ELF_PAGE \notin KernelPages => mem[a] = Untouched
        /\ mem[entry] \in 0 .. (FileSize - 1)
        /\ \A k \in Occupying :
             entry \div ELF_PAGE \in PageRange(ph[k]) => "X" \in ph[k].p_flags

================================================================================
