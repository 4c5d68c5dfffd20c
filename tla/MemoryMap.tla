------------------------------- MODULE MemoryMap -------------------------------
(***************************************************************************)
(* bootloader/uefi/memory_map.c: validation of the firmware's memory map   *)
(* and its translation to the ownership map the kernel trusts.             *)
(*                                                                         *)
(* One call of sypas_translate_memory_map, one loop iteration at a time.   *)
(* Addresses are bytes, bounded by MaxU64.  The pointer-alignment check of *)
(* a descriptor is left out: the buffer is page aligned and the stride has *)
(* been checked to be a multiple of eight.  So are the overflow checks on  *)
(* sums of lengths that a validated, disjoint input cannot make overflow.  *)
(***************************************************************************)
EXTENDS Integers, Sequences, FiniteSetsExt

CONSTANTS
    PAGE_SIZE,
    MaxU64,       \* UINT64_MAX
    Descriptors,  \* the descriptors the firmware may report
    MaxDescs,     \* bound on their number in one map
    Plans,        \* the kernel's load plans: sequences of page ranges
    Capacities    \* the sizes of the caller's output array

\* EFI_MEMORY_DESCRIPTOR and elf_segment_t, the fields that matter here.
Descriptor == [PhysicalStart : 0 .. MaxU64, NumberOfPages : 0 .. MaxU64,
               Type : STRING]
Segment == [page_base : 0 .. MaxU64, page_end : 0 .. MaxU64]

ASSUME SizeAssumption ==
    /\ PAGE_SIZE \in Nat \ {0} /\ MaxU64 \in Nat /\ MaxDescs \in Nat
    /\ PAGE_SIZE <= MaxU64
ASSUME InputAssumption ==
    /\ Descriptors \subseteq Descriptor
    /\ Plans \subseteq Seq(Segment)
    /\ Capacities \subseteq Nat

VARIABLES
    pc,          \* "enter", "sort", "plan", "descriptor", "split", "done"
    status,      \* sypas_map_status_t
    reported,    \* the descriptors as the firmware wrote them
    efi_map,     \* the buffer that holds them, sorted in place
    strideOk,    \* descriptor_size and map_size are acceptable
    kernel,      \* kernel->segs
    out_capacity,
    out,         \* the output array; its length is count
    out_count,   \* what the caller sees
    i,           \* sort position, then segment, then descriptor index
    previous_end,
    cursor,      \* start of the part of descriptor i not yet emitted
    expected_kernel_bytes, tagged_kernel_bytes

inputs == <<reported, strideOk, kernel, out_capacity>>
sums == <<expected_kernel_bytes, tagged_kernel_bytes>>
vars == <<pc, status, efi_map, inputs, out, out_count, i, previous_end, cursor,
          sums>>

Aligned(a) == a % PAGE_SIZE = 0

Return(s) == pc' = "done" /\ status' = s

Enter ==
    /\ pc = "enter"
    /\ IF strideOk
       THEN pc' = "sort" /\ i' = 2 /\ UNCHANGED status
       ELSE Return("ERR_DESCRIPTOR_SIZE") /\ UNCHANGED i
    /\ UNCHANGED <<efi_map, inputs, out, out_count, previous_end, cursor, sums>>

--------------------------------------------------------------------------------
(* sort_descriptors *)

\* Where the inner loop stops: behind the last earlier descriptor that does
\* not start above the one being inserted.
InsertAfter(s, k) ==
    Max({0} \union {j \in 1 .. (k - 1) : s[j].PhysicalStart <= s[k].PhysicalStart})

Inserted(s, k) ==
    LET j == InsertAfter(s, k) IN
    SubSeq(s, 1, j) \o <<s[k]>> \o SubSeq(s, j + 1, k - 1)
        \o SubSeq(s, k + 1, Len(s))

SortStep ==
    /\ pc = "sort"
    /\ i <= Len(efi_map)
    /\ efi_map' = Inserted(efi_map, i)
    /\ i' = i + 1
    /\ UNCHANGED <<pc, status, inputs, out, out_count, previous_end, cursor, sums>>

SortDone ==
    /\ pc = "sort"
    /\ i > Len(efi_map)
    /\ pc' = "plan" /\ i' = 1
    /\ UNCHANGED <<status, efi_map, inputs, out, out_count, previous_end, cursor,
                   sums>>

--------------------------------------------------------------------------------
(* The sanity guard on the load plan. *)

SegmentOk(s) ==
    Aligned(s.page_base) /\ Aligned(s.page_end) /\ s.page_base < s.page_end

\* One iteration of the loop: the segment is added to the bytes expected.
CheckSegment ==
    /\ pc = "plan"
    /\ i <= Len(kernel)
    /\ LET s == kernel[i]
           bytes == expected_kernel_bytes + (s.page_end - s.page_base)
       IN  IF SegmentOk(s) /\ bytes <= MaxU64
           THEN /\ expected_kernel_bytes' = bytes
                /\ i' = i + 1
                /\ UNCHANGED <<pc, status>>
           ELSE /\ Return("ERR_ADDRESS_OVERFLOW")
                /\ UNCHANGED <<i, expected_kernel_bytes>>
    /\ UNCHANGED <<efi_map, inputs, out, out_count, previous_end, cursor,
                   tagged_kernel_bytes>>

PlanChecked ==
    /\ pc = "plan"
    /\ i > Len(kernel)
    /\ pc' = "descriptor" /\ i' = 1
    /\ UNCHANGED <<status, efi_map, inputs, out, out_count, previous_end, cursor,
                   sums>>

--------------------------------------------------------------------------------
(* The descriptor loop. *)

efi_to_sypas_memtype(t) ==
    CASE t = "EfiConventionalMemory" -> "USABLE"
      [] t \in {"EfiLoaderCode", "EfiLoaderData"} -> "LOADER"
      [] t \in {"EfiBootServicesCode", "EfiBootServicesData",
                "EfiRuntimeServicesCode", "EfiRuntimeServicesData"} -> "FIRMWARE"
      [] t = "EfiACPIReclaimMemory" -> "ACPI_RECLAIM"
      [] t = "EfiACPIMemoryNVS" -> "ACPI_NVS"
      [] t \in {"EfiMemoryMappedIO", "EfiMemoryMappedIOPortSpace"} -> "MMIO"
      [] OTHER -> "RESERVED"

\* The end of a descriptor's range, when neither the multiplication nor the
\* addition overflows.
End(d) == d.PhysicalStart + d.NumberOfPages * PAGE_SIZE

DescriptorError(d) ==
    IF d.NumberOfPages = 0 THEN "ERR_ZERO_LENGTH"
    ELSE IF ~Aligned(d.PhysicalStart) THEN "ERR_ADDRESS_ALIGNMENT"
    ELSE IF End(d) > MaxU64 THEN "ERR_ADDRESS_OVERFLOW"
    ELSE IF i > 1 /\ d.PhysicalStart < previous_end THEN "ERR_RANGE_OVERLAP"
    ELSE "OK"

CheckDescriptor ==
    /\ pc = "descriptor"
    /\ i <= Len(efi_map)
    /\ LET d == efi_map[i]
           err == DescriptorError(d)
       IN  IF err = "OK"
           THEN /\ pc' = "split"
                /\ previous_end' = End(d)
                /\ cursor' = d.PhysicalStart
                /\ UNCHANGED status
           ELSE Return(err) /\ UNCHANGED <<previous_end, cursor>>
    /\ UNCHANGED <<efi_map, inputs, out, out_count, i, sums>>

\* The end of the last range emitted, and whether the next one continues it.
LastEnd(o) == o[Len(o)].base + o[Len(o)].length

\* Mutant: ranges are joined whatever their types.
JoinsAnyType(o, base, type) == o # << >> /\ LastEnd(o) = base

Joins(o, base, type) ==
    o # << >> /\ o[Len(o)].type = type /\ LastEnd(o) = base

\* Mutant: an empty range is emitted.
AppendEmpty(o, base, end, type) ==
    IF Len(o) = out_capacity
    THEN [status |-> "ERR_OUTPUT_FULL", out |-> o]
    ELSE [status |-> "OK",
          out |-> Append(o, [base |-> base, length |-> end - base,
                             type |-> type])]

\* append: the output array with [base, end) added, or why it cannot be.
append(o, base, end, type) ==
    IF base = end THEN [status |-> "OK", out |-> o]
    ELSE IF o # << >> /\ (LastEnd(o) > MaxU64 \/ LastEnd(o) > base)
    THEN [status |-> "ERR_OUTPUT_OVERFLOW", out |-> o]
    ELSE IF Joins(o, base, type)
    THEN [status |-> "OK",
          out |-> [o EXCEPT ![Len(o)].length = @ + (end - base)]]
    ELSE IF Len(o) = out_capacity
    THEN [status |-> "ERR_OUTPUT_FULL", out |-> o]
    ELSE [status |-> "OK",
          out |-> Append(o, [base |-> base, length |-> end - base,
                             type |-> type])]

\* next_kernel_segment: the segments that meet [from, to), and the lowest.
Intersecting(from, to) ==
    {k \in DOMAIN kernel : kernel[k].page_end > from /\ kernel[k].page_base < to}
IsNext(k, from, to) ==
    /\ k \in Intersecting(from, to)
    /\ \A j \in Intersecting(from, to) :
         \/ kernel[k].page_base < kernel[j].page_base
         \/ kernel[k].page_base = kernel[j].page_base /\ k <= j

\* The segments still to be cut out of descriptor d.
Remaining(d) ==
    IF efi_to_sypas_memtype(d.Type) = "LOADER"
    THEN Intersecting(cursor, End(d)) ELSE {}

\* Mutant: the cursor is left at the segment's start.
SplitStays(k) ==
    /\ cursor' = Max({kernel[k].page_base, cursor})
    /\ UNCHANGED <<pc, status, out, tagged_kernel_bytes>>

\* Cut the next kernel segment out of a loader range.
Split(k) ==
    LET d == efi_map[i]
        lo == Max({kernel[k].page_base, cursor})
        hi == Min({kernel[k].page_end, End(d)})
        before == append(out, cursor, lo, "LOADER")
        both == append(before.out, lo, hi, "KERNEL")
    IN  IF before.status # "OK"
        THEN /\ Return(before.status)
             /\ out' = before.out
             /\ UNCHANGED <<cursor, tagged_kernel_bytes>>
        ELSE IF both.status # "OK"
        THEN /\ Return(both.status)
             /\ out' = both.out
             /\ UNCHANGED <<cursor, tagged_kernel_bytes>>
        ELSE /\ out' = both.out
             /\ tagged_kernel_bytes' = tagged_kernel_bytes + (hi - lo)
             /\ cursor' = hi
             /\ UNCHANGED <<pc, status>>

SplitStep ==
    /\ pc = "split"
    /\ \E k \in Remaining(efi_map[i]) :
         IsNext(k, cursor, End(efi_map[i])) /\ Split(k)
    /\ UNCHANGED <<efi_map, inputs, out_count, i, previous_end,
                   expected_kernel_bytes>>

\* Emit what is left of the descriptor and go to the next one.
TailStep ==
    /\ pc = "split"
    /\ Remaining(efi_map[i]) = {}
    /\ LET d == efi_map[i]
           rest == append(out, cursor, End(d), efi_to_sypas_memtype(d.Type))
       IN  /\ out' = rest.out
           /\ IF rest.status = "OK"
              THEN pc' = "descriptor" /\ i' = i + 1 /\ UNCHANGED status
              ELSE Return(rest.status) /\ UNCHANGED i
    /\ UNCHANGED <<efi_map, inputs, out_count, previous_end, cursor, sums>>

\* Mutant: the kernel's bytes are not compared with the plan.
FinishUntagged ==
    /\ pc = "descriptor"
    /\ i > Len(efi_map)
    /\ Return("OK") /\ out_count' = Len(out)
    /\ UNCHANGED <<efi_map, inputs, out, i, previous_end, cursor, sums>>

Finish ==
    /\ pc = "descriptor"
    /\ i > Len(efi_map)
    /\ IF tagged_kernel_bytes = expected_kernel_bytes
       THEN Return("OK") /\ out_count' = Len(out)
       ELSE Return("ERR_KERNEL_NOT_TAGGED") /\ UNCHANGED out_count
    /\ UNCHANGED <<efi_map, inputs, out, i, previous_end, cursor, sums>>

--------------------------------------------------------------------------------
Init ==
    /\ pc = "enter" /\ status = "OK"
    /\ \E n \in 0 .. MaxDescs : reported \in [1 .. n -> Descriptors]
    /\ efi_map = reported
    /\ strideOk \in BOOLEAN
    /\ kernel \in Plans
    /\ out_capacity \in Capacities
    /\ out = << >> /\ out_count = 0 /\ i = 0
    /\ previous_end = 0 /\ cursor = 0
    /\ expected_kernel_bytes = 0 /\ tagged_kernel_bytes = 0

Next ==
    \/ Enter \/ SortStep \/ SortDone \/ CheckSegment \/ PlanChecked
    \/ CheckDescriptor \/ SplitStep \/ TailStep \/ Finish

Spec == Init /\ [][Next]_vars
FairSpec == Spec /\ WF_vars(Next)

--------------------------------------------------------------------------------
(* Properties *)

\* memory_map.h:37: "The output is guaranteed, on SYPAS_MAP_OK, to be sorted,
\* non-overlapping, page-aligned, overflow-free".  It holds of the array at
\* every moment; neighbours of one type are always joined, and nothing is
\* ever written past the end of the caller's array.
OutputContract ==
    /\ Len(out) <= out_capacity
    /\ \A k \in DOMAIN out :
         /\ Aligned(out[k].base) /\ Aligned(out[k].length)
         /\ out[k].length > 0
         /\ out[k].base + out[k].length <= MaxU64
    /\ \A j, k \in DOMAIN out :
         j < k => out[j].base + out[j].length <= out[k].base
    /\ \A k \in 1 .. (Len(out) - 1) :
         out[k].type = out[k + 1].type =>
             out[k].base + out[k].length < out[k + 1].base

Addresses == {a \in 0 .. MaxU64 : Aligned(a)}
Covers(base, end, a) == base <= a /\ a < end

\* Who owns the page at address a, read off the firmware's report and the
\* load plan.
InKernel(a) ==
    \E k \in DOMAIN kernel : Covers(kernel[k].page_base, kernel[k].page_end, a)
Reporters(a) ==
    {k \in DOMAIN reported : Covers(reported[k].PhysicalStart, End(reported[k]), a)}
Owner(a) ==
    IF InKernel(a) THEN {"KERNEL"}
    ELSE {efi_to_sypas_memtype(reported[k].Type) : k \in Reporters(a)}

\* "fully classified" (memory_map.h:38), exactly: on SYPAS_MAP_OK every page
\* the firmware reported has one owner, KERNEL just for the pages of the
\* load plan, and no other page is in the map.
ExactOwnership ==
    pc = "done" /\ status = "OK" =>
        \A a \in Addresses :
            {out[k].type : k \in {k \in DOMAIN out :
                Covers(out[k].base, out[k].base + out[k].length, a)}} = Owner(a)

ValidReport ==
    /\ strideOk
    /\ \A k \in DOMAIN reported :
         /\ reported[k].NumberOfPages > 0
         /\ Aligned(reported[k].PhysicalStart)
         /\ End(reported[k]) <= MaxU64
    /\ \A a \in Addresses :
         /\ \A j, k \in Reporters(a) : j = k
         /\ InKernel(a) => \E k \in Reporters(a) :
                efi_to_sypas_memtype(reported[k].Type) = "LOADER"

\* Every output range starts where a descriptor starts or where a segment
\* starts or ends.  efi_main reserves more (main.c:319).
EnoughRoom == out_capacity >= Len(reported) + 2 * Len(kernel)

\* A load plan such as elf_plan makes it: whole pages, no page twice.  The
\* translator trusts nobody and checks the first half again.
WellPlanned ==
    /\ \A k \in DOMAIN kernel : SegmentOk(kernel[k])
    /\ \A j, k \in DOMAIN kernel :
         j # k => \/ kernel[j].page_end <= kernel[k].page_base
                  \/ kernel[k].page_end <= kernel[j].page_base

\* Fail closed, and only then: the call accepts no report with a range that
\* is empty, unaligned, overflowing or overlapping, or with a kernel page
\* outside loader memory, and refuses no other when the plan is elf_plan's
\* and the output array has room for one range per descriptor and two more
\* per segment.
VerdictExact ==
    pc = "done" =>
        /\ status = "OK" => ValidReport
        /\ ValidReport /\ WellPlanned /\ EnoughRoom => status = "OK"

\* A kernel segment goes on behind the end of a loader descriptor, because
\* the firmware reports its pages in two descriptors or not at all.
Crosses ==
    \E k \in DOMAIN kernel, j \in DOMAIN reported :
        /\ efi_to_sypas_memtype(reported[j].Type) = "LOADER"
        /\ kernel[k].page_base < End(reported[j])
        /\ End(reported[j]) < kernel[k].page_end

\* When a call returns.  The inner loop over segments moves forward and the
\* call ends as long as no segment crosses the end of a loader descriptor.
\* When one does it never ends, even if the report is valid: with the part
\* inside the descriptor cut out, cursor equals end, next_kernel_segment
\* still finds the segment, and nothing changes any more.  boot-protocol.md:140
\* ("Any loader failure prints a specific message ... and halts") expects
\* <>(pc = "done") without a condition.
ReturnsUnlessCrossed ==
    /\ ~Crosses => <>(pc = "done")
    /\ Crosses /\ ValidReport /\ WellPlanned /\ EnoughRoom => [](pc # "done")

================================================================================
