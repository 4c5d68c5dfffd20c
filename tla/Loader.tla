--------------------------------- MODULE Loader ---------------------------------
(***************************************************************************)
(* bootloader/uefi/main.c: efi_main, with the firmware it runs on.         *)
(*                                                                         *)
(* Physical memory is a row of pages, each with the EFI type the firmware  *)
(* gives it.  The firmware changes types on its own (timer callbacks, its  *)
(* own console and file drivers) between any two steps of the loader, and  *)
(* every change outdates the map key.  Each loader step is the code from   *)
(* one firmware call to the next; "call" records that call.  The           *)
(* translation of the map is the one MemoryMap describes, page by page; a  *)
(* map it rejects is a possible outcome of every attempt.                  *)
(***************************************************************************)
EXTENDS Integers, Sequences, FiniteSets

CONSTANTS
    NPages,         \* pages of physical memory
    InitialType,    \* their EFI types when efi_main starts
    Segments,       \* the kernel's PT_LOAD page sets, in file order
    FilePages,      \* pages the kernel file's pool buffer takes
    StackPages,     \* 16 in the source
    Slack,          \* MAP_SLACK_DESCRIPTORS
    PageBytes,      \* EFI_PAGE_SIZE, in units of map bytes
    Strides,        \* descriptor sizes the firmware may report
    EntriesPerPage, \* sypas_memmap_entry_t that fit a page
    CallbackPages,  \* bound: the pages the firmware's callbacks take and free
    MaxEvents       \* bound: how often the firmware changes the map

ASSUME LoaderAssumption ==
    /\ NPages \in Nat \ {0} /\ Slack \in Nat /\ PageBytes \in Nat \ {0}
    /\ FilePages \in Nat \ {0} /\ StackPages \in Nat \ {0}
    /\ EntriesPerPage \in Nat \ {0} /\ MaxEvents \in Nat
    /\ Strides \subseteq Nat \ {0} /\ Strides # {}
    /\ CallbackPages \subseteq 0 .. (NPages - 1)

Page == 0 .. (NPages - 1)
KernelPages == UNION {Segments[k] : k \in DOMAIN Segments}
MaxSegments == 16

\* The EFI memory types the translation tells apart.
EfiType == {"conventional", "loader", "bootservices", "reserved"}

\* The load plan (ElfPlan) has at most MaxSegments segments; one that lies
\* outside memory is refused like one whose pages are taken.
ASSUME ImageAssumption ==
    /\ InitialType \in [Page -> EfiType]
    /\ Segments \in Seq(SUBSET Page) /\ Len(Segments) <= MaxSegments

\* The buffers are sized for the descriptor size of the moment.  A later one
\* may be smaller, by a factor that the allowance for splits still covers,
\* and so does the slack the rounding to pages.  UEFI's descriptors have 40
\* bytes or more, PageBytes is 4096 and Slack 32.
ASSUME StrideAssumption ==
    \A s, t \in Strides : s <= 8 * t /\ PageBytes <= t * (25 * (Slack + 1) - 15)

VARIABLES
    \* firmware
    mem,         \* EFI type of each page
    key,         \* map key: counts the changes of mem
    stride,      \* DescriptorSize
    events,      \* map changes the firmware made on its own
    exited,      \* boot services are gone
    ebsFailed,   \* an ExitBootServices attempt has failed
    call,        \* the last firmware call
    \* loader
    pc,
    seg,         \* next kernel segment to place
    file, bi_page, stack, mm_buf,   \* pages it has allocated
    mmsize, dsz, map_bytes, sypas_cap,
    grow, attempt,
    efimap,      \* the map in mm_buf: a copy of mem
    mapkey,
    smap         \* bi->memmap: the type of each page

firmware == <<mem, key, stride, events, exited, ebsFailed>>
buffers == <<file, bi_page, stack, mm_buf>>
sizes == <<mmsize, dsz, map_bytes, sypas_cap>>
handoff == <<efimap, mapkey, smap>>
vars == <<firmware, call, pc, seg, buffers, sizes, grow, attempt, handoff>>

--------------------------------------------------------------------------------
(* Firmware *)

\* Ranges of n adjacent free pages.
FreeRuns(n) ==
    {r \in {a .. (a + n - 1) : a \in Page} :
       r \subseteq Page /\ \A p \in r : mem[p] = "conventional"}

\* Number of descriptors in the map: one per run of equal types.
DescriptorCount(m) ==
    Cardinality({p \in Page : p = 0 \/ m[p] # m[p - 1]})
MapSize == DescriptorCount(mem) * stride

SetType(pages, type) ==
    /\ mem' = [p \in Page |-> IF p \in pages THEN type ELSE mem[p]]
    /\ key' = key + 1

\* A callback of the firmware allocates or frees a page for itself.
FirmwarePage(p) ==
    /\ \/ mem[p] = "conventional" /\ SetType({p}, "bootservices")
       \/ mem[p] = "bootservices" /\ SetType({p}, "conventional")
    /\ UNCHANGED stride

\* The map is described with another descriptor size.
FirmwareStride ==
    /\ stride' \in Strides \ {stride}
    /\ key' = key + 1
    /\ UNCHANGED mem

FirmwareEvent ==
    /\ ~exited
    /\ pc \notin {"dead", "halted"}
    /\ events < MaxEvents
    /\ events' = events + 1
    /\ (\E p \in CallbackPages : FirmwarePage(p)) \/ FirmwareStride
    /\ UNCHANGED <<exited, ebsFailed, call, pc, seg, buffers, sizes, grow,
                   attempt, handoff>>

--------------------------------------------------------------------------------
(* Loading the kernel *)

\* die: print, then Stall forever.
Die ==
    /\ pc' = "dead" /\ call' = "Stall"
    /\ UNCHANGED <<firmware, seg, buffers, sizes, grow, attempt, handoff>>

\* halt_after_exit_boot_services: no firmware call.
Halt ==
    /\ pc' = "halted" /\ call' = "none"
    /\ UNCHANGED <<firmware, seg, buffers, sizes, grow, attempt, handoff>>

\* read_kernel_file
ReadKernelFile ==
    /\ pc = "start"
    /\ \/ Die
       \/ /\ \E r \in FreeRuns(FilePages) : file' = r /\ SetType(r, "loader")
          /\ pc' = "load" /\ call' = "AllocatePool"
          /\ UNCHANGED <<stride, events, exited, ebsFailed, seg, bi_page, stack,
                         mm_buf, sizes, grow, attempt, handoff>>

\* load_kernel_elf: the plan is rejected, or a segment's fixed pages are taken.
LoadRefused ==
    /\ pc = "load"
    /\ \/ seg = 1
       \/ /\ seg <= Len(Segments)
          /\ \E p \in Segments[seg] : mem[p] # "conventional"
    /\ Die

LoadSegment ==
    /\ pc = "load"
    /\ seg <= Len(Segments)
    /\ \A p \in Segments[seg] : mem[p] = "conventional"
    /\ SetType(Segments[seg], "loader")
    /\ seg' = seg + 1
    /\ call' = "AllocatePages"
    /\ UNCHANGED <<stride, events, exited, ebsFailed, pc, buffers, sizes, grow,
                   attempt, handoff>>

FreeFile ==
    /\ pc = "load"
    /\ seg > Len(Segments)
    /\ SetType(file, "conventional")
    /\ file' = {}
    /\ pc' = "bootinfo" /\ call' = "FreePool"
    /\ UNCHANGED <<stride, events, exited, ebsFailed, seg, bi_page, stack, mm_buf,
                   sizes, grow, attempt, handoff>>

AllocBootinfo ==
    /\ pc = "bootinfo"
    /\ \/ Die
       \/ /\ \E r \in FreeRuns(1) : bi_page' = r /\ SetType(r, "loader")
          /\ pc' = "stack" /\ call' = "AllocatePages"
          /\ UNCHANGED <<stride, events, exited, ebsFailed, seg, file, stack,
                         mm_buf, sizes, grow, attempt, handoff>>

\* ... and the bootinfo fields, ACPI and framebuffer, none of which allocates.
AllocStack ==
    /\ pc = "stack"
    /\ \/ Die
       \/ /\ \E r \in FreeRuns(StackPages) : stack' = r /\ SetType(r, "loader")
          /\ pc' = "query" /\ call' = "AllocatePages"
          /\ UNCHANGED <<stride, events, exited, ebsFailed, seg, file, bi_page,
                         mm_buf, sizes, grow, attempt, handoff>>

--------------------------------------------------------------------------------
(* Sizing the map buffers *)

\* GetMemoryMap into no buffer.
QuerySize ==
    /\ pc = "query"
    /\ \/ Die
       \/ /\ mmsize' = MapSize /\ dsz' = stride
          /\ pc' = "grow" /\ call' = "GetMemoryMap"
          /\ UNCHANGED <<firmware, seg, buffers, map_bytes, sypas_cap, grow,
                         attempt, handoff>>

CeilDiv(a, b) == (a + b - 1) \div b

\* Mutant: one output entry per descriptor, none for the splits.
GrowWithoutSplits ==
    /\ pc = "grow"
    /\ grow < 4
    /\ LET requested == mmsize + Slack * dsz
           mm_pages == CeilDiv(requested, PageBytes)
           cap == CeilDiv(requested, dsz)
       IN  /\ map_bytes' = mm_pages * PageBytes
           /\ sypas_cap' = cap
           /\ \E r \in FreeRuns(mm_pages + CeilDiv(cap, EntriesPerPage)) :
                mm_buf' = r /\ SetType(r, "loader")
    /\ pc' = "fetch" /\ call' = "AllocatePages"
    /\ UNCHANGED <<stride, events, exited, ebsFailed, seg, file, bi_page,
                   stack, mmsize, dsz, grow, attempt, handoff>>

GrowBuffers ==
    /\ pc = "grow"
    /\ \/ Die   \* grow == 4, or no memory
       \/ /\ grow < 4
          /\ LET requested == mmsize + Slack * dsz
                 mm_pages == CeilDiv(requested, PageBytes)
                 cap == CeilDiv(requested, dsz) * (2 * MaxSegments + 1) + 16
                 total == mm_pages + CeilDiv(cap, EntriesPerPage)
             IN  /\ map_bytes' = mm_pages * PageBytes
                 /\ sypas_cap' = cap
                 /\ \E r \in FreeRuns(total) : mm_buf' = r /\ SetType(r, "loader")
          /\ pc' = "fetch" /\ call' = "AllocatePages"
          /\ UNCHANGED <<stride, events, exited, ebsFailed, seg, file, bi_page,
                         stack, mmsize, dsz, grow, attempt, handoff>>

\* GetMemoryMap copies the map when it fits; the sizes come back either way.
GetMemoryMap ==
    /\ call' = "GetMemoryMap"
    /\ dsz' = stride
    /\ IF MapSize <= map_bytes
       THEN efimap' = mem /\ mapkey' = key
       ELSE UNCHANGED <<efimap, mapkey>>

FetchMap ==
    /\ pc = "fetch"
    /\ \/ Die   \* any error but EFI_BUFFER_TOO_SMALL
       \/ /\ GetMemoryMap
          /\ mmsize' = MapSize
          /\ pc' = IF MapSize <= map_bytes /\ stride = dsz
                   THEN "announce" ELSE "release"
          /\ UNCHANGED <<firmware, seg, buffers, map_bytes, sypas_cap, grow,
                         attempt, smap>>

\* Mutant: the old buffer is not given back.
ReleaseNothing ==
    /\ pc = "release"
    /\ mm_buf' = {}
    /\ grow' = grow + 1
    /\ pc' = "grow" /\ call' = "FreePages"
    /\ UNCHANGED <<firmware, seg, file, bi_page, stack, sizes, attempt, handoff>>

\* The buffer was too small or the stride changed: FreePages and try again.
ReleaseBuffer ==
    /\ pc = "release"
    /\ SetType(mm_buf, "conventional")
    /\ mm_buf' = {}
    /\ grow' = grow + 1
    /\ pc' = "grow" /\ call' = "FreePages"
    /\ UNCHANGED <<stride, events, exited, ebsFailed, seg, file, bi_page, stack,
                   sizes, attempt, handoff>>

Announce ==
    /\ pc = "announce"
    /\ pc' = "map" /\ call' = "OutputString"
    /\ UNCHANGED <<firmware, seg, buffers, sizes, grow, attempt, handoff>>

--------------------------------------------------------------------------------
(* Final map, translation, ExitBootServices *)

\* Mutants: every failure is reported on the console; loader memory is given
\* to the kernel.
AlwaysDie == Die

LoaderReclaimed(t) ==
    CASE t \in {"conventional", "loader"} -> "USABLE"
      [] t = "bootservices" -> "FIRMWARE"
      [] OTHER -> "RESERVED"

\* A failure is reported before the first ExitBootServices, silent after.
Give_up == IF attempt = 0 THEN Die ELSE Halt

\* Mutant: a retry fetches a fresh key and keeps the old translation.
FinalMapKeyOnly ==
    /\ pc = "map"
    /\ \/ Give_up
       \/ /\ MapSize <= map_bytes
          /\ GetMemoryMap
          /\ pc' = IF attempt = 0 THEN "translate" ELSE "exit"
          /\ UNCHANGED <<firmware, seg, buffers, mmsize, map_bytes, sypas_cap,
                         grow, attempt, smap>>

FinalMap ==
    /\ pc = "map"
    /\ \/ Give_up   \* any error, EFI_BUFFER_TOO_SMALL too
       \/ /\ MapSize <= map_bytes
          /\ GetMemoryMap
          /\ pc' = "translate"
          /\ UNCHANGED <<firmware, seg, buffers, mmsize, map_bytes, sypas_cap,
                         grow, attempt, smap>>

SypasType(t) ==
    CASE t = "conventional" -> "USABLE"
      [] t = "loader" -> "LOADER"
      [] t = "bootservices" -> "FIRMWARE"
      [] OTHER -> "RESERVED"

\* What sypas_translate_memory_map makes of a map it accepts.
Translated(m) ==
    [p \in Page |-> IF p \in KernelPages THEN "KERNEL" ELSE SypasType(m[p])]

Translate ==
    /\ pc = "translate"
    /\ \/ Give_up
       \/ /\ \A p \in KernelPages : efimap[p] = "loader"
          /\ smap' = Translated(efimap)
          /\ pc' = "exit" /\ call' = "none"
          /\ UNCHANGED <<firmware, seg, buffers, sizes, grow, attempt, efimap,
                         mapkey>>

\* Mutant: retry with the old map and key.
ExitStale ==
    /\ pc = "exit"
    /\ call' = "ExitBootServices"
    /\ IF mapkey = key
       THEN exited' = TRUE /\ pc' = "kernel" /\ UNCHANGED ebsFailed
       ELSE ebsFailed' = TRUE /\ UNCHANGED <<exited, pc>>
    /\ UNCHANGED <<mem, key, stride, events, seg, buffers, sizes, grow, attempt,
                   handoff>>

ExitBootServices ==
    /\ pc = "exit"
    /\ call' = "ExitBootServices"
    /\ \/ /\ mapkey = key
          /\ exited' = TRUE
          /\ pc' = "kernel"
          /\ UNCHANGED <<ebsFailed, attempt>>
       \/ /\ mapkey # key
          /\ ebsFailed' = TRUE
          /\ pc' = IF attempt = 3 THEN "halted" ELSE "map"
          /\ attempt' = attempt + 1
          /\ UNCHANGED exited
    /\ UNCHANGED <<mem, key, stride, events, seg, buffers, sizes, grow, handoff>>

--------------------------------------------------------------------------------
Init ==
    /\ mem = InitialType /\ key = 0 /\ stride \in Strides /\ events = 0
    /\ exited = FALSE /\ ebsFailed = FALSE /\ call = "none"
    /\ pc = "start" /\ seg = 1
    /\ file = {} /\ bi_page = {} /\ stack = {} /\ mm_buf = {}
    /\ mmsize = 0 /\ dsz = 0 /\ map_bytes = 0 /\ sypas_cap = 0
    /\ grow = 0 /\ attempt = 0
    /\ efimap = InitialType /\ mapkey = 0
    /\ smap = [p \in Page |-> "RESERVED"]

LoaderStep ==
    \/ ReadKernelFile \/ LoadRefused \/ LoadSegment \/ FreeFile
    \/ AllocBootinfo \/ AllocStack \/ QuerySize
    \/ GrowBuffers \/ FetchMap \/ ReleaseBuffer \/ Announce
    \/ FinalMap \/ Translate \/ ExitBootServices

Next == LoaderStep \/ FirmwareEvent

Spec == Init /\ [][Next]_vars

--------------------------------------------------------------------------------
(* Properties *)

\* main.c:355: "After a failed EBS only this recovery pair is legal.  A later
\* failure must halt without a console, Stall, allocation, or any other
\* firmware call"; and after a successful one there is no call at all.
OnlyRecoveryPair ==
    /\ ebsFailed => call \in {"none", "GetMemoryMap", "ExitBootServices"}
    /\ exited => call = "ExitBootServices"

\* The map the kernel receives is the firmware's map at the moment boot
\* services ended, whatever the firmware did to it between the loader's
\* calls and however many attempts were needed.
HandoffMapExact == pc = "kernel" => smap = Translated(mem)

\* The kernel's allocator is never offered the memory it starts on, and loses
\* nothing else: KERNEL is the kernel image; LOADER is the loader's own image,
\* bootinfo, the boot stack and the map itself, all disjoint.  The file and
\* every map buffer that the grow loop gave up went back to the firmware.
HandoffPagesOwned ==
    LET Are(t) == {p \in Page : smap[p] = t}
    IN  pc = "kernel" =>
          /\ Are("KERNEL") = KernelPages
          /\ Are("LOADER") = {p \in Page : InitialType[p] = "loader"}
                               \union bi_page \union stack \union mm_buf
          /\ Cardinality(KernelPages \union bi_page \union stack \union mm_buf) =
               Cardinality(KernelPages) + Cardinality(bi_page)
                 + Cardinality(stack) + Cardinality(mm_buf)

\* main.c:295: the output array has room for every map that fits the input
\* buffer, split around every kernel segment, so a translation is never
\* refused for lack of room.
RoomForTranslation ==
    pc = "translate" => DescriptorCount(efimap) + 2 * Len(Segments) <= sypas_cap

================================================================================
