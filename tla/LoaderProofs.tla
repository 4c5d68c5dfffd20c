------------------------------ MODULE LoaderProofs ------------------------------
(***************************************************************************)
(* What holds of the loader on every machine, whatever its firmware does   *)
(* to the memory map and whenever: the map it hands over is the firmware's *)
(* own at the moment boot services end, it accounts for every page the     *)
(* loader took, and after a failed ExitBootServices nothing but the        *)
(* recovery pair is called.  With what PmmProofs proves of the allocator   *)
(* it follows that the kernel, started on that map, keeps to memory that   *)
(* was free, and that its self-test's verdict is right.                    *)
(***************************************************************************)
EXTENDS Boot, FiniteSetTheorems, WellFoundedInduction, TLAPS

(***************************************************************************)
(* The invariant                                                           *)
(***************************************************************************)

Recovering == {"map", "translate", "exit", "halted", "kernel"}
Before == {"start", "load", "bootinfo"}
Unsized == {"start", "load", "bootinfo", "stack", "query", "grow"}

LTypes ==
    /\ mem \in [Page -> EfiType] /\ efimap \in [Page -> EfiType]
    /\ key \in Nat /\ mapkey \in Nat /\ attempt \in Nat
    /\ stride \in Strides
    /\ seg \in 1 .. (Len(Segments) + 1)

\* The key tells a map that is still current from one that is not.
Keyed ==
    /\ mapkey <= key
    /\ mapkey = key => efimap = mem
    /\ pc = "exit" => smap = Translated(efimap)
    /\ pc = "kernel" => mapkey = key /\ smap = Translated(efimap)

\* Once ExitBootServices has failed the loader is in the retry loop for good,
\* and attempt says so.
Recovery ==
    /\ ebsFailed => /\ attempt > 0 /\ pc \in Recovering
                    /\ call \in {"none", "GetMemoryMap", "ExitBootServices"}
    /\ exited <=> pc = "kernel"
    /\ exited => call = "ExitBootServices"

\* The pages of type "loader": its image, the segments placed so far and the
\* buffers it holds, no two of which share a page.
Image == {p \in Page : InitialType[p] = "loader"}
Placed == UNION {Segments[k] : k \in 1 .. (seg - 1)}
Apart ==
    /\ \A p \in file : p \notin Image /\ p \notin Placed /\ p \notin bi_page
                         /\ p \notin stack /\ p \notin mm_buf
    /\ \A p \in bi_page : p \notin Image /\ p \notin Placed /\ p \notin stack
                            /\ p \notin mm_buf
    /\ \A p \in stack : p \notin Image /\ p \notin Placed /\ p \notin mm_buf
    /\ \A p \in mm_buf : p \notin Image /\ p \notin Placed
    /\ \A p \in Placed : p \notin Image
Accounted ==
    /\ file \subseteq Page /\ bi_page \subseteq Page /\ stack \subseteq Page
    /\ mm_buf \subseteq Page
    /\ \A p \in Page : mem[p] = "loader" <=>
         \/ p \in Image \/ p \in Placed \/ p \in file \/ p \in bi_page \/ p \in stack
         \/ p \in mm_buf
    /\ Apart

\* Which of them it holds at which point.
Phased ==
    /\ pc = "start" => file = {} /\ seg = 1
    /\ pc \in Before => bi_page = {}
    /\ pc \in Before \/ pc = "stack" => stack = {}
    /\ pc \in Unsized => mm_buf = {}
    /\ pc \notin {"start", "load", "dead"} => seg = Len(Segments) + 1 /\ file = {}

\* The buffers were sized for n descriptors of d bytes; a map that was fetched
\* into them fits.
Room(n, d) ==
    /\ n >= Slack + 1
    /\ map_bytes < n * d + PageBytes
    /\ sypas_cap = n * 33 + 16
Sized ==
    /\ pc \in {"grow", "release"} => dsz \in Strides /\ mmsize \in Nat /\ mmsize >= dsz
    /\ pc \in {"fetch", "announce", "map", "translate", "exit"} =>
         \E n \in Nat, d \in Strides : Room(n, d)
    /\ map_bytes \in Nat
    /\ pc = "fetch" => dsz \in Strides
    /\ pc = "translate" =>
         \E t \in Strides : DescriptorCount(efimap) * t <= map_bytes

LInv == LTypes /\ Keyed /\ Recovery /\ Accounted /\ Phased /\ Sized

(***************************************************************************)
(* Types                                                                   *)
(***************************************************************************)

LEMMA TypesInit == Init => LTypes
  BY ImageAssumption DEF Init, LTypes

LEMMA SetTypeTypes ==
    ASSUME LTypes, NEW pages, NEW type \in EfiType, SetType(pages, type)
    PROVE  mem' \in [Page -> EfiType] /\ key' \in Nat /\ key' = key + 1
<1>1. \A p \in Page : (IF p \in pages THEN type ELSE mem[p]) \in EfiType
  BY DEF LTypes
<1> QED
  BY <1>1 DEF LTypes, SetType

LEMMA TypesStep ==
    ASSUME LTypes, [Next]_vars
    PROVE  LTypes'
<1> USE DEF firmware, buffers, sizes, handoff
<1>0. {"loader", "conventional", "bootservices"} \subseteq EfiType
  BY DEF EfiType
<1>1. CASE Die \/ Halt \/ UNCHANGED vars
  BY <1>1 DEF Die, Halt, vars, LTypes
<1>2. CASE ReadKernelFile \/ FreeFile \/ AllocBootinfo \/ AllocStack \/ GrowBuffers \/ ReleaseBuffer
  <2>1. CASE Die
    BY <1>1, <2>1
  <2>2. CASE ~Die
    <3>1. \E pages : SetType(pages, "loader") \/ SetType(pages, "conventional")
      BY <1>2, <2>2 DEF ReadKernelFile, FreeFile, AllocBootinfo, AllocStack,
         GrowBuffers, ReleaseBuffer
    <3>2. UNCHANGED <<stride, seg, attempt, efimap, mapkey>>
      BY <1>2, <2>2 DEF ReadKernelFile, FreeFile, AllocBootinfo, AllocStack, GrowBuffers,
         ReleaseBuffer
    <3>3. mem' \in [Page -> EfiType] /\ key' \in Nat
      BY <1>0, <3>1, SetTypeTypes
    <3> QED BY <3>2, <3>3 DEF LTypes
  <2> QED BY <2>1, <2>2
<1>3. CASE LoadSegment
  <2>1. mem' \in [Page -> EfiType] /\ key' \in Nat
    BY <1>0, <1>3, SetTypeTypes DEF LoadSegment
  <2>2. seg' = seg + 1 /\ seg <= Len(Segments) /\ UNCHANGED <<stride, attempt, efimap, mapkey>>
    BY <1>3 DEF LoadSegment
  <2>3. Len(Segments) \in Nat
    BY ImageAssumption
  <2> QED BY <2>1, <2>2, <2>3 DEF LTypes
<1>4. CASE LoadRefused
  BY <1>1, <1>4 DEF LoadRefused
<1>5. CASE QuerySize \/ Announce
  BY <1>1, <1>5 DEF QuerySize, Announce, LTypes
<1>6. CASE FetchMap \/ FinalMap
  BY <1>1, <1>6 DEF FetchMap, FinalMap, Give_up, GetMemoryMap, LTypes
<1>7. CASE Translate
  BY <1>1, <1>7 DEF Translate, Give_up, LTypes
<1>8. CASE ExitBootServices
  BY <1>8 DEF ExitBootServices, LTypes
<1>9. CASE FirmwareEvent
  <2>1. CASE FirmwareStride
    BY <1>9, <2>1 DEF FirmwareEvent, FirmwareStride, LTypes
  <2>2. CASE \E p \in CallbackPages : FirmwarePage(p)
    <3>1. \E pages : SetType(pages, "bootservices") \/ SetType(pages, "conventional")
      BY <2>2 DEF FirmwarePage
    <3>2. mem' \in [Page -> EfiType] /\ key' \in Nat
      BY <1>0, <3>1, SetTypeTypes
    <3> QED BY <1>9, <2>2, <3>2 DEF FirmwareEvent, FirmwarePage, LTypes
  <2> QED BY <1>9, <2>1, <2>2 DEF FirmwareEvent
<1> QED
  BY <1>1, <1>2, <1>3, <1>4, <1>5, <1>6, <1>7, <1>8, <1>9 DEF Next, LoaderStep

(***************************************************************************)
(* The map and its key                                                     *)
(***************************************************************************)

\* A step that changes the map outdates the key.
LEMMA OutdatesKey ==
    ASSUME LTypes, Keyed, NEW pages, NEW type, SetType(pages, type),
           UNCHANGED <<efimap, mapkey>>, pc' \notin {"exit", "kernel"}
    PROVE  Keyed'
<1>1. key' = key + 1 /\ mapkey' <= key /\ key \in Nat /\ mapkey' \in Nat
  BY DEF SetType, LTypes, Keyed
<1>2. mapkey' <= key' /\ mapkey' # key'
  BY <1>1
<1> QED
  BY <1>2 DEF Keyed

LEMMA KeyedStep ==
    ASSUME LTypes, Keyed, Recovery, [Next]_vars
    PROVE  Keyed'
<1> USE DEF firmware, buffers, sizes, handoff
<1>1. CASE Die \/ Halt \/ UNCHANGED vars
  BY <1>1 DEF Die, Halt, vars, Keyed, Translated
<1>2. CASE ReadKernelFile \/ FreeFile \/ AllocBootinfo \/ AllocStack \/ GrowBuffers \/ ReleaseBuffer
           \/ LoadSegment
  <2>1. CASE Die
    BY <1>1, <2>1
  <2>2. CASE ~Die
    <3>1. \E pages, type : SetType(pages, type)
      BY <1>2, <2>2 DEF ReadKernelFile, FreeFile, AllocBootinfo, AllocStack, GrowBuffers,
         ReleaseBuffer, LoadSegment
    <3>2. UNCHANGED <<efimap, mapkey>> /\ pc' \notin {"exit", "kernel"}
      BY <1>2, <2>2 DEF ReadKernelFile, FreeFile, AllocBootinfo, AllocStack, GrowBuffers,
         ReleaseBuffer, LoadSegment
    <3> QED BY <3>1, <3>2, OutdatesKey
  <2> QED BY <2>1, <2>2
<1>4. CASE LoadRefused
  BY <1>1, <1>4 DEF LoadRefused
<1>5. CASE QuerySize \/ Announce
  BY <1>1, <1>5 DEF QuerySize, Announce, Keyed
<1>6. CASE FetchMap \/ FinalMap
  <2>1. CASE Die \/ Halt
    BY <1>1, <2>1
  <2>2. CASE ~Die /\ ~Halt
    <3>1. GetMemoryMap /\ UNCHANGED <<mem, key>> /\ pc' \notin {"exit", "kernel"}
      BY <1>6, <2>2 DEF FetchMap, FinalMap, Give_up
    <3> QED BY <3>1 DEF GetMemoryMap, Keyed, LTypes
  <2> QED BY <2>1, <2>2
<1>7. CASE Translate
  BY <1>1, <1>7 DEF Translate, Give_up, Keyed, Translated
<1>8. CASE ExitBootServices
  BY <1>8 DEF ExitBootServices, Keyed, Translated
<1>9. CASE FirmwareEvent
  <2>1. UNCHANGED <<pc, efimap, mapkey, smap>> /\ pc # "kernel" /\ key' = key + 1
    BY <1>9 DEF FirmwareEvent, FirmwarePage, FirmwareStride, SetType, Recovery
  <2>2. mapkey' <= key' /\ mapkey' # key'
    BY <2>1 DEF LTypes, Keyed
  <2> QED BY <2>1, <2>2 DEF Keyed, Translated
<1> QED
  BY <1>1, <1>2, <1>4, <1>5, <1>6, <1>7, <1>8, <1>9 DEF Next, LoaderStep

(***************************************************************************)
(* The recovery pair                                                       *)
(***************************************************************************)

LEMMA RecoveryStep ==
    ASSUME LTypes, Recovery, [Next]_vars
    PROVE  Recovery'
<1> USE DEF firmware, buffers, sizes, handoff, Recovering
<1>1. CASE UNCHANGED vars
  BY <1>1 DEF vars, Recovery
<1>2. CASE LoaderStep /\ pc \notin Recovering
  <2>1. ebsFailed' = ebsFailed /\ exited' = exited /\ pc' # "kernel"
    BY <1>2 DEF LoaderStep, ReadKernelFile, LoadRefused, LoadSegment, FreeFile,
       AllocBootinfo, AllocStack, QuerySize, GrowBuffers, FetchMap, ReleaseBuffer, Announce,
       FinalMap, Translate, ExitBootServices, Die
  <2> QED BY <1>2, <2>1 DEF Recovery
<1>3. CASE FinalMap \/ Translate
  <2>1. pc \in {"map", "translate"} /\ UNCHANGED <<ebsFailed, exited, attempt>>
    BY <1>3 DEF FinalMap, Translate, Give_up, Die, Halt, GetMemoryMap
  <2>2. attempt # 0 => call' \in {"none", "GetMemoryMap"} /\ pc' \in Recovering
    BY <1>3 DEF FinalMap, Translate, Give_up, Halt, GetMemoryMap
  <2>3. pc' # "kernel"
    BY <1>3 DEF FinalMap, Translate, Give_up, Die, Halt, GetMemoryMap
  <2> QED BY <2>1, <2>2, <2>3 DEF Recovery, LTypes
<1>4. CASE ExitBootServices
  <2>1. pc = "exit" /\ call' = "ExitBootServices" /\ attempt \in Nat
    BY <1>4 DEF ExitBootServices, LTypes
  <2>2. CASE mapkey = key
    BY <1>4, <2>1, <2>2 DEF ExitBootServices, Recovery
  <2>3. CASE mapkey # key
    BY <1>4, <2>1, <2>3 DEF ExitBootServices, Recovery
  <2> QED BY <2>2, <2>3
<1>5. CASE FirmwareEvent
  BY <1>5 DEF FirmwareEvent, Recovery
<1>6. LoaderStep /\ pc \in Recovering => FinalMap \/ Translate \/ ExitBootServices
  BY DEF LoaderStep, ReadKernelFile, LoadRefused, LoadSegment, FreeFile, AllocBootinfo,
     AllocStack, QuerySize, GrowBuffers, FetchMap, ReleaseBuffer, Announce
<1> QED
  BY <1>1, <1>2, <1>3, <1>4, <1>5, <1>6 DEF Next

(***************************************************************************)
(* Whose pages are whose                                                   *)
(***************************************************************************)

LEMMA FreeRunFree ==
    ASSUME NEW n, NEW r \in FreeRuns(n)
    PROVE  r \subseteq Page /\ \A p \in r : mem[p] = "conventional"
  BY DEF FreeRuns

LEMMA TakesPages ==
    ASSUME NEW r, SetType(r, "loader")
    PROVE  \A p \in Page : mem'[p] = "loader" <=> p \in r \/ mem[p] = "loader"
  BY DEF SetType

LEMMA GivesPages ==
    ASSUME NEW r, SetType(r, "conventional")
    PROVE  \A p \in Page : mem'[p] = "loader" <=> p \notin r /\ mem[p] = "loader"
  BY DEF SetType

\* A page the loader owns is not free.
LEMMA OwnedNotFree ==
    ASSUME Accounted, NEW r, r \subseteq Page, \A p \in r : mem[p] = "conventional"
    PROVE  \A p \in r : /\ p \notin Image /\ p \notin Placed /\ p \notin file
                        /\ p \notin bi_page /\ p \notin stack /\ p \notin mm_buf
  BY DEF Accounted

LEMMA AccountedInit == Init => Accounted
<1> SUFFICES ASSUME Init PROVE Accounted
  OBVIOUS
<1>1. Placed = {}
  BY DEF Init, Placed
<1> QED
  BY <1>1 DEF Init, Accounted, Apart, Image

\* Steps that neither take nor give pages.
Idling ==
    \/ Die \/ Halt \/ LoadRefused \/ QuerySize \/ FetchMap \/ Announce \/ FinalMap
    \/ Translate \/ ExitBootServices \/ UNCHANGED vars

LEMMA IdlingKeepsPages ==
    Idling => UNCHANGED <<mem, seg, file, bi_page, stack, mm_buf>>
  BY DEF Idling, Die, Halt, LoadRefused, QuerySize, FetchMap, Announce, FinalMap,
     Translate, ExitBootServices, Give_up, vars, firmware, buffers

\* Steps that take a run of pages into a buffer that was empty.
LEMMA AccountedTake ==
    ASSUME LTypes, Accounted, NEW r, r \subseteq Page,
           \A p \in r : mem[p] = "conventional",
           SetType(r, "loader"), UNCHANGED seg,
           \/ file = {} /\ file' = r /\ UNCHANGED <<bi_page, stack, mm_buf>>
           \/ bi_page = {} /\ bi_page' = r /\ UNCHANGED <<file, stack, mm_buf>>
           \/ stack = {} /\ stack' = r /\ UNCHANGED <<file, bi_page, mm_buf>>
           \/ mm_buf = {} /\ mm_buf' = r /\ UNCHANGED <<file, bi_page, stack>>
    PROVE  Accounted'
<1>1. Placed' = Placed /\ Image' = Image
  BY DEF Placed, Image
<1>2. \A p \in Page : mem'[p] = "loader" <=> p \in r \/ mem[p] = "loader"
  BY TakesPages
<1>3. \A p \in r : /\ p \notin Image /\ p \notin Placed /\ p \notin file
                   /\ p \notin bi_page /\ p \notin stack /\ p \notin mm_buf
  BY OwnedNotFree
<1>4. Apart'
  BY <1>1, <1>3 DEF Accounted, Apart
<1> QED
  BY <1>1, <1>2, <1>4 DEF Accounted

LEMMA AccountedStep ==
    ASSUME LTypes, Accounted, Phased, [Next]_vars
    PROVE  Accounted'
<1> USE DEF firmware, buffers, sizes, handoff, Before, Unsized
<1>0. (seg' = seg => Placed' = Placed) /\ Image' = Image
  BY DEF Placed, Image
<1>1. CASE Idling
  <2>1. UNCHANGED <<mem, seg, file, bi_page, stack, mm_buf>>
    BY <1>1, IdlingKeepsPages
  <2> QED
    BY <1>0, <2>1 DEF Accounted, Apart
<1>2. CASE ReadKernelFile
  <2>1. CASE ~Die
    <3>1. PICK r \in FreeRuns(FilePages) : file' = r /\ SetType(r, "loader")
      BY <1>2, <2>1 DEF ReadKernelFile
    <3>2. file = {} /\ UNCHANGED <<seg, bi_page, stack, mm_buf>>
      BY <1>2, <2>1 DEF ReadKernelFile, Phased
    <3> QED BY <3>1, <3>2, FreeRunFree, AccountedTake
  <2> QED BY <1>1, <2>1 DEF Idling
<1>3. CASE AllocBootinfo
  <2>1. CASE ~Die
    <3>1. PICK r \in FreeRuns(1) : bi_page' = r /\ SetType(r, "loader")
      BY <1>3, <2>1 DEF AllocBootinfo
    <3>2. bi_page = {} /\ UNCHANGED <<seg, file, stack, mm_buf>>
      BY <1>3, <2>1 DEF AllocBootinfo, Phased
    <3> QED BY <3>1, <3>2, FreeRunFree, AccountedTake
  <2> QED BY <1>1, <2>1 DEF Idling
<1>4. CASE AllocStack
  <2>1. CASE ~Die
    <3>1. PICK r \in FreeRuns(StackPages) : stack' = r /\ SetType(r, "loader")
      BY <1>4, <2>1 DEF AllocStack
    <3>2. stack = {} /\ UNCHANGED <<seg, file, bi_page, mm_buf>>
      BY <1>4, <2>1 DEF AllocStack, Phased
    <3> QED BY <3>1, <3>2, FreeRunFree, AccountedTake
  <2> QED BY <1>1, <2>1 DEF Idling
<1>5. CASE GrowBuffers
  <2>1. CASE ~Die
    <3>1. PICK n : \E r \in FreeRuns(n) : mm_buf' = r /\ SetType(r, "loader")
      BY <1>5, <2>1 DEF GrowBuffers
    <3>2. PICK r \in FreeRuns(n) : mm_buf' = r /\ SetType(r, "loader")
      BY <3>1
    <3>3. mm_buf = {} /\ UNCHANGED <<seg, file, bi_page, stack>>
      BY <1>5, <2>1 DEF GrowBuffers, Phased
    <3> QED BY <3>2, <3>3, FreeRunFree, AccountedTake
  <2> QED BY <1>1, <2>1 DEF Idling
<1>6. CASE LoadSegment
  <2> DEFINE r == Segments[seg]
  <2>1. /\ seg \in DOMAIN Segments /\ seg \in Nat /\ seg' = seg + 1 /\ SetType(r, "loader")
        /\ \A p \in r : mem[p] = "conventional"
        /\ UNCHANGED <<file, bi_page, stack, mm_buf>>
    BY <1>6, ImageAssumption DEF LoadSegment, LTypes
  <2>2. r \subseteq Page
    BY <2>1, ImageAssumption
  <2>3. Placed' = Placed \union r
    <3>1. 1 .. (seg' - 1) = (1 .. (seg - 1)) \union {seg}
      BY <2>1 DEF LTypes
    <3> QED BY <2>1, <3>1 DEF Placed
  <2> HIDE DEF r
  <2>4. \A p \in Page : mem'[p] = "loader" <=> p \in r \/ mem[p] = "loader"
    BY <2>1, TakesPages
  <2>5. \A p \in r : /\ p \notin Image /\ p \notin Placed /\ p \notin file
                     /\ p \notin bi_page /\ p \notin stack /\ p \notin mm_buf
    BY <2>1, <2>2, OwnedNotFree
  <2>6. Apart'
    BY <1>0, <2>1, <2>3, <2>5 DEF Accounted, Apart
  <2> QED
    BY <1>0, <2>1, <2>3, <2>4, <2>6 DEF Accounted
<1>7. CASE FreeFile \/ ReleaseBuffer
  <2>1. \/ /\ SetType(file, "conventional") /\ file' = {}
           /\ UNCHANGED <<seg, bi_page, stack, mm_buf>>
        \/ /\ SetType(mm_buf, "conventional") /\ mm_buf' = {}
           /\ UNCHANGED <<seg, file, bi_page, stack>>
    BY <1>7 DEF FreeFile, ReleaseBuffer
  <2>2. Apart'
    BY <1>0, <2>1 DEF Accounted, Apart
  <2> QED
    BY <1>0, <2>1, <2>2, GivesPages DEF Accounted, Apart
<1>8. CASE FirmwareEvent
  <2>1. UNCHANGED <<seg, file, bi_page, stack, mm_buf>>
    BY <1>8 DEF FirmwareEvent
  <2>2. \A p \in Page : mem'[p] = "loader" <=> mem[p] = "loader"
    <3>1. CASE FirmwareStride
      BY <3>1 DEF FirmwareStride
    <3>2. ASSUME NEW p \in CallbackPages, FirmwarePage(p)
          PROVE  \A q \in Page : mem'[q] = "loader" <=> mem[q] = "loader"
      BY <3>2 DEF FirmwarePage, SetType
    <3> QED BY <1>8, <3>1, <3>2 DEF FirmwareEvent
  <2> QED
    BY <1>0, <2>1, <2>2 DEF Accounted, Apart
<1> QED
  BY <1>1, <1>2, <1>3, <1>4, <1>5, <1>6, <1>7, <1>8 DEF Next, LoaderStep, Idling

LEMMA PhasedStep ==
    ASSUME LTypes, Phased, [Next]_vars
    PROVE  Phased'
<1> USE ImageAssumption DEF firmware, buffers, sizes, handoff, Before, Unsized
<1>1. CASE Die
  BY <1>1 DEF Die, Phased
<1>2. CASE ReadKernelFile \/ LoadRefused \/ FreeFile \/ AllocBootinfo \/ AllocStack
  <2>1. CASE ~Die /\ ReadKernelFile
    BY <2>1 DEF ReadKernelFile, Phased
  <2>2. CASE FreeFile
    <3>1. seg = Len(Segments) + 1
      BY <2>2 DEF FreeFile, LTypes
    <3> QED BY <2>2, <3>1 DEF FreeFile, Phased
  <2>3. CASE ~Die /\ AllocBootinfo
    BY <2>3 DEF AllocBootinfo, Phased
  <2>4. CASE ~Die /\ AllocStack
    BY <2>4 DEF AllocStack, Phased
  <2> QED BY <1>1, <1>2, <2>1, <2>2, <2>3, <2>4 DEF LoadRefused
<1>3. CASE QuerySize \/ GrowBuffers \/ FetchMap \/ ReleaseBuffer \/ Announce
  <2>1. CASE ~Die
    BY <1>3, <2>1 DEF QuerySize, GrowBuffers, FetchMap, ReleaseBuffer, Announce, Phased
  <2> QED BY <1>1, <2>1
<1>4. CASE FinalMap \/ Translate \/ ExitBootServices
  <2>1. CASE ~Die
    <3>1. /\ pc \in {"map", "translate", "exit"} /\ UNCHANGED <<seg, file, bi_page, stack, mm_buf>>
          /\ pc' \in {"translate", "exit", "map", "kernel", "halted"}
      BY <1>4, <2>1 DEF FinalMap, Translate, ExitBootServices, Give_up, Halt
    <3> QED BY <3>1 DEF Phased
  <2> QED BY <1>1, <2>1
<1>5. CASE FirmwareEvent \/ UNCHANGED vars
  BY <1>5 DEF FirmwareEvent, vars, Phased
<1>6. CASE LoadSegment
  BY <1>6 DEF LoadSegment, Phased
<1> QED
  BY <1>1, <1>2, <1>3, <1>4, <1>5, <1>6 DEF Next, LoaderStep

(***************************************************************************)
(* The size of the buffers                                                 *)
(***************************************************************************)

LEMMA MulMonotone ==
    ASSUME NEW x \in Int, NEW y \in Int, NEW d \in Nat, x <= y
    PROVE  x * d <= y * d
<1>1. y - x \in Nat /\ (y - x) * d >= 0
  OBVIOUS
<1>2. (y - x) * d = y * d - x * d
  OBVIOUS
<1> QED
  BY <1>1, <1>2

LEMMA MulCancel ==
    ASSUME NEW x \in Int, NEW y \in Int, NEW d \in Nat \ {0}, x * d < y * d
    PROVE  x < y
<1> SUFFICES ASSUME y <= x PROVE FALSE
  OBVIOUS
<1>1. y * d <= x * d
  BY MulMonotone
<1>2. x * d \in Int /\ y * d \in Int
  OBVIOUS
<1> QED
  BY <1>1, <1>2

LEMMA CeilDivBounds ==
    ASSUME NEW a \in Nat, NEW b \in Nat \ {0}
    PROVE  /\ CeilDiv(a, b) \in Nat
           /\ a <= CeilDiv(a, b) * b
           /\ CeilDiv(a, b) * b < a + b
<1>1. PICK n \in Nat : n = a + b - 1
  OBVIOUS
<1>2. n \div b \in Nat /\ (n \div b) * b <= n /\ n < (n \div b) * b + b
  BY <1>1
<1>3. PICK q \in Nat : q = n \div b /\ q * b <= n /\ n < q * b + b
  BY <1>2
<1>4. q * b \in Nat
  OBVIOUS
<1>5. a <= q * b /\ q * b < a + b
  BY <1>1, <1>3, <1>4
<1> QED
  BY <1>1, <1>3, <1>5 DEF CeilDiv

LEMMA SomeDescriptor ==
    ASSUME NEW m
    PROVE  DescriptorCount(m) \in Nat \ {0}
<1> DEFINE S == {p \in Page : p = 0 \/ m[p] # m[p - 1]}
<1>1. IsFiniteSet(Page)
  BY FS_Interval, LoaderAssumption DEF Page
<1>2. IsFiniteSet(S)
  BY <1>1, FS_Subset
<1>3. 0 \in S
  BY LoaderAssumption DEF Page
<1>4. Cardinality(S) \in Nat /\ Cardinality(S) # 0
  BY <1>2, <1>3, FS_EmptySet, FS_CardinalityType
<1> QED
  BY <1>4 DEF DescriptorCount

\* The arithmetic of the grow loop.
LEMMA BuffersSized ==
    ASSUME NEW d \in Strides, NEW size \in Nat, size >= d
    PROVE  LET requested == size + Slack * d
               n == CeilDiv(requested, d)
           IN  /\ n \in Nat /\ n >= Slack + 1
               /\ CeilDiv(requested, PageBytes) * PageBytes \in Nat
               /\ CeilDiv(requested, PageBytes) * PageBytes < n * d + PageBytes
<1>1. d \in Nat \ {0} /\ PageBytes \in Nat \ {0} /\ Slack \in Nat
  BY LoaderAssumption
<1>2. PICK requested \in Nat : requested = size + Slack * d
  BY <1>1
<1>3. PICK n \in Nat : n = CeilDiv(requested, d) /\ requested <= n * d
  BY <1>1, CeilDivBounds
<1>4. PICK k \in Nat : k = CeilDiv(requested, PageBytes) /\ k * PageBytes < requested + PageBytes
  BY <1>1, CeilDivBounds
<1>5. n * d \in Nat /\ k * PageBytes \in Nat /\ Slack * d \in Nat
  BY <1>1
<1>6. k * PageBytes < n * d + PageBytes
  BY <1>1, <1>3, <1>4, <1>5
<1>7. Slack < n
  <2>1. Slack * d < n * d
    BY <1>1, <1>2, <1>3, <1>5
  <2> QED BY <1>1, <2>1, MulCancel
<1>8. n >= Slack + 1
  BY <1>1, <1>7
<1> QED
  BY <1>2, <1>3, <1>4, <1>5, <1>6, <1>8

\* The allowance for splits covers a smaller descriptor size, too.
LEMMA RoomSuffices ==
    ASSUME NEW n \in Nat, NEW d \in Strides, NEW t \in Strides, NEW bytes \in Nat,
           NEW count \in Nat,
           n >= Slack + 1, bytes < n * d + PageBytes, count * t <= bytes
    PROVE  count + 2 * Len(Segments) <= n * 33 + 16
<1>1. /\ d \in Nat \ {0} /\ t \in Nat \ {0} /\ Slack \in Nat /\ PageBytes \in Nat
      /\ d <= 8 * t /\ PageBytes <= t * (25 * (Slack + 1) - 15)
  BY LoaderAssumption, StrideAssumption
<1>2. d * n <= (8 * t) * n
  BY <1>1, MulMonotone
<1>3. (25 * (Slack + 1) - 15) * t <= (25 * n - 15) * t
  BY <1>1, MulMonotone
<1>4. /\ d * n = n * d /\ (8 * t) * n = 8 * (n * t)
      /\ t * (25 * (Slack + 1) - 15) = (25 * (Slack + 1) - 15) * t
      /\ (25 * n - 15) * t = 25 * (n * t) - 15 * t
      /\ (33 * n - 15) * t = 33 * (n * t) - 15 * t
  BY <1>1
<1>5. /\ n * d \in Nat /\ n * t \in Nat /\ count * t \in Nat
      /\ (25 * (Slack + 1) - 15) * t \in Int /\ (33 * n - 15) * t \in Int
  BY <1>1
<1>6. n * d <= 8 * (n * t) /\ PageBytes <= 25 * (n * t) - 15 * t
  BY <1>1, <1>2, <1>3, <1>4, <1>5
<1>7. count * t < (33 * n - 15) * t
  BY <1>1, <1>4, <1>5, <1>6
<1>8. count < 33 * n - 15
  BY <1>1, <1>7, MulCancel
<1>9. Len(Segments) \in Nat /\ Len(Segments) <= 16
  BY ImageAssumption DEF MaxSegments
<1> QED
  BY <1>8, <1>9

LEMMA SizedStep ==
    ASSUME LTypes, Sized, Next
    PROVE  Sized'
<1> USE DEF firmware, buffers, sizes, handoff
<1>0. \A s \in Strides : s \in Nat \ {0}
  BY LoaderAssumption
<1>1. CASE Die \/ Halt
  BY <1>1 DEF Die, Halt, Sized
<1>2. CASE ReadKernelFile \/ LoadRefused \/ LoadSegment \/ FreeFile \/ AllocBootinfo
           \/ AllocStack
  <2>1. CASE ~Die
    <3>1. map_bytes' = map_bytes /\ pc' \in {"load", "bootinfo", "stack", "query"}
      BY <1>2, <2>1 DEF ReadKernelFile, LoadRefused, LoadSegment, FreeFile, AllocBootinfo,
         AllocStack
    <3> QED BY <3>1 DEF Sized
  <2> QED BY <1>1, <2>1
<1>3. MapSize \in Nat /\ MapSize >= stride /\ MapSize = DescriptorCount(mem) * stride
  <2>1. PICK c \in Nat \ {0} : c = DescriptorCount(mem)
    BY SomeDescriptor
  <2>2. stride \in Nat
    BY <1>0 DEF LTypes
  <2>3. 1 * stride <= c * stride
    BY <2>1, <2>2, MulMonotone
  <2> QED BY <2>1, <2>2, <2>3 DEF MapSize
<1>4. CASE QuerySize
  <2>1. CASE ~Die
    BY <1>3, <1>4, <2>1 DEF QuerySize, Sized, LTypes
  <2> QED BY <1>1, <2>1
<1>5. CASE GrowBuffers
  <2>1. CASE ~Die
    <3> DEFINE requested == mmsize + Slack * dsz
               n == CeilDiv(requested, dsz)
    <3>1. dsz \in Strides /\ mmsize \in Nat /\ mmsize >= dsz
      BY <1>5 DEF GrowBuffers, Sized
    <3>2. /\ map_bytes' = CeilDiv(requested, PageBytes) * PageBytes
          /\ sypas_cap' = n * 33 + 16 /\ pc' = "fetch" /\ dsz' = dsz
      BY <1>5, <2>1 DEF GrowBuffers, MaxSegments
    <3>3. /\ n \in Nat /\ n >= Slack + 1 /\ map_bytes' \in Nat
          /\ map_bytes' < n * dsz + PageBytes
      BY <3>1, <3>2, BuffersSized
    <3>4. PICK k \in Nat, d \in Strides :
            k >= Slack + 1 /\ map_bytes' < k * d + PageBytes /\ sypas_cap' = k * 33 + 16
      BY <3>1, <3>2, <3>3
    <3> QED BY <3>1, <3>2, <3>3, <3>4 DEF Sized, Room
  <2> QED BY <1>1, <2>1
<1>6. CASE FetchMap
  <2>1. CASE ~Die
    <3>1. /\ mmsize' = MapSize /\ dsz' = stride /\ pc' \in {"announce", "release"}
          /\ pc = "fetch" /\ UNCHANGED <<map_bytes, sypas_cap>>
      BY <1>6, <2>1 DEF FetchMap, GetMemoryMap
    <3>2. (\E n \in Nat, d \in Strides : Room(n, d))'
      BY <3>1 DEF Sized, Room
    <3> QED BY <1>3, <3>1, <3>2 DEF Sized, LTypes
  <2> QED BY <1>1, <2>1
<1>7. CASE ReleaseBuffer
  BY <1>7 DEF ReleaseBuffer, Sized
<1>8. CASE FinalMap
  <2>1. CASE ~Die /\ ~Halt
    <3>1. /\ MapSize <= map_bytes /\ efimap' = mem /\ pc' = "translate" /\ pc = "map"
          /\ UNCHANGED <<map_bytes, sypas_cap, mem, stride>>
      BY <1>8, <2>1 DEF FinalMap, Give_up, GetMemoryMap
    <3>2. (\E n \in Nat, d \in Strides : Room(n, d))'
      BY <3>1 DEF Sized, Room
    <3>3. (\E t \in Strides : DescriptorCount(efimap) * t <= map_bytes)'
      BY <1>3, <3>1 DEF LTypes
    <3> QED BY <3>1, <3>2, <3>3 DEF Sized
  <2> QED BY <1>1, <2>1
<1>9. CASE Announce \/ Translate \/ ExitBootServices
  <2>1. CASE ~Die /\ ~Halt
    <3>1. /\ pc \in {"announce", "translate", "exit"} /\ UNCHANGED <<map_bytes, sypas_cap>>
          /\ pc' \in {"map", "exit", "kernel", "halted"}
      BY <1>9, <2>1 DEF Announce, Translate, ExitBootServices, Give_up
    <3>2. (\E n \in Nat, d \in Strides : Room(n, d))'
      BY <3>1 DEF Sized, Room
    <3> QED BY <3>1, <3>2 DEF Sized
  <2> QED BY <1>1, <2>1
<1>10. CASE FirmwareEvent
  BY <1>10 DEF FirmwareEvent, Sized, Room, DescriptorCount
<1> QED
  BY <1>1, <1>2, <1>4, <1>5, <1>6, <1>7, <1>8, <1>9, <1>10 DEF Next, LoaderStep

LEMMA SizedStutter ==
    ASSUME Sized, UNCHANGED vars
    PROVE  Sized'
  BY DEF vars, sizes, handoff, Sized, Room, DescriptorCount

(***************************************************************************)
(* Theorems                                                                *)
(***************************************************************************)

LEMMA LoaderInit == Init => LInv
<1> SUFFICES ASSUME Init PROVE LInv
  OBVIOUS
<1>1. LTypes /\ Accounted
  BY TypesInit, AccountedInit
<1>2. Keyed /\ Recovery
  BY DEF Init, Keyed, Recovery
<1>3. Phased /\ Sized
  BY DEF Init, Phased, Sized
<1> QED
  BY <1>1, <1>2, <1>3 DEF LInv

LEMMA LoaderInductive == LInv /\ [Next]_vars => LInv'
<1> SUFFICES ASSUME LInv, [Next]_vars PROVE LInv'
  OBVIOUS
<1>1. LTypes' /\ Keyed' /\ Recovery'
  BY TypesStep, KeyedStep, RecoveryStep DEF LInv
<1>2. Accounted' /\ Phased'
  BY AccountedStep, PhasedStep DEF LInv
<1>3. Sized'
  BY SizedStep, SizedStutter DEF LInv
<1> QED
  BY <1>1, <1>2, <1>3 DEF LInv

LEMMA LoaderInvariant == Spec => []LInv
  BY LoaderInit, LoaderInductive, PTL DEF Spec

\* What the kernel was given, page by page.
LEMMA OwnedAtHandoff == LInv => HandoffPagesOwned
<1> SUFFICES ASSUME LInv, pc = "kernel"
             PROVE  HandoffPagesOwned
  BY DEF HandoffPagesOwned
<1>1. smap = Translated(mem) /\ file = {} /\ seg = Len(Segments) + 1
  BY DEF LInv, Keyed, Phased
<1>2. Placed = KernelPages
  <2>1. 1 .. (seg - 1) = DOMAIN Segments
    BY <1>1, ImageAssumption
  <2> QED BY <2>1 DEF Placed, KernelPages
<1>3. KernelPages \subseteq Page
  BY ImageAssumption DEF KernelPages
<1>4. \A p \in Page : smap[p] = IF p \in KernelPages THEN "KERNEL" ELSE SypasType(mem[p])
  BY <1>1 DEF Translated
<1>5. \A p \in Page : smap[p] = "KERNEL" <=> p \in KernelPages
  BY <1>4 DEF SypasType
<1>6. \A p \in Page : smap[p] = "LOADER" <=> p \notin KernelPages /\ mem[p] = "loader"
  BY <1>4 DEF SypasType
<1>7. \A p \in Page : smap[p] = "LOADER" <=>
        p \in Image \/ p \in bi_page \/ p \in stack \/ p \in mm_buf
  BY <1>1, <1>2, <1>6 DEF LInv, Accounted, Apart
<1>8. {p \in Page : smap[p] = "KERNEL"} = KernelPages
  BY <1>3, <1>5
<1>9. {p \in Page : smap[p] = "LOADER"} = Image \union bi_page \union stack \union mm_buf
  BY <1>7 DEF LInv, Accounted, Image
<1>10. Cardinality(KernelPages \union bi_page \union stack \union mm_buf) =
         Cardinality(KernelPages) + Cardinality(bi_page)
           + Cardinality(stack) + Cardinality(mm_buf)
  <2>1. \A S \in SUBSET Page : IsFiniteSet(S) /\ Cardinality(S) \in Nat
    <3>1. IsFiniteSet(Page)
      BY FS_Interval, LoaderAssumption DEF Page
    <3> QED BY <3>1, FS_Subset, FS_CardinalityType
  <2>2. \A S, T \in SUBSET Page :
          S \intersect T = {} => Cardinality(S \union T) = Cardinality(S) + Cardinality(T)
    <3> SUFFICES ASSUME NEW S \in SUBSET Page, NEW T \in SUBSET Page, S \intersect T = {}
                 PROVE  Cardinality(S \union T) = Cardinality(S) + Cardinality(T)
      OBVIOUS
    <3>1. Cardinality(S \union T) = Cardinality(S) + Cardinality(T) - Cardinality({})
      BY <2>1, FS_Union
    <3> QED BY <2>1, <3>1, FS_EmptySet
  <2>3. /\ bi_page \in SUBSET Page /\ stack \in SUBSET Page /\ mm_buf \in SUBSET Page
        /\ KernelPages \intersect bi_page = {}
        /\ (KernelPages \union bi_page) \intersect stack = {}
        /\ (KernelPages \union bi_page \union stack) \intersect mm_buf = {}
    BY <1>2 DEF LInv, Accounted, Apart
  <2>4. Cardinality(KernelPages \union bi_page) = Cardinality(KernelPages) + Cardinality(bi_page)
    BY <1>3, <2>2, <2>3
  <2>5. Cardinality(KernelPages \union bi_page \union stack) =
          Cardinality(KernelPages \union bi_page) + Cardinality(stack)
    BY <1>3, <2>2, <2>3
  <2>6. Cardinality(KernelPages \union bi_page \union stack \union mm_buf) =
          Cardinality(KernelPages \union bi_page \union stack) + Cardinality(mm_buf)
    BY <1>3, <2>2, <2>3
  <2> QED BY <2>4, <2>5, <2>6
<1> QED
  BY <1>8, <1>9, <1>10 DEF HandoffPagesOwned, Image

\* The composition with the kernel does nothing to the loader that the loader
\* would not do alone.
THEOREM BootRunsLoader == BootSpec => Spec
<1>1. BootInit => Init
  BY DEF BootInit
<1>2. [BootNext]_bootvars => [Next]_vars
  BY DEF BootNext, Next, EnterKernel, KernelStep, bootvars
<1> QED
  BY <1>1, <1>2, PTL DEF BootSpec, Spec

\* After a failed ExitBootServices only GetMemoryMap and ExitBootServices are
\* called, and after a successful one nothing (main.c:355).
THEOREM RecoveryPairOnly == BootSpec => []OnlyRecoveryPair
<1>1. LInv => OnlyRecoveryPair
  BY DEF LInv, Recovery, OnlyRecoveryPair
<1> QED
  BY <1>1, BootRunsLoader, LoaderInvariant, PTL

\* The map handed over is the firmware's at the moment boot services ended.
THEOREM HandoffIsExact == BootSpec => []HandoffMapExact
<1>1. LInv => HandoffMapExact
  BY DEF LInv, Keyed, HandoffMapExact
<1> QED
  BY <1>1, BootRunsLoader, LoaderInvariant, PTL

\* In that map the loader's pages are the ones it still holds, each once.
THEOREM PagesAreOwned == BootSpec => []HandoffPagesOwned
  BY OwnedAtHandoff, BootRunsLoader, LoaderInvariant, PTL

\* The output array never is too small for the map that was fetched.
THEOREM RoomIsEnough == BootSpec => []RoomForTranslation
<1>1. LInv => RoomForTranslation
  <2> SUFFICES ASSUME LInv, pc = "translate"
               PROVE  DescriptorCount(efimap) + 2 * Len(Segments) <= sypas_cap
    BY DEF RoomForTranslation
  <2>1. PICK n \in Nat, d \in Strides : Room(n, d)
    BY DEF LInv, Sized
  <2>2. PICK t \in Strides : DescriptorCount(efimap) * t <= map_bytes
    BY DEF LInv, Sized
  <2>3. DescriptorCount(efimap) \in Nat /\ map_bytes \in Nat
    BY SomeDescriptor DEF LInv, Sized
  <2> QED
    BY <2>1, <2>2, <2>3, RoomSuffices DEF Room
<1> QED
  BY <1>1, BootRunsLoader, LoaderInvariant, PTL

(***************************************************************************)
(* The entries of the map in the bootinfo                                  *)
(***************************************************************************)

SypasTypes == {"USABLE", "LOADER", "FIRMWARE", "RESERVED", "KERNEL"}

UpTo(m, p) == {q \in Starts(m) : q <= p}
Later(m, p) == {q \in Starts(m) : q > p} \union {NPages}
EndOf(m, p) == CHOOSE q \in Later(m, p) : \A r \in Later(m, p) : q <= r
StartOf(m, k) == CHOOSE p \in Starts(m) : Cardinality(UpTo(m, p)) = k

\* A set of naturals that is not empty has a least element.
LEMMA LeastPage ==
    ASSUME NEW S \in SUBSET Nat, S # {}
    PROVE  \E x \in S : \A y \in S : x <= y
<1> DEFINE R == OpToRel(<, Nat)
<1>1. IsWellFoundedOn(R, Nat)
  BY NatLessThanWellFounded
<1>2. \A x, y \in Nat : x < y => <<x, y>> \in R
  BY DEF OpToRel
<1> HIDE DEF R
<1>3. PICK x \in S : \A y \in S : ~(<<y, x>> \in R)
  BY <1>1, WFMin, ZenonT(20)
<1>4. ASSUME NEW y \in S PROVE x <= y
  <2>1. x \in Nat /\ y \in Nat /\ ~(<<y, x>> \in R)
    BY <1>3
  <2>2. ~(y < x)
    BY <1>2, <2>1
  <2> QED BY <2>1, <2>2
<1> QED BY <1>4

\* The runs begin at page 0 and are finitely many.
LEMMA StartsFinite ==
    ASSUME NEW m
    PROVE  /\ 0 \in Starts(m) /\ Starts(m) \subseteq Page /\ Page \subseteq Nat
           /\ \A S \in SUBSET Starts(m) : IsFiniteSet(S) /\ Cardinality(S) \in Nat
<1>1. 0 \in Starts(m) /\ Starts(m) \subseteq Page /\ Page \subseteq Nat
  BY LoaderAssumption DEF Starts, Page
<1>2. IsFiniteSet(Page)
  BY FS_Interval, LoaderAssumption DEF Page
<1>3. IsFiniteSet(Starts(m))
  BY <1>1, <1>2, FS_Subset
<1>4. ASSUME NEW S \in SUBSET Starts(m) PROVE IsFiniteSet(S) /\ Cardinality(S) \in Nat
  BY <1>3, <1>4, FS_Subset, FS_CardinalityType
<1> QED
  BY <1>1, <1>4

\* The rank of a start among the starts says which one it is.
LEMMA RankGrows ==
    ASSUME NEW m, NEW p \in Nat, NEW r \in Starts(m), p < r
    PROVE  Cardinality(UpTo(m, p)) < Cardinality(UpTo(m, r))
<1>1. /\ IsFiniteSet(UpTo(m, r)) /\ Cardinality(UpTo(m, r)) \in Nat
      /\ Cardinality(UpTo(m, p)) \in Nat
  BY StartsFinite DEF UpTo
<1>2. r \in Nat /\ Starts(m) \subseteq Nat
  BY StartsFinite
<1>3. UpTo(m, p) \in SUBSET UpTo(m, r)
  BY <1>2 DEF UpTo
<1>4. r \in UpTo(m, r) /\ r \notin UpTo(m, p)
  BY <1>2 DEF UpTo
<1>5. /\ Cardinality(UpTo(m, p)) <= Cardinality(UpTo(m, r))
      /\ Cardinality(UpTo(m, p)) # Cardinality(UpTo(m, r))
  BY <1>1, <1>3, <1>4, FS_Subset
<1> QED
  BY <1>1, <1>5

\* Every rank belongs to a start.
LEMMA RankOnto ==
    ASSUME NEW m
    PROVE  \A k \in 1 .. Cardinality(Starts(m)) :
             \E p \in Starts(m) : Cardinality(UpTo(m, p)) = k
<1> DEFINE S == Starts(m)
           T == 1 .. Cardinality(S)
           f == [p \in S |-> Cardinality(UpTo(m, p))]
<1>1. IsFiniteSet(S) /\ Cardinality(S) \in Nat /\ S \subseteq Nat
  BY StartsFinite
<1>2. ASSUME NEW p \in S PROVE Cardinality(UpTo(m, p)) \in T
  <2>1. UpTo(m, p) \in SUBSET S /\ p \in UpTo(m, p)
    BY <1>1 DEF UpTo
  <2>2. IsFiniteSet(UpTo(m, p)) /\ Cardinality(UpTo(m, p)) \in Nat
    BY <2>1, StartsFinite
  <2>3. Cardinality(UpTo(m, p)) <= Cardinality(S)
    BY <1>1, <2>1, FS_Subset
  <2>4. Cardinality(UpTo(m, p)) # 0
    BY <2>1, <2>2, FS_EmptySet
  <2> QED
    BY <1>1, <2>2, <2>3, <2>4
<1>3. ASSUME NEW p \in S, NEW r \in S, f[p] = f[r] PROVE p = r
  <2>1. p \in Nat /\ r \in Nat
    BY <1>1
  <2>2. Cardinality(UpTo(m, p)) = Cardinality(UpTo(m, r))
    BY <1>3
  <2>3. Cardinality(UpTo(m, p)) \in Nat /\ Cardinality(UpTo(m, r)) \in Nat
    BY <1>1, <1>2
  <2>4. ~(p < r) /\ ~(r < p)
    BY <2>1, <2>2, <2>3, RankGrows
  <2> QED
    BY <2>1, <2>4
<1>4. f \in Injection(S, T)
  BY <1>2, <1>3 DEF Injection, IsInjective
<1>5. IsFiniteSet(T) /\ Cardinality(T) = Cardinality(S)
  <2>1. PICK n \in Int : n = Cardinality(S) /\ n >= 0
    BY <1>1
  <2>2. IsFiniteSet(1 .. n) /\ Cardinality(1 .. n) = IF 1 > n THEN 0 ELSE n - 1 + 1
    BY FS_Interval
  <2>3. (IF 1 > n THEN 0 ELSE n - 1 + 1) = n
    BY <2>1
  <2> QED
    BY <2>1, <2>2, <2>3
<1>6. f \in Surjection(S, T)
  <2> HIDE DEF S, T, f
  <2> QED
    BY <1>4, <1>5, FS_Injection
<1>7. \A k \in T : \E p \in S : f[p] = k
  BY <1>6 DEF Surjection
<1> QED
  BY <1>7

LEMMA StartOfRank ==
    ASSUME NEW m, NEW k \in 1 .. Cardinality(Starts(m))
    PROVE  StartOf(m, k) \in Starts(m) /\ Cardinality(UpTo(m, StartOf(m, k))) = k
<1>1. \E p \in Starts(m) : Cardinality(UpTo(m, p)) = k
  BY RankOnto
<1> QED
  BY <1>1 DEF StartOf

\* The starts come in address order.
LEMMA StartsOrdered ==
    ASSUME NEW m, NEW j \in 1 .. Cardinality(Starts(m)),
           NEW k \in 1 .. Cardinality(Starts(m)), j < k
    PROVE  StartOf(m, j) < StartOf(m, k)
<1>1. PICK p \in Starts(m) : p = StartOf(m, j) /\ Cardinality(UpTo(m, p)) = j
  BY StartOfRank
<1>2. PICK r \in Starts(m) : r = StartOf(m, k) /\ Cardinality(UpTo(m, r)) = k
  BY StartOfRank
<1>3. p \in Nat /\ r \in Nat /\ Cardinality(Starts(m)) \in Nat
  BY StartsFinite
<1>4. j \in Nat /\ k \in Nat
  BY <1>3
<1>5. p # r
  BY <1>1, <1>2, <1>4
<1>6. ~(r < p)
  <2> SUFFICES ASSUME r < p PROVE FALSE
    OBVIOUS
  <2>1. Cardinality(UpTo(m, r)) < Cardinality(UpTo(m, p))
    BY <1>3, RankGrows
  <2> QED
    BY <1>1, <1>2, <1>4, <2>1
<1> QED
  BY <1>1, <1>2, <1>3, <1>5, <1>6

\* A run ends where the next one starts, or with the memory.
LEMMA RunEnds ==
    ASSUME NEW m, NEW p \in Starts(m)
    PROVE  /\ EndOf(m, p) \in Later(m, p) /\ EndOf(m, p) \in Nat
           /\ p < EndOf(m, p) /\ EndOf(m, p) <= NPages
           /\ \A r \in Starts(m) : p < r => EndOf(m, p) <= r
<1>1. p \in Page /\ Starts(m) \subseteq Page
  BY StartsFinite
<1>2. Later(m, p) \in SUBSET Nat /\ NPages \in Later(m, p)
  BY <1>1, LoaderAssumption DEF Later, Page
<1>3. \E x \in Later(m, p) : \A y \in Later(m, p) : x <= y
  BY <1>2, LeastPage
<1>4. EndOf(m, p) \in Later(m, p) /\ \A y \in Later(m, p) : EndOf(m, p) <= y
  BY <1>3 DEF EndOf
<1>5. p < EndOf(m, p)
  BY <1>1, <1>4, LoaderAssumption DEF Later, Page
<1>6. \A r \in Starts(m) : p < r => r \in Later(m, p)
  BY <1>1, <1>2 DEF Later, Page
<1> QED
  BY <1>2, <1>4, <1>5, <1>6

\* All its pages have the type of the first.
LEMMA RunIsUniform ==
    ASSUME NEW m, NEW p \in Starts(m), NEW x \in p .. (EndOf(m, p) - 1)
    PROVE  x \in Page /\ m[x] = m[p]
<1>1. PICK e \in Nat : /\ e = EndOf(m, p) /\ p < e /\ e <= NPages
                       /\ \A r \in Starts(m) : p < r => e <= r
  BY RunEnds
<1>2. p \in Nat /\ NPages \in Nat
  BY StartsFinite, LoaderAssumption
<1>3. x \in p .. (e - 1) /\ \A y \in p .. (e - 1) : y \in Page /\ y \in Nat
  BY <1>1, <1>2 DEF Page
<1> DEFINE B == {y \in p .. (e - 1) : m[y] # m[p]}
<1>4. B = {}
  <2> SUFFICES ASSUME B # {} PROVE FALSE
    OBVIOUS
  <2>1. B \in SUBSET Nat
    BY <1>3
  <2>2. PICK y \in B : \A z \in B : y <= z
    BY <2>1, LeastPage
  <2>3. y \in p .. (e - 1) /\ m[y] # m[p] /\ y # p
    BY <2>2
  <2>4. y - 1 \in p .. (e - 1) /\ ~(y <= y - 1)
    BY <1>1, <1>2, <2>3
  <2>5. m[y - 1] = m[p]
    BY <2>2, <2>4
  <2>6. y \in Starts(m)
    BY <1>3, <2>3, <2>5 DEF Starts
  <2> QED
    BY <1>1, <1>2, <2>3, <2>6
<1> QED
  BY <1>3, <1>4

\* Every page is in a run.
LEMMA RunsCover ==
    ASSUME NEW m, NEW p \in Page
    PROVE  \E k \in 1 .. Cardinality(Starts(m)) :
             p \in StartOf(m, k) .. (EndOf(m, StartOf(m, k)) - 1)
<1> DEFINE k == Cardinality(UpTo(m, p))
<1>1. p \in Nat /\ 0 \in Starts(m) /\ Starts(m) \subseteq Nat /\ p < NPages
      /\ NPages \in Nat
  BY StartsFinite, LoaderAssumption DEF Page
<1>2. UpTo(m, p) \in SUBSET Starts(m) /\ 0 \in UpTo(m, p)
  BY <1>1 DEF UpTo
<1>3. IsFiniteSet(UpTo(m, p)) /\ k \in Nat /\ IsFiniteSet(Starts(m))
      /\ Cardinality(Starts(m)) \in Nat
  BY <1>2, StartsFinite
<1>4. k \in 1 .. Cardinality(Starts(m))
  <2>1. k <= Cardinality(Starts(m))
    BY <1>2, <1>3, FS_Subset
  <2>2. k # 0
    BY <1>2, <1>3, FS_EmptySet
  <2> QED
    BY <1>3, <2>1, <2>2
<1>5. PICK b \in Starts(m) : b = StartOf(m, k) /\ Cardinality(UpTo(m, b)) = k
  BY <1>4, StartOfRank
<1>6. b \in Nat
  BY <1>1
<1>7. b <= p
  <2> SUFFICES ASSUME p < b PROVE FALSE
    BY <1>1, <1>6
  <2>1. k < Cardinality(UpTo(m, b))
    BY <1>1, RankGrows
  <2> QED
    BY <1>3, <1>5, <2>1
<1>8. PICK e \in Nat : e = EndOf(m, b) /\ b < e /\ e \in Later(m, b)
  BY RunEnds
<1>9. p < e
  <2> SUFFICES ASSUME e <= p PROVE FALSE
    BY <1>1
  <2>1. e \in Starts(m)
    BY <1>1, <1>8 DEF Later
  <2>2. Cardinality(UpTo(m, b)) < Cardinality(UpTo(m, e))
    BY <1>6, <1>8, <2>1, RankGrows
  <2>3. UpTo(m, e) \in SUBSET UpTo(m, p)
    BY <1>1 DEF UpTo
  <2>4. Cardinality(UpTo(m, e)) <= k /\ Cardinality(UpTo(m, e)) \in Nat
    BY <1>3, <2>3, FS_Subset, StartsFinite DEF UpTo
  <2> QED
    BY <1>3, <1>5, <2>2, <2>4
<1>10. p \in b .. (e - 1)
  BY <1>1, <1>6, <1>7, <1>8, <1>9
<1> QED
  BY <1>4, <1>5, <1>8, <1>10

(***************************************************************************)
(* The kernel on that map                                                  *)
(***************************************************************************)

\* Every map a loader can hand over, and what PmmProofs says of them.
BootMaps == {Entries(m) : m \in [Page -> SypasTypes]}
KP == INSTANCE PmmProofs WITH Maps <- BootMaps, PageBytes <- BitmapPage

FreePages(m) == {p \in Page : m[p] = "USABLE"}

LEMMA EntriesAre ==
    ASSUME NEW m
    PROVE  /\ DOMAIN Entries(m) = 1 .. Cardinality(Starts(m))
           /\ \A k \in DOMAIN Entries(m) :
                Entries(m)[k] = EntryAt(m, StartOf(m, k))
           /\ \A p : /\ EntryAt(m, p).base = p
                     /\ EntryAt(m, p).length = EndOf(m, p) - p
                     /\ EntryAt(m, p).type = KernelType(m[p])
<1>1. Entries(m) = [k \in 1 .. Cardinality(Starts(m)) |-> EntryAt(m, StartOf(m, k))]
  BY DEF Entries, StartOf, UpTo
<1>2. \A p : EntryAt(m, p) = [base |-> p, type |-> KernelType(m[p]),
                              length |-> EndOf(m, p) - p]
  BY DEF EntryAt, EndOf, Later
<1> QED
  BY <1>1, <1>2

\* What the kernel reads in entry k.
LEMMA EntryFacts ==
    ASSUME NEW m, NEW k \in DOMAIN Entries(m)
    PROVE  \E b \in Starts(m), e \in Nat :
             /\ b = StartOf(m, k) /\ e = EndOf(m, b) /\ b \in Nat
             /\ b < e /\ e <= NPages
             /\ Entries(m)[k].base = b /\ Entries(m)[k].length = e - b
             /\ Entries(m)[k].type = KernelType(m[b])
             /\ Entries(m)[k] = [base |-> b, type |-> KernelType(m[b]),
                                 length |-> e - b]
<1>1. k \in 1 .. Cardinality(Starts(m)) /\ Entries(m)[k] = EntryAt(m, StartOf(m, k))
  BY EntriesAre
<1>2. PICK b \in Starts(m) : b = StartOf(m, k) /\ b \in Nat
  BY <1>1, StartOfRank, StartsFinite
<1>3. PICK e \in Nat : e = EndOf(m, b) /\ b < e /\ e <= NPages
  BY RunEnds
<1>4. EntryAt(m, b) = [base |-> b, type |-> KernelType(m[b]), length |-> e - b]
  BY <1>3 DEF EntryAt, EndOf, Later
<1> QED
  BY <1>1, <1>2, <1>3, <1>4

LEMMA EntriesWellFormed ==
    ASSUME NEW m
    PROVE  /\ KP!WellFormedMap(Entries(m))
           /\ \A k \in DOMAIN Entries(m) :
                Entries(m)[k].base + Entries(m)[k].length <= MaxU64
<1>1. PICK n \in Nat : n = Cardinality(Starts(m)) /\ DOMAIN Entries(m) = 1 .. n
  BY StartsFinite, EntriesAre
<1>2. ASSUME NEW k \in DOMAIN Entries(m)
      PROVE  /\ Entries(m)[k] \in KP!Entry
             /\ Entries(m)[k].base + Entries(m)[k].length <= MaxU64
  <2>1. PICK b \in Starts(m), e \in Nat :
             /\ b \in Nat /\ b < e /\ e <= NPages
             /\ Entries(m)[k].base = b /\ Entries(m)[k].length = e - b
             /\ Entries(m)[k] = [base |-> b, type |-> KernelType(m[b]),
                                 length |-> e - b]
    BY <1>2, EntryFacts
  <2>2. e - b \in Nat \ {0} /\ b + (e - b) <= MaxU64
    BY <2>1, LoaderAssumption, BootAssumption
  <2>3. KernelType(m[b]) \in {"usable", "mmio", "reserved"}
    BY DEF KernelType
  <2> QED
    BY <2>1, <2>2, <2>3 DEF KP!Entry
<1>3. Entries(m) \in Seq(KP!Entry)
  <2>1. Entries(m) = [k \in 1 .. n |-> Entries(m)[k]]
    BY <1>1 DEF Entries
  <2>2. Entries(m) \in [1 .. n -> KP!Entry]
    BY <1>1, <1>2, <2>1
  <2> QED
    BY <2>2
<1>4. ASSUME NEW j \in DOMAIN Entries(m), NEW k \in DOMAIN Entries(m), j < k
      PROVE  Entries(m)[j].base + Entries(m)[j].length <= Entries(m)[k].base
  <2>1. PICK b \in Starts(m), e \in Nat :
             /\ b = StartOf(m, j) /\ e = EndOf(m, b) /\ b \in Nat
             /\ Entries(m)[j].base = b /\ Entries(m)[j].length = e - b
    BY EntryFacts
  <2>2. PICK c \in Starts(m) : c = StartOf(m, k) /\ Entries(m)[k].base = c /\ c \in Nat
    BY EntryFacts
  <2>3. b < c
    BY <1>1, <1>4, <2>1, <2>2, StartsOrdered
  <2>4. e <= c
    BY <2>1, <2>3, RunEnds
  <2> QED
    BY <2>1, <2>2, <2>4
<1> QED
  BY <1>2, <1>3, <1>4 DEF KP!WellFormedMap

\* The map offers the free pages, all of them and no others.
LEMMA EntriesUsable ==
    ASSUME NEW m
    PROVE  KP!UsablePages(Entries(m)) = FreePages(m)
<1>1. ASSUME NEW p \in KP!UsablePages(Entries(m)) PROVE p \in FreePages(m)
  <2>1. PICK k \in DOMAIN Entries(m) :
          Entries(m)[k].type = "usable" /\ p \in KP!Pages(Entries(m)[k])
    BY <1>1 DEF KP!UsablePages, KP!UsableEntries
  <2>2. PICK b \in Starts(m), e \in Nat :
             /\ e = EndOf(m, b) /\ b \in Nat
             /\ Entries(m)[k].base = b /\ Entries(m)[k].length = e - b
             /\ Entries(m)[k].type = KernelType(m[b])
    BY EntryFacts
  <2>3. p \in b .. (e - 1)
    BY <2>1, <2>2 DEF KP!Pages
  <2>4. p \in Page /\ m[p] = m[b]
    BY <2>2, <2>3, RunIsUniform
  <2>5. m[b] = "USABLE"
    BY <2>1, <2>2 DEF KernelType
  <2> QED
    BY <2>4, <2>5 DEF FreePages
<1>2. ASSUME NEW p \in FreePages(m) PROVE p \in KP!UsablePages(Entries(m))
  <2>1. p \in Page /\ m[p] = "USABLE"
    BY <1>2 DEF FreePages
  <2>2. PICK k \in 1 .. Cardinality(Starts(m)) :
             p \in StartOf(m, k) .. (EndOf(m, StartOf(m, k)) - 1)
    BY <2>1, RunsCover
  <2>3. k \in DOMAIN Entries(m)
    BY <2>2, EntriesAre
  <2>4. PICK b \in Starts(m), e \in Nat :
             /\ b = StartOf(m, k) /\ e = EndOf(m, b) /\ b \in Nat
             /\ Entries(m)[k].base = b /\ Entries(m)[k].length = e - b
             /\ Entries(m)[k].type = KernelType(m[b])
    BY <2>3, EntryFacts
  <2>5. p \in b .. (EndOf(m, b) - 1)
    BY <2>2, <2>4
  <2>6. m[p] = m[b]
    BY <2>5, RunIsUniform
  <2>7. p \in b .. (b + (e - b) - 1)
    BY <2>4, <2>5
  <2>8. Entries(m)[k].type = "usable" /\ p \in KP!Pages(Entries(m)[k])
    BY <2>1, <2>4, <2>6, <2>7 DEF KernelType, KP!Pages
  <2> QED
    BY <2>3, <2>8 DEF KP!UsablePages, KP!UsableEntries
<1> QED
  BY <1>1, <1>2

\* The assumptions under which PmmProofs reasons.
LEMMA KernelAssumptions ==
    /\ \A m \in BootMaps : KP!WellFormedMap(m)
    /\ LowPages \in Nat /\ LowPages >= 8 /\ BitmapPage \in Nat \ {0} /\ MaxU64 \in Nat
    /\ \A m \in BootMaps : \A k \in DOMAIN m : m[k].base + m[k].length <= MaxU64
<1>1. ASSUME NEW m \in BootMaps
      PROVE  /\ KP!WellFormedMap(m)
             /\ \A k \in DOMAIN m : m[k].base + m[k].length <= MaxU64
  <2>1. PICK t \in [Page -> SypasTypes] : m = Entries(t)
    BY <1>1 DEF BootMaps
  <2> QED
    BY <2>1, EntriesWellFormed
<1> QED
  BY <1>1, BootAssumption

\* The kernel of Boot is the one PmmProofs is about.
LEMMA SameStart == K!Boot => KP!Boot
<1>1. K!InitPanic => KP!InitPanic
  BY DEF K!InitPanic, KP!InitPanic, K!UsableEntries, KP!UsableEntries, K!Ends,
         KP!Ends, K!IsHighest, KP!IsHighest, K!Fitting, KP!Fitting, K!Fits,
         KP!Fits, K!SkippedLength, KP!SkippedLength, K!SkippedBase,
         KP!SkippedBase, K!BitmapBytes, KP!BitmapBytes, K!Panic, KP!Panic,
         K!layout, KP!layout
<1>2. ASSUME NEW h, NEW e, K!InitAt(h, e) PROVE KP!InitAt(h, e)
  <2>1. K!UsablePages(map) = KP!UsablePages(map)
    BY DEF K!UsablePages, KP!UsablePages, K!Pages, KP!Pages, K!UsableEntries,
           KP!UsableEntries
  <2>2. K!Cleared(map) = KP!Cleared(map)
    BY DEF K!UsablePages, KP!UsablePages, K!Pages, KP!Pages, K!UsableEntries,
           KP!UsableEntries, K!Cleared, KP!Cleared
  <2>3. /\ K!BitmapBytes(h) = KP!BitmapBytes(h)
        /\ K!SkippedBase(map[e]) = KP!SkippedBase(map[e])
        /\ K!LowArea = KP!LowArea
        /\ \A n : K!PagesFor(n) = KP!PagesFor(n)
    BY DEF K!SkippedBase, KP!SkippedBase, K!BitmapBytes, KP!BitmapBytes,
           K!PagesFor, KP!PagesFor, K!LowArea, KP!LowArea
  <2>4. K!UnusableBits(h) = KP!UnusableBits(h)
    BY <2>1, <2>3, Zenon DEF K!UnusableBits, KP!UnusableBits
  <2>5. \A f : K!TakenBack(h, f) = KP!TakenBack(h, f)
    BY <2>3, <2>4, Zenon DEF K!TakenBack, KP!TakenBack
  <2>6. PICK f, t : /\ f = K!SkippedBase(map[e]) /\ f = KP!SkippedBase(map[e])
                    /\ t = K!TakenBack(h, f) /\ t = KP!TakenBack(h, f)
    BY <2>3, <2>5, Zenon
  <2>7. \A S : K!Cardinality(S) = KP!Cardinality(S)
    BY DEF K!Cardinality, KP!Cardinality
  <2>8. /\ highest_page' = h /\ bitmap_bytes' = K!BitmapBytes(h) /\ bm_first' = f
        /\ bitmap' = K!UnusableBits(h) \union t
        /\ usable_pages' = K!Cardinality(K!Cleared(map))
        /\ free_pages' = K!Cardinality(K!Cleared(map)) - K!Cardinality(t)
        /\ allocator_pages' = K!Cardinality(K!Cleared(map)) - K!Cardinality(t)
        /\ cursor' = f + K!PagesFor(K!BitmapBytes(h))
    BY <1>2, <2>6 DEF K!InitAt
  <2>9. /\ bitmap_bytes' = KP!BitmapBytes(h) /\ bitmap' = KP!UnusableBits(h) \union t
        /\ usable_pages' = KP!Cardinality(KP!Cleared(map))
        /\ free_pages' = KP!Cardinality(KP!Cleared(map)) - KP!Cardinality(t)
        /\ allocator_pages' = KP!Cardinality(KP!Cleared(map)) - KP!Cardinality(t)
        /\ cursor' = f + KP!PagesFor(KP!BitmapBytes(h))
    BY <2>2, <2>3, <2>4, <2>7, <2>8, Zenon
  <2> QED
    BY <2>6, <2>8, <2>9 DEF KP!InitAt
<1>3. K!PmmInit => KP!PmmInit
  <2>1. /\ K!Ends(map) = KP!Ends(map)
        /\ \A h : K!BitmapBytes(h) = KP!BitmapBytes(h)
        /\ \A b : K!Fitting(map, b) = KP!Fitting(map, b)
        /\ \A h : K!IsHighest(map, h) <=> KP!IsHighest(map, h)
    BY DEF K!UsableEntries, KP!UsableEntries, K!Ends, KP!Ends, K!IsHighest,
           KP!IsHighest, K!Fitting, KP!Fitting, K!Fits, KP!Fits,
           K!SkippedLength, KP!SkippedLength, K!SkippedBase, KP!SkippedBase,
           K!BitmapBytes, KP!BitmapBytes
  <2> QED
    BY <1>2, <2>1 DEF K!PmmInit, KP!PmmInit
<1> QED
  BY <1>1, <1>3 DEF K!Boot, KP!Boot, K!tvars, KP!tvars

LEMMA SameTest == K!Selftest => KP!Selftest
<1> USE DEF K!vars, KP!vars, K!layout, KP!layout
<1>1. K!Begin => KP!Begin
  BY DEF K!Begin, KP!Begin
<1>2. K!CallAlloc => KP!CallAlloc
  BY DEF K!CallAlloc, KP!CallAlloc, K!AllocCall, KP!AllocCall
<1>3. K!InAlloc => KP!InAlloc
  <2>1. \A p, b : K!ScanAt(p, b) => KP!ScanAt(p, b)
    BY DEF K!ScanAt, KP!ScanAt, K!ScanSkip, KP!ScanSkip, K!ScanBusy, KP!ScanBusy,
           K!ScanTake, KP!ScanTake, K!FullByte, KP!FullByte, K!Dec, KP!Dec
  <2>2. K!BitsRead(cursor) = KP!BitsRead(cursor)
    BY DEF K!BitsRead, KP!BitsRead, K!Bits, KP!Bits
  <2>3. K!ScanStep => KP!ScanStep
    BY <2>1, <2>2 DEF K!ScanStep, KP!ScanStep
  <2>4. K!ScanExhausted => KP!ScanExhausted
    BY DEF K!ScanExhausted, KP!ScanExhausted
  <2> QED
    BY <2>3, <2>4 DEF K!InAlloc, KP!InAlloc, K!tvars, KP!tvars
<1>4. K!Store => KP!Store
  BY DEF K!Store, KP!Store
<1>5. K!Write => KP!Write
  BY DEF K!Write, KP!Write
<1>6. K!Verify => KP!Verify
  BY DEF K!Verify, KP!Verify
<1>7. K!FreeNext => KP!FreeNext
  BY DEF K!FreeNext, KP!FreeNext, K!Free, KP!Free, K!Panic, KP!Panic
<1>8. K!Compare => KP!Compare
  BY DEF K!Compare, KP!Compare
<1> QED
  BY <1>1, <1>2, <1>3, <1>4, <1>5, <1>6, <1>7, <1>8 DEF K!Selftest, KP!Selftest

(***************************************************************************)
(* From power-on to the self-test's verdict                                *)
(***************************************************************************)

\* What the jump to the kernel finds.
Untouched ==
    /\ highest_page = 0 /\ bitmap_bytes = 0 /\ bm_first = 0 /\ bitmap = {}
    /\ free_pages = 0 /\ usable_pages = 0 /\ allocator_pages = 0
    /\ cursor = 0 /\ scanned = 0 /\ ret = 0
    /\ step = "off" /\ i = 0 /\ got = << >>

KInv ==
    /\ status = "off" => Untouched
    /\ status # "off" => pc = "kernel" /\ map = Entries(smap)
    /\ status # "off" /\ ~KP!TailPlacement(map) => KP!IInv /\ KP!TInv

\* The loader and its firmware are done once the kernel runs.
LEMMA LoaderGone ==
    ASSUME LInv, pc = "kernel"
    PROVE  ~LoaderStep /\ ~FirmwareEvent
<1>1. ~FirmwareEvent
  BY DEF LInv, Recovery, FirmwareEvent
<1>2. ~LoaderStep
  BY DEF LoaderStep, ReadKernelFile, LoadRefused, LoadSegment, FreeFile,
         AllocBootinfo, AllocStack, QuerySize, GrowBuffers, FetchMap,
         ReleaseBuffer, Announce, FinalMap, Translate, ExitBootServices
<1> QED
  BY <1>1, <1>2

\* The pages the map offers are the firmware's free ones.
LEMMA HandedOver ==
    ASSUME LInv, pc = "kernel"
    PROVE  /\ smap \in [Page -> SypasTypes]
           /\ FreePages(smap) = {p \in Page : mem[p] = "conventional"}
<1>1. smap = Translated(mem) /\ seg = Len(Segments) + 1
  BY DEF LInv, Keyed, Phased
<1>2. Placed = KernelPages
  <2>1. 1 .. (seg - 1) = DOMAIN Segments
    BY <1>1, ImageAssumption
  <2> QED BY <2>1 DEF Placed, KernelPages
<1>3. \A p \in Page : p \in KernelPages => mem[p] = "loader"
  BY <1>2 DEF LInv, Accounted
<1>4. \A p \in Page : smap[p] = IF p \in KernelPages THEN "KERNEL" ELSE SypasType(mem[p])
  BY <1>1 DEF Translated
<1>5. \A p \in Page : smap[p] = "USABLE" <=> mem[p] = "conventional"
  BY <1>3, <1>4 DEF SypasType
<1>6. \A p \in Page : smap[p] \in SypasTypes
  BY <1>4 DEF SypasType, SypasTypes
<1>7. smap \in [Page -> SypasTypes]
  BY <1>1, <1>6 DEF Translated
<1> QED
  BY <1>5, <1>7 DEF FreePages

LEMMA EnterStep ==
    ASSUME LInv, KInv, EnterKernel
    PROVE  KInv'
<1>1. /\ pc = "kernel" /\ status = "off" /\ status' = "boot" /\ map' = Entries(smap)
      /\ word' = [p \in {0} \union K!UsablePages(map') |-> -1]
      /\ UNCHANGED <<vars, layout, test>>
  BY DEF EnterKernel
<1>2. pc' = pc /\ smap' = smap
  BY <1>1 DEF vars, handoff
<1>3. Untouched'
  BY <1>1 DEF KInv, Untouched, layout, test
<1>4. map' \in BootMaps
  BY <1>1, HandedOver DEF BootMaps
<1>5. KP!TypeOK'
  <2>1. MaxU64 \in Nat
    BY BootAssumption
  <2> QED
    BY <1>1, <1>3, <1>4, <2>1 DEF KP!TypeOK, Untouched, KP!Bits
<1>6. KP!IInv'
  BY <1>1, <1>3, <1>5 DEF KP!IInv, KP!Running, KP!HandedOutFromPool, Untouched
<1>7. KP!TInv'
  <2>1. K!UsablePages(map') = KP!UsablePages(map')
    BY DEF K!UsablePages, KP!UsablePages, K!Pages, KP!Pages, K!UsableEntries,
           KP!UsableEntries
  <2>2. word' \in [{0} \union KP!UsablePages(map') -> Int]
    BY <1>1, <2>1
  <2>3. KP!TTypes'
    BY <1>3, <2>2 DEF KP!TTypes, Untouched
  <2>4. KP!Phases'
    BY <1>1, <1>3 DEF KP!Phases, Untouched
  <2>5. KP!VerdictRight'
    BY <1>3 DEF KP!VerdictRight, Untouched
  <2> QED
    BY <1>1, <2>3, <2>4, <2>5 DEF KP!TInv, KP!Running
<1> QED
  BY <1>1, <1>2, <1>6, <1>7 DEF KInv

LEMMA KernelStepInv ==
    ASSUME LInv, KInv, KernelStep
    PROVE  KInv'
<1>1. pc' = pc /\ smap' = smap /\ (K!Boot \/ K!Selftest \/ SelftestFailed)
  BY DEF KernelStep, vars, handoff
<1>2. KP!Boot \/ KP!Selftest \/ SelftestFailed
  BY <1>1, SameStart, SameTest
<1>3. status # "off"
  <2> SUFFICES ASSUME status = "off" PROVE FALSE
    OBVIOUS
  <2>1. step = "off"
    BY DEF KInv, Untouched
  <2>2. ~KP!Boot
    BY DEF KP!Boot, KP!PmmInit, KP!InitPanic
  <2>3. ~KP!Selftest
    BY <2>1 DEF KP!Selftest, KP!Begin, KP!CallAlloc, KP!InAlloc, KP!ScanStep,
                KP!ScanExhausted, KP!Store, KP!Write, KP!Verify, KP!FreeNext,
                KP!Compare
  <2>4. ~SelftestFailed
    BY DEF SelftestFailed
  <2> QED
    BY <1>2, <2>2, <2>3, <2>4
<1>4. map' = map /\ status' # "off"
  <2>1. CASE SelftestFailed
    BY <2>1 DEF SelftestFailed, K!Panic
  <2>2. CASE KP!Boot
    BY <2>2 DEF KP!Boot, KP!PmmInit, KP!InitPanic, KP!Panic, KP!layout
  <2>3. CASE KP!Selftest
    <3>1. CASE KP!InAlloc
      BY <1>3, <3>1 DEF KP!InAlloc, KP!ScanStep, KP!ScanExhausted, KP!ScanAt,
                        KP!ScanSkip, KP!ScanBusy, KP!ScanTake, KP!layout
    <3>2. CASE KP!FreeNext
      BY <1>3, <3>2 DEF KP!FreeNext, KP!Free, KP!Panic, KP!layout
    <3>3. CASE KP!CallAlloc
      BY <3>3 DEF KP!CallAlloc, KP!AllocCall, KP!layout
    <3>4. CASE KP!Begin \/ KP!Store \/ KP!Write \/ KP!Verify \/ KP!Compare
      <4>1. UNCHANGED KP!vars
        BY <3>4 DEF KP!Begin, KP!Store, KP!Write, KP!Verify, KP!Compare
      <4> QED
        BY <1>3, <4>1 DEF KP!vars, KP!layout
    <3> QED
      BY <2>3, <3>1, <3>2, <3>3, <3>4 DEF KP!Selftest
  <2> QED
    BY <1>2, <2>1, <2>2, <2>3
<1>5. ASSUME ~KP!TailPlacement(map) PROVE KP!IInv' /\ KP!TInv'
  <2>1. KP!IInv /\ KP!TInv
    BY <1>3, <1>5 DEF KInv
  <2>2. KP!TestSize
    BY BootAssumption DEF KP!TestSize
  <2>3. CASE KP!Boot \/ KP!Selftest
    BY <1>5, <2>1, <2>2, <2>3, KP!SelftestInv, KernelAssumptions
  <2>4. CASE SelftestFailed
    <3>1. /\ status = "idle" /\ step = "fail" /\ KP!Panic
          /\ UNCHANGED <<KP!layout, bitmap, free_pages, usable_pages,
                         allocator_pages, cursor, scanned, ret>>
          /\ UNCHANGED <<step, i, got, before, word>>
      BY <2>4 DEF SelftestFailed, K!Panic, KP!Panic, layout, test, KP!layout
    <3> QED
      BY <2>1, <3>1, KP!PanicStep, KernelAssumptions
  <2> QED
    BY <1>2, <2>3, <2>4
<1>6. (~KP!TailPlacement(map))' => ~KP!TailPlacement(map)
  BY <1>4 DEF KP!TailPlacement
<1> QED
  BY <1>1, <1>3, <1>4, <1>5, <1>6 DEF KInv

LEMMA KernelInductive == LInv /\ KInv /\ [BootNext]_bootvars => KInv'
<1> SUFFICES ASSUME LInv, KInv, [BootNext]_bootvars PROVE KInv'
  OBVIOUS
<1>1. CASE (LoaderStep \/ FirmwareEvent) /\ UNCHANGED kernel
  <2>1. pc # "kernel"
    BY <1>1, LoaderGone
  <2>2. status = "off" /\ Untouched
    BY <2>1 DEF KInv
  <2>3. status' = "off" /\ Untouched'
    BY <1>1, <2>2 DEF kernel, layout, test, Untouched
  <2> QED
    BY <2>3 DEF KInv
<1>2. CASE UNCHANGED bootvars
  <2>1. /\ UNCHANGED <<status, map, highest_page, bitmap_bytes, bm_first, bitmap,
             free_pages, usable_pages, allocator_pages, cursor, scanned, ret>>
        /\ UNCHANGED <<step, i, got, before, word, pc, smap>>
    BY <1>2 DEF bootvars, kernel, layout, test, vars, handoff
  <2>2. (KP!TailPlacement(map))' <=> KP!TailPlacement(map)
    BY <2>1 DEF KP!TailPlacement
  <2>3. KP!IInv => KP!IInv'
    <3>1. UNCHANGED KP!vars
      BY <2>1 DEF KP!vars, KP!layout
    <3> QED
      BY <3>1, KP!QuietInv, KernelAssumptions
  <2>4. KP!TInv => KP!TInv'
    <3>1. UNCHANGED KP!vars /\ UNCHANGED <<step, i, got, before, word>>
      BY <2>1 DEF KP!vars, KP!layout
    <3> QED
      BY <3>1, KP!StutterStep, KernelAssumptions
  <2>5. Untouched => Untouched'
    BY <2>1 DEF Untouched
  <2>6. (map = Entries(smap))' <=> map = Entries(smap)
    BY <2>1
  <2> QED
    BY <2>1, <2>2, <2>3, <2>4, <2>5, <2>6 DEF KInv
<1> QED
  BY <1>1, <1>2, EnterStep, KernelStepInv DEF BootNext

LEMMA KernelInvariant == BootSpec => [](LInv /\ KInv)
<1>1. BootInit => KInv
  BY DEF BootInit, KInv, Untouched
<1>2. LInv /\ KInv /\ [BootNext]_bootvars => KInv'
  BY KernelInductive
<1> QED
  BY <1>1, <1>2, BootRunsLoader, LoaderInvariant, PTL DEF BootSpec

\* What the invariants say of the memory the kernel works in.
LEMMA OwnMemory ==
    ASSUME LInv, KInv, ~KP!TailPlacement(map)
    PROVE  KernelOwnMemory
<1> DEFINE free == {p \in Page : mem[p] = "conventional"}
<1>1. CASE status = "off"
  <2>1. ~K!Running /\ status # "boot"
    BY <1>1 DEF K!Running
  <2> QED
    BY <2>1 DEF KernelOwnMemory
<1>2. CASE status # "off"
  <2>1. pc = "kernel" /\ map = Entries(smap) /\ KP!IInv /\ KP!TInv
    BY <1>2 DEF KInv
  <2>2. KP!UsablePages(map) = free /\ KP!WellFormedMap(map)
    BY <2>1, HandedOver, EntriesUsable, EntriesWellFormed
  <2>3. K!UsablePages(map) = KP!UsablePages(map)
    BY DEF K!UsablePages, KP!UsablePages, K!Pages, KP!Pages, K!UsableEntries,
           KP!UsableEntries
  <2>4. K!WellFormedMap(map) <=> KP!WellFormedMap(map)
    BY DEF K!WellFormedMap, KP!WellFormedMap, K!Entry, KP!Entry
  <2>5. /\ K!BitmapPages = KP!BitmapPages /\ K!LowArea = KP!LowArea
        /\ (K!Running <=> KP!Running)
    BY DEF K!BitmapPages, KP!BitmapPages, K!PagesFor, KP!PagesFor, K!LowArea,
           KP!LowArea, K!Running, KP!Running
  <2>6. K!Pool = KP!Pool
    BY <2>3, <2>5, Zenon DEF K!Pool, KP!Pool
  <2>7. K!Owned = KP!Owned
    BY <2>6, Zenon DEF K!Owned, KP!Owned
  <2>8. ret # 0 => ret \in free \ K!BitmapPages
    BY <2>1, <2>2, <2>5 DEF KP!IInv, KP!HandedOutFromPool, KP!Pool
  <2>9. KP!Running => KP!BitmapPages \subseteq free
    BY <2>1, <2>2 DEF KP!TInv
  <2>10. ASSUME step \in {"write", "verify"}, NEW k \in DOMAIN got
         PROVE  got[k] \in K!Owned
    <3>1. KP!Holding(0) /\ got \in Seq(Nat)
      BY <2>1, <2>10 DEF KP!TInv, KP!Phases, KP!TTypes
    <3>2. k \in (0 + 1) .. ST_PAGES
      BY <3>1 DEF KP!Holding
    <3> QED
      BY <2>7, <3>1, <3>2 DEF KP!Holding
  <2> QED
    BY <2>2, <2>3, <2>4, <2>5, <2>8, <2>9, <2>10 DEF KernelOwnMemory
<1> QED
  BY <1>1, <1>2

\* From power-on to a working allocator, on every machine: whatever the
\* firmware does while the loader runs, the kernel's bitmap, the pages it hands
\* out and the pages the self-test writes to are memory that was free when boot
\* services ended (main.c:354, pmm.c:63, pmm.c:186), unless the map has the
\* one shape that pmm_init mishandles.
THEOREM KernelKeepsToItsMemory ==
    BootSpec => [](~KP!TailPlacement(map) => KernelOwnMemory)
<1>1. LInv /\ KInv => (~KP!TailPlacement(map) => KernelOwnMemory)
  BY OwnMemory
<1> QED
  BY <1>1, KernelInvariant, PTL

\* On the same maps pmm_selftest's verdict is right: it passes if and only if
\* the pool has ST_PAGES pages, and then leaves no page allocated (pmm.c:163).
THEOREM SelftestVerdictIsRight ==
    BootSpec => [](~KP!TailPlacement(map) => VerdictRight)
<1>1. ASSUME LInv, KInv, ~KP!TailPlacement(map) PROVE VerdictRight
  <2>1. CASE status = "off"
    BY <1>1, <2>1 DEF KInv, Untouched, VerdictRight, K!VerdictRight
  <2>2. CASE status # "off"
    <3>1. KP!VerdictRight
      BY <1>1, <2>2 DEF KInv, KP!TInv
    <3>2. K!UsablePages(map) = KP!UsablePages(map)
      BY DEF K!UsablePages, KP!UsablePages, K!Pages, KP!Pages, K!UsableEntries,
             KP!UsableEntries
    <3>3. K!BitmapPages = KP!BitmapPages /\ K!LowArea = KP!LowArea
      BY DEF K!BitmapPages, KP!BitmapPages, K!PagesFor, KP!PagesFor, K!LowArea,
             KP!LowArea
    <3>4. K!Pool = KP!Pool
      BY <3>2, <3>3, Zenon DEF K!Pool, KP!Pool
    <3>5. K!Owned = KP!Owned
      BY <3>4, Zenon DEF K!Owned, KP!Owned
    <3> QED
      BY <3>1, <3>4, <3>5 DEF VerdictRight, K!VerdictRight, KP!VerdictRight
  <2> QED
    BY <2>1, <2>2
<1>2. LInv /\ KInv => (~KP!TailPlacement(map) => VerdictRight)
  BY <1>1
<1> QED
  BY <1>2, KernelInvariant, PTL

================================================================================
