--------------------------------- MODULE Reloc ---------------------------------
(***************************************************************************)
(* bootloader/uefi/reloc.c and the _start of bootloader/uefi/start.S that  *)
(* calls it: the loader applies its own relocations before any C code.     *)
(*                                                                         *)
(* What a table entry holds is chosen when it is read.  Each is read once, *)
(* and this also covers an entry that an earlier relocation overwrote.     *)
(***************************************************************************)
EXTENDS Integers, Sequences

CONSTANTS
    Width,                            \* bits of an address: 64
    WordBytes, DynBytes, RelaBytes,   \* 8, 16 and 24 in the source
    Images,                           \* base, size, dynamic the loader may have
    Dyns,                             \* dynamic entries it may contain
    Relas                             \* relocations it may contain

MaxU64 == 2 ^ Width - 1
U64 == 0 .. MaxU64
I64 == -(2 ^ (Width - 1)) .. (2 ^ (Width - 1) - 1)

Dyn == [d_tag : {"NULL", "RELA", "RELASZ", "RELAENT", "other"}, d_val : U64]
Rela == [r_offset : U64, r_type : {"RELATIVE", "other"}, r_addend : I64]

ASSUME RelocAssumption ==
    /\ Width \in Nat \ {0}
    /\ WordBytes \in Nat \ {0} /\ DynBytes \in Nat \ {0} /\ RelaBytes \in Nat \ {0}
    /\ Images \subseteq [base : U64, size : U64, dynamic : U64]
    /\ Dyns \subseteq Dyn /\ Relas \subseteq Rela

VARIABLES
    pc,        \* "image", "dynamic", "table", "apply", "returned", "main", "refused"
    img,       \* base, image_size and dynamic
    i, terminated, rela, relasz, relaent, have_rela, have_relasz,
    result,    \* of sypas_reloc
    seen,      \* the relocations read, in order
    mem,       \* bytes written: <<value, index of the byte>> by address
    read       \* addresses of the last table entry read

table == <<terminated, rela, relasz, relaent, have_rela, have_relasz>>
vars == <<pc, img, i, table, result, seen, mem, read>>

--------------------------------------------------------------------------------
(* 64-bit sums *)

\* Mutant: the sum is not checked.
AddAlways(a, b) == TRUE

\* add_ok and add_signed_ok: the sum is an address.
AddOk(a, b) == a + b \in U64

Sum(a, b) == (a + b) % (MaxU64 + 1)

ImageEnd == Sum(img.base, img.size)

Return(r) == pc' = "returned" /\ result' = r

--------------------------------------------------------------------------------
(* sypas_reloc *)

CheckImage ==
    /\ pc = "image"
    /\ IF \/ img.size = 0 \/ ~AddOk(img.base, img.size)
          \/ img.dynamic < img.base \/ img.dynamic > ImageEnd
          \/ ImageEnd - img.dynamic < DynBytes
       THEN Return(1)
       ELSE pc' = "dynamic" /\ UNCHANGED result
    /\ UNCHANGED <<img, i, table, seen, mem, read>>

MaxDynamicEntries == (ImageEnd - img.dynamic) \div DynBytes

\* One turn of the loop over the dynamic section.
ReadDynamic(d) ==
    /\ pc = "dynamic" /\ i < MaxDynamicEntries
    /\ read' = <<img.dynamic + i * DynBytes, img.dynamic + (i + 1) * DynBytes>>
    /\ rela' = IF d.d_tag = "RELA" THEN d.d_val ELSE rela
    /\ have_rela' = (have_rela \/ d.d_tag = "RELA")
    /\ relasz' = IF d.d_tag = "RELASZ" THEN d.d_val ELSE relasz
    /\ have_relasz' = (have_relasz \/ d.d_tag = "RELASZ")
    /\ relaent' = IF d.d_tag = "RELAENT" THEN d.d_val ELSE relaent
    /\ terminated' = (d.d_tag = "NULL")
    /\ IF terminated' THEN pc' = "table" /\ i' = 0
       ELSE i' = i + 1 /\ UNCHANGED pc
    /\ UNCHANGED <<img, result, seen, mem>>

Unterminated ==
    /\ pc = "dynamic" /\ i >= MaxDynamicEntries
    /\ Return(1)
    /\ UNCHANGED <<img, i, table, seen, mem, read>>

TableInside == rela <= img.size /\ relasz <= img.size - rela

CheckTable ==
    /\ pc = "table"
    /\ \/ have_rela # have_relasz /\ Return(1)
       \/ ~have_rela /\ ~have_relasz /\ Return(0)
       \/ /\ have_rela /\ have_relasz
          /\ IF relaent = RelaBytes /\ relasz % RelaBytes = 0 /\ TableInside
             THEN pc' = "apply" /\ UNCHANGED result
             ELSE Return(1)
    /\ UNCHANGED <<img, i, table, seen, mem, read>>

\* Mutants: only the first byte of the word is checked; the last word of the
\* image is no target.
TargetStartsInside(r) == r.r_offset < img.size
TargetBeforeLast(r) == r.r_offset + WordBytes < img.size

TargetInside(r) ==
    r.r_offset <= img.size /\ WordBytes <= img.size - r.r_offset

\* One turn of the loop over the relocations.
Applicable(r) ==
    /\ r.r_type = "RELATIVE"
    /\ TargetInside(r)
    /\ AddOk(img.base, r.r_offset) /\ AddOk(img.base, r.r_addend)

Store(target, value) ==
    LET word == target .. (target + WordBytes - 1)
    IN  mem' = [a \in DOMAIN mem \union word |->
                  IF a \in word THEN <<value, a - target>> ELSE mem[a]]

ReadRela(r) ==
    /\ pc = "apply" /\ i < relasz \div RelaBytes
    /\ read' = <<img.base + rela + i * RelaBytes,
                 img.base + rela + (i + 1) * RelaBytes>>
    /\ IF Applicable(r)
       THEN /\ Store(Sum(img.base, r.r_offset), Sum(img.base, r.r_addend))
            /\ i' = i + 1
            /\ UNCHANGED <<pc, result>>
       ELSE Return(1) /\ UNCHANGED <<i, mem>>
    /\ seen' = Append(seen, r)
    /\ UNCHANGED <<img, table>>

AllRead ==
    /\ pc = "apply" /\ i = relasz \div RelaBytes
    /\ Return(0)
    /\ UNCHANGED <<img, i, table, seen, mem, read>>

\* _start: efi_main, or EFI_LOAD_ERROR.
Start ==
    /\ pc = "returned"
    /\ pc' = IF result = 0 THEN "main" ELSE "refused"
    /\ UNCHANGED <<img, i, table, result, seen, mem, read>>

Init ==
    /\ pc = "image" /\ img \in Images
    /\ i = 0 /\ rela = 0 /\ relasz = 0 /\ relaent = RelaBytes
    /\ terminated = FALSE /\ have_rela = FALSE /\ have_relasz = FALSE
    /\ result = 0 /\ seen = << >> /\ mem = << >>
    /\ read = <<img.base, img.base>>

Next ==
    \/ CheckImage \/ Unterminated \/ CheckTable \/ AllRead \/ Start
    \/ \E d \in Dyns : ReadDynamic(d)
    \/ \E r \in Relas : ReadRela(r)

Spec == Init /\ [][Next]_vars

--------------------------------------------------------------------------------
(* Properties *)

\* "Every dynamic-table-derived address is constrained to the loaded image"
\* (reloc.c:6): what is read and what is written lies inside it, whatever
\* the tables say, and also after some of them were overwritten.
InsideImage ==
    /\ \A a \in DOMAIN mem : img.base <= a /\ a < img.base + img.size
    /\ img.base <= read[1] /\ read[2] <= img.base + img.size

\* Every relocation whose word no later one overlaps holds base plus
\* addend, computed without wrapping around.
Holds(k) ==
    LET r == seen[k]
        at == img.base + r.r_offset
    IN  (\A l \in (k + 1) .. Len(seen) :
           \/ seen[l].r_offset + WordBytes <= r.r_offset
           \/ r.r_offset + WordBytes <= seen[l].r_offset)
        => \A b \in 0 .. (WordBytes - 1) :
             mem[at + b] = <<img.base + r.r_addend, b>>

\* The dynamic section was terminated, and all relocations of the table it
\* names were applied.
Relocated ==
    /\ terminated /\ have_rela = have_relasz
    /\ have_rela => Len(seen) * RelaBytes = relasz
    /\ \A k \in DOMAIN seen : seen[k].r_type = "RELATIVE" /\ Holds(k)

\* The image or its tables leave the address space or the image, or one of
\* the entries read so far is not a relocation that yields an address.
Malformed ==
    \/ img.size = 0 \/ img.base + img.size > MaxU64
    \/ img.dynamic < img.base
    \/ img.dynamic + DynBytes > img.base + img.size
    \/ ~terminated
    \/ have_rela # have_relasz
    \/ relaent # RelaBytes \/ relasz % RelaBytes # 0
    \/ rela + relasz > img.size
    \/ \E k \in DOMAIN seen :
         \/ seen[k].r_type # "RELATIVE"
         \/ seen[k].r_offset + WordBytes > img.size
         \/ img.base + seen[k].r_addend \notin U64

\* efi_main only runs fully relocated (start.S:63), and a loader image is
\* refused only for a reason.
RelocatedOrMalformed ==
    /\ pc = "main" => Relocated
    /\ pc = "refused" => Malformed

================================================================================
