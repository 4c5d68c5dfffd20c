------------------------------- MODULE RelocProofs -------------------------------
(***************************************************************************)
(* sypas_reloc for every word size, every image and every content of its   *)
(* tables: it stays inside the image, and efi_main runs exactly when every *)
(* relocation was applied.                                                 *)
(***************************************************************************)
EXTENDS Reloc, TLAPS

(***************************************************************************)
(* The invariant                                                           *)
(***************************************************************************)

RTypes ==
    /\ img \in Images /\ i \in Nat
    /\ rela \in Nat /\ relasz \in Nat /\ relaent \in Nat
    /\ terminated \in BOOLEAN /\ have_rela \in BOOLEAN /\ have_relasz \in BOOLEAN
    /\ seen \in Seq(Relas)

\* The image and the start of its dynamic section have been checked.
GoodImage ==
    /\ img.size > 0 /\ img.base + img.size <= MaxU64
    /\ img.base <= img.dynamic /\ img.dynamic + DynBytes <= img.base + img.size

\* So have the bounds of the relocation table.
GoodTable ==
    /\ terminated /\ have_rela /\ have_relasz
    /\ relaent = RelaBytes /\ relasz % RelaBytes = 0
    /\ rela + relasz <= img.size

Fits(r) ==
    /\ r.r_type = "RELATIVE" /\ r.r_offset + WordBytes <= img.size
    /\ img.base + r.r_addend \in U64

\* The relocations read so far have been applied.
Applied ==
    \A k \in DOMAIN seen :
        /\ Fits(seen[k])
        /\ \A b \in 0 .. (WordBytes - 1) : img.base + seen[k].r_offset + b \in DOMAIN mem
        /\ Holds(k)

Walked ==
    /\ pc \in {"dynamic", "table", "apply"} => GoodImage
    /\ pc \in {"image", "dynamic"} => ~terminated
    /\ pc = "table" => terminated /\ i = 0
    /\ pc \in {"image", "dynamic", "table"} => seen = << >>
    /\ pc = "apply" => GoodTable /\ i = Len(seen) /\ Applied

Judged ==
    /\ pc \in {"returned", "main"} /\ result = 0 => Relocated
    /\ pc = "main" => result = 0
    /\ (pc = "returned" /\ result # 0) \/ pc = "refused" => Malformed

RInv == RTypes /\ Walked /\ Judged /\ InsideImage

(***************************************************************************)
(* Arithmetic                                                              *)
(***************************************************************************)

LEMMA MulMonotone ==
    ASSUME NEW x \in Nat, NEW y \in Nat, NEW d \in Nat, x <= y
    PROVE  x * d <= y * d
<1>1. (y - x) * d >= 0
  OBVIOUS
<1>2. (y - x) * d = y * d - x * d
  OBVIOUS
<1> QED
  BY <1>1, <1>2

\* An entry whose index is below the number of entries ends inside the table.
LEMMA EntryInside ==
    ASSUME NEW n \in Nat, NEW d \in Nat, d > 0, NEW k \in Nat, k < n \div d
    PROVE  k * d \in Nat /\ (k + 1) * d \in Nat /\ (k + 1) * d <= n
<1>1. PICK q \in Nat : q = n \div d
  OBVIOUS
<1>2. q * d <= n
  BY <1>1
<1>3. (k + 1) * d <= q * d
  BY <1>1, MulMonotone
<1>4. k * d \in Nat /\ (k + 1) * d \in Nat /\ q * d \in Nat
  OBVIOUS
<1> QED
  BY <1>2, <1>3, <1>4

LEMMA ImageTypes ==
    ASSUME RTypes
    PROVE  /\ img.base \in Nat /\ img.size \in Nat /\ img.dynamic \in Nat
           /\ MaxU64 \in Nat /\ img.base <= MaxU64 /\ img.dynamic <= MaxU64
<1>1. img.base \in U64 /\ img.size \in U64 /\ img.dynamic \in U64
  BY RelocAssumption DEF RTypes
<1>2. MaxU64 \in Int
  BY RelocAssumption DEF MaxU64
<1> QED
  BY <1>1, <1>2 DEF U64

\* A sum that is an address does not wrap around.
LEMMA SumExact ==
    ASSUME NEW a \in Nat, NEW b \in Int, AddOk(a, b), MaxU64 \in Nat
    PROVE  Sum(a, b) = a + b
<1>1. PICK s \in Nat : s = a + b /\ s <= MaxU64
  BY DEF AddOk, U64
<1>2. s % (MaxU64 + 1) = s
  BY <1>1
<1> QED
  BY <1>1, <1>2 DEF Sum

LEMMA EndExact ==
    ASSUME RTypes, GoodImage
    PROVE  ImageEnd = img.base + img.size
<1>1. AddOk(img.base, img.size)
  BY ImageTypes DEF GoodImage, AddOk, U64
<1> QED
  BY <1>1, ImageTypes, SumExact DEF ImageEnd

LEMMA RelaTypes ==
    ASSUME NEW r \in Relas
    PROVE  /\ r.r_offset \in Nat /\ r.r_addend \in Int
<1>1. r.r_offset \in U64 /\ r.r_addend \in I64
  BY RelocAssumption DEF Rela
<1>2. MaxU64 \in Int
  BY RelocAssumption DEF MaxU64
<1>3. Width - 1 \in Nat
  BY RelocAssumption
<1> QED
  BY <1>1, <1>2, <1>3 DEF U64, I64

(***************************************************************************)
(* Steps                                                                   *)
(***************************************************************************)

LEMMA RelocInit == Init => RInv
<1> SUFFICES ASSUME Init PROVE RInv
  OBVIOUS
<1>1. RTypes
  <2>1. img \in Images /\ i \in Nat /\ rela \in Nat /\ relasz \in Nat /\ relaent \in Nat
    BY RelocAssumption DEF Init
  <2>2. seen \in Seq(Relas)
    BY DEF Init
  <2>3. terminated \in BOOLEAN /\ have_rela \in BOOLEAN /\ have_relasz \in BOOLEAN
    BY DEF Init
  <2> QED BY <2>1, <2>2, <2>3 DEF RTypes
<1>2. InsideImage
  <2>1. mem = << >> /\ read = <<img.base, img.base>>
    BY DEF Init
  <2>2. DOMAIN mem = {}
    BY <2>1
  <2>3. read[1] = img.base /\ read[2] = img.base
    BY <2>1
  <2> QED BY <1>1, <2>2, <2>3, ImageTypes DEF InsideImage
<1>3. Walked /\ Judged
  BY DEF Init, Walked, Judged
<1> QED
  BY <1>1, <1>2, <1>3 DEF RInv

\* What the verdicts are about changes only where a table entry is read.
LEMMA SameTables ==
    ASSUME UNCHANGED <<img, table, seen, mem>>
    PROVE  /\ Relocated' <=> Relocated
           /\ Malformed' <=> Malformed
           /\ Applied' <=> Applied
           /\ GoodImage' <=> GoodImage
           /\ GoodTable' <=> GoodTable
<1> USE DEF table
<1>1. \A k : Holds(k)' <=> Holds(k)
  BY DEF Holds
<1>2. \A k : Fits(seen[k])' <=> Fits(seen[k])
  BY DEF Fits
<1>3. Applied' <=> Applied
  BY <1>1, <1>2 DEF Applied
<1>4. Relocated' <=> Relocated
  BY <1>1 DEF Relocated
<1> QED
  BY <1>3, <1>4 DEF Malformed, GoodImage, GoodTable

LEMMA CheckImageStep ==
    ASSUME RInv, CheckImage
    PROVE  RInv'
<1>1. /\ pc = "image" /\ UNCHANGED <<img, i, table, seen, mem, read>>
  BY DEF CheckImage
<1>2. RTypes' /\ InsideImage'
  BY <1>1 DEF RInv, RTypes, InsideImage, table
<1>3. CASE pc' = "dynamic"
  <2>1. /\ img.size # 0 /\ AddOk(img.base, img.size)
        /\ ~(img.dynamic < img.base) /\ ~(img.dynamic > ImageEnd)
        /\ ~(ImageEnd - img.dynamic < DynBytes)
    BY <1>3 DEF CheckImage, Return
  <2>2. ImageEnd = img.base + img.size
    BY <2>1, ImageTypes, SumExact DEF RInv, ImageEnd
  <2>3. GoodImage
    BY <2>1, <2>2, ImageTypes, RelocAssumption DEF RInv, GoodImage, AddOk, U64
  <2>4. Walked'
    BY <1>1, <1>3, <2>3, SameTables DEF RInv, Walked, table
  <2>5. Judged'
    BY <1>3 DEF Judged
  <2> QED BY <1>2, <2>4, <2>5 DEF RInv
<1>4. CASE pc' # "dynamic"
  <2>1. /\ pc' = "returned" /\ result' = 1
        /\ \/ img.size = 0 \/ ~AddOk(img.base, img.size)
           \/ img.dynamic < img.base \/ img.dynamic > ImageEnd
           \/ ImageEnd - img.dynamic < DynBytes
    BY <1>4 DEF CheckImage, Return
  <2>2. ASSUME ~AddOk(img.base, img.size) PROVE Malformed
    BY <2>2, ImageTypes DEF RInv, AddOk, U64, Malformed
  <2>3. ASSUME AddOk(img.base, img.size) PROVE Malformed
    <3>1. ImageEnd = img.base + img.size
      BY <2>3, ImageTypes, SumExact DEF RInv, ImageEnd
    <3> QED
      BY <2>1, <2>3, <3>1, ImageTypes, RelocAssumption DEF RInv, Malformed
  <2>4. Malformed'
    BY <1>1, <2>2, <2>3, SameTables
  <2>5. Judged' /\ Walked'
    BY <2>1, <2>4 DEF Judged, Walked
  <2> QED BY <1>2, <2>5 DEF RInv
<1> QED BY <1>3, <1>4

\* A return that leaves the tables alone, with its reason.
LEMMA ReturnStep ==
    ASSUME RInv, NEW r \in {0, 1}, Return(r), UNCHANGED <<img, i, table, seen, mem, read>>,
           r = 0 => Relocated, r = 1 => Malformed
    PROVE  RInv'
<1>1. RTypes' /\ InsideImage'
  BY DEF RInv, RTypes, InsideImage, table
<1>2. pc' = "returned" /\ result' = r
  BY DEF Return
<1>3. Judged' /\ Walked'
  BY <1>2, SameTables DEF Judged, Walked
<1> QED
  BY <1>1, <1>3 DEF RInv

LEMMA ReadDynamicStep ==
    ASSUME RInv, NEW d \in Dyns, ReadDynamic(d)
    PROVE  RInv'
<1>1. /\ pc = "dynamic" /\ i < MaxDynamicEntries /\ UNCHANGED <<img, result, seen, mem>>
      /\ read' = <<img.dynamic + i * DynBytes, img.dynamic + (i + 1) * DynBytes>>
      /\ terminated' = (d.d_tag = "NULL")
      /\ \/ terminated' /\ pc' = "table" /\ i' = 0
         \/ ~terminated' /\ pc' = "dynamic" /\ i' = i + 1
  BY DEF ReadDynamic
<1>2. GoodImage /\ seen = << >> /\ i \in Nat
  BY <1>1 DEF RInv, Walked, RTypes
<1>3. InsideImage'
  <2>1. ImageEnd = img.base + img.size
    BY <1>2, EndExact DEF RInv
  <2>2. PICK n \in Nat : n = ImageEnd - img.dynamic
    BY <1>2, <2>1, ImageTypes, RelocAssumption DEF RInv, GoodImage
  <2>3. i * DynBytes \in Nat /\ (i + 1) * DynBytes \in Nat /\ (i + 1) * DynBytes <= n
    <3>1. DynBytes \in Nat /\ DynBytes > 0
      BY RelocAssumption
    <3>2. i < n \div DynBytes
      BY <1>1, <2>2 DEF MaxDynamicEntries
    <3> QED BY <1>2, <3>1, <3>2, EntryInside
  <2>4. /\ img.base <= img.dynamic + i * DynBytes
        /\ img.dynamic + (i + 1) * DynBytes <= img.base + img.size
    BY <1>2, <2>1, <2>2, <2>3, ImageTypes DEF RInv, GoodImage
  <2>5. /\ read'[1] = img.dynamic + i * DynBytes
        /\ read'[2] = img.dynamic + (i + 1) * DynBytes
    BY <1>1
  <2> QED
    BY <1>1, <2>4, <2>5 DEF RInv, InsideImage
<1>4. RTypes'
  <2>1. d.d_val \in Nat
    BY ImageTypes, RelocAssumption DEF RInv, Dyn, U64
  <2>2. rela' \in Nat /\ relasz' \in Nat /\ relaent' \in Nat
    BY <2>1 DEF ReadDynamic, RInv, RTypes
  <2>3. have_rela' \in BOOLEAN /\ have_relasz' \in BOOLEAN /\ terminated' \in BOOLEAN
    BY DEF ReadDynamic
  <2> QED BY <1>1, <1>2, <2>2, <2>3 DEF RInv, RTypes
<1>5. Walked' /\ Judged'
  BY <1>1, <1>2 DEF Walked, Judged, GoodImage
<1> QED
  BY <1>3, <1>4, <1>5 DEF RInv

LEMMA UnterminatedStep ==
    ASSUME RInv, Unterminated
    PROVE  RInv'
<1>1. Malformed
  BY DEF RInv, Walked, Unterminated, Malformed
<1> QED
  BY <1>1, ReturnStep DEF Unterminated

LEMMA CheckTableStep ==
    ASSUME RInv, CheckTable
    PROVE  RInv'
<1>1. /\ pc = "table" /\ UNCHANGED <<img, i, table, seen, mem, read>>
      /\ GoodImage /\ seen = << >> /\ terminated /\ i = 0
  BY DEF CheckTable, RInv, Walked
<1>2. CASE have_rela # have_relasz /\ Return(1)
  BY <1>1, <1>2, ReturnStep DEF Malformed
<1>3. CASE ~have_rela /\ ~have_relasz /\ Return(0)
  <2>1. Relocated
    <3>1. have_rela = have_relasz
      BY <1>3 DEF RInv, RTypes
    <3>2. DOMAIN seen = {}
      BY <1>1
    <3> QED BY <1>1, <1>3, <3>1, <3>2 DEF Relocated
  <2> QED BY <1>1, <1>3, <2>1, ReturnStep
<1>4. CASE have_rela /\ have_relasz
  <2>1. TableInside <=> rela + relasz <= img.size
    BY ImageTypes DEF RInv, RTypes, TableInside
  <2>2. CASE relaent = RelaBytes /\ relasz % RelaBytes = 0 /\ TableInside
    <3>1. pc' = "apply" /\ result' = result
      BY <1>4, <2>2 DEF CheckTable
    <3>2. GoodTable
      BY <1>1, <1>4, <2>1, <2>2 DEF GoodTable
    <3>3. Applied /\ Len(seen) = 0
      BY <1>1 DEF Applied
    <3>4. Walked' /\ Judged'
      BY <1>1, <3>1, <3>2, <3>3, SameTables DEF Walked, Judged
    <3>5. RTypes' /\ InsideImage'
      BY <1>1 DEF RInv, RTypes, InsideImage, table
    <3> QED BY <3>4, <3>5 DEF RInv
  <2>3. CASE ~(relaent = RelaBytes /\ relasz % RelaBytes = 0 /\ TableInside)
    <3>1. Malformed
      BY <2>1, <2>3, ImageTypes DEF RInv, RTypes, Malformed
    <3>2. Return(1)
      BY <1>4, <2>3 DEF CheckTable
    <3> QED BY <1>1, <3>1, <3>2, ReturnStep
  <2> QED BY <2>2, <2>3
<1> QED
  BY <1>2, <1>3, <1>4 DEF CheckTable

LEMMA AllReadStep ==
    ASSUME RInv, AllRead
    PROVE  RInv'
<1>1. /\ GoodTable /\ i = Len(seen) /\ Applied
      /\ i = relasz \div RelaBytes /\ relasz \in Nat /\ i \in Nat
  BY DEF RInv, Walked, AllRead, RTypes
<1>2. RelaBytes * (relasz \div RelaBytes) = relasz
  BY <1>1, RelocAssumption DEF GoodTable
<1>3. Len(seen) * RelaBytes = relasz
  BY <1>1, <1>2, RelocAssumption
<1>4. Relocated
  BY <1>1, <1>3 DEF Relocated, GoodTable, Applied, Fits
<1> QED
  BY <1>4, ReturnStep DEF AllRead

LEMMA StartStep ==
    ASSUME RInv, Start
    PROVE  RInv'
<1>1. /\ pc = "returned" /\ UNCHANGED <<img, i, table, result, seen, mem, read>>
      /\ pc' = IF result = 0 THEN "main" ELSE "refused"
  BY DEF Start
<1>2. RTypes' /\ InsideImage'
  BY <1>1 DEF RInv, RTypes, InsideImage, table
<1>3. Walked' /\ Judged'
  BY <1>1, SameTables DEF RInv, Walked, Judged
<1> QED
  BY <1>2, <1>3 DEF RInv

\* Every entry of the relocation table lies in the image.
LEMMA ReadInside ==
    ASSUME RInv, NEW r \in Relas, ReadRela(r)
    PROVE  (img.base <= read[1] /\ read[2] <= img.base + img.size)'
<1>1. /\ pc = "apply" /\ i < relasz \div RelaBytes /\ img' = img
      /\ read' = <<img.base + rela + i * RelaBytes, img.base + rela + (i + 1) * RelaBytes>>
  BY DEF ReadRela
<1>2. /\ GoodTable /\ i \in Nat /\ rela \in Nat /\ relasz \in Nat
      /\ img.base \in Nat /\ img.size \in Nat /\ RelaBytes \in Nat /\ RelaBytes > 0
  BY <1>1, ImageTypes, RelocAssumption DEF RInv, Walked, RTypes
<1>3. i * RelaBytes \in Nat /\ (i + 1) * RelaBytes \in Nat /\ (i + 1) * RelaBytes <= relasz
  BY <1>1, <1>2, EntryInside
<1>4. /\ read'[1] = img.base + rela + i * RelaBytes
      /\ read'[2] = img.base + rela + (i + 1) * RelaBytes
  BY <1>1
<1> QED
  BY <1>1, <1>2, <1>3, <1>4 DEF GoodTable

\* A relocation is refused for a reason ...
LEMMA RefusedRela ==
    ASSUME RInv, NEW r \in Relas, ReadRela(r), ~Applicable(r)
    PROVE  RInv'
<1>1. /\ pc' = "returned" /\ result' = 1 /\ seen' = Append(seen, r)
      /\ UNCHANGED <<img, i, table, mem>> /\ GoodImage
  BY DEF ReadRela, Return, RInv, Walked
<1>2. RTypes'
  BY <1>1 DEF RInv, RTypes, table
<1>3. InsideImage'
  BY <1>1, ReadInside DEF RInv, InsideImage
<1>4. ~Fits(r)
  <2> SUFFICES ASSUME Fits(r) PROVE FALSE
    OBVIOUS
  <2>1. r.r_type = "RELATIVE" /\ r.r_offset + WordBytes <= img.size /\ AddOk(img.base, r.r_addend)
    BY DEF Fits, AddOk
  <2>2. TargetInside(r)
    BY <2>1, RelaTypes, ImageTypes, RelocAssumption DEF RInv, TargetInside
  <2>3. AddOk(img.base, r.r_offset)
    <3>1. img.base \in Nat /\ img.size \in Nat /\ MaxU64 \in Nat /\ WordBytes \in Nat
      BY ImageTypes, RelocAssumption DEF RInv
    <3>2. r.r_offset \in Nat
      BY RelaTypes
    <3>3. img.base + img.size <= MaxU64
      BY <1>1 DEF RInv, GoodImage
    <3>4. r.r_offset + WordBytes <= img.size
      BY <2>1
    <3>5. img.base + r.r_offset \in 0 .. MaxU64
      BY <3>1, <3>2, <3>3, <3>4
    <3> QED BY <3>5 DEF AddOk, U64
  <2> QED BY <2>1, <2>2, <2>3 DEF Applicable
<1>5. Malformed'
  <2>1. Len(seen) + 1 \in DOMAIN seen' /\ seen'[Len(seen) + 1] = r
    BY <1>1 DEF RInv, RTypes
  <2>2. \/ r.r_type # "RELATIVE"
        \/ r.r_offset + WordBytes > img.size
        \/ img.base + r.r_addend \notin U64
    BY <1>4, RelaTypes, ImageTypes, RelocAssumption DEF RInv, Fits
  <2> QED BY <1>1, <2>1, <2>2 DEF Malformed
<1>6. Judged' /\ Walked'
  BY <1>1, <1>5 DEF Judged, Walked
<1> QED
  BY <1>2, <1>3, <1>6 DEF RInv

\* ... or applied: its word is in the image, and overwrites no other.
LEMMA AppliedRela ==
    ASSUME RInv, NEW r \in Relas, ReadRela(r), Applicable(r)
    PROVE  RInv'
<1> DEFINE at == img.base + r.r_offset
           value == img.base + r.r_addend
           word == at .. (at + WordBytes - 1)
<1>1. /\ pc = "apply" /\ pc' = "apply" /\ i' = i + 1 /\ seen' = Append(seen, r)
      /\ UNCHANGED <<img, table, result>>
      /\ Store(Sum(img.base, r.r_offset), Sum(img.base, r.r_addend))
  BY DEF ReadRela
<1>2. /\ GoodImage /\ GoodTable /\ i = Len(seen) /\ Applied /\ seen \in Seq(Relas)
      /\ img.base \in Nat /\ img.size \in Nat /\ MaxU64 \in Nat
      /\ r.r_offset \in Nat /\ r.r_addend \in Int /\ WordBytes \in Nat /\ WordBytes > 0
  BY <1>1, ImageTypes, RelaTypes, RelocAssumption DEF RInv, Walked, RTypes
<1>3. Fits(r)
  BY <1>2 DEF Applicable, TargetInside, Fits, AddOk
<1>4. mem' = [a \in DOMAIN mem \union word |-> IF a \in word THEN <<value, a - at>> ELSE mem[a]]
  <2>1. Sum(img.base, r.r_offset) = at /\ Sum(img.base, r.r_addend) = value
    BY <1>2, SumExact DEF Applicable
  <2> QED BY <1>1, <2>1 DEF Store
<1>5. at \in Nat /\ value \in Int /\ img.base <= at /\ at + WordBytes <= img.base + img.size
  BY <1>2, <1>3 DEF Fits
<1>6. InsideImage'
  <2>1. \A a \in word : img.base <= a /\ a < img.base + img.size
    <3>1. ASSUME NEW lo \in Nat, NEW hi \in Nat, NEW s \in Nat,
                 lo <= s, s + WordBytes <= hi, NEW a \in s .. (s + WordBytes - 1)
          PROVE  lo <= a /\ a < hi
      <4>1. WordBytes \in Nat
        BY <1>2
      <4> QED BY <3>1, <4>1
    <3>2. img.base + img.size \in Nat
      BY <1>2
    <3> HIDE DEF at
    <3> QED BY <1>2, <1>5, <3>1, <3>2
  <2> HIDE DEF word
  <2>2. \A a \in DOMAIN mem' : img.base <= a /\ a < img.base + img.size
    BY <1>4, <2>1 DEF RInv, InsideImage
  <2> QED BY <1>1, <2>2, ReadInside DEF InsideImage
<1>7. RTypes'
  BY <1>1, <1>2 DEF RInv, RTypes, table
<1>8. Applied'
  <2> SUFFICES ASSUME NEW k \in DOMAIN seen'
               PROVE  /\ Fits(seen[k])'
                      /\ \A b \in 0 .. (WordBytes - 1) :
                           img.base + seen'[k].r_offset + b \in DOMAIN mem'
                      /\ Holds(k)'
    BY <1>1 DEF Applied
  <2>1. CASE k = Len(seen) + 1
    <3>1. seen'[k] = r
      BY <1>1, <1>2, <2>1
    <3>2. Fits(seen[k])'
      BY <1>1, <1>3, <3>1 DEF Fits
    <3>3. \A b \in 0 .. (WordBytes - 1) : at + b \in word /\ (at + b) - at = b
      <4> SUFFICES ASSUME NEW b \in 0 .. (WordBytes - 1)
                   PROVE  at + b \in word /\ (at + b) - at = b
        OBVIOUS
      <4> HIDE DEF at
      <4>1. at \in Nat /\ b \in Nat /\ b <= WordBytes - 1
        BY <1>2, <1>5
      <4> QED BY <1>2, <4>1
    <3>4. \A b \in 0 .. (WordBytes - 1) : at + b \in DOMAIN mem' /\ mem'[at + b] = <<value, b>>
      BY <1>4, <3>3
    <3> QED BY <1>1, <3>1, <3>2, <3>4 DEF Holds
  <2>2. CASE k \in DOMAIN seen
    <3>1. seen'[k] = seen[k] /\ seen[k] \in Relas
      BY <1>1, <1>2, <2>2
    <3>2. seen[k].r_offset \in Nat
      BY <3>1, RelaTypes
    <3>3. Fits(seen[k])'
      BY <1>1, <1>2, <2>2, <3>1 DEF Applied, Fits
    <3>4. \A b \in 0 .. (WordBytes - 1) :
            img.base + seen'[k].r_offset + b \in DOMAIN mem'
      BY <1>2, <1>4, <2>2, <3>1 DEF Applied
    <3>5. Holds(k)'
      <4> SUFFICES ASSUME \A l \in (k + 1) .. Len(seen') :
                            \/ seen'[l].r_offset + WordBytes <= seen[k].r_offset
                            \/ seen[k].r_offset + WordBytes <= seen'[l].r_offset,
                          NEW b \in 0 .. (WordBytes - 1)
                   PROVE  mem'[img.base + seen[k].r_offset + b]
                            = <<img.base + seen[k].r_addend, b>>
        BY <1>1, <3>1 DEF Holds
      <4>1. /\ Len(seen') = Len(seen) + 1 /\ seen'[Len(seen) + 1] = r
            /\ \A l \in 1 .. Len(seen) : seen'[l] = seen[l]
            /\ k \in Nat /\ k <= Len(seen) /\ k > 0 /\ Len(seen) \in Nat
        BY <1>1, <1>2, <2>2
      <4>2. \/ r.r_offset + WordBytes <= seen[k].r_offset
            \/ seen[k].r_offset + WordBytes <= r.r_offset
        BY <4>1
      <4>3. img.base + seen[k].r_offset + b \notin word
        <5>1. b \in Nat /\ b < WordBytes
          BY <1>2
        <5>2. \/ r.r_offset + WordBytes <= seen[k].r_offset + b
              \/ seen[k].r_offset + b < r.r_offset
          BY <1>2, <3>2, <4>2, <5>1
        <5>3. PICK x \in Nat : x = img.base + seen[k].r_offset + b
          BY <1>2, <3>2, <5>1
        <5>4. at + WordBytes <= x \/ x < at
          <6>1. PICK base \in Nat : base = img.base
            BY <1>2
          <6>2. PICK y \in Nat : y = seen[k].r_offset + b
            BY <3>2, <5>1
          <6>3. PICK o \in Nat : o = r.r_offset
            BY <1>2
          <6>4. (o + WordBytes <= y \/ y < o) /\ at = base + o /\ WordBytes \in Nat
            BY <1>2, <5>2, <6>1, <6>2, <6>3
          <6>5. x = base + y
            BY <3>2, <5>1, <5>3, <6>1, <6>2
          <6> HIDE DEF at
          <6> QED BY <6>4, <6>5
        <5> HIDE DEF at
        <5>5. x \notin word
          BY <1>2, <1>5, <5>4
        <5> QED BY <5>3, <5>5
      <4>4. \A l \in (k + 1) .. Len(seen) :
              \/ seen[l].r_offset + WordBytes <= seen[k].r_offset
              \/ seen[k].r_offset + WordBytes <= seen[l].r_offset
        BY <4>1
      <4>5. mem[img.base + seen[k].r_offset + b] = <<img.base + seen[k].r_addend, b>>
        BY <1>2, <2>2, <4>4 DEF Applied, Holds
      <4>6. img.base + seen[k].r_offset + b \in DOMAIN mem
        BY <1>2, <2>2 DEF Applied
      <4> HIDE DEF word
      <4> QED BY <1>4, <4>3, <4>5, <4>6
    <3> QED BY <3>3, <3>4, <3>5
  <2>3. k = Len(seen) + 1 \/ k \in DOMAIN seen
    BY <1>1, <1>2
  <2> QED BY <2>1, <2>2, <2>3
<1>9. Walked' /\ Judged'
  <2>1. Len(seen') = i' /\ GoodImage' /\ GoodTable'
    BY <1>1, <1>2 DEF GoodImage, GoodTable, table
  <2> QED BY <1>1, <1>8, <2>1 DEF Walked, Judged
<1> QED
  BY <1>6, <1>7, <1>9 DEF RInv

LEMMA RelocInductive == RInv /\ [Next]_vars => RInv'
<1> SUFFICES ASSUME RInv, [Next]_vars PROVE RInv'
  OBVIOUS
<1>1. CASE UNCHANGED vars
  <2>1. UNCHANGED <<pc, img, i, table, result, seen, mem, read>>
    BY <1>1 DEF vars
  <2>2. RTypes' /\ InsideImage'
    BY <2>1 DEF RInv, RTypes, InsideImage, table
  <2>3. Walked' /\ Judged'
    BY <2>1, SameTables DEF RInv, Walked, Judged, table
  <2> QED BY <2>2, <2>3 DEF RInv
<1>2. CASE Next
  BY <1>2, CheckImageStep, UnterminatedStep, CheckTableStep, AllReadStep, StartStep,
     ReadDynamicStep, RefusedRela, AppliedRela DEF Next
<1> QED BY <1>1, <1>2

\* Nothing outside the loaded image is read or written, whatever its tables
\* say (reloc.c:6).
THEOREM StaysInside == Spec => []InsideImage
<1>1. RInv => InsideImage
  BY DEF RInv
<1> QED
  BY <1>1, RelocInit, RelocInductive, PTL DEF Spec

\* efi_main runs fully relocated; an image is refused only for a reason.
THEOREM RelocatesOrRefuses == Spec => []RelocatedOrMalformed
<1>1. RInv => RelocatedOrMalformed
  BY DEF RInv, Judged, RelocatedOrMalformed
<1> QED
  BY <1>1, RelocInit, RelocInductive, PTL DEF Spec

================================================================================
