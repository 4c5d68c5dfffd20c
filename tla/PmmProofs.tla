------------------------------- MODULE PmmProofs -------------------------------
(***************************************************************************)
(* Proofs about the page allocator, for every set of well-formed maps,     *)
(* every size of the low area and of a page; and about pmm_selftest, its   *)
(* caller at boot, for the composition with the loader (LoaderProofs).     *)
(***************************************************************************)
EXTENDS PmmSelftest, FiniteSetTheorems, TLAPS

(***************************************************************************)
(* Arithmetic of the wrap (cursor + k) % highest_page and of the bitmap's  *)
(* size.                                                                   *)
(***************************************************************************)

\* The next-fit cursor wraps at most once.
LEMMA Wrap ==
    ASSUME NEW x \in Nat, NEW h \in Nat, h > 0, x < 2 * h
    PROVE  /\ x < h => x % h = x
           /\ x >= h => x % h = x - h
<1> DEFINE q == x \div h
           r == x % h
<1>1. /\ q \in Int /\ r \in Int
      /\ x = h * q + r /\ 0 <= r /\ r < h
  BY SMT
<1>2. ASSUME x < h PROVE q = 0
  <2>1. h * q < h /\ h * q > 0 - h
    BY <1>1, <1>2
  <2>2. CASE q >= 1
    <3>1. h * q >= h * 1
      BY <1>1, <2>2, SMT
    <3> QED BY <2>1, <3>1
  <2>3. CASE q <= -1
    <3>1. h * q <= h * (-1)
      BY <1>1, <2>3, SMT
    <3> QED BY <2>1, <3>1
  <2> QED BY <1>1, <2>2, <2>3
<1>3. ASSUME x >= h PROVE q = 1
  <2>1. h * q < 2 * h /\ h * q > 0
    BY <1>1, <1>3
  <2>2. CASE q >= 2
    <3>1. h * q >= h * 2
      BY <1>1, <2>2, SMT
    <3> QED BY <2>1, <3>1
  <2>3. CASE q <= 0
    <3>1. h * q <= h * 0
      BY <1>1, <2>3, SMT
    <3> QED BY <2>1, <3>1
  <2> QED BY <1>1, <2>2, <2>3
<1> QED
  BY <1>1, <1>2, <1>3

\* A region of len pages that holds the bitmap holds all its pages.
LEMMA PagesForFits ==
    ASSUME NEW bytes \in Nat, NEW len \in Nat, len * PageBytes >= bytes
    PROVE  PagesFor(bytes) \in Nat /\ PagesFor(bytes) <= len
<1> USE PageBytesAssumption
<1> DEFINE n == bytes + PageBytes - 1
           q == n \div PageBytes
<1>1. q \in Int /\ PageBytes * q <= n /\ n < PageBytes * q + PageBytes
  BY SMT
<1>2. q >= 0
  <2>1. SUFFICES ASSUME q <= -1 PROVE FALSE
    BY <1>1
  <2>2. PageBytes * q <= PageBytes * (-1)
    BY <1>1, <2>1, SMT
  <2> QED BY <1>1, <2>2
<1>3. q <= len
  <2>1. SUFFICES ASSUME q >= len + 1 PROVE FALSE
    BY <1>1
  <2>2. PageBytes * q >= PageBytes * (len + 1)
    BY <1>1, <2>1, SMT
  <2>3. PageBytes * (len + 1) = len * PageBytes + PageBytes
    BY SMT
  <2> QED BY <1>1, <2>2, <2>3
<1> QED
  BY <1>1, <1>2, <1>3 DEF PagesFor

(***************************************************************************)
(* The inductive invariant                                                 *)
(***************************************************************************)

\* The maps for which pmm_init leaves the cursor past the bitmap: the first
\* region that fits ends at highest_page, the bitmap fills it, and
\* highest_page is a multiple of eight (pmm.c:113; see README.md).
TailPlacement(m) ==
    \E h \in Ends(m) : \E e \in Fitting(m, BitmapBytes(h)) :
        /\ IsHighest(m, h)
        /\ \A k \in Fitting(m, BitmapBytes(h)) : e <= k
        /\ h % 8 = 0
        /\ SkippedBase(m[e]) + PagesFor(BitmapBytes(h)) = h

NoTailPlacement == \A m \in Maps : ~TailPlacement(m)

\* The pages behind the cursor, as far as the scan has come, are taken.
Covered ==
    \A p \in Tracked :
        (IF p < cursor THEN cursor - p ELSE cursor + highest_page - p) <= scanned
            => p \in bitmap

Layout ==
    /\ LowPages < highest_page
    /\ bitmap_bytes = BitmapBytes(highest_page)
    /\ highest_page <= MaxU64
    /\ Pool \subseteq Tracked
    /\ 0 \notin Pool

Counts ==
    /\ allocator_pages = Cardinality(Pool)
    /\ free_pages = Cardinality(Pool \ bitmap)

IInv ==
    /\ TypeOK
    /\ status = "boot" => highest_page = 0 /\ ret = 0 /\ cursor = 0
    /\ Running => Layout /\ cursor \in Bits /\ Bits \ bitmap \subseteq Pool
    /\ Running => Counts
    /\ status = "scan" => Covered
    /\ HandedOutFromPool

\* Before pmm_init runs, only the types are at stake.
LEMMA InitIInv == Init => IInv
<1> SUFFICES ASSUME Init PROVE IInv
  OBVIOUS
<1> USE DEF Init
<1>1. TypeOK
  BY MaxU64Assumption DEF TypeOK, Bits
<1> QED
  BY <1>1 DEF IInv, Running, HandedOutFromPool

\* The entries of a map the loader hands over.
LEMMA MapFacts ==
    ASSUME NEW m \in Maps
    PROVE  /\ \A k \in DOMAIN m : /\ m[k].base \in Nat /\ m[k].length \in Nat
                                  /\ m[k].length > 0
                                  /\ m[k].base + m[k].length <= MaxU64
           /\ \A j, k \in DOMAIN m : j < k => m[j].base + m[j].length <= m[k].base
           /\ DOMAIN m \subseteq Nat
<1>1. m \in Seq(Entry)
  BY MapsAssumption DEF WellFormedMap
<1>2. DOMAIN m = 1 .. Len(m) /\ Len(m) \in Nat
  BY <1>1
<1>3. \A k \in DOMAIN m : m[k] \in Entry
  BY <1>1
<1>4. \A k \in DOMAIN m : m[k].base \in Nat /\ m[k].length \in Nat \ {0}
  BY <1>3 DEF Entry
<1>5. \A k \in DOMAIN m : m[k].base + m[k].length <= MaxU64
  BY MaxU64Assumption
<1>6. \A j, k \in DOMAIN m : j < k => m[j].base + m[j].length <= m[k].base
  BY MapsAssumption DEF WellFormedMap
<1> QED
  BY <1>2, <1>4, <1>5, <1>6

\* pmm_init establishes the layout, the bits and the counters.
LEMMA InitStep ==
    ASSUME ~TailPlacement(map), IInv, PmmInit
    PROVE  IInv'
<1> USE LowPagesAssumption, PageBytesAssumption, MaxU64Assumption
<1>1. PICK h \in Ends(map) : \E e \in Fitting(map, BitmapBytes(h)) :
         /\ IsHighest(map, h)
         /\ \A k \in Fitting(map, BitmapBytes(h)) : e <= k
         /\ InitAt(h, e)
  BY DEF PmmInit
<1>2. PICK e \in Fitting(map, BitmapBytes(h)) :
         /\ IsHighest(map, h)
         /\ \A k \in Fitting(map, BitmapBytes(h)) : e <= k
         /\ InitAt(h, e)
  BY <1>1
<1>3. status = "boot" /\ status' = "idle" /\ UNCHANGED <<map, scanned, ret>>
  BY DEF PmmInit
<1>4. map \in Maps /\ ret = 0 /\ scanned \in Nat
  BY <1>3 DEF IInv, TypeOK
<1>5. /\ \A k \in DOMAIN map : /\ map[k].base \in Nat /\ map[k].length \in Nat
                               /\ map[k].length > 0
                               /\ map[k].base + map[k].length <= MaxU64
      /\ \A j, k \in DOMAIN map : j < k =>
            map[j].base + map[j].length <= map[k].base
      /\ DOMAIN map \subseteq Nat
  BY <1>4, MapFacts
<1> DEFINE U0 == UsablePages(map) \ {0}
           first == SkippedBase(map[e])
           bytes == BitmapBytes(h)
           n == PagesFor(bytes)
           bm == first .. (first + n - 1)
           taken == TakenBack(h, first)
<1>6. h \in Nat /\ h > 0 /\ h <= MaxU64
  BY <1>5 DEF Ends, UsableEntries
<1>7. bytes \in Nat /\ h <= 8 * bytes /\ 8 * bytes < h + 8 /\ (h % 8 = 0 <=> 8 * bytes = h)
  BY <1>6 DEF BitmapBytes
<1>8. e \in DOMAIN map /\ map[e].base + map[e].length <= h
      /\ map[e].type = "usable"
  BY <1>2 DEF Fitting, UsableEntries, IsHighest, Ends
<1>9. first \in Nat /\ LowPages <= first /\ first < h
      /\ first + n <= h /\ n \in Nat
  <2>1. SkippedLength(map[e]) \in Nat /\ SkippedLength(map[e]) > 0
        /\ SkippedLength(map[e]) * PageBytes >= bytes
    BY <1>2, <1>5, <1>8 DEF Fitting, Fits, SkippedLength, SkippedBase
  <2>2. n \in Nat /\ n <= SkippedLength(map[e])
    BY <1>7, <2>1, PagesForFits
  <2>3. map[e].base \in Nat /\ map[e].length \in Nat
    BY <1>5, <1>8
  <2>4. /\ first \in Nat /\ LowPages <= first
        /\ SkippedLength(map[e]) = map[e].base + map[e].length - first
    BY <2>3 DEF SkippedLength, SkippedBase
  <2> QED
    BY <1>6, <1>8, <2>1, <2>2, <2>3, <2>4
<1>10. UsablePages(map) \subseteq 0 .. (h - 1)
  <2> SUFFICES ASSUME NEW p \in UsablePages(map) PROVE p \in 0 .. (h - 1)
    OBVIOUS
  <2>1. PICK k \in UsableEntries(map) : p \in Pages(map[k])
    BY DEF UsablePages
  <2>2. k \in DOMAIN map /\ map[k].base + map[k].length <= h
    BY <1>2 DEF UsableEntries, IsHighest, Ends
  <2> QED
    BY <1>5, <1>6, <2>1, <2>2 DEF Pages
<1>11. /\ highest_page' = h /\ bitmap_bytes' = bytes /\ bm_first' = first
       /\ bitmap' = UnusableBits(h) \union taken
       /\ usable_pages' = Cardinality(Cleared(map))
       /\ free_pages' = Cardinality(Cleared(map)) - Cardinality(taken)
       /\ allocator_pages' = Cardinality(Cleared(map)) - Cardinality(taken)
       /\ cursor' = first + n
  BY <1>2 DEF InitAt
<1>12. taken = U0 \intersect (bm \union LowArea)
  BY <1>6, <1>7, <1>9, <1>10 DEF TakenBack, UnusableBits, LowArea
<1>13. Pool' = U0 \ taken
  <2>1. Pool' = (UsablePages(map) \ bm) \ LowArea
    BY <1>3, <1>11 DEF Pool, BitmapPages
  <2>2. 0 \in LowArea
    BY DEF LowArea
  <2> QED
    BY <1>12, <2>1, <2>2
<1>14. Bits' = 0 .. (8 * bytes - 1) /\ Tracked' = 0 .. (h - 1)
  BY <1>11 DEF Bits, Tracked
<1>15. Bits' \ bitmap' = Pool' /\ bitmap' \subseteq Bits'
  BY <1>6, <1>7, <1>10, <1>11, <1>12, <1>13, <1>14 DEF UnusableBits
<1>16. IsFiniteSet(U0) /\ Cardinality(U0) \in Nat /\ Cardinality(U0) <= h
  <2>1. IsFiniteSet(0 .. (h - 1)) /\ Cardinality(0 .. (h - 1)) = h
    <3>1. PICK g \in Int : g = h - 1 /\ ~(0 > g) /\ g - 0 + 1 = h
      BY <1>6
    <3>2. IsFiniteSet(0 .. g) /\ Cardinality(0 .. g) = g - 0 + 1
      BY <3>1, FS_Interval
    <3> QED
      BY <3>1, <3>2
  <2>2. IsFiniteSet(U0) /\ Cardinality(U0) <= h
    BY <1>10, <2>1, FS_Subset
  <2> QED
    BY <2>2, FS_CardinalityType
<1>17. Cardinality(Cleared(map)) = Cardinality(U0)
  <2> DEFINE f == [x \in Cleared(map) |-> x[2]]
  <2>1. f \in Injection(Cleared(map), U0)
    <3>1. f \in [Cleared(map) -> U0]
      BY DEF Cleared
    <3>2. ASSUME NEW x \in Cleared(map), NEW y \in Cleared(map), f[x] = f[y]
          PROVE  x = y
      <4>1. /\ x = <<x[1], x[2]>> /\ y = <<y[1], y[2]>> /\ x[2] = y[2]
            /\ x[1] \in DOMAIN map /\ y[1] \in DOMAIN map
            /\ x[2] \in Pages(map[x[1]]) /\ x[2] \in Pages(map[y[1]])
        BY <3>2 DEF Cleared, UsableEntries
      <4>2. x[1] = y[1]
        BY <4>1, <1>5 DEF Pages
      <4> QED
        BY <4>1, <4>2
    <3> QED
      BY <3>1, <3>2 DEF Injection, IsInjective
  <2>2. f \in Surjection(Cleared(map), U0)
    <3>1. ASSUME NEW p \in U0 PROVE \E x \in Cleared(map) : f[x] = p
      <4>1. PICK k \in UsableEntries(map) : p \in Pages(map[k])
        BY DEF UsablePages
      <4>2. <<k, p>> \in Cleared(map)
        BY <4>1 DEF Cleared
      <4> QED
        BY <4>2
    <3>2. f \in [Cleared(map) -> U0]
      BY <2>1 DEF Injection
    <3> QED
      BY <3>1, <3>2 DEF Surjection
  <2> QED
    BY <1>16, <2>1, <2>2, FS_Injection
<1>18. Cardinality(Pool') = Cardinality(U0) - Cardinality(taken)
       /\ Cardinality(Pool') \in Nat
  <2>1. U0 \intersect taken = taken
    BY <1>12
  <2>2. IsFiniteSet(Pool') /\ Cardinality(Pool') = Cardinality(U0) - Cardinality(taken)
    BY <1>13, <1>16, <2>1, FS_Difference
  <2> QED
    BY <2>2, FS_CardinalityType
<1>19. Cardinality(Pool') <= h
  <2>1. Pool' \in SUBSET U0
    BY <1>13
  <2>2. Cardinality(Pool') <= Cardinality(U0)
    BY <1>16, <2>1, FS_Subset
  <2> QED
    BY <1>6, <1>16, <1>18, <2>2
<1>20. Layout'
  BY <1>3, <1>6, <1>9, <1>10, <1>11, <1>13, <1>14 DEF Layout
<1>21. Counts'
  <2>1. (Pool \ bitmap)' = Pool'
    BY <1>15
  <2> QED
    BY <1>11, <1>17, <1>18, <2>1 DEF Counts
<1>22. cursor' \in Bits'
  <2>1. h % 8 # 0 \/ first + n # h
    BY <1>2 DEF TailPlacement
  <2> QED
    BY <1>6, <1>7, <1>9, <1>11, <1>14, <2>1
<1>23. TypeOK'
  BY <1>3, <1>4, <1>6, <1>7, <1>9, <1>11, <1>15, <1>16, <1>17, <1>18, <1>19
     DEF TypeOK
<1>24. HandedOutFromPool'
  BY <1>3, <1>4 DEF HandedOutFromPool
<1> QED
  BY <1>3, <1>15, <1>20, <1>21, <1>22, <1>23, <1>24 DEF IInv, Running

\* What the invariant says while the allocator runs.
LEMMA RunningFacts ==
    ASSUME IInv, Running
    PROVE  /\ Layout /\ Counts /\ cursor \in Bits /\ cursor <= highest_page
           /\ highest_page \in Nat /\ highest_page > 8
           /\ bitmap \subseteq Bits /\ Bits \ bitmap \subseteq Pool
           /\ Tracked \subseteq Bits
           /\ IsFiniteSet(Pool) /\ IsFiniteSet(Pool \ bitmap)
           /\ Cardinality(Pool) \in Nat /\ Cardinality(Pool) <= highest_page
           /\ free_pages \in Nat /\ highest_page <= MaxU64
<1> USE LowPagesAssumption, MaxU64Assumption
<1>1. /\ Layout /\ Counts /\ cursor \in Bits /\ TypeOK
      /\ Bits \ bitmap \subseteq Pool
  BY DEF IInv
<1>2. /\ highest_page \in Nat /\ bitmap \subseteq Bits /\ cursor <= highest_page
      /\ highest_page <= 8 * bitmap_bytes /\ bitmap_bytes \in Nat
      /\ free_pages \in Nat
  BY <1>1 DEF TypeOK
<1>3. highest_page > 8 /\ highest_page <= MaxU64 /\ Pool \subseteq Tracked
  BY <1>1, <1>2 DEF Layout
<1>4. Tracked \subseteq Bits
  BY <1>2 DEF Tracked, Bits
<1>5. IsFiniteSet(Tracked) /\ Cardinality(Tracked) = highest_page
  BY <1>2, <1>3, FS_Interval DEF Tracked
<1>6. IsFiniteSet(Pool) /\ Cardinality(Pool) <= highest_page
  BY <1>3, <1>5, FS_Subset
<1>7. Cardinality(Pool) \in Nat
  BY <1>6, FS_CardinalityType
<1>8. IsFiniteSet(Pool \ bitmap)
  BY <1>6, FS_Subset
<1> QED
  BY <1>1, <1>2, <1>3, <1>4, <1>6, <1>7, <1>8

\* The low area always stays marked.
LEMMA LowMarked ==
    ASSUME IInv, Running, NEW p \in Tracked, p < LowPages
    PROVE  p \in bitmap
<1>1. p \in Bits /\ Bits \ bitmap \subseteq Pool
  BY RunningFacts
<1>2. p \notin Pool
  BY LowPagesAssumption DEF Pool, LowArea, Tracked
<1> QED
  BY <1>1, <1>2

\* Setting the clear bit of page p takes it out of the pool's free part.
LEMMA TakeCounts ==
    ASSUME IInv, Running, NEW p \in Pool \ bitmap
    PROVE  /\ Dec(free_pages) = Cardinality(Pool \ (bitmap \union {p}))
           /\ Dec(free_pages) \in 0 .. MaxU64
<1>1. /\ IsFiniteSet(Pool \ bitmap) /\ free_pages = Cardinality(Pool \ bitmap)
      /\ free_pages \in Nat /\ IsFiniteSet(Pool) /\ free_pages \in 0 .. MaxU64
  BY RunningFacts DEF Counts, IInv, TypeOK
<1>2. Pool \ (bitmap \union {p}) = (Pool \ bitmap) \ {p}
  OBVIOUS
<1>3. Cardinality((Pool \ bitmap) \ {p}) = Cardinality(Pool \ bitmap) - 1
  BY <1>1, FS_RemoveElement
<1>4. free_pages # 0
  BY <1>1, FS_EmptySet
<1> QED
  BY <1>1, <1>2, <1>3, <1>4, MaxU64Assumption DEF Dec

\* Clearing the bit of an owned page gives it back.
LEMMA FreeCounts ==
    ASSUME IInv, Running, NEW p \in Pool \intersect bitmap
    PROVE  /\ free_pages + 1 = Cardinality(Pool \ (bitmap \ {p}))
           /\ free_pages + 1 \in 0 .. MaxU64
<1>1. /\ IsFiniteSet(Pool \ bitmap) /\ free_pages = Cardinality(Pool \ bitmap)
      /\ free_pages \in Nat /\ IsFiniteSet(Pool)
      /\ Cardinality(Pool) \in Nat /\ Cardinality(Pool) <= highest_page
      /\ highest_page <= MaxU64 /\ highest_page \in Nat
  BY RunningFacts DEF Counts
<1>2. Pool \ (bitmap \ {p}) = (Pool \ bitmap) \union {p}
  OBVIOUS
<1>3. Cardinality((Pool \ bitmap) \union {p}) = Cardinality(Pool \ bitmap) + 1
  BY <1>1, FS_AddElement
<1>4. Cardinality(Pool \ (bitmap \ {p})) <= Cardinality(Pool)
  BY <1>1, FS_Subset
<1> QED
  BY <1>1, <1>2, <1>3, <1>4, MaxU64Assumption

\* One iteration of pmm_alloc_page's loop.
LEMMA ScanStepInv ==
    ASSUME IInv, ScanStep
    PROVE  IInv'
<1> USE LowPagesAssumption, MaxU64Assumption
<1>1. /\ status = "scan" /\ Running /\ scanned < highest_page /\ Covered
      /\ UNCHANGED <<layout, usable_pages, allocator_pages>> /\ TypeOK
  BY DEF ScanStep, Running, IInv
<1>2. /\ Layout /\ Counts /\ cursor \in Bits /\ cursor <= highest_page
      /\ highest_page \in Nat /\ highest_page > 8
      /\ bitmap \subseteq Bits /\ Bits \ bitmap \subseteq Pool
      /\ Tracked \subseteq Bits /\ scanned \in Nat /\ cursor \in Nat
  BY <1>1, RunningFacts DEF TypeOK
<1>3. ScanAt(cursor, bitmap)
  BY <1>2 DEF ScanStep, BitsRead
<1>4. /\ Pool' = Pool /\ Bits' = Bits /\ Tracked' = Tracked /\ Layout'
      /\ highest_page' = highest_page
  BY <1>1, <1>2 DEF layout, Pool, BitmapPages, Bits, Tracked, Layout
<1>5. CASE ScanSkip(cursor, bitmap)
  <2>1. /\ \A k \in 0 .. 7 : cursor + k \in bitmap
        /\ cursor' = (cursor + 8) % highest_page /\ scanned' = scanned + 8
        /\ UNCHANGED <<status, bitmap, free_pages, ret>>
    BY <1>5 DEF ScanSkip, FullByte
  <2>2. /\ cursor + 8 < highest_page => cursor' = cursor + 8
        /\ cursor + 8 >= highest_page => cursor' = cursor + 8 - highest_page
    BY <1>2, <2>1, Wrap
  <2>3. cursor' \in 0 .. (highest_page - 1)
    BY <1>2, <2>2
  <2>4. Covered'
    <3> SUFFICES ASSUME NEW p \in Tracked,
                        (IF p < cursor' THEN cursor' - p
                         ELSE cursor' + highest_page - p) <= scanned + 8
                 PROVE  p \in bitmap
      BY <1>4, <2>1 DEF Covered
    <3>1. p \in Nat /\ p < highest_page
      BY <1>2 DEF Tracked
    <3>2. CASE p \in cursor .. (cursor + 7)
      BY <1>2, <2>1, <3>1, <3>2
    <3>3. CASE p < LowPages
      BY <1>1, <3>3, LowMarked
    <3>4. CASE p \notin cursor .. (cursor + 7) /\ p >= LowPages
      <4>1. (IF p < cursor THEN cursor - p ELSE cursor + highest_page - p)
               <= scanned
        BY <1>2, <2>2, <3>1, <3>4
      <4> QED
        BY <1>1, <4>1 DEF Covered
    <3> QED
      BY <3>1, <3>2, <3>3, <3>4
  <2> QED
    BY <1>1, <1>2, <1>4, <2>1, <2>3, <2>4
       DEF IInv, TypeOK, Running, Counts, HandedOutFromPool, Tracked, layout
<1>6. CASE ScanBusy(cursor, bitmap)
  <2>1. /\ cursor \in bitmap
        /\ cursor' = (cursor + 1) % highest_page /\ scanned' = scanned + 1
        /\ UNCHANGED <<status, bitmap, free_pages, ret>>
    BY <1>6 DEF ScanBusy
  <2>2. /\ cursor + 1 < highest_page => cursor' = cursor + 1
        /\ cursor + 1 >= highest_page => cursor' = cursor + 1 - highest_page
    BY <1>2, <2>1, Wrap
  <2>3. cursor' \in 0 .. (highest_page - 1)
    BY <1>2, <2>2
  <2>4. Covered'
    <3> SUFFICES ASSUME NEW p \in Tracked,
                        (IF p < cursor' THEN cursor' - p
                         ELSE cursor' + highest_page - p) <= scanned + 1
                 PROVE  p \in bitmap
      BY <1>4, <2>1 DEF Covered
    <3>1. p \in Nat /\ p < highest_page
      BY <1>2 DEF Tracked
    <3>2. CASE p = cursor
      BY <2>1, <3>2
    <3>3. CASE p < LowPages
      BY <1>1, <3>3, LowMarked
    <3>4. CASE p # cursor /\ p >= LowPages
      <4>1. (IF p < cursor THEN cursor - p ELSE cursor + highest_page - p)
               <= scanned
        BY <1>2, <2>2, <3>1, <3>4
      <4> QED
        BY <1>1, <4>1 DEF Covered
    <3> QED
      BY <3>1, <3>2, <3>3, <3>4
  <2> QED
    BY <1>1, <1>2, <1>4, <2>1, <2>3, <2>4
       DEF IInv, TypeOK, Running, Counts, HandedOutFromPool, Tracked, layout
<1>7. CASE ScanTake(cursor, bitmap)
  <2>1. /\ cursor \notin bitmap
        /\ cursor' = (cursor + 1) % highest_page
        /\ bitmap' = bitmap \union {cursor} /\ free_pages' = Dec(free_pages)
        /\ ret' = cursor /\ status' = "idle" /\ scanned' = scanned
    BY <1>7 DEF ScanTake
  <2>2. cursor \in Pool /\ cursor < highest_page
    BY <1>2, <2>1 DEF Layout, Tracked
  <2>3. cursor' \in 0 .. (highest_page - 1)
    BY <1>2, <2>1, <2>2, Wrap
  <2>4. /\ free_pages' = Cardinality(Pool \ bitmap')
        /\ free_pages' \in 0 .. MaxU64
    BY <1>1, <2>1, <2>2, TakeCounts
  <2>5. bitmap' \subseteq Bits /\ Bits \ bitmap' \subseteq Pool
    BY <1>2, <2>1
  <2> QED
    BY <1>1, <1>2, <1>4, <2>1, <2>2, <2>3, <2>4, <2>5
       DEF IInv, TypeOK, Running, Counts, HandedOutFromPool, Tracked, layout
<1> QED
  BY <1>3, <1>5, <1>6, <1>7 DEF ScanAt

\* A call begins, or ends without a page.
LEMMA CallInv ==
    ASSUME IInv, AllocCall \/ ScanExhausted
    PROVE  IInv'
<1>1. /\ Running /\ TypeOK /\ Layout /\ Counts /\ cursor \in Bits
      /\ Bits \ bitmap \subseteq Pool /\ HandedOutFromPool
      /\ highest_page \in Nat /\ cursor \in Nat
  BY RunningFacts DEF IInv, Running, AllocCall, ScanExhausted, TypeOK
<1>2. UNCHANGED <<layout, bitmap, free_pages, usable_pages, allocator_pages, cursor>>
  BY DEF AllocCall, ScanExhausted
<1>3. Pool' = Pool /\ Bits' = Bits /\ Tracked' = Tracked /\ Layout' /\ Counts'
  BY <1>1, <1>2 DEF layout, Pool, BitmapPages, Bits, Tracked, Layout, Counts
<1>4. CASE AllocCall
  <2>1. status' = "scan" /\ scanned' = 0 /\ ret' = ret
    BY <1>4 DEF AllocCall
  <2>2. Covered'
    BY <1>1, <1>2, <1>3, <2>1 DEF Covered, Tracked, layout
  <2> QED
    BY <1>1, <1>2, <1>3, <2>1, <2>2
       DEF IInv, TypeOK, Running, HandedOutFromPool, layout
<1>5. CASE ScanExhausted
  <2>1. status' = "idle" /\ ret' = 0 /\ scanned' = scanned
    BY <1>5 DEF ScanExhausted
  <2> QED
    BY <1>1, <1>2, <1>3, <2>1
       DEF IInv, TypeOK, Running, HandedOutFromPool, layout
<1> QED
  BY <1>4, <1>5

\* pmm_free_page, called with a page of the caller's or with an address it
\* refuses.
LEMMA FreeInv ==
    ASSUME IInv, FreeCall
    PROVE  IInv'
<1>1. PICK p \in 0 .. highest_page, aligned \in BOOLEAN :
        /\ (aligned /\ p < highest_page /\ p \in bitmap) => p \in Owned
        /\ Free(p, aligned)
  BY DEF FreeCall
<1>2. /\ status = "idle" /\ Running
      /\ UNCHANGED <<layout, usable_pages, allocator_pages, cursor, scanned, ret>>
  BY <1>1 DEF Free, Running
<1>3. /\ TypeOK /\ Layout /\ Counts /\ cursor \in Bits
      /\ Bits \ bitmap \subseteq Pool /\ HandedOutFromPool
  BY <1>2, RunningFacts DEF IInv
<1>4. Pool' = Pool /\ Bits' = Bits /\ Tracked' = Tracked /\ Layout'
  BY <1>2, <1>3 DEF layout, Pool, BitmapPages, Bits, Tracked, Layout
<1>5. CASE aligned /\ p < highest_page /\ p \in bitmap
  <2>1. /\ bitmap' = bitmap \ {p} /\ free_pages' = free_pages + 1
        /\ status' = status /\ p \in Pool \intersect bitmap
    BY <1>1, <1>5 DEF Free, Owned
  <2>2. /\ free_pages' = Cardinality(Pool \ bitmap')
        /\ free_pages' \in 0 .. MaxU64
    BY <1>2, <2>1, FreeCounts
  <2> QED
    BY <1>2, <1>3, <1>4, <2>1, <2>2
       DEF IInv, TypeOK, Running, Counts, HandedOutFromPool, layout
<1>6. CASE ~(aligned /\ p < highest_page /\ p \in bitmap)
  <2>1. status' = "panic" /\ UNCHANGED <<bitmap, free_pages>>
    BY <1>1, <1>6 DEF Free, Panic
  <2> QED
    BY <1>2, <1>3, <1>4, <2>1
       DEF IInv, TypeOK, Running, HandedOutFromPool, layout
<1> QED
  BY <1>5, <1>6

\* A panic or a stuttering step keeps the invariant.
LEMMA QuietInv ==
    ASSUME IInv, InitPanic \/ UNCHANGED vars
    PROVE  IInv'
<1>1. CASE UNCHANGED vars
  <2>1. UNCHANGED <<status, map, highest_page, bitmap_bytes, bm_first, bitmap,
          free_pages, usable_pages, allocator_pages, cursor, scanned, ret>>
    BY <1>1 DEF vars, layout
  <2> QED
    BY <2>1 DEF IInv, TypeOK, Running, Layout, Counts, Covered, HandedOutFromPool,
                Pool, BitmapPages, Bits, Tracked
<1>2. CASE InitPanic
  <2>1. /\ status = "boot" /\ status' = "panic"
        /\ UNCHANGED <<map, highest_page, bitmap_bytes, bm_first, bitmap,
             free_pages, usable_pages, allocator_pages, cursor, scanned, ret>>
    BY <1>2 DEF InitPanic, Panic, layout
  <2> QED
    BY <2>1 DEF IInv, TypeOK, Running, HandedOutFromPool, Pool, BitmapPages, Bits
<1> QED
  BY <1>1, <1>2

\* Every step keeps the invariant.
LEMMA NextIInv ==
    ASSUME NoTailPlacement, IInv, [Next]_vars
    PROVE  IInv'
<1>1. ~TailPlacement(map)
  BY DEF NoTailPlacement, IInv, TypeOK
<1> QED
  BY <1>1, InitStep, ScanStepInv, CallInv, FreeInv, QuietInv DEF Next, Halted

\* The invariant holds in every reachable state.
THEOREM Inductive ==
    ASSUME NoTailPlacement
    PROVE  Spec => []IInv
  BY InitIInv, NextIInv, PTL DEF Spec

(***************************************************************************)
(* What follows from it                                                    *)
(***************************************************************************)

\* Every variable keeps its type: the bitmap never gains a bit outside its
\* bytes and no counter wraps.
THEOREM TypeCorrect ==
    ASSUME NoTailPlacement
    PROVE  Spec => []TypeOK
<1>1. IInv => TypeOK
  BY DEF IInv
<1> QED
  BY <1>1, Inductive, PTL

\* Whatever sequence of pmm_alloc_page and pmm_free_page calls runs, a page
\* that is not usable, or belongs to the bitmap or the low 1 MiB, stays
\* marked, and no caller ever receives one.
THEOREM ReservedSafe ==
    ASSUME NoTailPlacement
    PROVE  Spec => [](ReservedStaysAllocated /\ HandedOutFromPool)
<1>1. IInv => ReservedStaysAllocated /\ HandedOutFromPool
  BY DEF IInv, ReservedStaysAllocated
<1> QED
  BY <1>1, Inductive, PTL

\* The free-page counter is exact.
THEOREM CountersExact ==
    ASSUME NoTailPlacement
    PROVE  Spec => []FreePagesExact
<1>1. ASSUME IInv, Running
      PROVE  /\ free_pages = Cardinality(Tracked \ bitmap)
             /\ allocator_pages = free_pages + Cardinality(Owned)
  <2>1. /\ Layout /\ Counts /\ Bits \ bitmap \subseteq Pool /\ Tracked \subseteq Bits
        /\ IsFiniteSet(Pool) /\ Cardinality(Pool) \in Nat
    BY <1>1, RunningFacts
  <2>2. Tracked \ bitmap = Pool \ bitmap
    BY <2>1 DEF Layout
  <2>3. Cardinality(Pool \ bitmap) = Cardinality(Pool) - Cardinality(Pool \intersect bitmap)
    BY <2>1, FS_Difference
  <2>4. Cardinality(Pool \intersect bitmap) \in Nat
    BY <2>1, FS_Intersection, FS_CardinalityType
  <2>5. free_pages = Cardinality(Pool \ bitmap) /\ allocator_pages = Cardinality(Pool)
    BY <2>1 DEF Counts
  <2>6. free_pages = Cardinality(Tracked \ bitmap)
    BY <2>2, <2>5
  <2>7. allocator_pages = free_pages + Cardinality(Pool \intersect bitmap)
    BY <2>1, <2>3, <2>4, <2>5
  <2> QED
    BY <2>6, <2>7 DEF Owned
<1>2. IInv => FreePagesExact
  BY <1>1 DEF FreePagesExact
<1> QED
  BY <1>2, Inductive, PTL

\* pmm_alloc_page gives up only when every page of the pool is taken.
LEMMA FullWhenExhausted ==
    ASSUME IInv, status = "scan", scanned >= highest_page
    PROVE  Pool \subseteq bitmap
<1>1. /\ Running /\ Covered
  BY DEF IInv, Running
<1>2. /\ Pool \subseteq Tracked /\ highest_page \in Nat /\ scanned \in Nat
      /\ cursor \in 0 .. highest_page
  BY <1>1, RunningFacts DEF Layout, IInv, TypeOK
<1> SUFFICES ASSUME NEW p \in Pool PROVE p \in bitmap
  OBVIOUS
<1>3. p \in Tracked /\ p \in Nat /\ p < highest_page
  BY <1>2 DEF Tracked
<1>4. (IF p < cursor THEN cursor - p ELSE cursor + highest_page - p) <= scanned
  BY <1>2, <1>3
<1> QED
  BY <1>1, <1>3, <1>4 DEF Covered

\* Next-fit with byte skipping misses no free page.
THEOREM ScanComplete ==
    ASSUME NoTailPlacement
    PROVE  Spec => []ExhaustedOnlyWhenFull
<1>1. IInv => ExhaustedOnlyWhenFull
  BY FullWhenExhausted DEF ExhaustedOnlyWhenFull
<1> QED
  BY <1>1, Inductive, PTL

(***************************************************************************)
(* Implementation of PageAllocator                                         *)
(***************************************************************************)

\* pmm_init places the bitmap in usable memory and hands nothing out.
LEMMA InitPlaces ==
    ASSUME IInv, PmmInit
    PROVE  (BitmapPages \subseteq UsablePages(map))' /\ Owned' = {}
<1>1. map' = map /\ map \in Maps
  BY DEF PmmInit, IInv, TypeOK
<1>2. PICK h \in Ends(map) : \E e \in Fitting(map, BitmapBytes(h)) : InitAt(h, e)
  BY DEF PmmInit
<1>3. PICK e \in Fitting(map, BitmapBytes(h)) : InitAt(h, e)
  BY <1>2
<1> DEFINE first == SkippedBase(map[e])
           n == PagesFor(BitmapBytes(h))
<1>4. /\ bitmap' = UnusableBits(h) \union TakenBack(h, first)
      /\ bm_first' = first /\ bitmap_bytes' = BitmapBytes(h)
  BY <1>3 DEF InitAt
<1>5. BitmapPages' = first .. (first + n - 1)
  BY <1>4 DEF BitmapPages
<1>6. ASSUME NEW p \in Pool' PROVE p \notin bitmap'
  <2>1. /\ p \in UsablePages(map) /\ p \notin first .. (first + n - 1)
        /\ p \notin LowArea
    BY <1>1, <1>5, <1>6 DEF Pool
  <2>2. p # 0
    BY <2>1, LowPagesAssumption DEF LowArea
  <2> QED
    BY <1>4, <2>1, <2>2 DEF UnusableBits, TakenBack
<1>7. ASSUME NEW p \in first .. (first + n - 1) PROVE p \in UsablePages(map)
  <2>1. e \in UsableEntries(map) /\ Fits(map[e], BitmapBytes(h))
    BY <1>3 DEF Fitting
  <2>2. e \in DOMAIN map
    BY <2>1 DEF UsableEntries
  <2>3. PICK b \in Nat, l \in Nat : b = map[e].base /\ l = map[e].length
    BY <1>1, <2>2, MapFacts
  <2>4. BitmapBytes(h) \in Nat
    <3>1. h \in Nat
      BY <1>1, MapFacts DEF Ends, UsableEntries
    <3> QED
      BY <3>1 DEF BitmapBytes
  <2>5. first \in Nat /\ first >= b
    BY <2>3, LowPagesAssumption DEF SkippedBase
  <2>6. SkippedLength(map[e]) = b + l - first
    BY <2>3 DEF SkippedLength
  <2>7. b + l - first \in Nat /\ (b + l - first) * PageBytes >= BitmapBytes(h)
    BY <2>1, <2>3, <2>5, <2>6 DEF Fits
  <2>8. n \in Nat /\ n <= b + l - first
    BY <2>4, <2>7, PagesForFits
  <2>9. p \in b .. (b + l - 1)
    BY <1>7, <2>3, <2>5, <2>8
  <2> QED
    BY <2>1, <2>3, <2>9 DEF UsablePages, Pages
<1> QED
  BY <1>1, <1>5, <1>6, <1>7 DEF Owned

\* pmm_init starts the abstract allocator with the pool it has set aside.
LEMMA StartRefines ==
    ASSUME IInv, IInv', PmmInit
    PROVE  PA!Start
<1>1. /\ status = "boot" /\ status' = "idle" /\ map' = map /\ ret' = ret
      /\ highest_page = 0 /\ Layout' /\ highest_page' # 0
  BY LowPagesAssumption DEF PmmInit, IInv, Running, Layout, TypeOK
<1>2. Pool' \subseteq UsablePages(map) /\ 0 \notin Pool'
  BY <1>1 DEF Pool, Layout
<1>3. Owned' = {}
  BY InitPlaces
<1> QED
  BY <1>1, <1>2, <1>3 DEF PA!Start

\* Every step of the allocator is a step of the abstract one, or none.
LEMMA StepRefines ==
    ASSUME IInv, IInv', [Next]_vars
    PROVE  [PA!Next]_(PA!vars)
<1> USE DEF PA!vars, PA!Next
<1>1. CASE PmmInit
  BY <1>1, StartRefines
<1>2. CASE InitPanic
  <2>1. status' = "panic" /\ UNCHANGED <<layout, bitmap, ret>>
    BY <1>2 DEF InitPanic, Panic
  <2> QED
    BY <2>1 DEF PA!Halt, layout, Pool, BitmapPages, Owned
<1>3. CASE AllocCall
  <2>1. status = "idle" /\ status' = "scan" /\ UNCHANGED <<layout, bitmap, ret>>
    BY <1>3 DEF AllocCall
  <2> QED
    BY <2>1 DEF layout, Pool, BitmapPages, Owned
<1>4. CASE ScanExhausted
  <2>1. /\ status = "scan" /\ status' = "idle" /\ ret' = 0
        /\ UNCHANGED <<layout, bitmap>> /\ Pool \subseteq bitmap
    BY <1>4, FullWhenExhausted DEF ScanExhausted
  <2>2. Owned = Pool /\ Pool' = Pool /\ Owned' = Owned
    BY <2>1 DEF Owned, layout, Pool, BitmapPages
  <2> QED
    BY <2>1, <2>2 DEF PA!Exhaust, layout
<1>5. CASE ScanStep
  <2>1. /\ status = "scan" /\ Running /\ UNCHANGED layout /\ Layout
        /\ highest_page # 0 /\ cursor \in Bits /\ Bits \ bitmap \subseteq Pool
    BY <1>5, RunningFacts DEF ScanStep, Running
  <2>2. Pool' = Pool
    BY <2>1 DEF layout, Pool, BitmapPages
  <2>3. ScanAt(cursor, bitmap)
    BY <1>5, <2>1 DEF ScanStep, BitsRead
  <2>4. CASE ScanTake(cursor, bitmap)
    <3>1. /\ cursor \notin bitmap /\ bitmap' = bitmap \union {cursor}
          /\ ret' = cursor /\ status' = "idle"
      BY <2>4 DEF ScanTake
    <3>2. ret' \in Pool \ Owned /\ Owned' = Owned \union {ret'}
      BY <2>1, <2>2, <3>1 DEF Owned
    <3>3. PA!Allocate
      BY <2>1, <2>2, <3>1, <3>2 DEF PA!Allocate, layout
    <3> QED
      BY <3>3
  <2>5. CASE ScanSkip(cursor, bitmap) \/ ScanBusy(cursor, bitmap)
    <3>1. UNCHANGED <<status, bitmap, ret>>
      BY <2>5 DEF ScanSkip, ScanBusy
    <3> QED
      BY <2>1, <2>2, <3>1 DEF Owned, layout
  <2> QED
    BY <2>3, <2>4, <2>5 DEF ScanAt
<1>6. CASE FreeCall
  <2>1. PICK p \in 0 .. highest_page, aligned \in BOOLEAN :
          /\ (aligned /\ p < highest_page /\ p \in bitmap) => p \in Owned
          /\ Free(p, aligned)
    BY <1>6 DEF FreeCall
  <2>2. /\ status = "idle" /\ UNCHANGED <<layout, ret>>
        /\ highest_page # 0
    BY <2>1, RunningFacts DEF Free, Running
  <2>3. Pool' = Pool
    BY <2>2 DEF layout, Pool, BitmapPages
  <2>4. CASE aligned /\ p < highest_page /\ p \in bitmap
    <3>1. p \in Owned /\ bitmap' = bitmap \ {p} /\ status' = status
      BY <2>1, <2>4 DEF Free
    <3>2. Owned' = Owned \ {p}
      BY <2>3, <3>1 DEF Owned
    <3>3. PA!Release
      BY <2>2, <2>3, <3>1, <3>2 DEF PA!Release, layout
    <3> QED
      BY <3>3
  <2>5. CASE ~(aligned /\ p < highest_page /\ p \in bitmap)
    <3>1. status' = "panic" /\ bitmap' = bitmap
      BY <2>1, <2>5 DEF Free, Panic
    <3> QED
      BY <2>2, <2>3, <3>1 DEF PA!Halt, Owned, layout
  <2> QED
    BY <2>4, <2>5
<1>7. CASE UNCHANGED vars
  BY <1>7 DEF vars, layout, Pool, BitmapPages, Owned
<1> QED
  BY <1>1, <1>2, <1>3, <1>4, <1>5, <1>6, <1>7 DEF Next, Halted

\* kernel/mm/pmm.c implements a page allocator: one owner per page, pages of
\* usable memory only, refusal only when none is left.
THEOREM Refinement ==
    ASSUME NoTailPlacement
    PROVE  Spec => RefinesPageAllocator
<1>1. Init => PA!Init
  BY DEF Init, PA!Init
<1>2. IInv /\ IInv' /\ [Next]_vars => [PA!Next]_(PA!vars)
  BY StepRefines
<1> QED
  BY <1>1, <1>2, Inductive, PTL DEF Spec, PA!Spec, RefinesPageAllocator

(***************************************************************************)
(* pmm_selftest, on the allocator the kernel starts with (Boot).  The      *)
(* source has ST_PAGES = 512.                                              *)
(***************************************************************************)

TestSize == ST_PAGES \in Nat \ {0}

\* What the self-test has got, and that it has nothing twice.
Distinct == \A j, k \in 1 .. Len(got) : got[j] = got[k] => j = k
Held == {got[k] : k \in 1 .. Len(got)}

\* The loop over pmm_alloc_page, before, during and after a call.
Allocating ==
    /\ Running /\ Distinct /\ before = allocator_pages
    /\ Len(got) < ST_PAGES /\ i \in {Len(got), Len(got) + 1}
    /\ status = "scan" => i = Len(got) + 1
    /\ status = "scan" \/ i = Len(got) => Owned = Held
    /\ status = "idle" /\ i = Len(got) + 1 =>
         IF ret = 0 THEN Owned = Held /\ Owned = Pool
         ELSE ret \notin Held /\ Owned = Held \union {ret}

\* The pages are there, and those with an index past n are still allocated.
Holding(n) ==
    /\ status = "idle" /\ Distinct /\ before = allocator_pages
    /\ Len(got) = ST_PAGES /\ ST_PAGES <= allocator_pages
    /\ Owned = {got[k] : k \in (n + 1) .. ST_PAGES}
Written(n) == \A k \in 1 .. n : word[got[k]] = got[k]

TTypes ==
    /\ got \in Seq(Nat) /\ i \in Nat
    /\ word \in [{0} \union UsablePages(map) -> Int]
    /\ step \in {"off", "alloc", "write", "verify", "free", "pass", "fail"}

Phases ==
    /\ status = "boot" => step = "off"
    /\ step = "off" =>
         got = << >> /\ status # "scan" /\ (status = "idle" => Owned = {})
    /\ step = "alloc" => Allocating
    /\ step = "write" => i < ST_PAGES /\ Holding(0) /\ Written(i)
    /\ step = "verify" => i = 0 /\ Holding(0) /\ Written(ST_PAGES)
    /\ step = "free" => i <= ST_PAGES /\ Holding(i)
    /\ step \in {"pass", "fail"} => status \in {"idle", "panic"}

TInv ==
    /\ TTypes /\ Phases /\ VerdictRight
    /\ Running => BitmapPages \subseteq UsablePages(map)

\* Distinct pages are as many as the array has entries.
LEMMA HeldCount ==
    ASSUME NEW s \in Seq(Nat),
           \A j, k \in 1 .. Len(s) : s[j] = s[k] => j = k
    PROVE  /\ IsFiniteSet({s[k] : k \in 1 .. Len(s)})
           /\ Cardinality({s[k] : k \in 1 .. Len(s)}) = Len(s)
<1> DEFINE S == 1 .. Len(s)
           T == {s[k] : k \in S}
           f == [k \in S |-> s[k]]
<1>1. f \in Surjection(S, T) /\ f \in Injection(S, T)
  BY DEF Surjection, Injection, IsInjective
<1>2. Len(s) \in Nat
  OBVIOUS
<1>3. IsFiniteSet(S) /\ Cardinality(S) = Len(s)
  <2>1. PICK n \in Int : n = Len(s) /\ n >= 0
    BY <1>2
  <2>2. IsFiniteSet(1 .. n) /\ Cardinality(1 .. n) = IF 1 > n THEN 0 ELSE n - 1 + 1
    BY FS_Interval
  <2>3. (IF 1 > n THEN 0 ELSE n - 1 + 1) = n
    BY <2>1
  <2> QED
    BY <2>1, <2>2, <2>3
<1> HIDE DEF S, T, f
<1>4. IsFiniteSet(T) /\ Cardinality(T) = Cardinality(S)
  BY <1>1, <1>3, FS_Surjection
<1> QED
  BY <1>3, <1>4 DEF S, T

\* The pages owned and the counters, when the pool is all owned or all free.
LEMMA OwnedCounts ==
    ASSUME IInv, Running
    PROVE  /\ allocator_pages = Cardinality(Pool) /\ IsFiniteSet(Pool)
           /\ Cardinality(Pool) \in Nat
           /\ Owned = Pool => free_pages = 0
           /\ Owned = {} => free_pages = allocator_pages
           /\ Owned \subseteq Pool /\ 0 \notin Pool /\ Pool \subseteq UsablePages(map)
           /\ Owned \subseteq bitmap /\ Pool \subseteq 0 .. (highest_page - 1)
<1>1. /\ allocator_pages = Cardinality(Pool) /\ IsFiniteSet(Pool)
      /\ free_pages = Cardinality(Pool \ bitmap) /\ Cardinality(Pool) \in Nat
      /\ 0 \notin Pool /\ Pool \subseteq 0 .. (highest_page - 1)
  BY RunningFacts DEF Counts, Layout, Tracked
<1>2. ASSUME Owned = Pool PROVE free_pages = 0
  <2>1. Pool \ bitmap = {}
    BY <1>2 DEF Owned
  <2> QED
    BY <1>1, <2>1, FS_EmptySet
<1>3. ASSUME Owned = {} PROVE free_pages = allocator_pages
  <2>1. Pool \ bitmap = Pool
    BY <1>3 DEF Owned
  <2> QED
    BY <1>1, <2>1
<1>4. Owned \subseteq Pool /\ Owned \subseteq bitmap /\ Pool \subseteq UsablePages(map)
  BY DEF Owned, Pool
<1> QED
  BY <1>1, <1>2, <1>3, <1>4

\* The allocator is not touched.
LEMMA SameAllocator ==
    ASSUME UNCHANGED vars
    PROVE  /\ UNCHANGED <<status, map, allocator_pages, free_pages, ret>>
           /\ Pool' = Pool /\ Owned' = Owned /\ BitmapPages' = BitmapPages
           /\ UsablePages(map)' = UsablePages(map) /\ (Running' <=> Running)
<1>1. UNCHANGED <<status, map, highest_page, bitmap_bytes, bm_first, bitmap,
          free_pages, allocator_pages, ret>>
  BY DEF vars, layout
<1>2. BitmapPages' = BitmapPages /\ UsablePages(map)' = UsablePages(map)
  BY <1>1 DEF BitmapPages
<1> QED
  BY <1>1, <1>2 DEF Pool, Owned, Running

LEMMA BeginStep ==
    ASSUME TestSize, IInv, TInv, Begin
    PROVE  TInv'
<1>1. /\ status = "idle" /\ step = "off" /\ step' = "alloc" /\ i' = 0
      /\ before' = free_pages /\ UNCHANGED vars /\ got' = got /\ word' = word
  BY DEF Begin
<1>2. /\ UNCHANGED <<status, map, allocator_pages, free_pages, ret>>
      /\ Pool' = Pool /\ Owned' = Owned /\ BitmapPages' = BitmapPages
      /\ UsablePages(map)' = UsablePages(map) /\ (Running' <=> Running)
  BY <1>1, SameAllocator
<1>3. Running /\ got = << >> /\ Owned = {} /\ TTypes
      /\ BitmapPages \subseteq UsablePages(map)
  BY <1>1 DEF TInv, Phases, Running
<1>4. free_pages = allocator_pages
  BY <1>3, OwnedCounts
<1>5. Len(got') = 0 /\ Held' = {} /\ Distinct'
  BY <1>1, <1>3 DEF Held, Distinct
<1>6. Allocating'
  BY <1>1, <1>2, <1>3, <1>4, <1>5 DEF Allocating, TestSize
<1>7. TTypes'
  BY <1>1, <1>2, <1>3 DEF TTypes
<1>8. Phases'
  BY <1>1, <1>2, <1>6 DEF Phases
<1>9. VerdictRight'
  BY <1>1 DEF VerdictRight
<1> QED
  BY <1>2, <1>3, <1>7, <1>8, <1>9 DEF TInv

LEMMA CallStep ==
    ASSUME TestSize, IInv, TInv, CallAlloc
    PROVE  TInv'
<1>1. /\ step = "alloc" /\ i = Len(got) /\ status = "idle" /\ status' = "scan"
      /\ i' = i + 1 /\ UNCHANGED <<step, got, before, word>>
      /\ UNCHANGED <<layout, bitmap, free_pages, allocator_pages, ret>>
  BY DEF CallAlloc, AllocCall
<1>2. /\ UNCHANGED <<map, highest_page, bitmap_bytes, bm_first>>
  BY <1>1 DEF layout
<1>3. BitmapPages' = BitmapPages /\ UsablePages(map)' = UsablePages(map)
  BY <1>2 DEF BitmapPages
<1>4. Owned' = Owned
  BY <1>1, <1>3 DEF Owned, Pool
<1>5. /\ Running /\ Running' /\ Allocating /\ TTypes
      /\ BitmapPages \subseteq UsablePages(map)
  BY <1>1 DEF TInv, Phases, Running
<1>6. Held' = Held /\ (Distinct' <=> Distinct) /\ Len(got') = Len(got)
  BY <1>1 DEF Held, Distinct
<1>7. Allocating'
  BY <1>1, <1>4, <1>5, <1>6 DEF Allocating
<1>8. TTypes'
  BY <1>1, <1>3, <1>5 DEF TTypes
<1>9. Phases'
  BY <1>1, <1>7 DEF Phases
<1>10. VerdictRight'
  BY <1>1 DEF VerdictRight
<1> QED
  BY <1>3, <1>5, <1>8, <1>9, <1>10 DEF TInv

\* The page the scan takes is none of those held; it gives up when the test
\* already holds them all.
LEMMA InAllocStep ==
    ASSUME TestSize, IInv, TInv, InAlloc
    PROVE  TInv'
<1>1. /\ status = "scan" /\ UNCHANGED <<step, i, got, before, word>>
      /\ UNCHANGED <<layout, allocator_pages>>
  BY DEF InAlloc, tvars, ScanStep, ScanExhausted
<1>2. UNCHANGED <<map, highest_page, bitmap_bytes, bm_first>>
  BY <1>1 DEF layout
<1>3. BitmapPages' = BitmapPages /\ UsablePages(map)' = UsablePages(map)
  BY <1>2 DEF BitmapPages
<1>4. Pool' = Pool
  BY <1>3 DEF Pool
<1>5. Running /\ TTypes /\ BitmapPages \subseteq UsablePages(map)
  BY <1>1 DEF TInv, Running
<1>6. step = "alloc"
  BY <1>1 DEF TInv, TTypes, Phases, Holding
<1>7. Allocating /\ i = Len(got) + 1 /\ Owned = Held
  BY <1>1, <1>6 DEF TInv, Phases, Allocating
<1>8. Held' = Held /\ (Distinct' <=> Distinct) /\ Len(got') = Len(got)
  BY <1>1 DEF Held, Distinct
<1>9. /\ cursor \in Bits /\ Bits \ bitmap \subseteq Pool /\ 0 \notin Pool
  BY <1>5, RunningFacts DEF Layout
<1>10. \/ Owned' = Owned /\ status' = "scan"
       \/ status' = "idle" /\ ret' # 0 /\ ret' \notin Owned /\ Owned' = Owned \union {ret'}
       \/ status' = "idle" /\ ret' = 0 /\ Owned' = Owned /\ Owned = Pool
  <2>1. CASE ScanExhausted
    <3>1. status' = "idle" /\ ret' = 0 /\ bitmap' = bitmap /\ Pool \subseteq bitmap
      BY <2>1, FullWhenExhausted DEF ScanExhausted
    <3> QED
      BY <1>4, <3>1 DEF Owned
  <2>2. CASE ScanStep
    <3>1. ScanAt(cursor, bitmap)
      BY <1>9, <2>2 DEF ScanStep, BitsRead
    <3>2. CASE ScanSkip(cursor, bitmap) \/ ScanBusy(cursor, bitmap)
      BY <1>1, <1>4, <3>2 DEF ScanSkip, ScanBusy, Owned
    <3>3. CASE ScanTake(cursor, bitmap)
      <4>1. /\ cursor \notin bitmap /\ bitmap' = bitmap \union {cursor}
            /\ ret' = cursor /\ status' = "idle"
        BY <3>3 DEF ScanTake
      <4>2. cursor \in Pool
        BY <1>9, <4>1
      <4> QED
        BY <1>4, <1>9, <4>1, <4>2 DEF Owned
    <3> QED
      BY <3>1, <3>2, <3>3 DEF ScanAt
  <2> QED
    BY <2>1, <2>2 DEF InAlloc
<1>11. Allocating'
  <2>1. Running' /\ Distinct' /\ before' = allocator_pages' /\ Len(got') < ST_PAGES
        /\ i' = Len(got') + 1
    BY <1>1, <1>7, <1>8, <1>10 DEF Allocating, Running
  <2>2. Len(got') \in Nat
    BY <1>1, <1>5 DEF TTypes
  <2>3. i' # Len(got')
    BY <2>1, <2>2
  <2> QED
    BY <1>4, <1>7, <1>8, <1>10, <2>1, <2>3 DEF Allocating
<1>12. TTypes'
  BY <1>1, <1>3, <1>5 DEF TTypes
<1>13. Phases'
  BY <1>1, <1>6, <1>10, <1>11 DEF Phases
<1>14. VerdictRight'
  BY <1>1, <1>6 DEF VerdictRight
<1> QED
  BY <1>3, <1>5, <1>12, <1>13, <1>14 DEF TInv

\* got[i] is stored.  With the last one the test holds ST_PAGES distinct pages
\* of the pool; without one it holds the whole pool, which is smaller.
LEMMA StoreStep ==
    ASSUME TestSize, IInv, TInv, Store
    PROVE  TInv'
<1>1. /\ step = "alloc" /\ status = "idle" /\ i = Len(got) + 1
      /\ got' = Append(got, ret) /\ UNCHANGED vars /\ before' = before
      /\ word' = word
  BY DEF Store
<1>2. /\ UNCHANGED <<status, map, allocator_pages, free_pages, ret>>
      /\ Pool' = Pool /\ Owned' = Owned /\ BitmapPages' = BitmapPages
      /\ UsablePages(map)' = UsablePages(map) /\ (Running' <=> Running)
  BY <1>1, SameAllocator
<1>3. Allocating /\ Running /\ TTypes /\ BitmapPages \subseteq UsablePages(map)
  BY <1>1 DEF TInv, Phases, Running
<1>4. got \in Seq(Nat) /\ Len(got) \in Nat /\ ret \in Nat
  BY <1>3 DEF TTypes, IInv, TypeOK
<1>5. /\ got' \in Seq(Nat) /\ Len(got') = Len(got) + 1
      /\ got'[Len(got) + 1] = ret /\ \A k \in 1 .. Len(got) : got'[k] = got[k]
  <2>1. /\ Append(got, ret) \in Seq(Nat) /\ Len(Append(got, ret)) = Len(got) + 1
        /\ Append(got, ret)[Len(got) + 1] = ret
        /\ \A k \in 1 .. Len(got) : Append(got, ret)[k] = got[k]
    BY <1>4
  <2> QED
    BY <1>1, <2>1
<1>6. /\ allocator_pages = Cardinality(Pool) /\ IsFiniteSet(Pool)
      /\ Cardinality(Pool) \in Nat
      /\ Owned = Pool => free_pages = 0
      /\ Owned \subseteq Pool
  BY <1>3, OwnedCounts
<1>7. CASE ret = 0
  <2>1. step' = "fail" /\ i' = i
    BY <1>1, <1>7 DEF Store
  <2>2. Owned = Held /\ Owned = Pool /\ Len(got) < ST_PAGES /\ Distinct
    BY <1>1, <1>3, <1>7 DEF Allocating
  <2>3. Cardinality(Held) = Len(got)
    BY <1>4, <2>2, HeldCount DEF Held, Distinct
  <2>4. VerdictRight'
    BY <1>2, <1>6, <2>1, <2>2, <2>3 DEF VerdictRight
  <2>5. TTypes'
    BY <1>1, <1>2, <1>3, <1>5, <2>1 DEF TTypes
  <2>6. Phases'
    BY <1>1, <1>2, <2>1 DEF Phases
  <2> QED
    BY <1>2, <1>3, <2>4, <2>5, <2>6 DEF TInv
<1>8. CASE ret # 0
  <2>1. /\ step' = IF i = ST_PAGES THEN "write" ELSE "alloc"
        /\ i' = IF i = ST_PAGES THEN 0 ELSE i
    BY <1>1, <1>8 DEF Store
  <2>2. /\ ret \notin Held /\ Owned = Held \union {ret} /\ Len(got) < ST_PAGES
        /\ Distinct /\ before = allocator_pages
    BY <1>1, <1>3, <1>8 DEF Allocating
  <2>3. \A k \in 1 .. Len(got') : k \in 1 .. Len(got) \/ k = Len(got) + 1
    BY <1>4, <1>5
  <2>4. Held' = Held \union {ret}
    <3>1. ASSUME NEW x \in Held' PROVE x \in Held \union {ret}
      BY <1>5, <2>3, <3>1 DEF Held
    <3>2. ret \in Held'
      <4>1. Len(got) + 1 \in 1 .. Len(got')
        BY <1>4, <1>5
      <4> QED
        BY <1>5, <4>1 DEF Held
    <3>3. ASSUME NEW x \in Held PROVE x \in Held'
      <4>1. PICK k \in 1 .. Len(got) : x = got[k]
        BY <3>3 DEF Held
      <4>2. k \in 1 .. Len(got') /\ got'[k] = x
        BY <1>4, <1>5, <4>1
      <4> QED
        BY <4>2 DEF Held
    <3> QED
      BY <3>1, <3>2, <3>3
  <2>5. Distinct'
    <3> SUFFICES ASSUME NEW j \in 1 .. Len(got'), NEW k \in 1 .. Len(got'),
                        got'[j] = got'[k]
                 PROVE  j = k
      BY DEF Distinct
    <3>1. \A l \in 1 .. Len(got) : got'[l] # ret
      BY <1>5, <2>2 DEF Held
    <3>2. CASE j \in 1 .. Len(got) /\ k \in 1 .. Len(got)
      BY <1>5, <2>2, <3>2 DEF Distinct
    <3>3. CASE j = Len(got) + 1 \/ k = Len(got) + 1
      BY <1>5, <2>3, <3>1, <3>3
    <3> QED
      BY <2>3, <3>2, <3>3
  <2>6. TTypes'
    BY <1>1, <1>2, <1>3, <1>5, <2>1 DEF TTypes
  <2>7. VerdictRight'
    BY <2>1 DEF VerdictRight
  <2>8. Phases'
    <3>1. CASE i = ST_PAGES
      <4>1. step' = "write" /\ i' = 0 /\ Len(got') = ST_PAGES
        BY <1>1, <1>5, <2>1, <3>1
      <4>2. Cardinality(Held') = ST_PAGES
        BY <1>5, <2>5, <4>1, HeldCount DEF Held, Distinct
      <4>3. Held' = Owned /\ ST_PAGES <= allocator_pages
        <5>1. Held' \in SUBSET Pool
          BY <1>6, <2>2, <2>4
        <5>2. Cardinality(Held') <= Cardinality(Pool)
          BY <1>6, <5>1, FS_Subset
        <5> QED
          BY <1>6, <2>2, <2>4, <4>2, <5>2
      <4>4. Held' = {got'[k] : k \in (0 + 1) .. ST_PAGES}
        BY <4>1 DEF Held
      <4>5. Holding(0)'
        BY <1>1, <1>2, <2>2, <2>5, <4>1, <4>3, <4>4 DEF Holding
      <4>6. Written(i)'
        BY <4>1 DEF Written
      <4> QED
        BY <1>1, <1>2, <4>1, <4>5, <4>6 DEF Phases, TestSize
    <3>2. CASE i # ST_PAGES
      <4>1. step' = "alloc" /\ i' = Len(got') /\ Len(got') < ST_PAGES
        BY <1>1, <1>4, <1>5, <2>1, <2>2, <3>2 DEF TestSize
      <4>2. i' # Len(got') + 1
        BY <1>4, <1>5, <4>1
      <4>3. Allocating'
        BY <1>1, <1>2, <1>3, <2>2, <2>4, <2>5, <4>1, <4>2 DEF Allocating
      <4> QED
        BY <1>1, <1>2, <4>1, <4>3 DEF Phases
    <3> QED
      BY <3>1, <3>2
  <2> QED
    BY <1>2, <1>3, <2>6, <2>7, <2>8 DEF TInv
<1> QED
  BY <1>7, <1>8

\* A page is written; none after it is the same page, so none before it is
\* overwritten.
LEMMA WriteStep ==
    ASSUME TestSize, IInv, TInv, Write
    PROVE  TInv'
<1>1. /\ step = "write" /\ UNCHANGED vars /\ got' = got /\ before' = before
      /\ word' = [word EXCEPT ![got[i + 1]] = got[i + 1]]
  BY DEF Write
<1>2. /\ UNCHANGED <<status, map, allocator_pages, free_pages, ret>>
      /\ Pool' = Pool /\ Owned' = Owned /\ BitmapPages' = BitmapPages
      /\ UsablePages(map)' = UsablePages(map) /\ (Running' <=> Running)
  BY <1>1, SameAllocator
<1>3. /\ i < ST_PAGES /\ Holding(0) /\ Written(i) /\ TTypes /\ Running
      /\ BitmapPages \subseteq UsablePages(map)
  BY <1>1 DEF TInv, Phases, Holding, Running
<1>4. /\ got \in Seq(Nat) /\ i \in Nat /\ Len(got) = ST_PAGES /\ ST_PAGES \in Nat
      /\ i + 1 \in 1 .. ST_PAGES
  BY <1>3 DEF TTypes, Holding, TestSize
<1>5. \A j, k \in 1 .. ST_PAGES : got[j] = got[k] => j = k
  BY <1>3, <1>4 DEF Holding, Distinct
<1>6. \A k \in 1 .. ST_PAGES : got[k] \in Owned /\ got[k] \in Nat
  BY <1>3, <1>4 DEF Holding
<1>7. got[i + 1] \in DOMAIN word /\ got[i + 1] \in Int
  BY <1>3, <1>4, <1>6, OwnedCounts DEF TTypes
<1>8. ~\E j \in (i + 2) .. ST_PAGES : got[j] = got[i + 1]
  BY <1>4, <1>5
<1>9. /\ step' = IF i + 1 = ST_PAGES THEN "verify" ELSE "write"
      /\ i' = IF i + 1 = ST_PAGES THEN 0 ELSE i + 1
  BY <1>8 DEF Write
<1>10. ASSUME NEW k \in 1 .. (i + 1) PROVE word'[got[k]] = got[k]
  <2>1. CASE k = i + 1
    BY <1>1, <1>3, <1>7, <2>1 DEF TTypes
  <2>2. CASE k # i + 1
    <3>1. k \in 1 .. i /\ k \in 1 .. ST_PAGES
      BY <1>4, <2>2
    <3>2. got[k] # got[i + 1] /\ word[got[k]] = got[k]
      BY <1>3, <1>4, <1>5, <2>2, <3>1 DEF Written
    <3>3. got[k] \in DOMAIN word
      BY <1>3, <1>6, <3>1, OwnedCounts DEF TTypes
    <3> QED
      BY <1>1, <1>3, <3>2, <3>3 DEF TTypes
  <2> QED
    BY <2>1, <2>2
<1>11. Holding(0)'
  BY <1>1, <1>2, <1>3 DEF Holding, Distinct
<1>12. TTypes'
  <2>1. word' \in [{0} \union UsablePages(map) -> Int]
    BY <1>1, <1>3, <1>7 DEF TTypes
  <2> QED
    BY <1>1, <1>2, <1>3, <1>4, <1>9, <2>1 DEF TTypes
<1>13. Phases'
  <2>1. CASE i + 1 = ST_PAGES
    <3>1. step' = "verify" /\ i' = 0 /\ Written(ST_PAGES)'
      BY <1>1, <1>9, <1>10, <2>1 DEF Written
    <3> QED
      BY <1>2, <1>3, <1>11, <3>1 DEF Phases, Holding
  <2>2. CASE i + 1 # ST_PAGES
    <3>1. step' = "write" /\ i' = i + 1 /\ i + 1 < ST_PAGES /\ Written(i)'
      <4>1. step' = "write" /\ i' = i + 1 /\ i + 1 < ST_PAGES
        BY <1>4, <1>9, <2>2
      <4> QED
        BY <1>1, <1>10, <4>1 DEF Written
    <3> QED
      BY <1>2, <1>3, <1>11, <3>1 DEF Phases, Holding
  <2> QED
    BY <2>1, <2>2
<1>14. VerdictRight'
  BY <1>9 DEF VerdictRight
<1> QED
  BY <1>2, <1>3, <1>12, <1>13, <1>14 DEF TInv

LEMMA VerifyStep ==
    ASSUME TestSize, IInv, TInv, Verify
    PROVE  TInv'
<1>1. /\ step = "verify" /\ UNCHANGED vars /\ i' = i /\ got' = got
      /\ before' = before /\ word' = word
  BY DEF Verify
<1>2. /\ UNCHANGED <<status, map, allocator_pages, free_pages, ret>>
      /\ Pool' = Pool /\ Owned' = Owned /\ BitmapPages' = BitmapPages
      /\ UsablePages(map)' = UsablePages(map) /\ (Running' <=> Running)
  BY <1>1, SameAllocator
<1>3. /\ i = 0 /\ Holding(0) /\ Written(ST_PAGES) /\ TTypes /\ Running
      /\ BitmapPages \subseteq UsablePages(map)
  BY <1>1 DEF TInv, Phases, Holding, Running
<1>4. step' = "free"
  BY <1>3 DEF Verify, Written
<1>5. Holding(0)'
  BY <1>1, <1>2, <1>3 DEF Holding, Distinct
<1>6. TTypes'
  BY <1>1, <1>2, <1>3, <1>4 DEF TTypes
<1>7. Holding(i)' /\ i' <= ST_PAGES
  BY <1>1, <1>3, <1>5 DEF TestSize
<1>8. Phases'
  BY <1>2, <1>3, <1>4, <1>7 DEF Phases, Holding
<1>9. VerdictRight'
  BY <1>4 DEF VerdictRight
<1> QED
  BY <1>2, <1>3, <1>6, <1>8, <1>9 DEF TInv

\* The page to free is still allocated, so pmm_free_page does not panic.
LEMMA FreeNextStep ==
    ASSUME TestSize, IInv, TInv, FreeNext
    PROVE  FreeCall /\ TInv'
<1>1. /\ step = "free" /\ i < ST_PAGES /\ Free(got[i + 1], TRUE)
      /\ i' = i + 1 /\ UNCHANGED <<step, got, before, word>>
  BY DEF FreeNext
<1>2. /\ Holding(i) /\ status = "idle" /\ Running /\ TTypes
      /\ BitmapPages \subseteq UsablePages(map)
  BY <1>1 DEF TInv, Phases, Holding, Running
<1>3. /\ got \in Seq(Nat) /\ i \in Nat /\ Len(got) = ST_PAGES /\ ST_PAGES \in Nat
      /\ Owned = {got[k] : k \in (i + 1) .. ST_PAGES}
      /\ \A j, k \in 1 .. ST_PAGES : got[j] = got[k] => j = k
  BY <1>2 DEF TTypes, Holding, TestSize, Distinct
<1>4. PICK p : p = got[i + 1]
  OBVIOUS
<1>5. p \in Owned
  BY <1>1, <1>3, <1>4
<1>6. p \in Pool /\ p \in bitmap /\ p \in 0 .. (highest_page - 1)
  BY <1>2, <1>5, OwnedCounts
<1>7. highest_page \in Nat
  BY <1>2, RunningFacts
<1>8. p < highest_page /\ p \in 0 .. highest_page
  BY <1>6, <1>7
<1>9. FreeCall
  BY <1>1, <1>4, <1>5, <1>8 DEF FreeCall
<1>10. /\ bitmap' = bitmap \ {p} /\ status' = status /\ UNCHANGED layout
       /\ allocator_pages' = allocator_pages
  BY <1>1, <1>4, <1>6, <1>8 DEF Free
<1>11. UNCHANGED <<map, highest_page, bitmap_bytes, bm_first>>
  BY <1>10 DEF layout
<1>12. BitmapPages' = BitmapPages /\ UsablePages(map)' = UsablePages(map)
  BY <1>11 DEF BitmapPages
<1>13. Owned' = Owned \ {p}
  BY <1>10, <1>12 DEF Owned, Pool
<1>14. Owned' = {got[k] : k \in (i + 2) .. ST_PAGES}
  <2>1. ASSUME NEW x \in Owned' PROVE x \in {got[k] : k \in (i + 2) .. ST_PAGES}
    <3>1. PICK k \in (i + 1) .. ST_PAGES : x = got[k]
      BY <1>3, <1>13, <2>1
    <3>2. k # i + 1
      BY <1>4, <1>13, <2>1, <3>1
    <3>3. k \in (i + 2) .. ST_PAGES
      BY <1>3, <3>2
    <3> QED
      BY <3>1, <3>3
  <2>2. ASSUME NEW k \in (i + 2) .. ST_PAGES PROVE got[k] \in Owned'
    <3>1. k \in (i + 1) .. ST_PAGES /\ k \in 1 .. ST_PAGES /\ k # i + 1
          /\ i + 1 \in 1 .. ST_PAGES
      BY <1>1, <1>3
    <3>2. got[k] # p
      BY <1>3, <1>4, <3>1
    <3> QED
      BY <1>3, <1>13, <3>1, <3>2
  <2> QED
    BY <2>1, <2>2
<1>15. Holding(i)'
  <2>1. i' + 1 = i + 2
    BY <1>1, <1>3
  <2>2. (Owned = {got[k] : k \in (i + 1) .. ST_PAGES})'
    BY <1>1, <1>14, <2>1
  <2>3. /\ status' = "idle" /\ Distinct' /\ before' = allocator_pages'
        /\ Len(got') = ST_PAGES /\ ST_PAGES <= allocator_pages'
    BY <1>1, <1>2, <1>10 DEF Holding, Distinct
  <2> QED
    BY <2>2, <2>3 DEF Holding
<1>16. i' <= ST_PAGES /\ i' \in Nat
  BY <1>1, <1>3
<1>17. TTypes'
  BY <1>1, <1>2, <1>12, <1>16 DEF TTypes
<1>18. Phases'
  BY <1>1, <1>2, <1>10, <1>15, <1>16 DEF Phases
<1>19. VerdictRight'
  BY <1>1 DEF VerdictRight
<1> QED
  BY <1>2, <1>9, <1>12, <1>17, <1>18, <1>19 DEF TInv

\* The leak check finds every page back.
LEMMA CompareStep ==
    ASSUME TestSize, IInv, TInv, Compare
    PROVE  TInv'
<1>1. /\ step = "free" /\ status = "idle" /\ i = ST_PAGES /\ UNCHANGED vars
      /\ UNCHANGED <<i, got, before, word>>
      /\ step' = IF free_pages = before THEN "pass" ELSE "fail"
  BY DEF Compare
<1>2. /\ UNCHANGED <<status, map, allocator_pages, free_pages, ret>>
      /\ Pool' = Pool /\ Owned' = Owned /\ BitmapPages' = BitmapPages
      /\ UsablePages(map)' = UsablePages(map) /\ (Running' <=> Running)
  BY <1>1, SameAllocator
<1>3. /\ Holding(i) /\ Running /\ TTypes /\ BitmapPages \subseteq UsablePages(map)
  BY <1>1 DEF TInv, Phases, Running
<1>4. Owned = {}
  <2>1. (i + 1) .. ST_PAGES = {}
    BY <1>1, <1>3 DEF TestSize, TTypes
  <2> QED
    BY <1>3, <2>1 DEF Holding
<1>5. free_pages = allocator_pages /\ before = allocator_pages
  BY <1>3, <1>4, OwnedCounts DEF Holding
<1>6. step' = "pass" /\ ST_PAGES <= allocator_pages /\ allocator_pages \in Nat
  BY <1>1, <1>3, <1>5, OwnedCounts DEF Holding
<1>7. VerdictRight'
  BY <1>2, <1>4, <1>5, <1>6 DEF VerdictRight, TestSize
<1>8. TTypes'
  BY <1>1, <1>2, <1>3, <1>6 DEF TTypes
<1>9. Phases'
  BY <1>1, <1>2, <1>6 DEF Phases
<1> QED
  BY <1>2, <1>3, <1>7, <1>8, <1>9 DEF TInv

\* pmm_init, before the test begins.
LEMMA StartStep ==
    ASSUME IInv, TInv, Boot
    PROVE  TInv'
<1>1. status = "boot" /\ UNCHANGED <<step, i, got, before, word>> /\ map' = map
  BY DEF Boot, PmmInit, InitPanic, tvars, layout
<1>2. step = "off" /\ got = << >> /\ TTypes
  BY <1>1 DEF TInv, Phases
<1>3. UsablePages(map)' = UsablePages(map)
  BY <1>1
<1>4. TTypes'
  BY <1>1, <1>2, <1>3 DEF TTypes
<1>5. VerdictRight'
  BY <1>1, <1>2 DEF VerdictRight
<1>6. CASE InitPanic
  <2>1. status' = "panic"
    BY <1>6 DEF InitPanic, Panic
  <2> QED
    BY <1>1, <1>2, <1>4, <1>5, <2>1 DEF TInv, Phases, Running
<1>7. CASE PmmInit
  <2>1. status' = "idle" /\ Owned' = {} /\ (BitmapPages \subseteq UsablePages(map))'
    BY <1>7, InitPlaces DEF PmmInit
  <2> QED
    BY <1>1, <1>2, <1>4, <1>5, <2>1 DEF TInv, Phases
<1> QED
  BY <1>6, <1>7 DEF Boot

\* kmain's panic leaves everything but the status as it is.
LEMMA PanicStep ==
    ASSUME IInv, TInv, status = "idle", step = "fail", Panic,
           UNCHANGED <<layout, bitmap, free_pages, usable_pages, allocator_pages,
                       cursor, scanned, ret>>,
           UNCHANGED <<step, i, got, before, word>>
    PROVE  IInv' /\ TInv'
<1>1. UNCHANGED <<map, highest_page, bitmap_bytes, bm_first>> /\ status' = "panic"
  BY DEF layout, Panic
<1>2. BitmapPages' = BitmapPages /\ UsablePages(map)' = UsablePages(map)
  BY <1>1 DEF BitmapPages
<1>3. Pool' = Pool /\ Owned' = Owned
  BY <1>2 DEF Pool, Owned
<1>4. IInv'
  <2>1. Bits' = Bits
    BY <1>1 DEF Bits
  <2> QED
    BY <1>1, <1>3, <2>1 DEF IInv, TypeOK, Running, HandedOutFromPool
<1>5. TTypes'
  BY <1>1, <1>2 DEF TTypes, TInv
<1>6. VerdictRight'
  BY <1>1, <1>3 DEF VerdictRight, TInv
<1> QED
  BY <1>1, <1>4, <1>5, <1>6 DEF TInv, Phases, Running

\* Nothing happens.
LEMMA StutterStep ==
    ASSUME TInv, UNCHANGED vars, UNCHANGED <<step, i, got, before, word>>
    PROVE  TInv'
<1>1. /\ UNCHANGED <<status, map, allocator_pages, free_pages, ret>>
      /\ Pool' = Pool /\ Owned' = Owned /\ BitmapPages' = BitmapPages
      /\ UsablePages(map)' = UsablePages(map) /\ (Running' <=> Running)
  BY SameAllocator
<1>2. Held' = Held /\ (Distinct' <=> Distinct)
  BY DEF Held, Distinct
<1>3. TTypes'
  BY <1>1 DEF TInv, TTypes
<1>4. Allocating => Allocating'
  BY <1>1, <1>2 DEF Allocating
<1>5. \A n : Holding(n) => Holding(n)'
  BY <1>1, <1>2 DEF Holding
<1>6. \A n : Written(n) => Written(n)'
  BY DEF Written
<1>7. Phases'
  BY <1>1, <1>4, <1>5, <1>6 DEF TInv, Phases
<1>8. VerdictRight'
  BY <1>1 DEF TInv, VerdictRight
<1> QED
  BY <1>1, <1>3, <1>7, <1>8 DEF TInv

\* The self-test and the allocator under it keep both invariants, on a map
\* that pmm_init handles.
LEMMA SelftestInv ==
    ASSUME TestSize, IInv, TInv, ~TailPlacement(map), Boot \/ Selftest
    PROVE  IInv' /\ TInv'
<1>1. CASE Boot
  BY <1>1, StartStep, InitStep, QuietInv DEF Boot
<1>2. CASE Begin
  BY <1>2, BeginStep, QuietInv DEF Begin
<1>3. CASE CallAlloc
  BY <1>3, CallStep, CallInv DEF CallAlloc
<1>4. CASE InAlloc
  BY <1>4, InAllocStep, CallInv, ScanStepInv DEF InAlloc
<1>5. CASE Store
  BY <1>5, StoreStep, QuietInv DEF Store
<1>6. CASE Write
  BY <1>6, WriteStep, QuietInv DEF Write
<1>7. CASE Verify
  BY <1>7, VerifyStep, QuietInv DEF Verify
<1>8. CASE FreeNext
  BY <1>8, FreeNextStep, FreeInv
<1>9. CASE Compare
  BY <1>9, CompareStep, QuietInv DEF Compare
<1> QED
  BY <1>1, <1>2, <1>3, <1>4, <1>5, <1>6, <1>7, <1>8, <1>9 DEF Selftest

================================================================================
