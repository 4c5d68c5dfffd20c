---------------------------- MODULE MemoryMapProofs ----------------------------
(***************************************************************************)
(* The map translator on every report of every firmware, for every load    *)
(* plan and output array: what it writes is sorted and disjoint, and what  *)
(* it accepts is a valid report, each page of it with its true owner.      *)
(***************************************************************************)
EXTENDS MemoryMap, FiniteSetTheorems, SequenceTheorems, WellFoundedInduction, TLAPS

(***************************************************************************)
(* Numbers                                                                 *)
(***************************************************************************)

LEMMA PageSize == PAGE_SIZE \in Nat /\ PAGE_SIZE > 0 /\ MaxU64 \in Nat
  BY SizeAssumption

\* Whole pages: multiples, sums and differences are aligned.
LEMMA AlignedMultiple ==
    ASSUME NEW n \in Int
    PROVE  Aligned(n * PAGE_SIZE)
  BY PageSize DEF Aligned

LEMMA AlignedQuotient ==
    ASSUME NEW a \in Int, Aligned(a)
    PROVE  \E q \in Int : a = q * PAGE_SIZE
<1>1. a \div PAGE_SIZE \in Int /\ a = PAGE_SIZE * (a \div PAGE_SIZE)
  BY PageSize DEF Aligned
<1>2. PAGE_SIZE * (a \div PAGE_SIZE) = (a \div PAGE_SIZE) * PAGE_SIZE
  BY <1>1, PageSize
<1> QED
  BY <1>1, <1>2

LEMMA AlignedSums ==
    ASSUME NEW a \in Int, NEW b \in Int, Aligned(a), Aligned(b)
    PROVE  Aligned(a + b) /\ Aligned(a - b)
<1>1. PICK p \in Int : a = p * PAGE_SIZE
  BY AlignedQuotient
<1>2. PICK q \in Int : b = q * PAGE_SIZE
  BY AlignedQuotient
<1>3. a + b = (p + q) * PAGE_SIZE /\ a - b = (p - q) * PAGE_SIZE
  BY <1>1, <1>2, PageSize
<1>4. p + q \in Int /\ p - q \in Int
  OBVIOUS
<1> QED
  BY <1>3, <1>4, AlignedMultiple

\* Every set of natural numbers has a least element, and a bounded one a
\* greatest.
LEMMA LeastOf ==
    ASSUME NEW T, T \subseteq Nat, T # {}
    PROVE  \E x \in T : \A y \in T : x <= y
<1>1. PICK x \in T : \A y \in T : ~(<<y, x>> \in OpToRel(<, Nat))
  BY NatLessThanWellFounded, WFMin
<1>2. ASSUME NEW y \in T, y < x PROVE <<y, x>> \in OpToRel(<, Nat)
  <2>1. <<y, x>> \in Nat \X Nat /\ <<y, x>>[1] < <<y, x>>[2]
    BY <1>2
  <2> QED BY <2>1 DEF OpToRel
<1>3. \A y \in T : ~(y < x)
  BY <1>1, <1>2, Zenon
<1>4. \A y \in T : y \in Nat /\ x \in Nat
  OBVIOUS
<1> QED
  BY <1>3, <1>4

LEMMA GreatestIs ==
    ASSUME NEW n \in Nat, NEW S, S \subseteq 0 .. n, S # {}
    PROVE  Max(S) \in S /\ \A x \in S : x <= Max(S)
<1> DEFINE T == {n - y : y \in S}
<1>1. T \subseteq Nat /\ T # {}
  <2>1. \A y \in S : n - y \in Nat
    OBVIOUS
  <2> QED BY <2>1
<1>2. PICK t \in T : \A u \in T : t <= u
  BY <1>1, LeastOf
<1>3. PICK x \in S : t = n - x
  BY <1>2
<1>4. ASSUME NEW y \in S PROVE x >= y
  <2>1. t <= n - y
    BY <1>2
  <2>2. x \in 0 .. n /\ y \in 0 .. n
    BY Zenon
  <2> QED BY <1>3, <2>1, <2>2
<1>5. Max(S) \in S /\ \A y \in S : Max(S) >= y
  BY <1>3, <1>4 DEF Max
<1>6. ASSUME NEW y \in S PROVE y \in Nat
  <2>1. y \in 0 .. n
    BY Zenon
  <2> QED BY <2>1
<1> QED
  BY <1>5, <1>6

LEMMA MaxOfTwo ==
    ASSUME NEW a \in Int, NEW b \in Int
    PROVE  Max({a, b}) = IF a >= b THEN a ELSE b
<1> DEFINE m == IF a >= b THEN a ELSE b
<1>1. m \in {a, b} /\ \A y \in {a, b} : m >= y
  OBVIOUS
<1>2. \A x \in {a, b} : (\A y \in {a, b} : x >= y) => x = m
  OBVIOUS
<1> HIDE DEF m
<1>3. Max({a, b}) = m
  BY <1>1, <1>2 DEF Max
<1> QED
  BY <1>3 DEF m

LEMMA MinOfTwo ==
    ASSUME NEW a \in Int, NEW b \in Int
    PROVE  Min({a, b}) = IF a <= b THEN a ELSE b
<1> DEFINE m == IF a <= b THEN a ELSE b
<1>1. m \in {a, b} /\ \A y \in {a, b} : m <= y
  OBVIOUS
<1>2. \A x \in {a, b} : (\A y \in {a, b} : x <= y) => x = m
  OBVIOUS
<1> HIDE DEF m
<1>3. Min({a, b}) = m
  BY <1>1, <1>2 DEF Min
<1> QED
  BY <1>3 DEF m

(***************************************************************************)
(* append                                                                  *)
(***************************************************************************)

MemType == {"USABLE", "LOADER", "FIRMWARE", "ACPI_RECLAIM", "ACPI_NVS", "MMIO",
            "RESERVED", "KERNEL"}
Entry == [base : Nat, length : Nat, type : MemType]

\* OutputContract, of an output array o.
Sound(o) ==
    /\ Len(o) <= out_capacity
    /\ \A k \in DOMAIN o :
         /\ Aligned(o[k].base) /\ Aligned(o[k].length)
         /\ o[k].length > 0
         /\ o[k].base + o[k].length <= MaxU64
    /\ \A j, k \in DOMAIN o : j < k => o[j].base + o[j].length <= o[k].base
    /\ \A k \in 1 .. (Len(o) - 1) :
         o[k].type = o[k + 1].type => o[k].base + o[k].length < o[k + 1].base

\* What an output array says of the byte at a.
In(o, k, a) == Covers(o[k].base, o[k].base + o[k].length, a)
At(o, a) == {o[k].type : k \in {k \in DOMAIN o : In(o, k, a)}}

\* Joining [base, end) to the last range.
Joined(o, base, end) == [o EXCEPT ![Len(o)].length = @ + (end - base)]

LEMMA JoinSound ==
    ASSUME out_capacity \in Nat,
           NEW o \in Seq(Entry), Sound(o), o # << >>,
           NEW base \in Nat, NEW end \in Nat, Aligned(base), Aligned(end),
           base < end, end <= MaxU64, LastEnd(o) = base,
           NEW r, r = Joined(o, base, end)
    PROVE  r \in Seq(Entry) /\ Sound(r)
<1>1. PICK n \in Nat : n = Len(o) /\ n > 0 /\ DOMAIN o = 1 .. n /\ n \in DOMAIN o
  OBVIOUS
<1>2. /\ o[n] \in Entry /\ o[n].base \in Nat /\ o[n].length \in Nat
      /\ o[n].base + o[n].length = base
  <2>1. o[n] \in Entry
    BY <1>1
  <2> QED BY <1>1, <2>1 DEF LastEnd, Entry
<1>3. /\ DOMAIN r = 1 .. n /\ Len(r) = n
      /\ r[n] = [o[n] EXCEPT !.length = @ + (end - base)]
      /\ \A k \in 1 .. n : k # n => r[k] = o[k]
  BY <1>1 DEF Joined
<1>4. /\ r[n].base = o[n].base /\ r[n].type = o[n].type
      /\ r[n].length = o[n].length + (end - base)
  BY <1>2, <1>3 DEF Entry
<1>5. r \in Seq(Entry)
  <2>1. PICK x \in Nat : x = o[n].length + (end - base)
    BY <1>2
  <2>2. r[n] \in Entry
    BY <1>2, <1>3, <2>1 DEF Entry
  <2>3. \A k \in 1 .. n : r[k] \in Entry
    BY <1>1, <1>3, <2>2
  <2>4. r = [k \in 1 .. n |-> r[k]]
    BY <1>1 DEF Joined
  <2> QED BY <2>3, <2>4
<1>6. Aligned(r[n].length)
  <2>1. Aligned(o[n].length)
    BY <1>1 DEF Sound
  <2>4. Aligned(end - base) /\ end - base \in Int
    BY AlignedSums
  <2>2. o[n].length \in Int
    BY <1>2
  <2>3. Aligned(o[n].length + (end - base))
    BY <2>1, <2>2, <2>4, AlignedSums, Zenon
  <2> QED BY <1>4, <2>3
<1>7. r[n].base + r[n].length = end /\ r[n].length > 0
  BY <1>2, <1>4
<1>8. \A k \in 1 .. n : r[k].base = o[k].base /\ r[k].type = o[k].type
  <2> TAKE k \in 1 .. n
  <2> QED BY <1>3, <1>4
<1>9. /\ n <= out_capacity
      /\ \A k \in 1 .. n : /\ Aligned(o[k].base) /\ Aligned(o[k].length)
                           /\ o[k].length > 0 /\ o[k].base + o[k].length <= MaxU64
      /\ \A j, k \in 1 .. n : j < k => o[j].base + o[j].length <= o[k].base
      /\ \A k \in 1 .. (n - 1) :
           o[k].type = o[k + 1].type => o[k].base + o[k].length < o[k + 1].base
  BY <1>1 DEF Sound
<1>10. ASSUME NEW k \in 1 .. n
       PROVE  /\ Aligned(r[k].base) /\ Aligned(r[k].length)
              /\ r[k].length > 0 /\ r[k].base + r[k].length <= MaxU64
  <2>1. CASE k = n
    <3>1. Aligned(o[k].base) /\ r[k].base = o[k].base
      BY <1>4, <1>9, <2>1, Zenon
    <3>2. Aligned(r[k].base) /\ Aligned(r[k].length)
      BY <1>6, <2>1, <3>1, Zenon
    <3> QED BY <1>7, <2>1, <3>2
  <2>2. CASE k # n
    <3>1. r[k] = o[k]
      BY <1>3, <2>2
    <3> QED BY <1>9, <3>1, Zenon
  <2> QED BY <2>1, <2>2
<1>11. ASSUME NEW j \in 1 .. n, NEW k \in 1 .. n, j < k
       PROVE  r[j].base + r[j].length <= r[k].base
  <2>1. r[j] = o[j]
    BY <1>3, <1>11
  <2>2. r[k].base = o[k].base
    BY <1>8
  <2>3. o[j].base + o[j].length <= o[k].base
    BY <1>9, <1>11, Zenon
  <2> QED BY <2>1, <2>2, <2>3
<1>12. ASSUME NEW k \in 1 .. (n - 1), r[k].type = r[k + 1].type
       PROVE  r[k].base + r[k].length < r[k + 1].base
  <2>1. k \in 1 .. n /\ k + 1 \in 1 .. n /\ k < n
    OBVIOUS
  <2>2. r[k] = o[k]
    BY <1>3, <2>1
  <2>3. r[k + 1].base = o[k + 1].base /\ r[k + 1].type = o[k + 1].type
    BY <1>8, <2>1
  <2>4. o[k].base + o[k].length < o[k + 1].base
    BY <1>9, <1>12, <2>2, <2>3, Zenon
  <2> QED BY <2>2, <2>3, <2>4
<1> QED
  BY <1>3, <1>5, <1>9, <1>10, <1>11, <1>12 DEF Sound

\* Adding a range of its own.
LEMMA AddSound ==
    ASSUME out_capacity \in Nat,
           NEW o \in Seq(Entry), Sound(o), Len(o) # out_capacity,
           NEW e \in Entry, Aligned(e.base), Aligned(e.length), e.length > 0,
           e.base + e.length <= MaxU64,
           o # << >> => LastEnd(o) <= e.base /\ ~Joins(o, e.base, e.type)
    PROVE  Append(o, e) \in Seq(Entry) /\ Sound(Append(o, e))
<1>0. PICK r : r = Append(o, e)
  OBVIOUS
<1>1. PICK n \in Nat : n = Len(o) /\ DOMAIN o = 1 .. n /\ n < out_capacity
  BY DEF Sound
<1>2. /\ r \in Seq(Entry) /\ Len(r) = n + 1 /\ DOMAIN r = 1 .. (n + 1)
      /\ r[n + 1] = e /\ \A k \in 1 .. n : r[k] = o[k]
  BY <1>0, <1>1
<1>3. e.base \in Nat /\ e.length \in Nat
  BY DEF Entry
<1>4. ASSUME NEW k \in 1 .. n PROVE o[k].base + o[k].length <= e.base
  <2>1. /\ n > 0 /\ n \in DOMAIN o /\ o[n].base + o[n].length <= e.base
        /\ o[k] \in Entry /\ o[n] \in Entry
    <3>1. n \in 1 .. n /\ o # << >>
      BY <1>1, <1>4
    <3> QED BY <1>1, <1>4, <3>1 DEF LastEnd
  <2>2. CASE k = n
    BY <2>1, <2>2
  <2>3. CASE k < n
    <3>1. o[k].base + o[k].length <= o[n].base
      BY <1>1, <1>4, <2>1, <2>3 DEF Sound
    <3>2. /\ o[k].base \in Nat /\ o[k].length \in Nat
          /\ o[n].base \in Nat /\ o[n].length \in Nat
      BY <2>1 DEF Entry
    <3>3. o[n].base + o[n].length <= e.base
      BY <2>1
    <3>4. \A x, y, z, w, v \in Nat : x + y <= z /\ z + w <= v => x + y <= v
      OBVIOUS
    <3> QED BY <1>3, <3>1, <3>2, <3>3, <3>4, Zenon
  <2> QED BY <1>1, <1>4, <2>2, <2>3
<1>5. n > 0 /\ o[n].type = e.type => o[n].base + o[n].length < e.base
  <2> SUFFICES ASSUME n > 0, o[n].type = e.type PROVE o[n].base + o[n].length < e.base
    OBVIOUS
  <2>1. n \in DOMAIN o /\ o # << >> /\ o[n] \in Entry
    BY <1>1
  <2>2. o[n].base + o[n].length <= e.base /\ o[n].base + o[n].length # e.base
    BY <1>1, <2>1 DEF LastEnd, Joins
  <2>3. o[n].base \in Nat /\ o[n].length \in Nat
    BY <2>1 DEF Entry
  <2> QED BY <1>3, <2>2, <2>3
<1>6. \A k \in 1 .. (n + 1) : /\ Aligned(r[k].base) /\ Aligned(r[k].length)
                              /\ r[k].length > 0 /\ r[k].base + r[k].length <= MaxU64
  <2> TAKE k \in 1 .. (n + 1)
  <2>1. CASE k = n + 1
    BY <1>1, <1>2, <1>3, <2>1
  <2>2. CASE k \in 1 .. n
    BY <1>1, <1>2, <2>2 DEF Sound
  <2> QED BY <1>1, <2>1, <2>2
<1>7. \A j, k \in 1 .. (n + 1) : j < k => r[j].base + r[j].length <= r[k].base
  <2> TAKE j, k \in 1 .. (n + 1)
  <2> SUFFICES ASSUME j < k PROVE r[j].base + r[j].length <= r[k].base
    OBVIOUS
  <2>1. j \in 1 .. n
    BY <1>1
  <2>2. CASE k = n + 1
    BY <1>1, <1>2, <1>4, <2>1, <2>2
  <2>3. CASE k \in 1 .. n
    BY <1>1, <1>2, <2>1, <2>3 DEF Sound
  <2> QED BY <1>1, <2>2, <2>3
<1>8. ASSUME NEW k \in 1 .. n, r[k].type = r[k + 1].type
      PROVE  r[k].base + r[k].length < r[k + 1].base
  <2>1. CASE k = n
    BY <1>1, <1>2, <1>5, <1>8, <2>1
  <2>2. CASE k < n
    <3>1. k + 1 \in 1 .. n /\ k \in 1 .. (Len(o) - 1)
      BY <1>1, <2>2
    <3> QED BY <1>2, <1>8, <3>1 DEF Sound
  <2> QED BY <1>1, <2>1, <2>2
<1>9. Len(r) <= out_capacity /\ Len(r) - 1 = n
  BY <1>1, <1>2
<1> QED
  BY <1>0, <1>2, <1>6, <1>7, <1>8, <1>9 DEF Sound

\* The ranges of a sound array end where its last one does.
LEMMA NothingBehind ==
    ASSUME NEW o \in Seq(Entry), Sound(o), NEW base \in Nat, NEW a \in Nat, a >= base,
           o # << >> => LastEnd(o) <= base
    PROVE  At(o, a) = {}
<1>1. ASSUME NEW k \in DOMAIN o PROVE o[k].base + o[k].length <= base
  <2>1. /\ Len(o) \in DOMAIN o /\ o[k] \in Entry /\ o[Len(o)] \in Entry /\ o # << >>
        /\ k \in Nat /\ k <= Len(o)
    BY <1>1
  <2>2. CASE k = Len(o)
    BY <2>1, <2>2 DEF LastEnd
  <2>3. CASE k < Len(o)
    <3>1. o[k].base + o[k].length <= o[Len(o)].base
      BY <1>1, <2>1, <2>3 DEF Sound
    <3> QED BY <2>1, <3>1 DEF Entry, LastEnd
  <2> QED BY <2>1, <2>2, <2>3
<1>2. ASSUME NEW k \in DOMAIN o PROVE ~In(o, k, a)
  <2>1. o[k] \in Entry /\ o[k].base + o[k].length <= base
    BY <1>1
  <2> QED BY <2>1 DEF In, Covers, Entry
<1> QED
  BY <1>2 DEF At

LEMMA LastEndType ==
    ASSUME NEW o \in Seq(Entry), o # << >>
    PROVE  LastEnd(o) \in Nat
<1>1. o[Len(o)] \in Entry
  OBVIOUS
<1> QED
  BY <1>1 DEF LastEnd, Entry

\* What the two ways of adding [base, end) do to a byte of the map.
LEMMA JoinAt ==
    ASSUME NEW o \in Seq(Entry), Sound(o), o # << >>,
           NEW base \in Nat, NEW end \in Nat, base < end, LastEnd(o) = base,
           NEW r, r = Joined(o, base, end),
           NEW a \in Nat
    PROVE  /\ Covers(base, end, a) => At(r, a) = {o[Len(o)].type}
           /\ ~Covers(base, end, a) => At(r, a) = At(o, a)
<1>1. PICK n \in Nat : n = Len(o) /\ n > 0 /\ DOMAIN o = 1 .. n /\ n \in DOMAIN o
  OBVIOUS
<1>2. /\ o[n] \in Entry /\ o[n].base \in Nat /\ o[n].length \in Nat
      /\ o[n].base + o[n].length = base
  <2>1. o[n] \in Entry
    BY <1>1
  <2> QED BY <1>1, <2>1 DEF LastEnd, Entry
<1>3. /\ DOMAIN r = 1 .. n
      /\ r[n] = [o[n] EXCEPT !.length = @ + (end - base)]
      /\ \A k \in 1 .. n : k # n => r[k] = o[k]
  BY <1>1 DEF Joined
<1>4. /\ r[n].base = o[n].base /\ r[n].type = o[n].type
      /\ r[n].length = o[n].length + (end - base)
  BY <1>2, <1>3 DEF Entry
<1>5. \A k \in 1 .. n : r[k].type = o[k].type
  BY <1>3, <1>4
<1>6. \A k \in 1 .. n : k # n => (In(r, k, a) <=> In(o, k, a))
  BY <1>3 DEF In
<1>7. In(r, n, a) <=> In(o, n, a) \/ Covers(base, end, a)
  <2>1. PICK b \in Nat, l \in Nat :
          /\ o[n].base = b /\ o[n].length = l /\ b + l = base
          /\ r[n].base = b /\ r[n].length = l + (end - base)
    BY <1>2, <1>4
  <2>2. /\ In(o, n, a) <=> Covers(b, b + l, a)
        /\ In(r, n, a) <=> Covers(b, b + (l + (end - base)), a)
    BY <2>1, Zenon DEF In
  <2> QED BY <2>1, <2>2 DEF Covers
<1>8. CASE Covers(base, end, a)
  <2>1. a >= base /\ LastEnd(o) <= base
    BY <1>8 DEF Covers
  <2>2. At(o, a) = {}
    BY <2>1, NothingBehind
  <2>3. \A k \in 1 .. n : ~In(o, k, a)
    BY <1>1, <2>2 DEF At
  <2>4. {k \in DOMAIN r : In(r, k, a)} = {n}
    BY <1>1, <1>3, <1>6, <1>7, <1>8, <2>3
  <2> QED BY <1>1, <1>4, <1>8, <2>4 DEF At
<1>9. CASE ~Covers(base, end, a)
  <2>1. {k \in DOMAIN r : In(r, k, a)} = {k \in DOMAIN o : In(o, k, a)}
    BY <1>1, <1>3, <1>6, <1>7, <1>9
  <2>2. {r[k].type : k \in {k \in DOMAIN o : In(o, k, a)}} = At(o, a)
    BY <1>1, <1>5 DEF At
  <2> QED BY <1>9, <2>1, <2>2 DEF At
<1> QED
  BY <1>8, <1>9

LEMMA AddAt ==
    ASSUME NEW o \in Seq(Entry), Sound(o), NEW e \in Entry,
           o # << >> => LastEnd(o) <= e.base,
           NEW a \in Nat
    PROVE  At(Append(o, e), a) =
               IF Covers(e.base, e.base + e.length, a) THEN {e.type} ELSE At(o, a)
<1>0. PICK r : r = Append(o, e)
  OBVIOUS
<1>1. PICK n \in Nat : n = Len(o) /\ DOMAIN o = 1 .. n
  OBVIOUS
<1>2. /\ DOMAIN r = 1 .. (n + 1)
      /\ r[n + 1] = e /\ \A k \in 1 .. n : r[k] = o[k]
  BY <1>0, <1>1
<1>3. \A k \in 1 .. n : In(r, k, a) <=> In(o, k, a)
  BY <1>2 DEF In
<1>4. In(r, n + 1, a) <=> Covers(e.base, e.base + e.length, a)
  BY <1>2 DEF In
<1>5. CASE Covers(e.base, e.base + e.length, a)
  <2>1. a >= e.base /\ e.base \in Nat
    BY <1>5 DEF Covers, Entry
  <2>2. At(o, a) = {}
    BY <2>1, NothingBehind
  <2>3. \A k \in 1 .. n : ~In(o, k, a)
    BY <1>1, <2>2 DEF At
  <2>4. {k \in DOMAIN r : In(r, k, a)} = {n + 1}
    BY <1>1, <1>2, <1>3, <1>4, <1>5, <2>3
  <2> QED BY <1>0, <1>2, <1>5, <2>4 DEF At
<1>6. CASE ~Covers(e.base, e.base + e.length, a)
  <2>1. {k \in DOMAIN r : In(r, k, a)} = {k \in DOMAIN o : In(o, k, a)}
    BY <1>1, <1>2, <1>3, <1>4, <1>6
  <2>2. {r[k].type : k \in {k \in DOMAIN o : In(o, k, a)}} = At(o, a)
    BY <1>1, <1>2 DEF At
  <2> QED BY <1>0, <1>6, <2>1, <2>2 DEF At
<1> QED
  BY <1>5, <1>6

\* append keeps the array sound; when it succeeds, [base, end) has the type
\* and nothing else has changed.
LEMMA AppendEffect ==
    ASSUME out_capacity \in Nat,
           NEW o \in Seq(Entry), Sound(o),
           NEW base \in Nat, NEW end \in Nat, NEW type \in MemType,
           Aligned(base), Aligned(end), base <= end, end <= MaxU64
    PROVE  LET r == append(o, base, end, type) IN
           /\ r.out \in Seq(Entry) /\ Sound(r.out)
           /\ r.status = "OK" =>
                /\ \A a \in Nat : At(r.out, a) =
                     IF Covers(base, end, a) THEN {type} ELSE At(o, a)
                /\ base < end => \A a \in Nat : a >= base => At(o, a) = {}
<1>1. PICK r : r = append(o, base, end, type)
  OBVIOUS
<1> SUFFICES /\ r.out \in Seq(Entry) /\ Sound(r.out)
             /\ r.status = "OK" =>
                  /\ \A a \in Nat : At(r.out, a) =
                       IF Covers(base, end, a) THEN {type} ELSE At(o, a)
                  /\ base < end => \A a \in Nat : a >= base => At(o, a) = {}
  BY <1>1
<1>2. CASE base = end
  <2>1. r = [status |-> "OK", out |-> o]
    BY <1>1, <1>2 DEF append
  <2>2. \A a \in Nat : ~Covers(base, end, a)
    BY <1>2 DEF Covers
  <2> QED BY <1>2, <2>1, <2>2
<1>3. CASE base # end /\ o # << >> /\ (LastEnd(o) > MaxU64 \/ LastEnd(o) > base)
  <2>1. r = [status |-> "ERR_OUTPUT_OVERFLOW", out |-> o]
    BY <1>1, <1>3 DEF append
  <2> QED BY <2>1
<1> DEFINE free == base < end /\ (o # << >> => LastEnd(o) <= base)
<1>4. base = end \/ (base # end /\ o # << >> /\ (LastEnd(o) > MaxU64 \/ LastEnd(o) > base))
      \/ free
  BY LastEndType
<1>5. CASE free /\ Joins(o, base, type)
  <2>1. PICK p : p = Joined(o, base, end)
    OBVIOUS
  <2>2. /\ o # << >> /\ LastEnd(o) = base /\ o[Len(o)].type = type /\ base < end
    BY <1>5 DEF Joins
  <2>3. r = [status |-> "OK", out |-> p]
    <3>1. ~(LastEnd(o) > MaxU64 \/ LastEnd(o) > base)
      BY <2>2, PageSize
    <3> QED BY <1>1, <1>5, <2>1, <2>2, <3>1 DEF append, Joined
  <2>4. p \in Seq(Entry) /\ Sound(p)
    BY <2>1, <2>2, JoinSound
  <2>5. \A a \in Nat : At(p, a) = IF Covers(base, end, a) THEN {type} ELSE At(o, a)
    <3> TAKE a \in Nat
    <3>1. /\ Covers(base, end, a) => At(p, a) = {o[Len(o)].type}
          /\ ~Covers(base, end, a) => At(p, a) = At(o, a)
      BY <2>1, <2>2, JoinAt
    <3> QED BY <2>2, <3>1
  <2>6. \A a \in Nat : a >= base => At(o, a) = {}
    BY <1>5, NothingBehind
  <2> QED BY <2>3, <2>4, <2>5, <2>6
<1>6. CASE free /\ ~Joins(o, base, type) /\ Len(o) = out_capacity
  <2>1. r.out = o /\ r.status # "OK"
    BY <1>1, <1>6 DEF append
  <2> QED BY <2>1
<1>7. CASE free /\ ~Joins(o, base, type) /\ Len(o) # out_capacity
  <2>1. PICK e : e = [base |-> base, length |-> end - base, type |-> type]
    OBVIOUS
  <2>2. /\ e \in Entry /\ e.base = base /\ e.length = end - base /\ e.type = type
        /\ e.length > 0 /\ e.base + e.length = end
    BY <1>7, <2>1 DEF Entry
  <2>3. Aligned(e.length)
    BY <2>2, AlignedSums
  <2>4. r.status = "OK" /\ r.out = Append(o, e)
    <3>1. o # << >> => ~(LastEnd(o) > MaxU64 \/ LastEnd(o) > base)
      BY <1>7, LastEndType, PageSize
    <3> QED BY <1>1, <1>7, <2>1, <3>1 DEF append
  <2>5. Append(o, e) \in Seq(Entry) /\ Sound(Append(o, e))
    BY <1>7, <2>2, <2>3, AddSound
  <2>6. \A a \in Nat : At(Append(o, e), a) = IF Covers(base, end, a) THEN {type} ELSE At(o, a)
    BY <1>7, <2>2, AddAt
  <2>7. \A a \in Nat : a >= base => At(o, a) = {}
    BY <1>7, NothingBehind
  <2> QED BY <2>4, <2>5, <2>6, <2>7
<1> QED
  BY <1>2, <1>3, <1>4, <1>5, <1>6, <1>7

(***************************************************************************)
(* sort_descriptors                                                        *)
(***************************************************************************)

\* The array b holds the elements of a, each at one place.
Rearranged(a, b) ==
    \E p \in [1 .. Len(b) -> 1 .. Len(a)] :
        /\ \A k \in 1 .. Len(b) : b[k] = a[p[k]]
        /\ \A k \in 1 .. Len(a) : \E m \in 1 .. Len(b) : p[m] = k
        /\ \A k, m \in 1 .. Len(b) : p[k] = p[m] => k = m

LEMMA InsertAfterType ==
    ASSUME NEW s, NEW k \in Nat, k > 0
    PROVE  InsertAfter(s, k) \in 0 .. (k - 1)
<1> DEFINE S == {0} \union {j \in 1 .. (k - 1) : s[j].PhysicalStart <= s[k].PhysicalStart}
<1>1. S \subseteq 0 .. (k - 1) /\ S # {} /\ k - 1 \in Nat
  OBVIOUS
<1>2. Max(S) \in S
  BY <1>1, GreatestIs
<1> QED
  BY <1>1, <1>2 DEF InsertAfter

LEMMA PieceOf ==
    ASSUME NEW s \in Seq(Descriptor), NEW l \in Nat, NEW h \in Nat, l <= h, h <= Len(s)
    PROVE  /\ SubSeq(s, l + 1, h) \in Seq(Descriptor)
           /\ Len(SubSeq(s, l + 1, h)) = h - l
           /\ \A m \in 1 .. (h - l) : SubSeq(s, l + 1, h)[m] = s[l + m]
<1>1. PICK b : b = SubSeq(s, l + 1, h)
  OBVIOUS
<1>2. \A m \in (l + 1) .. h : s[m] \in Descriptor
  OBVIOUS
<1>3. /\ b \in Seq(Descriptor)
      /\ Len(b) = IF l + 1 <= h THEN h - (l + 1) + 1 ELSE 0
      /\ \A m \in 1 .. (h - (l + 1) + 1) : b[m] = s[(l + 1) + m - 1]
  BY <1>1, <1>2, SubSeqProperties
<1>4. Len(b) = h - l
  BY <1>3
<1>5. ASSUME NEW m \in 1 .. (h - l) PROVE b[m] = s[l + m]
  <2>1. (l + 1) + m - 1 = l + m /\ h - (l + 1) + 1 = h - l
    OBVIOUS
  <2> QED BY <1>3, <2>1
<1> QED
  BY <1>1, <1>3, <1>4, <1>5

\* One round of the sort moves one element and shifts those above it.
LEMMA InsertedIs ==
    ASSUME NEW s \in Seq(Descriptor), NEW k \in 1 .. Len(s)
    PROVE  LET j == InsertAfter(s, k)
               r == Inserted(s, k)
           IN  /\ r \in Seq(Descriptor) /\ Len(r) = Len(s)
               /\ \A m \in 1 .. Len(s) :
                    r[m] = s[IF m <= j THEN m ELSE IF m = j + 1 THEN k
                             ELSE IF m <= k THEN m - 1 ELSE m]
<1>1. PICK j \in Nat : j = InsertAfter(s, k) /\ j <= k - 1
  BY InsertAfterType
<1>2. PICK n \in Nat : n = Len(s) /\ k <= n /\ k \in Nat /\ k > 0
  OBVIOUS
<1>3. PICK a : a = SubSeq(s, 1, j)
  OBVIOUS
<1>4. PICK b : b = SubSeq(s, j + 1, k - 1)
  OBVIOUS
<1>5. PICK c : c = SubSeq(s, k + 1, n)
  OBVIOUS
<1>6. a \in Seq(Descriptor) /\ Len(a) = j /\ \A m \in 1 .. j : a[m] = s[m]
  BY <1>1, <1>2, <1>3, PieceOf
<1>7. /\ b \in Seq(Descriptor) /\ Len(b) = k - 1 - j
      /\ \A m \in 1 .. (k - 1 - j) : b[m] = s[j + m]
  <2>1. k - 1 \in Nat /\ k - 1 <= Len(s)
    BY <1>2
  <2> QED BY <1>1, <1>4, <2>1, PieceOf
<1>8. /\ c \in Seq(Descriptor) /\ Len(c) = n - k
      /\ \A m \in 1 .. (n - k) : c[m] = s[k + m]
  BY <1>1, <1>2, <1>5, PieceOf
<1>9. PICK d : d = <<s[k]>> /\ d \in Seq(Descriptor) /\ Len(d) = 1 /\ d[1] = s[k]
  <2>1. PICK v \in Descriptor : v = s[k]
    BY <1>2
  <2>2. <<v>> \in Seq(Descriptor) /\ Len(<<v>>) = 1 /\ <<v>>[1] = v
    OBVIOUS
  <2> QED BY <2>1, <2>2
<1>10. PICK x : x = a \o d
  OBVIOUS
<1>11. PICK y : y = x \o b
  OBVIOUS
<1>12. PICK r : r = y \o c
  OBVIOUS
<1>13. /\ x \in Seq(Descriptor) /\ Len(x) = j + 1
       /\ \A m \in 1 .. (j + 1) : x[m] = IF m <= j THEN s[m] ELSE s[k]
  <2>1. /\ x \in Seq(Descriptor) /\ Len(x) = j + 1
        /\ \A m \in 1 .. (j + 1) : x[m] = IF m <= j THEN a[m] ELSE d[m - j]
    BY <1>6, <1>9, <1>10, ConcatProperties
  <2>2. \A m \in 1 .. (j + 1) : m > j => m - j = 1
    BY <1>1
  <2> QED BY <1>1, <1>6, <1>9, <2>1, <2>2
<1>14. /\ y \in Seq(Descriptor) /\ Len(y) = k
       /\ \A m \in 1 .. k : y[m] = IF m <= j THEN s[m] ELSE IF m = j + 1 THEN s[k]
                                   ELSE s[m - 1]
  <2>1. Len(x) + Len(b) = k
    BY <1>1, <1>2, <1>7, <1>13
  <2>2. /\ y \in Seq(Descriptor) /\ Len(y) = k
        /\ \A m \in 1 .. k : y[m] = IF m <= Len(x) THEN x[m] ELSE b[m - Len(x)]
    BY <1>7, <1>11, <1>13, <2>1, ConcatProperties
  <2>3. ASSUME NEW m \in 1 .. k, m > j + 1
        PROVE  b[m - (j + 1)] = s[m - 1]
    <3>1. m - (j + 1) \in 1 .. (k - 1 - j) /\ j + (m - (j + 1)) = m - 1
      BY <1>1, <1>2, <2>3
    <3> QED BY <1>7, <3>1
  <2> QED BY <1>1, <1>2, <1>13, <2>2, <2>3
<1>15. /\ r \in Seq(Descriptor) /\ Len(r) = n
       /\ \A m \in 1 .. n : r[m] = IF m <= k THEN y[m] ELSE s[m]
  <2>1. Len(y) + Len(c) = n
    BY <1>1, <1>2, <1>8, <1>14
  <2>2. /\ r \in Seq(Descriptor) /\ Len(r) = n
        /\ \A m \in 1 .. n : r[m] = IF m <= Len(y) THEN y[m] ELSE c[m - Len(y)]
    BY <1>8, <1>12, <1>14, <2>1, ConcatProperties
  <2>3. ASSUME NEW m \in 1 .. n, m > k PROVE c[m - k] = s[m]
    <3>1. m - k \in 1 .. (n - k) /\ k + (m - k) = m
      BY <1>2, <2>3
    <3> QED BY <1>8, <3>1
  <2> QED BY <1>2, <1>14, <2>2, <2>3
<1>16. r = Inserted(s, k)
  BY <1>1, <1>2, <1>3, <1>4, <1>5, <1>9, <1>10, <1>11, <1>12 DEF Inserted
<1>17. ASSUME NEW m \in 1 .. n
       PROVE  r[m] = s[IF m <= j THEN m ELSE IF m = j + 1 THEN k
                       ELSE IF m <= k THEN m - 1 ELSE m]
  <2>1. CASE m <= k
    BY <1>1, <1>2, <1>14, <1>15, <2>1
  <2>2. CASE m > k
    BY <1>1, <1>2, <1>15, <2>2
  <2> QED BY <1>2, <2>1, <2>2
<1> QED
  BY <1>1, <1>2, <1>15, <1>16, <1>17

LEMMA RearrangedOnce ==
    ASSUME NEW a, NEW s \in Seq(Descriptor), NEW k \in 1 .. Len(s), Rearranged(a, s)
    PROVE  Rearranged(a, Inserted(s, k))
<1>1. PICK j \in Nat : j = InsertAfter(s, k) /\ j <= k - 1
  BY InsertAfterType
<1>2. PICK r : r = Inserted(s, k)
  OBVIOUS
<1>3. PICK n \in Nat : n = Len(s) /\ k \in 1 .. n
  OBVIOUS
<1>4. PICK q \in [1 .. n -> 1 .. n] : \A m \in 1 .. n :
         q[m] = IF m <= j THEN m ELSE IF m = j + 1 THEN k
                ELSE IF m <= k THEN m - 1 ELSE m
  <2> DEFINE f == [m \in 1 .. n |-> IF m <= j THEN m ELSE IF m = j + 1 THEN k
                                    ELSE IF m <= k THEN m - 1 ELSE m]
  <2>1. f \in [1 .. n -> 1 .. n]
    BY <1>1, <1>3
  <2> QED BY <2>1
<1>5. Len(r) = n /\ \A m \in 1 .. n : r[m] = s[q[m]]
  <2>1. r \in Seq(Descriptor) /\ Len(r) = n
    BY <1>2, <1>3, InsertedIs
  <2>2. \A m \in 1 .. n : r[m] = s[IF m <= j THEN m ELSE IF m = j + 1 THEN k
                                   ELSE IF m <= k THEN m - 1 ELSE m]
    BY <1>1, <1>2, <1>3, InsertedIs
  <2>3. ASSUME NEW m \in 1 .. n PROVE r[m] = s[q[m]]
    BY <1>4, <2>2
  <2> QED BY <2>1, <2>3
<1>6. \A m \in 1 .. n : \E l \in 1 .. n : q[l] = m
  <2> TAKE m \in 1 .. n
  <2>1. CASE m <= j
    BY <1>3, <1>4, <2>1
  <2>2. CASE m > j /\ m < k
    <3>1. m + 1 \in 1 .. n /\ q[m + 1] = m
      BY <1>1, <1>3, <1>4, <2>2
    <3> QED BY <3>1
  <2>3. CASE m = k
    <3>1. j + 1 \in 1 .. n /\ q[j + 1] = k
      BY <1>1, <1>3, <1>4
    <3> QED BY <2>3, <3>1
  <2>4. CASE m > k
    <3>1. q[m] = m
      BY <1>1, <1>3, <1>4, <2>4
    <3> QED BY <3>1
  <2> QED BY <1>1, <1>3, <2>1, <2>2, <2>3, <2>4
<1>7. \A l, m \in 1 .. n : q[l] = q[m] => l = m
  BY <1>1, <1>3, <1>4
<1>8. PICK p \in [1 .. n -> 1 .. Len(a)] :
        /\ \A m \in 1 .. n : s[m] = a[p[m]]
        /\ \A x \in 1 .. Len(a) : \E m \in 1 .. n : p[m] = x
        /\ \A l, m \in 1 .. n : p[l] = p[m] => l = m
  <2> DEFINE P(x) == \E p \in [1 .. x -> 1 .. Len(a)] :
                       /\ \A m \in 1 .. x : s[m] = a[p[m]]
                       /\ \A y \in 1 .. Len(a) : \E m \in 1 .. x : p[m] = y
                       /\ \A l, m \in 1 .. x : p[l] = p[m] => l = m
  <2>1. P(Len(s))
    BY Zenon DEF Rearranged
  <2> HIDE DEF P
  <2>2. P(n)
    BY <1>3, <2>1
  <2> QED BY <2>2, Zenon DEF P
<1> DEFINE g == [m \in 1 .. n |-> p[q[m]]]
<1>9. /\ g \in [1 .. n -> 1 .. Len(a)]
      /\ \A m \in 1 .. n : q[m] \in 1 .. n /\ g[m] = p[q[m]]
  BY <1>4, <1>8
<1> HIDE DEF g
<1>10. ASSUME NEW m \in 1 .. n PROVE r[m] = a[g[m]]
  <2>1. q[m] \in 1 .. n /\ g[m] = p[q[m]] /\ r[m] = s[q[m]]
    BY <1>5, <1>9
  <2>2. s[q[m]] = a[p[q[m]]]
    BY <1>8, <2>1
  <2> QED BY <2>1, <2>2
<1>11. ASSUME NEW x \in 1 .. Len(a) PROVE \E m \in 1 .. n : g[m] = x
  <2>1. PICK l \in 1 .. n : p[l] = x
    BY <1>8
  <2>2. PICK m \in 1 .. n : q[m] = l
    BY <1>6
  <2> QED BY <1>9, <2>1, <2>2
<1>12. ASSUME NEW l \in 1 .. n, NEW m \in 1 .. n, g[l] = g[m] PROVE l = m
  <2>1. q[l] \in 1 .. n /\ q[m] \in 1 .. n /\ p[q[l]] = p[q[m]]
    BY <1>9, <1>12
  <2>2. q[l] = q[m]
    BY <1>8, <2>1
  <2> QED BY <1>7, <2>2
<1>13. Len(r) = n
  BY <1>5
<1>14. Rearranged(a, r)
  <2>1. g \in [1 .. Len(r) -> 1 .. Len(a)]
    BY <1>9, <1>13
  <2>2. /\ \A m \in 1 .. Len(r) : r[m] = a[g[m]]
        /\ \A x \in 1 .. Len(a) : \E m \in 1 .. Len(r) : g[m] = x
        /\ \A l, m \in 1 .. Len(r) : g[l] = g[m] => l = m
    BY <1>10, <1>11, <1>12, <1>13
  <2> QED BY <2>1, <2>2, Zenon DEF Rearranged
<1> QED
  BY <1>2, <1>14

(***************************************************************************)
(* The invariant                                                           *)
(***************************************************************************)

\* The descriptors are being translated, or have been.
Late == pc \in {"descriptor", "split"} \/ (pc = "done" /\ status = "OK")

MTypes ==
    /\ pc \in {"enter", "sort", "plan", "descriptor", "split", "done"}
    /\ out_capacity \in Nat /\ kernel \in Seq(Segment)
    /\ reported \in Seq(Descriptor) /\ efi_map \in Seq(Descriptor)
    /\ i \in Nat /\ cursor \in Nat /\ previous_end \in Nat
    /\ expected_kernel_bytes \in Nat /\ tagged_kernel_bytes \in Nat
    /\ out \in Seq(Entry)
    /\ pc \in {"sort", "plan", "descriptor", "split"} => i > 0 /\ strideOk
    /\ pc # "done" => status = "OK"
    /\ pc = "done" /\ status = "OK" => i > Len(efi_map) /\ strideOk
    /\ pc \in {"enter", "sort", "plan"} => out = << >>
    /\ pc \in {"enter", "sort"} => expected_kernel_bytes = 0

PlanOk ==
    /\ pc = "plan" => \A k \in DOMAIN kernel : k < i => SegmentOk(kernel[k])
    /\ Late => \A k \in DOMAIN kernel : SegmentOk(kernel[k])

Valid(d) == d.NumberOfPages > 0 /\ Aligned(d.PhysicalStart) /\ End(d) <= MaxU64

\* The descriptors behind are valid, in order and apart.
Checked ==
    /\ Late => \A j \in DOMAIN efi_map : j < i =>
         /\ Valid(efi_map[j]) /\ End(efi_map[j]) <= previous_end
         /\ \A l \in DOMAIN efi_map :
              l < j => End(efi_map[l]) <= efi_map[j].PhysicalStart
    /\ pc = "split" =>
         /\ i \in DOMAIN efi_map /\ Valid(efi_map[i])
         /\ previous_end = End(efi_map[i])
         /\ \A l \in DOMAIN efi_map :
              l < i => End(efi_map[l]) <= efi_map[i].PhysicalStart
         /\ Aligned(cursor)
         /\ efi_map[i].PhysicalStart <= cursor /\ cursor <= End(efi_map[i])

\* Who owns a byte of descriptor d.
Class(d, a) ==
    IF InKernel(a) /\ efi_to_sypas_memtype(d.Type) = "LOADER" THEN "KERNEL"
    ELSE efi_to_sypas_memtype(d.Type)

Has(d, a) == Covers(d.PhysicalStart, End(d), a)
Begun(a) == pc = "split" /\ Covers(efi_map[i].PhysicalStart, cursor, a)

\* The descriptors behind, and the current one up to the cursor, are in the
\* output with their owners, and nothing else is.
Owned ==
    Late =>
      /\ \A j \in DOMAIN efi_map : j < i =>
           \A a \in Nat : Has(efi_map[j], a) => At(out, a) = {Class(efi_map[j], a)}
      /\ \A a \in Nat : Begun(a) => At(out, a) = {Class(efi_map[i], a)}
      /\ \A a \in Nat : At(out, a) # {} =>
           Begun(a) \/ \E j \in DOMAIN efi_map : j < i /\ Has(efi_map[j], a)

\* The bytes of the first n segments, each as often as segments have it, and
\* the bytes that are KERNEL in the output.
PlanBytes(n) ==
    {p \in (1 .. n) \X (0 .. MaxU64) :
       Covers(kernel[p[1]].page_base, kernel[p[1]].page_end, p[2])}
Tagged == {a \in 0 .. MaxU64 : At(out, a) = {"KERNEL"}}

Counted ==
    /\ pc = "plan" => expected_kernel_bytes = Cardinality(PlanBytes(i - 1))
    /\ pc = "plan" => i - 1 <= Len(kernel)
    /\ Late => expected_kernel_bytes = Cardinality(PlanBytes(Len(kernel)))
    /\ pc # "done" \/ status = "OK" => tagged_kernel_bytes = Cardinality(Tagged)
    /\ pc = "done" /\ status = "OK" => tagged_kernel_bytes = expected_kernel_bytes

MInv ==
    /\ MTypes /\ Rearranged(reported, efi_map) /\ PlanOk /\ Checked
    /\ Sound(out) /\ Owned /\ Counted

(***************************************************************************)
(* Steps                                                                   *)
(***************************************************************************)

LEMMA EndFacts ==
    ASSUME NEW d \in Descriptor
    PROVE  /\ End(d) \in Nat /\ d.PhysicalStart \in Nat /\ d.NumberOfPages \in Nat
           /\ Valid(d) => Aligned(End(d)) /\ d.PhysicalStart < End(d)
<1>1. d.PhysicalStart \in Nat /\ d.NumberOfPages \in Nat
  BY PageSize DEF Descriptor
<1>2. PICK x \in Nat : x = d.NumberOfPages * PAGE_SIZE
  BY <1>1, PageSize
<1>3. End(d) = d.PhysicalStart + x
  BY <1>2 DEF End
<1>4. ASSUME Valid(d) PROVE Aligned(End(d)) /\ d.PhysicalStart < End(d)
  <2>1. d.NumberOfPages > 0 /\ Aligned(d.PhysicalStart)
    BY <1>4 DEF Valid
  <2>2. x > 0
    BY <1>1, <1>2, <2>1, PageSize
  <2>3. Aligned(x)
    BY <1>1, <1>2, AlignedMultiple
  <2>4. d.PhysicalStart \in Int /\ x \in Int
    BY <1>1
  <2>5. Aligned(d.PhysicalStart + x)
    BY <2>1, <2>3, <2>4, AlignedSums, Zenon
  <2> QED BY <1>1, <1>3, <2>2, <2>5
<1> QED
  BY <1>1, <1>3, <1>4

LEMMA SegmentFacts ==
    ASSUME kernel \in Seq(Segment), NEW k \in DOMAIN kernel
    PROVE  /\ kernel[k].page_base \in Nat /\ kernel[k].page_end \in Nat
           /\ kernel[k].page_base <= MaxU64 /\ kernel[k].page_end <= MaxU64
<1>1. kernel[k] \in Segment
  OBVIOUS
<1> QED
  BY <1>1, PageSize DEF Segment

LEMMA MemtypeFacts ==
    ASSUME NEW t
    PROVE  efi_to_sypas_memtype(t) \in MemType /\ efi_to_sypas_memtype(t) # "KERNEL"
  BY DEF efi_to_sypas_memtype, MemType

\* What a step leaves alone.
LEMMA SoundFrame ==
    ASSUME NEW o, Sound(o), out' = o, UNCHANGED out_capacity
    PROVE  Sound(out)'
  BY DEF Sound

LEMMA EmptyOut ==
    /\ \A a : At(<< >>, a) = {}
    /\ Cardinality({}) = 0
    /\ out_capacity \in Nat => Sound(<< >>)
<1>1. \A a : At(<< >>, a) = {}
  BY DEF At
<1>2. out_capacity \in Nat => Sound(<< >>)
  BY DEF Sound
<1> QED
  BY <1>1, <1>2, FS_EmptySet

LEMMA TranslatorInit == Init => MInv
<1> SUFFICES ASSUME Init PROVE MInv
  OBVIOUS
<1>1. PICK n \in 0 .. MaxDescs : reported \in [1 .. n -> Descriptors]
  BY DEF Init
<1>2. n \in Nat
  BY <1>1, SizeAssumption
<1>3. reported \in [1 .. n -> Descriptor]
  BY <1>1, InputAssumption
<1>4. reported \in Seq(Descriptor) /\ Len(reported) = n
  BY <1>2, <1>3
<1>5. /\ pc = "enter" /\ status = "OK" /\ efi_map = reported /\ kernel \in Seq(Segment)
      /\ out_capacity \in Nat /\ out = << >> /\ i = 0 /\ previous_end = 0 /\ cursor = 0
      /\ expected_kernel_bytes = 0 /\ tagged_kernel_bytes = 0
  BY InputAssumption DEF Init
<1>6. MTypes
  BY <1>4, <1>5 DEF MTypes
<1>7. Rearranged(reported, efi_map)
  <2> DEFINE id == [k \in 1 .. n |-> k]
  <2>1. id \in [1 .. Len(reported) -> 1 .. Len(reported)]
    BY <1>4
  <2>2. \A k \in 1 .. Len(reported) : id[k] = k
    BY <1>4
  <2> HIDE DEF id
  <2>3. /\ \A k \in 1 .. Len(reported) : reported[k] = reported[id[k]]
        /\ \A k \in 1 .. Len(reported) : \E m \in 1 .. Len(reported) : id[m] = k
        /\ \A k, m \in 1 .. Len(reported) : id[k] = id[m] => k = m
    BY <2>2
  <2>4. Rearranged(reported, reported)
    BY <2>1, <2>3, Zenon DEF Rearranged
  <2> QED BY <1>5, <2>4
<1>8. PlanOk /\ Checked /\ Owned
  BY <1>5 DEF PlanOk, Checked, Owned, Late
<1>9. Sound(out)
  BY <1>5, EmptyOut
<1>10. Counted
  <2>1. Tagged = {}
    BY <1>5, EmptyOut DEF Tagged
  <2> QED BY <1>5, <2>1, EmptyOut DEF Counted, Late
<1> QED
  BY <1>6, <1>7, <1>8, <1>9, <1>10 DEF MInv

\* A step that ends the call with an error needs no more than types and a
\* sound output.
LEMMA ErrorStep ==
    ASSUME MInv, pc' = "done", status' # "OK", Sound(out)', out' \in Seq(Entry),
           UNCHANGED <<efi_map, inputs, i, previous_end, expected_kernel_bytes>>,
           cursor' \in Nat, tagged_kernel_bytes' \in Nat
    PROVE  MInv'
<1>1. MTypes'
  BY DEF MInv, MTypes, inputs
<1>2. Rearranged(reported, efi_map)'
  BY DEF MInv, Rearranged, inputs
<1>3. PlanOk' /\ Checked' /\ Owned'
  BY DEF PlanOk, Checked, Owned, Late
<1>4. Counted'
  BY DEF Counted, Late
<1> QED
  BY <1>1, <1>2, <1>3, <1>4 DEF MInv

LEMMA BytesFrame ==
    /\ UNCHANGED out => Tagged' = Tagged
    /\ UNCHANGED kernel => \A n : PlanBytes(n)' = PlanBytes(n)
    /\ UNCHANGED kernel => \A a : InKernel(a)' <=> InKernel(a)
  BY DEF Tagged, PlanBytes, InKernel

LEMMA EnterStep == MInv /\ Enter => MInv'
<1> SUFFICES ASSUME MInv, Enter PROVE MInv'
  OBVIOUS
<1>1. /\ pc = "enter" /\ UNCHANGED <<efi_map, inputs, out, previous_end, cursor, sums>>
      /\ MTypes /\ Sound(out)
  BY DEF Enter, MInv
<1>2. /\ UNCHANGED <<reported, kernel, out_capacity, strideOk>>
      /\ UNCHANGED <<expected_kernel_bytes, tagged_kernel_bytes>>
  BY <1>1 DEF inputs, sums
<1>3. Sound(out)'
  BY <1>1, <1>2, SoundFrame
<1>4. CASE ~strideOk
  <2>1. pc' = "done" /\ status' # "OK" /\ i' = i
    BY <1>4 DEF Enter, Return
  <2> QED BY <1>1, <1>2, <1>3, <2>1, ErrorStep DEF MTypes
<1>5. CASE strideOk
  <2>1. pc' = "sort" /\ i' = 2 /\ status' = status
    BY <1>5 DEF Enter
  <2>2. MTypes'
    BY <1>1, <1>2, <1>5, <2>1 DEF MTypes
  <2>3. Rearranged(reported, efi_map)'
    BY <1>1, <1>2 DEF MInv, Rearranged
  <2>4. PlanOk' /\ Checked' /\ Owned'
    BY <2>1 DEF PlanOk, Checked, Owned, Late
  <2>5. Counted'
    BY <1>1, <1>2, <2>1, BytesFrame DEF MInv, Counted, Late
  <2> QED BY <1>3, <2>2, <2>3, <2>4, <2>5 DEF MInv
<1> QED
  BY <1>4, <1>5

LEMMA SortSteps == MInv /\ (SortStep \/ SortDone) => MInv'
<1> SUFFICES ASSUME MInv, SortStep \/ SortDone PROVE MInv'
  OBVIOUS
<1>1. /\ pc = "sort" /\ UNCHANGED <<status, inputs, out, previous_end, cursor, sums>>
      /\ MTypes /\ Sound(out) /\ efi_map \in Seq(Descriptor) /\ i \in Nat /\ i > 0
  BY DEF SortStep, SortDone, MInv, MTypes
<1>2. /\ UNCHANGED <<reported, kernel, out_capacity, strideOk>>
      /\ UNCHANGED <<expected_kernel_bytes, tagged_kernel_bytes>>
  BY <1>1 DEF inputs, sums
<1>3. Sound(out)'
  BY <1>1, <1>2, SoundFrame
<1>4. CASE SortStep
  <2>1. /\ pc' = "sort" /\ i' = i + 1 /\ i \in 1 .. Len(efi_map)
        /\ efi_map' = Inserted(efi_map, i)
    BY <1>1, <1>4 DEF SortStep
  <2>2. efi_map' \in Seq(Descriptor)
    BY <1>1, <2>1, InsertedIs
  <2>3. Rearranged(reported, efi_map)'
    <3>1. Rearranged(reported, efi_map')
      BY <1>1, <2>1, RearrangedOnce DEF MInv
    <3> QED BY <1>2, <3>1 DEF Rearranged
  <2>4. MTypes'
    BY <1>1, <1>2, <2>1, <2>2 DEF MTypes
  <2>5. PlanOk' /\ Checked' /\ Owned'
    BY <2>1 DEF PlanOk, Checked, Owned, Late
  <2>6. Counted'
    BY <1>1, <1>2, <2>1, BytesFrame DEF MInv, Counted, Late
  <2> QED BY <1>3, <2>3, <2>4, <2>5, <2>6 DEF MInv
<1>5. CASE SortDone
  <2>1. pc' = "plan" /\ i' = 1 /\ efi_map' = efi_map
    BY <1>1, <1>5 DEF SortDone
  <2>2. Rearranged(reported, efi_map)'
    BY <1>2, <2>1 DEF MInv
  <2>3. MTypes'
    BY <1>1, <1>2, <2>1 DEF MTypes
  <2>4. PlanOk' /\ Checked' /\ Owned'
    BY <1>1, <1>2, <2>1 DEF PlanOk, Checked, Owned, Late, MTypes
  <2>5. Counted'
    <3>1. PlanBytes(0) = {}
      BY DEF PlanBytes
    <3>2. PlanBytes(i - 1)' = {}
      BY <1>2, <2>1, <3>1 DEF PlanBytes
    <3>3. Len(kernel) \in Nat
      BY <1>1 DEF MTypes
    <3> QED BY <1>1, <1>2, <2>1, <3>2, <3>3, BytesFrame, EmptyOut
            DEF MInv, MTypes, Counted, Late
  <2> QED BY <1>3, <2>2, <2>3, <2>4, <2>5 DEF MInv
<1> QED
  BY <1>4, <1>5

\* Each segment adds its bytes to the ones expected.
LEMMA OneMoreSegment ==
    ASSUME kernel \in Seq(Segment), NEW n \in DOMAIN kernel,
           kernel[n].page_base < kernel[n].page_end
    PROVE  Cardinality(PlanBytes(n)) =
               Cardinality(PlanBytes(n - 1)) + (kernel[n].page_end - kernel[n].page_base)
<1>1. PICK b \in Nat : b = kernel[n].page_base /\ b <= MaxU64
  BY SegmentFacts
<1>2. PICK e \in Nat : e = kernel[n].page_end /\ e <= MaxU64 /\ b < e
  BY <1>1, SegmentFacts
<1>3. n \in Nat /\ n > 0
  OBVIOUS
<1> DEFINE S == {n} \X (b .. (e - 1))
<1>4. PlanBytes(n) = PlanBytes(n - 1) \union S
  <2>1. ASSUME NEW p \in PlanBytes(n) PROVE p \in PlanBytes(n - 1) \union S
    <3>1. p \in (1 .. n) \X (0 .. MaxU64)
          /\ Covers(kernel[p[1]].page_base, kernel[p[1]].page_end, p[2])
      BY <2>1 DEF PlanBytes
    <3>2. CASE p[1] = n
      BY <1>1, <1>2, <3>1, <3>2 DEF Covers
    <3>3. CASE p[1] # n
      BY <1>3, <3>1, <3>3 DEF PlanBytes
    <3> QED BY <3>2, <3>3
  <2>2. ASSUME NEW p \in PlanBytes(n - 1) PROVE p \in PlanBytes(n)
    BY <1>3, <2>2 DEF PlanBytes
  <2>3. ASSUME NEW p \in S PROVE p \in PlanBytes(n)
    BY <1>1, <1>2, <1>3, <2>3, PageSize DEF PlanBytes, Covers
  <2> QED BY <2>1, <2>2, <2>3
<1>5. PlanBytes(n - 1) \intersect S = {}
  BY <1>3 DEF PlanBytes
<1>6. IsFiniteSet(PlanBytes(n - 1))
  <2>1. IsFiniteSet(1 .. (n - 1)) /\ IsFiniteSet(0 .. MaxU64)
    <3>1. n - 1 \in Int /\ MaxU64 \in Int /\ 0 \in Int /\ 1 \in Int
      BY <1>3, PageSize
    <3> QED BY <3>1, FS_Interval
  <2>2. IsFiniteSet((1 .. (n - 1)) \X (0 .. MaxU64))
    BY <2>1, FS_Product
  <2> QED BY <2>2, FS_Subset DEF PlanBytes
<1>7. IsFiniteSet(S) /\ Cardinality(S) = e - b
  <2>1. IsFiniteSet(b .. (e - 1)) /\ Cardinality(b .. (e - 1)) = e - b
    <3>0. b < e
      BY <1>2
    <3>1. b \in Int /\ e - 1 \in Int /\ ~(b > e - 1) /\ (e - 1) - b + 1 = e - b
      BY <3>0
    <3> QED BY <3>1, FS_Interval
  <2>2. IsFiniteSet({n}) /\ Cardinality({n}) = 1
    BY FS_Singleton
  <2>3. IsFiniteSet(S) /\ Cardinality(S) = 1 * (e - b)
    BY <2>1, <2>2, FS_Product
  <2> QED BY <1>1, <1>2, <2>3
<1> HIDE DEF S
<1>8. Cardinality(PlanBytes(n - 1) \union S) =
        Cardinality(PlanBytes(n - 1)) + Cardinality(S) - Cardinality({})
  <2>1. Cardinality(PlanBytes(n - 1) \union S) =
          Cardinality(PlanBytes(n - 1)) + Cardinality(S)
            - Cardinality(PlanBytes(n - 1) \intersect S)
    BY <1>6, <1>7, FS_Union
  <2> QED BY <1>5, <2>1
<1>9. Cardinality(PlanBytes(n - 1)) \in Nat
  BY <1>6, FS_CardinalityType
<1> QED
  BY <1>1, <1>2, <1>4, <1>7, <1>8, <1>9, FS_EmptySet

LEMMA CheckSegmentStep == MInv /\ CheckSegment => MInv'
<1> SUFFICES ASSUME MInv, CheckSegment PROVE MInv'
  OBVIOUS
<1>1. /\ pc = "plan" /\ UNCHANGED <<efi_map, inputs, out, previous_end, cursor>>
      /\ tagged_kernel_bytes' = tagged_kernel_bytes
      /\ MTypes /\ Sound(out) /\ i \in Nat /\ i > 0 /\ i <= Len(kernel)
      /\ kernel \in Seq(Segment)
  BY DEF CheckSegment, MInv, MTypes
<1>2. UNCHANGED <<reported, kernel, out_capacity, strideOk>>
  BY <1>1 DEF inputs
<1>3. Sound(out)' /\ Rearranged(reported, efi_map)'
  BY <1>1, <1>2, SoundFrame DEF MInv
<1>4. i \in DOMAIN kernel
  BY <1>1
<1> DEFINE bytes == expected_kernel_bytes + (kernel[i].page_end - kernel[i].page_base)
           good == SegmentOk(kernel[i]) /\ bytes <= MaxU64
<1>5. CASE ~good
  <2>1. pc' = "done" /\ status' # "OK" /\ UNCHANGED <<i, expected_kernel_bytes>>
    BY <1>5 DEF CheckSegment, Return
  <2> QED BY <1>1, <1>2, <1>3, <2>1, ErrorStep DEF MTypes
<1>6. CASE good
  <2>1. /\ expected_kernel_bytes' = bytes /\ i' = i + 1 /\ pc' = pc /\ status' = status
    BY <1>6 DEF CheckSegment
  <2>2. SegmentOk(kernel[i]) /\ kernel[i].page_base < kernel[i].page_end
    BY <1>6 DEF SegmentOk
  <2>3. expected_kernel_bytes \in Nat /\ expected_kernel_bytes = Cardinality(PlanBytes(i - 1))
    BY <1>1 DEF MInv, MTypes, Counted
  <2>4. expected_kernel_bytes' = Cardinality(PlanBytes(i))
    BY <1>1, <1>4, <2>1, <2>2, <2>3, OneMoreSegment
  <2>5. expected_kernel_bytes' \in Nat
    BY <1>1, <1>4, <2>1, <2>2, <2>3, SegmentFacts
  <2> HIDE DEF bytes, good
  <2>6. MTypes'
    BY <1>1, <1>2, <2>1, <2>5 DEF MTypes
  <2>7. PlanOk'
    <3>1. \A k \in DOMAIN kernel : k < i => SegmentOk(kernel[k])
      BY <1>1 DEF MInv, PlanOk
    <3>2. \A k \in DOMAIN kernel : k < i + 1 => k < i \/ k = i
      BY <1>1
    <3>3. \A k \in DOMAIN kernel : k < i + 1 => SegmentOk(kernel[k])
      BY <2>2, <3>1, <3>2
    <3> QED BY <1>1, <1>2, <2>1, <3>3 DEF PlanOk, Late
  <2>8. Checked' /\ Owned'
    BY <1>1, <2>1 DEF Checked, Owned, Late
  <2>9. Counted'
    <3>1. PlanBytes(i - 1)' = PlanBytes(i)
      <4>1. i' - 1 = i
        BY <1>1, <2>1
      <4> QED BY <1>2, <4>1 DEF PlanBytes
    <3>2. i' - 1 <= Len(kernel')
      BY <1>1, <1>2, <2>1
    <3> QED BY <1>1, <1>2, <2>1, <2>4, <3>1, <3>2, BytesFrame DEF MInv, Counted, Late
  <2> QED BY <1>3, <2>6, <2>7, <2>8, <2>9 DEF MInv
<1> QED
  BY <1>5, <1>6

LEMMA PlanCheckedStep == MInv /\ PlanChecked => MInv'
<1> SUFFICES ASSUME MInv, PlanChecked PROVE MInv'
  OBVIOUS
<1>1. /\ pc = "plan" /\ pc' = "descriptor" /\ i' = 1
      /\ UNCHANGED <<status, efi_map, inputs, out, previous_end, cursor, sums>>
      /\ MTypes /\ Sound(out) /\ i \in Nat /\ i > Len(kernel) /\ kernel \in Seq(Segment)
      /\ efi_map \in Seq(Descriptor) /\ out = << >>
  BY DEF PlanChecked, MInv, MTypes
<1>2. /\ UNCHANGED <<reported, kernel, out_capacity, strideOk>>
      /\ UNCHANGED <<expected_kernel_bytes, tagged_kernel_bytes>>
  BY <1>1 DEF inputs, sums
<1>3. Sound(out)' /\ Rearranged(reported, efi_map)'
  BY <1>1, <1>2, SoundFrame DEF MInv
<1>4. MTypes'
  BY <1>1, <1>2 DEF MTypes
<1>5. PlanOk'
  <2>1. \A k \in DOMAIN kernel : k < i => SegmentOk(kernel[k])
    BY <1>1 DEF MInv, PlanOk
  <2>2. \A k \in DOMAIN kernel : k < i
    BY <1>1
  <2> QED BY <1>1, <1>2, <2>1, <2>2 DEF PlanOk
<1>6. \A j \in DOMAIN efi_map : ~(j < 1)
  BY <1>1
<1>7. Checked'
  BY <1>1, <1>6 DEF Checked
<1>8. Owned'
  BY <1>1, <1>6, EmptyOut DEF Owned, Begun
<1>9. Counted'
  <2>1. i - 1 = Len(kernel)
    BY <1>1 DEF MInv, Counted
  <2>2. PlanBytes(Len(kernel))' = PlanBytes(i - 1)
    BY <1>2, <2>1 DEF PlanBytes
  <2> QED BY <1>1, <1>2, <2>2, BytesFrame DEF MInv, Counted
<1> QED
  BY <1>3, <1>4, <1>5, <1>7, <1>8, <1>9 DEF MInv

LEMMA CheckDescriptorStep == MInv /\ CheckDescriptor => MInv'
<1> SUFFICES ASSUME MInv, CheckDescriptor PROVE MInv'
  OBVIOUS
<1>1. /\ pc = "descriptor" /\ UNCHANGED <<efi_map, inputs, out, i, sums>>
      /\ MTypes /\ Sound(out) /\ i \in Nat /\ i > 0 /\ i <= Len(efi_map)
      /\ efi_map \in Seq(Descriptor) /\ cursor \in Nat /\ previous_end \in Nat
  BY DEF CheckDescriptor, MInv, MTypes
<1>2. /\ UNCHANGED <<reported, kernel, out_capacity, strideOk>>
      /\ UNCHANGED <<expected_kernel_bytes, tagged_kernel_bytes>>
  BY <1>1 DEF inputs, sums
<1>3. Sound(out)' /\ Rearranged(reported, efi_map)'
  BY <1>1, <1>2, SoundFrame DEF MInv
<1>4. PICK d \in Descriptor : d = efi_map[i] /\ i \in DOMAIN efi_map
  BY <1>1
<1>5. CASE DescriptorError(d) # "OK"
  <2>1. pc' = "done" /\ status' # "OK" /\ UNCHANGED <<previous_end, cursor>>
    BY <1>4, <1>5 DEF CheckDescriptor, Return
  <2> QED BY <1>1, <1>2, <1>3, <2>1, ErrorStep DEF MTypes
<1>6. CASE DescriptorError(d) = "OK"
  <2>1. /\ pc' = "split" /\ previous_end' = End(d) /\ cursor' = d.PhysicalStart
        /\ status' = status
    BY <1>4, <1>6 DEF CheckDescriptor
  <2>2. End(d) \in Nat /\ d.PhysicalStart \in Nat /\ d.NumberOfPages \in Nat
    BY EndFacts
  <2>3. /\ d.NumberOfPages # 0 /\ Aligned(d.PhysicalStart) /\ ~(End(d) > MaxU64)
        /\ ~(i > 1 /\ d.PhysicalStart < previous_end)
    BY <1>6 DEF DescriptorError
  <2>4. Valid(d)
    BY <2>2, <2>3, PageSize DEF Valid
  <2>5. d.PhysicalStart < End(d)
    BY <2>4, EndFacts
  <2>6. \A l \in DOMAIN efi_map : l < i => End(efi_map[l]) <= d.PhysicalStart
    <3> SUFFICES ASSUME NEW l \in DOMAIN efi_map, l < i
                 PROVE  End(efi_map[l]) <= d.PhysicalStart
      OBVIOUS
    <3>1. End(efi_map[l]) <= previous_end
      BY <1>1 DEF MInv, Checked, Late
    <3>2. i > 1 /\ efi_map[l] \in Descriptor
      BY <1>1
    <3>3. End(efi_map[l]) \in Nat
      BY <3>2, EndFacts
    <3> QED BY <1>1, <2>2, <2>3, <3>1, <3>2, <3>3
  <2>7. MTypes'
    BY <1>1, <1>2, <2>1, <2>2 DEF MTypes
  <2>8. PlanOk'
    BY <1>1, <1>2, <2>1 DEF MInv, PlanOk, Late
  <2>9. Checked'
    <3>1. \A j \in DOMAIN efi_map : j < i => Valid(efi_map[j]) /\
            \A l \in DOMAIN efi_map : l < j => End(efi_map[l]) <= efi_map[j].PhysicalStart
      BY <1>1 DEF MInv, Checked, Late
    <3>2. \A j \in DOMAIN efi_map : j < i => End(efi_map[j]) <= End(d)
      <4> SUFFICES ASSUME NEW j \in DOMAIN efi_map, j < i PROVE End(efi_map[j]) <= End(d)
        OBVIOUS
      <4>1. efi_map[j] \in Descriptor /\ End(efi_map[j]) <= d.PhysicalStart
        BY <1>1, <2>6
      <4>2. End(efi_map[j]) \in Nat
        BY <4>1, EndFacts
      <4> QED BY <2>2, <2>5, <4>1, <4>2
    <3>3. d.PhysicalStart <= d.PhysicalStart /\ d.PhysicalStart <= End(d)
      BY <2>2, <2>5
    <3> QED BY <1>1, <1>4, <2>1, <2>3, <2>4, <2>6, <3>1, <3>2, <3>3 DEF Checked
  <2>10. Owned'
    <3>1. ASSUME NEW a \in Nat PROVE ~Begun(a) /\ ~Begun(a)'
      BY <1>1, <1>4, <2>1, <2>2 DEF Begun, Covers
    <3>2. /\ \A j \in DOMAIN efi_map : j < i =>
                \A a \in Nat : Has(efi_map[j], a) => At(out, a) = {Class(efi_map[j], a)}
          /\ \A a \in Nat : At(out, a) # {} =>
                \E j \in DOMAIN efi_map : j < i /\ Has(efi_map[j], a)
      BY <1>1, <3>1 DEF MInv, Owned, Late
    <3> QED BY <1>1, <1>2, <3>1, <3>2 DEF Owned, Class, InKernel
  <2>11. Counted'
    BY <1>1, <1>2, <2>1, BytesFrame DEF MInv, Counted, Late
  <2> QED BY <1>3, <2>7, <2>8, <2>9, <2>10, <2>11 DEF MInv
<1> QED
  BY <1>5, <1>6

\* Emitting the bytes of the current descriptor from the cursor up to c.
LEMMA AdvanceOwned ==
    ASSUME MInv, pc = "split", NEW d \in Descriptor, d = efi_map[i],
           NEW o, NEW c \in Nat, cursor <= c, c <= End(d),
           \A a \in Nat : At(o, a) =
               IF Covers(cursor, c, a) THEN {Class(d, a)} ELSE At(out, a)
    PROVE  /\ \A j \in DOMAIN efi_map : j < i => \A a \in Nat :
                 Has(efi_map[j], a) => At(o, a) = {Class(efi_map[j], a)}
           /\ \A a \in Nat : Covers(d.PhysicalStart, c, a) => At(o, a) = {Class(d, a)}
           /\ \A a \in Nat : At(o, a) # {} =>
                 \/ Covers(d.PhysicalStart, c, a)
                 \/ \E j \in DOMAIN efi_map : j < i /\ Has(efi_map[j], a)
<1>1. /\ cursor \in Nat /\ efi_map \in Seq(Descriptor) /\ d.PhysicalStart <= cursor
      /\ \A l \in DOMAIN efi_map : l < i => End(efi_map[l]) <= d.PhysicalStart
  BY DEF MInv, MTypes, Checked
<1>2. /\ \A j \in DOMAIN efi_map : j < i =>
           \A a \in Nat : Has(efi_map[j], a) => At(out, a) = {Class(efi_map[j], a)}
      /\ \A a \in Nat : Covers(d.PhysicalStart, cursor, a) => At(out, a) = {Class(d, a)}
      /\ \A a \in Nat : At(out, a) # {} =>
           \/ Covers(d.PhysicalStart, cursor, a)
           \/ \E j \in DOMAIN efi_map : j < i /\ Has(efi_map[j], a)
  BY DEF MInv, Owned, Late, Begun
<1>3. d.PhysicalStart \in Nat
  BY EndFacts
<1>4. ASSUME NEW j \in DOMAIN efi_map, j < i, NEW a \in Nat, Has(efi_map[j], a)
      PROVE  At(o, a) = {Class(efi_map[j], a)}
  <2>1. efi_map[j] \in Descriptor
    BY <1>1
  <2>2. End(efi_map[j]) \in Nat /\ a < End(efi_map[j]) /\ End(efi_map[j]) <= d.PhysicalStart
    BY <1>1, <1>4, <2>1, EndFacts DEF Has, Covers
  <2>3. ~Covers(cursor, c, a)
    BY <1>1, <1>3, <2>2 DEF Covers
  <2> QED BY <1>2, <1>4, <2>3, Zenon
<1>5. ASSUME NEW a \in Nat, Covers(d.PhysicalStart, c, a)
      PROVE  At(o, a) = {Class(d, a)}
  <2>1. Covers(cursor, c, a) \/ Covers(d.PhysicalStart, cursor, a)
    BY <1>1, <1>3, <1>5 DEF Covers
  <2> QED BY <1>2, <2>1, Zenon
<1>6. ASSUME NEW a \in Nat, At(o, a) # {}
      PROVE  \/ Covers(d.PhysicalStart, c, a)
             \/ \E j \in DOMAIN efi_map : j < i /\ Has(efi_map[j], a)
  <2>1. Covers(cursor, c, a) \/ Covers(d.PhysicalStart, cursor, a)
          => Covers(d.PhysicalStart, c, a)
    BY <1>1, <1>3 DEF Covers
  <2> QED BY <1>2, <1>6, <2>1, Zenon
<1> QED
  BY <1>4, <1>5, <1>6

\* The count of a set of bytes that grows by a range it did not meet.
LEMMA TaggedGrows ==
    ASSUME NEW T, T \subseteq 0 .. MaxU64, NEW lo \in Nat, NEW hi \in Nat, lo <= hi,
           T \intersect (lo .. (hi - 1)) = {}
    PROVE  Cardinality(T \union (lo .. (hi - 1))) = Cardinality(T) + (hi - lo)
<1>1. IsFiniteSet(T)
  <2>1. 0 \in Int /\ MaxU64 \in Int
    BY PageSize
  <2>2. IsFiniteSet(0 .. MaxU64)
    BY <2>1, FS_Interval
  <2> QED BY <2>2, FS_Subset
<1>2. IsFiniteSet(lo .. (hi - 1)) /\ Cardinality(lo .. (hi - 1)) = hi - lo
  <2>1. lo \in Int /\ hi - 1 \in Int
    OBVIOUS
  <2>2. /\ IsFiniteSet(lo .. (hi - 1))
        /\ Cardinality(lo .. (hi - 1)) = IF lo > hi - 1 THEN 0 ELSE (hi - 1) - lo + 1
    BY <2>1, FS_Interval
  <2> QED BY <2>2
<1> DEFINE S == lo .. (hi - 1)
<1> HIDE DEF S
<1>3. Cardinality(T \union S) = Cardinality(T) + Cardinality(S) - Cardinality({})
  <2>1. Cardinality(T \union S) =
          Cardinality(T) + Cardinality(S) - Cardinality(T \intersect S)
    BY <1>1, <1>2, FS_Union DEF S
  <2> QED BY <2>1 DEF S
<1>4. Cardinality(T) \in Nat
  BY <1>1, FS_CardinalityType
<1> QED
  BY <1>2, <1>3, <1>4, FS_EmptySet DEF S

\* Before the next segment there is no byte of the kernel.
LEMMA NothingBeforeNext ==
    ASSUME kernel \in Seq(Segment), NEW from \in Nat, NEW to \in Nat,
           NEW k \in DOMAIN kernel, IsNext(k, from, to),
           NEW a \in Nat, from <= a, a < kernel[k].page_base
    PROVE  ~InKernel(a)
<1> SUFFICES ASSUME NEW j \in DOMAIN kernel,
                    Covers(kernel[j].page_base, kernel[j].page_end, a)
             PROVE  FALSE
  BY DEF InKernel
<1>1. /\ kernel[j].page_base \in Nat /\ kernel[j].page_end \in Nat
      /\ kernel[k].page_base \in Nat
  BY SegmentFacts
<1>2. kernel[k].page_base < to
  BY DEF IsNext, Intersecting
<1>3. kernel[j].page_end > from /\ kernel[j].page_base < to
  BY <1>1, <1>2 DEF Covers
<1>4. j \in Intersecting(from, to)
  BY <1>3 DEF Intersecting
<1>5. kernel[k].page_base <= kernel[j].page_base
  BY <1>1, <1>4 DEF IsNext
<1> QED
  BY <1>1, <1>5 DEF Covers

LEMMA SplitStepLemma == MInv /\ SplitStep => MInv'
<1> SUFFICES ASSUME MInv, SplitStep PROVE MInv'
  OBVIOUS
<1>1. /\ pc = "split" /\ UNCHANGED <<efi_map, inputs, out_count, i, previous_end>>
      /\ expected_kernel_bytes' = expected_kernel_bytes
      /\ MTypes /\ Sound(out) /\ out \in Seq(Entry) /\ i \in Nat /\ i > 0
      /\ efi_map \in Seq(Descriptor) /\ cursor \in Nat /\ kernel \in Seq(Segment)
      /\ out_capacity \in Nat
  BY DEF SplitStep, MInv, MTypes
<1>2. UNCHANGED <<reported, kernel, out_capacity, strideOk>>
  BY <1>1 DEF inputs
<1>3. PICK d \in Descriptor : d = efi_map[i] /\ i \in DOMAIN efi_map
  BY <1>1 DEF MInv, Checked
<1>4. /\ Valid(d) /\ previous_end = End(d) /\ Aligned(cursor)
      /\ d.PhysicalStart <= cursor /\ cursor <= End(d)
  BY <1>1, <1>3 DEF MInv, Checked
<1>5. PICK E \in Nat : E = End(d) /\ Aligned(E) /\ E <= MaxU64
  BY <1>4, EndFacts DEF Valid
<1>6. PICK k \in Remaining(d) : IsNext(k, cursor, E) /\ Split(k)
  BY <1>3, <1>5 DEF SplitStep
<1>7. efi_to_sypas_memtype(d.Type) = "LOADER" /\ k \in Intersecting(cursor, E)
  BY <1>5, <1>6 DEF Remaining
<1>8. k \in DOMAIN kernel /\ kernel[k].page_end > cursor /\ kernel[k].page_base < E
  BY <1>7 DEF Intersecting
<1>9. PICK b \in Nat : b = kernel[k].page_base
  BY <1>1, <1>8, SegmentFacts
<1>10. PICK e \in Nat : e = kernel[k].page_end
  BY <1>1, <1>8, SegmentFacts
<1>11. Aligned(b) /\ Aligned(e) /\ b < e
  BY <1>1, <1>8, <1>9, <1>10 DEF MInv, PlanOk, SegmentOk, Late
<1>12. PICK lo : lo = Max({b, cursor})
  OBVIOUS
<1>13. PICK hi : hi = Min({e, E})
  OBVIOUS
<1>14. /\ lo \in Nat /\ hi \in Nat /\ cursor <= lo /\ lo <= hi /\ hi <= E
       /\ lo = IF b >= cursor THEN b ELSE cursor
       /\ hi = IF e <= E THEN e ELSE E
  <2>1. lo = IF b >= cursor THEN b ELSE cursor
    BY <1>1, <1>12, MaxOfTwo
  <2>2. hi = IF e <= E THEN e ELSE E
    BY <1>13, MinOfTwo
  <2> QED BY <1>1, <1>4, <1>5, <1>8, <1>9, <1>10, <1>11, <2>1, <2>2
<1>15. Aligned(lo) /\ Aligned(hi)
  BY <1>4, <1>5, <1>11, <1>14
<1>16. PICK before : before = append(out, cursor, lo, "LOADER")
  OBVIOUS
<1>17. PICK both : both = append(before.out, lo, hi, "KERNEL")
  OBVIOUS
<1>18. /\ before.out \in Seq(Entry) /\ Sound(before.out)
       /\ before.status = "OK" =>
            /\ \A a \in Nat : At(before.out, a) =
                 IF Covers(cursor, lo, a) THEN {"LOADER"} ELSE At(out, a)
            /\ cursor < lo => \A a \in Nat : a >= cursor => At(out, a) = {}
  <2>1. "LOADER" \in MemType /\ lo <= MaxU64
    BY <1>5, <1>14, PageSize DEF MemType
  <2>2. /\ out_capacity \in Nat /\ out \in Seq(Entry) /\ Sound(out)
        /\ cursor \in Nat /\ lo \in Nat /\ Aligned(cursor) /\ Aligned(lo)
        /\ cursor <= lo
    BY <1>1, <1>4, <1>14, <1>15
  <2>3. LET r == append(out, cursor, lo, "LOADER") IN
        /\ r.out \in Seq(Entry) /\ Sound(r.out)
        /\ r.status = "OK" =>
             /\ \A a \in Nat : At(r.out, a) =
                  IF Covers(cursor, lo, a) THEN {"LOADER"} ELSE At(out, a)
             /\ cursor < lo => \A a \in Nat : a >= cursor => At(out, a) = {}
    BY <2>1, <2>2, AppendEffect
  <2> QED BY <1>16, <2>3
<1>19. /\ both.out \in Seq(Entry) /\ Sound(both.out)
       /\ both.status = "OK" =>
            /\ \A a \in Nat : At(both.out, a) =
                 IF Covers(lo, hi, a) THEN {"KERNEL"} ELSE At(before.out, a)
            /\ lo < hi => \A a \in Nat : a >= lo => At(before.out, a) = {}
  <2>1. "KERNEL" \in MemType /\ hi <= MaxU64
    BY <1>5, <1>14, PageSize DEF MemType
  <2>2. /\ out_capacity \in Nat /\ before.out \in Seq(Entry) /\ Sound(before.out)
        /\ lo \in Nat /\ hi \in Nat /\ Aligned(lo) /\ Aligned(hi) /\ lo <= hi
    BY <1>1, <1>14, <1>15, <1>18
  <2>3. LET r == append(before.out, lo, hi, "KERNEL") IN
        /\ r.out \in Seq(Entry) /\ Sound(r.out)
        /\ r.status = "OK" =>
             /\ \A a \in Nat : At(r.out, a) =
                  IF Covers(lo, hi, a) THEN {"KERNEL"} ELSE At(before.out, a)
             /\ lo < hi => \A a \in Nat : a >= lo => At(before.out, a) = {}
    BY <2>1, <2>2, AppendEffect
  <2> QED BY <1>17, <2>3
<1>20. IF before.status # "OK"
       THEN /\ Return(before.status)
            /\ out' = before.out
            /\ UNCHANGED <<cursor, tagged_kernel_bytes>>
       ELSE IF both.status # "OK"
       THEN /\ Return(both.status)
            /\ out' = both.out
            /\ UNCHANGED <<cursor, tagged_kernel_bytes>>
       ELSE /\ out' = both.out
            /\ tagged_kernel_bytes' = tagged_kernel_bytes + (hi - lo)
            /\ cursor' = hi
            /\ UNCHANGED <<pc, status>>
  BY <1>3, <1>5, <1>6, <1>9, <1>10, <1>12, <1>13, <1>16, <1>17 DEF Split
<1>21. CASE before.status # "OK"
  <2>1. /\ pc' = "done" /\ status' # "OK" /\ out' = before.out
        /\ UNCHANGED <<cursor, tagged_kernel_bytes>>
    BY <1>20, <1>21 DEF Return
  <2>2. Sound(out)'
    BY <1>2, <1>18, <2>1, SoundFrame
  <2> QED BY <1>1, <1>18, <2>1, <2>2, ErrorStep DEF MTypes
<1>22. CASE before.status = "OK" /\ both.status # "OK"
  <2>1. /\ pc' = "done" /\ status' # "OK" /\ out' = both.out
        /\ UNCHANGED <<cursor, tagged_kernel_bytes>>
    BY <1>20, <1>22 DEF Return
  <2>2. Sound(out)'
    BY <1>2, <1>19, <2>1, SoundFrame
  <2> QED BY <1>1, <1>19, <2>1, <2>2, ErrorStep DEF MTypes
<1>23. CASE before.status = "OK" /\ both.status = "OK"
  <2>1. /\ out' = both.out /\ tagged_kernel_bytes' = tagged_kernel_bytes + (hi - lo)
        /\ cursor' = hi /\ pc' = pc /\ status' = status
    BY <1>20, <1>23
  <2>2. Sound(out)' /\ Rearranged(reported, efi_map)'
    BY <1>1, <1>2, <1>19, <2>1, SoundFrame DEF MInv
  <2>3. tagged_kernel_bytes \in Nat /\ tagged_kernel_bytes' \in Nat
    BY <1>1, <1>14, <2>1 DEF MTypes
  <2>4. MTypes'
    BY <1>1, <1>2, <1>14, <1>19, <2>1, <2>3 DEF MTypes
  <2>5. PlanOk'
    BY <1>1, <1>2, <2>1 DEF MInv, PlanOk, Late
  <2>6. d.PhysicalStart \in Nat /\ d.PhysicalStart <= hi
    BY <1>1, <1>4, <1>14, EndFacts
  <2>7. Checked'
    BY <1>1, <1>3, <1>5, <1>14, <1>15, <2>1, <2>6 DEF MInv, Checked, Late
  <2>8. \A a \in Nat : At(both.out, a) =
          IF Covers(cursor, hi, a) THEN {Class(d, a)} ELSE At(out, a)
    <3> SUFFICES ASSUME NEW a \in Nat
                 PROVE  At(both.out, a) =
                          IF Covers(cursor, hi, a) THEN {Class(d, a)} ELSE At(out, a)
      OBVIOUS
    <3>1. CASE Covers(lo, hi, a)
      <4>1. Covers(cursor, hi, a) /\ Covers(b, e, a)
        BY <1>1, <1>14, <3>1 DEF Covers
      <4>2. InKernel(a)
        BY <1>8, <1>9, <1>10, <4>1 DEF InKernel
      <4>3. Class(d, a) = "KERNEL"
        BY <1>7, <4>2 DEF Class
      <4> QED BY <1>19, <1>23, <3>1, <4>1, <4>3, Zenon
    <3>2. CASE Covers(cursor, lo, a)
      <4>1. Covers(cursor, hi, a) /\ ~Covers(lo, hi, a) /\ cursor <= a /\ a < b
        BY <1>1, <1>14, <3>2 DEF Covers
      <4>2. ~InKernel(a)
        BY <1>1, <1>6, <1>8, <1>9, <4>1, NothingBeforeNext
      <4>3. Class(d, a) = "LOADER"
        BY <1>7, <4>2 DEF Class
      <4> QED BY <1>18, <1>19, <1>23, <3>2, <4>1, <4>3, Zenon
    <3>3. CASE ~Covers(lo, hi, a) /\ ~Covers(cursor, lo, a)
      <4>1. ~Covers(cursor, hi, a)
        BY <1>1, <1>14, <3>3 DEF Covers
      <4> QED BY <1>18, <1>19, <1>23, <3>3, <4>1, Zenon
    <3> QED BY <3>1, <3>2, <3>3
  <2>9. /\ \A j \in DOMAIN efi_map : j < i => \A a \in Nat :
             Has(efi_map[j], a) => At(both.out, a) = {Class(efi_map[j], a)}
        /\ \A a \in Nat : Covers(d.PhysicalStart, hi, a) => At(both.out, a) = {Class(d, a)}
        /\ \A a \in Nat : At(both.out, a) # {} =>
             \/ Covers(d.PhysicalStart, hi, a)
             \/ \E j \in DOMAIN efi_map : j < i /\ Has(efi_map[j], a)
    <3>1. cursor <= hi /\ hi <= End(d)
      BY <1>1, <1>5, <1>14
    <3>2. pc = "split" /\ d = efi_map[i] /\ hi \in Nat
      BY <1>1, <1>3, <1>14
    <3> QED BY <2>8, <3>1, <3>2, AdvanceOwned
  <2>10. Owned'
    <3>1. \A a \in Nat : Begun(a)' <=> Covers(d.PhysicalStart, hi, a)
      BY <1>1, <1>3, <2>1 DEF Begun
    <3> QED BY <1>1, <1>2, <1>3, <2>1, <2>9, <3>1 DEF Owned, Class, InKernel
  <2>11. Cardinality(Tagged)' = Cardinality(Tagged) + (hi - lo)
    <3>1. \A a \in Nat : At(both.out, a) = {"KERNEL"} <=>
            At(out, a) = {"KERNEL"} \/ Covers(lo, hi, a)
      <4> SUFFICES ASSUME NEW a \in Nat
                   PROVE  At(both.out, a) = {"KERNEL"} <=>
                            At(out, a) = {"KERNEL"} \/ Covers(lo, hi, a)
        OBVIOUS
      <4>1. CASE Covers(lo, hi, a)
        BY <1>19, <1>23, <4>1, Zenon
      <4>2. CASE ~Covers(lo, hi, a) /\ Covers(cursor, lo, a)
        <5>1. cursor < lo /\ a >= cursor
          BY <1>1, <1>14, <4>2 DEF Covers
        <5>2. At(out, a) = {} /\ At(both.out, a) = {"LOADER"}
          BY <1>18, <1>19, <1>23, <4>2, <5>1, Zenon
        <5> QED BY <4>2, <5>2
      <4>3. CASE ~Covers(lo, hi, a) /\ ~Covers(cursor, lo, a)
        BY <1>18, <1>19, <1>23, <4>3, Zenon
      <4> QED BY <4>1, <4>2, <4>3
    <3>2. \A a \in Nat : Covers(lo, hi, a) => At(out, a) # {"KERNEL"}
      <4> SUFFICES ASSUME NEW a \in Nat, Covers(lo, hi, a) PROVE At(out, a) # {"KERNEL"}
        OBVIOUS
      <4>1. lo < hi /\ a >= lo /\ ~Covers(cursor, lo, a)
        BY <1>1, <1>14 DEF Covers
      <4>2. At(before.out, a) = {} /\ At(before.out, a) = At(out, a)
        BY <1>18, <1>19, <1>23, <4>1, Zenon
      <4> QED BY <4>2
    <3>3. Tagged' = Tagged \union (lo .. (hi - 1))
      <4>1. \A a \in 0 .. MaxU64 : Covers(lo, hi, a) <=> a \in lo .. (hi - 1)
        BY <1>14 DEF Covers
      <4>2. lo .. (hi - 1) \subseteq 0 .. MaxU64
        BY <1>5, <1>14, PageSize
      <4>3. \A a \in 0 .. MaxU64 : a \in Nat
        OBVIOUS
      <4> QED BY <2>1, <3>1, <4>1, <4>2, <4>3, Zenon DEF Tagged
    <3>4. Tagged \intersect (lo .. (hi - 1)) = {} /\ Tagged \subseteq 0 .. MaxU64
      BY <1>14, <3>2 DEF Tagged, Covers
    <3> QED BY <1>14, <3>3, <3>4, TaggedGrows
  <2>12. Counted'
    <3>1. tagged_kernel_bytes = Cardinality(Tagged)
      BY <1>1 DEF MInv, Counted
    <3> QED BY <1>1, <1>2, <2>1, <2>11, <3>1, BytesFrame DEF MInv, Counted, Late
  <2> QED BY <2>2, <2>4, <2>5, <2>7, <2>10, <2>12 DEF MInv
<1> QED
  BY <1>21, <1>22, <1>23

LEMMA TailStepLemma == MInv /\ TailStep => MInv'
<1> SUFFICES ASSUME MInv, TailStep PROVE MInv'
  OBVIOUS
<1>1. /\ pc = "split" /\ UNCHANGED <<efi_map, inputs, out_count, previous_end, cursor, sums>>
      /\ MTypes /\ Sound(out) /\ out \in Seq(Entry) /\ i \in Nat /\ i > 0
      /\ efi_map \in Seq(Descriptor) /\ cursor \in Nat /\ kernel \in Seq(Segment)
      /\ out_capacity \in Nat
  BY DEF TailStep, MInv, MTypes
<1>2. /\ UNCHANGED <<reported, kernel, out_capacity, strideOk>>
      /\ UNCHANGED <<expected_kernel_bytes, tagged_kernel_bytes>>
  BY <1>1 DEF inputs, sums
<1>3. PICK d \in Descriptor : d = efi_map[i] /\ i \in DOMAIN efi_map
  BY <1>1 DEF MInv, Checked
<1>4. /\ Valid(d) /\ previous_end = End(d) /\ Aligned(cursor)
      /\ d.PhysicalStart <= cursor /\ cursor <= End(d)
  BY <1>1, <1>3 DEF MInv, Checked
<1>5. PICK E \in Nat : E = End(d) /\ Aligned(E) /\ E <= MaxU64
  BY <1>4, EndFacts DEF Valid
<1>6. PICK t \in MemType : t = efi_to_sypas_memtype(d.Type) /\ t # "KERNEL"
  BY MemtypeFacts
<1>7. PICK rest : rest = append(out, cursor, E, t)
  OBVIOUS
<1>8. /\ rest.out \in Seq(Entry) /\ Sound(rest.out)
      /\ rest.status = "OK" =>
           /\ \A a \in Nat : At(rest.out, a) =
                IF Covers(cursor, E, a) THEN {t} ELSE At(out, a)
           /\ cursor < E => \A a \in Nat : a >= cursor => At(out, a) = {}
  <2>1. /\ out_capacity \in Nat /\ out \in Seq(Entry) /\ Sound(out)
        /\ cursor \in Nat /\ Aligned(cursor) /\ Aligned(E) /\ cursor <= E /\ E <= MaxU64
    BY <1>1, <1>4, <1>5
  <2>2. LET r == append(out, cursor, E, t) IN
        /\ r.out \in Seq(Entry) /\ Sound(r.out)
        /\ r.status = "OK" =>
             /\ \A a \in Nat : At(r.out, a) =
                  IF Covers(cursor, E, a) THEN {t} ELSE At(out, a)
             /\ cursor < E => \A a \in Nat : a >= cursor => At(out, a) = {}
    BY <2>1, AppendEffect
  <2> QED BY <1>7, <2>2
<1>9. /\ Remaining(d) = {} /\ out' = rest.out
      /\ IF rest.status = "OK"
         THEN pc' = "descriptor" /\ i' = i + 1 /\ UNCHANGED status
         ELSE Return(rest.status) /\ UNCHANGED i
  BY <1>3, <1>5, <1>6, <1>7 DEF TailStep
<1>10. Sound(out)'
  BY <1>2, <1>8, <1>9, SoundFrame
<1>11. CASE rest.status # "OK"
  <2>1. pc' = "done" /\ status' # "OK" /\ i' = i
    BY <1>9, <1>11 DEF Return
  <2> QED BY <1>1, <1>2, <1>8, <1>9, <1>10, <2>1, ErrorStep DEF MTypes
<1>12. CASE rest.status = "OK"
  <2>1. pc' = "descriptor" /\ i' = i + 1 /\ status' = status
    BY <1>9, <1>12
  <2>2. Rearranged(reported, efi_map)'
    BY <1>1, <1>2 DEF MInv
  <2>3. MTypes'
    BY <1>1, <1>2, <1>8, <1>9, <2>1 DEF MTypes
  <2>4. PlanOk'
    BY <1>1, <1>2, <2>1 DEF MInv, PlanOk, Late
  <2>5. \A j \in DOMAIN efi_map : j < i + 1 => j < i \/ j = i
    BY <1>1
  <2>6. Checked'
    <3>1. /\ \A j \in DOMAIN efi_map : j < i =>
               /\ Valid(efi_map[j]) /\ End(efi_map[j]) <= previous_end
               /\ \A l \in DOMAIN efi_map :
                    l < j => End(efi_map[l]) <= efi_map[j].PhysicalStart
          /\ \A l \in DOMAIN efi_map : l < i => End(efi_map[l]) <= efi_map[i].PhysicalStart
      BY <1>1 DEF MInv, Checked, Late
    <3>2. End(efi_map[i]) <= previous_end
      BY <1>3, <1>4, <1>5
    <3>3. \A j \in DOMAIN efi_map : j < i + 1 =>
            /\ Valid(efi_map[j]) /\ End(efi_map[j]) <= previous_end
            /\ \A l \in DOMAIN efi_map :
                 l < j => End(efi_map[l]) <= efi_map[j].PhysicalStart
      BY <1>3, <1>4, <2>5, <3>1, <3>2, Zenon
    <3> QED BY <1>1, <2>1, <3>3 DEF Checked
  <2>7. \A a \in Nat : Covers(cursor, E, a) => Class(d, a) = t
    <3> SUFFICES ASSUME NEW a \in Nat, Covers(cursor, E, a), t = "LOADER"
                 PROVE  ~InKernel(a)
      BY <1>6 DEF Class
    <3>1. Intersecting(cursor, E) = {}
      BY <1>5, <1>6, <1>9 DEF Remaining
    <3> SUFFICES ASSUME NEW k \in DOMAIN kernel,
                        Covers(kernel[k].page_base, kernel[k].page_end, a)
                 PROVE  FALSE
      BY DEF InKernel
    <3>2. kernel[k].page_base \in Nat /\ kernel[k].page_end \in Nat
      BY <1>1, SegmentFacts
    <3>3. kernel[k].page_end > cursor /\ kernel[k].page_base < E
      BY <1>1, <3>2 DEF Covers
    <3> QED BY <3>1, <3>3 DEF Intersecting
  <2>8. \A a \in Nat : At(rest.out, a) =
          IF Covers(cursor, E, a) THEN {Class(d, a)} ELSE At(out, a)
    BY <1>8, <1>12, <2>7, Zenon
  <2>9. /\ \A j \in DOMAIN efi_map : j < i => \A a \in Nat :
             Has(efi_map[j], a) => At(rest.out, a) = {Class(efi_map[j], a)}
        /\ \A a \in Nat : Covers(d.PhysicalStart, E, a) => At(rest.out, a) = {Class(d, a)}
        /\ \A a \in Nat : At(rest.out, a) # {} =>
             \/ Covers(d.PhysicalStart, E, a)
             \/ \E j \in DOMAIN efi_map : j < i /\ Has(efi_map[j], a)
    <3>1. cursor <= E /\ E <= End(d) /\ pc = "split" /\ d = efi_map[i]
      BY <1>1, <1>3, <1>4, <1>5
    <3> QED BY <2>8, <3>1, AdvanceOwned
  <2>10. Owned'
    <3>1. \A a \in Nat : Has(efi_map[i], a) <=> Covers(d.PhysicalStart, E, a)
      BY <1>3, <1>5 DEF Has
    <3>2. i \in DOMAIN efi_map /\ i < i + 1 /\ \A j \in DOMAIN efi_map : j < i => j < i + 1
      BY <1>1, <1>3
    <3>3. /\ \A j \in DOMAIN efi_map : j < i + 1 => \A a \in Nat :
               Has(efi_map[j], a) => At(rest.out, a) = {Class(efi_map[j], a)}
          /\ \A a \in Nat : At(rest.out, a) # {} =>
               \E j \in DOMAIN efi_map : j < i + 1 /\ Has(efi_map[j], a)
      BY <1>3, <2>5, <2>9, <3>1, <3>2, Zenon
    <3> QED BY <1>1, <1>2, <1>9, <2>1, <3>3 DEF Owned, Begun, Class, InKernel
  <2>11. Tagged' = Tagged
    <3>1. \A a \in Nat : At(rest.out, a) = {"KERNEL"} <=> At(out, a) = {"KERNEL"}
      <4> SUFFICES ASSUME NEW a \in Nat
                   PROVE  At(rest.out, a) = {"KERNEL"} <=> At(out, a) = {"KERNEL"}
        OBVIOUS
      <4>1. CASE Covers(cursor, E, a)
        <5>1. cursor < E /\ a >= cursor
          BY <1>1, <4>1 DEF Covers
        <5>2. At(out, a) = {} /\ At(rest.out, a) = {t}
          BY <1>8, <1>12, <4>1, <5>1, Zenon
        <5> QED BY <1>6, <5>2
      <4>2. CASE ~Covers(cursor, E, a)
        BY <1>8, <1>12, <4>2, Zenon
      <4> QED BY <4>1, <4>2
    <3>2. \A a \in 0 .. MaxU64 : a \in Nat
      OBVIOUS
    <3> QED BY <1>9, <3>1, <3>2, Zenon DEF Tagged
  <2>12. Counted'
    BY <1>1, <1>2, <2>1, <2>11, BytesFrame DEF MInv, Counted, Late
  <2> QED BY <1>10, <2>2, <2>3, <2>4, <2>6, <2>10, <2>12 DEF MInv
<1> QED
  BY <1>11, <1>12

LEMMA FinishStep == MInv /\ Finish => MInv'
<1> SUFFICES ASSUME MInv, Finish PROVE MInv'
  OBVIOUS
<1>1. /\ pc = "descriptor" /\ i > Len(efi_map) /\ pc' = "done"
      /\ UNCHANGED <<efi_map, inputs, out, i, previous_end, cursor, sums>>
      /\ MTypes /\ Sound(out)
  BY DEF Finish, Return, MInv
<1>2. /\ UNCHANGED <<reported, kernel, out_capacity, strideOk>>
      /\ UNCHANGED <<expected_kernel_bytes, tagged_kernel_bytes>>
  BY <1>1 DEF inputs, sums
<1>3. Sound(out)' /\ Rearranged(reported, efi_map)'
  BY <1>1, <1>2, SoundFrame DEF MInv
<1>4. CASE tagged_kernel_bytes # expected_kernel_bytes
  <2>1. status' # "OK"
    BY <1>4 DEF Finish, Return
  <2> QED BY <1>1, <1>2, <1>3, <2>1, ErrorStep DEF MTypes
<1>5. CASE tagged_kernel_bytes = expected_kernel_bytes
  <2>1. status' = "OK"
    BY <1>5 DEF Finish, Return
  <2>2. MTypes'
    BY <1>1, <1>2, <2>1 DEF MTypes
  <2>3. PlanOk'
    BY <1>1, <1>2, <2>1 DEF MInv, PlanOk, Late
  <2>4. Checked'
    BY <1>1, <1>2, <2>1 DEF MInv, Checked, Late
  <2>5. Owned'
    BY <1>1, <1>2, <2>1 DEF MInv, Owned, Late, Begun, Class, InKernel
  <2>6. Counted'
    BY <1>1, <1>2, <1>5, <2>1, BytesFrame DEF MInv, Counted, Late
  <2> QED BY <1>3, <2>2, <2>3, <2>4, <2>5, <2>6 DEF MInv
<1> QED
  BY <1>4, <1>5

LEMMA TranslatorStutter == MInv /\ UNCHANGED vars => MInv'
<1> SUFFICES ASSUME MInv, UNCHANGED vars PROVE MInv'
  OBVIOUS
<1>1. /\ UNCHANGED <<pc, status, efi_map, out, out_count, i, previous_end, cursor>>
      /\ UNCHANGED <<reported, kernel, out_capacity, strideOk>>
      /\ UNCHANGED <<expected_kernel_bytes, tagged_kernel_bytes>>
  BY DEF vars, inputs, sums
<1>2. Sound(out)' /\ Rearranged(reported, efi_map)'
  BY <1>1, SoundFrame DEF MInv
<1>3. MTypes'
  BY <1>1 DEF MInv, MTypes
<1>4. PlanOk'
  BY <1>1 DEF MInv, PlanOk, Late
<1>5. Checked'
  BY <1>1 DEF MInv, Checked, Late
<1>6. Owned'
  BY <1>1 DEF MInv, Owned, Late, Begun, Class, InKernel
<1>7. Counted'
  <2>1. i' - 1 = i - 1
    BY <1>1
  <2> QED BY <1>1, <2>1, BytesFrame DEF MInv, Counted, Late
<1> QED
  BY <1>2, <1>3, <1>4, <1>5, <1>6, <1>7 DEF MInv

\* MInv is inductive.
THEOREM TranslatorInvariant == Spec => []MInv
<1>1. MInv /\ Next => MInv'
  BY EnterStep, SortSteps, CheckSegmentStep, PlanCheckedStep, CheckDescriptorStep,
     SplitStepLemma, TailStepLemma, FinishStep DEF Next
<1>2. MInv /\ [Next]_vars => MInv'
  BY <1>1, TranslatorStutter
<1> QED
  BY <1>2, TranslatorInit, PTL DEF Spec

(***************************************************************************)
(* What the output says when the call has succeeded                        *)
(***************************************************************************)

Accepted == pc = "done" /\ status = "OK"

\* Every descriptor has been checked and is in the output.
LEMMA AllDone ==
    ASSUME MInv, Accepted
    PROVE  /\ \A j \in DOMAIN efi_map :
                /\ efi_map[j] \in Descriptor /\ Valid(efi_map[j])
                /\ \A l \in DOMAIN efi_map :
                     l < j => End(efi_map[l]) <= efi_map[j].PhysicalStart
                /\ \A a \in Nat : Has(efi_map[j], a) => At(out, a) = {Class(efi_map[j], a)}
           /\ \A a \in Nat : At(out, a) # {} => \E j \in DOMAIN efi_map : Has(efi_map[j], a)
<1>1. /\ i \in Nat /\ i > Len(efi_map) /\ efi_map \in Seq(Descriptor)
      /\ pc = "done" /\ Late
  BY DEF MInv, MTypes, Accepted, Late
<1>2. \A j \in DOMAIN efi_map : j < i /\ efi_map[j] \in Descriptor
  BY <1>1
<1>3. \A j \in DOMAIN efi_map :
        /\ Valid(efi_map[j])
        /\ \A l \in DOMAIN efi_map : l < j => End(efi_map[l]) <= efi_map[j].PhysicalStart
  BY <1>1, <1>2 DEF MInv, Checked
<1>4. \A j \in DOMAIN efi_map : \A a \in Nat :
        Has(efi_map[j], a) => At(out, a) = {Class(efi_map[j], a)}
  BY <1>1, <1>2 DEF MInv, Owned
<1>5. \A a \in Nat : At(out, a) # {} => \E j \in DOMAIN efi_map : Has(efi_map[j], a)
  <2>1. \A a : ~Begun(a)
    BY <1>1 DEF Begun
  <2> QED BY <1>1, <2>1 DEF MInv, Owned
<1> QED
  BY <1>2, <1>3, <1>4, <1>5

\* The sort loses no descriptor and invents none.
LEMMA SameDescriptors ==
    ASSUME MInv
    PROVE  /\ DOMAIN reported = 1 .. Len(reported) /\ DOMAIN efi_map = 1 .. Len(efi_map)
           /\ \E p \in [DOMAIN efi_map -> DOMAIN reported] :
                /\ \A m \in DOMAIN efi_map : efi_map[m] = reported[p[m]]
                /\ \A k \in DOMAIN reported : \E m \in DOMAIN efi_map : p[m] = k
<1>1. DOMAIN reported = 1 .. Len(reported) /\ DOMAIN efi_map = 1 .. Len(efi_map)
  BY DEF MInv, MTypes
<1>2. PICK p \in [1 .. Len(efi_map) -> 1 .. Len(reported)] :
        /\ \A m \in 1 .. Len(efi_map) : efi_map[m] = reported[p[m]]
        /\ \A k \in 1 .. Len(reported) : \E m \in 1 .. Len(efi_map) : p[m] = k
  BY Zenon DEF MInv, Rearranged
<1>3. p \in [DOMAIN efi_map -> DOMAIN reported]
  BY <1>1
<1>4. /\ \A m \in DOMAIN efi_map : efi_map[m] = reported[p[m]]
      /\ \A k \in DOMAIN reported : \E m \in DOMAIN efi_map : p[m] = k
  <2>1. ASSUME NEW m \in DOMAIN efi_map PROVE efi_map[m] = reported[p[m]]
    BY <1>1, <1>2
  <2>2. ASSUME NEW k \in DOMAIN reported PROVE \E m \in DOMAIN efi_map : p[m] = k
    BY <1>1, <1>2
  <2> QED BY <2>1, <2>2
<1> QED
  BY <1>1, <1>3, <1>4

\* The translator compares two byte counts; together with the fact that it
\* tags no byte outside the plan and none twice, their equality says that
\* every byte of the plan is tagged.
LEMMA AllTagged ==
    ASSUME MInv, Accepted, NEW a \in Nat, InKernel(a)
    PROVE  At(out, a) = {"KERNEL"}
<1> DEFINE C == {x \in 0 .. MaxU64 : InKernel(x)}
           P == PlanBytes(Len(kernel))
<1>1. /\ kernel \in Seq(Segment) /\ DOMAIN kernel = 1 .. Len(kernel)
      /\ Len(kernel) \in Nat
  BY DEF MInv, MTypes
<1>2. Cardinality(Tagged) = Cardinality(P)
  BY DEF MInv, Counted, Accepted, Late
<1>3. Tagged \subseteq C
  <2> SUFFICES ASSUME NEW x \in 0 .. MaxU64, At(out, x) = {"KERNEL"} PROVE InKernel(x)
    BY DEF Tagged
  <2>1. x \in Nat /\ At(out, x) # {}
    OBVIOUS
  <2>2. PICK j \in DOMAIN efi_map : Has(efi_map[j], x)
    BY <2>1, AllDone, Zenon
  <2>3. {Class(efi_map[j], x)} = {"KERNEL"}
    BY <2>1, <2>2, AllDone, Zenon
  <2>4. Class(efi_map[j], x) = "KERNEL"
    BY <2>3, Zenon
  <2> QED BY <2>4, MemtypeFacts DEF Class
<1>4. IsFiniteSet(P)
  <2>1. 0 \in Int /\ 1 \in Int /\ MaxU64 \in Int /\ Len(kernel) \in Int
    BY <1>1, PageSize
  <2>2. IsFiniteSet(1 .. Len(kernel)) /\ IsFiniteSet(0 .. MaxU64)
    BY <2>1, FS_Interval
  <2>3. IsFiniteSet((1 .. Len(kernel)) \X (0 .. MaxU64))
    BY <2>2, FS_Product
  <2> QED BY <2>3, FS_Subset DEF PlanBytes
<1>5. IsFiniteSet(C) /\ Cardinality(C) <= Cardinality(P)
  <2> DEFINE f == [p \in P |-> p[2]]
  <2>1. \A p \in P : p[2] \in C
    BY <1>1 DEF PlanBytes, InKernel
  <2>2. \A x \in C : \E p \in P : p[2] = x
    <3> SUFFICES ASSUME NEW x \in C PROVE \E p \in P : p[2] = x
      OBVIOUS
    <3>1. PICK k \in DOMAIN kernel : Covers(kernel[k].page_base, kernel[k].page_end, x)
      BY DEF InKernel
    <3>2. <<k, x>> \in P /\ <<k, x>>[2] = x
      BY <1>1, <3>1 DEF PlanBytes
    <3> QED BY <3>2
  <2>3. f \in Surjection(P, C)
    <3>1. f \in [P -> C]
      BY <2>1
    <3>2. \A x \in C : \E p \in P : f[p] = x
      BY <2>2
    <3> QED BY <3>1, <3>2, Zenon DEF Surjection
  <2> QED BY <1>4, <2>3, FS_Surjection
<1>6. Tagged = C
  <2>1. /\ IsFiniteSet(Tagged) /\ Cardinality(Tagged) <= Cardinality(C)
        /\ Cardinality(Tagged) = Cardinality(C) => Tagged = C
    BY <1>3, <1>5, FS_Subset
  <2>2. Cardinality(Tagged) \in Nat /\ Cardinality(C) \in Nat /\ Cardinality(P) \in Nat
    BY <1>4, <1>5, <2>1, FS_CardinalityType
  <2> QED BY <1>2, <1>5, <2>1, <2>2
<1>7. a \in C
  <2>1. PICK k \in DOMAIN kernel : Covers(kernel[k].page_base, kernel[k].page_end, a)
    BY DEF InKernel
  <2>2. kernel[k].page_end \in Nat /\ kernel[k].page_end <= MaxU64
    BY <1>1, <2>1, SegmentFacts
  <2> QED BY <2>1, <2>2, PageSize DEF Covers
<1> QED
  BY <1>6, <1>7 DEF Tagged

\* What the firmware reported of the byte at a, in terms of the sorted array.
LEMMA ReporterHas ==
    ASSUME MInv, NEW a
    PROVE  /\ \A k \in Reporters(a) : k \in DOMAIN reported /\
                \E m \in DOMAIN efi_map : efi_map[m] = reported[k] /\ Has(efi_map[m], a)
           /\ \A m \in DOMAIN efi_map : Has(efi_map[m], a) =>
                \E k \in Reporters(a) : reported[k] = efi_map[m]
<1>1. PICK p \in [DOMAIN efi_map -> DOMAIN reported] :
        /\ \A m \in DOMAIN efi_map : efi_map[m] = reported[p[m]]
        /\ \A k \in DOMAIN reported : \E m \in DOMAIN efi_map : p[m] = k
  BY SameDescriptors, Zenon
<1>2. ASSUME NEW k \in Reporters(a)
      PROVE  k \in DOMAIN reported /\
               \E m \in DOMAIN efi_map : efi_map[m] = reported[k] /\ Has(efi_map[m], a)
  <2>1. k \in DOMAIN reported /\ Has(reported[k], a)
    BY DEF Reporters, Has
  <2>2. PICK m \in DOMAIN efi_map : p[m] = k
    BY <1>1, <2>1, Zenon
  <2>3. efi_map[m] = reported[k]
    BY <1>1, <2>2
  <2> QED BY <2>1, <2>2, <2>3
<1>3. ASSUME NEW m \in DOMAIN efi_map, Has(efi_map[m], a)
      PROVE  \E k \in Reporters(a) : reported[k] = efi_map[m]
  <2>1. p[m] \in DOMAIN reported /\ efi_map[m] = reported[p[m]]
    BY <1>1
  <2>2. p[m] \in Reporters(a)
    BY <1>3, <2>1 DEF Reporters, Has
  <2> QED BY <2>1, <2>2
<1> QED
  BY <1>2, <1>3, Zenon

\* On success the output gives every byte the owner that the firmware's
\* report and the load plan give it.
LEMMA OwnerIs ==
    ASSUME MInv, Accepted, NEW a \in Nat
    PROVE  At(out, a) = Owner(a)
<1>1. CASE InKernel(a)
  <2>1. At(out, a) = {"KERNEL"}
    BY <1>1, AllTagged
  <2> QED BY <1>1, <2>1 DEF Owner
<1>2. CASE ~InKernel(a)
  <2>1. Owner(a) = {efi_to_sypas_memtype(reported[k].Type) : k \in Reporters(a)}
    BY <1>2 DEF Owner
  <2>2. ASSUME NEW m \in DOMAIN efi_map, Has(efi_map[m], a)
        PROVE  At(out, a) = {efi_to_sypas_memtype(efi_map[m].Type)}
    <3>1. At(out, a) = {Class(efi_map[m], a)}
      BY <2>2, AllDone, Zenon
    <3>2. Class(efi_map[m], a) = efi_to_sypas_memtype(efi_map[m].Type)
      BY <1>2 DEF Class
    <3> QED BY <3>1, <3>2
  <2>3. ASSUME NEW k \in Reporters(a)
        PROVE  At(out, a) = {efi_to_sypas_memtype(reported[k].Type)}
    <3>1. PICK m \in DOMAIN efi_map : efi_map[m] = reported[k] /\ Has(efi_map[m], a)
      BY <2>3, ReporterHas, Zenon
    <3>2. At(out, a) = {efi_to_sypas_memtype(efi_map[m].Type)}
      BY <2>2, <3>1
    <3> QED BY <3>1, <3>2
  <2>4. Reporters(a) = {} => At(out, a) = {}
    <3>1. ASSUME At(out, a) # {} PROVE Reporters(a) # {}
      <4>1. PICK m \in DOMAIN efi_map : Has(efi_map[m], a)
        BY <3>1, AllDone, Zenon
      <4> QED BY <4>1, ReporterHas, Zenon
    <3> QED BY <3>1
  <2> QED BY <2>1, <2>3, <2>4, Zenon
<1> QED
  BY <1>1, <1>2

\* On success the report was one to accept.
LEMMA ReportIsValid ==
    ASSUME MInv, Accepted
    PROVE  ValidReport
<1>1. strideOk
  BY DEF MInv, MTypes, Accepted
<1>2. PICK p \in [DOMAIN efi_map -> DOMAIN reported] :
        /\ \A m \in DOMAIN efi_map : efi_map[m] = reported[p[m]]
        /\ \A k \in DOMAIN reported : \E m \in DOMAIN efi_map : p[m] = k
  BY SameDescriptors, Zenon
<1>3. \A j \in DOMAIN efi_map :
        /\ efi_map[j] \in Descriptor /\ Valid(efi_map[j])
        /\ \A l \in DOMAIN efi_map : l < j => End(efi_map[l]) <= efi_map[j].PhysicalStart
  BY AllDone, Zenon
<1>4. ASSUME NEW k \in DOMAIN reported PROVE Valid(reported[k])
  <2>1. PICK m \in DOMAIN efi_map : p[m] = k
    BY <1>2, Zenon
  <2> QED BY <1>2, <1>3, <2>1, Zenon
<1>5. ASSUME NEW a \in Nat, NEW j \in Reporters(a), NEW k \in Reporters(a)
      PROVE  j = k
  <2>1. PICK m \in DOMAIN efi_map : p[m] = j
    BY <1>2, <1>5 DEF Reporters
  <2>2. PICK n \in DOMAIN efi_map : p[n] = k
    BY <1>2, <1>5 DEF Reporters
  <2>3. Has(efi_map[m], a) /\ Has(efi_map[n], a)
    BY <1>2, <1>5, <2>1, <2>2 DEF Reporters, Has
  <2>4. m \in Nat /\ n \in Nat
    <3>1. efi_map \in Seq(Descriptor)
      BY DEF MInv, MTypes
    <3> QED BY <3>1, <2>1, <2>2
  <2>5. ASSUME NEW x \in DOMAIN efi_map, NEW y \in DOMAIN efi_map, x < y,
               Has(efi_map[x], a), Has(efi_map[y], a)
        PROVE  FALSE
    <3>1. efi_map[x] \in Descriptor /\ efi_map[y] \in Descriptor
      BY <1>3
    <3>2. End(efi_map[x]) \in Nat /\ efi_map[y].PhysicalStart \in Nat
      BY <3>1, EndFacts
    <3>3. End(efi_map[x]) <= efi_map[y].PhysicalStart
      BY <1>3, <2>5
    <3> QED BY <2>5, <3>2, <3>3 DEF Has, Covers
  <2>6. ~(m < n) /\ ~(n < m)
    BY <2>3, <2>5
  <2>7. m = n
    BY <2>4, <2>6
  <2> QED BY <2>1, <2>2, <2>7
<1>6. ASSUME NEW a \in Nat, InKernel(a)
      PROVE  \E k \in Reporters(a) : efi_to_sypas_memtype(reported[k].Type) = "LOADER"
  <2>1. At(out, a) = {"KERNEL"}
    BY <1>6, AllTagged
  <2>2. PICK m \in DOMAIN efi_map : Has(efi_map[m], a)
    <3>1. At(out, a) # {}
      BY <2>1
    <3> QED BY <3>1, AllDone, Zenon
  <2>3. {Class(efi_map[m], a)} = {"KERNEL"}
    BY <2>1, <2>2, AllDone, Zenon
  <2>4. Class(efi_map[m], a) = "KERNEL"
    BY <2>3, Zenon
  <2>5. efi_to_sypas_memtype(efi_map[m].Type) = "LOADER"
    BY <2>4, MemtypeFacts DEF Class
  <2>6. PICK k \in Reporters(a) : reported[k] = efi_map[m]
    BY <2>2, ReporterHas, Zenon
  <2> QED BY <2>5, <2>6
<1>7. Addresses \subseteq Nat
  BY PageSize DEF Addresses
<1>8. \A a \in Addresses :
        /\ \A j, k \in Reporters(a) : j = k
        /\ InKernel(a) => \E k \in Reporters(a) :
             efi_to_sypas_memtype(reported[k].Type) = "LOADER"
  BY <1>5, <1>6, <1>7, Zenon
<1> QED
  BY <1>1, <1>4, <1>8 DEF ValidReport, Valid

(***************************************************************************)
(* Theorems                                                                *)
(***************************************************************************)

\* Whatever the firmware reports, the output array of
\* sypas_translate_memory_map is at every moment sorted, non-overlapping,
\* page-aligned, overflow-free, joined and within the caller's array.
THEOREM OutputIsSound == Spec => []OutputContract
<1>1. MInv => OutputContract
  BY DEF MInv, Sound, OutputContract
<1> QED
  BY <1>1, TranslatorInvariant, PTL

\* On SYPAS_MAP_OK every page the firmware reported has its one true owner,
\* KERNEL just for the load plan, and no other page is in the map.
THEOREM OwnershipIsExact == Spec => []ExactOwnership
<1>1. ASSUME MInv PROVE ExactOwnership
  <2> SUFFICES ASSUME Accepted, NEW a \in Addresses
               PROVE  {out[k].type : k \in {k \in DOMAIN out :
                          Covers(out[k].base, out[k].base + out[k].length, a)}} = Owner(a)
    BY DEF ExactOwnership, Accepted
  <2>1. a \in Nat
    BY PageSize DEF Addresses
  <2>2. At(out, a) = Owner(a)
    BY <1>1, <2>1, OwnerIs
  <2> QED BY <2>2 DEF At, In
<1> QED
  BY <1>1, TranslatorInvariant, PTL

\* The translator fails closed, for every report and every plan: it returns
\* SYPAS_MAP_OK for no report with a range that is empty, unaligned,
\* overflowing or overlapping, or with a kernel page outside loader memory.
THEOREM FailsClosed == Spec => [](pc = "done" /\ status = "OK" => ValidReport)
<1>1. MInv => (pc = "done" /\ status = "OK" => ValidReport)
  BY ReportIsValid DEF Accepted
<1> QED
  BY <1>1, TranslatorInvariant, PTL

(***************************************************************************)
(* Nothing else is refused                                                 *)
(***************************************************************************)

\* A call that has to succeed.
Proper == ValidReport /\ WellPlanned /\ EnoughRoom

\* The first n descriptors are in order.
SortedTo(n) ==
    \A x, y \in DOMAIN efi_map :
        x < y /\ y <= n => efi_map[x].PhysicalStart <= efi_map[y].PhysicalStart

\* The segments that start below m: each has added at most two ranges.
Cut(m) == {k \in DOMAIN kernel : kernel[k].page_base < m}

\* No segment goes on behind a loader descriptor that has been left.
Uncrossed ==
    \A j \in DOMAIN efi_map :
        j < i /\ efi_to_sypas_memtype(efi_map[j].Type) = "LOADER" =>
            \A k \in DOMAIN kernel :
                ~(/\ kernel[k].page_base < End(efi_map[j])
                  /\ End(efi_map[j]) < kernel[k].page_end)

\* The cursor has not moved, or it is at an end.
CursorAt ==
    \/ cursor = efi_map[i].PhysicalStart \/ cursor = End(efi_map[i])
    \/ \E k \in DOMAIN kernel : kernel[k].page_end = cursor

Advancing ==
    /\ pc = "done" => status = "OK"
    /\ pc = "sort" => SortedTo(i - 1)
    /\ pc \in {"plan", "descriptor", "split"} => SortedTo(Len(efi_map))
    /\ pc \in {"descriptor", "split"} => Uncrossed
    /\ pc = "descriptor" =>
         /\ Len(out) <= (i - 1) + 2 * Cardinality(Cut(previous_end))
         /\ i > 1 => i - 1 \in DOMAIN efi_map /\ previous_end = End(efi_map[i - 1])
    /\ pc = "split" =>
         /\ Len(out) <= (i - 1) + 2 * Cardinality(Cut(cursor))
         /\ CursorAt

VInv == Proper => Advancing

\* append succeeds behind everything that is in the array when it has room,
\* and adds at most one range.
LEMMA AppendGoes ==
    ASSUME out_capacity \in Nat, NEW o \in Seq(Entry),
           NEW base \in Nat, NEW end \in Nat, NEW type \in MemType,
           base <= end, end <= MaxU64, o # << >> => LastEnd(o) <= base,
           base = end \/ Len(o) < out_capacity
    PROVE  LET r == append(o, base, end, type) IN
           /\ r.status = "OK" /\ r.out \in Seq(Entry)
           /\ Len(r.out) <= Len(o) + 1
           /\ base = end => r.out = o
           /\ r.out # << >> => LastEnd(r.out) <= end
<1>1. PICK r : r = append(o, base, end, type)
  OBVIOUS
<1> SUFFICES /\ r.status = "OK" /\ r.out \in Seq(Entry)
             /\ Len(r.out) <= Len(o) + 1
             /\ base = end => r.out = o
             /\ r.out # << >> => LastEnd(r.out) <= end
  BY <1>1
<1>2. PICK n \in Nat : n = Len(o)
  OBVIOUS
<1>3. o # << >> => LastEnd(o) \in Nat
  BY LastEndType
<1>4. CASE base = end
  <2>1. r = [status |-> "OK", out |-> o]
    BY <1>1, <1>4 DEF append
  <2> QED BY <1>2, <1>3, <1>4, <2>1
<1>5. CASE base < end /\ Joins(o, base, type)
  <2>1. o # << >> /\ LastEnd(o) = base /\ n > 0
    BY <1>2, <1>5 DEF Joins
  <2>2. PICK p : p = Joined(o, base, end)
    OBVIOUS
  <2>3. r = [status |-> "OK", out |-> p]
    <3>1. ~(LastEnd(o) > MaxU64 \/ LastEnd(o) > base) /\ base # end
      BY <1>5, <2>1, PageSize
    <3> QED BY <1>1, <1>5, <2>1, <2>2, <3>1 DEF append, Joined
  <2>4. PICK x \in Entry : x = o[n] /\ n \in DOMAIN o
    BY <1>2, <2>1
  <2>5. PICK y \in Entry : y = [x EXCEPT !.length = @ + (end - base)]
    <3>1. PICK l \in Nat : l = x.length + (end - base)
      <4>1. x.length \in Nat /\ end - base \in Nat
        BY <1>5 DEF Entry
      <4> QED BY <4>1
    <3>2. [x EXCEPT !.length = l] \in Entry
      BY DEF Entry
    <3> QED BY <3>1, <3>2
  <2>6. p = [o EXCEPT ![n] = y]
    BY <1>2, <2>2, <2>4, <2>5 DEF Joined
  <2>7. p \in Seq(Entry) /\ Len(p) = n /\ p[n] = y
    BY <1>2, <2>4, <2>5, <2>6
  <2>8. x.base + x.length = base
    BY <1>2, <2>1, <2>4 DEF LastEnd
  <2>9. y.base + y.length = end
    <3>1. y.base = x.base /\ y.length = x.length + (end - base)
      BY <2>4, <2>5 DEF Entry
    <3>2. x.base \in Nat /\ x.length \in Nat
      BY DEF Entry
    <3> QED BY <2>8, <3>1, <3>2
  <2>10. LastEnd(p) = end
    BY <2>7, <2>9 DEF LastEnd
  <2> QED BY <1>2, <1>5, <2>3, <2>7, <2>10
<1>6. CASE base < end /\ ~Joins(o, base, type)
  <2>1. PICK e \in Entry : e = [base |-> base, length |-> end - base, type |-> type]
    <3>1. PICK l \in Nat : l = end - base
      BY <1>6
    <3>2. [base |-> base, length |-> l, type |-> type] \in Entry
      BY DEF Entry
    <3> QED BY <3>1, <3>2
  <2>2. r = [status |-> "OK", out |-> Append(o, e)]
    <3>1. /\ ~(o # << >> /\ (LastEnd(o) > MaxU64 \/ LastEnd(o) > base))
          /\ base # end /\ Len(o) # out_capacity
      BY <1>2, <1>3, <1>6, PageSize
    <3> QED BY <1>1, <1>6, <2>1, <3>1 DEF append
  <2>3. PICK p : p = Append(o, e)
    OBVIOUS
  <2>4. p \in Seq(Entry) /\ Len(p) = n + 1 /\ p[n + 1] = e
    BY <1>2, <2>3
  <2>5. LastEnd(p) = base + (end - base)
    BY <2>1, <2>4 DEF LastEnd
  <2> QED BY <1>2, <1>6, <2>2, <2>3, <2>4, <2>5
<1> QED BY <1>4, <1>5, <1>6

\* What is in the output ends before the cursor.
LEMMA OutputBehindCursor ==
    ASSUME MInv, pc = "split", out # << >>
    PROVE  LastEnd(out) <= cursor
<1>1. /\ out \in Seq(Entry) /\ Sound(out) /\ cursor \in Nat
      /\ efi_map \in Seq(Descriptor) /\ i \in DOMAIN efi_map
      /\ efi_map[i].PhysicalStart <= cursor
      /\ \A l \in DOMAIN efi_map : l < i => End(efi_map[l]) <= efi_map[i].PhysicalStart
  BY DEF MInv, MTypes, Checked
<1>2. PICK n \in Nat : n = Len(out) /\ n > 0 /\ n \in DOMAIN out
  BY <1>1
<1>3. PICK b \in Nat, l \in Nat : b = out[n].base /\ l = out[n].length /\ l > 0
  <2>1. out[n] \in Entry /\ out[n].length > 0
    BY <1>1, <1>2 DEF Sound
  <2> QED BY <2>1 DEF Entry
<1>4. LastEnd(out) = b + l
  BY <1>2, <1>3 DEF LastEnd
<1>5. PICK a \in Nat : a = b + l - 1
  BY <1>3
<1>6. In(out, n, a)
  BY <1>3, <1>5 DEF In, Covers
<1>7. At(out, a) # {}
  BY <1>2, <1>6 DEF At
<1>8. \/ Covers(efi_map[i].PhysicalStart, cursor, a)
      \/ \E j \in DOMAIN efi_map : j < i /\ Has(efi_map[j], a)
  BY <1>7 DEF MInv, Owned, Late, Begun
<1>9. a < cursor
  <2>1. CASE Covers(efi_map[i].PhysicalStart, cursor, a)
    BY <2>1 DEF Covers
  <2>2. CASE \E j \in DOMAIN efi_map : j < i /\ Has(efi_map[j], a)
    <3>1. PICK j \in DOMAIN efi_map : j < i /\ Has(efi_map[j], a)
      BY <2>2
    <3>2. efi_map[j] \in Descriptor /\ efi_map[i] \in Descriptor
      BY <1>1, <3>1
    <3>3. End(efi_map[j]) \in Nat /\ efi_map[i].PhysicalStart \in Nat
      BY <3>2, EndFacts
    <3> QED BY <1>1, <3>1, <3>3 DEF Has, Covers
  <2> QED BY <1>8, <2>1, <2>2
<1>10. PICK c \in Nat : c = cursor
  BY <1>1
<1>11. b + l <= c
  BY <1>3, <1>5, <1>9, <1>10
<1> QED BY <1>4, <1>10, <1>11

\* The segments cut so far are as many as there are, at the most, and a new
\* one is one more.
LEMMA CutFacts ==
    ASSUME kernel \in Seq(Segment), NEW m \in Nat, NEW n \in Nat, m <= n
    PROVE  /\ Cardinality(Cut(m)) \in Nat /\ Cardinality(Cut(n)) \in Nat
           /\ Cardinality(Cut(m)) <= Cardinality(Cut(n))
           /\ Cardinality(Cut(n)) <= Len(kernel)
           /\ \A k \in DOMAIN kernel :
                m <= kernel[k].page_base /\ kernel[k].page_base < n =>
                    Cardinality(Cut(m)) + 1 <= Cardinality(Cut(n))
<1>1. Len(kernel) \in Nat /\ DOMAIN kernel = 1 .. Len(kernel)
  OBVIOUS
<1>2. IsFiniteSet(DOMAIN kernel) /\ Cardinality(DOMAIN kernel) = Len(kernel)
  <2>1. PICK K \in Nat : K = Len(kernel) /\ DOMAIN kernel = 1 .. K
    BY <1>1
  <2>2. 1 \in Int /\ K \in Int
    OBVIOUS
  <2>3. IsFiniteSet(1 .. K) /\ Cardinality(1 .. K) = IF 1 > K THEN 0 ELSE K - 1 + 1
    BY <2>2, FS_Interval
  <2>4. (IF 1 > K THEN 0 ELSE K - 1 + 1) = K
    OBVIOUS
  <2> QED BY <2>1, <2>3, <2>4
<1>3. \A k \in DOMAIN kernel : kernel[k].page_base \in Nat
  BY SegmentFacts
<1>4. Cut(n) \subseteq DOMAIN kernel /\ Cut(m) \subseteq Cut(n)
  BY <1>3 DEF Cut
<1>5. IsFiniteSet(Cut(n)) /\ Cardinality(Cut(n)) <= Len(kernel)
  BY <1>2, <1>4, FS_Subset
<1>6. IsFiniteSet(Cut(m)) /\ Cardinality(Cut(m)) <= Cardinality(Cut(n))
  BY <1>4, <1>5, FS_Subset
<1>7. Cardinality(Cut(m)) \in Nat /\ Cardinality(Cut(n)) \in Nat
  BY <1>5, <1>6, FS_CardinalityType
<1>8. ASSUME NEW k \in DOMAIN kernel, m <= kernel[k].page_base, kernel[k].page_base < n
      PROVE  Cardinality(Cut(m)) + 1 <= Cardinality(Cut(n))
  <2>1. k \notin Cut(m) /\ k \in Cut(n)
    BY <1>3, <1>8 DEF Cut
  <2>2. Cardinality(Cut(m) \union {k}) = Cardinality(Cut(m)) + 1
    BY <1>6, <2>1, FS_AddElement
  <2>3. (Cut(m) \union {k}) \in SUBSET Cut(n)
    BY <1>4, <2>1
  <2>4. Cardinality(Cut(m) \union {k}) <= Cardinality(Cut(n))
    BY <1>5, <2>3, FS_Subset
  <2> QED BY <2>2, <2>4
<1> QED BY <1>5, <1>6, <1>7, <1>8

\* The descriptors of a valid report, sorted, are valid and apart.
LEMMA SortedApart ==
    ASSUME MInv, ValidReport, SortedTo(Len(efi_map))
    PROVE  /\ \A x \in DOMAIN efi_map : efi_map[x] \in Descriptor /\ Valid(efi_map[x])
           /\ \A x, y \in DOMAIN efi_map :
                x < y => End(efi_map[x]) <= efi_map[y].PhysicalStart
<1>1. PICK p \in [1 .. Len(efi_map) -> 1 .. Len(reported)] :
        /\ \A k \in 1 .. Len(efi_map) : efi_map[k] = reported[p[k]]
        /\ \A k, m \in 1 .. Len(efi_map) : p[k] = p[m] => k = m
  BY Zenon DEF MInv, Rearranged
<1>2. /\ DOMAIN efi_map = 1 .. Len(efi_map) /\ DOMAIN reported = 1 .. Len(reported)
      /\ efi_map \in Seq(Descriptor) /\ Len(efi_map) \in Nat
  BY DEF MInv, MTypes
<1>3. ASSUME NEW x \in DOMAIN efi_map
      PROVE  efi_map[x] \in Descriptor /\ Valid(efi_map[x])
  <2>1. efi_map[x] \in Descriptor
    BY <1>2
  <2>2. p[x] \in DOMAIN reported /\ efi_map[x] = reported[p[x]]
    BY <1>1, <1>2
  <2>3. Valid(reported[p[x]])
    BY <2>2 DEF ValidReport, Valid
  <2> QED BY <2>1, <2>2, <2>3
<1>4. ASSUME NEW x \in DOMAIN efi_map, NEW y \in DOMAIN efi_map, x < y,
             ~(End(efi_map[x]) <= efi_map[y].PhysicalStart)
      PROVE  FALSE
  <2>1. PICK a \in Nat : a = efi_map[y].PhysicalStart
    BY <1>3, EndFacts
  <2>2. /\ efi_map[x].PhysicalStart \in Nat /\ End(efi_map[x]) \in Nat
        /\ End(efi_map[y]) \in Nat /\ a < End(efi_map[y])
    BY <1>3, <2>1, EndFacts
  <2>3. efi_map[x].PhysicalStart <= a
    <3>1. y <= Len(efi_map)
      BY <1>2
    <3> QED BY <1>4, <2>1, <3>1 DEF SortedTo
  <2>4. Covers(efi_map[x].PhysicalStart, End(efi_map[x]), a)
        /\ Covers(efi_map[y].PhysicalStart, End(efi_map[y]), a)
    BY <1>4, <2>1, <2>2, <2>3 DEF Covers
  <2>5. a \in Addresses
    <3>1. Aligned(a) /\ End(efi_map[y]) <= MaxU64
      BY <1>3, <2>1 DEF Valid
    <3> QED BY <2>2, <3>1, PageSize DEF Addresses
  <2>6. p[x] \in Reporters(a) /\ p[y] \in Reporters(a)
    BY <1>1, <1>2, <2>4 DEF Reporters
  <2>7. p[x] = p[y]
    BY <2>5, <2>6 DEF ValidReport
  <2>8. x = y
    BY <1>1, <1>2, <2>7
  <2> QED BY <1>2, <1>4, <2>8
<1>5. \A x, y \in DOMAIN efi_map :
        x < y => End(efi_map[x]) <= efi_map[y].PhysicalStart
  BY <1>4
<1> QED BY <1>3, <1>5

\* Every byte of the kernel is in a loader descriptor: a whole page is.
LEMMA KernelInLoader ==
    ASSUME MInv, ValidReport, WellPlanned, SortedTo(Len(efi_map)),
           NEW a \in Nat, InKernel(a)
    PROVE  \E m \in DOMAIN efi_map :
             Has(efi_map[m], a) /\ efi_to_sypas_memtype(efi_map[m].Type) = "LOADER"
<1>1. PICK k \in DOMAIN kernel : Covers(kernel[k].page_base, kernel[k].page_end, a)
  BY DEF InKernel
<1>2. PICK b \in Nat, e \in Nat : /\ b = kernel[k].page_base /\ e = kernel[k].page_end
                                  /\ e <= MaxU64 /\ b <= a /\ a < e
                                  /\ Aligned(b) /\ Aligned(e)
  <2>1. kernel \in Seq(Segment)
    BY DEF MInv, MTypes
  <2>2. kernel[k].page_base \in Nat /\ kernel[k].page_end \in Nat
        /\ kernel[k].page_end <= MaxU64
    BY <2>1, SegmentFacts
  <2>3. Aligned(kernel[k].page_base) /\ Aligned(kernel[k].page_end)
    BY DEF WellPlanned, SegmentOk
  <2> QED BY <1>1, <2>2, <2>3 DEF Covers
<1>3. PICK q \in Nat, r \in Nat : a = PAGE_SIZE * q + r /\ r < PAGE_SIZE
  <2>1. PICK P \in Nat : P = PAGE_SIZE /\ P > 0
    BY PageSize
  <2>2. /\ a \div P \in Nat /\ a % P \in Nat /\ a % P < P
        /\ a = P * (a \div P) + (a % P)
    BY <2>1
  <2> QED BY <2>1, <2>2
<1>4. PICK c \in Nat : c = q * PAGE_SIZE /\ a = c + r /\ Aligned(c)
  <2>1. PICK c \in Nat : c = q * PAGE_SIZE /\ c = PAGE_SIZE * q
    BY PageSize
  <2> QED BY <1>3, <2>1, AlignedMultiple
<1>5. \A x \in Nat : Aligned(x) => (x <= a <=> x <= c)
  <2> SUFFICES ASSUME NEW x \in Nat, Aligned(x), x <= a, ~(x <= c) PROVE FALSE
    BY <1>4
  <2>1. PICK d \in Nat : d = x - c /\ d > 0 /\ d < PAGE_SIZE
    BY <1>3, <1>4, PageSize
  <2>2. Aligned(x - c)
    BY <1>4, AlignedSums
  <2>3. d % PAGE_SIZE = d
    BY <2>1, PageSize
  <2> QED BY <2>1, <2>2, <2>3 DEF Aligned
<1>6. b <= c /\ c < e /\ c \in Addresses
  <2>1. b <= c
    BY <1>2, <1>5
  <2>2. c < e
    BY <1>2, <1>4
  <2> QED BY <1>2, <1>4, <2>1, <2>2, PageSize DEF Addresses
<1>7. InKernel(c)
  BY <1>2, <1>6 DEF InKernel, Covers
<1>8. PICK j \in Reporters(c) : efi_to_sypas_memtype(reported[j].Type) = "LOADER"
  BY <1>6, <1>7 DEF ValidReport
<1>9. PICK m \in DOMAIN efi_map : efi_map[m] = reported[j] /\ Has(efi_map[m], c)
  BY ReporterHas, Zenon
<1>10. efi_map[m] \in Descriptor /\ Valid(efi_map[m])
  BY SortedApart
<1>11. PICK s \in Nat, t \in Nat : s = efi_map[m].PhysicalStart /\ t = End(efi_map[m])
                                   /\ Aligned(s) /\ Aligned(t)
  BY <1>10, EndFacts DEF Valid
<1>12. s <= c /\ c < t
  BY <1>9, <1>11 DEF Has, Covers
<1>13. s <= a /\ a < t
  <2>1. s <= a
    BY <1>4, <1>12
  <2>2. ~(t <= c)
    BY <1>12
  <2>3. ~(t <= a)
    BY <1>5, <1>11, <2>2
  <2> QED BY <2>1, <2>3
<1>14. Has(efi_map[m], a)
  BY <1>11, <1>13 DEF Has, Covers
<1> QED BY <1>8, <1>9, <1>14

\* One round of the insertion sort.
LEMMA InsertedSorted ==
    ASSUME NEW s \in Seq(Descriptor), NEW k \in 1 .. Len(s),
           \A x, y \in DOMAIN s : x < y /\ y <= k - 1 =>
               s[x].PhysicalStart <= s[y].PhysicalStart
    PROVE  LET r == Inserted(s, k) IN
           \A x, y \in DOMAIN r : x < y /\ y <= k =>
               r[x].PhysicalStart <= r[y].PhysicalStart
<1>1. PICK n \in Nat : n = Len(s) /\ DOMAIN s = 1 .. n /\ k \in Nat /\ k > 0 /\ k <= n
  OBVIOUS
<1>2. PICK j \in Nat : j = InsertAfter(s, k) /\ j <= k - 1
  BY InsertAfterType
<1>3. PICK r : r = Inserted(s, k)
  OBVIOUS
<1>4. /\ r \in Seq(Descriptor) /\ Len(r) = n
      /\ \A m \in 1 .. n : r[m] = s[IF m <= j THEN m ELSE IF m = j + 1 THEN k
                                    ELSE IF m <= k THEN m - 1 ELSE m]
  BY <1>1, <1>2, <1>3, InsertedIs
<1>5. DOMAIN r = 1 .. n
  BY <1>1, <1>4
<1>6. \A m \in 1 .. n : s[m].PhysicalStart \in Nat
  BY <1>1, EndFacts
<1> DEFINE S == {0} \union {x \in 1 .. (k - 1) : s[x].PhysicalStart <= s[k].PhysicalStart}
<1>7. j \in S /\ \A x \in S : x <= j
  <2>1. S \subseteq 0 .. (k - 1) /\ S # {} /\ k - 1 \in Nat
    BY <1>1
  <2>2. j = Max(S)
    BY <1>2 DEF InsertAfter
  <2> HIDE DEF S
  <2>3. Max(S) \in S /\ \A x \in S : x <= Max(S)
    BY <2>1, GreatestIs
  <2> QED BY <2>2, <2>3
<1>8. j > 0 => s[j].PhysicalStart <= s[k].PhysicalStart
  BY <1>2, <1>7
<1>9. \A x \in 1 .. (k - 1) : x > j => s[k].PhysicalStart <= s[x].PhysicalStart
  <2> SUFFICES ASSUME NEW x \in 1 .. (k - 1), x > j
               PROVE  s[k].PhysicalStart <= s[x].PhysicalStart
    OBVIOUS
  <2>1. x \notin S /\ x \in 1 .. n /\ k \in 1 .. n
    BY <1>1, <1>2, <1>7
  <2>2. ~(s[x].PhysicalStart <= s[k].PhysicalStart)
    BY <2>1
  <2> QED BY <1>6, <2>1, <2>2
<1> HIDE DEF S
<1>10. \A x, y \in 1 .. n : x < y /\ y <= k - 1 =>
          s[x].PhysicalStart <= s[y].PhysicalStart
  BY <1>1
<1>11. ASSUME NEW x \in 1 .. n, x <= j PROVE s[x].PhysicalStart <= s[k].PhysicalStart
  <2>1. j \in 1 .. n /\ k \in 1 .. n /\ (x = j \/ x < j) /\ j > 0
    BY <1>1, <1>2, <1>11
  <2>2. s[x].PhysicalStart <= s[j].PhysicalStart
    <3>1. CASE x = j
      BY <1>6, <2>1, <3>1
    <3>2. CASE x < j
      BY <1>2, <1>10, <2>1, <3>2
    <3> QED BY <2>1, <3>1, <3>2
  <2> QED BY <1>6, <1>8, <2>1, <2>2
<1>12. ASSUME NEW x \in 1 .. n, NEW y \in 1 .. n, x < y, y <= k
       PROVE  r[x].PhysicalStart <= r[y].PhysicalStart
  <2>1. CASE y <= j
    <3>1. r[x] = s[x] /\ r[y] = s[y] /\ y <= k - 1
      BY <1>2, <1>4, <1>12, <2>1
    <3> QED BY <1>10, <1>12, <3>1
  <2>2. CASE y = j + 1
    <3>1. x <= j /\ r[x] = s[x] /\ r[y] = s[k]
      BY <1>2, <1>4, <1>12, <2>2
    <3> QED BY <1>11, <3>1
  <2>3. CASE y > j + 1
    <3>1. r[y] = s[y - 1] /\ y - 1 \in 1 .. (k - 1) /\ y - 1 > j /\ y - 1 \in 1 .. n
      BY <1>1, <1>2, <1>4, <1>12, <2>3
    <3>2. CASE x <= j
      <4>1. r[x] = s[x] /\ x < y - 1 /\ y - 1 <= k - 1
        BY <1>2, <1>4, <1>12, <3>1, <3>2
      <4> QED BY <1>10, <3>1, <4>1
    <3>3. CASE x = j + 1
      <4>1. r[x] = s[k]
        BY <1>2, <1>4, <1>12, <3>3
      <4> QED BY <1>9, <3>1, <4>1
    <3>4. CASE x > j + 1
      <4>1. r[x] = s[x - 1] /\ x - 1 \in 1 .. n /\ x - 1 < y - 1 /\ y - 1 <= k - 1
        BY <1>1, <1>2, <1>4, <1>12, <3>4
      <4> QED BY <1>10, <3>1, <4>1
    <3> QED BY <1>2, <3>2, <3>3, <3>4
  <2> QED BY <1>2, <2>1, <2>2, <2>3
<1> QED BY <1>3, <1>5, <1>12

\* The bytes of a plan without overlaps are as many as its addresses.
LEMMA PlanBytesOnce ==
    ASSUME kernel \in Seq(Segment), WellPlanned, NEW n \in 0 .. Len(kernel),
           NEW p \in PlanBytes(n), NEW q \in PlanBytes(n), p[2] = q[2]
    PROVE  p = q
<1>1. /\ p \in (1 .. n) \X (0 .. MaxU64) /\ q \in (1 .. n) \X (0 .. MaxU64)
      /\ Covers(kernel[p[1]].page_base, kernel[p[1]].page_end, p[2])
      /\ Covers(kernel[q[1]].page_base, kernel[q[1]].page_end, q[2])
  BY DEF PlanBytes
<1>2. PICK j, k, x : /\ p = <<j, x>> /\ q = <<k, x>> /\ j \in 1 .. n /\ k \in 1 .. n
                     /\ x \in 0 .. MaxU64
  BY <1>1
<1>3. j \in DOMAIN kernel /\ k \in DOMAIN kernel /\ x \in Nat
  BY <1>2, PageSize
<1>4. /\ Covers(kernel[j].page_base, kernel[j].page_end, x)
      /\ Covers(kernel[k].page_base, kernel[k].page_end, x)
  BY <1>1, <1>2
<1>5. /\ kernel[j].page_base \in Nat /\ kernel[j].page_end \in Nat
      /\ kernel[k].page_base \in Nat /\ kernel[k].page_end \in Nat
  BY <1>3, SegmentFacts
<1>6. j = k
  <2> SUFFICES ASSUME j # k PROVE FALSE
    OBVIOUS
  <2>1. \/ kernel[j].page_end <= kernel[k].page_base
        \/ kernel[k].page_end <= kernel[j].page_base
    BY <1>3 DEF WellPlanned
  <2> QED BY <1>3, <1>4, <1>5, <2>1 DEF Covers
<1> QED BY <1>2, <1>6

LEMMA PlanBytesFit ==
    ASSUME kernel \in Seq(Segment), WellPlanned, NEW n \in 0 .. Len(kernel)
    PROVE  IsFiniteSet(PlanBytes(n)) /\ Cardinality(PlanBytes(n)) <= MaxU64
<1> DEFINE S == PlanBytes(n)
           T == 0 .. (MaxU64 - 1)
           f == [p \in S |-> p[2]]
<1>1. ASSUME NEW p \in S PROVE p[2] \in T
  <2>1. /\ p \in (1 .. n) \X (0 .. MaxU64)
        /\ Covers(kernel[p[1]].page_base, kernel[p[1]].page_end, p[2])
    BY DEF PlanBytes
  <2>2. PICK j \in 1 .. n, x \in 0 .. MaxU64 : p = <<j, x>>
    BY <2>1
  <2>3. j \in DOMAIN kernel /\ x < kernel[j].page_end
    BY <2>1, <2>2 DEF Covers
  <2>4. kernel[j].page_end \in Nat /\ kernel[j].page_end <= MaxU64
    BY <2>3, SegmentFacts
  <2>5. x \in T
    BY <2>2, <2>3, <2>4, PageSize
  <2> QED BY <2>2, <2>5
<1>2. \A p, q \in S : p[2] = q[2] => p = q
  BY PlanBytesOnce
<1> HIDE DEF S, T
<1>3. f \in [S -> T] /\ \A p \in S : f[p] = p[2]
  BY <1>1
<1>4. \A p, q \in S : f[p] = f[q] => p = q
  BY <1>2, <1>3
<1>5. f \in Injection(S, T)
  <2>1. DOMAIN f = S
    OBVIOUS
  <2> HIDE DEF f
  <2> QED BY <1>3, <1>4, <2>1 DEF Injection, IsInjective
<1>6. IsFiniteSet(T) /\ Cardinality(T) = MaxU64
  <2>1. PICK M \in Nat : M = MaxU64
    BY PageSize
  <2>2. 0 \in Int /\ M - 1 \in Int
    BY <2>1
  <2>3. /\ IsFiniteSet(0 .. (M - 1))
        /\ Cardinality(0 .. (M - 1)) = IF 0 > M - 1 THEN 0 ELSE (M - 1) - 0 + 1
    BY <2>2, FS_Interval
  <2>4. (IF 0 > M - 1 THEN 0 ELSE (M - 1) - 0 + 1) = M
    BY <2>1
  <2> QED BY <2>1, <2>3, <2>4 DEF T
<1> HIDE DEF f
<1>7. IsFiniteSet(S) /\ Cardinality(S) <= Cardinality(T)
  BY <1>5, <1>6, FS_Injection
<1> QED BY <1>6, <1>7 DEF S

LEMMA PlanBytesAre ==
    ASSUME kernel \in Seq(Segment), WellPlanned
    PROVE  LET C == {x \in 0 .. MaxU64 : InKernel(x)}
           IN  Cardinality(PlanBytes(Len(kernel))) = Cardinality(C)
<1> DEFINE S == PlanBytes(Len(kernel))
           C == {x \in 0 .. MaxU64 : InKernel(x)}
           f == [p \in S |-> p[2]]
<1>1. Len(kernel) \in 0 .. Len(kernel) /\ DOMAIN kernel = 1 .. Len(kernel)
  OBVIOUS
<1>2. IsFiniteSet(S)
  BY <1>1, PlanBytesFit
<1>3. \A p, q \in S : p[2] = q[2] => p = q
  BY <1>1, PlanBytesOnce
<1>4. \A p \in S : p[2] \in C
  BY <1>1 DEF PlanBytes, InKernel
<1>5. \A x \in C : \E p \in S : p[2] = x
  <2> SUFFICES ASSUME NEW x \in C PROVE \E p \in S : p[2] = x
    OBVIOUS
  <2>1. PICK k \in DOMAIN kernel : Covers(kernel[k].page_base, kernel[k].page_end, x)
    BY DEF InKernel
  <2>2. <<k, x>> \in S /\ <<k, x>>[2] = x
    BY <1>1, <2>1 DEF PlanBytes
  <2> QED BY <2>2
<1> HIDE DEF S, C
<1>6. /\ f \in [S -> C] /\ DOMAIN f = S
      /\ \A p, q \in S : f[p] = f[q] => p = q
      /\ \A x \in C : \E p \in S : f[p] = x
  BY <1>3, <1>4, <1>5
<1> HIDE DEF f
<1>7. f \in Injection(S, C)
  BY <1>6 DEF Injection, IsInjective
<1>8. f \in Surjection(S, C)
  BY <1>6, Zenon DEF Surjection
<1>9. Cardinality(C) = Cardinality(S)
  BY <1>2, <1>7, <1>8, FS_Surjection
<1> QED BY <1>9 DEF S, C

\* Once every descriptor has been translated, every byte of the kernel is
\* tagged.
LEMMA CountsAgree ==
    ASSUME MInv, ValidReport, WellPlanned, SortedTo(Len(efi_map)),
           pc = "descriptor", i > Len(efi_map)
    PROVE  tagged_kernel_bytes = expected_kernel_bytes
<1>1. /\ kernel \in Seq(Segment) /\ efi_map \in Seq(Descriptor) /\ i \in Nat
      /\ Late
  BY DEF MInv, MTypes, Late
<1>2. \A j \in DOMAIN efi_map : j < i
  BY <1>1
<1>3. /\ \A j \in DOMAIN efi_map : \A a \in Nat :
           Has(efi_map[j], a) => At(out, a) = {Class(efi_map[j], a)}
      /\ \A a \in Nat : At(out, a) # {} => \E j \in DOMAIN efi_map : Has(efi_map[j], a)
  <2>1. \A a : ~Begun(a)
    BY DEF Begun
  <2> QED BY <1>1, <1>2, <2>1 DEF MInv, Owned
<1> DEFINE C == {x \in 0 .. MaxU64 : InKernel(x)}
<1>4. ASSUME NEW a \in Nat
      PROVE  At(out, a) = {"KERNEL"} <=> InKernel(a)
  <2>1. ASSUME At(out, a) = {"KERNEL"} PROVE InKernel(a)
    <3>1. PICK j \in DOMAIN efi_map : Has(efi_map[j], a)
      <4>1. At(out, a) # {}
        BY <2>1
      <4> QED BY <1>3, <4>1, Zenon
    <3>2. {Class(efi_map[j], a)} = {"KERNEL"}
      BY <1>3, <2>1, <3>1, Zenon
    <3>3. Class(efi_map[j], a) = "KERNEL"
      BY <3>2, Zenon
    <3> QED BY <3>3, MemtypeFacts DEF Class
  <2>2. ASSUME InKernel(a) PROVE At(out, a) = {"KERNEL"}
    <3>1. PICK m \in DOMAIN efi_map :
            /\ Has(efi_map[m], a)
            /\ efi_to_sypas_memtype(efi_map[m].Type) = "LOADER"
      BY <2>2, KernelInLoader, Zenon
    <3>2. Class(efi_map[m], a) = "KERNEL"
      BY <2>2, <3>1 DEF Class
    <3>3. At(out, a) = {Class(efi_map[m], a)}
      BY <1>3, <3>1, Zenon
    <3> QED BY <3>2, <3>3
  <2> QED BY <2>1, <2>2
<1>5. Tagged = C
  <2>1. \A a \in 0 .. MaxU64 : a \in Nat
    OBVIOUS
  <2> QED BY <1>4, <2>1, Zenon DEF Tagged
<1>6. /\ expected_kernel_bytes = Cardinality(PlanBytes(Len(kernel)))
      /\ tagged_kernel_bytes = Cardinality(Tagged)
  BY <1>1 DEF MInv, Counted
<1>7. Cardinality(PlanBytes(Len(kernel))) = Cardinality(C)
  BY <1>1, PlanBytesAre
<1> QED BY <1>5, <1>6, <1>7

\* The inputs do not change.
LEMMA ProperFrame ==
    ASSUME UNCHANGED inputs
    PROVE  Proper' <=> Proper
<1>1. reported' = reported /\ strideOk' = strideOk /\ kernel' = kernel
      /\ out_capacity' = out_capacity
  BY DEF inputs
<1>2. \A a : (InKernel(a)' <=> InKernel(a)) /\ Reporters(a)' = Reporters(a)
  BY <1>1 DEF InKernel, Reporters
<1>3. ValidReport' <=> ValidReport
  BY <1>1, <1>2 DEF ValidReport
<1>4. WellPlanned' <=> WellPlanned
  BY <1>1 DEF WellPlanned
<1>5. EnoughRoom' <=> EnoughRoom
  BY <1>1 DEF EnoughRoom
<1> QED BY <1>3, <1>4, <1>5 DEF Proper

LEMMA VerdictInit == Init => VInv
  BY DEF Init, VInv, Advancing

\* Before the descriptors are looked at.
LEMMA EarlyVerdict ==
    ASSUME MInv, VInv, Proper,
           Enter \/ SortStep \/ SortDone \/ CheckSegment \/ PlanChecked
    PROVE  Advancing'
<1>1. /\ Advancing /\ kernel \in Seq(Segment) /\ efi_map \in Seq(Descriptor)
      /\ i \in Nat /\ Len(efi_map) \in Nat /\ DOMAIN efi_map = 1 .. Len(efi_map)
      /\ ValidReport /\ WellPlanned
  BY DEF VInv, MInv, MTypes, Proper
<1>2. CASE Enter
  <2>1. pc' = "sort" /\ i' = 2 /\ efi_map' = efi_map
    BY <1>1, <1>2 DEF Enter, ValidReport
  <2>2. SortedTo(1)
    BY <1>1 DEF SortedTo
  <2> QED BY <2>1, <2>2 DEF Advancing, SortedTo
<1>3. CASE SortStep
  <2>1. /\ pc = "sort" /\ pc' = pc /\ efi_map' = Inserted(efi_map, i) /\ i' = i + 1
        /\ i <= Len(efi_map) /\ i > 0
    BY <1>3 DEF SortStep, MInv, MTypes
  <2>2. PICK k \in 1 .. Len(efi_map) : k = i
    BY <1>1, <2>1
  <2>3. \A x, y \in DOMAIN efi_map : x < y /\ y <= k - 1 =>
          efi_map[x].PhysicalStart <= efi_map[y].PhysicalStart
    BY <1>1, <2>1, <2>2 DEF Advancing, SortedTo
  <2>4. LET r == Inserted(efi_map, k) IN
        \A x, y \in DOMAIN r : x < y /\ y <= k =>
            r[x].PhysicalStart <= r[y].PhysicalStart
    BY <1>1, <2>3, InsertedSorted
  <2>5. (i - 1)' = k
    BY <2>1, <2>2
  <2>6. SortedTo(k)'
    BY <2>1, <2>2, <2>4 DEF SortedTo
  <2>7. SortedTo(i - 1)'
    BY <2>5, <2>6 DEF SortedTo
  <2> QED BY <2>1, <2>7 DEF Advancing
<1>4. CASE SortDone
  <2>1. pc = "sort" /\ i > Len(efi_map) /\ pc' = "plan" /\ efi_map' = efi_map
    BY <1>4 DEF SortDone
  <2>2. SortedTo(i - 1)
    BY <1>1, <2>1 DEF Advancing
  <2>3. SortedTo(Len(efi_map))
    BY <1>1, <2>1, <2>2 DEF SortedTo
  <2> QED BY <2>1, <2>3 DEF Advancing, SortedTo
<1>5. CASE CheckSegment
  <2>1. /\ pc = "plan" /\ i <= Len(kernel) /\ i > 0 /\ efi_map' = efi_map
        /\ SortedTo(Len(efi_map)) /\ expected_kernel_bytes = Cardinality(PlanBytes(i - 1))
    BY <1>1, <1>5 DEF CheckSegment, MInv, MTypes, Advancing, Counted
  <2>2. PICK k \in DOMAIN kernel : k = i /\ k \in 0 .. Len(kernel)
    BY <1>1, <2>1
  <2>3. SegmentOk(kernel[k])
    BY <1>1 DEF WellPlanned
  <2>4. Cardinality(PlanBytes(k)) = expected_kernel_bytes
          + (kernel[k].page_end - kernel[k].page_base)
    <3>1. kernel[k].page_base < kernel[k].page_end
      BY <2>3 DEF SegmentOk
    <3> QED BY <1>1, <2>1, <2>2, <3>1, OneMoreSegment
  <2>5. Cardinality(PlanBytes(k)) <= MaxU64
    BY <1>1, <2>2, PlanBytesFit
  <2>6. pc' = pc
    BY <1>5, <2>2, <2>3, <2>4, <2>5 DEF CheckSegment
  <2> QED BY <2>1, <2>6 DEF Advancing, SortedTo
<1>6. CASE PlanChecked
  <2>1. /\ pc = "plan" /\ pc' = "descriptor" /\ i' = 1 /\ efi_map' = efi_map
        /\ SortedTo(Len(efi_map)) /\ out = << >> /\ out' = out
        /\ previous_end' = previous_end /\ previous_end \in Nat /\ kernel' = kernel
    BY <1>1, <1>6 DEF PlanChecked, MInv, MTypes, Advancing, inputs
  <2>2. Uncrossed'
    <3>1. \A j \in DOMAIN efi_map : ~(j < 1)
      BY <1>1
    <3> QED BY <2>1, <3>1 DEF Uncrossed
  <2>3. Cardinality(Cut(previous_end)) \in Nat /\ Cut(previous_end)' = Cut(previous_end)
    <3>1. Cardinality(Cut(previous_end)) \in Nat
      <4>1. previous_end \in Nat /\ previous_end <= previous_end
        BY <2>1
      <4> QED BY <1>1, <4>1, CutFacts
    <3> QED BY <2>1, <3>1 DEF Cut
  <2>4. Len(out') <= (i' - 1) + 2 * Cardinality(Cut(previous_end)')
    <3>1. Len(out') = 0 /\ i' - 1 = 0
      BY <2>1
    <3> QED BY <2>3, <3>1
  <2>5. (Len(out) <= (i - 1) + 2 * Cardinality(Cut(previous_end)))'
    BY <2>4
  <2>6. SortedTo(Len(efi_map))'
    BY <2>1 DEF SortedTo
  <2>7. pc' # "done" /\ pc' # "sort" /\ pc' # "split" /\ ~(i > 1)'
    BY <2>1
  <2> QED BY <2>2, <2>5, <2>6, <2>7 DEF Advancing
<1> QED BY <1>2, <1>3, <1>4, <1>5, <1>6

LEMMA DescriptorVerdict ==
    ASSUME MInv, VInv, Proper, CheckDescriptor
    PROVE  Advancing'
<1>1. /\ Advancing /\ kernel \in Seq(Segment) /\ efi_map \in Seq(Descriptor)
      /\ i \in Nat /\ i > 0 /\ i <= Len(efi_map) /\ i \in DOMAIN efi_map
      /\ pc = "descriptor" /\ previous_end \in Nat /\ out \in Seq(Entry)
      /\ ValidReport
  BY DEF VInv, MInv, MTypes, Proper, CheckDescriptor
<1>2. /\ SortedTo(Len(efi_map)) /\ Uncrossed
      /\ Len(out) <= (i - 1) + 2 * Cardinality(Cut(previous_end))
      /\ i > 1 => i - 1 \in DOMAIN efi_map /\ previous_end = End(efi_map[i - 1])
  BY <1>1 DEF Advancing
<1>3. PICK d \in Descriptor : d = efi_map[i] /\ Valid(d)
  BY <1>1, <1>2, SortedApart
<1>4. PICK s \in Nat, e \in Nat : s = d.PhysicalStart /\ e = End(d) /\ s < e
  BY <1>3, EndFacts
<1>5. i > 1 => previous_end <= s
  <2> SUFFICES ASSUME i > 1 PROVE previous_end <= s
    OBVIOUS
  <2>1. i - 1 \in DOMAIN efi_map /\ i - 1 < i
    BY <1>1, <1>2
  <2> QED BY <1>1, <1>2, <1>3, <1>4, <2>1, SortedApart
<1>6. DescriptorError(d) = "OK"
  BY <1>1, <1>3, <1>4, <1>5, PageSize DEF DescriptorError, Valid
<1>7. /\ pc' = "split" /\ cursor' = s /\ previous_end' = e
      /\ efi_map' = efi_map /\ i' = i /\ out' = out /\ kernel' = kernel
  BY <1>3, <1>4, <1>6 DEF CheckDescriptor, inputs
<1>8. Len(out) <= (i - 1) + 2 * Cardinality(Cut(s))
  <2>1. CASE i > 1
    <3>1. /\ Cardinality(Cut(previous_end)) <= Cardinality(Cut(s))
          /\ Cardinality(Cut(previous_end)) \in Nat /\ Cardinality(Cut(s)) \in Nat
      BY <1>1, <1>5, <2>1, CutFacts
    <3> QED BY <1>1, <1>2, <3>1
  <2>2. CASE ~(i > 1)
    <3>1. Late /\ \A j \in DOMAIN efi_map : ~(j < i)
      BY <1>1, <2>2 DEF Late
    <3>2. \A a : ~Begun(a)
      BY <1>1 DEF Begun
    <3>3. \A a \in Nat : At(out, a) = {}
      BY <3>1, <3>2 DEF MInv, Owned
    <3>4. out = << >>
      <4> SUFFICES ASSUME out # << >> PROVE FALSE
        OBVIOUS
      <4>1. PICK n \in Nat : n = Len(out) /\ n \in DOMAIN out
        BY <1>1
      <4>2. out[n] \in Entry /\ out[n].length > 0
        BY <1>1, <4>1 DEF MInv, Sound
      <4>3. PICK b \in Nat : b = out[n].base /\ In(out, n, b)
        BY <4>2 DEF Entry, In, Covers
      <4> QED BY <3>3, <4>1, <4>3 DEF At
    <3>5. Cardinality(Cut(s)) \in Nat
      <4>1. s <= s
        OBVIOUS
      <4> QED BY <1>1, <4>1, CutFacts
    <3>6. Len(out) = 0
      BY <3>4
    <3> QED BY <1>1, <3>5, <3>6
  <2> QED BY <2>1, <2>2
<1>9. (Len(out) <= (i - 1) + 2 * Cardinality(Cut(cursor)))'
  <2>1. Cut(cursor)' = Cut(s)
    BY <1>7 DEF Cut
  <2> QED BY <1>7, <1>8, <2>1
<1>10. SortedTo(Len(efi_map))' /\ Uncrossed' /\ CursorAt'
  BY <1>2, <1>3, <1>4, <1>7 DEF SortedTo, Uncrossed, CursorAt
<1>11. pc' # "done" /\ pc' # "sort" /\ pc' # "descriptor"
  BY <1>7
<1> QED BY <1>9, <1>10, <1>11 DEF Advancing

\* The sort keeps the number of descriptors.
LEMMA SameLength ==
    ASSUME MInv
    PROVE  Len(reported) = Len(efi_map)
<1>1. PICK m \in Nat, n \in Nat : m = Len(reported) /\ n = Len(efi_map)
  BY DEF MInv, MTypes
<1>2. PICK p \in [1 .. n -> 1 .. m] :
        /\ \A k \in 1 .. m : \E x \in 1 .. n : p[x] = k
        /\ \A k, x \in 1 .. n : p[k] = p[x] => k = x
  <2>1. PICK p \in [1 .. Len(efi_map) -> 1 .. Len(reported)] :
          /\ \A k \in 1 .. Len(reported) : \E x \in 1 .. Len(efi_map) : p[x] = k
          /\ \A k, x \in 1 .. Len(efi_map) : p[k] = p[x] => k = x
    BY Zenon DEF MInv, Rearranged
  <2> QED BY <1>1, <2>1
<1> DEFINE S == 1 .. n
           T == 1 .. m
<1>3. /\ IsFiniteSet(S) /\ Cardinality(S) = n /\ Cardinality(T) = m
  <2>1. 1 \in Int /\ n \in Int /\ m \in Int
    OBVIOUS
  <2>2. /\ IsFiniteSet(1 .. n)
        /\ Cardinality(1 .. n) = IF 1 > n THEN 0 ELSE n - 1 + 1
        /\ Cardinality(1 .. m) = IF 1 > m THEN 0 ELSE m - 1 + 1
    BY <2>1, FS_Interval
  <2>3. (IF 1 > n THEN 0 ELSE n - 1 + 1) = n /\ (IF 1 > m THEN 0 ELSE m - 1 + 1) = m
    OBVIOUS
  <2> QED BY <2>2, <2>3
<1>4. /\ p \in [S -> T] /\ DOMAIN p = S
      /\ \A k \in T : \E x \in S : p[x] = k
      /\ \A k, x \in S : p[k] = p[x] => k = x
  BY <1>2
<1> HIDE DEF S, T
<1>5. p \in Injection(S, T)
  BY <1>4 DEF Injection, IsInjective
<1>6. p \in Surjection(S, T)
  BY <1>4, Zenon DEF Surjection
<1>7. Cardinality(T) = Cardinality(S)
  BY <1>3, <1>5, <1>6, FS_Surjection
<1> QED BY <1>1, <1>3, <1>7

\* A segment that starts below the cursor and goes on behind it is met only
\* when the descriptor has been used up: the cursor is at no other segment's
\* inside, and the segment has no part in an earlier descriptor.
LEMMA NoneAstride ==
    ASSUME MInv, Proper, Advancing, pc = "split",
           NEW k \in DOMAIN kernel,
           kernel[k].page_base < cursor, cursor < kernel[k].page_end
    PROVE  cursor = End(efi_map[i])
<1> SUFFICES ASSUME cursor # End(efi_map[i]) PROVE FALSE
  OBVIOUS
<1>1. /\ kernel \in Seq(Segment) /\ cursor \in Nat /\ efi_map \in Seq(Descriptor)
      /\ ValidReport /\ WellPlanned /\ SortedTo(Len(efi_map)) /\ Uncrossed /\ CursorAt
      /\ i \in DOMAIN efi_map /\ i \in Nat
  BY DEF MInv, MTypes, Proper, Advancing, Checked
<1>2. PICK b \in Nat, e \in Nat : /\ b = kernel[k].page_base /\ e = kernel[k].page_end
                                  /\ b < cursor /\ cursor < e
  BY <1>1, SegmentFacts
<1>3. PICK a \in Nat : a = cursor - 1 /\ b <= a /\ a < e
  BY <1>1, <1>2
<1>4. CASE \E j \in DOMAIN kernel : kernel[j].page_end = cursor
  <2>1. PICK j \in DOMAIN kernel : kernel[j].page_end = cursor
    BY <1>4
  <2>2. PICK x \in Nat : x = kernel[j].page_base /\ x < cursor
    <3>1. kernel[j].page_base \in Nat
      BY <1>1, SegmentFacts
    <3>2. kernel[j].page_base < kernel[j].page_end
      BY <1>1 DEF WellPlanned, SegmentOk
    <3> QED BY <2>1, <3>1, <3>2
  <2>3. j # k
    BY <1>1, <1>2, <2>1
  <2>4. cursor <= b \/ e <= x
    BY <1>1, <1>2, <2>1, <2>2, <2>3 DEF WellPlanned
  <2> QED BY <1>1, <1>2, <2>2, <2>4
<1>5. CASE cursor = efi_map[i].PhysicalStart
  <2>1. InKernel(a)
    BY <1>2, <1>3 DEF InKernel, Covers
  <2>2. PICK m \in DOMAIN efi_map :
          Has(efi_map[m], a) /\ efi_to_sypas_memtype(efi_map[m].Type) = "LOADER"
    BY <1>1, <2>1, KernelInLoader, Zenon
  <2>3. efi_map[m] \in Descriptor /\ efi_map[i] \in Descriptor
    BY <1>1
  <2>4. PICK s \in Nat, t \in Nat : /\ s = efi_map[m].PhysicalStart
                                    /\ t = End(efi_map[m]) /\ s <= a /\ a < t
    BY <2>2, <2>3, EndFacts DEF Has, Covers
  <2>5. m \in Nat /\ m # i
    <3>1. m \in Nat
      BY <1>1
    <3>2. PICK u \in Nat : u = cursor /\ a = u - 1
      BY <1>1, <1>3
    <3>3. s # u
      BY <2>4, <3>2
    <3> QED BY <1>5, <2>4, <3>1, <3>2, <3>3, Zenon
  <2>6. ~(i < m)
    <3> SUFFICES ASSUME i < m PROVE FALSE
      OBVIOUS
    <3>1. End(efi_map[i]) <= s
      BY <1>1, <2>4, SortedApart
    <3>2. End(efi_map[i]) \in Nat /\ efi_map[i].PhysicalStart < End(efi_map[i])
      BY <1>1, SortedApart, EndFacts
    <3>3. PICK u \in Nat, v \in Nat : u = cursor /\ a = u - 1 /\ v = End(efi_map[i])
      BY <1>1, <1>3, <3>2
    <3>4. u < v /\ v <= s
      BY <1>5, <3>1, <3>2, <3>3
    <3> QED BY <2>4, <3>3, <3>4
  <2>7. m < i
    BY <1>1, <2>5, <2>6
  <2>8. t <= cursor
    BY <1>1, <1>5, <2>4, <2>7, SortedApart
  <2>9. b < t /\ t < e
    BY <1>1, <1>2, <1>3, <2>4, <2>8
  <2> QED BY <1>1, <1>2, <2>2, <2>4, <2>7, <2>9 DEF Uncrossed
<1> QED BY <1>1, <1>4, <1>5 DEF CursorAt

LEMMA SplitVerdict ==
    ASSUME MInv, VInv, Proper, SplitStep
    PROVE  Advancing'
<1>1. /\ Advancing /\ kernel \in Seq(Segment) /\ efi_map \in Seq(Descriptor)
      /\ i \in Nat /\ i > 0 /\ i \in DOMAIN efi_map /\ pc = "split"
      /\ cursor \in Nat /\ out \in Seq(Entry) /\ Sound(out) /\ out_capacity \in Nat
      /\ reported \in Seq(Descriptor)
      /\ efi_map' = efi_map /\ kernel' = kernel /\ i' = i
  BY DEF VInv, MInv, MTypes, Checked, SplitStep, inputs
<1>2. /\ SortedTo(Len(efi_map)) /\ Uncrossed /\ CursorAt
      /\ Len(out) <= (i - 1) + 2 * Cardinality(Cut(cursor))
  BY <1>1 DEF Advancing
<1>3. PICK d \in Descriptor : d = efi_map[i] /\ Valid(d) /\ cursor <= End(d)
  BY <1>1 DEF MInv, Checked
<1>4. PICK E \in Nat : E = End(d) /\ E <= MaxU64 /\ cursor <= E
  BY <1>3, EndFacts DEF Valid
<1>5. PICK k \in Remaining(d) : Split(k)
  BY <1>3 DEF SplitStep
<1>6. k \in DOMAIN kernel /\ kernel[k].page_end > cursor /\ kernel[k].page_base < E
  BY <1>4, <1>5 DEF Remaining, Intersecting
<1>7. PICK b \in Nat : b = kernel[k].page_base
  BY <1>1, <1>6, SegmentFacts
<1>8. PICK e \in Nat : e = kernel[k].page_end
  BY <1>1, <1>6, SegmentFacts
<1>9. PICK lo : lo = Max({b, cursor})
  OBVIOUS
<1>10. PICK hi : hi = Min({e, E})
  OBVIOUS
<1>11. b < e
  BY <1>6, <1>7, <1>8 DEF Proper, WellPlanned, SegmentOk
<1>12. /\ lo \in Nat /\ hi \in Nat /\ cursor <= lo /\ lo <= hi /\ hi <= E /\ b < hi
       /\ lo = IF b >= cursor THEN b ELSE cursor
       /\ hi = IF e <= E THEN e ELSE E
  <2>1. lo = IF b >= cursor THEN b ELSE cursor
    BY <1>1, <1>9, MaxOfTwo
  <2>2. hi = IF e <= E THEN e ELSE E
    BY <1>10, MinOfTwo
  <2> QED BY <1>1, <1>4, <1>6, <1>7, <1>8, <1>11, <2>1, <2>2
<1>13. PICK before : before = append(out, cursor, lo, "LOADER")
  OBVIOUS
<1>14. PICK both : both = append(before.out, lo, hi, "KERNEL")
  OBVIOUS
<1>15. PICK L \in Nat, N \in Nat, K \in Nat :
         /\ L = Len(out) /\ N = Len(efi_map) /\ K = Len(kernel)
         /\ i <= N /\ out_capacity >= N + 2 * K
  <2>1. Len(reported) = Len(efi_map)
    BY SameLength
  <2>2. out_capacity >= Len(reported) + 2 * Len(kernel)
    BY DEF Proper, EnoughRoom
  <2> QED BY <1>1, <2>1, <2>2
<1>16. PICK c \in Nat, h \in Nat :
         /\ c = Cardinality(Cut(cursor)) /\ h = Cardinality(Cut(hi))
         /\ c <= h /\ h <= K /\ (cursor <= b => c + 1 <= h)
  <2>1. cursor <= hi
    BY <1>1, <1>12
  <2>2. /\ Cardinality(Cut(cursor)) \in Nat /\ Cardinality(Cut(hi)) \in Nat
        /\ Cardinality(Cut(cursor)) <= Cardinality(Cut(hi))
        /\ Cardinality(Cut(hi)) <= Len(kernel)
    BY <1>1, <1>12, <2>1, CutFacts
  <2>3. cursor <= b => Cardinality(Cut(cursor)) + 1 <= Cardinality(Cut(hi))
    <3> SUFFICES ASSUME cursor <= b PROVE Cardinality(Cut(cursor)) + 1 <= Cardinality(Cut(hi))
      OBVIOUS
    <3>1. cursor <= kernel[k].page_base /\ kernel[k].page_base < hi
      BY <1>7, <1>12
    <3> QED BY <1>1, <1>6, <1>12, <2>1, <3>1, CutFacts
  <2> QED BY <1>15, <2>2, <2>3
<1>17. out # << >> => LastEnd(out) <= cursor
  BY <1>1, OutputBehindCursor
<1>n. PICK n \in Nat, cap \in Nat :
        /\ n = i /\ cap = out_capacity /\ 0 < n /\ n <= N /\ cap >= N + 2 * K
  BY <1>1, <1>15
<1>l. L <= (n - 1) + 2 * c
  BY <1>2, <1>15, <1>16, <1>n
<1>18. "LOADER" \in MemType /\ "KERNEL" \in MemType /\ lo <= MaxU64 /\ hi <= MaxU64
  BY <1>4, <1>12, PageSize DEF MemType
<1>19. /\ before.status = "OK" /\ both.status = "OK"
       /\ Len(both.out) <= (i - 1) + 2 * h
  <2>1. CASE cursor <= b
    <3>1. L + 2 < cap
      <4>1. c + 1 <= h
        BY <1>16, <2>1
      <4> QED BY <1>16, <1>n, <1>l, <4>1
    <3>2. LET r == append(out, cursor, lo, "LOADER") IN
          /\ r.status = "OK" /\ r.out \in Seq(Entry)
          /\ Len(r.out) <= Len(out) + 1
          /\ r.out # << >> => LastEnd(r.out) <= lo
      <4>1. cursor = lo \/ Len(out) < out_capacity
        <5>1. L < cap
          BY <1>n, <3>1
        <5> QED BY <1>15, <1>n, <5>1
      <4> QED BY <1>1, <1>12, <1>17, <1>18, <4>1, AppendGoes
    <3>3. /\ before.status = "OK" /\ before.out \in Seq(Entry)
          /\ Len(before.out) <= L + 1
          /\ before.out # << >> => LastEnd(before.out) <= lo
      BY <1>13, <1>15, <3>2
    <3>4. PICK B \in Nat : B = Len(before.out) /\ B <= L + 1
      BY <3>3
    <3>5. LET r == append(before.out, lo, hi, "KERNEL") IN
          r.status = "OK" /\ r.out \in Seq(Entry) /\ Len(r.out) <= Len(before.out) + 1
      <4>1. lo = hi \/ Len(before.out) < out_capacity
        <5>1. B < cap
          BY <1>n, <3>1, <3>4
        <5> QED BY <1>n, <3>4, <5>1
      <4>2. /\ before.out \in Seq(Entry)
            /\ before.out # << >> => LastEnd(before.out) <= lo
        BY <3>3
      <4>3. /\ out_capacity \in Nat /\ lo \in Nat /\ hi \in Nat /\ lo <= hi
            /\ hi <= MaxU64 /\ "KERNEL" \in MemType
        BY <1>12, <1>18, <1>n
      <4> QED BY <4>1, <4>2, <4>3, AppendGoes
    <3>6. both.status = "OK" /\ both.out \in Seq(Entry) /\ Len(both.out) <= B + 1
      BY <1>14, <3>4, <3>5
    <3>7. PICK A \in Nat : A = Len(both.out) /\ A <= L + 2
      BY <3>4, <3>6
    <3>8. A <= (n - 1) + 2 * h
      <4>1. c + 1 <= h
        BY <1>16, <2>1
      <4>2. L <= (n - 1) + 2 * c /\ A <= L + 2
        BY <1>l, <3>7
      <4>3. A \in Nat /\ L \in Nat /\ n \in Nat /\ c \in Nat /\ h \in Nat
        OBVIOUS
      <4> QED BY <4>1, <4>2, <4>3
    <3> QED BY <1>n, <3>3, <3>6, <3>7, <3>8
  <2>2. CASE ~(cursor <= b)
    <3>1. cursor = E
      <4>1. kernel[k].page_base < cursor /\ cursor < kernel[k].page_end
        BY <1>1, <1>6, <1>7, <1>8, <2>2
      <4> QED BY <1>1, <1>3, <1>4, <1>6, <4>1, NoneAstride
    <3>2. lo = cursor /\ hi = cursor
      BY <1>1, <1>4, <1>6, <1>7, <1>8, <1>12, <2>2, <3>1
    <3>3. before = [status |-> "OK", out |-> out]
      BY <1>13, <3>2 DEF append
    <3>4. both = [status |-> "OK", out |-> out]
      BY <1>14, <3>2, <3>3 DEF append
    <3>5. L <= (n - 1) + 2 * h
      BY <1>16, <1>l, <1>n
    <3> QED BY <1>15, <1>n, <3>3, <3>4, <3>5
  <2> QED BY <2>1, <2>2
<1>20. out' = both.out /\ cursor' = hi /\ pc' = pc /\ status' = status
  BY <1>3, <1>4, <1>5, <1>7, <1>8, <1>9, <1>10, <1>13, <1>14, <1>19 DEF Split
<1>21. (Len(out) <= (i - 1) + 2 * Cardinality(Cut(cursor)))'
  <2>1. Cut(cursor)' = Cut(hi)
    BY <1>1, <1>20 DEF Cut
  <2> QED BY <1>1, <1>16, <1>19, <1>20, <2>1
<1>22. CursorAt'
  <2>1. hi = End(efi_map[i]) \/ hi = kernel[k].page_end
    BY <1>3, <1>4, <1>8, <1>12
  <2> QED BY <1>1, <1>6, <1>20, <2>1 DEF CursorAt
<1>23. SortedTo(Len(efi_map))' /\ Uncrossed'
  BY <1>1, <1>2 DEF SortedTo, Uncrossed
<1> QED BY <1>1, <1>20, <1>21, <1>22, <1>23 DEF Advancing

LEMMA TailVerdict ==
    ASSUME MInv, VInv, Proper, TailStep
    PROVE  Advancing'
<1>1. /\ Advancing /\ kernel \in Seq(Segment) /\ efi_map \in Seq(Descriptor)
      /\ i \in Nat /\ i > 0 /\ i \in DOMAIN efi_map /\ pc = "split"
      /\ cursor \in Nat /\ out \in Seq(Entry) /\ Sound(out) /\ out_capacity \in Nat
      /\ reported \in Seq(Descriptor)
      /\ efi_map' = efi_map /\ kernel' = kernel /\ previous_end' = previous_end
  BY DEF VInv, MInv, MTypes, Checked, TailStep, inputs
<1>2. /\ SortedTo(Len(efi_map)) /\ Uncrossed
      /\ Len(out) <= (i - 1) + 2 * Cardinality(Cut(cursor))
  BY <1>1 DEF Advancing
<1>3. PICK d \in Descriptor : /\ d = efi_map[i] /\ Valid(d) /\ cursor <= End(d)
                              /\ previous_end = End(d)
  BY <1>1 DEF MInv, Checked
<1>4. PICK E \in Nat : E = End(d) /\ E <= MaxU64 /\ cursor <= E
  BY <1>3, EndFacts DEF Valid
<1>5. PICK t \in MemType : t = efi_to_sypas_memtype(d.Type)
  BY MemtypeFacts
<1>6. PICK rest : rest = append(out, cursor, E, t)
  OBVIOUS
<1>7. PICK L \in Nat, N \in Nat, K \in Nat :
         /\ L = Len(out) /\ N = Len(efi_map) /\ K = Len(kernel)
         /\ i <= N /\ out_capacity >= N + 2 * K
  <2>1. Len(reported) = Len(efi_map)
    BY SameLength
  <2>2. out_capacity >= Len(reported) + 2 * Len(kernel)
    BY DEF Proper, EnoughRoom
  <2> QED BY <1>1, <2>1, <2>2
<1>8. PICK c \in Nat, h \in Nat :
         /\ c = Cardinality(Cut(cursor)) /\ h = Cardinality(Cut(E))
         /\ c <= h /\ h <= K
  BY <1>1, <1>4, <1>7, CutFacts
<1>n. PICK n \in Nat, cap \in Nat :
        /\ n = i /\ cap = out_capacity /\ 0 < n /\ n <= N /\ cap >= N + 2 * K
  BY <1>1, <1>7
<1>l. L <= (n - 1) + 2 * c
  BY <1>2, <1>7, <1>8, <1>n
<1>9. L < cap
  BY <1>8, <1>n, <1>l
<1>10. LET r == append(out, cursor, E, t) IN
       r.status = "OK" /\ r.out \in Seq(Entry) /\ Len(r.out) <= Len(out) + 1
  <2>1. out # << >> => LastEnd(out) <= cursor
    BY <1>1, OutputBehindCursor
  <2>2. cursor = E \/ Len(out) < out_capacity
    BY <1>7, <1>9, <1>n
  <2> QED BY <1>1, <1>4, <2>1, <2>2, AppendGoes
<1>11. PICK A \in Nat : /\ A = Len(rest.out) /\ A <= L + 1 /\ rest.status = "OK"
  BY <1>6, <1>7, <1>10
<1>12. out' = rest.out /\ pc' = "descriptor" /\ i' = i + 1 /\ Remaining(d) = {}
  BY <1>3, <1>4, <1>5, <1>6, <1>11 DEF TailStep
<1>13. (Len(out) <= (i - 1) + 2 * Cardinality(Cut(previous_end)))'
  <2>1. Cut(previous_end)' = Cut(E)
    BY <1>1, <1>3, <1>4 DEF Cut
  <2>2. A <= ((n + 1) - 1) + 2 * h
    <3>1. A <= L + 1 /\ L <= (n - 1) + 2 * c /\ c <= h
      BY <1>8, <1>11, <1>l
    <3>2. A \in Nat /\ L \in Nat /\ n \in Nat /\ c \in Nat /\ h \in Nat
      OBVIOUS
    <3> QED BY <3>1, <3>2
  <2> QED BY <1>8, <1>11, <1>12, <1>n, <2>1, <2>2
<1>14. Uncrossed'
  <2> SUFFICES ASSUME NEW j \in DOMAIN efi_map, j < i + 1,
                      efi_to_sypas_memtype(efi_map[j].Type) = "LOADER",
                      NEW k \in DOMAIN kernel,
                      kernel[k].page_base < End(efi_map[j]),
                      End(efi_map[j]) < kernel[k].page_end
               PROVE  FALSE
    BY <1>1, <1>12 DEF Uncrossed
  <2>1. CASE j < i
    BY <1>2, <2>1 DEF Uncrossed
  <2>2. CASE j = i
    <3>1. kernel[k].page_base \in Nat /\ kernel[k].page_end \in Nat
      BY <1>1, SegmentFacts
    <3>2. kernel[k].page_base < E /\ E < kernel[k].page_end
      BY <1>3, <1>4, <2>2
    <3>3. k \in Intersecting(cursor, E)
      BY <1>1, <1>4, <3>1, <3>2 DEF Intersecting
    <3>4. k \in Remaining(d)
      BY <1>3, <1>4, <2>2, <3>3 DEF Remaining
    <3> QED BY <1>12, <3>4
  <2>3. j \in Nat
    BY <1>1
  <2> QED BY <1>1, <2>1, <2>2, <2>3
<1>15. SortedTo(Len(efi_map))'
  BY <1>1, <1>2 DEF SortedTo
<1>16. (i - 1 \in DOMAIN efi_map /\ previous_end = End(efi_map[i - 1]))'
  <2>1. i' - 1 = i
    BY <1>1, <1>12
  <2> QED BY <1>1, <1>3, <2>1
<1>17. pc' = "descriptor"
  BY <1>12
<1> QED BY <1>13, <1>14, <1>15, <1>16, <1>17 DEF Advancing

LEMMA FinishVerdict ==
    ASSUME MInv, VInv, Proper, Finish
    PROVE  Advancing'
<1>1. pc = "descriptor" /\ i > Len(efi_map)
  BY DEF Finish
<1>2. ValidReport /\ WellPlanned /\ SortedTo(Len(efi_map))
  BY <1>1 DEF Proper, VInv, Advancing
<1>3. tagged_kernel_bytes = expected_kernel_bytes
  BY <1>1, <1>2, CountsAgree
<1>4. pc' = "done" /\ status' = "OK"
  BY <1>3 DEF Finish, Return
<1> QED BY <1>4 DEF Advancing

LEMMA VerdictStep == MInv /\ VInv /\ [Next]_vars => VInv'
<1> SUFFICES ASSUME MInv, VInv, [Next]_vars, Proper' PROVE Advancing'
  BY DEF VInv
<1>1. UNCHANGED inputs
  BY DEF Next, vars, Enter, SortStep, SortDone, CheckSegment, PlanChecked,
         CheckDescriptor, SplitStep, TailStep, Finish
<1>2. Proper
  BY <1>1, ProperFrame
<1>3. CASE UNCHANGED vars
  <2>1. Advancing
    BY <1>2 DEF VInv
  <2>2. /\ pc' = pc /\ status' = status /\ i' = i /\ efi_map' = efi_map /\ out' = out
        /\ kernel' = kernel /\ previous_end' = previous_end /\ cursor' = cursor
    BY <1>3 DEF vars, inputs
  <2> QED BY <2>1, <2>2 DEF Advancing, SortedTo, Uncrossed, CursorAt, Cut
<1> QED BY <1>2, <1>3, EarlyVerdict, DescriptorVerdict, SplitVerdict, TailVerdict,
           FinishVerdict DEF Next

\* sypas_translate_memory_map accepts a report when it is valid, and only
\* then: no valid report is refused for a plan without overlaps when the output
\* array has the room efi_main gives it.
THEOREM VerdictIsExact == Spec => []VerdictExact
<1>1. MInv /\ VInv => VerdictExact
  BY ReportIsValid DEF VInv, Advancing, Proper, VerdictExact, Accepted
<1> QED
  BY <1>1, TranslatorInvariant, VerdictInit, VerdictStep, PTL DEF Spec

================================================================================
