----------------------------- MODULE ElfPlanProofs -----------------------------
(***************************************************************************)
(* What is proved of ElfPlan for every file, page size and limit: the plan *)
(* is sound at every moment (PlanIsSound), an image is accepted exactly    *)
(* when it is good (VerdictIsExact), and when loading is done memory holds *)
(* what the program headers say (ImageIsLoaded).                           *)
(***************************************************************************)
EXTENDS ElfPlan, FiniteSetTheorems, WellFoundedInduction, TLAPS

--------------------------------------------------------------------------------
(* Numbers *)

\* A set of naturals that is not empty has a least element.
LEMMA LeastElement ==
    ASSUME NEW S \in SUBSET Nat, S # {}
    PROVE  \E x \in S : \A y \in S : x <= y
<1> DEFINE R == OpToRel(<, Nat)
<1>1. IsWellFoundedOn(R, Nat)
  BY NatLessThanWellFounded
<1>2. \A x, y \in Nat : x < y => <<x, y>> \in R
  BY DEF OpToRel
<1> HIDE DEF R
<1>3. PICK x \in S : \A y \in S : ~ (<<y, x>> \in R)
  BY <1>1, WFMin, ZenonT(20)
<1>4. ASSUME NEW y \in S PROVE x <= y
  <2>1. x \in Nat /\ y \in Nat /\ ~(<<y, x>> \in R)
    BY <1>3
  <2>2. ~(y < x)
    BY <1>2, <2>1
  <2> QED BY <2>1, <2>2
<1> QED BY <1>4

LEMMA MinIs ==
    ASSUME NEW S \in SUBSET Nat, S # {}
    PROVE  Min(S) \in S /\ \A y \in S : Min(S) <= y
BY LeastElement DEF Min

LEMMA MinUnique ==
    ASSUME NEW S \in SUBSET Nat, NEW x \in S, \A y \in S : x <= y
    PROVE  Min(S) = x
<1>1. Min(S) \in S /\ Min(S) <= x
  BY MinIs
<1>2. x <= Min(S) /\ x \in Nat /\ Min(S) \in Nat
  BY <1>1
<1> QED BY <1>1, <1>2

LEMMA MaxUnique ==
    ASSUME NEW S \in SUBSET Nat, NEW x \in S, \A y \in S : y <= x
    PROVE  Max(S) = x
<1>1. Max(S) \in S /\ \A y \in S : Max(S) >= y
  BY DEF Max
<1>2. Max(S) >= x /\ Max(S) <= x /\ x \in Nat /\ Max(S) \in Nat
  BY <1>1
<1> QED BY <1>2

\* Reducing modulo a multiple of q first makes no difference modulo q.
LEMMA Residues ==
    ASSUME NEW x \in Int, NEW m \in Nat \ {0}, NEW q \in Nat \ {0}, m % q = 0
    PROVE  (x % m) % q = x % q
<1>1. PICK k \in Int, r \in 0 .. (m - 1) : x = m * k + r /\ r = x % m
  OBVIOUS
<1>2. PICK n \in Nat : m = q * n
  OBVIOUS
<1>3. PICK j \in Nat, s \in 0 .. (q - 1) : r = q * j + s /\ s = r % q
  OBVIOUS
<1>4. PICK u \in Int : u = n * k /\ m * k = q * u
  BY <1>2
<1>5. PICK v \in Int, w \in Int : v = q * u /\ w = q * j
  OBVIOUS
<1>6. x = v + r /\ r = w + s
  BY <1>1, <1>3, <1>4, <1>5
<1>7. v + w = q * (u + j)
  BY <1>5
<1>8. x = q * (u + j) + s
  BY <1>6, <1>7
<1>9. x % q = s
  BY <1>8
<1> QED BY <1>1, <1>3, <1>9

--------------------------------------------------------------------------------
(* Pages *)

LEMMA PageFacts ==
    /\ ELF_PAGE \in Nat \ {0} /\ MaxU64 \in Nat /\ (MaxU64 + 1) % ELF_PAGE = 0
    /\ FileSize \in Nat /\ FileSize <= MaxU64
    /\ ELF_MAX_SEGMENTS \in Nat /\ ELF_MAX_KERNEL_SPAN \in Nat
    /\ PhdrBytes \in Nat
<1>1. ELF_PAGE \in PowersOfTwo /\ FileSize \in 0 .. MaxU64 /\ MaxU64 \in Nat
  BY ElfAssumption, PowerAssumption DEF U64
<1>2. ELF_PAGE \in Nat \ {0} /\ (MaxU64 + 1) % ELF_PAGE = 0
  BY <1>1, PowerAssumption
<1> QED BY <1>1, <1>2, ElfAssumption

\* The multiple of the page size below a, and which multiples are below it.
LEMMA Rounded ==
    ASSUME NEW a \in Nat, NEW P \in Nat \ {0}
    PROVE  \E q \in Nat : /\ a \div P = q /\ a - (a % P) = q * P
                          /\ q * P <= a /\ a < q * P + P
                          /\ (q * P) % P = 0
<1>1. PICK q \in Nat, r \in 0 .. (P - 1) : q = a \div P /\ a = P * q + r /\ r = a % P
  OBVIOUS
<1>2. P * q = q * P
  BY <1>1
<1>3. (q * P) % P = 0
  BY <1>1
<1>4. PICK m \in Nat : m = q * P
  BY <1>1
<1>5. a = m + r /\ m <= a /\ a < m + P
  BY <1>1, <1>2, <1>4
<1>6. a - r = m
  BY <1>5, <1>4
<1>7. a - (a % P) = m
  BY <1>1, <1>6
<1> QED BY <1>1, <1>3, <1>4, <1>5, <1>7, Zenon

LEMMA Multiples ==
    ASSUME NEW P \in Nat \ {0}, NEW p \in Nat, NEW q \in Nat
    PROVE  /\ p * P \in Nat
           /\ p <= q <=> p * P <= q * P
           /\ p < q <=> p * P + P <= q * P
           /\ p < q <=> p * P < q * P
           /\ (p + 1) * P = p * P + P
<1>1. p * P \in Nat /\ q * P \in Nat
  OBVIOUS
<1>2. ASSUME NEW x \in Nat, NEW y \in Nat, x < y PROVE x * P + P <= y * P
  <2>1. PICK d \in Nat : y = x + 1 + d
    <3>1. y - x - 1 \in Nat /\ y = x + 1 + (y - x - 1)
      BY <1>2
    <3> QED BY <3>1
  <2>2. y * P = x * P + P + d * P /\ d * P >= 0
    BY <2>1
  <2> QED BY <2>2
<1>3. p < q => p * P + P <= q * P
  BY <1>2
<1>4. q < p => q * P + P <= p * P
  BY <1>2
<1>5. p = q => p * P = q * P
  OBVIOUS
<1>6. (p + 1) * P = p * P + P
  OBVIOUS
<1> QED BY <1>1, <1>3, <1>4, <1>5, <1>6

\* The pages from the one that holds b to the one that holds the byte before
\* e, by number and by address.
LEMMA PageSpan ==
    ASSUME NEW b \in Nat, NEW e \in Nat, b < e, NEW P \in Nat \ {0}
    PROVE  \E lo, hi \in Nat :
             /\ lo = b \div P /\ hi = (e + P - 1) \div P
             /\ b - (b % P) = lo * P /\ (e + P - 1) - ((e + P - 1) % P) = hi * P
             /\ lo < hi /\ lo * P <= b /\ e <= hi * P /\ hi * P <= e + P - 1
             /\ (lo * P) % P = 0 /\ (hi * P) % P = 0
             /\ \A p \in Nat : /\ (p + 1) * P > b <=> lo <= p
                               /\ p * P < e <=> p < hi
<1>1. PICK lo \in Nat : /\ lo = b \div P
                        /\ b - (b % P) = lo * P /\ lo * P <= b /\ b < lo * P + P
                        /\ (lo * P) % P = 0
  BY Rounded
<1>2. e + P - 1 \in Nat
  OBVIOUS
<1>3. PICK hi \in Nat : /\ hi = (e + P - 1) \div P
                        /\ (e + P - 1) - ((e + P - 1) % P) = hi * P
                        /\ hi * P <= e + P - 1 /\ e + P - 1 < hi * P + P
                        /\ (hi * P) % P = 0
  BY <1>2, Rounded
<1>4. lo * P \in Nat /\ hi * P \in Nat /\ e <= hi * P
  BY <1>1, <1>3
<1>5. lo < hi
  <2>1. lo * P < hi * P
    BY <1>1, <1>4
  <2> QED BY <2>1, Multiples
<1>6. ASSUME NEW p \in Nat PROVE (p + 1) * P > b <=> lo <= p
  <2>1. (p + 1) * P = p * P + P /\ p * P \in Nat
    BY Multiples
  <2>2. (lo <= p <=> lo * P <= p * P) /\ (p < lo <=> p * P + P <= lo * P)
    BY Multiples
  <2> QED BY <1>1, <1>4, <2>1, <2>2
<1>7. ASSUME NEW p \in Nat PROVE p * P < e <=> p < hi
  <2>1. p * P \in Nat /\ (p < hi <=> p * P + P <= hi * P) /\ (hi <= p <=> hi * P <= p * P)
    BY Multiples
  <2> QED BY <1>3, <1>4, <2>1
<1> QED BY <1>1, <1>3, <1>4, <1>5, <1>6, <1>7

--------------------------------------------------------------------------------
(* Program headers *)

\* The pages of a header, by number.
LowPage(h) == h.p_paddr \div ELF_PAGE
HighPage(h) == (h.p_paddr + h.p_memsz + ELF_PAGE - 1) \div ELF_PAGE

LEMMA PhdrTypes ==
    ASSUME NEW h \in Phdr
    PROVE  /\ h.p_offset \in Nat /\ h.p_vaddr \in Nat /\ h.p_paddr \in Nat
           /\ h.p_filesz \in Nat /\ h.p_memsz \in Nat /\ h.p_align \in Nat
           /\ h.p_vaddr <= MaxU64 /\ h.p_offset <= MaxU64
           /\ h.p_flags \subseteq {"R", "W", "X", "other"}
<1>1. /\ h.p_offset \in U64 /\ h.p_vaddr \in U64 /\ h.p_paddr \in U64
      /\ h.p_filesz \in U64 /\ h.p_memsz \in U64 /\ h.p_align \in U64
      /\ h.p_flags \subseteq {"R", "W", "X", "other"}
  BY DEF Phdr
<1>2. \A x \in U64 : x \in Nat /\ x <= MaxU64
  BY PageFacts DEF U64
<1> QED BY <1>1, <1>2

\* The pages of a header that occupies memory.
LEMMA Pages ==
    ASSUME NEW h \in Phdr, h.p_memsz > 0
    PROVE  /\ LowPage(h) \in Nat /\ HighPage(h) \in Nat /\ LowPage(h) < HighPage(h)
           /\ PageDown(h.p_paddr) = LowPage(h) * ELF_PAGE
           /\ PageEnd(h) = HighPage(h) * ELF_PAGE
           /\ LowPage(h) * ELF_PAGE \in Nat /\ HighPage(h) * ELF_PAGE \in Nat
           /\ LowPage(h) * ELF_PAGE <= h.p_paddr
           /\ h.p_paddr + h.p_memsz <= HighPage(h) * ELF_PAGE
           /\ HighPage(h) * ELF_PAGE <= h.p_paddr + h.p_memsz + ELF_PAGE - 1
           /\ LowPage(h) * ELF_PAGE < HighPage(h) * ELF_PAGE
           /\ (LowPage(h) * ELF_PAGE) % ELF_PAGE = 0
           /\ (HighPage(h) * ELF_PAGE) % ELF_PAGE = 0
           /\ h.p_paddr + h.p_memsz <= MaxU64 =>
                PageRange(h) = LowPage(h) .. (HighPage(h) - 1)
<1>1. PICK P \in Nat \ {0} : P = ELF_PAGE
  BY PageFacts
<1>2. PICK b \in Nat, e \in Nat : b = h.p_paddr /\ e = h.p_paddr + h.p_memsz /\ b < e
  BY PhdrTypes
<1>3. PICK lo \in Nat, hi \in Nat :
        /\ lo = b \div P /\ hi = (e + P - 1) \div P
        /\ b - (b % P) = lo * P /\ (e + P - 1) - ((e + P - 1) % P) = hi * P
        /\ lo < hi /\ lo * P <= b /\ e <= hi * P /\ hi * P <= e + P - 1
        /\ (lo * P) % P = 0 /\ (hi * P) % P = 0
        /\ \A p \in Nat : /\ (p + 1) * P > b <=> lo <= p
                          /\ p * P < e <=> p < hi
  <2>1. b < e
    BY <1>2
  <2> QED BY <2>1, PageSpan, Zenon
<1>4. lo = LowPage(h) /\ hi = HighPage(h)
  BY <1>1, <1>2, <1>3 DEF LowPage, HighPage
<1>5. PageDown(h.p_paddr) = lo * P /\ PageEnd(h) = hi * P
  BY <1>1, <1>2, <1>3 DEF PageDown, PageEnd
<1>6. lo * P \in Nat /\ hi * P \in Nat /\ lo * P < hi * P
  BY <1>3, Multiples
<1>7. ASSUME e <= MaxU64 PROVE PageRange(h) = lo .. (hi - 1)
  <2>1. PICK m \in Nat : m = MaxU64 \div P /\ MaxU64 < m * P + P
    BY PageFacts, Rounded
  <2>2. PageRange(h) = {p \in 0 .. m : (p + 1) * P > b /\ p * P < e}
    BY <1>1, <1>2, <2>1 DEF PageRange
  <2>3. ASSUME NEW p \in Nat, p < hi PROVE p <= m
    <3>1. p * P < m * P + P /\ p * P \in Nat /\ m * P \in Nat
      BY <1>3, <1>7, <2>1, <2>3, PageFacts
    <3>2. m < p => m * P + P <= p * P
      BY Multiples
    <3> QED BY <3>1, <3>2
  <2>4. \A p : p \in PageRange(h) <=> p \in Nat /\ p <= m /\ lo <= p /\ p < hi
    <3>1. \A p : p \in 0 .. m <=> p \in Nat /\ p <= m
      BY <2>1
    <3> QED BY <1>3, <2>2, <3>1
  <2>5. \A p : p \in lo .. (hi - 1) <=> p \in Nat /\ lo <= p /\ p < hi
    BY <1>3
  <2> QED BY <2>3, <2>4, <2>5
<1>8. LowPage(h) * ELF_PAGE = lo * P /\ HighPage(h) * ELF_PAGE = hi * P
  BY <1>1, <1>4
<1>9. (LowPage(h) * ELF_PAGE) % ELF_PAGE = 0 /\ (HighPage(h) * ELF_PAGE) % ELF_PAGE = 0
  BY <1>1, <1>3, <1>8
<1>10. PICK x \in Nat, y \in Nat : x = lo * P /\ y = hi * P
  BY <1>6
<1>11. x <= b /\ e <= y /\ y <= e + P - 1 /\ x < y
  BY <1>3, <1>6, <1>10
<1> QED BY <1>1, <1>2, <1>3, <1>4, <1>5, <1>7, <1>8, <1>9, <1>10, <1>11, Zenon

--------------------------------------------------------------------------------
(* The lists of checks *)

\* No error is reported exactly when no check fails.
LEMMA FirstErrorOk ==
    ASSUME NEW checks, NEW n \in Nat, DOMAIN checks = 1 .. n,
           \A k \in 1 .. n : checks[k][2] => checks[k][1] # "OK"
    PROVE  FirstError(checks) = "OK" <=> \A k \in 1 .. n : ~checks[k][2]
<1> DEFINE failed == {k \in 1 .. n : checks[k][2]}
<1>1. failed \in SUBSET Nat
  OBVIOUS
<1>2. CASE failed # {}
  <2>1. Min(failed) \in failed
    <3> HIDE DEF failed
    <3> QED BY <1>1, <1>2, MinIs
  <2>2. FirstError(checks) = checks[Min(failed)][1]
    BY <1>2 DEF FirstError
  <2> QED BY <2>1, <2>2
<1>3. CASE failed = {}
  BY <1>3 DEF FirstError
<1> QED BY <1>2, <1>3

LEMMA HeaderChecksOk ==
    FirstError(HeaderChecks) = "OK" <=>
        /\ eh.first = "OK" /\ ph # << >>
        /\ ~(eh.e_phoff + Len(ph) * PhdrBytes > MaxU64)
        /\ ~(eh.e_phoff + Len(ph) * PhdrBytes > FileSize)
<1> DEFINE ch == HeaderChecks
<1>1. DOMAIN ch = 1 .. 3
  BY DEF HeaderChecks
<1>2. /\ ch[1][1] = eh.first /\ (ch[1][2] <=> eh.first # "OK")
      /\ ch[2][1] = "ERR_NO_SEGMENTS" /\ (ch[2][2] <=> ph = << >>)
      /\ ch[3][1] = "ERR_PHDR_BOUNDS"
      /\ (ch[3][2] <=> \/ eh.e_phoff + Len(ph) * PhdrBytes > MaxU64
                       \/ eh.e_phoff + Len(ph) * PhdrBytes > FileSize)
  BY DEF HeaderChecks
<1> HIDE DEF ch
<1>3. \A k \in 1 .. 3 : k = 1 \/ k = 2 \/ k = 3
  OBVIOUS
<1>4. \A k \in 1 .. 3 : ch[k][2] => ch[k][1] # "OK"
  BY <1>2, <1>3
<1>5. FirstError(ch) = "OK" <=> \A k \in 1 .. 3 : ~ch[k][2]
  BY <1>1, <1>4, FirstErrorOk
<1>6. (\A k \in 1 .. 3 : ~ch[k][2]) <=> ~ch[1][2] /\ ~ch[2][2] /\ ~ch[3][2]
  BY <1>3
<1> QED BY <1>2, <1>5, <1>6 DEF ch

LEMMA FinalChecksOk ==
    /\ FirstError(FinalChecks) = "OK" <=>
        /\ segs # << >> /\ ~(phys_end - phys_base > ELF_MAX_KERNEL_SPAN)
        /\ \E k \in DOMAIN segs : EntryIn(segs[k])
<1> DEFINE ch == FinalChecks
<1>1. DOMAIN ch = 1 .. 3
  BY DEF FinalChecks
<1>2. /\ ch[1][1] = "ERR_NO_SEGMENTS" /\ (ch[1][2] <=> segs = << >>)
      /\ ch[2][1] = "ERR_TOO_BIG"
      /\ (ch[2][2] <=> phys_end - phys_base > ELF_MAX_KERNEL_SPAN)
      /\ ch[3][1] = "ERR_ENTRY"
      /\ (ch[3][2] <=> \A k \in DOMAIN segs : ~EntryIn(segs[k]))
  BY DEF FinalChecks
<1> HIDE DEF ch
<1>3. \A k \in 1 .. 3 : k = 1 \/ k = 2 \/ k = 3
  OBVIOUS
<1>4. \A k \in 1 .. 3 : ch[k][2] => ch[k][1] # "OK"
  BY <1>2, <1>3
<1>5. FirstError(ch) = "OK" <=> \A k \in 1 .. 3 : ~ch[k][2]
  BY <1>1, <1>4, FirstErrorOk
<1>6. (\A k \in 1 .. 3 : ~ch[k][2]) <=> ~ch[1][2] /\ ~ch[2][2] /\ ~ch[3][2]
  BY <1>3
<1> QED BY <1>2, <1>5, <1>6 DEF ch

\* The rules of PolicyChecks and RangeChecks, without an order.
PolicyOk(h) ==
    /\ h.p_filesz <= h.p_memsz
    /\ h.p_align > 1 => /\ h.p_align \in PowersOfTwo
                        /\ Residue(h.p_vaddr, h.p_offset, h.p_align) = 0
    /\ h.p_vaddr = h.p_paddr
    /\ "other" \notin h.p_flags /\ ~({"W", "X"} \subseteq h.p_flags)
Fits(h) ==
    /\ h.p_offset + h.p_filesz <= FileSize
    /\ h.p_paddr + h.p_memsz + ELF_PAGE - 1 <= MaxU64

LEMMA PolicyChecksOk ==
    ASSUME NEW h \in Phdr
    PROVE  /\ Len(PolicyChecks(h)) = 4 /\ DOMAIN PolicyChecks(h) = 1 .. 4
           /\ \A k \in 1 .. 4 : PolicyChecks(h)[k][2] => PolicyChecks(h)[k][1] # "OK"
           /\ (\A k \in 1 .. 4 : ~PolicyChecks(h)[k][2]) <=> PolicyOk(h)
<1> DEFINE ch == PolicyChecks(h)
<1>1. DOMAIN ch = 1 .. 4 /\ Len(ch) = 4
  BY DEF PolicyChecks
<1>2. /\ ch[1][1] = "ERR_SEG_SIZES" /\ (ch[1][2] <=> h.p_filesz > h.p_memsz)
      /\ ch[2][1] = "ERR_SEG_ALIGN"
      /\ (ch[2][2] <=> /\ h.p_align > 1
                       /\ \/ h.p_align \notin PowersOfTwo
                          \/ Residue(h.p_vaddr, h.p_offset, h.p_align) # 0)
      /\ ch[3][1] = "ERR_SEG_VADDR" /\ (ch[3][2] <=> h.p_vaddr # h.p_paddr)
      /\ ch[4][1] = "ERR_SEG_FLAGS"
      /\ (ch[4][2] <=> "other" \in h.p_flags \/ {"W", "X"} \subseteq h.p_flags)
  BY DEF PolicyChecks
<1> HIDE DEF ch
<1>3. \A k \in 1 .. 4 : k = 1 \/ k = 2 \/ k = 3 \/ k = 4
  OBVIOUS
<1>4. \A k \in 1 .. 4 : ch[k][2] => ch[k][1] # "OK"
  BY <1>2, <1>3
<1>5. (\A k \in 1 .. 4 : ~ch[k][2]) <=> ~ch[1][2] /\ ~ch[2][2] /\ ~ch[3][2] /\ ~ch[4][2]
  BY <1>3
<1>6. ~(h.p_filesz > h.p_memsz) <=> h.p_filesz <= h.p_memsz
  BY PhdrTypes
<1>7. PolicyOk(h) <=> ~ch[1][2] /\ ~ch[2][2] /\ ~ch[3][2] /\ ~ch[4][2]
  BY <1>2, <1>6, Zenon DEF PolicyOk
<1> QED BY <1>1, <1>4, <1>5, <1>7 DEF ch

LEMMA RangeChecksOk ==
    ASSUME NEW h \in Phdr
    PROVE  /\ Len(RangeChecks(h)) = 6 /\ DOMAIN RangeChecks(h) = 1 .. 6
           /\ \A k \in 1 .. 6 : RangeChecks(h)[k][2] => RangeChecks(h)[k][1] # "OK"
           /\ (\A k \in 1 .. 6 : ~RangeChecks(h)[k][2]) <=>
                /\ Len(segs) # ELF_MAX_SEGMENTS /\ Fits(h)
                /\ ~Overlaps(SegmentOf(h))
<1> DEFINE ch == RangeChecks(h)
           full == Len(segs) = ELF_MAX_SEGMENTS
           over == Overlaps(SegmentOf(h))
<1>1. DOMAIN ch = 1 .. 6 /\ Len(ch) = 6
  BY DEF RangeChecks
<1>2. /\ ch[1][1] = "ERR_TOO_MANY_SEGS" /\ (ch[1][2] <=> full)
      /\ ch[2][1] = "ERR_SEG_OVERFLOW" /\ (ch[2][2] <=> h.p_offset + h.p_filesz > MaxU64)
      /\ ch[3][1] = "ERR_SEG_BOUNDS" /\ (ch[3][2] <=> h.p_offset + h.p_filesz > FileSize)
      /\ ch[4][1] = "ERR_SEG_OVERFLOW" /\ (ch[4][2] <=> h.p_paddr + h.p_memsz > MaxU64)
      /\ ch[5][1] = "ERR_SEG_OVERFLOW"
      /\ (ch[5][2] <=> h.p_paddr + h.p_memsz + ELF_PAGE - 1 > MaxU64)
      /\ ch[6][1] = "ERR_SEG_OVERLAP" /\ (ch[6][2] <=> over)
  BY DEF RangeChecks
<1> HIDE DEF ch, full, over
<1>3. \A k \in 1 .. 6 : k = 1 \/ k = 2 \/ k = 3 \/ k = 4 \/ k = 5 \/ k = 6
  OBVIOUS
<1>4. \A k \in 1 .. 6 : ch[k][2] => ch[k][1] # "OK"
  BY <1>2, <1>3
<1>5. (\A k \in 1 .. 6 : ~ch[k][2]) <=>
        /\ ~ch[1][2] /\ ~ch[2][2] /\ ~ch[3][2] /\ ~ch[4][2] /\ ~ch[5][2] /\ ~ch[6][2]
  BY <1>3
<1>6. Fits(h) <=> /\ ~(h.p_offset + h.p_filesz > MaxU64)
                  /\ ~(h.p_offset + h.p_filesz > FileSize)
                  /\ ~(h.p_paddr + h.p_memsz > MaxU64)
                  /\ ~(h.p_paddr + h.p_memsz + ELF_PAGE - 1 > MaxU64)
  BY PhdrTypes, PageFacts DEF Fits
<1>7. (\A k \in 1 .. 6 : ~ch[k][2]) <=> ~full /\ Fits(h) /\ ~over
  BY <1>2, <1>5, <1>6, Zenon
<1> QED BY <1>1, <1>4, <1>7 DEF ch, full, over

LEMMA Joined ==
    ASSUME NEW S, NEW x \in Seq(S), NEW y \in Seq(S)
    PROVE  /\ x \o y \in Seq(S) /\ Len(x \o y) = Len(x) + Len(y)
           /\ \A k \in 1 .. (Len(x) + Len(y)) :
                (x \o y)[k] = IF k <= Len(x) THEN x[k] ELSE y[k - Len(x)]
OBVIOUS

LEMMA JoinedChecks ==
    ASSUME NEW S, NEW x \in Seq(S), NEW y \in Seq(S), Len(x) = 4, Len(y) = 6,
           \A k \in 1 .. 4 : x[k][2] => x[k][1] # "OK",
           \A k \in 1 .. 6 : y[k][2] => y[k][1] # "OK"
    PROVE  FirstError(x \o y) = "OK" <=>
             (\A k \in 1 .. 4 : ~x[k][2]) /\ (\A k \in 1 .. 6 : ~y[k][2])
<1>1. PICK z : z = x \o y
  OBVIOUS
<1>2. DOMAIN z = 1 .. 10
  <2>1. z \in Seq(S) /\ Len(z) = 10
    <3>1. z \in Seq(S) /\ Len(z) = Len(x) + Len(y)
      BY <1>1, Joined, Zenon
    <3> QED BY <3>1
  <2> QED BY <2>1
<1>3. ASSUME NEW k \in 1 .. 10
      PROVE  z[k] = IF k <= 4 THEN x[k] ELSE y[k - 4]
  <2>1. k \in 1 .. (Len(x) + Len(y))
    OBVIOUS
  <2>2. (x \o y)[k] = IF k <= Len(x) THEN x[k] ELSE y[k - Len(x)]
    BY <2>1, Joined
  <2> QED BY <1>1, <2>2
<1>4. ASSUME NEW k \in 1 .. 10 PROVE k \in 1 .. 4 \/ (k - 4 \in 1 .. 6 /\ (k - 4) + 4 = k)
  OBVIOUS
<1>5. \A k \in 1 .. 10 : z[k][2] => z[k][1] # "OK"
  BY <1>3, <1>4
<1>6. FirstError(z) = "OK" <=> \A k \in 1 .. 10 : ~z[k][2]
  BY <1>2, <1>5, FirstErrorOk
<1>7. (\A k \in 1 .. 10 : ~z[k][2]) <=>
        (\A k \in 1 .. 4 : ~x[k][2]) /\ (\A k \in 1 .. 6 : ~y[k][2])
  <2>1. \A k \in 1 .. 6 : k + 4 \in 1 .. 10 /\ z[k + 4] = y[k]
    BY <1>3
  <2>2. \A k \in 1 .. 4 : k \in 1 .. 10 /\ z[k] = x[k]
    BY <1>3
  <2> QED BY <1>3, <1>4, <2>1, <2>2
<1> QED BY <1>1, <1>6, <1>7

LEMMA ChecksTypes ==
    ASSUME NEW h
    PROVE  \E S : PolicyChecks(h) \in Seq(S) /\ RangeChecks(h) \in Seq(S)
<1>1. \A a, b, c, d : <<a, b, c, d>> \in Seq({a, b, c, d})
  OBVIOUS
<1>2. \A a, b, c, d, e, f : <<a, b, c, d, e, f>> \in Seq({a, b, c, d, e, f})
  OBVIOUS
<1>3. \E A : PolicyChecks(h) \in Seq(A)
  BY <1>1, Zenon DEF PolicyChecks
<1>4. \E B : RangeChecks(h) \in Seq(B)
  <2>1. PICK a, b, c, d, e, f : RangeChecks(h) = <<a, b, c, d, e, f>>
    BY Zenon DEF RangeChecks
  <2>2. <<a, b, c, d, e, f>> \in Seq({a, b, c, d, e, f})
    BY <1>2
  <2>3. RangeChecks(h) \in Seq({a, b, c, d, e, f})
    BY <2>1, <2>2, Zenon
  <2> QED BY <2>3, Zenon
<1>5. PICK A, B : PolicyChecks(h) \in Seq(A) /\ RangeChecks(h) \in Seq(B)
  BY <1>3, <1>4
<1>6. ASSUME NEW s, NEW C, NEW D, s \in Seq(C) PROVE s \in Seq(C \union D)
  BY <1>6
<1>7. PolicyChecks(h) \in Seq(A \union B) /\ RangeChecks(h) \in Seq(B \union A)
  BY <1>5, <1>6
<1>8. A \union B = B \union A
  OBVIOUS
<1> QED BY <1>7, <1>8, Zenon

\* A header is accepted exactly when it meets the rules that apply to it.
LEMMA HeaderErrorOk ==
    ASSUME NEW h \in Phdr
    PROVE  HeaderError(h) = "OK" <=>
             (h.p_type = "PT_LOAD" =>
                /\ PolicyOk(h)
                /\ h.p_memsz > 0 => /\ Len(segs) # ELF_MAX_SEGMENTS /\ Fits(h)
                                    /\ ~Overlaps(SegmentOf(h)))
<1>1. FirstError(PolicyChecks(h)) = "OK" <=> PolicyOk(h)
  BY PolicyChecksOk, FirstErrorOk
<1>2. FirstError(PolicyChecks(h) \o RangeChecks(h)) = "OK" <=>
        /\ PolicyOk(h) /\ Len(segs) # ELF_MAX_SEGMENTS /\ Fits(h)
        /\ ~Overlaps(SegmentOf(h))
  <2> DEFINE x == PolicyChecks(h)
             y == RangeChecks(h)
  <2>1. FirstError(x \o y) = "OK" <=>
          (\A k \in 1 .. 4 : ~x[k][2]) /\ (\A k \in 1 .. 6 : ~y[k][2])
    <3>1. /\ Len(x) = 4 /\ Len(y) = 6
          /\ \A k \in 1 .. 4 : x[k][2] => x[k][1] # "OK"
          /\ \A k \in 1 .. 6 : y[k][2] => y[k][1] # "OK"
      BY PolicyChecksOk, RangeChecksOk
    <3>2. PICK S : x \in Seq(S) /\ y \in Seq(S)
      BY ChecksTypes
    <3> HIDE DEF x, y
    <3> QED BY <3>1, <3>2, JoinedChecks
  <2> QED BY <2>1, PolicyChecksOk, RangeChecksOk, Zenon
<1>3. h.p_memsz = 0 <=> ~(h.p_memsz > 0)
  BY PhdrTypes
<1> QED BY <1>1, <1>2, <1>3, Zenon DEF HeaderError

\* LoadOk says the same of one header, in terms of numbers and pages.
LEMMA LoadOkIs ==
    ASSUME NEW h \in Phdr
    PROVE  LoadOk(h) <=> PolicyOk(h) /\ (h.p_memsz > 0 => Fits(h))
<1>1. h.p_align \in Nat /\ h.p_vaddr - h.p_offset \in Int /\ MaxU64 + 1 \in Nat \ {0}
  BY PhdrTypes, PageFacts
<1>2. (h.p_align \in {0} \union PowersOfTwo
         /\ (h.p_align > 1 => (h.p_vaddr - h.p_offset) % h.p_align = 0))
      <=> (h.p_align > 1 => /\ h.p_align \in PowersOfTwo
                            /\ Residue(h.p_vaddr, h.p_offset, h.p_align) = 0)
  <2>1. CASE h.p_align \in {0, 1}
    BY <2>1, PowerAssumption
  <2>2. CASE h.p_align > 1 /\ h.p_align \in PowersOfTwo
    <3>1. (MaxU64 + 1) % h.p_align = 0 /\ h.p_align \in Nat \ {0}
      BY <2>2, PowerAssumption
    <3>2. Residue(h.p_vaddr, h.p_offset, h.p_align) = (h.p_vaddr - h.p_offset) % h.p_align
      BY <1>1, <3>1, Residues DEF Residue
    <3> QED BY <2>2, <3>2
  <2>3. CASE h.p_align > 1 /\ h.p_align \notin PowersOfTwo
    BY <2>3
  <2> QED BY <1>1, <2>1, <2>2, <2>3
<1>3. h.p_flags \subseteq {"R", "W", "X"} <=> "other" \notin h.p_flags
  BY PhdrTypes
<1>4. ASSUME h.p_memsz > 0
      PROVE  Fits(h) <=> /\ h.p_offset + h.p_filesz <= FileSize
                         /\ \A p \in PageRange(h) : (p + 1) * ELF_PAGE <= MaxU64
                         /\ h.p_paddr + h.p_memsz <= MaxU64
  <2>1. PICK P \in Nat \ {0}, M \in Nat, e \in Nat :
          P = ELF_PAGE /\ M = MaxU64 /\ e = h.p_paddr + h.p_memsz /\ (M + 1) % P = 0
    <3>1. h.p_paddr + h.p_memsz \in Nat
      BY PhdrTypes
    <3> QED BY <3>1, PageFacts, Zenon
  <2>2. PICK hi \in Nat, lo \in Nat :
          /\ hi = HighPage(h) /\ lo = LowPage(h)
          /\ lo < hi /\ hi * P \in Nat /\ e <= hi * P /\ hi * P <= e + P - 1
          /\ e <= M => PageRange(h) = lo .. (hi - 1)
    BY <1>4, <2>1, Pages
  <2>3. ASSUME e + P - 1 <= M, NEW p \in PageRange(h) PROVE (p + 1) * P <= M
    <3>1. e <= M /\ p \in lo .. (hi - 1)
      BY <2>1, <2>2, <2>3
    <3>2. p \in Nat /\ p < hi
      BY <2>2, <3>1
    <3>3. (p + 1) * P = p * P + P /\ p * P + P <= hi * P
      BY <3>2, Multiples
    <3>4. p * P \in Nat
      BY <3>2
    <3> QED BY <2>2, <2>3, <3>3, <3>4
  <2>4. ASSUME e <= M, \A p \in PageRange(h) : (p + 1) * P <= M
        PROVE  e + P - 1 <= M
    <3>1. hi - 1 \in Nat /\ hi - 1 \in PageRange(h) /\ (hi - 1) + 1 = hi
      BY <2>2, <2>4
    <3>2. hi * P <= M
      BY <2>4, <3>1
    <3>3. PICK m \in Nat : M + 1 = m * P
      BY <2>1
    <3>4. hi < m => hi * P + P <= m * P
      BY Multiples
    <3>5. m <= hi => m * P <= hi * P
      BY Multiples
    <3>6. hi * P + P <= M + 1
      <4>1. m * P \in Nat
        BY <3>3
      <4>2. ~(m <= hi)
        BY <3>2, <3>3, <3>5, <2>2
      <4> QED BY <3>3, <3>4, <4>2
    <3> QED BY <2>2, <3>6
  <2> QED BY <2>1, <2>3, <2>4, PhdrTypes DEF Fits
<1>5. LoadOk(h) <=>
        /\ PolicyOk(h)
        /\ h.p_memsz > 0 =>
             /\ h.p_offset + h.p_filesz <= FileSize
             /\ \A p \in PageRange(h) : (p + 1) * ELF_PAGE <= MaxU64
             /\ h.p_paddr + h.p_memsz <= MaxU64
  BY <1>2, <1>3, Zenon DEF LoadOk, PolicyOk
<1> QED BY <1>4, <1>5, Zenon

--------------------------------------------------------------------------------
(* The inductive invariant *)

Segment == [paddr : Nat, page_base : Nat, page_end : Nat, offset : Nat,
            filesz : Nat, flags : SUBSET {"R", "W", "X", "other"}]

ETypes ==
    /\ pc \in {"header", "segments", "load", "done", "dead"}
    /\ i \in Nat /\ eh \in Header /\ ph \in Seq(Phdr)
    /\ segs \in Seq(Segment) /\ phys_base \in Nat /\ phys_end \in Nat
    /\ mem \in [U64 -> Int]

Apart(s, t) == s.page_end <= t.page_base \/ t.page_end <= s.page_base

\* The segments, among themselves and between the ends of the plan, both of
\* which are the end of a segment.
Shaped ==
    /\ Len(segs) <= ELF_MAX_SEGMENTS
    /\ \A k \in DOMAIN segs :
         /\ segs[k].page_base % ELF_PAGE = 0 /\ segs[k].page_end % ELF_PAGE = 0
         /\ phys_base <= segs[k].page_base /\ segs[k].page_base < segs[k].page_end
         /\ segs[k].page_end <= phys_end
    /\ \A j, k \in DOMAIN segs : j # k => Apart(segs[j], segs[k])
    /\ segs # << >> => /\ \E k \in DOMAIN segs : segs[k].page_base = phys_base
                       /\ \E k \in DOMAIN segs : segs[k].page_end = phys_end
    /\ segs = << >> => phys_base = MaxU64 /\ phys_end = 0

\* The segments are those of the headers in S.
Linked(S) ==
    /\ Cardinality(S) = Len(segs)
    /\ \A k \in DOMAIN segs : \E m \in S : segs[k] = SegmentOf(ph[m])
    /\ \A m \in S : \E k \in DOMAIN segs : segs[k] = SegmentOf(ph[m])
    /\ \A j, m \in S : j # m => Apart(SegmentOf(ph[j]), SegmentOf(ph[m]))

Seen(n) == {k \in 1 .. n : Occupies(ph[k])}
HeadersOk(n) == \A k \in 1 .. n : ph[k].p_type = "PT_LOAD" => LoadOk(ph[k])
HeadOk == eh.first = "OK" /\ eh.e_phoff + Len(ph) * PhdrBytes <= FileSize

Accepted == pc \in {"load", "dead"} \/ (pc = "done" /\ status = "OK")

\* What is known of the file when the call has come this far.
Judged ==
    /\ pc = "header" => segs = << >>
    /\ pc = "segments" =>
         /\ i > 0 /\ i <= Len(ph) + 1
         /\ HeadOk /\ HeadersOk(i - 1) /\ Linked(Seen(i - 1))
    /\ Accepted => /\ GoodImage /\ HeadersOk(Len(ph)) /\ Linked(Seen(Len(ph)))
                   /\ entry = eh.e_entry
    /\ pc = "done" /\ status # "OK" => ~GoodImage

\* What loading the first n segments leaves in memory.
InPages(s, a) == s.page_base <= a /\ a < s.page_end
ByteOf(s, a) ==
    IF s.paddr <= a /\ a < s.paddr + s.filesz THEN s.offset + (a - s.paddr) ELSE Zero
Filled(n) ==
    \A a \in U64 :
        /\ \A k \in 1 .. n : InPages(segs[k], a) => mem[a] = ByteOf(segs[k], a)
        /\ (\A k \in 1 .. n : ~InPages(segs[k], a)) => mem[a] = Untouched
Loading ==
    /\ pc \in {"header", "segments"} => Filled(0)
    /\ pc = "load" => i > 0 /\ i <= Len(segs) + 1 /\ Filled(i - 1)
    /\ pc = "done" /\ status = "OK" => Filled(Len(segs))

EInv == ETypes /\ Shaped /\ Judged /\ Loading

LEMMA SegmentIs ==
    ASSUME NEW h \in Phdr, h.p_memsz > 0
    PROVE  /\ SegmentOf(h) \in Segment
           /\ SegmentOf(h).paddr = h.p_paddr /\ SegmentOf(h).offset = h.p_offset
           /\ SegmentOf(h).filesz = h.p_filesz /\ SegmentOf(h).flags = h.p_flags
           /\ SegmentOf(h).page_base = LowPage(h) * ELF_PAGE
           /\ SegmentOf(h).page_end = HighPage(h) * ELF_PAGE
<1>1. PICK b \in Nat, e \in Nat :
        /\ b = LowPage(h) * ELF_PAGE /\ e = HighPage(h) * ELF_PAGE
        /\ b = PageDown(h.p_paddr) /\ e = PageEnd(h)
  BY Pages
<1>2. SegmentOf(h) = [paddr |-> h.p_paddr, page_base |-> b, page_end |-> e,
                      offset |-> h.p_offset, filesz |-> h.p_filesz, flags |-> h.p_flags]
  BY <1>1 DEF SegmentOf
<1> QED BY <1>1, <1>2, PhdrTypes DEF Segment

LEMMA SegmentPages ==
    ASSUME NEW h \in Phdr, h.p_memsz > 0
    PROVE  /\ SegmentOf(h).page_base % ELF_PAGE = 0 /\ SegmentOf(h).page_end % ELF_PAGE = 0
           /\ SegmentOf(h).page_base < SegmentOf(h).page_end
           /\ SegmentOf(h).page_base \in Nat /\ SegmentOf(h).page_end \in Nat
           /\ SegmentOf(h).page_base <= h.p_paddr
           /\ h.p_paddr + h.p_memsz <= SegmentOf(h).page_end
           /\ SegmentOf(h).page_end <= h.p_paddr + h.p_memsz + ELF_PAGE - 1
<1>1. PICK b, e : b = SegmentOf(h).page_base /\ e = SegmentOf(h).page_end
  OBVIOUS
<1>2. b = LowPage(h) * ELF_PAGE /\ e = HighPage(h) * ELF_PAGE
  BY <1>1, SegmentIs
<1> QED BY <1>1, <1>2, Pages, Zenon

\* No page in two segments: at most one segment has a given address.
LEMMA ShapedSound ==
    ASSUME ETypes, Shaped
    PROVE  PlanSound
<1>1. ASSUME NEW a \in U64
      PROVE  Cardinality({k \in DOMAIN segs :
                 segs[k].page_base <= a /\ a < segs[k].page_end}) <= 1
  <2> DEFINE T == {k \in DOMAIN segs : segs[k].page_base <= a /\ a < segs[k].page_end}
  <2>1. ASSUME NEW j \in T, NEW k \in T PROVE j = k
    <3>1. /\ j \in DOMAIN segs /\ k \in DOMAIN segs /\ segs[j] \in Segment /\ segs[k] \in Segment
          /\ segs[j].page_base <= a /\ a < segs[j].page_end
          /\ segs[k].page_base <= a /\ a < segs[k].page_end
      BY DEF ETypes
    <3>2. a \in Nat
      BY PageFacts DEF U64
    <3>3. /\ segs[j].page_base \in Nat /\ segs[j].page_end \in Nat
          /\ segs[k].page_base \in Nat /\ segs[k].page_end \in Nat
      BY <3>1 DEF Segment
    <3>4. ~Apart(segs[j], segs[k])
      BY <3>1, <3>2, <3>3 DEF Apart
    <3> QED BY <3>1, <3>4 DEF Shaped
  <2> HIDE DEF T
  <2>2. T = {} \/ \E x : T = {x}
    BY <2>1
  <2>3. Cardinality(T) \in {0, 1}
    BY <2>2, FS_EmptySet, FS_Singleton
  <2> QED BY <2>3 DEF T
<1> QED BY <1>1 DEF Shaped, PlanSound

\* The judgement of a file depends on the file alone.
LEMMA SameFile ==
    ASSUME UNCHANGED file
    PROVE  /\ GoodImage' <=> GoodImage
           /\ HeadOk' <=> HeadOk
           /\ \A n : HeadersOk(n)' <=> HeadersOk(n)
<1>1. eh' = eh /\ ph' = ph
  BY DEF file
<1>2. Occupying' = Occupying /\ KernelPages' = KernelPages
  BY <1>1 DEF Occupying, KernelPages
<1>3. GoodImage' <=> GoodImage
  BY <1>1, <1>2 DEF GoodImage
<1>4. HeadOk' <=> HeadOk
  BY <1>1 DEF HeadOk
<1>5. \A n : HeadersOk(n)' <=> HeadersOk(n)
  BY <1>1 DEF HeadersOk
<1> QED BY <1>3, <1>4, <1>5

LEMMA InitInv == Init => EInv
<1> SUFFICES ASSUME Init PROVE EInv
  OBVIOUS
<1>1. ETypes
  <2>1. eh \in Header /\ ph \in Seq(Phdr)
    <3>1. PICK n \in 0 .. MaxPhdrs : ph \in [1 .. n -> Phdrs]
      BY DEF Init
    <3>2. n \in Nat /\ ph \in [1 .. n -> Phdr]
      BY <3>1, ElfAssumption
    <3> QED BY <3>2, ElfAssumption DEF Init
  <2>2. mem \in [U64 -> Int]
    BY DEF Init, Untouched
  <2>3. segs \in Seq(Segment) /\ phys_base \in Nat /\ phys_end \in Nat /\ i \in Nat
    BY PageFacts DEF Init
  <2> QED BY <2>1, <2>2, <2>3 DEF Init, ETypes
<1>2. Shaped
  BY PageFacts DEF Init, Shaped
<1>3. Judged
  BY DEF Init, Judged, Accepted
<1>4. Loading
  <2>1. Filled(0)
    BY DEF Init, Filled
  <2> QED BY <2>1 DEF Init, Loading
<1> QED BY <1>1, <1>2, <1>3, <1>4 DEF EInv

LEMMA SamePlan ==
    ASSUME UNCHANGED <<file, plan>>
    PROVE  /\ Shaped' <=> Shaped
           /\ \A n : Seen(n)' = Seen(n)
           /\ \A S : Linked(S)' <=> Linked(S)
<1>1. ph' = ph /\ segs' = segs /\ phys_base' = phys_base /\ phys_end' = phys_end
  BY DEF file, plan
<1>2. Shaped' <=> Shaped
  BY <1>1 DEF Shaped
<1>3. \A n : Seen(n)' = Seen(n)
  BY <1>1 DEF Seen
<1>4. \A S : Linked(S)' <=> Linked(S)
  BY <1>1 DEF Linked
<1> QED BY <1>2, <1>3, <1>4

LEMMA EmptyPlan ==
    ASSUME segs = << >>
    PROVE  Linked({})
BY FS_EmptySet DEF Linked

LEMMA CheckHeaderInv ==
    ASSUME EInv, CheckHeader
    PROVE  EInv'
<1>1. /\ pc = "header" /\ UNCHANGED <<file, plan, mem>> /\ segs = << >> /\ Filled(0)
      /\ pc' \in {"segments", "done"} /\ i' \in Nat
  BY DEF CheckHeader, Return, EInv, Judged, Loading, ETypes
<1>2. ETypes'
  BY <1>1 DEF EInv, ETypes, file, plan
<1>3. Shaped'
  BY <1>1, SamePlan DEF EInv
<1>4. Filled(0)'
  BY <1>1 DEF Filled, plan
<1>5. CASE FirstError(HeaderChecks) = "OK"
  <2>1. pc' = "segments" /\ i' = 1
    BY <1>5 DEF CheckHeader
  <2>2. HeadOk'
    <3>1. eh.first = "OK" /\ ~(eh.e_phoff + Len(ph) * PhdrBytes > FileSize)
      BY <1>5, HeaderChecksOk
    <3>2. eh.e_phoff + Len(ph) * PhdrBytes \in Int
      <4>1. eh.e_phoff \in Nat /\ Len(ph) \in Nat
        BY PageFacts DEF EInv, ETypes, Header, U64
      <4> QED BY <4>1, PageFacts
    <3>3. HeadOk
      BY <3>1, <3>2, PageFacts DEF HeadOk
    <3> QED BY <1>1, <3>3, SameFile
  <2>3. HeadersOk(0)'
    BY DEF HeadersOk
  <2>4. Linked(Seen(0))'
    <3>1. Seen(0) = {}
      BY DEF Seen
    <3>2. Linked(Seen(0))
      BY <1>1, <3>1, EmptyPlan
    <3> QED BY <1>1, <3>2 DEF Linked, Seen, file, plan
  <2>5. i' - 1 = 0 /\ i' <= Len(ph') + 1
    BY <1>2, <2>1 DEF ETypes
  <2>6. Judged'
    BY <2>1, <2>2, <2>3, <2>4, <2>5 DEF Judged, Accepted
  <2>7. Loading'
    BY <1>4, <2>1 DEF Loading
  <2> QED BY <1>2, <1>3, <2>6, <2>7 DEF EInv
<1>6. CASE FirstError(HeaderChecks) # "OK"
  <2>1. pc' = "done" /\ status' # "OK"
    BY <1>6 DEF CheckHeader, Return
  <2>2. ~GoodImage
    <3>1. CASE eh.first # "OK"
      BY <3>1 DEF GoodImage
    <3>2. CASE ph = << >>
      <4>1. Occupying = {}
        BY <3>2 DEF Occupying
      <4>2. Cardinality(Occupying) = 0
        BY <4>1, FS_EmptySet
      <4> QED BY <4>2, PageFacts DEF GoodImage
    <3>3. CASE \/ eh.e_phoff + Len(ph) * PhdrBytes > MaxU64
               \/ eh.e_phoff + Len(ph) * PhdrBytes > FileSize
      <4>1. eh.e_phoff \in Nat /\ Len(ph) \in Nat
        BY PageFacts DEF EInv, ETypes, Header, U64
      <4>2. PICK x \in Int : x = eh.e_phoff + Len(ph) * PhdrBytes
        BY <4>1, PageFacts
      <4>3. ~(x <= FileSize)
        BY <3>3, <4>2, PageFacts
      <4> QED BY <4>2, <4>3 DEF GoodImage
    <3> QED BY <1>6, <3>1, <3>2, <3>3, HeaderChecksOk
  <2>3. ~GoodImage'
    BY <1>1, <2>2, SameFile
  <2>4. Judged'
    BY <2>1, <2>3 DEF Judged, Accepted
  <2>5. Loading'
    BY <2>1 DEF Loading
  <2> QED BY <1>2, <1>3, <2>4, <2>5 DEF EInv
<1> QED BY <1>5, <1>6

--------------------------------------------------------------------------------
(* Planning *)

LEMMA FitsRange ==
    ASSUME NEW h \in Phdr, h.p_memsz > 0, Fits(h)
    PROVE  PageRange(h) = LowPage(h) .. (HighPage(h) - 1)
<1>1. h.p_paddr + h.p_memsz <= MaxU64
  BY PhdrTypes, PageFacts DEF Fits
<1> QED BY <1>1, Pages

\* Two segments are apart exactly when their headers share no page.
LEMMA ApartIs ==
    ASSUME NEW h \in Phdr, h.p_memsz > 0, Fits(h),
           NEW g \in Phdr, g.p_memsz > 0, Fits(g)
    PROVE  Apart(SegmentOf(h), SegmentOf(g)) <=> PageRange(h) \intersect PageRange(g) = {}
<1>1. PICK P \in Nat \ {0} : P = ELF_PAGE
  BY PageFacts
<1>2. PICK a \in Nat, b \in Nat : a = LowPage(h) /\ b = HighPage(h) /\ a < b
  BY Pages
<1>3. PICK c \in Nat, d \in Nat : c = LowPage(g) /\ d = HighPage(g) /\ c < d
  BY Pages
<1>4. PageRange(h) = a .. (b - 1) /\ PageRange(g) = c .. (d - 1)
  BY <1>2, <1>3, FitsRange
<1>5. /\ SegmentOf(h).page_base = a * P /\ SegmentOf(h).page_end = b * P
      /\ SegmentOf(g).page_base = c * P /\ SegmentOf(g).page_end = d * P
  BY <1>1, <1>2, <1>3, SegmentIs
<1>6. Apart(SegmentOf(h), SegmentOf(g)) <=> b * P <= c * P \/ d * P <= a * P
  BY <1>5 DEF Apart
<1>7. (b <= c <=> b * P <= c * P) /\ (d <= a <=> d * P <= a * P)
  BY Multiples
<1>8. b <= c \/ d <= a <=> (a .. (b - 1)) \intersect (c .. (d - 1)) = {}
  <2>1. ASSUME b <= c \/ d <= a PROVE (a .. (b - 1)) \intersect (c .. (d - 1)) = {}
    BY <2>1
  <2>2. ASSUME b > c, d > a, a <= c
        PROVE  c \in (a .. (b - 1)) \intersect (c .. (d - 1))
    BY <1>3, <2>2
  <2>3. ASSUME b > c, d > a, c <= a
        PROVE  a \in (a .. (b - 1)) \intersect (c .. (d - 1))
    BY <1>2, <2>3
  <2> QED BY <2>1, <2>2, <2>3
<1> QED BY <1>4, <1>6, <1>7, <1>8, Zenon

LEMMA SeenTypes ==
    ASSUME ETypes, NEW n \in Nat, n <= Len(ph), HeadersOk(n)
    PROVE  /\ IsFiniteSet(Seen(n))
           /\ \A m \in Seen(n) : /\ m \in 1 .. n /\ m \in DOMAIN ph /\ ph[m] \in Phdr
                                 /\ Occupies(ph[m]) /\ ph[m].p_memsz > 0
                                 /\ LoadOk(ph[m]) /\ Fits(ph[m])
<1>1. Seen(n) \in SUBSET (1 .. n) /\ IsFiniteSet(1 .. n)
  BY FS_Interval DEF Seen
<1>2. IsFiniteSet(Seen(n))
  BY <1>1, FS_Subset
<1>3. ASSUME NEW m \in Seen(n)
      PROVE  /\ m \in 1 .. n /\ m \in DOMAIN ph /\ ph[m] \in Phdr
             /\ Occupies(ph[m]) /\ ph[m].p_memsz > 0
             /\ LoadOk(ph[m]) /\ Fits(ph[m])
  <2>1. m \in 1 .. n /\ Occupies(ph[m]) /\ m \in 1 .. Len(ph)
    BY <1>1 DEF Seen
  <2>2. m \in DOMAIN ph /\ ph[m] \in Phdr
    BY <2>1 DEF ETypes
  <2>3. ph[m].p_memsz > 0 /\ ph[m].p_type = "PT_LOAD"
    BY <2>1 DEF Occupies
  <2>4. LoadOk(ph[m])
    BY <2>1, <2>3 DEF HeadersOk
  <2> QED BY <2>1, <2>2, <2>3, <2>4, LoadOkIs
<1> QED BY <1>2, <1>3

LEMMA SeenGrows ==
    ASSUME NEW n \in Nat \ {0}
    PROVE  /\ Occupies(ph[n]) => Seen(n) = Seen(n - 1) \union {n}
           /\ ~Occupies(ph[n]) => Seen(n) = Seen(n - 1)
           /\ n \notin Seen(n - 1)
<1>1. \A k : k \in 1 .. n <=> k \in 1 .. (n - 1) \/ k = n
  OBVIOUS
<1>2. n \notin 1 .. (n - 1)
  OBVIOUS
<1> QED BY <1>1, <1>2, Zenon DEF Seen

LEMMA OccupyingIs ==
    ASSUME ETypes
    PROVE  /\ Occupying = Seen(Len(ph)) /\ IsFiniteSet(Occupying)
           /\ \A n \in Nat : n <= Len(ph) => Seen(n) \subseteq Occupying
<1>1. PICK l \in Nat : l = Len(ph) /\ DOMAIN ph = 1 .. l
  BY DEF ETypes
<1>2. Occupying = Seen(l) /\ Occupying \in SUBSET (1 .. l)
  BY <1>1 DEF Occupying, Seen
<1>3. IsFiniteSet(1 .. l)
  BY FS_Interval
<1>4. IsFiniteSet(Occupying)
  BY <1>2, <1>3, FS_Subset
<1>5. ASSUME NEW n \in Nat, n <= l PROVE Seen(n) \subseteq Seen(l)
  <2>1. \A k \in 1 .. n : k \in 1 .. l
    BY <1>5
  <2> QED BY <2>1 DEF Seen
<1> QED BY <1>1, <1>2, <1>4, <1>5

\* Where the planner stands when it looks at the next header.
LEMMA AtHeader ==
    ASSUME EInv, PlanHeader
    PROVE  /\ pc = "segments" /\ i \in Nat /\ i > 0 /\ i <= Len(ph) /\ i - 1 \in Nat
           /\ i \in DOMAIN ph /\ ph[i] \in Phdr /\ UNCHANGED <<file, mem>>
           /\ HeadOk /\ HeadersOk(i - 1) /\ Linked(Seen(i - 1)) /\ Filled(0)
<1>1. /\ pc = "segments" /\ i <= Len(ph) /\ UNCHANGED <<file, mem>>
      /\ i \in Nat /\ i > 0 /\ HeadOk /\ HeadersOk(i - 1) /\ Linked(Seen(i - 1))
      /\ Filled(0) /\ ph \in Seq(Phdr)
  BY DEF PlanHeader, EInv, ETypes, Judged, Loading
<1>2. i - 1 \in Nat /\ i \in DOMAIN ph /\ ph[i] \in Phdr
  BY <1>1
<1> QED BY <1>1, <1>2

\* The overlap test looks at the segments; it means the headers before.
LEMMA OverlapIs ==
    ASSUME EInv, PlanHeader, Occupies(ph[i]), Fits(ph[i])
    PROVE  Overlaps(SegmentOf(ph[i])) <=>
             \E m \in Seen(i - 1) : ~Apart(SegmentOf(ph[i]), SegmentOf(ph[m]))
<1> DEFINE s == SegmentOf(ph[i])
<1>1. ph[i] \in Phdr /\ ph[i].p_memsz > 0 /\ Linked(Seen(i - 1))
  BY AtHeader DEF Occupies
<1>2. s.page_base \in Nat /\ s.page_end \in Nat
  BY <1>1, SegmentPages
<1>3. ASSUME NEW k \in DOMAIN segs
      PROVE  (s.page_base < segs[k].page_end /\ segs[k].page_base < s.page_end)
             <=> ~Apart(s, segs[k])
  <2>1. segs[k] \in Segment
    BY DEF EInv, ETypes
  <2>2. segs[k].page_base \in Nat /\ segs[k].page_end \in Nat
    BY <2>1 DEF Segment
  <2> QED BY <1>2, <2>2 DEF Apart
<1>4. Overlaps(s) <=> \E k \in DOMAIN segs : ~Apart(s, segs[k])
  BY <1>3 DEF Overlaps
<1> HIDE DEF s
<1>5. (\E k \in DOMAIN segs : ~Apart(s, segs[k])) <=>
        \E m \in Seen(i - 1) : ~Apart(s, SegmentOf(ph[m]))
  BY <1>1, Zenon DEF Linked
<1> QED BY <1>4, <1>5 DEF s

\* A header is refused only if the image is bad.
LEMMA RefusedIsBad ==
    ASSUME EInv, PlanHeader, HeaderError(ph[i]) # "OK"
    PROVE  ~GoodImage
<1> DEFINE h == ph[i]
<1>1. /\ h \in Phdr /\ i \in DOMAIN ph /\ i \in Nat /\ i > 0 /\ i <= Len(ph)
      /\ i - 1 \in Nat /\ i - 1 <= Len(ph) /\ HeadersOk(i - 1) /\ Linked(Seen(i - 1))
  BY AtHeader DEF EInv, ETypes
<1>2. /\ h.p_type = "PT_LOAD"
      /\ ~(/\ PolicyOk(h)
           /\ h.p_memsz > 0 => /\ Len(segs) # ELF_MAX_SEGMENTS /\ Fits(h)
                               /\ ~Overlaps(SegmentOf(h)))
  BY <1>1, HeaderErrorOk, Zenon
<1>3. CASE ~LoadOk(h)
  BY <1>1, <1>2, <1>3 DEF GoodImage
<1>4. CASE LoadOk(h)
  <2>1. PolicyOk(h) /\ (h.p_memsz > 0 => Fits(h))
    BY <1>1, <1>4, LoadOkIs
  <2>2. /\ h.p_memsz > 0 /\ Fits(h) /\ Occupies(h)
        /\ Len(segs) = ELF_MAX_SEGMENTS \/ Overlaps(SegmentOf(h))
    BY <1>2, <2>1, Zenon DEF Occupies
  <2>3. /\ Occupying = Seen(Len(ph)) /\ IsFiniteSet(Occupying)
        /\ Seen(i - 1) \subseteq Occupying
    BY <1>1, OccupyingIs DEF EInv
  <2>4. i \in Occupying /\ i \notin Seen(i - 1)
    BY <1>1, <2>2, SeenGrows DEF Occupying
  <2>5. CASE Len(segs) = ELF_MAX_SEGMENTS
    <3> DEFINE T == Seen(i - 1) \union {i}
    <3>1. IsFiniteSet(Seen(i - 1)) /\ Cardinality(Seen(i - 1)) = ELF_MAX_SEGMENTS
      BY <1>1, <2>5, SeenTypes DEF EInv, Linked
    <3>2. Cardinality(T) = ELF_MAX_SEGMENTS + 1
      BY <2>4, <3>1, FS_AddElement
    <3>3. T \in SUBSET Occupying
      BY <2>3, <2>4
    <3> HIDE DEF T
    <3>4. Cardinality(T) <= Cardinality(Occupying)
      BY <2>3, <3>3, FS_Subset
    <3>5. Cardinality(Occupying) \in Nat
      BY <2>3, FS_CardinalityType
    <3>6. Cardinality(Occupying) \notin 1 .. ELF_MAX_SEGMENTS
      BY <3>2, <3>4, <3>5, PageFacts
    <3> QED BY <3>6 DEF GoodImage
  <2>6. CASE Overlaps(SegmentOf(h))
    <3>1. PICK m \in Seen(i - 1) : ~Apart(SegmentOf(h), SegmentOf(ph[m]))
      BY <2>2, <2>6, OverlapIs
    <3>2. ph[m] \in Phdr /\ ph[m].p_memsz > 0 /\ Fits(ph[m]) /\ m \in Occupying /\ m # i
      BY <1>1, <2>3, <2>4, SeenTypes DEF EInv
    <3>3. PageRange(h) \intersect PageRange(ph[m]) # {}
      BY <1>1, <2>2, <3>1, <3>2, ApartIs
    <3> QED BY <2>4, <3>2, <3>3, Zenon DEF GoodImage
  <2> QED BY <2>2, <2>5, <2>6
<1> QED BY <1>3, <1>4

LEMMA RefuseInv ==
    ASSUME EInv, PlanHeader, Refuse(ph[i])
    PROVE  EInv'
<1>1. /\ UNCHANGED <<file, plan, mem, i>> /\ pc' = "done" /\ status' # "OK"
      /\ HeaderError(ph[i]) # "OK"
  BY DEF PlanHeader, Refuse, Return
<1>2. ETypes'
  BY <1>1 DEF EInv, ETypes, file, plan
<1>3. Shaped'
  BY <1>1, SamePlan DEF EInv
<1>4. ~GoodImage'
  BY <1>1, RefusedIsBad, SameFile
<1>5. Judged'
  BY <1>1, <1>4 DEF Judged, Accepted
<1>6. Loading'
  BY <1>1 DEF Loading
<1> QED BY <1>2, <1>3, <1>5, <1>6 DEF EInv

\* An accepted header is one of those of a good image.
LEMMA NextOk ==
    ASSUME EInv, PlanHeader, HeaderError(ph[i]) = "OK"
    PROVE  HeadersOk(i)
<1>1. ph[i] \in Phdr /\ HeadersOk(i - 1) /\ i \in Nat /\ i > 0
  BY AtHeader
<1>2. ph[i].p_type = "PT_LOAD" => LoadOk(ph[i])
  BY <1>1, HeaderErrorOk, LoadOkIs, Zenon
<1>3. \A k : k \in 1 .. i <=> k \in 1 .. (i - 1) \/ k = i
  BY <1>1
<1> QED BY <1>1, <1>2, <1>3, Zenon DEF HeadersOk

LEMMA SkipInv ==
    ASSUME EInv, PlanHeader, Skip(ph[i])
    PROVE  EInv'
<1>1. /\ UNCHANGED <<file, plan, mem, pc, status>> /\ i' = i + 1
      /\ HeaderError(ph[i]) = "OK" /\ ~Occupies(ph[i])
  BY DEF PlanHeader, Skip
<1>2. ETypes'
  BY <1>1 DEF EInv, ETypes, file, plan
<1>3. Shaped'
  BY <1>1, SamePlan DEF EInv
<1>4. PICK n \in Nat :
        /\ n = i /\ n > 0 /\ i' - 1 = n /\ i' > 0 /\ i' <= Len(ph') + 1
        /\ pc' = "segments" /\ HeadOk /\ Linked(Seen(n - 1)) /\ Filled(0)
  BY <1>1, AtHeader DEF EInv, ETypes, file
<1>5. HeadersOk(n)'
  <2>1. HeadersOk(n)
    BY <1>1, <1>4, NextOk
  <2> QED BY <1>1, <2>1, SameFile
<1>6. Linked(Seen(n))'
  <2>1. Linked(Seen(n))
    BY <1>1, <1>4, SeenGrows
  <2> QED BY <1>1, <2>1 DEF Linked, Seen, file, plan
<1>7. HeadersOk(i - 1)' /\ Linked(Seen(i - 1))'
  BY <1>4, <1>5, <1>6
<1>8. HeadOk' /\ Filled(0)'
  BY <1>1, <1>4, SameFile DEF Filled, plan
<1>9. Judged' /\ Loading'
  BY <1>4, <1>7, <1>8 DEF Judged, Loading, Accepted
<1> QED BY <1>2, <1>3, <1>9 DEF EInv

LEMMA OfTwo ==
    ASSUME NEW a \in Nat, NEW b \in Nat
    PROVE  /\ Min({a, b}) = IF a <= b THEN a ELSE b
           /\ Max({a, b}) = IF a <= b THEN b ELSE a
<1>1. {a, b} \in SUBSET Nat
  OBVIOUS
<1>2. CASE a <= b
  <2>1. (\A y \in {a, b} : a <= y) /\ (\A y \in {a, b} : y <= b)
    BY <1>2
  <2>2. Min({a, b}) = a /\ Max({a, b}) = b
    BY <1>1, <2>1, MinUnique, MaxUnique
  <2> QED BY <1>2, <2>2
<1>3. CASE ~(a <= b)
  <2>1. (\A y \in {a, b} : b <= y) /\ (\A y \in {a, b} : y <= a)
    BY <1>3
  <2>2. Min({a, b}) = b /\ Max({a, b}) = a
    BY <1>1, <2>1, MinUnique, MaxUnique
  <2> QED BY <1>3, <2>2
<1> QED BY <1>2, <1>3

\* What a header that is accepted adds.
LEMMA AcceptStep ==
    ASSUME EInv, PlanHeader, Accept(ph[i])
    PROVE  \E n \in Nat, l \in Nat, s \in Segment :
             /\ n = i /\ n > 0 /\ l = Len(segs) /\ s = SegmentOf(ph[n])
             /\ ph[n] \in Phdr /\ ph[n].p_memsz > 0 /\ Fits(ph[n]) /\ Occupies(ph[n])
             /\ l + 1 <= ELF_MAX_SEGMENTS
             /\ \A k \in DOMAIN segs : Apart(s, segs[k])
             /\ \A m \in Seen(n - 1) : Apart(s, SegmentOf(ph[m]))
             /\ segs' = Append(segs, s)
             /\ phys_base' = IF phys_base <= s.page_base THEN phys_base ELSE s.page_base
             /\ phys_end' = IF phys_end <= s.page_end THEN s.page_end ELSE phys_end
<1> DEFINE h == ph[i]
           s == SegmentOf(h)
<1>1. h \in Phdr /\ i \in Nat /\ i > 0
  BY AtHeader
<1>2. h.p_type = "PT_LOAD" /\ h.p_memsz > 0 /\ Occupies(h) /\ HeaderError(h) = "OK"
  BY DEF Accept, Occupies
<1>3. Len(segs) # ELF_MAX_SEGMENTS /\ Fits(h) /\ ~Overlaps(s)
  BY <1>1, <1>2, HeaderErrorOk
<1>4. /\ s \in Segment /\ s.page_base \in Nat /\ s.page_end \in Nat
      /\ s.page_base = PageDown(h.p_paddr) /\ s.page_end = PageEnd(h)
  BY <1>1, <1>2, SegmentIs, SegmentPages, Pages
<1>5. Len(segs) \in Nat /\ Len(segs) + 1 <= ELF_MAX_SEGMENTS
  BY <1>3, PageFacts DEF EInv, ETypes, Shaped
<1>6. \A m \in Seen(i - 1) : Apart(s, SegmentOf(ph[m]))
  BY <1>2, <1>3, OverlapIs
<1>7. \A k \in DOMAIN segs : Apart(s, segs[k])
  <2>1. PICK x : x = s
    OBVIOUS
  <2>2. Linked(Seen(i - 1)) /\ \A m \in Seen(i - 1) : Apart(x, SegmentOf(ph[m]))
    BY <1>6, <2>1, AtHeader
  <2>3. \A k \in DOMAIN segs : Apart(x, segs[k])
    BY <2>2, Zenon DEF Linked
  <2> QED BY <2>1, <2>3
<1>8. segs' = Append(segs, s)
  BY DEF Accept
<1>9. phys_base \in Nat /\ phys_end \in Nat
  BY DEF EInv, ETypes
<1>10. /\ phys_base' = Min({phys_base, s.page_base})
       /\ phys_end' = Max({phys_end, s.page_end})
  BY <1>4 DEF Accept
<1>11. /\ phys_base' = IF phys_base <= s.page_base THEN phys_base ELSE s.page_base
       /\ phys_end' = IF phys_end <= s.page_end THEN s.page_end ELSE phys_end
  <2> HIDE DEF s
  <2> QED BY <1>4, <1>9, <1>10, OfTwo
<1> HIDE DEF s
<1>12. s = SegmentOf(ph[i])
  BY DEF s
<1> QED BY <1>1, <1>2, <1>3, <1>4, <1>5, <1>6, <1>7, <1>8, <1>11, <1>12, Zenon

LEMMA AcceptInv ==
    ASSUME EInv, PlanHeader, Accept(ph[i])
    PROVE  EInv'
<1>1. PICK n \in Nat, l \in Nat, s \in Segment :
        /\ n = i /\ n > 0 /\ l = Len(segs) /\ s = SegmentOf(ph[n])
        /\ ph[n] \in Phdr /\ ph[n].p_memsz > 0 /\ Fits(ph[n]) /\ Occupies(ph[n])
        /\ l + 1 <= ELF_MAX_SEGMENTS
        /\ \A k \in DOMAIN segs : Apart(s, segs[k])
        /\ \A m \in Seen(n - 1) : Apart(s, SegmentOf(ph[m]))
        /\ segs' = Append(segs, s)
        /\ phys_base' = IF phys_base <= s.page_base THEN phys_base ELSE s.page_base
        /\ phys_end' = IF phys_end <= s.page_end THEN s.page_end ELSE phys_end
  BY AcceptStep
<1>2. /\ UNCHANGED <<file, mem, pc, status, entry>> /\ i' = n + 1
      /\ HeaderError(ph[n]) = "OK"
  BY <1>1 DEF PlanHeader, Accept
<1>3. /\ segs \in Seq(Segment) /\ phys_base \in Nat /\ phys_end \in Nat /\ Shaped
  BY DEF EInv, ETypes
<1>4. /\ segs' \in Seq(Segment) /\ Len(segs') = l + 1 /\ DOMAIN segs' = 1 .. (l + 1)
      /\ segs'[l + 1] = s
  BY <1>1, <1>3
<1>5. DOMAIN segs = 1 .. l /\ \A k \in 1 .. l : k \in 1 .. (l + 1) /\ segs'[k] = segs[k]
  BY <1>1, <1>3
<1>6. \A k \in 1 .. (l + 1) : k \in 1 .. l \/ k = l + 1
  OBVIOUS
<1>7. /\ s.page_base \in Nat /\ s.page_end \in Nat /\ s.page_base < s.page_end
      /\ s.page_base % ELF_PAGE = 0 /\ s.page_end % ELF_PAGE = 0 /\ s.page_base <= MaxU64
  <2>1. ph[n].p_paddr \in Nat /\ ph[n].p_paddr <= MaxU64
    BY <1>1, PageFacts DEF Phdr, U64
  <2> QED BY <1>1, <2>1, SegmentPages, PageFacts
<1>8. ETypes'
  <2>1. phys_base' \in Nat /\ phys_end' \in Nat /\ i' \in Nat
    BY <1>1, <1>2, <1>3, <1>7
  <2> QED BY <1>2, <1>4, <2>1 DEF EInv, ETypes, file
<1>9. ASSUME NEW k \in 1 .. l
      PROVE  /\ segs[k].page_base \in Nat /\ segs[k].page_end \in Nat
             /\ segs[k].page_base % ELF_PAGE = 0 /\ segs[k].page_end % ELF_PAGE = 0
             /\ phys_base <= segs[k].page_base /\ segs[k].page_base < segs[k].page_end
             /\ segs[k].page_end <= phys_end
  <2>1. k \in DOMAIN segs /\ segs[k] \in Segment
    BY <1>3, <1>5
  <2> QED BY <1>3, <2>1 DEF Shaped, Segment
<1>10. /\ phys_base' <= phys_base /\ phys_base' <= s.page_base
       /\ phys_end <= phys_end' /\ s.page_end <= phys_end'
       /\ phys_base' \in Nat /\ phys_end' \in Nat
  BY <1>1, <1>3, <1>7
<1>11. Shaped'
  <2>1. ASSUME NEW k \in 1 .. (l + 1)
        PROVE  /\ segs'[k].page_base % ELF_PAGE = 0 /\ segs'[k].page_end % ELF_PAGE = 0
               /\ phys_base' <= segs'[k].page_base /\ segs'[k].page_base < segs'[k].page_end
               /\ segs'[k].page_end <= phys_end'
    <3>1. CASE k \in 1 .. l
      <4>1. segs'[k] = segs[k]
        BY <1>5, <3>1
      <4>2. phys_base' <= segs[k].page_base /\ segs[k].page_end <= phys_end'
        BY <1>3, <1>9, <1>10, <3>1
      <4> QED BY <1>9, <3>1, <4>1, <4>2
    <3>2. CASE k = l + 1
      BY <1>4, <1>7, <1>10, <3>2
    <3> QED BY <1>6, <3>1, <3>2
  <2>2. ASSUME NEW j \in 1 .. (l + 1), NEW k \in 1 .. (l + 1), j # k
        PROVE  Apart(segs'[j], segs'[k])
    <3>1. CASE j \in 1 .. l /\ k \in 1 .. l
      BY <1>3, <1>5, <2>2, <3>1 DEF Shaped
    <3>2. CASE j = l + 1 /\ k \in 1 .. l
      BY <1>1, <1>4, <1>5, <3>2
    <3>3. CASE j \in 1 .. l /\ k = l + 1
      <4>1. Apart(s, segs[j])
        BY <1>1, <1>5, <3>3
      <4> QED BY <1>4, <1>5, <3>3, <4>1 DEF Apart
    <3> QED BY <1>6, <2>2, <3>1, <3>2, <3>3
  <2>3. \E k \in 1 .. (l + 1) : segs'[k].page_base = phys_base'
    <3>1. CASE phys_base <= s.page_base /\ segs # << >>
      <4>1. PICK k \in 1 .. l : segs[k].page_base = phys_base
        BY <1>3, <1>5, <3>1 DEF Shaped
      <4>2. phys_base' = phys_base
        BY <1>1, <3>1
      <4> QED BY <1>5, <4>1, <4>2
    <3>2. CASE ~(phys_base <= s.page_base /\ segs # << >>)
      <4>1. phys_base' = s.page_base
        <5>1. CASE segs = << >>
          <6>1. phys_base = MaxU64
            BY <1>3, <5>1 DEF Shaped
          <6> QED BY <1>1, <1>3, <1>7, <6>1
        <5> QED BY <1>1, <3>2, <5>1
      <4> QED BY <1>4, <4>1
    <3> QED BY <3>1, <3>2
  <2>4. \E k \in 1 .. (l + 1) : segs'[k].page_end = phys_end'
    <3>1. CASE ~(phys_end <= s.page_end) /\ segs # << >>
      <4>1. PICK k \in 1 .. l : segs[k].page_end = phys_end
        BY <1>3, <1>5, <3>1 DEF Shaped
      <4>2. phys_end' = phys_end
        BY <1>1, <3>1
      <4> QED BY <1>5, <4>1, <4>2
    <3>2. CASE ~(~(phys_end <= s.page_end) /\ segs # << >>)
      <4>1. phys_end' = s.page_end
        <5>1. CASE segs = << >>
          <6>1. phys_end = 0
            BY <1>3, <5>1 DEF Shaped
          <6> QED BY <1>1, <1>7, <6>1
        <5> QED BY <1>1, <3>2, <5>1
      <4> QED BY <1>4, <4>1
    <3> QED BY <3>1, <3>2
  <2>5. segs' # << >> /\ Len(segs') <= ELF_MAX_SEGMENTS
    BY <1>1, <1>4
  <2> QED BY <1>4, <2>1, <2>2, <2>3, <2>4, <2>5 DEF Shaped
<1>12. HeadersOk(n)'
  <2>1. HeadersOk(n)
    BY <1>1, <1>2, NextOk
  <2> QED BY <1>2, <2>1, SameFile
<1>13. Linked(Seen(n))'
  <2>1. ph' = ph
    BY <1>2 DEF file
  <2>2. PICK S, T : S = Seen(n - 1) /\ T = Seen(n) /\ T = S \union {n} /\ n \notin S
    BY <1>1, SeenGrows
  <2>3. Linked(S) /\ IsFiniteSet(S)
    <3>1. /\ n - 1 \in Nat /\ n - 1 <= Len(ph) /\ HeadersOk(n - 1) /\ ETypes
          /\ Linked(Seen(n - 1))
      BY <1>1, AtHeader DEF EInv, ETypes
    <3> QED BY <2>2, <3>1, SeenTypes
  <2>4. Cardinality(T) = l + 1
    <3>1. Cardinality(S) = l
      BY <1>1, <2>3 DEF Linked
    <3>2. Cardinality(S \union {n}) = Cardinality(S) + 1
      BY <2>2, <2>3, FS_AddElement
    <3> QED BY <2>2, <3>1, <3>2
  <2>5. ASSUME NEW k \in 1 .. (l + 1) PROVE \E m \in T : segs'[k] = SegmentOf(ph[m])
    <3>1. CASE k \in 1 .. l
      <4>1. PICK m \in S : segs[k] = SegmentOf(ph[m])
        BY <1>5, <2>3, <3>1 DEF Linked
      <4> QED BY <1>5, <2>2, <3>1, <4>1
    <3>2. CASE k = l + 1
      BY <1>1, <1>4, <2>2, <3>2
    <3> QED BY <1>6, <3>1, <3>2
  <2>6. ASSUME NEW m \in T PROVE \E k \in 1 .. (l + 1) : segs'[k] = SegmentOf(ph[m])
    <3>1. CASE m \in S
      <4>1. PICK k \in 1 .. l : segs[k] = SegmentOf(ph[m])
        BY <1>5, <2>3, <3>1 DEF Linked
      <4> QED BY <1>5, <4>1
    <3>2. CASE m = n
      BY <1>1, <1>4, <3>2
    <3> QED BY <2>2, <3>1, <3>2
  <2>7. ASSUME NEW j \in T, NEW m \in T, j # m
        PROVE  Apart(SegmentOf(ph[j]), SegmentOf(ph[m]))
    <3>1. CASE j \in S /\ m \in S
      BY <2>3, <2>7, <3>1 DEF Linked
    <3>2. CASE j = n /\ m \in S
      BY <1>1, <2>2, <3>2
    <3>3. CASE j \in S /\ m = n
      <4>1. Apart(SegmentOf(ph[n]), SegmentOf(ph[j]))
        BY <1>1, <2>2, <3>3
      <4> QED BY <3>3, <4>1, Zenon DEF Apart
    <3> QED BY <2>2, <2>7, <3>1, <3>2, <3>3
  <2>8. Linked(T)'
    BY <1>4, <2>1, <2>4, <2>5, <2>6, <2>7 DEF Linked
  <2>9. Seen(n)' = T
    BY <2>1, <2>2 DEF Seen
  <2> QED BY <2>8, <2>9 DEF Linked
<1>14. /\ pc' = "segments" /\ i' - 1 = n /\ i' > 0 /\ i' <= Len(ph') + 1 /\ HeadOk'
       /\ Filled(0)'
  <2>1. /\ pc = "segments" /\ n <= Len(ph) /\ HeadOk /\ Filled(0) /\ ph' = ph /\ mem' = mem
        /\ Len(ph) \in Nat
    BY <1>1, <1>2, AtHeader DEF file, EInv, ETypes
  <2>2. Filled(0)'
    BY <2>1 DEF Filled
  <2> QED BY <1>2, <2>1, <2>2, SameFile
<1>15. Judged' /\ Loading'
  BY <1>12, <1>13, <1>14 DEF Judged, Loading, Accepted
<1> QED BY <1>8, <1>11, <1>15 DEF EInv

\* The plan's ends are the ends of the kernel's pages.
LEMMA SpanIs ==
    ASSUME ETypes, Shaped, HeadersOk(Len(ph)), Linked(Occupying), segs # << >>
    PROVE  (Max(KernelPages) + 1 - Min(KernelPages)) * ELF_PAGE = phys_end - phys_base
<1>1. PICK P \in Nat \ {0} : P = ELF_PAGE
  BY PageFacts
<1>2. \A m \in Occupying : /\ ph[m] \in Phdr /\ ph[m].p_memsz > 0 /\ Fits(ph[m])
  BY SeenTypes, OccupyingIs DEF ETypes
<1>3. ASSUME NEW m \in Occupying
      PROVE  /\ LowPage(ph[m]) \in Nat /\ HighPage(ph[m]) \in Nat
             /\ LowPage(ph[m]) < HighPage(ph[m])
             /\ PageRange(ph[m]) = LowPage(ph[m]) .. (HighPage(ph[m]) - 1)
             /\ phys_base <= LowPage(ph[m]) * P /\ HighPage(ph[m]) * P <= phys_end
  <2>1. ph[m] \in Phdr /\ ph[m].p_memsz > 0 /\ Fits(ph[m])
    BY <1>2
  <2>2. PICK k \in DOMAIN segs : segs[k] = SegmentOf(ph[m])
    BY DEF Linked
  <2>3. phys_base <= segs[k].page_base /\ segs[k].page_end <= phys_end
    BY DEF Shaped
  <2>4. segs[k].page_base = LowPage(ph[m]) * P /\ segs[k].page_end = HighPage(ph[m]) * P
    BY <1>1, <2>1, <2>2, SegmentIs
  <2> QED BY <2>1, <2>3, <2>4, Pages, FitsRange
<1>4. ASSUME NEW k \in DOMAIN segs
      PROVE  \E m \in Occupying : /\ segs[k].page_base = LowPage(ph[m]) * P
                                  /\ segs[k].page_end = HighPage(ph[m]) * P
  <2>1. PICK m \in Occupying : segs[k] = SegmentOf(ph[m])
    BY DEF Linked
  <2> QED BY <1>1, <1>2, <2>1, SegmentIs
<1>5. PICK b \in Occupying : phys_base = LowPage(ph[b]) * P
  BY <1>4 DEF Shaped
<1>6. PICK e \in Occupying : phys_end = HighPage(ph[e]) * P
  BY <1>4 DEF Shaped
<1>7. PICK lo \in Nat, hi \in Nat :
        lo = LowPage(ph[b]) /\ hi = HighPage(ph[e]) /\ hi > 0
  <2>1. LowPage(ph[b]) \in Nat /\ HighPage(ph[e]) \in Nat
    BY <1>3
  <2>2. HighPage(ph[e]) > 0
    BY <1>3
  <2> QED BY <2>1, <2>2
<1>8. KernelPages \in SUBSET Nat
  BY PageFacts DEF KernelPages, PageRange
<1>9. ASSUME NEW p \in KernelPages PROVE lo <= p /\ p <= hi - 1
  <2>1. PICK m \in Occupying : p \in PageRange(ph[m])
    BY DEF KernelPages
  <2>2. PICK x \in Nat, y \in Nat :
          /\ x = LowPage(ph[m]) /\ y = HighPage(ph[m]) /\ p \in x .. (y - 1)
          /\ lo * P <= x * P /\ y * P <= hi * P
    BY <1>3, <1>5, <1>6, <1>7, <2>1
  <2>3. lo <= x /\ y <= hi
    BY <2>2, Multiples
  <2> QED BY <2>2, <2>3
<1>10. lo \in KernelPages /\ hi - 1 \in KernelPages /\ hi - 1 \in Nat
  <2>1. lo \in PageRange(ph[b])
    BY <1>3, <1>7
  <2>2. hi - 1 \in PageRange(ph[e])
    BY <1>3, <1>7
  <2> QED BY <1>7, <2>1, <2>2 DEF KernelPages
<1>11. Min(KernelPages) = lo
  BY <1>8, <1>9, <1>10, MinUnique
<1>12. Max(KernelPages) = hi - 1
  BY <1>8, <1>9, <1>10, MaxUnique
<1>13. (hi - 1 + 1 - lo) * P = hi * P - lo * P
  OBVIOUS
<1> QED BY <1>1, <1>5, <1>6, <1>7, <1>11, <1>12, <1>13

\* When all headers have been accepted, the last three checks decide.
LEMMA FinalIs ==
    ASSUME ETypes, Shaped, HeadOk, HeadersOk(Len(ph)), Linked(Seen(Len(ph)))
    PROVE  FirstError(FinalChecks) = "OK" <=> GoodImage
<1>1. PICK l \in Nat : l = Len(ph) /\ DOMAIN ph = 1 .. l
  BY DEF ETypes
<1>2. Occupying = Seen(l) /\ Linked(Occupying)
  BY <1>1, OccupyingIs
<1>3. /\ eh.first = "OK" /\ eh.e_phoff + Len(ph) * PhdrBytes <= FileSize
      /\ \A k \in DOMAIN ph : ph[k].p_type = "PT_LOAD" => LoadOk(ph[k])
  BY <1>1 DEF HeadOk, HeadersOk
<1>4. Cardinality(Occupying) \in 1 .. ELF_MAX_SEGMENTS <=> segs # << >>
  <2>1. PICK n \in Nat : n = Len(segs) /\ Cardinality(Occupying) = n
    BY <1>2 DEF Linked, ETypes
  <2>2. n <= ELF_MAX_SEGMENTS
    BY <2>1 DEF Shaped
  <2>3. segs # << >> <=> n > 0
    BY <2>1 DEF ETypes
  <2> QED BY <2>1, <2>2, <2>3, PageFacts
<1>5. ASSUME NEW j \in Occupying, NEW k \in Occupying, j # k
      PROVE  PageRange(ph[j]) \intersect PageRange(ph[k]) = {}
  <2>1. /\ ph[j] \in Phdr /\ ph[j].p_memsz > 0 /\ Fits(ph[j])
        /\ ph[k] \in Phdr /\ ph[k].p_memsz > 0 /\ Fits(ph[k])
    BY <1>1, <1>2, SeenTypes
  <2>2. Apart(SegmentOf(ph[j]), SegmentOf(ph[k]))
    BY <1>2, <1>5 DEF Linked
  <2> QED BY <2>1, <2>2, ApartIs
<1>6. ASSUME segs # << >>
      PROVE  (Max(KernelPages) + 1 - Min(KernelPages)) * ELF_PAGE <= ELF_MAX_KERNEL_SPAN
             <=> ~(phys_end - phys_base > ELF_MAX_KERNEL_SPAN)
  <2>1. PICK x \in Int : x = phys_end - phys_base
    BY DEF ETypes
  <2>2. (Max(KernelPages) + 1 - Min(KernelPages)) * ELF_PAGE = x
    BY <1>2, <1>6, <2>1, SpanIs
  <2> QED BY <2>1, <2>2, PageFacts
<1>7. ASSUME NEW m \in Occupying
      PROVE  EntryIn(SegmentOf(ph[m])) <=>
               /\ "X" \in ph[m].p_flags
               /\ eh.e_entry - ph[m].p_paddr \in 0 .. (ph[m].p_filesz - 1)
  <2>1. ph[m] \in Phdr /\ ph[m].p_memsz > 0
    BY <1>1, <1>2, SeenTypes
  <2>2. ph[m].p_paddr \in Nat /\ ph[m].p_filesz \in Nat /\ eh.e_entry \in Nat
    BY <2>1, PhdrTypes, PageFacts DEF ETypes, Header, U64
  <2>3. /\ SegmentOf(ph[m]).paddr = ph[m].p_paddr
        /\ SegmentOf(ph[m]).filesz = ph[m].p_filesz
        /\ SegmentOf(ph[m]).flags = ph[m].p_flags
    BY <2>1, SegmentIs
  <2> QED BY <2>2, <2>3 DEF EntryIn
<1>8. (\E k \in DOMAIN segs : EntryIn(segs[k])) <=>
        \E m \in Occupying :
            /\ "X" \in ph[m].p_flags
            /\ eh.e_entry - ph[m].p_paddr \in 0 .. (ph[m].p_filesz - 1)
  <2>1. ASSUME NEW k \in DOMAIN segs, EntryIn(segs[k])
        PROVE  \E m \in Occupying :
                 /\ "X" \in ph[m].p_flags
                 /\ eh.e_entry - ph[m].p_paddr \in 0 .. (ph[m].p_filesz - 1)
    <3>1. PICK m \in Occupying : segs[k] = SegmentOf(ph[m])
      BY <1>2 DEF Linked
    <3> QED BY <1>7, <2>1, <3>1
  <2>2. ASSUME NEW m \in Occupying, EntryIn(SegmentOf(ph[m]))
        PROVE  \E k \in DOMAIN segs : EntryIn(segs[k])
    <3>1. PICK k \in DOMAIN segs : segs[k] = SegmentOf(ph[m])
      BY <1>2 DEF Linked
    <3> QED BY <2>2, <3>1
  <2> QED BY <1>7, <2>1, <2>2
<1> QED BY <1>3, <1>4, <1>5, <1>6, <1>8, FinalChecksOk, Zenon DEF GoodImage

LEMMA FinishPlanInv ==
    ASSUME EInv, FinishPlan
    PROVE  EInv'
<1>1. PICK l \in Nat :
        /\ l = Len(ph) /\ i = l + 1 /\ pc = "segments"
        /\ HeadOk /\ HeadersOk(l) /\ Linked(Seen(l)) /\ Filled(0)
  <2>1. /\ pc = "segments" /\ i > Len(ph) /\ i <= Len(ph) + 1 /\ i \in Nat /\ Len(ph) \in Nat
        /\ HeadOk /\ HeadersOk(i - 1) /\ Linked(Seen(i - 1)) /\ Filled(0)
    BY DEF FinishPlan, EInv, ETypes, Judged, Loading
  <2>2. i - 1 = Len(ph) /\ i = Len(ph) + 1
    BY <2>1
  <2> QED BY <2>1, <2>2
<1>2. /\ UNCHANGED <<file, segs, phys_base, phys_end, mem>>
      /\ pc' \in {"load", "done"} /\ i' \in Nat
  BY DEF FinishPlan, Return, EInv, ETypes
<1>3. ETypes'
  BY <1>2 DEF EInv, ETypes, file
<1>4. Shaped'
  BY <1>2 DEF EInv, Shaped
<1>5. FirstError(FinalChecks) = "OK" <=> GoodImage
  BY <1>1, FinalIs DEF EInv
<1>6. CASE FirstError(FinalChecks) = "OK"
  <2>1. pc' = "load" /\ i' = 1 /\ entry' = eh'.e_entry
    BY <1>6, <1>2 DEF FinishPlan, file
  <2>2. GoodImage' /\ HeadersOk(l)' /\ Len(ph') = l
    BY <1>1, <1>2, <1>5, <1>6, SameFile DEF file
  <2>3. Linked(Seen(l))'
    BY <1>1, <1>2 DEF Linked, Seen, file
  <2>4. Linked(Seen(Len(ph)))' /\ HeadersOk(Len(ph))'
    BY <2>2, <2>3
  <2>5. Filled(0)' /\ i' - 1 = 0 /\ i' > 0 /\ i' <= Len(segs') + 1
    BY <1>1, <1>2, <2>1, <1>3 DEF Filled, ETypes
  <2>6. Filled(i - 1)'
    BY <2>5
  <2> QED BY <1>3, <1>4, <2>1, <2>2, <2>4, <2>5, <2>6 DEF EInv, Judged, Loading, Accepted
<1>7. CASE FirstError(FinalChecks) # "OK"
  <2>1. pc' = "done" /\ status' # "OK"
    BY <1>7 DEF FinishPlan, Return
  <2>2. ~GoodImage'
    BY <1>2, <1>5, <1>7, SameFile
  <2> QED BY <1>3, <1>4, <2>1, <2>2 DEF EInv, Judged, Loading, Accepted
<1> QED BY <1>6, <1>7

--------------------------------------------------------------------------------
(* Loading *)

\* An accepted header and its segment; the file's bytes are inside its pages.
LEMMA HeaderBytes ==
    ASSUME EInv, Accepted, NEW m \in Occupying
    PROVE  /\ ph[m] \in Phdr /\ ph[m].p_memsz > 0 /\ Fits(ph[m])
           /\ ph[m].p_filesz <= ph[m].p_memsz
           /\ \E k \in DOMAIN segs : segs[k] = SegmentOf(ph[m])
<1>1. /\ HeadersOk(Len(ph)) /\ Linked(Seen(Len(ph))) /\ Occupying = Seen(Len(ph))
      /\ Len(ph) \in Nat
  BY OccupyingIs DEF EInv, ETypes, Judged
<1>2. ph[m] \in Phdr /\ ph[m].p_memsz > 0 /\ Fits(ph[m]) /\ LoadOk(ph[m])
  BY <1>1, SeenTypes DEF EInv
<1>3. ph[m].p_filesz <= ph[m].p_memsz
  BY <1>2 DEF LoadOk
<1> QED BY <1>1, <1>2, <1>3 DEF Linked

LEMMA SegmentBytes ==
    ASSUME EInv, Accepted, NEW k \in DOMAIN segs
    PROVE  /\ segs[k] \in Segment
           /\ segs[k].page_base <= segs[k].paddr
           /\ segs[k].paddr + segs[k].filesz <= segs[k].page_end
           /\ \E m \in Occupying : segs[k] = SegmentOf(ph[m])
<1>1. Linked(Seen(Len(ph))) /\ Occupying = Seen(Len(ph))
  BY OccupyingIs DEF EInv, Judged
<1>2. PICK m \in Occupying : segs[k] = SegmentOf(ph[m])
  BY <1>1 DEF Linked
<1>3. ph[m] \in Phdr /\ ph[m].p_memsz > 0 /\ ph[m].p_filesz <= ph[m].p_memsz
  BY HeaderBytes
<1>4. PICK p \in Nat, f \in Nat, s \in Nat, b \in Nat, e \in Nat :
        /\ p = ph[m].p_paddr /\ f = ph[m].p_filesz /\ s = ph[m].p_memsz
        /\ b = segs[k].page_base /\ e = segs[k].page_end
        /\ b <= p /\ p + s <= e /\ f <= s
  BY <1>2, <1>3, PhdrTypes, SegmentPages
<1>5. segs[k].paddr = p /\ segs[k].filesz = f /\ segs[k] \in Segment
  BY <1>2, <1>3, <1>4, SegmentIs
<1>6. p + f <= e
  BY <1>4
<1> QED BY <1>2, <1>4, <1>5, <1>6

\* A segment's bytes are given to its own pages only.
LEMMA LoadSegmentInv ==
    ASSUME EInv, LoadSegment
    PROVE  EInv'
<1>1. PICK n \in Nat :
        /\ n = i /\ n > 0 /\ n <= Len(segs) /\ pc = "load" /\ Filled(n - 1)
        /\ mem' = Loaded(segs[n]) /\ i' = n + 1 /\ UNCHANGED <<pc, status, file, plan>>
  BY DEF LoadSegment, EInv, ETypes, Loading
<1>2. Accepted /\ n \in DOMAIN segs /\ segs \in Seq(Segment)
  BY <1>1 DEF Accepted, EInv, ETypes
<1>3. /\ segs[n] \in Segment /\ segs[n].page_base <= segs[n].paddr
      /\ segs[n].paddr + segs[n].filesz <= segs[n].page_end
  BY <1>2, SegmentBytes
<1>4. PICK p \in Nat, f \in Nat, b \in Nat, e \in Nat, o \in Nat :
        /\ p = segs[n].paddr /\ f = segs[n].filesz /\ o = segs[n].offset
        /\ b = segs[n].page_base /\ e = segs[n].page_end /\ b <= p /\ p + f <= e
  BY <1>3 DEF Segment
<1>5. mem \in [U64 -> Int] /\ \A a \in U64 : a \in Nat
  BY PageFacts DEF EInv, ETypes, U64
<1>6. ASSUME NEW a \in U64
      PROVE  mem'[a] = IF InPages(segs[n], a) THEN ByteOf(segs[n], a) ELSE mem[a]
  <2>1. a \in Nat
    BY <1>5
  <2>2. mem'[a] = IF p <= a /\ a < p + f THEN o + (a - p)
                  ELSE IF b <= a /\ a < e THEN Zero ELSE mem[a]
    BY <1>1, <1>4 DEF Loaded
  <2>3. ByteOf(segs[n], a) = IF p <= a /\ a < p + f THEN o + (a - p) ELSE Zero
    BY <1>4 DEF ByteOf
  <2>4. InPages(segs[n], a) <=> b <= a /\ a < e
    BY <1>4 DEF InPages
  <2>5. p <= a /\ a < p + f => b <= a /\ a < e
    BY <1>4, <2>1
  <2> QED BY <2>2, <2>3, <2>4, <2>5
<1>7. mem' \in [U64 -> Int]
  <2>1. ASSUME NEW a \in U64 PROVE mem'[a] \in Int
    <3>1. ByteOf(segs[n], a) \in Int
      BY <1>4, <1>5 DEF ByteOf, Zero
    <3> QED BY <1>5, <1>6, <3>1
  <2>2. mem' = [a \in U64 |-> mem'[a]]
    BY <1>1 DEF Loaded
  <2> QED BY <2>1, <2>2
<1>8. ETypes'
  BY <1>1, <1>7 DEF EInv, ETypes, file, plan
<1>9. Filled(n)'
  <2>1. ASSUME NEW a \in U64, NEW k \in 1 .. n, InPages(segs[k], a)
        PROVE  mem'[a] = ByteOf(segs[k], a)
    <3>1. CASE k = n
      BY <1>6, <2>1, <3>1
    <3>2. CASE k # n
      <4>1. k \in 1 .. (n - 1) /\ k \in DOMAIN segs
        BY <1>1, <1>2, <3>2
      <4>2. Apart(segs[k], segs[n])
        BY <1>2, <3>2, <4>1 DEF EInv, Shaped
      <4>3. segs[k].page_base \in Nat /\ segs[k].page_end \in Nat
        <5>1. segs[k] \in Segment
          BY <1>2, <4>1
        <5> QED BY <5>1 DEF Segment
      <4>4. ~InPages(segs[n], a)
        BY <1>4, <1>5, <2>1, <4>2, <4>3 DEF InPages, Apart
      <4>5. mem[a] = ByteOf(segs[k], a)
        BY <1>1, <2>1, <4>1 DEF Filled
      <4> QED BY <1>6, <4>4, <4>5
    <3> QED BY <3>1, <3>2
  <2>2. ASSUME NEW a \in U64, \A k \in 1 .. n : ~InPages(segs[k], a)
        PROVE  mem'[a] = Untouched
    <3>1. ~InPages(segs[n], a) /\ \A k \in 1 .. (n - 1) : ~InPages(segs[k], a)
      BY <1>1, <2>2
    <3>2. mem[a] = Untouched
      BY <1>1, <3>1 DEF Filled
    <3> QED BY <1>6, <3>1, <3>2
  <2>3. segs' = segs
    BY <1>1 DEF plan
  <2> QED BY <2>1, <2>2, <2>3 DEF Filled
<1>10. Shaped' /\ (GoodImage' <=> GoodImage) /\ (HeadersOk(Len(ph))' <=> HeadersOk(Len(ph)))
  <2>1. Len(ph)' = Len(ph)
    BY <1>1 DEF file
  <2> QED BY <1>1, <2>1, SamePlan, SameFile DEF EInv
<1>11. Linked(Seen(Len(ph)))'
  <2>1. Linked(Seen(Len(ph)))
    BY <1>2 DEF EInv, Judged
  <2> QED BY <1>1, <2>1 DEF Linked, Seen, file, plan
<1>12. Judged'
  <2>1. GoodImage /\ HeadersOk(Len(ph)) /\ entry = eh.e_entry
    BY <1>2 DEF EInv, Judged
  <2>2. pc' = "load" /\ entry' = eh'.e_entry
    BY <1>1, <2>1 DEF file, plan
  <2> QED BY <1>10, <1>11, <2>1, <2>2 DEF Judged
<1>13. Loading'
  <2>1. pc' = "load" /\ i' > 0 /\ i' <= Len(segs') + 1 /\ i' - 1 = n
    BY <1>1, <1>2 DEF plan
  <2> QED BY <1>9, <2>1 DEF Loading
<1> QED BY <1>8, <1>10, <1>12, <1>13 DEF EInv

\* Steps that change neither the file, the plan nor memory.
LEMMA KeptInv ==
    ASSUME EInv, UNCHANGED <<file, plan, mem, i>>,
           \/ LoadRefused \/ LoadDone \/ UNCHANGED <<pc, status>>
    PROVE  EInv'
<1>1. /\ eh' = eh /\ ph' = ph /\ segs' = segs /\ phys_base' = phys_base
      /\ phys_end' = phys_end /\ entry' = entry /\ mem' = mem /\ i' = i
  BY DEF file, plan
<1>2. ETypes'
  BY <1>1 DEF EInv, ETypes, LoadRefused, LoadDone, Return
<1>3. Shaped'
  BY SamePlan DEF EInv
<1>4. /\ GoodImage' <=> GoodImage
      /\ HeadOk' <=> HeadOk
      /\ HeadersOk(Len(ph))' <=> HeadersOk(Len(ph))
      /\ HeadersOk(i - 1)' <=> HeadersOk(i - 1)
      /\ Linked(Seen(Len(ph)))' <=> Linked(Seen(Len(ph)))
      /\ Linked(Seen(i - 1))' <=> Linked(Seen(i - 1))
  <2>1. (GoodImage' <=> GoodImage) /\ (HeadOk' <=> HeadOk)
    BY SameFile
  <2>2. /\ HeadersOk(Len(ph))' <=> HeadersOk(Len(ph))
        /\ HeadersOk(i - 1)' <=> HeadersOk(i - 1)
    BY <1>1 DEF HeadersOk
  <2>3. /\ Linked(Seen(Len(ph)))' <=> Linked(Seen(Len(ph)))
        /\ Linked(Seen(i - 1))' <=> Linked(Seen(i - 1))
    BY <1>1 DEF Linked, Seen
  <2> QED BY <2>1, <2>2, <2>3
<1>5. /\ Filled(0)' <=> Filled(0)
      /\ Filled(i - 1)' <=> Filled(i - 1)
      /\ Filled(Len(segs))' <=> Filled(Len(segs))
  BY <1>1 DEF Filled
<1>6. CASE UNCHANGED <<pc, status>>
  <2>1. Judged'
    BY <1>1, <1>4, <1>6 DEF EInv, Judged, Accepted
  <2>2. Loading'
    BY <1>1, <1>5, <1>6 DEF EInv, Loading
  <2> QED BY <1>2, <1>3, <2>1, <2>2 DEF EInv
<1>7. CASE LoadRefused
  <2>1. pc = "load" /\ pc' = "dead" /\ Accepted
    BY <1>7 DEF LoadRefused, Accepted
  <2>2. Judged' /\ Loading'
    BY <1>1, <1>4, <2>1 DEF EInv, Judged, Loading
  <2> QED BY <1>2, <1>3, <2>2 DEF EInv
<1>8. CASE LoadDone
  <2>1. pc = "load" /\ pc' = "done" /\ status' = "OK" /\ i > Len(segs) /\ Accepted
    BY <1>8 DEF LoadDone, Accepted, Return
  <2>2. Judged'
    BY <1>1, <1>4, <2>1 DEF EInv, Judged, Accepted
  <2>3. i - 1 = Len(segs) /\ Filled(i - 1)
    BY <2>1 DEF EInv, Loading, ETypes
  <2>4. Loading'
    BY <1>5, <2>1, <2>3 DEF Loading
  <2> QED BY <1>2, <1>3, <2>2, <2>4 DEF EInv
<1> QED BY <1>6, <1>7, <1>8

--------------------------------------------------------------------------------
(* Theorems *)

LEMMA NextInv == EInv /\ [Next]_vars => EInv'
<1> SUFFICES ASSUME EInv, [Next]_vars PROVE EInv'
  OBVIOUS
<1>1. CASE CheckHeader
  BY <1>1, CheckHeaderInv
<1>2. CASE PlanHeader
  <2>1. Refuse(ph[i]) \/ Skip(ph[i]) \/ Accept(ph[i])
    BY <1>2 DEF PlanHeader
  <2> QED BY <1>2, <2>1, RefuseInv, SkipInv, AcceptInv
<1>3. CASE FinishPlan
  BY <1>3, FinishPlanInv
<1>4. CASE LoadSegment
  BY <1>4, LoadSegmentInv
<1>5. CASE LoadRefused
  BY <1>5, KeptInv DEF LoadRefused
<1>6. CASE LoadDone
  BY <1>6, KeptInv DEF LoadDone
<1>7. CASE UNCHANGED vars
  BY <1>7, KeptInv DEF vars
<1> QED BY <1>1, <1>2, <1>3, <1>4, <1>5, <1>6, <1>7 DEF Next

THEOREM PlannerInvariant == Spec => []EInv
BY InitInv, NextInv, PTL DEF Spec

\* At every moment of elf_plan_load, however the program headers are ordered,
\* aligned or sized, the plan has room in its array, consists of whole pages,
\* has no page in two segments and none outside phys_base .. phys_end.
THEOREM PlanIsSound == Spec => []PlanSound
<1>1. EInv => PlanSound
  BY ShapedSound DEF EInv
<1> QED BY <1>1, PlannerInvariant, PTL

\* elf_plan_load accepts an image exactly when it is a good one: none of the
\* checks, in the order the code makes them, lets a bad one pass or refuses a
\* good one, not even where the sums are at the end of the address space.
THEOREM VerdictIsExact == Spec => []PlanExact
<1>1. EInv => PlanExact
  BY DEF EInv, Judged, Accepted, PlanExact
<1> QED BY <1>1, PlannerInvariant, PTL

\* The page of an address, by number and by address.
LEMMA PageOf ==
    ASSUME NEW h \in Phdr, h.p_memsz > 0, Fits(h), NEW a \in Nat
    PROVE  a \div ELF_PAGE \in PageRange(h) <=> InPages(SegmentOf(h), a)
<1>1. PICK P \in Nat \ {0} : P = ELF_PAGE
  BY PageFacts
<1>2. PICK lo \in Nat, hi \in Nat : lo = LowPage(h) /\ hi = HighPage(h)
  BY Pages
<1>3. PICK q \in Nat : q = a \div P /\ q * P <= a /\ a < q * P + P
  BY Rounded
<1>4. InPages(SegmentOf(h), a) <=> lo * P <= a /\ a < hi * P
  BY <1>1, <1>2, SegmentIs DEF InPages
<1>5. a \div ELF_PAGE \in PageRange(h) <=> lo <= q /\ q < hi
  <2>1. PageRange(h) = lo .. (hi - 1)
    BY <1>2, FitsRange
  <2> QED BY <1>1, <1>2, <1>3, <2>1
<1>6. PICK x \in Nat, y \in Nat, z \in Nat : x = lo * P /\ y = hi * P /\ z = q * P
  OBVIOUS
<1>7. /\ (lo <= q <=> x <= z) /\ (q < lo <=> z + P <= x)
      /\ (q < hi <=> z + P <= y) /\ (hi <= q <=> y <= z)
  BY <1>6, Multiples
<1>8. lo <= q <=> x <= a
  BY <1>3, <1>6, <1>7
<1>9. q < hi <=> a < y
  BY <1>3, <1>6, <1>7
<1> QED BY <1>4, <1>5, <1>6, <1>8, <1>9

LEMMA InvLoaded ==
    ASSUME EInv, pc = "done", status = "OK"
    PROVE  LoadedImage
<1>1. Accepted /\ GoodImage /\ Filled(Len(segs)) /\ entry = eh.e_entry
  BY DEF Accepted, EInv, Judged, Loading
<1>2. DOMAIN segs = 1 .. Len(segs) /\ \A a \in U64 : a \in Nat
  BY PageFacts DEF EInv, ETypes, U64
<1>3. ASSUME NEW m \in Occupying, NEW a \in U64, InPages(SegmentOf(ph[m]), a)
      PROVE  mem[a] = IF 0 <= a - ph[m].p_paddr /\ a - ph[m].p_paddr < ph[m].p_filesz
                      THEN ph[m].p_offset + (a - ph[m].p_paddr) ELSE Zero
  <2>1. ph[m] \in Phdr /\ ph[m].p_memsz > 0
    BY <1>1, HeaderBytes
  <2>2. PICK k \in DOMAIN segs : segs[k] = SegmentOf(ph[m])
    BY <1>1, HeaderBytes
  <2>3. mem[a] = ByteOf(SegmentOf(ph[m]), a)
    BY <1>1, <1>2, <1>3, <2>2 DEF Filled
  <2>4. PICK p \in Nat, f \in Nat, o \in Nat :
          /\ p = ph[m].p_paddr /\ f = ph[m].p_filesz /\ o = ph[m].p_offset
          /\ p = SegmentOf(ph[m]).paddr /\ f = SegmentOf(ph[m]).filesz
          /\ o = SegmentOf(ph[m]).offset
    BY <2>1, PhdrTypes, SegmentIs
  <2>5. mem[a] = IF p <= a /\ a < p + f THEN o + (a - p) ELSE Zero
    BY <2>3, <2>4 DEF ByteOf
  <2>6. (p <= a /\ a < p + f) <=> (0 <= a - p /\ a - p < f)
    BY <1>2, <2>4
  <2> QED BY <2>4, <2>5, <2>6
<1>4. ASSUME NEW m \in Occupying, NEW a \in U64,
             a - ph[m].p_paddr \in 0 .. (ph[m].p_memsz - 1)
      PROVE  InPages(SegmentOf(ph[m]), a)
  <2>1. ph[m] \in Phdr /\ ph[m].p_memsz > 0
    BY <1>1, HeaderBytes
  <2>2. PICK p \in Nat, s \in Nat, b \in Nat, e \in Nat :
          /\ p = ph[m].p_paddr /\ s = ph[m].p_memsz
          /\ b = SegmentOf(ph[m]).page_base /\ e = SegmentOf(ph[m]).page_end
          /\ b <= p /\ p + s <= e
    BY <2>1, PhdrTypes, SegmentPages
  <2>3. b <= a /\ a < e
    BY <1>2, <1>4, <2>2
  <2> QED BY <2>2, <2>3 DEF InPages
<1>5. ASSUME NEW a \in U64, \A m \in Occupying : ~InPages(SegmentOf(ph[m]), a)
      PROVE  mem[a] = Untouched
  <2>1. \A k \in DOMAIN segs : ~InPages(segs[k], a)
    BY <1>1, <1>5, SegmentBytes
  <2> QED BY <1>1, <1>2, <2>1 DEF Filled
<1>6. ASSUME NEW m \in Occupying, NEW a \in U64
      PROVE  a \div ELF_PAGE \in PageRange(ph[m]) <=> InPages(SegmentOf(ph[m]), a)
  BY <1>1, <1>2, HeaderBytes, PageOf
<1>7. ASSUME NEW a \in U64
      PROVE  LET users == {h \in {ph[k] : k \in Occupying} :
                             a - h.p_paddr \in 0 .. (h.p_memsz - 1)}
             IN  /\ \A h \in users :
                      mem[a] = IF a - h.p_paddr < h.p_filesz
                               THEN h.p_offset + (a - h.p_paddr) ELSE Zero
                 /\ users = {} => mem[a] \in {Zero, Untouched}
                 /\ a \div ELF_PAGE \notin KernelPages => mem[a] = Untouched
  <2> DEFINE users == {h \in {ph[k] : k \in Occupying} :
                         a - h.p_paddr \in 0 .. (h.p_memsz - 1)}
  <2>1. ASSUME NEW h \in users
        PROVE  mem[a] = IF a - h.p_paddr < h.p_filesz
                        THEN h.p_offset + (a - h.p_paddr) ELSE Zero
    <3>1. PICK m \in Occupying : h = ph[m] /\ a - ph[m].p_paddr \in 0 .. (ph[m].p_memsz - 1)
      OBVIOUS
    <3>2. 0 <= a - ph[m].p_paddr
      BY <3>1
    <3> QED BY <1>3, <1>4, <3>1, <3>2
  <2>2. ASSUME users = {} PROVE mem[a] \in {Zero, Untouched}
    <3>1. CASE \A m \in Occupying : ~InPages(SegmentOf(ph[m]), a)
      BY <1>5, <3>1
    <3>2. CASE \E m \in Occupying : InPages(SegmentOf(ph[m]), a)
      <4>1. PICK m \in Occupying : InPages(SegmentOf(ph[m]), a)
        BY <3>2
      <4>2. a - ph[m].p_paddr \notin 0 .. (ph[m].p_memsz - 1)
        BY <2>2
      <4>3. ph[m].p_paddr \in Nat /\ ph[m].p_memsz \in Nat /\ ph[m].p_filesz \in Nat
            /\ ph[m].p_filesz <= ph[m].p_memsz
        BY <1>1, HeaderBytes, PhdrTypes
      <4>4. ~(0 <= a - ph[m].p_paddr /\ a - ph[m].p_paddr < ph[m].p_filesz)
        BY <1>2, <4>2, <4>3
      <4> QED BY <1>3, <4>1, <4>4
    <3> QED BY <3>1, <3>2
  <2>3. ASSUME a \div ELF_PAGE \notin KernelPages PROVE mem[a] = Untouched
    <3>1. \A m \in Occupying : a \div ELF_PAGE \notin PageRange(ph[m])
      BY <2>3 DEF KernelPages
    <3> QED BY <1>5, <1>6, <3>1
  <2> QED BY <2>1, <2>2, <2>3
<1>8. PICK x \in Occupying : /\ "X" \in ph[x].p_flags
                             /\ eh.e_entry - ph[x].p_paddr \in 0 .. (ph[x].p_filesz - 1)
  BY <1>1, Zenon DEF GoodImage
<1>9. /\ ph[x].p_paddr \in Nat /\ ph[x].p_memsz \in Nat /\ ph[x].p_filesz \in Nat
      /\ ph[x].p_offset \in Nat /\ ph[x].p_filesz <= ph[x].p_memsz
      /\ ph[x].p_offset + ph[x].p_filesz <= FileSize
  BY <1>1, HeaderBytes, PhdrTypes DEF Fits
<1>10. entry \in U64
  BY <1>1 DEF EInv, ETypes, Header
<1>11. entry \in Nat /\ InPages(SegmentOf(ph[x]), entry)
  <2>1. entry - ph[x].p_paddr \in 0 .. (ph[x].p_memsz - 1)
    BY <1>1, <1>8, <1>9
  <2> QED BY <1>2, <1>4, <1>10, <2>1
<1>12. mem[entry] \in 0 .. (FileSize - 1)
  <2>1. PICK d \in Nat : d = entry - ph[x].p_paddr /\ d < ph[x].p_filesz
    BY <1>1, <1>8, <1>9
  <2>2. mem[entry] = ph[x].p_offset + d
    BY <1>3, <1>10, <1>11, <2>1
  <2> QED BY <1>9, <2>1, <2>2, PageFacts
<1>13. ASSUME NEW k \in Occupying, entry \div ELF_PAGE \in PageRange(ph[k])
       PROVE  "X" \in ph[k].p_flags
  <2>1. entry \div ELF_PAGE \in PageRange(ph[x])
    BY <1>6, <1>10, <1>11
  <2>2. k # x => PageRange(ph[k]) \intersect PageRange(ph[x]) = {}
    BY <1>1, Zenon DEF GoodImage
  <2> QED BY <1>8, <1>13, <2>1, <2>2
<1> QED BY <1>7, <1>12, <1>13, Zenon DEF LoadedImage

\* When load_kernel_elf returns, memory holds what the program headers ask
\* for: no clearing of one segment wipes another, nothing is written outside
\* the kernel's pages, and the entry point is a byte of the file on pages that
\* are executable.
THEOREM ImageIsLoaded == Spec => []LoadedImage
<1>1. EInv => LoadedImage
  <2>1. ~(pc = "done" /\ status = "OK") => LoadedImage
    BY Zenon DEF LoadedImage
  <2> QED BY <2>1, InvLoaded
<1> QED BY <1>1, PlannerInvariant, PTL

================================================================================
