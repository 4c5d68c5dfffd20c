---------------------------- MODULE BootinfoProofs ----------------------------
(***************************************************************************)
(* What is proved of Acpi and Bootinfo for every list of configuration     *)
(* tables, every mode and every size of table, screen and cell: a          *)
(* corrupted root pointer is not accepted (CorruptionIsDetected), ACPI 2.0 *)
(* is preferred (Acpi20IsPreferred), and the screen shows the colours      *)
(* meant (ColoursAreShown).                                                *)
(***************************************************************************)
EXTENDS Bootinfo, WellFoundedInduction, TLAPS

--------------------------------------------------------------------------------
(* Sums of bytes *)

\* Induction over the naturals, for a set: were one missing, a least one would be.
LEMMA NatSetInduction ==
    ASSUME NEW S \in SUBSET Nat, 0 \in S, \A n \in S : n + 1 \in S
    PROVE  \A n \in Nat : n \in S
<1> SUFFICES ASSUME Nat \ S # {} PROVE FALSE
  OBVIOUS
<1> DEFINE R == OpToRel(<, Nat)
<1>1. IsWellFoundedOn(R, Nat)
  BY NatLessThanWellFounded
<1>2. \A x, y \in Nat : x < y => <<x, y>> \in R
  BY DEF OpToRel
<1> HIDE DEF R
<1> DEFINE T == Nat \ S
<1>3. T \in SUBSET Nat /\ T # {}
  OBVIOUS
<1> HIDE DEF T
<1>4. PICK x \in T : \A y \in T : ~ (<<y, x>> \in R)
  BY <1>1, <1>3, WFMin, ZenonT(20)
<1>5. x \in Nat /\ x # 0 /\ x \notin S
  BY <1>4 DEF T
<1>6. x - 1 \in Nat /\ x - 1 < x /\ (x - 1) + 1 = x
  BY <1>5
<1>7. x - 1 \notin T
  BY <1>2, <1>4, <1>5, <1>6
<1>8. x - 1 \in S
  BY <1>6, <1>7 DEF T
<1>9. x \in S
  BY <1>6, <1>8
<1> QED BY <1>5, <1>9

LEMMA AcpiTypes ==
    /\ ByteSize \in Nat /\ V1_LENGTH \in Nat /\ V2_MIN_LENGTH \in Nat
    /\ MAX_LENGTH \in Nat
    /\ 3 <= V1_LENGTH /\ V1_LENGTH <= V2_MIN_LENGTH /\ 5 <= V2_MIN_LENGTH
    /\ V2_MIN_LENGTH <= MAX_LENGTH /\ MAX_LENGTH < ByteSize
    /\ MaxTables \in Nat
BY AcpiAssumption

\* A table as it lies in memory.
Tables == [1 .. MAX_LENGTH -> Byte]

\* One step of the loop: the sum wraps at most once.
LEMMA Wraps ==
    ASSUME NEW x \in Byte, NEW c \in Byte
    PROVE  /\ (x + c) % ByteSize \in Byte
           /\ (x + c) % ByteSize = IF x + c < ByteSize THEN x + c
                                   ELSE x + c - ByteSize
<1>1. PICK B \in Nat : B = ByteSize /\ B > 0
  BY AcpiTypes
<1>2. x \in 0 .. (B - 1) /\ c \in 0 .. (B - 1)
  BY <1>1 DEF Byte
<1>3. CASE x + c < B
  <2>1. (x + c) % B = x + c
    BY <1>1, <1>2, <1>3
  <2> QED BY <1>1, <1>2, <1>3, <2>1 DEF Byte
<1>4. CASE ~(x + c < B)
  <2>1. PICK d \in Nat : d = x + c - B /\ d < B
    BY <1>1, <1>2, <1>4
  <2>2. x + c = B * 1 + d
    BY <1>1, <1>2, <2>1
  <2>3. (x + c) % B = d
    BY <1>1, <2>1, <2>2
  <2> QED BY <1>1, <1>2, <1>4, <2>1, <2>3 DEF Byte
<1> QED BY <1>3, <1>4

\* A step keeps equal sums equal when the bytes are, and distinct sums
\* distinct; distinct bytes make equal sums distinct.
LEMMA StepIsInjective ==
    ASSUME NEW x \in Byte, NEW y \in Byte, NEW c \in Byte, NEW d \in Byte
    PROVE  /\ x # y => (x + c) % ByteSize # (y + c) % ByteSize
           /\ c # d => (x + c) % ByteSize # (x + d) % ByteSize
<1>1. PICK B \in Nat : B = ByteSize /\ B > 0
  BY AcpiTypes
<1>2. /\ x \in 0 .. (B - 1) /\ y \in 0 .. (B - 1)
      /\ c \in 0 .. (B - 1) /\ d \in 0 .. (B - 1)
  BY <1>1 DEF Byte
<1>3. /\ (x + c) % B = IF x + c < B THEN x + c ELSE x + c - B
      /\ (y + c) % B = IF y + c < B THEN y + c ELSE y + c - B
      /\ (x + d) % B = IF x + d < B THEN x + d ELSE x + d - B
  BY <1>1, Wraps
<1>4. PICK p \in Int, q \in Int, r \in Int :
        p = (x + c) % B /\ q = (y + c) % B /\ r = (x + d) % B
  BY <1>2, <1>3
<1>5. /\ p = IF x + c < B THEN x + c ELSE x + c - B
      /\ q = IF y + c < B THEN y + c ELSE y + c - B
      /\ r = IF x + d < B THEN x + d ELSE x + d - B
  BY <1>3, <1>4
<1>6. (x # y => p # q) /\ (c # d => p # r)
  BY <1>1, <1>2, <1>5
<1> QED BY <1>1, <1>4, <1>6

\* The loop's recurrence, for a sequence of sums s over the first n bytes of t.
IsSum(s, t, n) ==
    /\ s \in [0 .. n -> Byte] /\ s[0] = 0
    /\ \A k \in 1 .. n : s[k] = (s[k - 1] + t[k]) % ByteSize

LEMMA SumsExist ==
    ASSUME NEW t \in Tables, NEW n \in 0 .. MAX_LENGTH
    PROVE  \E s : IsSum(s, t, n)
<1> DEFINE S == {m \in Nat : m <= MAX_LENGTH => \E s : IsSum(s, t, m)}
<1>1. 0 \in S
  <2>1. 0 \in Byte
    BY AcpiTypes DEF Byte
  <2>2. IsSum([k \in 0 .. 0 |-> 0], t, 0)
    BY <2>1 DEF IsSum
  <2> QED BY <2>2
<1>2. ASSUME NEW m \in S PROVE m + 1 \in S
  <2> SUFFICES ASSUME m + 1 <= MAX_LENGTH PROVE \E s : IsSum(s, t, m + 1)
    OBVIOUS
  <2>1. m \in Nat /\ m <= MAX_LENGTH
    BY AcpiTypes
  <2>2. PICK s : IsSum(s, t, m)
    BY <2>1
  <2>3. PICK b : b = (s[m] + t[m + 1]) % ByteSize
    OBVIOUS
  <2>4. s[m] \in Byte /\ t[m + 1] \in Byte
    BY <2>1, <2>2, AcpiTypes DEF IsSum, Tables
  <2>5. b \in Byte
    BY <2>3, <2>4, Wraps
  <2> DEFINE u == [k \in 0 .. (m + 1) |-> IF k = m + 1 THEN b ELSE s[k]]
  <2>6. \A k \in 0 .. m : k # m + 1 /\ k \in 0 .. (m + 1) /\ s[k] \in Byte
    BY <2>1, <2>2 DEF IsSum
  <2>7. \A k \in 0 .. m : u[k] = s[k]
    BY <2>6
  <2>8. u[m + 1] = b
    BY <2>1
  <2>9. u \in [0 .. (m + 1) -> Byte]
    <3>1. \A k \in 0 .. (m + 1) : k # m + 1 => k \in 0 .. m
      BY <2>1
    <3> QED BY <2>5, <2>6, <3>1
  <2>10. u[0] = 0
    BY <2>1, <2>2, <2>7 DEF IsSum
  <2> HIDE DEF u
  <2>11. ASSUME NEW k \in 1 .. (m + 1)
         PROVE  u[k] = (u[k - 1] + t[k]) % ByteSize
    <3>1. k - 1 \in 0 .. m /\ (k # m + 1 => k \in 1 .. m /\ k \in 0 .. m)
      BY <2>1
    <3>2. u[k - 1] = s[k - 1]
      BY <2>7, <3>1
    <3>3. CASE k = m + 1
      <4>1. k - 1 = m
        BY <2>1, <3>3
      <4> QED BY <2>3, <2>8, <3>2, <3>3, <4>1
    <3>4. CASE k # m + 1
      <4>1. s[k] = (s[k - 1] + t[k]) % ByteSize
        BY <2>2, <3>1, <3>4 DEF IsSum
      <4> QED BY <2>7, <3>1, <3>2, <3>4, <4>1
    <3> QED BY <3>3, <3>4
  <2> QED BY <2>9, <2>10, <2>11 DEF IsSum
<1> DEFINE SS == S
<1>3. SS \in SUBSET Nat /\ 0 \in SS /\ \A m \in SS : m + 1 \in SS
  BY <1>1, <1>2
<1>4. n \in Nat /\ n <= MAX_LENGTH
  BY AcpiTypes
<1>5. n \in SS
  <2> HIDE DEF SS
  <2> QED BY <1>3, <1>4, NatSetInduction
<1> QED BY <1>4, <1>5

\* The function Sums stands for is the one of the recurrence.
LEMMA SumsAre ==
    ASSUME NEW t \in Tables, NEW n \in 0 .. MAX_LENGTH
    PROVE  IsSum(Sums(t, n), t, n)
<1> DEFINE F(s) == [k \in 0 .. n |-> IF k = 0 THEN 0
                                     ELSE (s[k - 1] + t[k]) % ByteSize]
<1>1. Sums(t, n) = CHOOSE s : s = F(s)
  BY DEF Sums
<1>2. PICK s : IsSum(s, t, n)
  BY SumsExist
<1>3. s = F(s)
  <2>1. n \in Nat
    BY AcpiTypes
  <2>2. ASSUME NEW k \in 0 .. n
        PROVE  s[k] = IF k = 0 THEN 0 ELSE (s[k - 1] + t[k]) % ByteSize
    <3>1. k = 0 \/ k \in 1 .. n
      BY <2>1
    <3> QED BY <1>2, <3>1 DEF IsSum
  <2> QED BY <1>2, <2>2 DEF IsSum
<1>4. Sums(t, n) = F(Sums(t, n))
  <2> HIDE DEF F
  <2> QED BY <1>1, <1>3, Zenon
<1>5. PICK u : u = Sums(t, n)
  OBVIOUS
<1>6. u = F(u)
  BY <1>4, <1>5
<1>7. n \in Nat /\ MAX_LENGTH \in Nat
  BY AcpiTypes
<1>8. DOMAIN u = 0 .. n /\ u[0] = 0
  BY <1>6, <1>7
<1>9. ASSUME NEW k \in 1 .. n PROVE u[k] = (u[k - 1] + t[k]) % ByteSize
  <2>1. k \in 0 .. n /\ k # 0
    BY <1>7
  <2> QED BY <1>6, <2>1
<1> DEFINE T == {m \in Nat : m <= n => u[m] \in Byte}
<1>10. 0 \in T
  BY <1>8, AcpiTypes DEF Byte
<1>11. ASSUME NEW m \in T PROVE m + 1 \in T
  <2> SUFFICES ASSUME m + 1 <= n PROVE u[m + 1] \in Byte
    OBVIOUS
  <2>1. m \in Nat /\ m <= n /\ m + 1 \in 1 .. n /\ (m + 1) - 1 = m
    BY <1>7
  <2>2. u[m] \in Byte /\ t[m + 1] \in Byte
    BY <2>1, <1>7 DEF Tables
  <2>3. u[m + 1] = (u[m] + t[m + 1]) % ByteSize
    BY <1>9, <2>1
  <2> QED BY <2>2, <2>3, Wraps
<1> DEFINE TT == T
<1>12. TT \in SUBSET Nat /\ 0 \in TT /\ \A m \in TT : m + 1 \in TT
  BY <1>10, <1>11
<1>13. \A m \in Nat : m \in TT
  <2> HIDE DEF TT
  <2> QED BY <1>12, NatSetInduction
<1>14. \A m \in 0 .. n : u[m] \in Byte
  BY <1>7, <1>13
<1>15. u \in [0 .. n -> Byte]
  <2>1. u = [k \in 0 .. n |-> u[k]]
    BY <1>6, <1>8
  <2> QED BY <1>14, <2>1
<1> QED BY <1>5, <1>8, <1>9, <1>15 DEF IsSum

\* Two tables that differ in one byte have different sums from that byte on.
LEMMA SumsDiffer ==
    ASSUME NEW t \in Tables, NEW u \in Tables, NEW n \in 0 .. MAX_LENGTH,
           NEW j \in 1 .. n, t[j] # u[j],
           \A k \in 1 .. MAX_LENGTH : k # j => t[k] = u[k]
    PROVE  ~(checksum_ok(t, n) /\ checksum_ok(u, n))
<1>1. PICK a, b : /\ a = Sums(t, n) /\ b = Sums(u, n)
                  /\ IsSum(a, t, n) /\ IsSum(b, u, n)
  BY SumsAre
<1>2. n \in Nat /\ MAX_LENGTH \in Nat /\ n <= MAX_LENGTH /\ j \in Nat /\ j <= n
  BY AcpiTypes
<1> DEFINE S == {k \in Nat : k <= n => /\ k < j => a[k] = b[k]
                                       /\ k >= j => a[k] # b[k]}
<1>3. 0 \in S
  BY <1>1, <1>2 DEF IsSum
<1>4. ASSUME NEW k \in S PROVE k + 1 \in S
  <2> SUFFICES ASSUME k + 1 <= n
               PROVE  /\ k + 1 < j => a[k + 1] = b[k + 1]
                      /\ k + 1 >= j => a[k + 1] # b[k + 1]
    OBVIOUS
  <2>1. /\ k \in Nat /\ k <= n /\ k \in 0 .. n
        /\ k + 1 \in 1 .. n /\ (k + 1) - 1 = k /\ k + 1 \in 1 .. MAX_LENGTH
    BY <1>2
  <2>2. /\ a[k] \in Byte /\ b[k] \in Byte
        /\ t[k + 1] \in Byte /\ u[k + 1] \in Byte
    BY <1>1, <2>1 DEF IsSum, Tables
  <2>3. /\ a[k + 1] = (a[k] + t[k + 1]) % ByteSize
        /\ b[k + 1] = (b[k] + u[k + 1]) % ByteSize
    BY <1>1, <2>1 DEF IsSum
  <2>4. CASE k + 1 < j
    <3>1. a[k] = b[k] /\ t[k + 1] = u[k + 1]
      BY <1>2, <2>1, <2>4
    <3> QED BY <1>2, <2>1, <2>3, <2>4, <3>1
  <2>5. CASE k + 1 = j
    <3>1. a[k] = b[k] /\ t[k + 1] # u[k + 1]
      BY <1>2, <2>1, <2>5
    <3>2. (a[k] + t[k + 1]) % ByteSize # (a[k] + u[k + 1]) % ByteSize
      BY <2>2, <3>1, StepIsInjective
    <3> QED BY <1>2, <2>1, <2>3, <2>5, <3>1, <3>2
  <2>6. CASE k + 1 > j
    <3>1. a[k] # b[k] /\ t[k + 1] = u[k + 1]
      BY <1>2, <2>1, <2>6
    <3>2. (a[k] + t[k + 1]) % ByteSize # (b[k] + t[k + 1]) % ByteSize
      BY <2>2, <3>1, StepIsInjective
    <3> QED BY <1>2, <2>1, <2>3, <2>6, <3>1, <3>2
  <2> QED BY <1>2, <2>1, <2>4, <2>5, <2>6
<1> DEFINE SS == S
<1>5. SS \in SUBSET Nat /\ 0 \in SS /\ \A m \in SS : m + 1 \in SS
  BY <1>3, <1>4
<1>6. n \in SS
  <2> HIDE DEF SS
  <2> QED BY <1>2, <1>5, NatSetInduction
<1>7. a[n] # b[n]
  BY <1>2, <1>6
<1> QED BY <1>1, <1>7 DEF checksum_ok

\* A valid table and a copy of it with one byte of its claimed length
\* different, other than the length itself, are not both valid.
LEMMA OneByte ==
    ASSUME NEW t \in Tables, Valid(t),
           NEW k \in (1 .. IF t[3] = 0 THEN V1_LENGTH ELSE t[4]) \ {4},
           NEW b \in Byte \ {t[k]}
    PROVE  ~Valid([t EXCEPT ![k] = b])
<1> DEFINE u == [t EXCEPT ![k] = b]
<1>1. /\ checksum_ok(t, V1_LENGTH)
      /\ \/ t[3] = 0
         \/ /\ t[3] >= 2 /\ V2_MIN_LENGTH <= t[4] /\ t[4] <= MAX_LENGTH
            /\ checksum_ok(t, t[4])
  BY DEF Valid, Extended
<1>2. t[3] \in Nat /\ t[4] \in Nat
  BY AcpiTypes DEF Tables, Byte
<1>3. k \in 1 .. MAX_LENGTH /\ k # 4
  <2>1. CASE t[3] = 0
    BY <2>1, AcpiTypes
  <2>2. CASE t[3] # 0
    BY <1>1, <1>2, <2>2, AcpiTypes
  <2> QED BY <2>1, <2>2
<1>4. /\ u \in Tables /\ u[k] = b
      /\ \A j \in 1 .. MAX_LENGTH : j # k => t[j] = u[j]
  BY <1>3 DEF Tables
<1> HIDE DEF u
<1>5. t[k] # u[k]
  BY <1>4
<1> SUFFICES ASSUME Valid(u) PROVE FALSE
  BY DEF u
<1>6. /\ checksum_ok(u, V1_LENGTH)
      /\ \/ u[3] = 0
         \/ /\ u[3] >= 2 /\ V2_MIN_LENGTH <= u[4] /\ u[4] <= MAX_LENGTH
            /\ checksum_ok(u, u[4])
  BY DEF Valid, Extended
<1>7. CASE k <= V1_LENGTH
  <2>1. V1_LENGTH \in 0 .. MAX_LENGTH /\ k \in 1 .. V1_LENGTH
    BY <1>3, <1>7, AcpiTypes
  <2> QED BY <1>1, <1>4, <1>5, <1>6, <2>1, SumsDiffer
<1>8. CASE ~(k <= V1_LENGTH)
  <2>1. t[3] # 0 /\ k <= t[4] /\ k # 3 /\ k # 4
    BY <1>2, <1>3, <1>8, AcpiTypes
  <2>2. 3 \in 1 .. MAX_LENGTH /\ 4 \in 1 .. MAX_LENGTH
    BY AcpiTypes
  <2>3. u[3] = t[3] /\ u[4] = t[4]
    BY <1>4, <2>1, <2>2
  <2>4. checksum_ok(t, t[4]) /\ checksum_ok(u, t[4]) /\ t[4] <= MAX_LENGTH
    BY <1>1, <1>6, <2>1, <2>3
  <2>5. t[4] \in 0 .. MAX_LENGTH /\ k \in 1 .. t[4]
    BY <1>2, <1>3, <2>1, <2>4, AcpiTypes
  <2> QED BY <1>4, <1>5, <2>4, <2>5, SumsDiffer
<1> QED BY <1>7, <1>8

--------------------------------------------------------------------------------
(* The inductive invariant *)

\* Entry k holds a valid table under the GUID g.
Usable(g, k) == ct[k].guid = g /\ Valid(ct[k].table)

\* The loop has met no ACPI 2.0 table, and v1 is an ACPI 1.0 table when it has
\* met one.
Searching ==
    pc \in {"clear", "search"} =>
        /\ i \in 1 .. (Len(ct) + 1) /\ found = Null
        /\ \A k \in 1 .. (i - 1) : ~Usable("acpi20", k)
        /\ \/ v1 = Null /\ \A k \in 1 .. (i - 1) : ~Usable("acpi10", k)
           \/ \E k \in 1 .. (i - 1) : Usable("acpi10", k) /\ v1 = ct[k].table

\* What the loop returns is nothing, or a valid table.
Returned == found = Null \/ (found \in Tables /\ Valid(found))

Fields == {"fb_base", "fb_width", "fb_height", "fb_pitch", "fb_format",
           "acpi_rsdp"}

\* The bootinfo the kernel is given describes the mode.
Described ==
    pc \in {"kernel", "ready", "serial_only"} =>
        /\ bi.fb_format = FormatOf(gop)
        /\ FormatOf(gop) # "NONE" =>
             /\ bi.fb_width = gop.HorizontalResolution
             /\ bi.fb_height = gop.VerticalResolution
             /\ bi.fb_pitch = gop.PixelsPerScanLine * 4

IsColour(c) == c = <<c[1], c[2], c[3]>>

\* Every pixel of the screen, and nothing else, holds the colour asked of it.
PaintedBy(mem, ask) ==
    LET all == Rect(0, 0, bi.fb_width, bi.fb_height)
    IN  /\ DOMAIN ask = all /\ DOMAIN mem = Offsets(all)
        /\ \A p \in all : /\ mem[Offset(p)] = to_native(ask[p])
                          /\ IsColour(ask[p])

Painted == PaintedBy(vram, asked)

Drawn ==
    /\ IsColour(fg) /\ IsColour(bg)
    /\ pc # "ready" => vram = << >> /\ asked = << >>
    /\ pc = "ready" => Accepted /\ Painted

Shaped ==
    /\ ct \in UNION {[1 .. n -> ConfigTables] : n \in 0 .. MaxTables}
    /\ gop \in Modes \union {Absent}
    /\ bi = [f \in Fields |-> bi[f]]

BInv ==
    /\ Shaped /\ Searching /\ Returned /\ PrefersAcpi20
    /\ Described /\ Drawn

--------------------------------------------------------------------------------
(* The search *)

LEMMA ListIs ==
    ASSUME NEW n \in Nat, NEW c \in [1 .. n -> ConfigTables]
    PROVE  Len(c) = n /\ DOMAIN c = 1 .. n
<1>1. c \in Seq(ConfigTables) /\ DOMAIN c = 1 .. n
  OBVIOUS
<1> QED BY <1>1

LEMMA ListFacts ==
    ASSUME Shaped
    PROVE  \E n \in Nat : /\ Len(ct) = n /\ DOMAIN ct = 1 .. n
                          /\ \A k \in 1 .. n : ct[k] \in ConfigTables
<1>1. PICK n \in 0 .. MaxTables : ct \in [1 .. n -> ConfigTables]
  BY DEF Shaped
<1>2. n \in Nat
  BY AcpiTypes
<1>3. Len(ct) = n /\ DOMAIN ct = 1 .. n
  BY <1>1, <1>2, ListIs
<1>4. \A k \in 1 .. n : ct[k] \in ConfigTables
  BY <1>1
<1> QED BY <1>2, <1>3, <1>4

\* An entry of the list whose table is valid holds a whole table.
LEMMA ValidIsTable ==
    ASSUME NEW e \in ConfigTables, Valid(e.table)
    PROVE  e.table \in Tables
<1>1. e.table # Null
  BY DEF Valid
<1>2. e.table = Null \/ e.table \in [1 .. MAX_LENGTH -> Byte]
  BY AcpiAssumption
<1> QED BY <1>1, <1>2 DEF Tables

\* What a search returns when it meets an ACPI 2.0 table, and at its end.
LEMMA FoundMeets ==
    ASSUME BInv, FindStep, Found(ct[i])
    PROVE  PrefersAcpi20' /\ Returned' /\ Searching'
<1>1. PICK n \in Nat : /\ Len(ct) = n /\ DOMAIN ct = 1 .. n
                       /\ \A k \in 1 .. n : ct[k] \in ConfigTables
  BY ListFacts DEF BInv
<1>2. /\ pc = "search" /\ pc' = "found" /\ found' = ct[i].table
      /\ ct' = ct /\ i <= Len(ct)
  BY DEF FindStep
<1>3. PICK m \in 1 .. n : m = i
  BY <1>1, <1>2 DEF BInv, Searching
<1>4. ct[m].guid = "acpi20" /\ Valid(ct[m].table) /\ found' = ct[m].table
  BY <1>2, <1>3 DEF Found
<1> DEFINE Good(g) == {ct[k].table : k \in {j \in DOMAIN ct :
                           ct[j].guid = g /\ Valid(ct[j].table)}}
<1>5. found' \in Good("acpi20")
  BY <1>1, <1>3, <1>4
<1>6. PrefersAcpi20'
  BY <1>2, <1>5 DEF PrefersAcpi20
<1>7. Returned'
  <2>1. ct[m] \in ConfigTables
    BY <1>1, <1>3
  <2>2. ct[m].table \in Tables
    BY <1>4, <2>1, ValidIsTable
  <2> QED BY <1>4, <2>2 DEF Returned
<1> QED BY <1>2, <1>6, <1>7 DEF Searching

LEMMA FindGoesOn ==
    ASSUME BInv, FindStep, ~Found(ct[i])
    PROVE  PrefersAcpi20' /\ Returned' /\ Searching'
<1>1. PICK n \in Nat : /\ Len(ct) = n /\ DOMAIN ct = 1 .. n
                       /\ \A k \in 1 .. n : ct[k] \in ConfigTables
  BY ListFacts DEF BInv
<1>2. /\ pc = "search" /\ pc' = pc /\ found' = found /\ i' = i + 1
      /\ ct' = ct /\ i <= Len(ct)
      /\ v1' = IF ct[i].guid = "acpi10" /\ Valid(ct[i].table)
               THEN ct[i].table ELSE v1
  BY DEF FindStep
<1>3. PICK m \in 1 .. n : m = i
  BY <1>1, <1>2 DEF BInv, Searching
<1>4. ~Usable("acpi20", m)
  BY <1>3 DEF Found, Usable
<1>5. /\ found = Null
      /\ \A k \in 1 .. (m - 1) : ~Usable("acpi20", k)
      /\ \/ v1 = Null /\ \A k \in 1 .. (m - 1) : ~Usable("acpi10", k)
         \/ \E k \in 1 .. (m - 1) : Usable("acpi10", k) /\ v1 = ct[k].table
  BY <1>2, <1>3 DEF BInv, Searching
<1>6. \A g, k : Usable(g, k)' <=> Usable(g, k)
  BY <1>2 DEF Usable
<1>7. /\ i' = m + 1 /\ i' \in 1 .. (n + 1) /\ Len(ct)' = n
      /\ (i - 1)' = m
      /\ \A k \in 1 .. m : k = m \/ k \in 1 .. (m - 1)
      /\ \A k \in 1 .. (m - 1) : k \in 1 .. m
  BY <1>1, <1>2, <1>3
<1>8. \A k \in 1 .. m : ~Usable("acpi20", k)
  BY <1>4, <1>5, <1>7
<1>9. \/ v1' = Null /\ \A k \in 1 .. m : ~Usable("acpi10", k)
      \/ \E k \in 1 .. m : Usable("acpi10", k) /\ v1' = ct[k].table
  <2>1. CASE Usable("acpi10", m)
    <3>1. v1' = ct[m].table
      BY <1>2, <1>3, <2>1 DEF Usable
    <3> QED BY <2>1, <3>1
  <2>2. CASE ~Usable("acpi10", m)
    <3>1. v1' = v1
      BY <1>2, <1>3, <2>2 DEF Usable
    <3>2. CASE v1 = Null /\ \A k \in 1 .. (m - 1) : ~Usable("acpi10", k)
      BY <1>7, <2>2, <3>1, <3>2
    <3>3. CASE \E k \in 1 .. (m - 1) : Usable("acpi10", k) /\ v1 = ct[k].table
      BY <1>7, <3>1, <3>3
    <3> QED BY <1>5, <3>2, <3>3
  <2> QED BY <2>1, <2>2
<1>10. Searching'
  <2>1. \A k \in 1 .. (i - 1)' : ~Usable("acpi20", k)'
    BY <1>6, <1>7, <1>8
  <2>2. \/ v1' = Null /\ \A k \in 1 .. (i - 1)' : ~Usable("acpi10", k)'
        \/ \E k \in 1 .. (i - 1)' : Usable("acpi10", k)' /\ v1' = ct'[k].table
    BY <1>2, <1>6, <1>7, <1>9
  <2> QED BY <1>2, <1>5, <1>7, <2>1, <2>2 DEF Searching
<1>11. PrefersAcpi20' /\ Returned'
  BY <1>2, <1>5 DEF PrefersAcpi20, Returned
<1> QED BY <1>10, <1>11

LEMMA FindEnds ==
    ASSUME BInv, FindEnd
    PROVE  PrefersAcpi20' /\ Returned' /\ Searching'
<1>1. PICK n \in Nat : /\ Len(ct) = n /\ DOMAIN ct = 1 .. n
                       /\ \A k \in 1 .. n : ct[k] \in ConfigTables
  BY ListFacts DEF BInv
<1>2. /\ pc = "search" /\ pc' = "found" /\ found' = v1 /\ ct' = ct
      /\ i > Len(ct)
  BY DEF FindEnd
<1>3. i = n + 1
  BY <1>1, <1>2 DEF BInv, Searching
<1>4. i - 1 = n
  BY <1>1, <1>3
<1>5. /\ \A k \in DOMAIN ct : ~Usable("acpi20", k)
      /\ \/ v1 = Null /\ \A k \in DOMAIN ct : ~Usable("acpi10", k)
         \/ \E k \in DOMAIN ct : Usable("acpi10", k) /\ v1 = ct[k].table
  BY <1>1, <1>2, <1>4 DEF BInv, Searching
<1> DEFINE Good(g) == {ct[k].table : k \in {j \in DOMAIN ct :
                           ct[j].guid = g /\ Valid(ct[j].table)}}
<1>6. Good("acpi20") = {}
  BY <1>5 DEF Usable
<1>7. \/ v1 = Null /\ Good("acpi10") = {}
      \/ v1 \in Good("acpi10")
  BY <1>5 DEF Usable
<1>8. PrefersAcpi20'
  <2>1. PrefersAcpi20' <=>
          IF Good("acpi20") # {} THEN found' \in Good("acpi20")
          ELSE IF Good("acpi10") # {} THEN found' \in Good("acpi10")
          ELSE found' = Null
    BY <1>2 DEF PrefersAcpi20
  <2> HIDE DEF Good
  <2> QED BY <1>2, <1>6, <1>7, <2>1
<1>9. Returned'
  <2>1. ASSUME NEW k \in DOMAIN ct, Usable("acpi10", k), v1 = ct[k].table
        PROVE  v1 \in Tables /\ Valid(v1)
    <3>1. ct[k] \in ConfigTables /\ Valid(ct[k].table)
      BY <1>1, <2>1 DEF Usable
    <3> QED BY <2>1, <3>1, ValidIsTable
  <2> QED BY <1>2, <1>5, <2>1 DEF Returned
<1> QED BY <1>2, <1>8, <1>9 DEF Searching

--------------------------------------------------------------------------------
(* The screen *)

LEMMA Formats ==
    ASSUME NEW m
    PROVE  /\ FormatOf(m) = "XRGB8888" <=> m.PixelFormat = "BGRX"
           /\ FormatOf(m) = "XBGR8888" <=> m.PixelFormat = "RGBX"
           /\ FormatOf(m) \in {"XRGB8888", "XBGR8888", "NONE"}
BY DEF FormatOf

\* The size of the screen and of its scan lines, once the console is accepted.
LEMMA ModeFacts ==
    ASSUME BInv, Accepted, pc \in {"kernel", "ready"}
    PROVE  \E w, h, line \in Nat :
             /\ w = bi.fb_width /\ w = gop.HorizontalResolution
             /\ h = bi.fb_height /\ h = gop.VerticalResolution
             /\ line = bi.fb_pitch \div 4 /\ line = gop.PixelsPerScanLine
             /\ w <= line /\ w >= MinWidth /\ h >= MinHeight
             /\ gop.PixelFormat \in {"RGBX", "BGRX"}
             /\ bi.fb_format = "XBGR8888" <=> gop.PixelFormat = "RGBX"
<1>1. /\ bi.fb_format = FormatOf(gop)
      /\ FormatOf(gop) # "NONE" =>
           /\ bi.fb_width = gop.HorizontalResolution
           /\ bi.fb_height = gop.VerticalResolution
           /\ bi.fb_pitch = gop.PixelsPerScanLine * 4
  BY DEF BInv, Described
<1>2. bi.fb_format \in {"XRGB8888", "XBGR8888"}
  BY DEF Accepted
<1>3. /\ gop.PixelFormat \in {"RGBX", "BGRX"} /\ FormatOf(gop) # "NONE"
      /\ bi.fb_format = "XBGR8888" <=> gop.PixelFormat = "RGBX"
  BY <1>1, <1>2, Formats
<1>4. gop \in Modes
  BY <1>3 DEF BInv, Shaped, Absent
<1>5. PICK w, h, line \in Nat :
        /\ w = gop.HorizontalResolution /\ h = gop.VerticalResolution
        /\ line = gop.PixelsPerScanLine /\ line >= w
  BY <1>4, BootinfoAssumption
<1>6. bi.fb_pitch = line * 4 /\ (line * 4) \div 4 = line
  BY <1>1, <1>3, <1>5
<1>7. w >= MinWidth /\ h >= MinHeight
  BY <1>1, <1>3, <1>5 DEF Accepted
<1> QED BY <1>1, <1>3, <1>5, <1>6, <1>7

\* Points of different coordinates have different places in memory when the
\* scan lines are no shorter than the screen is wide.
LEMMA RowMajor ==
    ASSUME NEW line \in Nat, NEW x \in Nat, NEW y \in Nat,
           NEW u \in Nat, NEW v \in Nat, x < line, u < line,
           y * line + x = v * line + u
    PROVE  x = u /\ y = v
<1>1. ASSUME NEW a \in Nat, NEW b \in Nat, a < b
      PROVE  a * line + line <= b * line
  <2>1. PICK d \in Nat : b = a + 1 + d
    BY <1>1
  <2>2. b * line = a * line + line + d * line
    BY <2>1
  <2>3. PICK p, q, r \in Nat : p = a * line /\ q = d * line /\ r = b * line
    OBVIOUS
  <2> QED BY <2>2, <2>3
<1>2. PICK p, q \in Nat : p = y * line /\ q = v * line
  OBVIOUS
<1>3. p + x = q + u
  BY <1>2
<1>4. ~(y < v)
  <2>1. ASSUME y < v PROVE FALSE
    <3>1. p + line <= q
      BY <1>1, <1>2, <2>1
    <3> QED BY <1>3, <3>1
  <2> QED BY <2>1
<1>5. ~(v < y)
  <2>1. ASSUME v < y PROVE FALSE
    <3>1. q + line <= p
      BY <1>1, <1>2, <2>1
    <3> QED BY <1>3, <3>1
  <2> QED BY <2>1
<1>6. y = v
  BY <1>4, <1>5
<1> QED BY <1>2, <1>3, <1>6

LEMMA OffsetsDiffer ==
    ASSUME BInv, Accepted, pc \in {"kernel", "ready"},
           NEW p \in Rect(0, 0, bi.fb_width, bi.fb_height),
           NEW q \in Rect(0, 0, bi.fb_width, bi.fb_height),
           Offset(p) = Offset(q)
    PROVE  p = q
<1>1. PICK w, h, line \in Nat :
        /\ w = bi.fb_width /\ h = bi.fb_height
        /\ line = bi.fb_pitch \div 4 /\ w <= line
  BY ModeFacts
<1>2. PICK x \in 0 .. (w - 1), y \in 0 .. (h - 1) : p = <<x, y>>
  <2>1. p \in (0 .. (0 + w - 1)) \X (0 .. (0 + h - 1))
    BY <1>1 DEF Rect
  <2> QED BY <2>1
<1>3. PICK u \in 0 .. (w - 1), v \in 0 .. (h - 1) : q = <<u, v>>
  <2>1. q \in (0 .. (0 + w - 1)) \X (0 .. (0 + h - 1))
    BY <1>1 DEF Rect
  <2> QED BY <2>1
<1>4. x \in Nat /\ y \in Nat /\ u \in Nat /\ v \in Nat /\ x < line /\ u < line
  BY <1>1, <1>2, <1>3
<1>5. Offset(p) = y * line + x /\ Offset(q) = v * line + u
  BY <1>1, <1>2, <1>3 DEF Offset
<1>6. y * line + x = v * line + u
  BY <1>5
<1>7. x = u /\ y = v
  BY <1>4, <1>6, RowMajor
<1> QED BY <1>2, <1>3, <1>7

\* Giving some points of a painted screen one colour leaves it painted.
LEMMA Repainted ==
    ASSUME BInv, Accepted, pc \in {"kernel", "ready"},
           NEW mem, NEW ask, PaintedBy(mem, ask),
           NEW points, points \subseteq Rect(0, 0, bi.fb_width, bi.fb_height),
           NEW c, IsColour(c)
    PROVE  PaintedBy(Put(mem, Offsets(points), to_native(c)),
                     Put(ask, points, c))
<1> DEFINE all == Rect(0, 0, bi.fb_width, bi.fb_height)
           mem2 == Put(mem, Offsets(points), to_native(c))
           ask2 == Put(ask, points, c)
<1>1. /\ DOMAIN ask = all /\ DOMAIN mem = Offsets(all)
      /\ \A p \in all : mem[Offset(p)] = to_native(ask[p]) /\ IsColour(ask[p])
  BY DEF PaintedBy
<1>2. \A p, q \in all : Offset(p) = Offset(q) => p = q
  BY OffsetsDiffer
<1> HIDE DEF all
<1>3. points \subseteq all
  BY DEF all
<1>4. \A p \in all : Offset(p) \in Offsets(points) <=> p \in points
  BY <1>2, <1>3 DEF Offsets
<1>5. \A p \in all : Offset(p) \in Offsets(all)
  BY DEF Offsets
<1>6. Offsets(points) \subseteq Offsets(all)
  BY <1>3 DEF Offsets
<1>7. DOMAIN ask2 = all
  BY <1>1, <1>3 DEF Put
<1>8. DOMAIN mem2 = Offsets(all)
  BY <1>1, <1>6 DEF Put
<1>9. ASSUME NEW p \in all
      PROVE  mem2[Offset(p)] = to_native(ask2[p]) /\ IsColour(ask2[p])
  <2>1. CASE p \in points
    <3>1. ask2[p] = c
      BY <2>1 DEF Put
    <3>2. mem2[Offset(p)] = to_native(c)
      BY <1>4, <2>1 DEF Put
    <3> HIDE DEF mem2, ask2
    <3> QED BY <3>1, <3>2
  <2>2. CASE p \notin points
    <3>1. ask2[p] = ask[p]
      BY <1>1, <2>2 DEF Put
    <3>2. Offset(p) \notin Offsets(points) /\ Offset(p) \in DOMAIN mem
      BY <1>1, <1>4, <1>5, <2>2
    <3>3. mem2[Offset(p)] = mem[Offset(p)]
      BY <3>2 DEF Put
    <3> HIDE DEF mem2, ask2
    <3> QED BY <1>1, <3>1, <3>3
  <2> QED BY <2>1, <2>2
<1> HIDE DEF mem2, ask2
<1>10. PaintedBy(mem2, ask2)
  BY <1>7, <1>8, <1>9 DEF PaintedBy, all
<1> QED BY <1>10 DEF mem2, ask2

\* Filling a screen nothing was drawn on paints it.
LEMMA FirstPainted ==
    ASSUME NEW c, IsColour(c)
    PROVE  LET all == Rect(0, 0, bi.fb_width, bi.fb_height)
           IN  PaintedBy(Put(<< >>, Offsets(all), to_native(c)),
                         Put(<< >>, all, c))
<1> DEFINE all == Rect(0, 0, bi.fb_width, bi.fb_height)
           mem == Put(<< >>, Offsets(all), to_native(c))
           ask == Put(<< >>, all, c)
<1>1. PICK none : none = << >> /\ DOMAIN none = {}
  OBVIOUS
<1> HIDE DEF all
<1>2. mem = Put(none, Offsets(all), to_native(c)) /\ ask = Put(none, all, c)
  BY <1>1
<1>3. DOMAIN ask = all /\ DOMAIN mem = Offsets(all)
  <2> HIDE DEF mem, ask
  <2> QED BY <1>1, <1>2 DEF Put
<1>4. \A p \in all : ask[p] = c
  <2> HIDE DEF mem, ask
  <2> QED BY <1>2 DEF Put
<1>5. \A p \in all : mem[Offset(p)] = to_native(c)
  <2>1. \A p \in all : Offset(p) \in Offsets(all)
    BY DEF Offsets
  <2> HIDE DEF mem, ask
  <2> QED BY <1>2, <2>1 DEF Put
<1> HIDE DEF mem, ask
<1>6. PaintedBy(mem, ask)
  BY <1>3, <1>4, <1>5 DEF PaintedBy, all
<1> QED BY <1>6 DEF mem, ask, all

--------------------------------------------------------------------------------
(* Every action *)

\* A step that leaves the search alone, and stays on one side of its end.
LEMMA SearchUnchanged ==
    ASSUME BInv, UNCHANGED search,
           pc' \in {"clear", "search"} <=> pc \in {"clear", "search"}
    PROVE  Searching' /\ Returned' /\ PrefersAcpi20'
<1>1. ct' = ct /\ i' = i /\ v1' = v1 /\ found' = found
  BY DEF search
<1>2. Searching'
  BY <1>1 DEF BInv, Searching, Usable
<1>3. Returned'
  BY <1>1 DEF BInv, Returned
<1>4. PrefersAcpi20'
  BY <1>1 DEF BInv, PrefersAcpi20
<1> QED BY <1>2, <1>3, <1>4

LEMMA ListUnchanged ==
    ASSUME BInv, ct' = ct, gop' = gop, bi' = [f \in Fields |-> bi'[f]]
    PROVE  Shaped'
BY DEF BInv, Shaped

LEMMA BInvInit == Init => BInv
<1> SUFFICES ASSUME Init PROVE BInv
  OBVIOUS
<1>1. /\ ct \in UNION {[1 .. n -> ConfigTables] : n \in 0 .. MaxTables}
      /\ i = 1 /\ v1 = Null /\ found = Null /\ pc = "clear"
      /\ gop \in Modes \union {Absent}
      /\ bi = [f \in Fields |-> "stale"]
      /\ fg = <<232, 227, 213>> /\ bg = <<11, 14, 20>>
      /\ vram = << >> /\ asked = << >>
  BY DEF Init, SearchInit, Fields
<1>2. Shaped
  BY <1>1 DEF Shaped
<1>3. Searching
  <2>1. PICK n \in Nat : Len(ct) = n
    BY <1>2, ListFacts
  <2> QED BY <1>1, <2>1 DEF Searching
<1>4. Returned /\ PrefersAcpi20 /\ Described
  BY <1>1 DEF Returned, PrefersAcpi20, Described
<1>5. Drawn
  <2>1. IsColour(fg) /\ IsColour(bg)
    BY <1>1 DEF IsColour
  <2> QED BY <1>1, <2>1 DEF Drawn
<1> QED BY <1>2, <1>3, <1>4, <1>5 DEF BInv

LEMMA ClearStep ==
    ASSUME BInv, ClearBootinfo PROVE BInv'
<1>1. /\ pc = "clear" /\ pc' = "search" /\ bi' = [f \in DOMAIN bi |-> 0]
      /\ UNCHANGED search /\ gop' = gop
      /\ fg' = fg /\ bg' = bg /\ vram' = vram /\ asked' = asked
  BY DEF ClearBootinfo, screen
<1>2. Searching' /\ Returned' /\ PrefersAcpi20'
  BY <1>1, SearchUnchanged
<1>3. DOMAIN bi = Fields
  BY DEF BInv, Shaped
<1>4. bi' = [f \in Fields |-> bi'[f]]
  BY <1>1, <1>3
<1>5. Shaped'
  BY <1>1, <1>4, ListUnchanged DEF search
<1>6. Described'
  BY <1>1 DEF Described
<1>7. Drawn'
  BY <1>1 DEF BInv, Drawn, IsColour
<1> QED BY <1>2, <1>5, <1>6, <1>7 DEF BInv

LEMMA SearchStep ==
    ASSUME BInv, Search PROVE BInv'
<1>1. /\ FindStep \/ FindEnd
      /\ gop' = gop /\ bi' = bi
      /\ fg' = fg /\ bg' = bg /\ vram' = vram /\ asked' = asked
  BY DEF Search, screen
<1>2. pc = "search" /\ pc' \in {"search", "found"} /\ ct' = ct
  BY <1>1 DEF FindStep, FindEnd
<1>3. Searching' /\ Returned' /\ PrefersAcpi20'
  BY <1>1, FoundMeets, FindGoesOn, FindEnds
<1>4. bi' = [f \in Fields |-> bi'[f]]
  BY <1>1 DEF BInv, Shaped
<1>5. Shaped'
  BY <1>1, <1>2, <1>4, ListUnchanged
<1>6. Described'
  BY <1>2 DEF Described
<1>7. Drawn'
  BY <1>1, <1>2 DEF BInv, Drawn, IsColour
<1> QED BY <1>3, <1>5, <1>6, <1>7 DEF BInv

LEMMA FillStep ==
    ASSUME BInv, FillBootinfo PROVE BInv'
<1> DEFINE b == [bi EXCEPT !.acpi_rsdp = found]
<1>1. /\ pc = "found" /\ pc' = "kernel" /\ bi' = Filled(b)
      /\ UNCHANGED search /\ gop' = gop
      /\ fg' = fg /\ bg' = bg /\ vram' = vram /\ asked' = asked
  BY DEF FillBootinfo, screen
<1>2. Searching' /\ Returned' /\ PrefersAcpi20'
  BY <1>1, SearchUnchanged
<1>3. b = [f \in Fields |-> b[f]]
  BY DEF BInv, Shaped
<1> HIDE DEF b
<1>4. FormatOf(gop)' = FormatOf(gop)
  BY <1>1 DEF FormatOf
<1>5. CASE FormatOf(gop) = "NONE"
  <2>1. bi' = [b EXCEPT !.fb_format = "NONE"]
    BY <1>1, <1>5 DEF Filled
  <2>2. bi' = [f \in Fields |-> bi'[f]]
    BY <1>3, <2>1
  <2>3. bi'.fb_format = "NONE"
    BY <1>3, <2>1 DEF Fields
  <2>4. Shaped'
    BY <1>1, <2>2, ListUnchanged DEF search
  <2>5. Described'
    BY <1>1, <1>4, <1>5, <2>3 DEF Described
  <2>6. Drawn'
    BY <1>1 DEF BInv, Drawn, IsColour
  <2> QED BY <1>2, <2>4, <2>5, <2>6 DEF BInv
<1>6. CASE FormatOf(gop) # "NONE"
  <2>1. bi' = [b EXCEPT !.fb_format = FormatOf(gop),
                        !.fb_base = gop.FrameBufferBase,
                        !.fb_width = gop.HorizontalResolution,
                        !.fb_height = gop.VerticalResolution,
                        !.fb_pitch = gop.PixelsPerScanLine * 4]
    BY <1>1, <1>6 DEF Filled
  <2>2. bi' = [f \in Fields |-> bi'[f]]
    BY <1>3, <2>1
  <2>3. /\ bi'.fb_format = FormatOf(gop)
        /\ bi'.fb_width = gop.HorizontalResolution
        /\ bi'.fb_height = gop.VerticalResolution
        /\ bi'.fb_pitch = gop.PixelsPerScanLine * 4
    BY <1>3, <2>1 DEF Fields
  <2>4. Shaped'
    BY <1>1, <2>2, ListUnchanged DEF search
  <2>5. Described'
    BY <1>1, <1>4, <2>3 DEF Described
  <2>6. Drawn'
    BY <1>1 DEF BInv, Drawn, IsColour
  <2> QED BY <1>2, <2>4, <2>5, <2>6 DEF BInv
<1> QED BY <1>5, <1>6

\* The bootinfo is what it was once the kernel runs.
LEMMA KernelKeeps ==
    ASSUME BInv, UNCHANGED <<search, gop, bi>>,
           pc \in {"kernel", "ready", "serial_only"},
           pc' \in {"kernel", "ready", "serial_only"}
    PROVE  /\ Shaped' /\ Searching' /\ Returned' /\ PrefersAcpi20' /\ Described'
           /\ Accepted' <=> Accepted
<1>1. UNCHANGED search /\ gop' = gop /\ bi' = bi
  OBVIOUS
<1>2. Searching' /\ Returned' /\ PrefersAcpi20'
  BY <1>1, SearchUnchanged
<1>3. Shaped'
  BY <1>1 DEF search, BInv, Shaped
<1>4. Described'
  BY <1>1 DEF BInv, Described, FormatOf
<1>5. Accepted' <=> Accepted
  BY <1>1 DEF Accepted
<1> QED BY <1>2, <1>3, <1>4, <1>5

\* Painted in the next state, when the bootinfo is the same.
LEMMA PaintedNext ==
    ASSUME bi' = bi, PaintedBy(vram', asked')
    PROVE  Painted'
BY DEF Painted, PaintedBy, Rect, Offsets, Offset, to_native

LEMMA InitStep ==
    ASSUME BInv, FbconInit PROVE BInv'
<1>1. /\ pc = "kernel" /\ pc' \in {"ready", "serial_only"}
      /\ UNCHANGED <<search, gop, bi>> /\ fg' = fg /\ bg' = bg
  BY DEF FbconInit
<1>2. /\ Shaped' /\ Searching' /\ Returned' /\ PrefersAcpi20' /\ Described'
      /\ Accepted' <=> Accepted
  BY <1>1, KernelKeeps
<1>3. IsColour(fg) /\ IsColour(bg) /\ vram = << >> /\ asked = << >>
  BY <1>1 DEF BInv, Drawn
<1>4. IsColour(fg)' /\ IsColour(bg)'
  BY <1>1, <1>3 DEF IsColour
<1>5. CASE Accepted
  <2> DEFINE all == Rect(0, 0, bi.fb_width, bi.fb_height)
  <2>1. /\ vram' = Put(vram, Offsets(all), to_native(bg))
        /\ asked' = Put(asked, all, bg) /\ pc' = "ready"
    BY <1>5 DEF FbconInit, Stored, Meant
  <2>2. PaintedBy(vram', asked')
    BY <1>3, <2>1, FirstPainted
  <2>3. Painted'
    BY <1>1, <2>2, PaintedNext
  <2>4. Drawn'
    BY <1>2, <1>4, <1>5, <2>1, <2>3 DEF Drawn
  <2> QED BY <1>2, <2>4 DEF BInv
<1>6. CASE ~Accepted
  <2>1. pc' = "serial_only" /\ vram' = vram /\ asked' = asked
    BY <1>6 DEF FbconInit
  <2>2. Drawn'
    BY <1>3, <1>4, <2>1 DEF Drawn
  <2> QED BY <1>2, <2>2 DEF BInv
<1> QED BY <1>5, <1>6

LEMMA ColorStep ==
    ASSUME BInv, SetColors PROVE BInv'
<1>1. /\ pc = "ready" /\ pc' = pc
      /\ UNCHANGED <<search, gop, bi>> /\ vram' = vram /\ asked' = asked
      /\ fg' = <<255, 180, 171>> /\ bg' = <<51, 10, 10>>
  BY DEF SetColors
<1>2. /\ Shaped' /\ Searching' /\ Returned' /\ PrefersAcpi20' /\ Described'
      /\ Accepted' <=> Accepted
  BY <1>1, KernelKeeps
<1>3. Accepted /\ PaintedBy(vram, asked)
  BY <1>1 DEF BInv, Drawn, Painted
<1>4. Painted'
  BY <1>1, <1>3, PaintedNext
<1>5. IsColour(fg)' /\ IsColour(bg)'
  BY <1>1 DEF IsColour
<1>6. Drawn'
  BY <1>1, <1>2, <1>3, <1>4, <1>5 DEF Drawn
<1> QED BY <1>2, <1>6 DEF BInv

\* The first cell is on the screen.
LEMMA CellOnScreen ==
    ASSUME BInv, Accepted, pc = "ready"
    PROVE  Rect(MARGIN, MARGIN, CELL, CELL)
             \subseteq Rect(0, 0, bi.fb_width, bi.fb_height)
<1>1. PICK w, h \in Nat : /\ w = bi.fb_width /\ h = bi.fb_height
                          /\ w >= MinWidth /\ h >= MinHeight
  BY ModeFacts
<1>2. PICK m, c \in Nat : /\ m = MARGIN /\ c = CELL
                          /\ w >= 2 * m + c /\ h >= 2 * m + c
  BY <1>1, BootinfoAssumption
<1>3. /\ m .. (m + c - 1) \subseteq 0 .. (0 + w - 1)
      /\ m .. (m + c - 1) \subseteq 0 .. (0 + h - 1)
  BY <1>1, <1>2
<1> QED BY <1>1, <1>2, <1>3 DEF Rect

LEMMA GlyphStep ==
    ASSUME BInv, Glyph PROVE BInv'
<1> DEFINE cell == Rect(MARGIN, MARGIN, CELL, CELL)
           all == Rect(0, 0, bi.fb_width, bi.fb_height)
<1>1. PICK lit \in SUBSET cell : DrawGlyph(lit)
  BY DEF Glyph
<1>2. /\ pc = "ready" /\ pc' = pc
      /\ UNCHANGED <<search, gop, bi>> /\ fg' = fg /\ bg' = bg
      /\ vram' = Put(Put(vram, Offsets(cell \ lit), to_native(bg)),
                     Offsets(lit), to_native(fg))
      /\ asked' = Put(Put(asked, cell \ lit, bg), lit, fg)
  BY <1>1 DEF DrawGlyph, Stored, Meant
<1>3. /\ Shaped' /\ Searching' /\ Returned' /\ PrefersAcpi20' /\ Described'
      /\ Accepted' <=> Accepted
  BY <1>2, KernelKeeps
<1>4. /\ IsColour(fg) /\ IsColour(bg)
      /\ Accepted /\ PaintedBy(vram, asked)
  BY <1>2 DEF BInv, Drawn, Painted
<1>5. IsColour(fg)' /\ IsColour(bg)'
  BY <1>2, <1>4 DEF IsColour
<1>6. (cell \ lit) \subseteq all /\ lit \subseteq all
  BY <1>2, <1>4, CellOnScreen
<1>7. PICK mem, ask :
        /\ mem = Put(vram, Offsets(cell \ lit), to_native(bg))
        /\ ask = Put(asked, cell \ lit, bg)
  OBVIOUS
<1> HIDE DEF cell
<1>8. PaintedBy(mem, ask)
  BY <1>2, <1>4, <1>6, <1>7, Repainted
<1>9. PaintedBy(Put(mem, Offsets(lit), to_native(fg)), Put(ask, lit, fg))
  BY <1>2, <1>4, <1>6, <1>8, Repainted
<1>10. PaintedBy(vram', asked')
  BY <1>2, <1>7, <1>9
<1>11. Painted'
  BY <1>2, <1>10, PaintedNext
<1>12. Drawn'
  BY <1>2, <1>3, <1>4, <1>5, <1>11 DEF Drawn
<1> QED BY <1>3, <1>12 DEF BInv

LEMMA StutterStep ==
    ASSUME BInv, UNCHANGED vars PROVE BInv'
<1>1. /\ UNCHANGED search /\ pc' = pc /\ gop' = gop /\ bi' = bi
      /\ fg' = fg /\ bg' = bg /\ vram' = vram /\ asked' = asked
  BY DEF vars, screen
<1>2. Searching' /\ Returned' /\ PrefersAcpi20'
  BY <1>1, SearchUnchanged
<1>3. Shaped'
  BY <1>1 DEF search, BInv, Shaped
<1>4. Described'
  BY <1>1 DEF BInv, Described, FormatOf
<1>5. IsColour(fg)' /\ IsColour(bg)'
  BY <1>1 DEF BInv, Drawn, IsColour
<1>6. pc = "ready" => Painted' /\ Accepted'
  <2> SUFFICES ASSUME pc = "ready" PROVE Painted' /\ Accepted'
    OBVIOUS
  <2>1. PaintedBy(vram, asked) /\ Accepted
    BY DEF BInv, Drawn, Painted
  <2>2. Painted'
    BY <1>1, <2>1, PaintedNext
  <2> QED BY <1>1, <2>1, <2>2 DEF Accepted
<1>7. Drawn'
  BY <1>1, <1>5, <1>6 DEF BInv, Drawn
<1> QED BY <1>2, <1>3, <1>4, <1>7 DEF BInv

LEMMA BInvNext == BInv /\ [Next]_vars => BInv'
<1> SUFFICES ASSUME BInv, [Next]_vars PROVE BInv'
  OBVIOUS
<1>1. CASE SerialOnly
  BY <1>1, StutterStep DEF SerialOnly
<1> QED BY <1>1, ClearStep, SearchStep, FillStep, InitStep, ColorStep,
           GlyphStep, StutterStep DEF Next

--------------------------------------------------------------------------------
(* The theorems *)

\* What the loop has met, what the bootinfo says and what is drawn agree at
\* every moment.
THEOREM BootinfoInvariant == Spec => []BInv
BY BInvInit, BInvNext, PTL DEF Spec

\* A root pointer handed to the kernel would not have been accepted with any
\* one byte of its claimed length different, the length itself apart: the sum
\* of sypas_acpi_validate_rsdp differs from that byte on.
THEOREM CorruptionIsDetected == Spec => []CorruptionDetected
<1>1. BInv => CorruptionDetected
  BY OneByte DEF BInv, Returned, CorruptionDetected
<1> QED BY <1>1, BootinfoInvariant, PTL

\* find_acpi_rsdp prefers a valid ACPI 2.0 table to every ACPI 1.0 table, and
\* reports nothing only when no table is valid.
THEOREM Acpi20IsPreferred == Spec => []PrefersAcpi20
<1>1. BInv => PrefersAcpi20
  BY DEF BInv
<1> QED BY <1>1, BootinfoInvariant, PTL

\* What the mode shows at a painted point is the colour asked of it.
LEMMA PaintedShows ==
    ASSUME BInv, Accepted, pc = "ready", PaintedBy(vram, asked)
    PROVE  ScreenShowsColours
<1>1. PICK w, h, line \in Nat :
        /\ w = bi.fb_width /\ w = gop.HorizontalResolution
        /\ h = bi.fb_height /\ h = gop.VerticalResolution
        /\ line = bi.fb_pitch \div 4 /\ line = gop.PixelsPerScanLine
        /\ gop.PixelFormat \in {"RGBX", "BGRX"}
        /\ bi.fb_format = "XBGR8888" <=> gop.PixelFormat = "RGBX"
  BY ModeFacts
<1> DEFINE all == Rect(0, 0, gop.HorizontalResolution, gop.VerticalResolution)
<1>2. all = Rect(0, 0, bi.fb_width, bi.fb_height)
  BY <1>1
<1>3. /\ DOMAIN asked = all /\ DOMAIN vram = Offsets(all)
      /\ \A p \in all : /\ vram[Offset(p)] = to_native(asked[p])
                        /\ IsColour(asked[p])
  BY <1>2 DEF PaintedBy
<1> HIDE DEF all
<1>4. \A p : Offset(p) = p[2] * gop.PixelsPerScanLine + p[1]
  BY <1>1 DEF Offset
<1>5. DOMAIN vram = {p[2] * gop.PixelsPerScanLine + p[1] : p \in all}
  BY <1>3, <1>4 DEF Offsets
<1>6. ASSUME NEW p \in all PROVE Shows(gop, p) = asked[p]
  <2>1. PICK r, g, b : asked[p] = <<r, g, b>>
    BY <1>3 DEF IsColour
  <2>2. PICK px : px = vram[p[2] * gop.PixelsPerScanLine + p[1]]
    OBVIOUS
  <2>3. px = to_native(<<r, g, b>>)
    BY <1>3, <1>4, <2>1, <2>2
  <2>4. Shows(gop, p) = IF gop.PixelFormat = "RGBX" THEN <<px[1], px[2], px[3]>>
                        ELSE <<px[3], px[2], px[1]>>
    BY <2>2 DEF Shows
  <2>5. CASE gop.PixelFormat = "RGBX"
    <3>1. px = <<r, g, b, 0>>
      BY <1>1, <2>3, <2>5 DEF to_native
    <3> QED BY <2>1, <2>4, <2>5, <3>1
  <2>6. CASE gop.PixelFormat # "RGBX"
    <3>1. px = <<b, g, r, 0>>
      BY <1>1, <2>3, <2>6 DEF to_native
    <3> QED BY <2>1, <2>4, <2>6, <3>1
  <2> QED BY <2>5, <2>6
<1> QED BY <1>1, <1>3, <1>5, <1>6 DEF ScreenShowsColours, all

\* Whatever the mode's byte order and the length of its scan lines, the screen
\* shows every colour fbcon.c was asked for where it was asked, and nothing is
\* stored outside the screen.
THEOREM ColoursAreShown == Spec => []ScreenShowsColours
<1>1. BInv => ScreenShowsColours
  <2> SUFFICES ASSUME BInv PROVE ScreenShowsColours
    OBVIOUS
  <2>1. CASE pc = "ready"
    <3>1. Accepted /\ PaintedBy(vram, asked)
      BY <2>1 DEF BInv, Drawn, Painted
    <3> QED BY <2>1, <3>1, PaintedShows
  <2>2. CASE pc # "ready"
    BY <2>2 DEF BInv, Drawn, ScreenShowsColours
  <2> QED BY <2>1, <2>2
<1> QED BY <1>1, BootinfoInvariant, PTL

================================================================================
