---------------------------------- MODULE Acpi ----------------------------------
(***************************************************************************)
(* bootloader/uefi/acpi.c, and find_acpi_rsdp of bootloader/uefi/main.c:   *)
(* the loader looks for a root pointer in the firmware's configuration     *)
(* tables, one table per step.                                             *)
(*                                                                         *)
(* A table is a sequence of bytes modulo ByteSize.  The first holds the    *)
(* signature, the second the checksum, the third the revision, the fourth  *)
(* the length and the fifth the extended checksum.                         *)
(***************************************************************************)
EXTENDS Integers, SequencesExt

CONSTANTS
    ByteSize,                                 \* 256 in the source
    V1_LENGTH, V2_MIN_LENGTH, MAX_LENGTH,     \* 20, 36 and 4096
    ConfigTables,                             \* entries of ConfigurationTable
    MaxTables                                 \* bound on NumberOfTableEntries

Null == << >>
Byte == 0 .. (ByteSize - 1)
Signature == 1

ASSUME AcpiAssumption ==
    /\ {ByteSize, V1_LENGTH, V2_MIN_LENGTH, MAX_LENGTH} \subseteq Nat
    /\ 3 <= V1_LENGTH /\ V1_LENGTH <= V2_MIN_LENGTH /\ 5 <= V2_MIN_LENGTH
    /\ V2_MIN_LENGTH <= MAX_LENGTH /\ MAX_LENGTH < ByteSize
    /\ MaxTables \in Nat
    /\ \A e \in ConfigTables :
         /\ e.guid \in {"acpi20", "acpi10", "other"}
         /\ e.table = Null \/ e.table \in [1 .. MAX_LENGTH -> Byte]

VARIABLES
    ct,        \* the configuration tables: GUID and table
    i, v1,     \* next entry, and the ACPI 1.0 table found so far
    pc,        \* "search" while the loop runs, "found" when it has returned
    found      \* the table whose address it returns

search == <<ct, i, v1, found>>

--------------------------------------------------------------------------------
(* sypas_acpi_validate_rsdp *)

\* The uint8_t sum of the loop, after each of the first n bytes.
Sums(t, n) ==
    LET sum[k \in 0 .. n] == IF k = 0 THEN 0 ELSE (sum[k - 1] + t[k]) % ByteSize
    IN  sum

checksum_ok(t, n) == Sums(t, n)[n] = 0

\* Mutant: the extended checksum stops at the fixed part.
ExtendedFixed(t) == checksum_ok(t, V2_MIN_LENGTH)

Extended(t) == checksum_ok(t, t[4])

Valid(t) ==
    /\ t # Null
    /\ t[1] = Signature
    /\ checksum_ok(t, V1_LENGTH)
    /\ \/ t[3] = 0
       \/ /\ t[3] >= 2
          /\ V2_MIN_LENGTH <= t[4] /\ t[4] <= MAX_LENGTH
          /\ Extended(t)

--------------------------------------------------------------------------------
(* find_acpi_rsdp *)

\* Mutant: the first table of either version is returned.
FoundFirst(e) == e.guid \in {"acpi20", "acpi10"} /\ Valid(e.table)

Found(e) == e.guid = "acpi20" /\ Valid(e.table)

FindStep ==
    /\ pc = "search" /\ i <= Len(ct)
    /\ IF Found(ct[i])
       THEN pc' = "found" /\ found' = ct[i].table /\ UNCHANGED <<i, v1>>
       ELSE /\ v1' = IF ct[i].guid = "acpi10" /\ Valid(ct[i].table)
                     THEN ct[i].table ELSE v1
            /\ i' = i + 1
            /\ UNCHANGED <<pc, found>>
    /\ UNCHANGED ct

FindEnd ==
    /\ pc = "search" /\ i > Len(ct)
    /\ pc' = "found" /\ found' = v1
    /\ UNCHANGED <<ct, i, v1>>

SearchInit ==
    /\ ct \in UNION {[1 .. n -> ConfigTables] : n \in 0 .. MaxTables}
    /\ i = 1 /\ v1 = Null /\ found = Null

--------------------------------------------------------------------------------
(* Properties *)

\* "RSDP v1 is 20 bytes; ACPI 2.0+ is validated through its advertised
\* (bounded) length" (acpi.h:17): had any one of the bytes the table claims
\* to have been different, other than the length itself, the table handed
\* to the kernel would not have been accepted.
CorruptionDetected ==
    found # Null =>
        \A k \in (1 .. IF found[3] = 0 THEN V1_LENGTH ELSE found[4]) \ {4} :
            \A b \in Byte \ {found[k]} : ~Valid([found EXCEPT ![k] = b])

\* A valid ACPI 2.0 table is preferred to every ACPI 1.0 table, wherever they
\* are in the list, and nothing is reported only when none is valid.
PrefersAcpi20 ==
    LET Good(g) == {ct[k].table : k \in {n \in DOMAIN ct :
                       ct[n].guid = g /\ Valid(ct[n].table)}}
    IN  pc \notin {"clear", "search"} =>
          IF Good("acpi20") # {} THEN found \in Good("acpi20")
          ELSE IF Good("acpi10") # {} THEN found \in Good("acpi10")
          ELSE found = Null

================================================================================
