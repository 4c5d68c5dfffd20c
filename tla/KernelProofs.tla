------------------------------ MODULE KernelProofs ------------------------------
(***************************************************************************)
(* Proofs about interrupt dispatch and the kernel's bring-up, for every    *)
(* set of devices, every set of machines and every bound of the counters.  *)
(***************************************************************************)
EXTENDS BootTest, TLAPS

(***************************************************************************)
(* Interrupt dispatch                                                      *)
(***************************************************************************)

\* The highest-priority request of a chip is one of its requests.
LEMMA MinOfBits ==
    ASSUME NEW S \in SUBSET (0 .. 7), S # {}
    PROVE  Min(S) \in S
<1>1. \E x \in S : \A y \in S : x <= y
  <2> DEFINE From(n) == \A y \in S : n <= y
  <2>1. CASE 0 \in S
    BY <2>1
  <2>2. CASE From(1) /\ 1 \in S
    BY <2>2
  <2>3. CASE From(2) /\ 2 \in S
    BY <2>3
  <2>4. CASE From(3) /\ 3 \in S
    BY <2>4
  <2>5. CASE From(4) /\ 4 \in S
    BY <2>5
  <2>6. CASE From(5) /\ 5 \in S
    BY <2>6
  <2>7. CASE From(6) /\ 6 \in S
    BY <2>7
  <2>8. CASE From(7) /\ 7 \in S
    BY <2>8
  <2>9. CASE From(8)
    <3>1. PICK x \in S : TRUE
      OBVIOUS
    <3> QED BY <2>9, <3>1
  <2> QED
    BY <2>1, <2>2, <2>3, <2>4, <2>5, <2>6, <2>7, <2>8, <2>9
<1> QED
  BY <1>1 DEF Min

\* An EOI ends the only interrupt in service.
LEMMA EndedSingle ==
    ASSUME NEW b \in Int
    PROVE  Ended({b}) = {}
<1>1. Min({b}) = b
  BY DEF Min
<1> QED
  BY <1>1 DEF Ended

Quiescent == isr["master"] = {} /\ isr["slave"] = {}

\* What is in service when a gate has been taken.
Dispatching ==
    \/ /\ IsIrq(vector) /\ real /\ vector < 40 /\ vector # 34
       /\ isr["master"] = {vector - 32} /\ isr["slave"] = {}
    \/ /\ IsIrq(vector) /\ real /\ vector >= 40
       /\ isr["master"] = {Cascade} /\ isr["slave"] = {vector - 40}
    \/ vector = 39 /\ ~real /\ Quiescent
    \/ vector = 47 /\ ~real /\ isr["master"] = {Cascade} /\ isr["slave"] = {}
    \/ vector = SYPAS_TEST_VECTOR /\ ~real /\ Quiescent
    \/ ~IsIrq(vector) /\ vector # SYPAS_TEST_VECTOR /\ ~real

ChipTypes ==
    /\ irr \in [Chip -> SUBSET (0 .. 7)]
    /\ isr \in [Chip -> SUBSET (0 .. 7)]
    /\ vector \in Nat /\ real \in BOOLEAN
    /\ handlers \subseteq 0 .. 15

\* The in-service registers follow the processor.
ServiceInv ==
    /\ ChipTypes
    /\ cpu \in {"run", "hlt"} => Quiescent
    /\ cpu = "isr" => Dispatching

\* It depends on these variables only.
LEMMA ServiceFrame ==
    ASSUME ServiceInv, UNCHANGED <<isr, cpu, vector, real, handlers>>,
           irr' \in [Chip -> SUBSET (0 .. 7)]
    PROVE  ServiceInv'
<1>1. ChipTypes'
  BY DEF ServiceInv, ChipTypes
<1>2. Dispatching' = Dispatching /\ Quiescent' = Quiescent
  BY DEF Dispatching, Quiescent, IsIrq
<1> QED
  BY <1>1, <1>2 DEF ServiceInv

LEMMA RaiseService ==
    ASSUME NEW irq \in 0 .. 15, ServiceInv, Raise(irq) \/ Drop(irq)
    PROVE  ServiceInv'
<1>1. Bit(irq) \in 0 .. 7 /\ ChipOf(irq) \in Chip
  BY DEF Bit, ChipOf, Chip
<1>2. irr' \in [Chip -> SUBSET (0 .. 7)]
  BY <1>1 DEF ServiceInv, ChipTypes, Raise, Drop
<1> QED
  BY <1>2, ServiceFrame DEF Raise, Drop, gate, trace

LEMMA RequestService ==
    ASSUME ServiceInv, SlaveRequest \/ MasterRequest
    PROVE  ServiceInv'
<1>1. irr' \in [Chip -> SUBSET (0 .. 7)]
  BY DEF ServiceInv, ChipTypes, SlaveRequest, MasterRequest, Cascade, Chip
<1> QED
  BY <1>1, ServiceFrame DEF SlaveRequest, MasterRequest, gate, trace

\* Acknowledging puts in service what the vector says.
LEMMA TakeIrqService ==
    ASSUME ServiceInv, TakeIrq
    PROVE  ServiceInv'
<1> DEFINE top(c) == Min(Deliverable(c))
<1>1. Quiescent /\ ChipTypes
  BY DEF TakeIrq, ServiceInv
<1>2. ASSUME NEW c \in Chip
      PROVE  Deliverable(c) \subseteq irr[c] /\ Deliverable(c) \subseteq 0 .. 7
  BY <1>1 DEF Deliverable, Pending, ChipTypes
<1>3. \A c \in Chip : Deliverable(c) # {} => Min(Deliverable(c)) \in 0 .. 7
  BY <1>2, MinOfBits
<1>4. cpu' = "isr" /\ handlers' = handlers
  BY DEF TakeIrq, EnterGate
<1>5. SUFFICES /\ Dispatching'
               /\ irr' \in [Chip -> SUBSET (0 .. 7)]
               /\ isr' \in [Chip -> SUBSET (0 .. 7)]
               /\ vector' \in Nat /\ real' \in BOOLEAN
  BY <1>1, <1>4 DEF ServiceInv, ChipTypes
<1>6. Acknowledged
  BY DEF TakeIrq
<1> USE DEF Dispatching, IsIrq, isr_stub, Cascade, Chip, Quiescent, ChipTypes
<1>7. CASE Deliverable("master") = {}
  <2>1. vector' = 39 /\ real' = FALSE /\ irr' = irr /\ isr' = isr
    BY <1>6, <1>7 DEF Acknowledged
  <2> QED BY <1>1, <2>1
<1>8. CASE Deliverable("master") # {} /\ top("master") # Cascade
  <2>1. /\ vector' = 32 + top("master") /\ real' = TRUE
        /\ irr' = [irr EXCEPT !["master"] = @ \ {top("master")}]
        /\ isr' = [isr EXCEPT !["master"] = @ \union {top("master")}]
    BY <1>6, <1>8 DEF Acknowledged
  <2>2. top("master") \in 0 .. 7
    BY <1>3, <1>8
  <2> HIDE DEF top
  <2> QED BY <1>1, <1>8, <2>1, <2>2
<1>9. CASE /\ Deliverable("master") # {} /\ top("master") = Cascade
           /\ Deliverable("slave") = {}
  <2>1. /\ vector' = 47 /\ real' = FALSE
        /\ irr' = [irr EXCEPT !["master"] = @ \ {Cascade}]
        /\ isr' = [isr EXCEPT !["master"] = @ \union {Cascade}]
    BY <1>6, <1>9 DEF Acknowledged
  <2>2. /\ isr'["master"] = {Cascade} /\ isr'["slave"] = {}
        /\ irr' \in [Chip -> SUBSET (0 .. 7)] /\ isr' \in [Chip -> SUBSET (0 .. 7)]
    BY <1>1, <2>1
  <2> QED BY <2>1, <2>2
<1>10. CASE /\ Deliverable("master") # {} /\ top("master") = Cascade
            /\ Deliverable("slave") # {}
  <2>1. /\ vector' = 40 + top("slave") /\ real' = TRUE
        /\ irr' = [master |-> irr["master"] \ {Cascade},
                   slave |-> irr["slave"] \ {top("slave")}]
        /\ isr' = [master |-> isr["master"] \union {Cascade},
                   slave |-> isr["slave"] \union {top("slave")}]
    BY <1>6, <1>10 DEF Acknowledged
  <2>2. top("slave") \in 0 .. 7
    BY <1>3, <1>10
  <2> HIDE DEF top
  <2>3. /\ isr'["master"] = {Cascade} /\ isr'["slave"] = {top("slave")}
        /\ irr' \in [Chip -> SUBSET (0 .. 7)] /\ isr' \in [Chip -> SUBSET (0 .. 7)]
    BY <1>1, <2>1, <2>2
  <2> QED BY <2>1, <2>2, <2>3
<1> QED
  BY <1>7, <1>8, <1>9, <1>10

\* An NMI and a software interrupt touch no chip.
LEMMA EnterService ==
    ASSUME ServiceInv,
           TakeNmi \/ SoftwareInt(SYPAS_TEST_VECTOR) \/ SoftwareInt(6)
    PROVE  ServiceInv'
<1>1. /\ cpu' = "isr" /\ real' = FALSE /\ irr' = irr /\ isr' = isr
      /\ handlers' = handlers
      /\ \/ vector' = 2
         \/ vector' = 6
         \/ vector' = SYPAS_TEST_VECTOR /\ cpu = "run"
  <2>1. CASE TakeNmi
    <3>1. /\ cpu' = "isr" /\ real' = FALSE /\ vector' = 2
          /\ irr' = irr /\ isr' = isr /\ handlers' = handlers
      BY <2>1 DEF TakeNmi, isr_stub, EnterGate, chips
    <3> QED BY <3>1
  <2>2. ASSUME NEW v, SoftwareInt(v)
        PROVE  /\ cpu = "run" /\ cpu' = "isr" /\ real' = FALSE /\ vector' = v
               /\ irr' = irr /\ isr' = isr /\ handlers' = handlers
    BY <2>2 DEF SoftwareInt, isr_stub, EnterGate, chips
  <2> QED
    BY <2>1, <2>2
<1>2. ChipTypes'
  <2>1. vector' \in Nat
    BY <1>1 DEF SYPAS_TEST_VECTOR
  <2> QED
    BY <1>1, <2>1 DEF ServiceInv, ChipTypes
<1>3. Dispatching'
  BY <1>1 DEF ServiceInv, Dispatching, IsIrq, SYPAS_TEST_VECTOR, Quiescent
<1> QED
  BY <1>1, <1>2, <1>3 DEF ServiceInv

\* A dispatch ends what it was called for, on the chips that have it, and runs
\* a handler for nothing else.
LEMMA DispatchService ==
    ASSUME ServiceInv, isr_dispatch
    PROVE  /\ ServiceInv'
           /\ cpu' = "run" =>
                /\ \A c \in eois' : isr[c] # {}
                /\ ran' # -1 <=> real /\ IsIrq(vector) /\ vector - 32 \in handlers
<1> DEFINE irq == vector - 32
           Done == /\ ServiceInv'
                   /\ cpu' = "run" =>
                        /\ \A c \in eois' : isr[c] # {}
                        /\ ran' # -1 <=> real /\ IsIrq(vector) /\ irq \in handlers
<1>1. cpu = "isr" /\ Dispatching /\ ChipTypes
  BY DEF isr_dispatch, ServiceInv
<1> USE DEF Dispatching, IsIrq, Cascade, Chip, Quiescent, ChipTypes, ServiceInv,
            SYPAS_TEST_VECTOR
<1>2. CASE IsIrq(vector) /\ DispatchSpurious(irq)
  <2>1. /\ cpu' = "run" /\ ran' = -1 /\ vector' = vector /\ real' = real
        /\ irr' = irr /\ handlers' = handlers
        /\ Eoi(IF irq = 15 THEN {"master"} ELSE {})
        /\ irq \in {7, 15} /\ 7 \notin isr[ChipOf(irq)]
    BY <1>2 DEF DispatchSpurious, Iret, Spurious
  <2>2. ~real /\ irq \in {7, 15}
    BY <1>1, <2>1 DEF ChipOf
  <2>3. CASE irq = 7
    <3>1. isr' = [c \in Chip |-> isr[c]] /\ eois' = {}
      BY <2>1, <2>3 DEF Eoi
    <3> QED BY <1>1, <2>1, <2>2, <2>3, <3>1
  <2>4. CASE irq = 15
    <3>1. isr["master"] = {2} /\ isr["slave"] = {}
      BY <1>1, <2>2, <2>4
    <3>2. /\ isr' = [c \in Chip |-> IF c = "master" THEN Ended(isr[c]) ELSE isr[c]]
          /\ eois' = {"master"}
      BY <2>1, <2>4 DEF Eoi
    <3>3. isr'["master"] = {} /\ isr'["slave"] = {} /\ isr' \in [Chip -> SUBSET (0 .. 7)]
      BY <3>1, <3>2, EndedSingle
    <3> QED BY <1>1, <2>1, <2>2, <3>1, <3>2, <3>3
  <2> QED BY <2>2, <2>3, <2>4
<1>3. CASE IsIrq(vector) /\ DispatchIrq(irq)
  <2>1. /\ cpu' = "run" /\ vector' = vector /\ real' = real
        /\ ran' = IF irq \in handlers THEN irq ELSE -1
        /\ irr' = irr /\ handlers' = handlers
        /\ Eoi(IF irq >= 8 THEN {"master", "slave"} ELSE {"master"})
        /\ ~(irq \in {7, 15} /\ 7 \notin isr[ChipOf(irq)])
    BY <1>3 DEF DispatchIrq, Iret, Spurious
  <2>2. real
    BY <1>1, <1>3, <2>1 DEF ChipOf
  <2>3. CASE irq < 8
    <3>1. isr["master"] = {irq} /\ isr["slave"] = {} /\ irq \in 0 .. 7
      BY <1>1, <1>3, <2>2, <2>3
    <3>2. /\ isr' = [c \in Chip |-> IF c = "master" THEN Ended(isr[c]) ELSE isr[c]]
          /\ eois' = {"master"}
      BY <2>1, <2>3 DEF Eoi
    <3>3. isr'["master"] = {} /\ isr'["slave"] = {} /\ isr' \in [Chip -> SUBSET (0 .. 7)]
      BY <3>1, <3>2, EndedSingle
    <3> QED BY <1>1, <1>3, <2>1, <2>2, <3>1, <3>2, <3>3
  <2>4. CASE irq >= 8
    <3>1. isr["master"] = {2} /\ isr["slave"] = {irq - 8} /\ irq - 8 \in 0 .. 7
      BY <1>1, <1>3, <2>2, <2>4
    <3>2. /\ isr' = [c \in Chip |-> Ended(isr[c])]
          /\ eois' = {"master", "slave"}
      BY <2>1, <2>4 DEF Eoi
    <3>3. isr'["master"] = {} /\ isr'["slave"] = {} /\ isr' \in [Chip -> SUBSET (0 .. 7)]
      BY <3>1, <3>2, EndedSingle
    <3> QED BY <1>1, <1>3, <2>1, <2>2, <3>1, <3>2, <3>3
  <2> QED BY <1>1, <2>3, <2>4
<1>4. CASE vector = SYPAS_TEST_VECTOR /\ DispatchTest
  BY <1>1, <1>4 DEF DispatchTest, Iret, chips
<1>5. CASE ~IsIrq(vector) /\ vector # SYPAS_TEST_VECTOR /\ Panic
  BY <1>1, <1>5 DEF Panic, chips, trace
<1> QED
  BY <1>2, <1>3, <1>4, <1>5 DEF isr_dispatch

\* What drivers do: install a handler, sti, hlt.
LEMMA DriverService ==
    ASSUME ServiceInv,
           (\E irq \in 0 .. 15 : Enable(irq)) \/ Sti \/ Hlt
    PROVE  ServiceInv'
  BY DEF ServiceInv, ChipTypes, Enable, Sti, Hlt, Quiescent, Dispatching, chips,
         gate, trace

LEMMA ServiceInductive ==
    ASSUME ServiceInv, [INext]_ivars
    PROVE  ServiceInv'
<1> USE InterruptAssumption
<1>1. CASE Line
  BY <1>1, RaiseService, RequestService DEF Line
<1>2. CASE TakeIrq \/ TakeNmi \/ isr_dispatch
  BY <1>2, TakeIrqService, EnterService, DispatchService
<1>3. CASE DriverStep
  BY <1>3, DriverService, EnterService DEF DriverStep
<1>4. CASE UNCHANGED ivars
  BY <1>4 DEF ivars, chips, gate, trace, ServiceInv, ChipTypes, Quiescent, Dispatching
<1> QED
  BY <1>1, <1>2, <1>3, <1>4 DEF INext

LEMMA ServiceInit == IInit => ServiceInv
<1> SUFFICES ASSUME IInit PROVE ServiceInv
  OBVIOUS
<1>1. ChipTypes /\ Quiescent
  BY DEF IInit, PicReset, ChipTypes, Quiescent, Chip
<1> QED
  BY <1>1 DEF IInit, ServiceInv

\* Nothing is left in service when a dispatch is over, however the lines rise
\* and drop, whatever the devices and the order in which drivers enable them.
THEOREM NothingStaysInService == ISpec => []NothingLeftInService
<1>1. ServiceInv => NothingLeftInService
  BY DEF ServiceInv, NothingLeftInService, Quiescent, Chip
<1> QED
  BY <1>1, ServiceInit, ServiceInductive, PTL DEF ISpec

\* Every EOI goes to a chip that has something in service (pic.c:73).
THEOREM EoisMatch == ISpec => EoiMatchesService
<1>1. ASSUME ServiceInv, [INext]_ivars
      PROVE  [cpu = "isr" /\ cpu' = "run" => \A c \in eois' : isr[c] # {}]_ivars
  <2> SUFFICES ASSUME INext, cpu = "isr", cpu' = "run"
               PROVE  \A c \in eois' : isr[c] # {}
    BY <1>1
  <2>1. isr_dispatch
    BY DEF INext, Line, Raise, Drop, SlaveRequest, MasterRequest, TakeIrq, TakeNmi,
           EnterGate, DriverStep, Enable, Sti, Hlt, SoftwareInt, gate
  <2> QED
    BY <1>1, <2>1, DispatchService
<1> QED
  BY <1>1, ServiceInit, ServiceInductive, PTL DEF ISpec, EoiMatchesService

\* Spurious vectors never reach a handler, and real interrupts always do
\* (idt.c:93).
THEOREM HandlersExact == ISpec => HandlersRunExactlyForReal
<1>1. ASSUME ServiceInv, [INext]_ivars
      PROVE  [cpu = "isr" /\ cpu' = "run" =>
                (ran' # -1 <=> real /\ IsIrq(vector) /\ vector - 32 \in handlers)]_ivars
  <2> SUFFICES ASSUME INext, cpu = "isr", cpu' = "run"
               PROVE  ran' # -1 <=> real /\ IsIrq(vector) /\ vector - 32 \in handlers
    BY <1>1
  <2>1. isr_dispatch
    BY DEF INext, Line, Raise, Drop, SlaveRequest, MasterRequest, TakeIrq, TakeNmi,
           EnterGate, DriverStep, Enable, Sti, Hlt, SoftwareInt, gate
  <2> QED
    BY <1>1, <2>1, DispatchService
<1> QED
  BY <1>1, ServiceInit, ServiceInductive, PTL DEF ISpec, HandlersRunExactlyForReal

(***************************************************************************)
(* Bring-up                                                                *)
(***************************************************************************)

\* Where kmain is: before pic_init, before the verdict on memory, before the
\* test interrupts are counted, before the timer is armed, before sti, and
\* from the start of the sleep on.
Early == {"entry", "protocol", "gdt", "idt", "pic"}
Unchecked == {"entry", "protocol", "gdt", "idt", "pic", "memory"}
Untested == {"entry", "protocol", "gdt", "idt", "pic", "memory", "int_1", "int_2",
             "hits"}
Timerless == {"entry", "protocol", "gdt", "idt", "pic", "memory", "int_1", "int_2",
              "hits", "pit"}
BeforeSti == {"entry", "protocol", "gdt", "idt", "pic", "memory", "int_1", "int_2",
              "hits", "pit", "sti"}
Asleep == {"test", "hlt", "delta", "ud2", "idle"}
Lines == {"entry", "protocol", "gdt", "idt", "pic", "memory", "int_1", "int_2",
          "hits", "pit", "sti", "t0", "sleep", "test", "hlt", "delta", "ud2", "idle"}

KTypes ==
    /\ pc \in Lines /\ env \in Environment
    /\ ticks \in Nat /\ isr_test_hits \in Nat
    /\ t0 \in Nat /\ end \in Int
    /\ imr \in [Chip -> SUBSET (0 .. 7)]

\* Interrupts stay off until sti; then only the timer's line is open, and it
\* has its handler.
Masked ==
    /\ pc \in BeforeSti =>
         /\ IF_flag = FALSE
         /\ cpu = "isr" => saved_if = FALSE /\ ~IsIrq(vector)
    /\ pc \in Timerless => handlers = {}
    /\ pc \notin Timerless =>
         handlers = {0} /\ imr["master"] = 1 .. 7 /\ imr["slave"] = 0 .. 7
    /\ pc \in {"memory", "int_1", "int_2", "hits", "pit"} =>
         imr["master"] = 0 .. 7 /\ imr["slave"] = 0 .. 7
    /\ cpu = "isr" /\ IsIrq(vector) /\ real => vector = 32

\* The GDT is loaded before the IDT whose gates use it.
Armed ==
    /\ idtr \in {"firmware", "kernel"}
    /\ pc = "idt" => gdt = "kernel"
    /\ idtr = "kernel" => gdt = "kernel"
    /\ cpu = "stuck" => idtr = "firmware"

\* The test interrupts, counted one by one.
Tested ==
    /\ hits_before = 0
    /\ pc \in Unchecked \/ pc = "int_1" => isr_test_hits = 0
    /\ cpu = "isr" /\ vector = SYPAS_TEST_VECTOR => pc \in {"int_2", "hits"}
    /\ pc = "int_2" /\ cpu = "run" => isr_test_hits = 1
    /\ pc = "int_2" /\ cpu = "isr" /\ vector = SYPAS_TEST_VECTOR => isr_test_hits = 0
    /\ pc = "hits" /\ cpu = "run" => isr_test_hits = 2
    /\ pc = "hits" /\ cpu = "isr" /\ vector = SYPAS_TEST_VECTOR => isr_test_hits = 1
    /\ pc \notin Untested => isr_test_hits >= 2

\* Ticks come from a timer that works, and the sleep waits for them.
Timed ==
    /\ env.timer = "dead" =>
         ticks = 0 /\ 0 \notin irr["master"] /\ ~(cpu = "isr" /\ vector = 32)
    /\ pc = "sleep" \/ pc \in Asleep => t0 <= ticks
    /\ pc \in Asleep => end >= t0 + SleepTicks
    /\ pc \in {"delta", "ud2", "idle"} => ticks >= end

\* What has been checked, and what a panic or an exception goes back to.
Justified ==
    /\ pc \notin {"entry", "protocol"} => env.bi = "ok"
    /\ pc \notin Unchecked => env.pmm = "ok"
    /\ pc = "ud2" => env.build = "fault"
    /\ pc = "idle" => env.build = "normal"
    /\ cpu = "isr" =>
         \/ IsIrq(vector) \/ vector = SYPAS_TEST_VECTOR \/ vector = 2
         \/ vector = 6 /\ env.build = "fault"
    /\ cpu = "panic" =>
         \/ env.bi # "ok" \/ env.pmm # "ok" \/ vector = 2
         \/ env.build = "fault" /\ vector = 6

KInv == ServiceInv /\ KTypes /\ Masked /\ Armed /\ Tested /\ Timed /\ Justified

LEMMA KernelInit == Init => KInv
<1> SUFFICES ASSUME Init PROVE KInv
  OBVIOUS
<1> USE DEF Init, Early, Unchecked, Untested, Timerless, BeforeSti,
        Asleep, Lines
<1>1. ServiceInv
  <2>1. ChipTypes /\ Quiescent
    BY DEF ChipTypes, Quiescent, Chip
  <2> QED
    BY <2>1 DEF ServiceInv
<1>2. KTypes
  BY EnvironmentsAssumption DEF KTypes, Chip
<1>3. Masked /\ Armed /\ Tested
  BY DEF Masked, Armed, Tested
<1>4. Timed /\ Justified
  BY DEF Timed, Justified, Chip
<1> QED
  BY <1>1, <1>2, <1>3, <1>4 DEF KInv

\* The parts of the invariant besides the chips.
KRest == KTypes /\ Masked /\ Armed /\ Tested /\ Timed /\ Justified

\* A check that fails for a reason.
LEMMA FailStep ==
    ASSUME KInv, NEW at, Fail(at), env.bi # "ok" \/ env.pmm # "ok"
    PROVE  KInv'
<1>1. /\ cpu' = "panic" /\ IF_flag' = FALSE
      /\ UNCHANGED <<irr, isr, imr, vector, handlers, real, ticks, isr_test_hits>>
      /\ UNCHANGED <<pc, env, gdt, idtr, hits_before, t0, end>>
  BY DEF Fail, Panic, chips, counters, trace, kvars, tables
<1>2. ServiceInv'
  BY <1>1 DEF KInv, ServiceInv, ChipTypes
<1>3. KTypes' /\ Armed'
  BY <1>1 DEF KInv, KTypes, Armed
<1>4. Masked' /\ Tested'
  BY <1>1 DEF KInv, Masked, Tested
<1>5. Timed' /\ Justified'
  BY <1>1 DEF KInv, Timed, Justified
<1> QED
  BY <1>2, <1>3, <1>4, <1>5 DEF KInv

\* Steps of kmain that touch neither the processor's state nor the chips.
LEMMA QuietStep ==
    ASSUME KInv,
           \/ CheckProtocol \/ gdt_init \/ idt_init \/ InitMemory \/ CheckHits
           \/ ReadT0 \/ SleepStart \/ SleepTest \/ CheckDelta
    PROVE  KInv'
<1> USE KmainAssumption, InterruptAssumption DEF Early, Unchecked, Untested, Timerless, BeforeSti,
        Asleep, Lines, Goto, KRest
<1>1. KRest /\ ServiceInv
  BY DEF KInv
<1>2. ASSUME Quiet
      PROVE  /\ ServiceInv'
             /\ UNCHANGED <<IF_flag, cpu, vector, saved_if, real, handlers>>
             /\ UNCHANGED <<irr, imr, ticks, isr_test_hits>>
  <2>1. /\ UNCHANGED <<IF_flag, cpu, vector, saved_if, real, handlers>>
        /\ UNCHANGED <<irr, isr, imr, ticks, isr_test_hits>>
    BY <1>2 DEF Quiet, ivars, chips, gate, counters, trace
  <2> QED
    BY <1>1, <2>1, ServiceFrame DEF ServiceInv, ChipTypes
<1>3. CASE CheckProtocol
  <2>1. CASE env.bi = "ok"
    <3>1. Quiet /\ pc = "protocol" /\ pc' = "gdt" /\ UNCHANGED <<env, gdt, idtr, hits_before, t0, end>>
      BY <1>3, <2>1 DEF CheckProtocol, tables
    <3>2. KRest'
      BY <1>1, <1>2, <2>1, <3>1 DEF KTypes, Masked, Armed, Tested, Timed, Justified
    <3> QED BY <1>2, <3>1, <3>2 DEF KInv
  <2>2. CASE env.bi # "ok"
    BY <1>3, <2>2, FailStep DEF CheckProtocol
  <2> QED BY <2>1, <2>2
<1>4. CASE gdt_init
  <2>1. /\ Quiet /\ pc = "gdt" /\ pc' = "idt" /\ gdt' = "kernel"
        /\ UNCHANGED <<env, idtr, hits_before, t0, end>>
    BY <1>4 DEF gdt_init
  <2>2. KRest'
    BY <1>1, <1>2, <2>1 DEF KTypes, Masked, Armed, Tested, Timed, Justified
  <2> QED BY <1>2, <2>1, <2>2 DEF KInv
<1>5. CASE idt_init
  <2>1. /\ Quiet /\ pc = "idt" /\ pc' = "pic" /\ idtr' = "kernel" /\ cpu = "run"
        /\ UNCHANGED <<env, gdt, hits_before, t0, end>>
    BY <1>5 DEF idt_init
  <2>2. KRest'
    BY <1>1, <1>2, <2>1 DEF KTypes, Masked, Armed, Tested, Timed, Justified
  <2> QED BY <1>2, <2>1, <2>2 DEF KInv
<1>6. CASE InitMemory
  <2>1. CASE env.pmm = "ok"
    <3>1. /\ Quiet /\ pc = "memory" /\ pc' = "int_1" /\ hits_before' = isr_test_hits
          /\ UNCHANGED <<env, gdt, idtr, t0, end>>
      BY <1>6, <2>1 DEF InitMemory, tables
    <3>2. KRest'
      BY <1>1, <1>2, <2>1, <3>1 DEF KTypes, Masked, Armed, Tested, Timed, Justified
    <3> QED BY <1>2, <3>1, <3>2 DEF KInv
  <2>2. CASE env.pmm # "ok"
    BY <1>6, <2>2, FailStep DEF InitMemory
  <2> QED BY <2>1, <2>2
<1>7. CASE CheckHits
  <2>1. pc = "hits" /\ cpu = "run"
    BY <1>7 DEF CheckHits, Fail
  <2>2. isr_test_hits = hits_before + 2
    BY <1>1, <2>1 DEF Tested
  <2>3. /\ Quiet /\ pc' = "pit" /\ UNCHANGED <<env, gdt, idtr, hits_before, t0, end>>
    BY <1>7, <2>2 DEF CheckHits, tables
  <2>4. KRest'
    BY <1>1, <1>2, <2>1, <2>3 DEF KTypes, Masked, Armed, Tested, Timed, Justified
  <2> QED BY <1>2, <2>3, <2>4 DEF KInv
<1>8. CASE ReadT0
  <2>1. /\ Quiet /\ pc = "t0" /\ pc' = "sleep" /\ t0' = ticks
        /\ UNCHANGED <<env, gdt, idtr, hits_before, end>>
    BY <1>8 DEF ReadT0, tables
  <2>2. KRest'
    BY <1>1, <1>2, <2>1 DEF KTypes, Masked, Armed, Tested, Timed, Justified
  <2> QED BY <1>2, <2>1, <2>2 DEF KInv
<1>9. CASE SleepStart
  <2>1. /\ Quiet /\ pc = "sleep" /\ pc' = "test" /\ end' = ticks + SleepTicks
        /\ UNCHANGED <<env, gdt, idtr, hits_before, t0>>
    BY <1>9 DEF SleepStart, tables
  <2>2. KRest'
    BY <1>1, <1>2, <2>1 DEF KTypes, Masked, Armed, Tested, Timed, Justified
  <2> QED BY <1>2, <2>1, <2>2 DEF KInv
<1>10. CASE SleepTest
  <2>1. /\ Quiet /\ pc = "test" /\ pc' = IF ticks < end THEN "hlt" ELSE "delta"
        /\ UNCHANGED <<env, gdt, idtr, hits_before, t0, end>>
    BY <1>10 DEF SleepTest, tables
  <2>2. KRest'
    BY <1>1, <1>2, <2>1 DEF KTypes, Masked, Armed, Tested, Timed, Justified
  <2> QED BY <1>2, <2>1, <2>2 DEF KInv
<1>11. CASE CheckDelta
  <2>1. pc = "delta" /\ cpu = "run"
    BY <1>11 DEF CheckDelta, Fail
  <2>2. ticks - t0 >= SleepTicks
    BY <1>1, <2>1 DEF KTypes, Timed
  <2>3. /\ Quiet /\ pc' = IF env.build = "fault" THEN "ud2" ELSE "idle"
        /\ UNCHANGED <<env, gdt, idtr, hits_before, t0, end>>
    BY <1>11, <2>2 DEF CheckDelta, tables
  <2>4. env.build \in {"normal", "fault"}
    BY <1>1 DEF KTypes, Environment
  <2>5. KRest'
    BY <1>1, <1>2, <2>1, <2>3, <2>4 DEF KTypes, Masked, Armed, Tested, Timed, Justified
  <2> QED BY <1>2, <2>3, <2>5 DEF KInv
<1> QED
  BY <1>3, <1>4, <1>5, <1>6, <1>7, <1>8, <1>9, <1>10, <1>11

\* The other steps of kmain: tables and chips are set up, interrupts are
\* enabled, raised and waited for.
LEMMA MainlineStep ==
    ASSUME KInv, Mainline
    PROVE  KInv'
<1> USE KmainAssumption, InterruptAssumption DEF Early, Unchecked, Untested, Timerless, BeforeSti,
        Asleep, Lines, Goto, KRest
<1>1. KRest /\ ServiceInv
  BY DEF KInv
<1>2. CASE Kstart
  <2>1. /\ pc = "entry" /\ pc' = "protocol" /\ IF_flag' = FALSE
        /\ UNCHANGED <<irr, isr, imr, cpu, vector, saved_if, real, handlers, ticks,
                       isr_test_hits, env, gdt, idtr, hits_before, t0, end>>
    BY <1>2 DEF Kstart, chips, counters, trace, tables
  <2>2. KRest'
    BY <1>1, <2>1 DEF KTypes, Masked, Armed, Tested, Timed, Justified
  <2>3. ServiceInv'
    BY <1>1, <2>1, ServiceFrame DEF ServiceInv, ChipTypes
  <2> QED BY <2>2, <2>3 DEF KInv
<1>3. CASE pic_init
  <2>1. /\ pc = "pic" /\ pc' = "memory" /\ cpu = "run"
        /\ irr' = [c \in Chip |-> {}] /\ isr' = [c \in Chip |-> {}]
        /\ imr' = [c \in Chip |-> 0 .. 7]
        /\ UNCHANGED <<IF_flag, cpu, vector, saved_if, real, handlers, ticks,
                       isr_test_hits, env, gdt, idtr, hits_before, t0, end>>
    BY <1>3 DEF pic_init, gate, counters, trace, tables
  <2>2. ServiceInv'
    <3>1. ChipTypes' /\ Quiescent'
      BY <1>1, <2>1 DEF ServiceInv, ChipTypes, Quiescent, Chip
    <3> QED BY <2>1, <3>1 DEF ServiceInv
  <2>3. imr' \in [Chip -> SUBSET (0 .. 7)] /\ imr'["master"] = 0 .. 7
        /\ imr'["slave"] = 0 .. 7 /\ 0 \notin irr'["master"]
    BY <2>1 DEF Chip
  <2>4. KRest'
    BY <1>1, <2>1, <2>3 DEF KTypes, Masked, Armed, Tested, Timed, Justified
  <2> QED BY <2>2, <2>4 DEF KInv
<1>4. CASE TestInterrupt
  <2>1. SoftwareInt(SYPAS_TEST_VECTOR)
    BY <1>4 DEF TestInterrupt
  <2>2. /\ cpu = "run" /\ cpu' = "isr" /\ vector' = 240 /\ IF_flag' = FALSE
        /\ saved_if' = IF_flag /\ real' = FALSE
        /\ UNCHANGED <<irr, imr, handlers, ticks, isr_test_hits>>
    BY <2>1 DEF SoftwareInt, isr_stub, EnterGate, chips, counters, SYPAS_TEST_VECTOR
  <2>3. /\ \/ pc = "int_1" /\ pc' = "int_2"
           \/ pc = "int_2" /\ pc' = "hits"
        /\ UNCHANGED <<env, gdt, idtr, hits_before, t0, end>>
    BY <1>4 DEF TestInterrupt, tables
  <2>4. KRest'
    <3> USE DEF IsIrq, SYPAS_TEST_VECTOR
    <3>1. KTypes' /\ Armed'
      BY <1>1, <2>2, <2>3 DEF KTypes, Armed
    <3>2. Timed'
      BY <1>1, <2>2, <2>3 DEF Timed
    <3>5. Masked'
      <4>1. IF_flag = FALSE
        BY <1>1, <2>3 DEF Masked
      <4> QED
        BY <1>1, <2>2, <2>3, <4>1 DEF Masked
    <3>3. Tested'
      BY <1>1, <2>2, <2>3 DEF Tested
    <3>4. Justified'
      BY <1>1, <2>2, <2>3 DEF Justified
    <3> QED BY <3>1, <3>2, <3>3, <3>4, <3>5
  <2> QED BY <1>1, <2>1, <2>4, EnterService DEF KInv
<1>5. CASE PitInit
  <2>1. /\ pc = "pit" /\ pc' = "sti" /\ cpu = "run" /\ handlers' = handlers \union {0}
        /\ imr' = [imr EXCEPT !["master"] = @ \ {0}]
        /\ UNCHANGED <<irr, IF_flag, cpu, vector, saved_if, real, ticks, isr_test_hits,
                       env, gdt, idtr, hits_before, t0, end>>
        /\ Enable(0)
    BY <1>5 DEF PitInit, Enable, Unmasked, Bit, gate, counters, trace, tables
  <2>2. /\ handlers' = {0} /\ imr' \in [Chip -> SUBSET (0 .. 7)]
        /\ imr'["master"] = 1 .. 7 /\ imr'["slave"] = 0 .. 7
    BY <1>1, <2>1 DEF Masked, KTypes, Chip
  <2>3. KRest'
    BY <1>1, <2>1, <2>2 DEF KTypes, Masked, Armed, Tested, Timed, Justified
  <2> QED BY <1>1, <2>1, <2>3, DriverService DEF KInv
<1>6. CASE EnableInterrupts
  <2>1. /\ pc = "sti" /\ pc' = "t0" /\ cpu = "run" /\ IF_flag' = TRUE /\ Sti
        /\ UNCHANGED <<irr, imr, cpu, vector, saved_if, real, handlers, ticks,
                       isr_test_hits, env, gdt, idtr, hits_before, t0, end>>
    BY <1>6 DEF EnableInterrupts, Sti, chips, counters, trace, tables
  <2>2. KRest'
    BY <1>1, <2>1 DEF KTypes, Masked, Armed, Tested, Timed, Justified
  <2> QED BY <1>1, <2>1, <2>2, DriverService DEF KInv
<1>7. CASE SleepHlt \/ Idle
  <2>1. /\ \/ pc = "hlt" /\ pc' = "test"
           \/ pc = "idle" /\ pc' = "idle"
        /\ cpu = "run" /\ cpu' = "hlt" /\ Hlt
        /\ UNCHANGED <<irr, imr, IF_flag, vector, saved_if, real, handlers, ticks,
                       isr_test_hits, env, gdt, idtr, hits_before, t0, end>>
    BY <1>7 DEF SleepHlt, Idle, Hlt, chips, counters, trace, tables
  <2>2. KRest'
    BY <1>1, <2>1 DEF KTypes, Masked, Armed, Tested, Timed, Justified
  <2> QED BY <1>1, <2>1, <2>2, DriverService DEF KInv
<1>8. CASE InjectFault
  <2>1. SoftwareInt(6)
    BY <1>8 DEF InjectFault
  <2>2. /\ cpu = "run" /\ cpu' = "isr" /\ vector' = 6 /\ IF_flag' = FALSE
        /\ saved_if' = IF_flag /\ real' = FALSE
        /\ UNCHANGED <<irr, imr, handlers, ticks, isr_test_hits>>
    BY <2>1 DEF SoftwareInt, isr_stub, EnterGate, chips, counters
  <2>3. /\ pc = "ud2" /\ pc' = "ud2"
        /\ UNCHANGED <<env, gdt, idtr, hits_before, t0, end>>
    BY <1>8 DEF InjectFault, tables
  <2>4. KRest'
    BY <1>1, <2>2, <2>3 DEF KTypes, Masked, Armed, Tested, Timed, Justified, IsIrq,
                            SYPAS_TEST_VECTOR
  <2> QED BY <1>1, <2>1, <2>4, EnterService DEF KInv
<1> QED
  BY <1>2, <1>3, <1>4, <1>5, <1>6, <1>7, <1>8, QuietStep DEF Mainline

\* An interrupt is taken only after sti, and then it is the timer's.
LEMMA TakeIrqStep ==
    ASSUME KInv, TakeIrq, UNCHANGED kvars
    PROVE  KInv'
<1> USE DEF Early, Unchecked, Untested, Timerless, BeforeSti,
        Asleep, Lines
<1>1. ServiceInv'
  BY TakeIrqService DEF KInv
<1>2. /\ IF_flag /\ cpu \in {"run", "hlt"} /\ cpu' = "isr" /\ IF_flag' = FALSE
      /\ UNCHANGED <<imr, handlers, ticks, isr_test_hits>>
      /\ UNCHANGED <<pc, env, gdt, idtr, hits_before, t0, end>>
  BY DEF TakeIrq, EnterGate, counters, kvars, tables
<1>3. pc \notin BeforeSti /\ handlers = {0}
      /\ imr["master"] = 1 .. 7 /\ imr["slave"] = 0 .. 7
  BY <1>2 DEF KInv, Masked
<1>4. /\ irr \in [Chip -> SUBSET (0 .. 7)]
      /\ Deliverable("master") \subseteq irr["master"] \intersect {0}
  <2>1. irr \in [Chip -> SUBSET (0 .. 7)]
    BY DEF KInv, ServiceInv, ChipTypes
  <2>2. irr["master"] \ (1 .. 7) \subseteq irr["master"] \intersect {0}
    BY <2>1 DEF Chip
  <2>3. Deliverable("master") \subseteq irr["master"] \ (1 .. 7)
    BY <1>3 DEF Deliverable, Pending
  <2> QED BY <2>1, <2>2, <2>3
<1>5. /\ IsIrq(vector') /\ (real' => vector' = 32)
      /\ vector' = 32 => 0 \in irr["master"]
      /\ irr'["master"] \subseteq irr["master"]
  <2>1. CASE Deliverable("master") = {}
    BY <2>1 DEF TakeIrq, Acknowledged, isr_stub, IsIrq
  <2>2. CASE Deliverable("master") # {}
    <3>1. Deliverable("master") = {0} /\ 0 \in irr["master"]
      BY <1>4, <2>2
    <3>2. Min(Deliverable("master")) = 0
      BY <3>1 DEF Min
    <3>3. /\ vector' = 32 /\ irr' = [irr EXCEPT !["master"] = @ \ {0}]
      BY <3>1, <3>2 DEF TakeIrq, Acknowledged, isr_stub, Cascade
    <3> QED
      BY <1>4, <3>1, <3>3 DEF IsIrq, Chip
  <2> QED BY <2>1, <2>2
<1>6. vector' # SYPAS_TEST_VECTOR
  BY <1>5 DEF IsIrq, SYPAS_TEST_VECTOR
<1>7. KTypes' /\ Armed'
  BY <1>2 DEF KInv, KTypes, Armed
<1>8. Masked'
  BY <1>2, <1>3, <1>5 DEF KInv, Masked
<1>9. Tested'
  BY <1>2, <1>6 DEF KInv, Tested
<1>10. Timed'
  BY <1>2, <1>5 DEF KInv, Timed
<1>11. Justified'
  BY <1>2, <1>5 DEF KInv, Justified
<1> QED
  BY <1>1, <1>7, <1>8, <1>9, <1>10, <1>11 DEF KInv

\* An NMI, with the kernel's gates or without.
LEMMA NmiStep ==
    ASSUME KInv, UNCHANGED kvars,
           (Gated /\ TakeNmi) \/ (~Gated /\ cpu = "run" /\ Stuck)
    PROVE  KInv'
<1>1. CASE Gated /\ TakeNmi
  <2>1. /\ cpu' = "isr" /\ vector' = 2 /\ IF_flag' = FALSE /\ saved_if' = IF_flag
        /\ real' = FALSE
        /\ UNCHANGED <<irr, imr, handlers, ticks, isr_test_hits>>
        /\ UNCHANGED <<pc, env, gdt, idtr, hits_before, t0, end>>
    BY <1>1 DEF TakeNmi, isr_stub, EnterGate, chips, counters, kvars, tables
  <2>2. KRest'
    <3> USE DEF IsIrq, SYPAS_TEST_VECTOR
    <3>1. KTypes' /\ Armed' /\ Timed'
      BY <2>1 DEF KInv, KTypes, Armed, Timed
    <3>2. Masked'
      BY <2>1 DEF KInv, Masked
    <3>3. Tested'
      BY <2>1 DEF KInv, Tested
    <3>4. Justified'
      BY <2>1 DEF KInv, Justified
    <3> QED BY <3>1, <3>2, <3>3, <3>4 DEF KRest
  <2> QED BY <1>1, <2>2, EnterService DEF KInv, KRest
<1>2. CASE ~Gated /\ cpu = "run" /\ Stuck
  <2>1. /\ cpu' = "stuck" /\ IF_flag' = FALSE
        /\ UNCHANGED <<irr, isr, imr, vector, handlers, real, ticks, isr_test_hits>>
        /\ UNCHANGED <<pc, env, gdt, idtr, hits_before, t0, end>>
    BY <1>2 DEF Stuck, chips, counters, trace, kvars, tables
  <2>2. ServiceInv'
    BY <2>1 DEF KInv, ServiceInv, ChipTypes
  <2>3. idtr = "firmware"
    BY <1>2 DEF KInv, Armed, Gated
  <2>4. KRest'
    <3>1. KTypes' /\ Armed' /\ Timed'
      BY <2>1, <2>3 DEF KInv, KTypes, Armed, Timed
    <3>2. Masked' /\ Tested'
      BY <2>1 DEF KInv, Masked, Tested
    <3>3. Justified'
      BY <2>1 DEF KInv, Justified
    <3> QED BY <3>1, <3>2, <3>3 DEF KRest
  <2> QED BY <2>2, <2>4 DEF KInv, KRest
<1> QED BY <1>1, <1>2

\* Lines rise and drop; the chips pass requests on.
LEMMA LineStep ==
    ASSUME KInv, UNCHANGED kvars,
           \/ env.timer = "alive" /\ Raise(0)
           \/ \E irq \in Devices \ {0} : Raise(irq) \/ Drop(irq)
           \/ MasterRequest \/ SlaveRequest
    PROVE  KInv'
<1> USE InterruptAssumption
<1>1. ServiceInv'
  BY RaiseService, RequestService DEF KInv
<1>2. /\ UNCHANGED <<imr, IF_flag, cpu, vector, saved_if, real, handlers, ticks,
                     isr_test_hits>>
      /\ UNCHANGED <<pc, env, gdt, idtr, hits_before, t0, end>>
  BY DEF Raise, Drop, MasterRequest, SlaveRequest, gate, counters, trace, kvars, tables
<1>3. env.timer = "dead" => (0 \in irr'["master"] => 0 \in irr["master"])
  <2> SUFFICES ASSUME env.timer = "dead" PROVE 0 \in irr'["master"] => 0 \in irr["master"]
    OBVIOUS
  <2>1. irr \in [Chip -> SUBSET (0 .. 7)]
    BY DEF KInv, ServiceInv, ChipTypes
  <2>2. ASSUME NEW irq \in Devices \ {0}, Raise(irq) \/ Drop(irq)
        PROVE  0 \in irr'["master"] => 0 \in irr["master"]
    BY <2>1, <2>2 DEF Raise, Drop, ChipOf, Bit, Chip
  <2>3. CASE MasterRequest \/ SlaveRequest
    BY <2>1, <2>3 DEF MasterRequest, SlaveRequest, Cascade, Chip
  <2> QED BY <2>2, <2>3
<1>4. KTypes' /\ Masked' /\ Armed'
  BY <1>2 DEF KInv, KTypes, Masked, Armed
<1>5. Tested' /\ Timed'
  BY <1>2, <1>3 DEF KInv, Tested, Timed
<1>6. Justified'
  BY <1>2 DEF KInv, Justified
<1> QED
  BY <1>1, <1>4, <1>5, <1>6 DEF KInv

\* A dispatch counts what it was entered for, and panics only on an exception.
LEMMA DispatchStep ==
    ASSUME KInv, isr_dispatch, UNCHANGED kvars
    PROVE  KInv'
<1> USE KmainAssumption, InterruptAssumption DEF Early, Unchecked, Untested, Timerless, BeforeSti,
        Asleep, Lines
<1>1. ServiceInv'
  BY DispatchService DEF KInv
<1>2. cpu = "isr" /\ UNCHANGED <<pc, env, gdt, idtr, hits_before, t0, end>>
  BY DEF isr_dispatch, kvars, tables
<1>3. CASE IsIrq(vector) /\ (DispatchSpurious(vector - 32) \/ DispatchIrq(vector - 32))
  <2>1. /\ cpu' = "run" /\ IF_flag' = saved_if
        /\ UNCHANGED <<irr, imr, vector, saved_if, handlers, isr_test_hits>>
    BY <1>3 DEF DispatchSpurious, DispatchIrq, Iret
  <2>2. ticks' \in Nat /\ ticks <= ticks' /\ (vector # 32 => ticks' = ticks)
    <3>1. ticks \in Nat /\ vector \in Nat /\ MaxTicks \in Nat
      BY InterruptAssumption DEF KInv, KTypes, ServiceInv, ChipTypes
    <3>2. \/ ticks' = ticks
          \/ vector - 32 = 0 /\ ticks' = Sat(ticks, MaxTicks)
      BY <1>3 DEF DispatchSpurious, DispatchIrq
    <3> QED BY <3>1, <3>2 DEF Sat
  <2>3. pc \notin BeforeSti
    BY <1>2, <1>3 DEF KInv, Masked
  <2>4. KTypes' /\ Masked' /\ Armed'
    BY <1>2, <2>1, <2>2, <2>3 DEF KInv, KTypes, Masked, Armed
  <2>5. Tested' /\ Justified'
    BY <1>2, <2>1, <2>3 DEF KInv, Tested, Justified
  <2>6. Timed'
    <3>1. env.timer = "dead" => ticks' = 0 /\ 0 \notin irr'["master"]
      BY <1>2, <2>1, <2>2 DEF KInv, Timed
    <3>2. pc = "sleep" \/ pc \in Asleep => t0 <= ticks'
      <4>1. ticks \in Nat /\ t0 \in Nat /\ end \in Int
        BY DEF KInv, KTypes
      <4> QED BY <2>2, <4>1 DEF KInv, Timed
    <3>3. pc \in {"delta", "ud2", "idle"} => ticks' >= end
      <4>1. ticks \in Nat /\ t0 \in Nat /\ end \in Int
        BY DEF KInv, KTypes
      <4> QED BY <2>2, <4>1 DEF KInv, Timed
    <3> QED
      BY <1>2, <2>1, <3>1, <3>2, <3>3 DEF KInv, Timed
  <2> QED BY <1>1, <2>4, <2>5, <2>6 DEF KInv
<1>4. CASE vector = SYPAS_TEST_VECTOR /\ DispatchTest
  <2>1. /\ cpu' = "run" /\ IF_flag' = saved_if
        /\ isr_test_hits' = Sat(isr_test_hits, MaxCount)
        /\ UNCHANGED <<irr, imr, vector, saved_if, handlers, ticks>>
    BY <1>4 DEF DispatchTest, Iret, chips
  <2>2. /\ \/ pc = "int_2" /\ isr_test_hits = 0
           \/ pc = "hits" /\ isr_test_hits = 1
        /\ IF_flag' = FALSE
    BY <1>2, <1>4, <2>1 DEF KInv, Tested, Masked
  <2>3. isr_test_hits' = isr_test_hits + 1
    BY <2>1, <2>2, InterruptAssumption DEF Sat
  <2>4. KTypes' /\ Armed'
    BY <1>2, <2>1, <2>3 DEF KInv, KTypes, Armed
  <2>7. Timed'
    BY <1>2, <2>1 DEF KInv, Timed
  <2>5. Masked' /\ Justified'
    BY <1>2, <2>1, <2>2 DEF KInv, Masked, Justified
  <2>6. Tested'
    BY <1>2, <2>1, <2>2, <2>3 DEF KInv, Tested
  <2> QED BY <1>1, <2>4, <2>5, <2>6, <2>7 DEF KInv
<1>5. CASE ~IsIrq(vector) /\ vector # SYPAS_TEST_VECTOR /\ Panic
  <2>1. /\ cpu' = "panic" /\ IF_flag' = FALSE
        /\ UNCHANGED <<irr, imr, vector, handlers, ticks, isr_test_hits>>
    BY <1>5 DEF Panic, chips, counters
  <2>2. \/ vector = 2
        \/ vector = 6 /\ env.build = "fault"
    BY <1>2, <1>5 DEF KInv, Justified
  <2>3. KTypes' /\ Armed' /\ Timed'
    BY <1>2, <2>1 DEF KInv, KTypes, Armed, Timed
  <2>4. Masked' /\ Tested'
    BY <1>2, <2>1 DEF KInv, Masked, Tested
  <2>5. Justified'
    BY <1>2, <2>1, <2>2 DEF KInv, Justified
  <2> QED BY <1>1, <2>3, <2>4, <2>5 DEF KInv
<1> QED
  BY <1>3, <1>4, <1>5 DEF isr_dispatch

LEMMA KernelInductive ==
    ASSUME KInv, [Next]_vars
    PROVE  KInv'
<1>1. CASE Mainline
  BY <1>1, MainlineStep
<1>2. CASE Tick
  BY <1>2, LineStep DEF Tick
<1>3. CASE Hardware
  BY <1>3, LineStep, DispatchStep, TakeIrqStep, NmiStep DEF Hardware
<1>4. CASE Halted \/ UNCHANGED vars
  <2>1. /\ UNCHANGED <<irr, isr, imr, IF_flag, cpu, vector, saved_if, real, handlers>>
        /\ UNCHANGED <<ticks, isr_test_hits>>
        /\ UNCHANGED <<pc, env, gdt, idtr, hits_before, t0, end>>
    BY <1>4 DEF Halted, vars, ivars, chips, gate, counters, trace, kvars, tables
  <2>2. ServiceInv'
    BY <2>1, ServiceFrame DEF KInv, ServiceInv, ChipTypes
  <2>3. KTypes' /\ Masked' /\ Armed'
    BY <2>1 DEF KInv, KTypes, Masked, Armed
  <2>4. Tested' /\ Timed'
    BY <2>1 DEF KInv, Tested, Timed
  <2>5. Justified'
    BY <2>1 DEF KInv, Justified
  <2> QED BY <2>2, <2>3, <2>4, <2>5 DEF KInv
<1> QED
  BY <1>1, <1>2, <1>3, <1>4 DEF Next

\* The invariant says what is checked.
LEMMA KInvImplies == KInv => ChecksHonest /\ NothingStrikesUnarmed
<1> SUFFICES ASSUME KInv PROVE ChecksHonest /\ NothingStrikesUnarmed
  OBVIOUS
<1> USE KmainAssumption, InterruptAssumption DEF KInv, Early, Unchecked, Untested, Timerless, BeforeSti,
        Asleep, Lines
<1>1. ASSUME pc = "idle"
      PROVE  /\ env.bi = "ok" /\ env.pmm = "ok" /\ env.timer = "alive"
             /\ isr_test_hits >= 2 /\ ticks >= t0 + SleepTicks
             /\ 0 \in handlers
  <2>1. ticks >= t0 + SleepTicks /\ ticks > 0
    BY <1>1 DEF Timed, KTypes
  <2>2. env.timer \in {"alive", "dead"}
    BY DEF KTypes, Environment
  <2>3. env.timer = "alive"
    BY <2>1, <2>2 DEF Timed
  <2> QED
    BY <1>1, <2>1, <2>3 DEF Justified, Tested, Masked
<1>2. ASSUME cpu = "isr", IsIrq(vector), real
      PROVE  vector - 32 \in handlers
  <2>1. vector = 32 /\ pc \notin BeforeSti
    BY <1>2 DEF Masked
  <2>2. handlers = {0}
    BY <2>1 DEF Masked
  <2>3. vector - 32 = 0
    BY <2>1
  <2> QED
    BY <2>2, <2>3
<1> QED
  BY <1>1, <1>2 DEF ChecksHonest, NothingStrikesUnarmed, Justified, Armed

\* RUNNING is announced only after every check has passed, and kmain panics
\* only for a reason (main.c:4).
THEOREM ChecksAreHonest == Spec => []ChecksHonest
  BY KernelInit, KernelInductive, KInvImplies, PTL DEF Spec

\* Whatever strikes after lidt finds a gate, and an interrupt its handler.
THEOREM NothingUnarmed == Spec => []NothingStrikesUnarmed
  BY KernelInit, KernelInductive, KInvImplies, PTL DEF Spec

(***************************************************************************)
(* The boot test                                                           *)
(***************************************************************************)

\* What a step of the kernel can do to a machine that has panicked or is off,
\* and why a machine panics: through isr_dispatch on an exception, or from
\* kmain because a check failed.
LEMMA PanicsForAReason ==
    ASSUME KInv, Next
    PROVE  /\ env' = env
           /\ cpu \in {"panic", "off"} => cpu' = cpu /\ vector' = vector /\ pc' = pc
           /\ cpu' = "off" => cpu = "off"
           /\ cpu # "panic" /\ cpu' = "panic" =>
                /\ vector' = vector
                /\ IF cpu = "isr"
                   THEN vector = 2 \/ (vector = 6 /\ env.build = "fault")
                   ELSE env.bi # "ok" \/ env.pmm # "ok"
<1>1. CASE Mainline
  <2>1. cpu = "run" /\ env' = env
    BY <1>1 DEF Mainline, Kstart, CheckProtocol, gdt_init, idt_init, pic_init, InitMemory,
       TestInterrupt, CheckHits, PitInit, EnableInterrupts, ReadT0, SleepStart, SleepTest,
       SleepHlt, CheckDelta, InjectFault, Idle, Goto, Fail, kvars, SoftwareInt, Enable, Sti,
       Hlt
  <2>2. CASE CheckProtocol \/ InitMemory
    BY <2>1, <2>2 DEF CheckProtocol, InitMemory, Fail, Panic, Quiet, ivars, gate
  <2>3. CASE CheckHits
    <3>1. pc = "hits" /\ cpu = "run"
      BY <2>3 DEF CheckHits, Goto, Fail
    <3>2. isr_test_hits = hits_before + 2
      BY <3>1 DEF KInv, Tested
    <3> QED BY <2>1, <2>3, <3>2 DEF CheckHits, Quiet, ivars, gate
  <2>4. CASE CheckDelta
    <3>1. pc = "delta" /\ cpu = "run"
      BY <2>4 DEF CheckDelta, Goto, Fail
    <3>2. ticks - t0 >= SleepTicks
      BY <3>1, KmainAssumption DEF KInv, KTypes, Timed, Asleep
    <3> QED BY <2>1, <2>4, <3>2 DEF CheckDelta, Quiet, ivars, gate
  <2>5. CASE \/ Kstart \/ gdt_init \/ idt_init \/ pic_init \/ TestInterrupt \/ PitInit
             \/ EnableInterrupts \/ ReadT0 \/ SleepStart \/ SleepTest \/ SleepHlt
             \/ InjectFault \/ Idle
    <3>1. cpu' \in {"run", "hlt", "isr"}
      BY <2>1, <2>5 DEF Kstart, gdt_init, idt_init, pic_init, TestInterrupt, PitInit,
         EnableInterrupts, ReadT0, SleepStart, SleepTest, SleepHlt, InjectFault, Idle,
         SoftwareInt, EnterGate, Enable, Sti, Hlt, Quiet, ivars, gate
    <3> QED BY <2>1, <3>1
  <2> QED BY <1>1, <2>2, <2>3, <2>4, <2>5 DEF Mainline
<1>2. CASE Tick
  BY <1>2 DEF Tick, Raise, kvars, gate
<1>3. CASE Hardware
  <2>1. cpu \notin {"panic", "off"} /\ env' = env
    BY <1>3 DEF Hardware, Stopped, kvars
  <2>2. CASE isr_dispatch
    <3>1. cpu = "isr"
      BY <2>2 DEF isr_dispatch
    <3>2. cpu' = "run" \/ (~IsIrq(vector) /\ vector # SYPAS_TEST_VECTOR /\ Panic)
      BY <2>2 DEF isr_dispatch, DispatchSpurious, DispatchIrq, DispatchTest, Iret
    <3> QED
      BY <2>1, <3>1, <3>2 DEF Panic, KInv, Justified
  <2>3. CASE \E irq \in Devices \ {0} : Raise(irq) \/ Drop(irq)
    BY <2>1, <2>3 DEF Raise, Drop, gate
  <2>4. CASE MasterRequest \/ SlaveRequest
    BY <2>1, <2>4 DEF MasterRequest, SlaveRequest, gate
  <2>5. CASE (Gated /\ (TakeIrq \/ TakeNmi)) \/ (~Gated /\ cpu = "run" /\ Stuck)
    BY <2>1, <2>5 DEF TakeIrq, TakeNmi, EnterGate, Stuck
  <2> QED BY <1>3, <2>2, <2>3, <2>4, <2>5 DEF Hardware
<1>4. CASE Halted
  BY <1>4 DEF Halted, vars, ivars, gate, kvars
<1> QED
  BY <1>1, <1>2, <1>3, <1>4 DEF Next

\* Why the kernel may have panicked, with an interrupt frame and without.
FrameCause == vector = 2 \/ (vector = 6 /\ env.build = "fault")
BareCause == env.bi # "ok" \/ env.pmm # "ok"

\* A panic's marks come after the panic, in order, and with their cause.
Marks ==
    /\ said \in Nat /\ framed \in BOOLEAN
    /\ log \subseteq {"RUNNING", "PANIC", "RIP=", "CR0=", "HALTED"}
    /\ framed => cpu \in {"panic", "off"} /\ FrameCause
    /\ said > 0 => cpu \in {"panic", "off"}
    /\ said = 0 => log \subseteq {"RUNNING"}
    /\ cpu = "panic" \/ said > 0 => framed \/ BareCause
    /\ said > 0 => "PANIC" \in log
    /\ framed /\ said > 1 => "RIP=" \in log
    /\ framed /\ said > 2 => "CR0=" \in log
    /\ framed /\ said < 4 => "HALTED" \notin log
    /\ ~framed => "RIP=" \notin log /\ "CR0=" \notin log

\* RUNNING is in the log of a kernel that has checked everything.
Announced ==
    "RUNNING" \in log =>
        /\ env.bi = "ok" /\ env.pmm = "ok" /\ env.timer = "alive"
        /\ env.build = "normal"

\* The harness gives its verdict and switches the machine off in one step.
Settled ==
    /\ expect \in BOOLEAN
    /\ hpc = "done" => cpu = "off"
    /\ result # "none" => hpc = "done"

TInv == KInv /\ Marks /\ Announced /\ Settled /\ VerdictTruthfulUnlessNmi

LEMMA TestStarts == TestInit => TInv
<1> SUFFICES ASSUME TestInit PROVE TInv
  OBVIOUS
<1>1. KInv
  BY KernelInit DEF TestInit
<1>2. /\ log = {} /\ said = 0 /\ framed = FALSE /\ cpu = "run"
      /\ expect \in BOOLEAN /\ hpc = "poll" /\ result = "none"
  BY DEF TestInit, Init
<1>3. Marks
  <2>1. said \in Nat /\ ~(said > 0) /\ cpu # "panic"
    BY <1>2
  <2>2. framed \in BOOLEAN /\ ~framed
    BY <1>2
  <2> QED
    BY <1>2, <2>1, <2>2 DEF Marks
<1>4. Announced /\ Settled /\ VerdictTruthfulUnlessNmi
  BY <1>2 DEF Announced, Settled, VerdictTruthfulUnlessNmi
<1> QED
  BY <1>1, <1>3, <1>4 DEF TInv

\* A step of the kernel leaves the verdict's evidence alone, and adds RUNNING
\* to the log only when it is deserved.
LEMMA GuestStepTest ==
    ASSUME TInv, GuestStep
    PROVE  TInv'
<1>1. KInv /\ KInv'
  BY KernelInductive DEF TInv, GuestStep
<1>2. /\ env' = env
      /\ cpu \in {"panic", "off"} => cpu' = cpu /\ vector' = vector /\ pc' = pc
      /\ cpu' = "off" => cpu = "off"
      /\ cpu # "panic" /\ cpu' = "panic" =>
           vector' = vector /\ IF cpu = "isr" THEN FrameCause ELSE BareCause
  BY <1>1, PanicsForAReason DEF GuestStep, FrameCause, BareCause
<1>3. KInv' => ChecksHonest'
  BY KInvImplies, PTL
<1>4. UNCHANGED <<said, expect, hpc, result>>
  BY DEF GuestStep, harness
<1>5. log' = log \/ (pc' = "idle" /\ log' = log \union {"RUNNING"})
  BY DEF GuestStep
<1>6. /\ framed' = framed \/ framed' = (cpu = "isr")
      /\ framed' = framed \/ (cpu # "panic" /\ cpu' = "panic")
  BY DEF GuestStep
<1>7. Announced'
  <2>1. CASE log' = log
    BY <1>2, <2>1 DEF TInv, Announced
  <2>2. CASE pc' = "idle"
    BY <1>1, <1>3, <2>2 DEF ChecksHonest, KInv, Justified, Announced
  <2> QED BY <1>5, <2>1, <2>2
<1>8. Settled'
  BY <1>2, <1>4 DEF TInv, Settled
<1>9. VerdictTruthfulUnlessNmi'
  <2>1. CASE result = "none"
    BY <1>4, <2>1 DEF VerdictTruthfulUnlessNmi
  <2>2. CASE result # "none"
    <3>1. cpu = "off"
      BY <2>2 DEF TInv, Settled
    <3>2. framed' = framed /\ vector' = vector
      BY <1>2, <1>6, <3>1
    <3>3. log' = log
      BY <1>2, <3>1 DEF GuestStep
    <3> QED
      BY <1>2, <1>4, <3>2, <3>3 DEF TInv, VerdictTruthfulUnlessNmi, PanicSeen
  <2> QED BY <2>1, <2>2
<1>10. Marks'
  <2>1. /\ said' \in Nat /\ framed' \in BOOLEAN
        /\ log' \subseteq {"RUNNING", "PANIC", "RIP=", "CR0=", "HALTED"}
        /\ said' = 0 => log' \subseteq {"RUNNING"}
        /\ said' > 0 => "PANIC" \in log'
    BY <1>4, <1>5, <1>6 DEF TInv, Marks
  <2>2. CASE cpu \in {"panic", "off"}
    <3>1. cpu' = cpu /\ vector' = vector /\ framed' = framed
      BY <1>2, <1>6, <2>2
    <3>2. /\ "HALTED" \in log' <=> "HALTED" \in log
          /\ "RIP=" \in log' <=> "RIP=" \in log
          /\ "CR0=" \in log' <=> "CR0=" \in log
      BY <1>5
    <3> QED
      BY <1>2, <1>4, <2>1, <2>2, <3>1, <3>2 DEF TInv, Marks, FrameCause, BareCause
  <2>3. CASE cpu \notin {"panic", "off"}
    <3>1. said = 0 /\ said' = 0 /\ ~framed
      BY <1>4, <2>3 DEF TInv, Marks
    <3>2. framed' => cpu = "isr" /\ cpu' = "panic" /\ FrameCause'
      BY <1>2, <1>6, <2>3, <3>1 DEF FrameCause
    <3>3. cpu' = "panic" => framed' \/ BareCause'
      BY <1>2, <2>3 DEF GuestStep, BareCause
    <3> QED
      BY <2>1, <3>1, <3>2, <3>3 DEF Marks
  <2> QED BY <2>2, <2>3
<1> QED
  BY <1>1, <1>7, <1>8, <1>9, <1>10 DEF TInv

\* One more mark of the panic.
LEMMA PrintMarkTest ==
    ASSUME TInv, PrintMark
    PROVE  TInv'
<1>1. /\ cpu = "panic" /\ said < Len(PanicMarks)
      /\ log' = log \union {PanicMarks[said + 1]} /\ said' = said + 1
      /\ UNCHANGED vars /\ UNCHANGED <<framed, expect, hpc, result>>
  BY DEF PrintMark, harness
<1>2. UNCHANGED <<cpu, vector, env>>
  BY <1>1 DEF vars, ivars, gate, kvars
<1>3. KInv'
  BY <1>1, KernelInductive DEF TInv
<1>4. said \in Nat /\ framed \in BOOLEAN
  BY DEF TInv, Marks
<1>5. Marks'
  <2>1. CASE framed
    <3>1. /\ said \in 0 .. 3
          /\ PanicMarks[said + 1] = CASE said = 0 -> "PANIC" [] said = 1 -> "RIP="
                                      [] said = 2 -> "CR0=" [] said = 3 -> "HALTED"
      BY <1>1, <1>4, <2>1 DEF PanicMarks
    <3> QED
      BY <1>1, <1>2, <2>1, <3>1 DEF TInv, Marks, FrameCause, BareCause
  <2>2. CASE ~framed
    <3>1. /\ said \in 0 .. 1
          /\ PanicMarks[said + 1] = IF said = 0 THEN "PANIC" ELSE "HALTED"
      BY <1>1, <1>4, <2>2 DEF PanicMarks
    <3> QED
      BY <1>1, <1>2, <2>2, <3>1 DEF TInv, Marks, FrameCause, BareCause
  <2> QED BY <1>4, <2>1, <2>2
<1>6. "RUNNING" \in log' => "RUNNING" \in log
  <2>1. PanicMarks[said + 1] # "RUNNING"
    BY <1>1, <1>4 DEF PanicMarks
  <2> QED BY <1>1, <2>1
<1>7. Announced' /\ Settled'
  BY <1>1, <1>2, <1>6 DEF TInv, Announced, Settled
<1>8. VerdictTruthfulUnlessNmi'
  <2>1. result = "none"
    BY <1>1 DEF TInv, Settled
  <2> QED BY <1>1, <2>1 DEF VerdictTruthfulUnlessNmi
<1> QED
  BY <1>3, <1>5, <1>7, <1>8 DEF TInv

\* The machine goes off with its log as it stands.
LEMMA OffKeepsKernel ==
    ASSUME KInv, PowerOff
    PROVE  KInv'
<1>1. /\ cpu' = "off" /\ IF_flag' = FALSE
      /\ irr' = [c \in Chip |-> {}] /\ isr' = [c \in Chip |-> {}]
      /\ UNCHANGED <<imr, vector, handlers, real, ticks, isr_test_hits>>
      /\ UNCHANGED <<pc, env, gdt, idtr, hits_before, t0, end>>
  BY DEF PowerOff, counters, trace, kvars, tables
<1>2. ServiceInv'
  BY <1>1 DEF KInv, ServiceInv, ChipTypes, Quiescent, Chip
<1>3. KTypes' /\ Armed'
  BY <1>1 DEF KInv, KTypes, Armed
<1>4. Masked' /\ Tested'
  BY <1>1 DEF KInv, Masked, Tested
<1>5. Timed' /\ Justified'
  BY <1>1 DEF KInv, Timed, Justified, Chip
<1> QED
  BY <1>2, <1>3, <1>4, <1>5 DEF KInv

LEMMA OffKeepsMarks ==
    ASSUME TInv, PowerOff
    PROVE  KInv' /\ Marks' /\ Announced'
<1>1. cpu' = "off" /\ UNCHANGED <<vector, env, log, framed, said>>
  BY DEF PowerOff, kvars
<1>2. Marks' /\ Announced'
  BY <1>1 DEF TInv, Marks, Announced, FrameCause, BareCause
<1> QED
  BY <1>2, OffKeepsKernel DEF TInv

\* QEMU exits, or the loop gives up: nothing is claimed.
LEMMA ExitTest ==
    ASSUME TInv, Exit \/ Poll
    PROVE  TInv'
<1>1. CASE Exit
  <2>1. /\ cpu # "off" /\ cpu' = "off"
        /\ UNCHANGED <<vector, env, log, framed, said, expect, hpc, result>>
    BY <1>1 DEF Exit, PowerOff, kvars, harness
  <2>2. Settled' /\ VerdictTruthfulUnlessNmi'
    BY <2>1 DEF TInv, Settled, VerdictTruthfulUnlessNmi, PanicSeen
  <2> QED BY <1>1, <2>2, OffKeepsMarks DEF TInv, Exit
<1>2. CASE Poll
  <2>1. hpc = "poll" /\ expect' = expect /\ result = "none"
    BY <1>2 DEF Poll, TInv, Settled
  <2>2. ASSUME NEW r \in {"TIMEOUT", "QEMU_EXITED"}, Finish(r)
        PROVE  TInv'
    <3>1. hpc' = "done" /\ result' \in {"TIMEOUT", "QEMU_EXITED"} /\ cpu' = "off"
      BY <2>2 DEF Finish, PowerOff
    <3>2. Settled' /\ VerdictTruthfulUnlessNmi'
      BY <2>1, <3>1 DEF TInv, Settled, VerdictTruthfulUnlessNmi
    <3> QED BY <2>2, <3>2, OffKeepsMarks DEF TInv, Finish
  <2>3. CASE hpc' = "read" /\ UNCHANGED <<guest, result>>
    <3>1. UNCHANGED <<vars, log, framed, said, result>>
      BY <2>3 DEF guest
    <3>2. UNCHANGED <<cpu, vector, env>>
      BY <3>1 DEF vars, ivars, gate, kvars
    <3>3. KInv'
      BY <3>1, KernelInductive DEF TInv
    <3>4. Marks' /\ Announced'
      BY <3>1, <3>2 DEF TInv, Marks, Announced, FrameCause, BareCause
    <3>5. Settled' /\ VerdictTruthfulUnlessNmi'
      BY <2>1, <2>3, <3>1 DEF TInv, Settled, VerdictTruthfulUnlessNmi
    <3> QED BY <3>3, <3>4, <3>5 DEF TInv
  <2> QED BY <1>2, <2>2, <2>3 DEF Poll
<1> QED BY <1>1, <1>2

\* A verdict is read off a log that can only have been written for the reason
\* it states.
LEMMA ReadLogTest ==
    ASSUME TInv, ReadLog
    PROVE  TInv'
<1>1. hpc = "read" /\ expect' = expect /\ result = "none" /\ expect \in BOOLEAN
  BY DEF ReadLog, TInv, Settled
<1>2. CASE hpc' = "poll" /\ UNCHANGED <<guest, result>>
  <2>1. UNCHANGED <<vars, log, framed, said, result>>
    BY <1>2 DEF guest
  <2>2. UNCHANGED <<cpu, vector, env>>
    BY <2>1 DEF vars, ivars, gate, kvars
  <2>3. KInv'
    BY <2>1, KernelInductive DEF TInv
  <2>4. Marks' /\ Announced'
    BY <2>1, <2>2 DEF TInv, Marks, Announced, FrameCause, BareCause
  <2>5. Settled' /\ VerdictTruthfulUnlessNmi'
    BY <1>1, <1>2, <2>1 DEF TInv, Settled, VerdictTruthfulUnlessNmi, PanicSeen
  <2> QED BY <2>3, <2>4, <2>5 DEF TInv
<1>3. CASE Verdict # "none" /\ Finish(Verdict)
  <2>1. /\ hpc' = "done" /\ result' = Verdict /\ cpu' = "off"
        /\ UNCHANGED <<vector, env, log, framed, said>>
    BY <1>3 DEF Finish, PowerOff, kvars
  <2>2. Verdict = "PASS" /\ expect =>
          /\ framed /\ {"PANIC", "RIP=", "CR0=", "HALTED"} \subseteq log /\ FrameCause
          /\ "RUNNING" \notin log
    <3>1. Verdict = "PASS" /\ expect =>
            {"PANIC", "RIP=", "CR0=", "HALTED"} \subseteq log /\ "RUNNING" \notin log
      BY DEF Verdict
    <3> QED BY <3>1 DEF TInv, Marks
  <2>3. Verdict = "PASS" /\ ~expect =>
          "RUNNING" \in log /\ (PanicSeen => framed /\ vector = 2)
    <3>1. Verdict = "PASS" /\ ~expect => "RUNNING" \in log
      BY DEF Verdict
    <3>2. PanicSeen => said > 0
      BY DEF TInv, Marks, PanicSeen
    <3>3. "RUNNING" \in log => ~BareCause /\ env.build # "fault"
      BY DEF TInv, Announced, BareCause
    <3>4. said > 0 => framed \/ BareCause
      BY DEF TInv, Marks
    <3>5. framed /\ env.build # "fault" => vector = 2
      BY DEF TInv, Marks, FrameCause
    <3> QED BY <3>1, <3>2, <3>3, <3>4, <3>5
  <2>4. Verdict = "FAIL" /\ expect => env.build = "normal" \/ BareCause
    <3>1. Verdict = "FAIL" /\ expect =>
            \/ "RUNNING" \in log
            \/ {"PANIC", "HALTED"} \subseteq log /\ ~({"RIP=", "CR0="} \subseteq log)
      BY DEF Verdict
    <3>2. {"PANIC", "HALTED"} \subseteq log /\ ~({"RIP=", "CR0="} \subseteq log) =>
            ~framed /\ said > 0
      BY DEF TInv, Marks
    <3> QED BY <3>1, <3>2 DEF TInv, Marks, Announced
  <2>5. Verdict = "FAIL" /\ ~expect => FrameCause \/ BareCause
    <3>1. Verdict = "FAIL" /\ ~expect => PanicSeen
      BY DEF Verdict
    <3>2. PanicSeen => said > 0
      BY DEF TInv, Marks, PanicSeen
    <3> QED BY <3>1, <3>2 DEF TInv, Marks
  <2>6. VerdictTruthfulUnlessNmi'
    BY <1>1, <2>1, <2>2, <2>3, <2>4, <2>5
       DEF TInv, Announced, VerdictTruthfulUnlessNmi, PanicSeen, FrameCause, BareCause
  <2>7. Settled'
    BY <1>1, <2>1 DEF TInv, Settled
  <2> QED BY <1>3, <2>6, <2>7, OffKeepsMarks DEF TInv, Finish
<1> QED
  BY <1>2, <1>3 DEF ReadLog

LEMMA TestInductive ==
    ASSUME TInv, [TestNext]_allvars
    PROVE  TInv'
<1>1. CASE TestNext
  BY <1>1, GuestStepTest, PrintMarkTest, ExitTest, ReadLogTest DEF TestNext
<1>2. CASE UNCHANGED allvars
  <2>1. UNCHANGED <<vars, log, framed, said, expect, hpc, result>>
    BY <1>2 DEF allvars, guest, harness
  <2>2. UNCHANGED <<cpu, vector, env>>
    BY <2>1 DEF vars, ivars, gate, kvars
  <2>3. KInv'
    BY <2>1, KernelInductive DEF TInv
  <2>4. Marks' /\ Announced'
    BY <2>1, <2>2 DEF TInv, Marks, Announced, FrameCause, BareCause
  <2>5. Settled' /\ VerdictTruthfulUnlessNmi'
    BY <2>1, <2>2 DEF TInv, Settled, VerdictTruthfulUnlessNmi, PanicSeen
  <2> QED BY <2>3, <2>4, <2>5 DEF TInv
<1> QED BY <1>1, <1>2

\* Whenever the serial log is read, the harness's verdict is about what the
\* kernel did: a PASS was earned, a FAIL has a cause, and a PASS with a panic
\* in the log means that an NMI struck after RUNNING (boot_test.py:10, :126).
THEOREM VerdictIsTruthful == TestSpec => []VerdictTruthfulUnlessNmi
<1>1. TInv => VerdictTruthfulUnlessNmi
  BY DEF TInv
<1> QED
  BY <1>1, TestStarts, TestInductive, PTL DEF TestSpec

================================================================================
