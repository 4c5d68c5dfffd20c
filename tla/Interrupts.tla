------------------------------- MODULE Interrupts -------------------------------
(***************************************************************************)
(* kernel/arch/x86_64/{idt,pic,pit}.c and isr.S: from a device's line      *)
(* through the two 8259As and isr_dispatch to the handler, and back.       *)
(*                                                                         *)
(* The chips (external) hold request, in-service and mask registers.  The  *)
(* processor is told of a request before it acknowledges it; a line that   *)
(* drops in between makes the chip answer with its lowest vector and no    *)
(* in-service bit.  The gates are interrupt gates, so handlers run with    *)
(* interrupts off; one dispatch, from isr_common's pushes to iretq, is one *)
(* step.                                                                   *)
(***************************************************************************)
EXTENDS Integers, FiniteSetsExt

CONSTANTS
    Devices,    \* IRQ lines that have a device on them
    MaxTicks,   \* bound: the tick counter stops counting here
    MaxCount    \* bound on the counters of spurious and test interrupts

ASSUME InterruptAssumption ==
    /\ Devices \subseteq 0 .. 15 /\ MaxTicks \in Nat /\ MaxCount \in Nat

Chip == {"master", "slave"}
ChipOf(irq) == IF irq < 8 THEN "master" ELSE "slave"
Bit(irq) == irq % 8
Cascade == 2             \* the slave's line into the master
SYPAS_TEST_VECTOR == 240

VARIABLES
    irr, isr, imr,   \* per chip: requested, in-service, masked bits
    intr,            \* the processor has been told of a request
    IF_flag,         \* interrupts enabled
    cpu,             \* "run", "hlt", "isr" (a gate was taken), "panic"
    vector,          \* the vector being dispatched
    saved_if,        \* the interrupt flag in its frame
    handlers,        \* IRQs with a handler installed
    ticks, spurious_irqs, isr_test_hits,
    eois,            \* chips the last dispatch sent an EOI to
    ran,             \* IRQ whose handler the last dispatch ran, -1 for none
    real             \* the vector being dispatched has an in-service bit

chips == <<irr, isr, imr, intr>>
counters == <<ticks, spurious_irqs, isr_test_hits>>
trace == <<eois, ran, real>>
gate == <<IF_flag, cpu, vector, saved_if>>
ivars == <<chips, gate, handlers, counters, trace>>

Sat(n, bound) == IF n < bound THEN n + 1 ELSE n

--------------------------------------------------------------------------------
(* The 8259As *)

Pending(c) == irr[c] \ imr[c]

\* Requests that may interrupt what is in service.
Deliverable(c) == {b \in Pending(c) : \A s \in isr[c] : b < s}

\* A device raises its line, or takes it back before it is acknowledged.
Raise(irq) ==
    /\ Bit(irq) \notin irr[ChipOf(irq)]
    /\ irr' = [irr EXCEPT ![ChipOf(irq)] = @ \union {Bit(irq)}]
    /\ UNCHANGED <<isr, imr, intr, gate, handlers, counters, trace>>

Drop(irq) ==
    /\ Bit(irq) \in irr[ChipOf(irq)]
    /\ irr' = [irr EXCEPT ![ChipOf(irq)] = @ \ {Bit(irq)}]
    /\ UNCHANGED <<isr, imr, intr, gate, handlers, counters, trace>>

\* The slave raises the master's cascade line; the master raises INTR.
SlaveRequest ==
    /\ Deliverable("slave") # {}
    /\ Cascade \notin irr["master"]
    /\ irr' = [irr EXCEPT !["master"] = @ \union {Cascade}]
    /\ UNCHANGED <<isr, imr, intr, gate, handlers, counters, trace>>

MasterRequest ==
    /\ Deliverable("master") # {}
    /\ ~intr
    /\ intr' = TRUE
    /\ UNCHANGED <<irr, isr, imr, gate, handlers, counters, trace>>

\* Every vector has an entry stub of its own, which pushes its number: the
\* vector isr_dispatch reads in the frame.
isr_stub(v) == vector' = v

\* What the chips do when the processor acknowledges: the new registers and
\* the vector.  Vectors 39 and 47 without an in-service bit are spurious.
Acknowledged ==
    LET top(c) == Min(Deliverable(c))
        take(c) == /\ irr' = [irr EXCEPT ![c] = @ \ {top(c)}]
                   /\ isr' = [isr EXCEPT ![c] = @ \union {top(c)}]
    IN  IF Deliverable("master") = {}
        THEN isr_stub(39) /\ real' = FALSE /\ UNCHANGED <<irr, isr>>
        ELSE IF top("master") # Cascade
        THEN isr_stub(32 + top("master")) /\ real' = TRUE /\ take("master")
        ELSE IF Deliverable("slave") = {}
        THEN isr_stub(47) /\ real' = FALSE /\ take("master")
        ELSE /\ isr_stub(40 + top("slave")) /\ real' = TRUE
             /\ irr' = [master |-> irr["master"] \ {Cascade},
                        slave |-> irr["slave"] \ {top("slave")}]
             /\ isr' = [master |-> isr["master"] \union {Cascade},
                        slave |-> isr["slave"] \union {top("slave")}]

EnterGate == cpu' = "isr" /\ IF_flag' = FALSE /\ saved_if' = IF_flag

\* The processor takes the interrupt; the gate turns interrupts off.
TakeIrq ==
    /\ intr /\ IF_flag /\ cpu \in {"run", "hlt"}
    /\ Acknowledged
    /\ intr' = FALSE
    /\ EnterGate
    /\ UNCHANGED <<imr, handlers, counters, eois, ran>>

\* NMI: vector 2, whatever the interrupt flag says, also on entry to another
\* handler.
TakeNmi ==
    /\ cpu # "panic"
    /\ isr_stub(2)
    /\ EnterGate
    /\ real' = FALSE
    /\ UNCHANGED <<chips, handlers, counters, eois, ran>>

\* A non-specific EOI ends the highest-priority interrupt in service.
Ended(s) == IF s = {} THEN {} ELSE s \ {Min(s)}
Eoi(targets) ==
    /\ isr' = [c \in Chip |-> IF c \in targets THEN Ended(isr[c]) ELSE isr[c]]
    /\ eois' = targets

\* The kernel executes int $v.
SoftwareInt(v) ==
    /\ cpu = "run"
    /\ isr_stub(v)
    /\ EnterGate
    /\ real' = FALSE
    /\ UNCHANGED <<chips, handlers, counters, eois, ran>>

--------------------------------------------------------------------------------
(* isr_dispatch *)

Iret == cpu' = "run" /\ IF_flag' = saved_if /\ UNCHANGED <<vector, saved_if>>

\* panic and panic_with_frame: cli, report, halt for good.
Panic ==
    /\ cpu' = "panic" /\ IF_flag' = FALSE
    /\ UNCHANGED <<chips, vector, saved_if, handlers, counters, trace>>

\* Mutant: in-service bits are not looked at.
NeverSpurious(irq) == FALSE

\* pic_handle_spurious: IRQ7 or IRQ15 without its in-service bit.
Spurious(irq) == irq \in {7, 15} /\ 7 \notin isr[ChipOf(irq)]

\* Mutants: no EOI for a spurious IRQ15; an EOI for a spurious IRQ7.
SpuriousNoEoi(irq) ==
    /\ Spurious(irq)
    /\ spurious_irqs' = Sat(spurious_irqs, MaxCount)
    /\ Eoi({}) /\ ran' = -1 /\ Iret
    /\ UNCHANGED <<irr, imr, intr, handlers, ticks, isr_test_hits, real>>

SpuriousMasterEoi(irq) ==
    /\ Spurious(irq)
    /\ spurious_irqs' = Sat(spurious_irqs, MaxCount)
    /\ Eoi({"master"}) /\ ran' = -1 /\ Iret
    /\ UNCHANGED <<irr, imr, intr, handlers, ticks, isr_test_hits, real>>

DispatchSpurious(irq) ==
    /\ Spurious(irq)
    /\ spurious_irqs' = Sat(spurious_irqs, MaxCount)
    /\ Eoi(IF irq = 15 THEN {"master"} ELSE {})
    /\ ran' = -1
    /\ Iret
    /\ UNCHANGED <<irr, imr, intr, handlers, ticks, isr_test_hits, real>>

\* Mutant: a handler that runs is trusted to have sent the EOI itself.
IrqHandlerEoi(irq) ==
    /\ ~Spurious(irq)
    /\ ran' = IF irq \in handlers THEN irq ELSE -1
    /\ ticks' = IF irq = 0 /\ 0 \in handlers THEN Sat(ticks, MaxTicks) ELSE ticks
    /\ Eoi(IF irq \in handlers THEN {} ELSE {"master"})
    /\ Iret
    /\ UNCHANGED <<irr, imr, intr, handlers, spurious_irqs, isr_test_hits, real>>

\* The handler, if there is one (pit_irq counts a tick), then pic_send_eoi.
DispatchIrq(irq) ==
    /\ ~Spurious(irq)
    /\ ran' = IF irq \in handlers THEN irq ELSE -1
    /\ ticks' = IF irq = 0 /\ 0 \in handlers THEN Sat(ticks, MaxTicks) ELSE ticks
    /\ Eoi(IF irq >= 8 THEN {"master", "slave"} ELSE {"master"})
    /\ Iret
    /\ UNCHANGED <<irr, imr, intr, handlers, spurious_irqs, isr_test_hits, real>>

DispatchTest ==
    /\ isr_test_hits' = Sat(isr_test_hits, MaxCount)
    /\ eois' = {} /\ ran' = -1
    /\ Iret
    /\ UNCHANGED <<chips, handlers, ticks, spurious_irqs, real>>

IsIrq(v) == 32 <= v /\ v < 48

isr_dispatch ==
    /\ cpu = "isr"
    /\ \/ IsIrq(vector) /\ DispatchSpurious(vector - 32)
       \/ IsIrq(vector) /\ DispatchIrq(vector - 32)
       \/ vector = SYPAS_TEST_VECTOR /\ DispatchTest
       \/ ~IsIrq(vector) /\ vector # SYPAS_TEST_VECTOR /\ Panic

--------------------------------------------------------------------------------
(* What the rest of the kernel calls *)

\* pic_init's final state: nothing requested or in service, all masked.
PicReset ==
    /\ irr = [c \in Chip |-> {}] /\ isr = [c \in Chip |-> {}]
    /\ imr = [c \in Chip |-> 0 .. 7]
    /\ intr = FALSE

Unmasked(irq) ==
    IF irq < 8 THEN [imr EXCEPT !["master"] = @ \ {Bit(irq)}]
    ELSE [master |-> imr["master"] \ {Cascade},
          slave |-> imr["slave"] \ {Bit(irq)}]

\* irq_install, then pic_unmask.
Enable(irq) ==
    /\ cpu = "run"
    /\ handlers' = handlers \union {irq}
    /\ imr' = Unmasked(irq)
    /\ UNCHANGED <<irr, isr, intr, gate, counters, trace>>

Sti ==
    /\ cpu = "run"
    /\ IF_flag' = TRUE
    /\ UNCHANGED <<chips, cpu, vector, saved_if, handlers, counters, trace>>

Hlt ==
    /\ cpu = "run"
    /\ cpu' = "hlt"
    /\ UNCHANGED <<chips, IF_flag, vector, saved_if, handlers, counters, trace>>

--------------------------------------------------------------------------------
(* A kernel whose drivers use that interface in any order. *)

IInit ==
    /\ PicReset
    /\ IF_flag = FALSE /\ cpu = "run" /\ vector = 0 /\ saved_if = FALSE
    /\ handlers = {}
    /\ ticks = 0 /\ spurious_irqs = 0 /\ isr_test_hits = 0
    /\ eois = {} /\ ran = -1 /\ real = FALSE

\* The PIT keeps its line high until the interrupt is taken; others may not.
Line ==
    \/ \E irq \in Devices : Raise(irq)
    \/ \E irq \in Devices \ {0} : Drop(irq)
    \/ SlaveRequest \/ MasterRequest

DriverStep ==
    \/ \E irq \in Devices \ handlers : Enable(irq)
    \/ ~IF_flag /\ Sti
    \/ IF_flag /\ Hlt
    \/ SoftwareInt(SYPAS_TEST_VECTOR)

INext == Line \/ TakeIrq \/ TakeNmi \/ isr_dispatch \/ DriverStep

ISpec == IInit /\ [][INext]_ivars

\* The chips pass requests on and handlers run to their end.  The processor
\* looks at INTR at every instruction boundary, so interrupts that are
\* enabled again and again are taken.
IFairSpec ==
    /\ ISpec
    /\ WF_ivars(MasterRequest) /\ WF_ivars(SlaveRequest)
    /\ SF_ivars(TakeIrq) /\ WF_ivars(isr_dispatch)

--------------------------------------------------------------------------------
(* Properties *)

\* However lines rise and drop, a dispatch leaves nothing in service on
\* either chip, so no IRQ is blocked for good: the rule behind the
\* asymmetric EOIs of pic_handle_spurious (pic.c:72).
NothingLeftInService ==
    cpu \in {"run", "hlt"} => \A c \in Chip : isr[c] = {}

\* No EOI goes to a chip with nothing in service: "no EOI at all" for a
\* spurious IRQ7, "the MASTER only" for a spurious IRQ15 (pic.c:73).
EoiMatchesService ==
    [][cpu = "isr" /\ cpu' = "run" => \A c \in eois' : isr[c] # {}]_ivars

\* "A spurious vector must not reach a handler" (idt.c:93), and a real
\* interrupt with a handler always does.
HandlersRunExactlyForReal ==
    [][cpu = "isr" /\ cpu' = "run" =>
         (ran' # -1 <=> real /\ IsIrq(vector) /\ vector - 32 \in handlers)]_ivars

\* With interrupts on, an enabled timer interrupt is taken in the end,
\* whatever the other lines do, unless the kernel has panicked.
TimerServed ==
    (0 \in irr["master"] /\ 0 \in handlers /\ IF_flag)
        ~> (0 \notin irr["master"] \/ cpu = "panic")

================================================================================
