---------------------------------- MODULE Kmain ----------------------------------
(***************************************************************************)
(* kernel/main.c, arch/x86_64/entry.S and gdt.c: from the loader's jump to *)
(* the idle loop, on top of Interrupts.  Steps that only print are merged  *)
(* with their neighbours; the allocator and the framebuffer console are    *)
(* outcomes here (Boot and Console model them), because nothing they do    *)
(* depends on interrupts.  An NMI that finds no usable gate leaves the     *)
(* processor "stuck": in the firmware's handler, or with no handler at     *)
(* all.  A machine that has been switched off is "off".                    *)
(***************************************************************************)
EXTENDS Interrupts

CONSTANTS
    Environments,  \* the machines the kernel may find itself on
    SleepTicks,    \* 25 in the source
    EarlyTicks     \* bound: ticks between sti and the start of the sleep

ASSUME KmainAssumption ==
    /\ SleepTicks \in Nat \ {0} /\ EarlyTicks \in Nat
    /\ MaxTicks >= EarlyTicks + 1 + SleepTicks
    /\ MaxCount > 2

\* bi: what kmain finds wrong with the bootinfo; pmm: what pmm_init and the
\* self-test come to; timer: whether the PIT interrupts; build: whether
\* SYPAS_TEST_FAULT is defined.
Environment ==
    [bi : {"ok", "null", "magic", "major", "short"},
     pmm : {"ok", "no_memory", "no_room", "selftest"},
     timer : {"alive", "dead"}, build : {"normal", "fault"}]
ASSUME EnvironmentsAssumption == Environments \subseteq Environment

VARIABLES
    pc,
    env,
    gdt, idtr,     \* whose tables are loaded: "firmware" or "kernel"
    hits_before, t0,
    end            \* of sleep_ticks, -1 before it is called

tables == <<gdt, idtr>>
kvars == <<pc, env, tables, hits_before, t0, end>>
vars == <<ivars, kvars>>

--------------------------------------------------------------------------------
(* kmain, one step per line that matters; each needs the processor. *)

Goto(from, to) == pc = from /\ cpu = "run" /\ pc' = to
Quiet == UNCHANGED ivars

\* panic(): the failed step is where kmain stays.
Fail(at) == pc = at /\ cpu = "run" /\ Panic /\ UNCHANGED kvars

\* _kstart
Kstart ==
    /\ Goto("entry", "protocol")
    /\ IF_flag' = FALSE
    /\ UNCHANGED <<chips, cpu, vector, saved_if, handlers, counters, trace, env,
                   tables, hits_before, t0, end>>

CheckProtocol ==
    \/ /\ env.bi = "ok"
       /\ Goto("protocol", "gdt") /\ Quiet
       /\ UNCHANGED <<env, tables, hits_before, t0, end>>
    \/ env.bi # "ok" /\ Fail("protocol")

\* Mutant: the GDT is filled in and never loaded.
GdtFilled ==
    /\ Goto("gdt", "idt") /\ Quiet
    /\ UNCHANGED <<env, tables, hits_before, t0, end>>

\* lgdt and the reload of the segments.
gdt_init ==
    /\ Goto("gdt", "idt")
    /\ gdt' = "kernel"
    /\ Quiet /\ UNCHANGED <<env, idtr, hits_before, t0, end>>

\* 256 gates on the kernel's code segment, then lidt.
idt_init ==
    /\ Goto("idt", "pic")
    /\ idtr' = "kernel"
    /\ Quiet /\ UNCHANGED <<env, gdt, hits_before, t0, end>>

pic_init ==
    /\ Goto("pic", "memory")
    /\ irr' = [c \in Chip |-> {}] /\ isr' = [c \in Chip |-> {}]
    /\ imr' = [c \in Chip |-> 0 .. 7]
    /\ intr' = FALSE
    /\ UNCHANGED <<gate, handlers, counters, trace, env, tables, hits_before, t0,
                   end>>

\* Mutant: the self-test's verdict is ignored.
MemoryUnchecked ==
    /\ Goto("memory", "int_1")
    /\ hits_before' = isr_test_hits
    /\ Quiet /\ UNCHANGED <<env, tables, t0, end>>

\* pmm_init and pmm_selftest, then the framebuffer, which may be absent.
InitMemory ==
    \/ /\ env.pmm = "ok"
       /\ Goto("memory", "int_1")
       /\ hits_before' = isr_test_hits
       /\ Quiet /\ UNCHANGED <<env, tables, t0, end>>
    \/ env.pmm # "ok" /\ Fail("memory")

TestInterrupt ==
    /\ Goto("int_1", "int_2") \/ Goto("int_2", "hits")
    /\ SoftwareInt(SYPAS_TEST_VECTOR)
    /\ UNCHANGED <<env, tables, hits_before, t0, end>>

CheckHits ==
    IF isr_test_hits = hits_before + 2
    THEN /\ Goto("hits", "pit") /\ Quiet
         /\ UNCHANGED <<env, tables, hits_before, t0, end>>
    ELSE Fail("hits")

\* Mutant: the handler is installed and its line left masked.
PitMasked ==
    /\ Goto("pit", "sti")
    /\ handlers' = handlers \union {0}
    /\ UNCHANGED <<chips, gate, counters, trace, env, tables, hits_before,
                   t0, end>>

PitInit ==
    /\ Goto("pit", "sti")
    /\ Enable(0)
    /\ UNCHANGED <<env, tables, hits_before, t0, end>>

EnableInterrupts ==
    /\ Goto("sti", "t0")
    /\ Sti
    /\ UNCHANGED <<env, tables, hits_before, t0, end>>

ReadT0 ==
    /\ Goto("t0", "sleep")
    /\ t0' = ticks
    /\ Quiet /\ UNCHANGED <<env, tables, hits_before, end>>

\* sleep_ticks: the end of the sleep, the test, and hlt are three
\* instructions between which the timer may interrupt.
SleepStart ==
    /\ Goto("sleep", "test")
    /\ end' = ticks + SleepTicks
    /\ Quiet /\ UNCHANGED <<env, tables, hits_before, t0>>

SleepTest ==
    /\ Goto("test", IF ticks < end THEN "hlt" ELSE "delta")
    /\ Quiet /\ UNCHANGED <<env, tables, hits_before, t0, end>>

\* Mutant: sleep_ticks tests once instead of in a loop.
HltOnce ==
    /\ Goto("hlt", "delta")
    /\ Hlt
    /\ UNCHANGED <<env, tables, hits_before, t0, end>>

SleepHlt ==
    /\ Goto("hlt", "test")
    /\ Hlt
    /\ UNCHANGED <<env, tables, hits_before, t0, end>>

\* The timer check, then the banner and "SYSTEM STATUS: RUNNING", or the
\* fault the test build injects.
CheckDelta ==
    IF ticks - t0 >= SleepTicks
    THEN /\ Goto("delta", IF env.build = "fault" THEN "ud2" ELSE "idle") /\ Quiet
         /\ UNCHANGED <<env, tables, hits_before, t0, end>>
    ELSE Fail("delta")

\* ud2: exception 6 through its gate.
InjectFault ==
    /\ Goto("ud2", "ud2")
    /\ SoftwareInt(6)
    /\ UNCHANGED <<env, tables, hits_before, t0, end>>

Idle ==
    /\ Goto("idle", "idle")
    /\ Hlt
    /\ UNCHANGED <<env, tables, hits_before, t0, end>>

Mainline ==
    \/ Kstart \/ CheckProtocol \/ gdt_init \/ idt_init \/ pic_init \/ InitMemory
    \/ TestInterrupt \/ CheckHits \/ PitInit \/ EnableInterrupts \/ ReadT0
    \/ SleepStart \/ SleepTest \/ SleepHlt \/ CheckDelta \/ InjectFault \/ Idle

--------------------------------------------------------------------------------
\* Nothing the lines do matters any more.
Stopped == cpu \in {"panic", "stuck", "off"}

\* The PIT's next period, on a machine where it works.
Tick ==
    /\ env.timer = "alive" /\ ~Stopped
    /\ end = -1 => ticks < EarlyTicks
    /\ Raise(0)
    /\ UNCHANGED kvars

\* The kernel's gates name the code segment of the kernel's GDT.
Gated == idtr = "kernel" /\ gdt = "kernel"

Stuck ==
    /\ cpu' = "stuck" /\ IF_flag' = FALSE
    /\ UNCHANGED <<chips, vector, saved_if, handlers, counters, trace>>

\* Interrupt entry and exit, noise on the other lines, and NMI.
Hardware ==
    /\ ~Stopped
    /\ \/ \E irq \in Devices \ {0} : Raise(irq) \/ Drop(irq)
       \/ MasterRequest \/ SlaveRequest \/ isr_dispatch
       \/ Gated /\ (TakeIrq \/ TakeNmi)
       \/ ~Gated /\ cpu = "run" /\ Stuck
    /\ UNCHANGED kvars

\* The firmware leaves its own lines unmasked.
Init ==
    /\ irr = [c \in Chip |-> {}] /\ isr = [c \in Chip |-> {}]
    /\ imr = [c \in Chip |-> {}] /\ intr = FALSE
    /\ IF_flag = FALSE /\ cpu = "run" /\ vector = 0 /\ saved_if = FALSE
    /\ handlers = {}
    /\ ticks = 0 /\ spurious_irqs = 0 /\ isr_test_hits = 0
    /\ eois = {} /\ ran = -1 /\ real = FALSE
    /\ pc = "entry" /\ env \in Environments /\ gdt = "firmware" /\ idtr = "firmware"
    /\ hits_before = 0 /\ t0 = 0 /\ end = -1

Halted == Stopped /\ UNCHANGED vars

Next == Mainline \/ Tick \/ Hardware \/ Halted

Spec == Init /\ [][Next]_vars

\* The processor executes kmain and its handlers (the timer period is far
\* longer than a handler, so interrupts do not starve kmain), the chips pass
\* requests on, and a working PIT keeps ticking.
KernelFairness ==
    /\ SF_vars(Mainline) /\ SF_vars(Gated /\ TakeIrq /\ UNCHANGED kvars)
    /\ WF_vars(isr_dispatch /\ UNCHANGED kvars)
    /\ WF_vars(~Stopped /\ MasterRequest /\ UNCHANGED kvars)
    /\ WF_vars(Tick)

--------------------------------------------------------------------------------
(* Properties *)

\* main.c:4: "every status line printed below corresponds to a subsystem that
\* really initialized (or a check that really ran)": with RUNNING on the
\* console, the bootinfo was good, the allocator passed, both test
\* interrupts were dispatched and the timer delivered its ticks.  And kmain
\* panics only on a machine that gives it a reason, or on an NMI: the
\* self-tests raise no false alarm.
ChecksHonest ==
    /\ pc = "idle" =>
         /\ env.bi = "ok" /\ env.pmm = "ok" /\ env.timer = "alive"
         /\ isr_test_hits >= 2 /\ ticks >= t0 + SleepTicks
         /\ 0 \in handlers
    /\ cpu = "panic" =>
         \/ env.bi # "ok" \/ env.pmm # "ok" \/ vector = 2
         \/ env.build = "fault" /\ vector = 6

\* "exceptions armed" (main.c:154): from lidt on, whatever strikes between
\* two instructions of the bring-up finds a gate on a valid segment, and an
\* interrupt a handler: no IRQ the firmware left open comes through.
NothingStrikesUnarmed ==
    /\ cpu = "stuck" => idtr = "firmware"
    /\ cpu = "isr" /\ IsIrq(vector) /\ real => vector - 32 \in handlers

\* When the kernel comes up.  On a machine with a working timer that stays on,
\* and with no NMI before the tables are loaded, it comes up or panics; the
\* test and the hlt of sleep_ticks are not atomic, and a tick between them only
\* delays the wake-up.  Without timer interrupts it stays in sleep_ticks for
\* good, unless an earlier check or an NMI stops it: the check of delta that
\* should panic comes after the loop that needs the ticks.  docs/kernel.md:51
\* ("A kernel that cannot demonstrate interrupt delivery panics rather than
\* printing "Interrupts: OK"") expects cpu = "panic" here.
ComesUpUnlessDead ==
    /\ env.timer = "alive" ~> pc = "idle" \/ Stopped
    /\ env.timer = "dead" ~> Stopped \/ [](pc \in {"test", "hlt"})

================================================================================
