-------------------------------- MODULE BootTest --------------------------------
(***************************************************************************)
(* tests/boot/boot_test.py: run_one, polling the serial log of a guest     *)
(* that runs Kmain.                                                        *)
(*                                                                         *)
(* The log is the set of the marks written to it so far; the guest writes  *)
(* while the harness polls, and QEMU may exit at any moment.  A panic in a *)
(* panic (Console) is left out.  What the firmware and the loader print    *)
(* holds no mark.                                                          *)
(***************************************************************************)
EXTENDS Kmain, Sequences

VARIABLES
    log,       \* marks in the serial log
    framed,    \* the panic has an interrupt frame to dump
    said,      \* marks of the panic written so far
    expect,    \* args.expect_panic
    hpc,       \* the harness: "poll", "read", "done"
    result

guest == <<vars, log, framed, said>>
harness == <<expect, hpc, result>>
allvars == <<guest, harness>>

--------------------------------------------------------------------------------
(* The guest *)

\* A step of the kernel; RUNNING is the last thing it prints before idling,
\* and a panic from isr_dispatch is panic_with_frame.
GuestStep ==
    /\ Next
    /\ log' = IF pc # "idle" /\ pc' = "idle" THEN log \union {"RUNNING"} ELSE log
    /\ framed' = IF cpu # "panic" /\ cpu' = "panic" THEN cpu = "isr" ELSE framed
    /\ UNCHANGED <<said, harness>>

\* What panic and panic_with_frame print, in order.
PanicMarks ==
    IF framed THEN <<"PANIC", "RIP=", "CR0=", "HALTED">> ELSE <<"PANIC", "HALTED">>

PrintMark ==
    /\ cpu = "panic" /\ said < Len(PanicMarks)
    /\ log' = log \union {PanicMarks[said + 1]}
    /\ said' = said + 1
    /\ UNCHANGED <<vars, framed, harness>>

\* The machine is gone.
PowerOff ==
    /\ cpu' = "off" /\ IF_flag' = FALSE
    /\ irr' = [c \in Chip |-> {}] /\ isr' = [c \in Chip |-> {}] /\ intr' = FALSE
    /\ UNCHANGED <<imr, vector, saved_if, handlers, counters, trace, kvars, log,
                   framed, said>>

\* QEMU exits on its own: it crashes, or the guest resets under -no-reboot.
Exit == cpu # "off" /\ PowerOff /\ UNCHANGED harness

--------------------------------------------------------------------------------
(* run_one *)

\* The loop ends; proc.terminate().
Finish(r) == hpc' = "done" /\ result' = r /\ PowerOff

\* The loop's condition, which the timeout may end, and proc.poll().
Poll ==
    /\ hpc = "poll"
    /\ \/ Finish("TIMEOUT")
       \/ cpu = "off" /\ Finish("QEMU_EXITED")
       \/ cpu # "off" /\ hpc' = "read" /\ UNCHANGED <<guest, result>>
    /\ UNCHANGED expect

\* FAIL_MARKS, as far as the kernel writes them.
PanicSeen == {"PANIC", "HALTED"} \intersect log # {}

\* Mutant: a panic is judged as soon as its banner is there.
VerdictEarly ==
    IF expect
    THEN IF "RUNNING" \in log THEN "FAIL"
         ELSE IF "PANIC" \in log
         THEN IF {"RIP=", "CR0="} \subseteq log THEN "PASS" ELSE "FAIL"
         ELSE "none"
    ELSE IF "RUNNING" \in log THEN "PASS"
         ELSE IF "PANIC" \in log THEN "FAIL" ELSE "none"

\* What the log read says.
Verdict ==
    CASE expect /\ "RUNNING" \in log -> "FAIL"
      [] expect /\ "RUNNING" \notin log /\ {"PANIC", "HALTED"} \subseteq log ->
           IF {"RIP=", "CR0="} \subseteq log THEN "PASS" ELSE "FAIL"
      [] ~expect /\ "RUNNING" \in log -> "PASS"
      [] ~expect /\ "RUNNING" \notin log /\ PanicSeen -> "FAIL"
      [] OTHER -> "none"

ReadLog ==
    /\ hpc = "read"
    /\ IF Verdict = "none"
       THEN hpc' = "poll" /\ UNCHANGED <<guest, result>>
       ELSE Finish(Verdict)
    /\ UNCHANGED expect

TestInit ==
    /\ Init
    /\ log = {} /\ framed = FALSE /\ said = 0
    /\ expect \in BOOLEAN /\ hpc = "poll" /\ result = "none"

TestNext == GuestStep \/ PrintMark \/ Exit \/ Poll \/ ReadLog

TestSpec == TestInit /\ [][TestNext]_allvars /\ KernelFairness

--------------------------------------------------------------------------------
(* Properties *)

\* What a verdict says of the kernel that ran, at whatever moment the log was
\* read (boot_test.py:10).  PASS means that it verified itself and announced
\* RUNNING, or in --expect-panic mode that it dumped its registers and halted
\* and never announced RUNNING; FAIL is never the fault of a log that was read
\* half-way.  A PASS with a panic in the log, which PanicFails forbids, takes
\* an NMI after RUNNING: a failed check or the injected fault never passes.
VerdictTruthfulUnlessNmi ==
    /\ result = "PASS" =>
         IF expect
         THEN /\ framed /\ {"PANIC", "RIP=", "CR0=", "HALTED"} \subseteq log
              /\ "RUNNING" \notin log /\ (env.build = "fault" \/ vector = 2)
         ELSE /\ "RUNNING" \in log /\ env.build = "normal" /\ env.bi = "ok"
              /\ env.pmm = "ok" /\ env.timer = "alive"
              /\ PanicSeen => framed /\ vector = 2
    /\ result = "FAIL" =>
         \/ env.bi # "ok" \/ env.pmm # "ok"
         \/ IF expect THEN env.build = "normal" ELSE env.build = "fault" \/ vector = 2

\* boot_test.py:12: "FAIL on "SYPAS KERNEL PANIC"", and docs/testing.md:37:
\* "FAIL on `SYPAS KERNEL PANIC`, `SYPAS loader error`, `SYSTEM STATUS: HALTED`":
\* in normal mode a transcript with a panic in it does not pass.  run_one looks
\* for RUNNING first, so it does when the kernel panics between announcing
\* RUNNING and the next time the log is read.
PanicFails == result = "PASS" /\ ~expect => ~PanicSeen

================================================================================
