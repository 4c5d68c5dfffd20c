------------------------------- MODULE MCBootTest -------------------------------
(* kmain and the boot test on good machines and on machines with one thing
   wrong. *)
EXTENDS BootTest

GoodEnv == [bi |-> "ok", pmm |-> "ok", timer |-> "alive", build |-> "normal"]
MCEnvironments ==
    {GoodEnv}
    \union {[GoodEnv EXCEPT !.bi = b] : b \in {"null", "magic", "major", "short"}}
    \union {[GoodEnv EXCEPT !.pmm = m] : m \in {"no_memory", "no_room", "selftest"}}
    \union {[GoodEnv EXCEPT !.timer = "dead"], [GoodEnv EXCEPT !.build = "fault"]}
MCGood == {GoodEnv}

================================================================================
