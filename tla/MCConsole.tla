------------------------------- MODULE MCConsole -------------------------------
(***************************************************************************)
(* Console on screens of two by two and two by three cells, and on the     *)
(* framebuffers that fbcon_init refuses.                                   *)
(***************************************************************************)
EXTENDS Console

Frame(f, b, w, h, p) ==
    [format |-> f, base |-> b, width |-> w, height |-> h, pitch32 |-> p]

MCFramebuffers ==
    {Frame("xrgb", "set", 6, 6, 6), Frame("xbgr", "set", 7, 9, 10),
     Frame("none", "null", 0, 0, 0), Frame("xrgb", "null", 6, 6, 6),
     Frame("xrgb", "set", 3, 6, 4)}

\* Every argument, with and without a length, padding and width; the empty
\* and the null string; an unknown conversion.
MCDirectives ==
    [conv : {"d", "u", "x"}, zero : BOOLEAN, width : {0, 3}, longs : {0, 1},
     arg : 0 .. (LONG - 1)]
    \union [conv : {"p"}, zero : {FALSE}, width : {0}, longs : {0},
            arg : 0 .. (LONG - 1)]
    \union {[conv |-> "s", arg |-> s] : s \in {<<"null">>, << >>, <<"a", "\n">>}}
    \union {[conv |-> c, arg |-> "a"] : c \in {"%", "?"}}

\* Long enough to wrap and to scroll a screen of two rows.
MCPanicWords == <<"b", "b", "b", "\n">>

================================================================================
