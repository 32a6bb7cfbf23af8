------------------------------ MODULE MCKernel ------------------------------
(* Instance of Kernel: two sessions, cells that print, clear, display or    *)
(* ask.                                                                     *)
EXTENDS Kernel

CONSTANTS c1, c2

Item(kind, name, mark) == [kind |-> kind, name |-> name, text |-> <<mark>>]

Python(timed, program) == [kind |-> "python", timed |-> timed, program |-> program]

Into(program) == [kind |-> "into", timed |-> FALSE, program |-> program]

MCJobs == <<{Python(FALSE, <<Item("stream", "out", "a"), Item("stream", "out", "b")>>),
             Python(TRUE, <<Item("ask", "stdin", "q"), Item("display", "d1", "a")>>),
             Into(<<Item("clear", "clear", "wait"), Item("stream", "out", "bound")>>)},
            {Python(FALSE, <<Item("stream", "out", "c")>>)}>>
=============================================================================
