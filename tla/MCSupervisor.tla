----------------------------- MODULE MCSupervisor -----------------------------
(***************************************************************************)
(* Commands that race for one notebook.                                    *)
(***************************************************************************)
EXTENDS Supervisor, TLC

CONSTANTS c1, c2, c3

Mix(a, b, c) == (c1 :> a) @@ (c2 :> b) @@ (c3 :> c)

Races == {Mix("status", "detach", "stop"), Mix("edit", "detach", "nothing"),
          Mix("ls", "exec", "nothing"), Mix("run", "edit", "nothing"), Mix("edit", "stop", "nothing"),
          Mix("restart", "exec", "nothing"),
          Mix("ask", "interrupt", "nothing"), Mix("exec", "detach", "nothing"), Mix("exec", "stop", "nothing")}
===============================================================================
