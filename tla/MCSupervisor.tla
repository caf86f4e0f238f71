----------------------------- MODULE MCSupervisor -----------------------------
(* The instance of Supervisor for model checking: the program's own periods. *)
EXTENDS Supervisor

\* The jitter is drawn between minus and plus a fifth of the delay.
JitterFifths == {-1, 0, 1}
=============================================================================
