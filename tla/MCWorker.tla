------------------------------ MODULE MCWorker -------------------------------
(* Queues for the worker: none (in production), two runs of a packed bundle,  *)
(* what a crash may have cut off, and jobs that fail before some that do not. *)
EXTENDS Worker

CONSTANTS b, x

J(kind, c) == [kind |-> kind, content |-> c, valid |-> TRUE]

MCQueues ==
  { <<>>,
    <<J("pack", b), J("run", b), J("run", b)>>,
    <<J("verify", b), J("run", x), J("pack", x), J("run", x)>>,
    <<J("pack", b), J("verify", b), J("publish", b), J("pack", b)>>,
    <<J("unknown", x), [J("pack", b) EXCEPT !.valid = FALSE], J("pack", x),
      J("verify", x), J("verify", b), J("run", b)>> }
=============================================================================
