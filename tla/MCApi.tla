-------------------------------- MODULE MCApi --------------------------------
(* Two requests for modules, of one artifact and perhaps of one name; a fork of *)
(* the first; and a fork or a run of either module, perhaps of the wrong fork.  *)
EXTENDS Api, TLC

CONSTANTS q1, q2, q3, q4, c1

MCRequests == {q1, q2, q3, q4}

MCBodies ==
  q1 :> [kind : {"module"}, name : {"a"}, content : {c1}] @@
  q2 :> [kind : {"module"}, name : {"a", "b"}, content : {c1, None}] @@
  q3 :> [kind : {"fork"}, module : {q1}, fork : {None}] @@
  q4 :> [kind : {"fork", "run"}, module : {q1, q2}, fork : {q3, None}]
=============================================================================
