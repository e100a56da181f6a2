------------------------------ MODULE MCIndexer ------------------------------
(* A module, a fork of it and a run of the fork, and another module with the *)
(* name and the version of the first.                                        *)
EXTENDS Indexer, TLC

CONSTANTS m, n, f, r, i1, i2

MCIds == {m, n, f, r}

MCNameOf == [id \in MCIds |-> IF id = n THEN m ELSE id]

Ev(group, op, id, needs, status) ==
  [group |-> group, op |-> op, id |-> id, needs |-> needs, status |-> status]

Module == Ev("registry", "create", m, {}, "ACTIVE")
ModuleOff == Ev("registry", "status", m, {}, "DISABLED")
Namesake == Ev("registry", "create", n, {}, "ACTIVE")
NamesakeOff == Ev("registry", "status", n, {}, "DISABLED")
Fork == Ev("forks", "create", f, {m}, "ACTIVE")
ForkOff == Ev("forks", "status", f, {}, "DISABLED")
Run == Ev("runs", "create", r, {m, f}, "CREATED")
Running == Ev("runs", "status", r, {}, "RUNNING")
Succeeded == Ev("runs", "status", r, {}, "SUCCEEDED")

\* The module is disabled, then registered again; the run is created, started
\* and finished in slots of its own or in one; a log where a run's line comes
\* between a module's; a slot with more transactions than are looked at, so that
\* the fork is missed and with it the run.  The module's namesake comes after it, in
\* the slot of its registration or later; or before it, where nobody looks or where
\* it takes the name.
Empty(last) == [s \in 0..last |-> <<>>]

MCChains ==
  { Empty(3) @@ (4 :> << <<Module, Fork>> >>
       @@ 5 :> << <<Run, ModuleOff>>, <<Namesake, Running, Succeeded>> >>
       @@ 6 :> << <<Module>> >> @@ 7 :> << <<ForkOff, NamesakeOff>> >> @@ 8 :> <<>>),
    Empty(3) @@ (4 :> << <<Module, Namesake>>, <<Fork>>, <<ForkOff>> >>
       @@ 5 :> <<>> @@ 6 :> << <<Run, Module, Running>> >>
       @@ 7 :> << <<Succeeded>> >> @@ 8 :> << <<ModuleOff>> >>),
    (1 :> << <<Namesake>> >>) @@ Empty(3)
       @@ (4 :> << <<Module>>, <<ModuleOff>>, <<>>, <<Fork>> >>
       @@ 5 :> << <<Run>> >> @@ 6 :> << <<Module>> >> @@ 7 :> << <<Running>> >> @@ 8 :> <<>>),
    Empty(3) @@ (4 :> << <<Namesake>>, <<Fork, Module>> >>
       @@ 5 :> << <<NamesakeOff, Run>> >> @@ 6 :> << <<Module, Namesake>> >>
       @@ 7 :> << <<Running>> >> @@ 8 :> <<>>) }

ASSUME OrderAssumption == ProgramOrder

\* Short, for two instances; the first two slots are behind the checkpoint.
OverlapChains ==
  { (0 :> <<>> @@ 1 :> <<>> @@ 2 :> << <<Module, Fork>>, <<Run>> >>
       @@ 3 :> << <<Namesake>>, <<Running, Succeeded>> >> @@ 4 :> << <<ForkOff>> >>) }
=============================================================================
