----------------------------- MODULE MCIndexerWs -----------------------------
(* The events of MCIndexer, in slots for callbacks.                          *)
EXTENDS IndexerWs, MCIndexer

\* One transaction in a slot or two, one without an event; a namesake of
\* the module.
WsChains ==
  { (0 :> <<>> @@ 1 :> << <<Module, Fork>> >> @@ 2 :> << <<Run, ModuleOff>> >>
       @@ 3 :> << <<>> >> @@ 4 :> << <<Namesake, Module, Succeeded>> >>),
    (0 :> <<>> @@ 1 :> << <<Run, Fork, Module, Namesake>> >> @@ 2 :> << <<Running>> >>
       @@ 3 :> << <<Succeeded>>, <<ForkOff>> >> @@ 4 :> <<>>) }
=============================================================================
