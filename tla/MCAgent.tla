------------------------------- MODULE MCAgent -------------------------------
(* Plans and suggestions one longer than the limits.                         *)
EXTENDS Agent, TLC

CONSTANTS a, b

MCPlans == {<<>>, <<a>>, <<b, a>>, <<a, b, a>>}

C(mode, misspelt, publishing) ==
  [mode |-> [t \in Thinking |-> mode], misspelt |-> misspelt, publishing |-> publishing]

MCConfigs == {C("heuristic", FALSE, TRUE), C("llm", FALSE, TRUE), C("llm", FALSE, FALSE),
              C("llm", TRUE, TRUE)}

MCSuggestions == {<<>>, <<b, b>>, <<a, b, b>>, <<b, a, a, b>>}
=============================================================================
