------------------------------- MODULE Agent --------------------------------
(***************************************************************************)
(* apps-agent: an endless loop of ticks.  A tick observes, summarises,     *)
(* plans modules, suggests forks, and is to publish them.  A tick works on *)
(* a copy of the loop's state, which replaces it when the tick completes;  *)
(* when anything in it throws, the copy is dropped and only the error is   *)
(* noted.  The client it is to publish with has no method to create a      *)
(* module or a fork, so that publishing throws.                            *)
(*                                                                         *)
(* What is observed is the number of the tick that observed it.  The       *)
(* sources and the language model are external.                            *)
(***************************************************************************)
EXTENDS Naturals, Sequences, SequencesExt

CONSTANTS
  Names,         \* names of modules
  MaxModules,    \* limits.maxModulesPerTick (2)
  MaxForks,      \* limits.maxForkSuggestionsPerTick (3)
  MaxSummaries,  \* summaries that are kept (50)
  Plans,         \* plans the language model may give: sequences of names
  Suggestions,   \* what it may suggest to fork: sequences of names
  Configs,       \* configurations to start with
  MaxTicks,      \* bound on ticks
  MaxCrashes     \* bound on crashes

ASSUME AgentAssumption ==
  /\ MaxModules \in Nat /\ MaxForks \in Nat /\ MaxSummaries \in Nat
  /\ MaxTicks \in Nat /\ MaxCrashes \in Nat
  /\ Plans \subseteq Seq(Names) /\ Suggestions \subseteq Seq(Names)

Thinking == {"SUMMARIZE", "MODULEIZE", "SUGGEST_FORKS"}

Config == [mode : [Thinking -> {"heuristic", "llm"}], misspelt : BOOLEAN,
           publishing : BOOLEAN]

ASSUME ConfigAssumption == Configs \subseteq Config

VARIABLES
  cfg,        \* modes of the thinkers, whether a repo is misspelt, allowPublishing
  clock,      \* ticks begun, in all lives of the process
  state,      \* the loop's state
  local,      \* the copy of the tick in progress
  phase,      \* SLEEP between ticks
  llm,        \* the request to the language model: none, sent, body
  plan,       \* modules to publish
  suggested,  \* names to fork
  completed,  \* the ticks that completed in this life, the latest first
  crashes

tickVars == <<local, llm, plan, suggested>>
vars == <<cfg, clock, state, phase, tickVars, completed, crashes>>

InitialState ==
  [tick |-> 0, heart |-> 0, error |-> 0, github |-> 0, npm |-> 0, summaries |-> <<>>]

First(n, s) == SubSeq(s, 1, IF Len(s) < n THEN Len(s) ELSE n)

ClearTick == llm' = "none" /\ plan' = <<>> /\ suggested' = <<>>

Init ==
  /\ cfg \in Configs
  /\ clock = 0 /\ state = InitialState /\ local = InitialState /\ phase = "SLEEP"
  /\ llm = "none" /\ plan = <<>> /\ suggested = <<>>
  /\ completed = <<>> /\ crashes = 0

-----------------------------------------------------------------------------
(* The loop                                                                *)

\* The tick is counted; every third one beats.
BeginTick ==
  /\ phase = "SLEEP" /\ clock < MaxTicks
  /\ clock' = clock + 1
  /\ state' = [state EXCEPT !.tick = state.tick + 1]
  /\ local' = IF state'.tick % 3 = 0 THEN [state' EXCEPT !.heart = clock'] ELSE state'
  /\ phase' = "OBSERVE"
  /\ ClearTick
  /\ UNCHANGED <<cfg, completed, crashes>>

\* The tick throws: recordError on the state before it.
Throw ==
  /\ state' = [state EXCEPT !.error = clock]
  /\ local' = state' /\ phase' = "SLEEP"
  /\ ClearTick
  /\ UNCHANGED <<cfg, clock, completed, crashes>>

\* step returns.
Complete ==
  /\ phase = "ACTIONS" /\ plan = <<>> /\ suggested = <<>>
  /\ state' = local
  /\ phase' = "SLEEP"
  /\ completed' = <<clock>> \o completed
  /\ UNCHANGED <<cfg, clock, tickVars, crashes>>

-----------------------------------------------------------------------------
(* Cognition                                                               *)

\* A source that fails or has no etag leaves the one there was.
Observe ==
  /\ phase = "OBSERVE" /\ ~ cfg.misspelt
  /\ \E g \in {local.github, clock}, n \in {local.npm, clock} :
       local' = [local EXCEPT !.github = g, !.npm = n]
  /\ phase' = "SUMMARIZE"
  /\ UNCHANGED <<cfg, clock, state, llm, plan, suggested, completed, crashes>>

\* parseRepo throws on a reference without an owner.
ObserveThrows == phase = "OBSERVE" /\ cfg.misspelt /\ Throw

\* Mutant: the summaries are pushed onto the memory the loop's state holds too.
PushShared ==
  LET s == First(MaxSummaries, <<clock>> \o local.summaries)
  IN  local' = [local EXCEPT !.summaries = s] /\ state' = [state EXCEPT !.summaries = s]

\* pushSummary, on the memory that the tick made anew when it had observed.
PushSummary ==
  /\ local' = [local EXCEPT !.summaries = First(MaxSummaries, <<clock>> \o @)]
  /\ UNCHANGED state

Summarized ==
  /\ phase = "SUMMARIZE"
  /\ PushSummary
  /\ phase' = "MODULEIZE"
  /\ UNCHANGED <<plan, suggested>>

\* moduleize; without a usable answer, one module by the length of the summary.
Moduleized(answer) ==
  /\ phase = "MODULEIZE"
  /\ plan' = First(MaxModules, answer)
  /\ phase' = "SUGGEST_FORKS"
  /\ UNCHANGED <<state, local, suggested>>

\* suggestForks.
ForksSuggested(answer) ==
  /\ phase = "SUGGEST_FORKS"
  /\ suggested' = First(MaxForks, answer)
  /\ phase' = "ACTIONS"
  /\ UNCHANGED <<state, local, plan>>

HeuristicForks == First(3, plan)

Heuristic ==
  \/ Summarized
  \/ \E n \in Names : Moduleized(<<n>>)
  \/ ForksSuggested(HeuristicForks)

\* In heuristic mode, or without a prompt file.
Think ==
  /\ phase \in Thinking /\ llm = "none"
  /\ Heuristic
  /\ llm' = "none"
  /\ UNCHANGED <<cfg, clock, completed, crashes>>

\* callLlm, with the timer armed; without an endpoint it throws.
LlmSend ==
  /\ phase \in Thinking /\ cfg.mode[phase] = "llm" /\ llm = "none"
  /\ llm' = "sent"
  /\ UNCHANGED <<cfg, clock, state, local, phase, plan, suggested, completed, crashes>>

LlmNoEndpoint == phase \in Thinking /\ cfg.mode[phase] = "llm" /\ llm = "none" /\ Throw

\* The model may never answer, or begin to and never end.
LlmHeaders ==
  /\ llm = "sent"
  /\ llm' = "body"
  /\ UNCHANGED <<cfg, clock, state, local, phase, plan, suggested, completed, crashes>>

\* An answer, usable or not.
LlmAnswer ==
  /\ llm = "body"
  /\ \/ Heuristic
     \/ \E p \in Plans : Moduleized(p)
     \/ \E s \in Suggestions : ForksSuggested(s)
  /\ llm' = "none"
  /\ UNCHANGED <<cfg, clock, completed, crashes>>

\* The connection breaks or the status is not ok.
LlmFails == llm # "none" /\ Throw

\* Mutant: the timer is cleared when the headers are there.
AbortHeaders == llm = "sent" /\ Throw

\* The timer, which is cleared after the body was read, aborts the request.
LlmAbort == llm # "none" /\ Throw

-----------------------------------------------------------------------------
(* Actions                                                                 *)

\* publishModules and proposeForks return at once.
Disallowed ==
  /\ phase = "ACTIONS" /\ ~ cfg.publishing
  /\ plan # <<>> \/ suggested # <<>>
  /\ plan' = <<>> /\ suggested' = <<>>
  /\ UNCHANGED <<cfg, clock, state, local, phase, llm, completed, crashes>>

\* client.createModule is undefined: the call throws before there is a promise
\* whose failure .catch could log.
Publish == phase = "ACTIONS" /\ cfg.publishing /\ plan # <<>> /\ Throw

\* Nothing was published, so that nameToId is empty and every suggestion is passed
\* over; client.createFork, which is undefined as well, is never reached.
Propose ==
  /\ phase = "ACTIONS" /\ cfg.publishing /\ plan = <<>> /\ suggested # <<>>
  /\ suggested' = <<>>
  /\ UNCHANGED <<cfg, clock, state, local, phase, llm, plan, completed, crashes>>

\* The process dies and a new one starts with an empty memory.
Crash ==
  /\ crashes < MaxCrashes
  /\ crashes' = crashes + 1
  /\ state' = InitialState /\ local' = InitialState /\ phase' = "SLEEP"
  /\ ClearTick
  /\ completed' = <<>>
  /\ UNCHANGED <<cfg, clock>>

-----------------------------------------------------------------------------

Step == BeginTick \/ Observe \/ ObserveThrows \/ Think \/ LlmSend \/ LlmNoEndpoint
        \/ Disallowed \/ Publish \/ Propose \/ Complete

Next == Step \/ LlmHeaders \/ LlmAnswer \/ LlmFails \/ LlmAbort \/ Crash

Spec == Init /\ [][Next]_vars

\* The event loop goes on, the sources' requests end by fetch's own
\* timeouts, and the timer of callLlm fires; the model need not answer.
FairSpec == Spec /\ WF_vars(Step) /\ WF_vars(LlmAbort)

-----------------------------------------------------------------------------
(* Properties                                                              *)

\* Between ticks the memory holds the completed ticks' summaries, the latest first
\* and at most MaxSummaries, and nothing of a tick that failed at whatever point:
\* neither its etags, nor its heartbeat (step's copy of the state, recordError).
RemembersCompletedTicks ==
  phase = "SLEEP" =>
    /\ state.summaries = First(MaxSummaries, completed)
    /\ {state.github, state.npm, state.heart} \subseteq Range(completed) \cup {0}

\* Every tick ends, also when the model never answers or anything throws
\* (docs/architecture.md: this loop never stops).
TicksEnd == phase # "SLEEP" ~> phase = "SLEEP"
=============================================================================
