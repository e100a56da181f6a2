---------------------------- MODULE AgentProofs -----------------------------
(***************************************************************************)
(* Proofs about the agent's loop, for any names, limits, plans and         *)
(* suggestions of the language model, and any configuration.  The loop's   *)
(* state knows completed ticks alone; the copy of the tick in progress     *)
(* knows, besides, the tick itself (Memory).                               *)
(***************************************************************************)
EXTENDS Agent, SequenceTheorems, TLAPS

Phases == Thinking \cup {"SLEEP", "OBSERVE", "ACTIONS"}

State == [tick : Nat, heart : Nat, error : Nat, github : Nat, npm : Nat, summaries : Seq(Nat)]

Typed ==
  /\ clock \in Nat /\ phase \in Phases
  /\ state \in State /\ local \in State
  /\ plan \in Seq(Names) /\ suggested \in Seq(Names)
  /\ completed \in Seq(Nat)

\* The ticks a state may remember.
Known(s, ticks) == {s.github, s.npm, s.heart} \subseteq ticks \cup {0}

\* The loop's state is that of the completed ticks; the copy has, from the
\* observation on, the numbers of the tick in progress, and its summary once made.
Memory ==
  /\ state.summaries = First(MaxSummaries, completed)
  /\ Known(state, Range(completed))
  /\ phase # "SLEEP" => Known(local, Range(completed) \cup {clock})
  /\ phase \in {"OBSERVE", "SUMMARIZE"} =>
       local.summaries = First(MaxSummaries, completed)
  /\ phase \in {"MODULEIZE", "SUGGEST_FORKS", "ACTIONS"} =>
       local.summaries = First(MaxSummaries, <<clock>> \o completed)

-----------------------------------------------------------------------------
(* The beginning of a sequence                                             *)

\* First keeps what fits, in its place.
LEMMA FirstProperties ==
  ASSUME NEW X, NEW s \in Seq(X), NEW n \in Nat
  PROVE  /\ First(n, s) \in Seq(X)
         /\ Len(First(n, s)) = IF Len(s) < n THEN Len(s) ELSE n
         /\ \A i \in 1..Len(First(n, s)) : First(n, s)[i] = s[i]
BY DEF First

LEMMA FirstOfEmpty == ASSUME NEW n \in Nat PROVE First(n, <<>>) = <<>>
<1>1. First(n, <<>>) = SubSeq(<<>>, 1, 0)
  BY DEF First
<1> QED
  BY <1>1

\* A summary pushed onto the ones that were kept is one pushed onto all there were.
LEMMA FirstOfPushed ==
  ASSUME NEW X, NEW s \in Seq(X), NEW n \in Nat, NEW x \in X
  PROVE  First(n, <<x>> \o First(n, s)) = First(n, <<x>> \o s)
<1> DEFINE a == <<x>> \o First(n, s)
           b == <<x>> \o s
<1>1. /\ First(n, s) \in Seq(X) /\ Len(First(n, s)) = IF Len(s) < n THEN Len(s) ELSE n
      /\ \A i \in 1..Len(First(n, s)) : First(n, s)[i] = s[i]
  BY FirstProperties
<1>2. a \in Seq(X) /\ Len(a) = 1 + Len(First(n, s)) /\ b \in Seq(X) /\ Len(b) = 1 + Len(s)
  BY <1>1
<1>3. \A i \in 1..Len(a) : a[i] = b[i]
  BY <1>1, <1>2
<1> HIDE DEF a, b
<1>4. /\ First(n, a) \in Seq(X) /\ First(n, b) \in Seq(X)
      /\ Len(First(n, a)) = Len(First(n, b))
      /\ \A i \in 1..Len(First(n, a)) : First(n, a)[i] = First(n, b)[i]
  BY <1>1, <1>2, <1>3, FirstProperties
<1> QED
  BY <1>4, SeqEqual DEF a, b

LEMMA RangeOfPushed ==
  ASSUME NEW X, NEW s \in Seq(X), NEW x \in X
  PROVE  <<x>> \o s \in Seq(X) /\ Range(<<x>> \o s) = Range(s) \cup {x}
<1> DEFINE a == <<x>>
<1>1. a \in Seq(X) /\ Range(a) = {x}
  BY DEF Range
<1> HIDE DEF a
<1>2. a \o s \in Seq(X)
  BY <1>1
<1>3. Range(a \o s) = Range(a) \cup Range(s)
  BY <1>1, RangeConcatenation
<1> QED
  BY <1>1, <1>2, <1>3 DEF a

-----------------------------------------------------------------------------
(* The loop                                                                *)

AgentInv == Typed /\ Memory

LEMMA Initially == Init => AgentInv
<1> SUFFICES ASSUME Init
             PROVE  AgentInv
  OBVIOUS
<1> USE AgentAssumption DEF Init, InitialState
<1>1. First(MaxSummaries, <<>>) = <<>>
  BY FirstOfEmpty
<1>2. Typed
  BY DEF Typed, State, Phases, Thinking
<1>3. Memory
  BY <1>1 DEF Memory, Known
<1> QED
  BY <1>2, <1>3 DEF AgentInv

\* A tick begins with nothing planned.
LEMMA BeginTickKeeps == ASSUME AgentInv, BeginTick PROVE AgentInv'
<1> USE AgentAssumption
<1>1. /\ phase' = "OBSERVE" /\ clock' = clock + 1
      /\ state' = [state EXCEPT !.tick = state.tick + 1]
      /\ local' \in {state', [state' EXCEPT !.heart = clock']}
      /\ plan' = <<>> /\ suggested' = <<>>
      /\ UNCHANGED <<cfg, completed>>
  BY DEF BeginTick, ClearTick
<1>2. state \in State /\ clock \in Nat /\ completed \in Seq(Nat)
  BY DEF AgentInv, Typed
<1>3. /\ state' \in State /\ state'.summaries = state.summaries
      /\ state'.github = state.github /\ state'.npm = state.npm /\ state'.heart = state.heart
  <2>1. state.tick + 1 \in Nat
    BY <1>2 DEF State
  <2> DEFINE t == state.tick + 1
  <2>2. t \in Nat /\ state' = [state EXCEPT !.tick = t]
    BY <1>1, <2>1
  <2> HIDE DEF t
  <2> QED
    BY <1>2, <2>2 DEF State
<1>4. /\ local' \in State /\ local'.summaries = state.summaries
      /\ local'.github = state.github /\ local'.npm = state.npm
      /\ local'.heart \in {state.heart, clock'}
  <2>1. CASE local' = state'
    BY <1>3, <2>1
  <2>2. CASE local' = [state' EXCEPT !.heart = clock']
    <3>1. clock' \in Nat
      BY <1>1, <1>2
    <3> QED
      BY <1>3, <2>2, <3>1 DEF State
  <2> QED
    BY <1>1, <2>1, <2>2
<1>5. Typed'
  BY <1>1, <1>2, <1>3, <1>4 DEF Typed, Phases
<1>6. Memory'
  BY <1>1, <1>3, <1>4 DEF AgentInv, Memory, Known
<1> QED
  BY <1>1, <1>5, <1>6 DEF AgentInv

\* A tick that throws is remembered by its error alone.
LEMMA ThrowKeeps == ASSUME AgentInv, Throw PROVE AgentInv'
<1> USE AgentAssumption
<1>1. /\ phase' = "SLEEP" /\ state' = [state EXCEPT !.error = clock] /\ local' = state'
      /\ plan' = <<>> /\ suggested' = <<>>
      /\ UNCHANGED <<cfg, clock, completed>>
  BY DEF Throw, ClearTick
<1>2. Typed'
  <2>1. state \in State /\ clock \in Nat
    BY DEF AgentInv, Typed
  <2>2. state' \in State
    BY <1>1, <2>1 DEF State
  <2> QED
    BY <1>1, <2>2 DEF AgentInv, Typed, Phases
<1>3. Memory'
  BY <1>1 DEF AgentInv, Typed, State, Memory, Known
<1> QED
  BY <1>1, <1>2, <1>3 DEF AgentInv

\* The copy replaces the state when the tick is one of the completed ones.
LEMMA CompleteKeeps == ASSUME AgentInv, Complete PROVE AgentInv'
<1> USE AgentAssumption
<1>1. /\ phase = "ACTIONS" /\ phase' = "SLEEP" /\ state' = local
      /\ completed' = <<clock>> \o completed
      /\ UNCHANGED <<cfg, clock, local, plan, suggested>>
  BY DEF Complete, tickVars
<1>2. clock \in Nat /\ completed \in Seq(Nat)
  BY DEF AgentInv, Typed
<1>3. completed' \in Seq(Nat) /\ Range(completed') = Range(completed) \cup {clock}
  BY <1>1, <1>2, RangeOfPushed
<1>4. Typed'
  BY <1>1, <1>3 DEF AgentInv, Typed, Phases
<1>5. Memory'
  BY <1>1, <1>3 DEF AgentInv, Memory, Known
<1> QED
  BY <1>1, <1>4, <1>5 DEF AgentInv

-----------------------------------------------------------------------------
(* Cognition                                                               *)

LEMMA ObserveKeeps == ASSUME AgentInv, Observe PROVE AgentInv'
<1>1. /\ phase = "OBSERVE" /\ phase' = "SUMMARIZE"
      /\ UNCHANGED <<cfg, clock, state, plan, suggested, completed>>
  BY DEF Observe
<1>2. PICK g \in {local.github, clock}, n \in {local.npm, clock} :
        local' = [local EXCEPT !.github = g, !.npm = n]
  BY DEF Observe
<1>3. Typed'
  BY <1>1, <1>2 DEF AgentInv, Typed, State, Phases, Thinking
<1>4. Memory'
  BY <1>1, <1>2 DEF AgentInv, Typed, State, Memory, Known
<1> QED
  BY <1>1, <1>3, <1>4 DEF AgentInv

\* What a thought leaves alone.
Thought == UNCHANGED <<cfg, clock, completed>>

LEMMA SummarizedKeeps == ASSUME AgentInv, Summarized, Thought PROVE AgentInv'
<1> USE AgentAssumption
<1>1. /\ phase = "SUMMARIZE" /\ phase' = "MODULEIZE"
      /\ local' = [local EXCEPT !.summaries = First(MaxSummaries, <<clock>> \o @)]
      /\ UNCHANGED <<cfg, clock, state, plan, suggested, completed>>
  BY DEF Summarized, PushSummary, Thought
<1>2. clock \in Nat /\ completed \in Seq(Nat) /\ local \in State
  BY DEF AgentInv, Typed
<1>3. First(MaxSummaries, <<clock>> \o local.summaries)
        = First(MaxSummaries, <<clock>> \o completed)
  BY <1>1, <1>2, FirstOfPushed DEF AgentInv, Memory
<1>4. First(MaxSummaries, <<clock>> \o completed) \in Seq(Nat)
  <2>1. <<clock>> \o completed \in Seq(Nat)
    BY <1>2
  <2> QED
    BY <2>1, FirstProperties
<1>5. Typed'
  BY <1>1, <1>2, <1>3, <1>4 DEF AgentInv, Typed, State, Phases, Thinking
<1>6. Memory'
  BY <1>1, <1>2, <1>3 DEF AgentInv, State, Memory, Known
<1> QED
  BY <1>1, <1>5, <1>6 DEF AgentInv

LEMMA ModuleizedKeeps ==
  ASSUME AgentInv, NEW answer \in Seq(Names), Moduleized(answer), Thought
  PROVE  AgentInv'
<1> USE AgentAssumption
<1>1. /\ phase = "MODULEIZE" /\ phase' = "SUGGEST_FORKS" /\ plan' = First(MaxModules, answer)
      /\ UNCHANGED <<cfg, clock, state, local, suggested, completed>>
  BY DEF Moduleized, Thought
<1>2. plan' \in Seq(Names)
  BY <1>1, FirstProperties
<1>3. Typed'
  BY <1>1, <1>2 DEF AgentInv, Typed, State, Phases, Thinking
<1>4. Memory'
  BY <1>1 DEF AgentInv, Memory, Known
<1> QED
  BY <1>1, <1>3, <1>4 DEF AgentInv

LEMMA ForksSuggestedKeeps ==
  ASSUME AgentInv, NEW answer \in Seq(Names), ForksSuggested(answer), Thought
  PROVE  AgentInv'
<1> USE AgentAssumption
<1>1. /\ phase = "SUGGEST_FORKS" /\ phase' = "ACTIONS" /\ suggested' = First(MaxForks, answer)
      /\ UNCHANGED <<cfg, clock, state, local, plan, completed>>
  BY DEF ForksSuggested, Thought
<1>2. suggested' \in Seq(Names)
  BY <1>1, FirstProperties
<1>3. Typed'
  BY <1>1, <1>2 DEF AgentInv, Typed, State, Phases
<1>4. Memory'
  BY <1>1 DEF AgentInv, Memory, Known
<1> QED
  BY <1>1, <1>3, <1>4 DEF AgentInv

LEMMA HeuristicForksTyped == Typed => HeuristicForks \in Seq(Names)
BY FirstProperties DEF Typed, HeuristicForks

LEMMA HeuristicKeeps == ASSUME AgentInv, Heuristic, Thought PROVE AgentInv'
<1>1. CASE Summarized
  BY <1>1, SummarizedKeeps
<1>2. ASSUME NEW n \in Names, Moduleized(<<n>>)
      PROVE  AgentInv'
  <2>1. <<n>> \in Seq(Names)
    OBVIOUS
  <2> QED
    BY <1>2, <2>1, ModuleizedKeeps
<1>3. CASE ForksSuggested(HeuristicForks)
  BY <1>3, HeuristicForksTyped, ForksSuggestedKeeps DEF AgentInv
<1> QED
  BY <1>1, <1>2, <1>3 DEF Heuristic

\* An answer may plan or suggest anything.
LEMMA LlmAnswerKeeps == ASSUME AgentInv, LlmAnswer PROVE AgentInv'
<1>1. Thought
  BY DEF LlmAnswer, Thought
<1>2. CASE Heuristic
  BY <1>1, <1>2, HeuristicKeeps
<1>3. ASSUME NEW p \in Plans, Moduleized(p)
      PROVE  AgentInv'
  BY <1>1, <1>3, AgentAssumption, ModuleizedKeeps
<1>4. ASSUME NEW s \in Suggestions, ForksSuggested(s)
      PROVE  AgentInv'
  BY <1>1, <1>4, AgentAssumption, ForksSuggestedKeeps
<1> QED
  BY <1>2, <1>3, <1>4 DEF LlmAnswer

-----------------------------------------------------------------------------
(* Actions                                                                 *)

LEMMA DisallowedKeeps == ASSUME AgentInv, Disallowed PROVE AgentInv'
<1>1. /\ phase = "ACTIONS" /\ ~ cfg.publishing /\ plan' = <<>> /\ suggested' = <<>>
      /\ UNCHANGED <<cfg, clock, state, local, phase, completed>>
  BY DEF Disallowed
<1>2. Typed'
  BY <1>1 DEF AgentInv, Typed
<1>3. Memory'
  BY <1>1 DEF AgentInv, Memory, Known
<1> QED
  BY <1>1, <1>2, <1>3 DEF AgentInv

\* What is suggested is passed over.
LEMMA ProposeKeeps == ASSUME AgentInv, Propose PROVE AgentInv'
<1>1. /\ phase = "ACTIONS" /\ suggested' = <<>>
      /\ UNCHANGED <<cfg, clock, state, local, phase, plan, completed>>
  BY DEF Propose
<1>2. Typed'
  BY <1>1 DEF AgentInv, Typed
<1>3. Memory'
  BY <1>1 DEF AgentInv, Memory, Known
<1> QED
  BY <1>2, <1>3 DEF AgentInv

\* A new process remembers nothing.
LEMMA CrashKeeps == ASSUME AgentInv, Crash PROVE AgentInv'
<1> USE AgentAssumption
<1>1. /\ state' = InitialState /\ local' = InitialState /\ phase' = "SLEEP"
      /\ plan' = <<>> /\ suggested' = <<>> /\ completed' = <<>>
      /\ UNCHANGED <<cfg, clock>>
  BY DEF Crash, ClearTick
<1>2. First(MaxSummaries, <<>>) = <<>>
  BY FirstOfEmpty
<1>3. Typed'
  BY <1>1 DEF AgentInv, Typed, InitialState, State, Phases
<1>4. Memory'
  BY <1>1, <1>2 DEF Memory, Known, InitialState
<1> QED
  BY <1>1, <1>3, <1>4 DEF AgentInv

LEMMA StutterKeeps ==
  ASSUME AgentInv,
         UNCHANGED <<cfg, clock, state, local, phase, plan, suggested, completed>>
  PROVE  AgentInv'
<1>1. Typed' /\ Memory'
  BY DEF AgentInv, Typed, Memory, Known
<1> QED
  BY <1>1 DEF AgentInv

LEMMA AgentStep == AgentInv /\ [Next]_vars => AgentInv'
<1> SUFFICES ASSUME AgentInv, [Next]_vars
             PROVE  AgentInv'
  OBVIOUS
<1>1. CASE BeginTick \/ Complete
  BY <1>1, BeginTickKeeps, CompleteKeeps
<1>2. CASE ObserveThrows \/ LlmNoEndpoint \/ LlmFails \/ LlmAbort \/ Publish
  BY <1>2, ThrowKeeps DEF ObserveThrows, LlmNoEndpoint, LlmFails, LlmAbort, Publish
<1>3. CASE Observe \/ LlmAnswer
  BY <1>3, ObserveKeeps, LlmAnswerKeeps
<1>4. CASE Think
  BY <1>4, HeuristicKeeps DEF Think, Thought
<1>5. CASE Disallowed \/ Propose \/ Crash
  BY <1>5, DisallowedKeeps, ProposeKeeps, CrashKeeps
<1>6. CASE LlmSend \/ LlmHeaders \/ UNCHANGED vars
  BY <1>6, StutterKeeps DEF LlmSend, LlmHeaders, vars, tickVars
<1> QED
  BY <1>1, <1>2, <1>3, <1>4, <1>5, <1>6 DEF Next, Step

\* The inductive invariant of the agent.
THEOREM AgentInvariant == Spec => []AgentInv
BY Initially, AgentStep, PTL DEF Spec

-----------------------------------------------------------------------------
(* What follows                                                            *)

\* Between ticks the memory is that of the completed ticks, whichever step the
\* others failed at (main's copy of the state and recordError).
THEOREM MemoryCorrect == Spec => []RemembersCompletedTicks
<1>1. AgentInv => RemembersCompletedTicks
  BY DEF AgentInv, Memory, Known, RemembersCompletedTicks
<1> QED
  BY <1>1, AgentInvariant, PTL
=============================================================================
