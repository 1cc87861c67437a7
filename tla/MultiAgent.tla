----------------------------- MODULE MultiAgent -----------------------------
(***************************************************************************)
(* MultiAgentWorkflow of dawn_kestrel/workflow/multi_agent.py: construction*)
(* with its search for circular dependencies, and one execution in each of *)
(* the four modes.  Agents run in tasks under one gather (a wave); the     *)
(* sequential mode awaits them one by one, and is a wave of one.           *)
(*                                                                         *)
(* An agent's condition is a function of the context, a dictionary that    *)
(* the agents are handed too: it may answer otherwise when it is asked     *)
(* again, or raise.                                                        *)
(***************************************************************************)
EXTENDS Naturals, Sequences, FiniteSets, SequencesExt

CONSTANTS
  Agents,
  Unknown,     \* a name in dependencies that is no agent of the workflow
  Modes,
  Graphs,      \* the dependencies to try: agent -> set of names
  Contexts,    \* what the conditions answer at first
  MaxChanges   \* bound: changes of an agent's condition

Names == Agents \cup {Unknown}
Answers == {"yes", "no", "raises"}

ASSUME WorkflowAssumption ==
  /\ Unknown \notin Agents /\ IsFiniteSet(Agents)
  /\ Modes \subseteq {"sequential", "parallel", "dag", "conditional"}
  /\ Graphs \subseteq [Agents -> SUBSET Names]
  /\ Contexts \subseteq [Agents -> Answers]
  /\ MaxChanges \in Nat

VARIABLES
  mode, deps,  \* the workflow's configuration
  stage,
  relevant,    \* what each condition would answer
  agent,       \* each agent of the wave: its task, or the task's outcome
  cancelled,   \* the caller was cancelled during the wave
  results,     \* agent_results
  order,       \* execution_order, as far as waves have ended
  changes

vars == <<mode, deps, stage, relevant, agent, cancelled, results, order, changes>>

NoDependencies == [a \in Agents |-> {}]
Final == {"rejected", "returned", "raised", "cancelled"}
Outcomes == {"completed", "failed", "skipped"}

TypeOK ==
  /\ mode \in Modes /\ deps \in Graphs \cup {NoDependencies}
  /\ stage \in {"new", "built", "choosing", "wave"} \cup Final
  /\ relevant \in [Agents -> Answers]
  /\ agent \in [Agents -> {"idle", "created", "running", "raised", "cut"} \cup Outcomes]
  /\ cancelled \in BOOLEAN
  /\ results \in [Agents -> {"none", "unsatisfied"} \cup Outcomes]
  /\ order \in Seq(Agents) /\ Len(order) <= Cardinality(Agents)
  /\ changes \in 0..MaxChanges

Idle == [a \in Agents |-> "idle"]

\* Only the dag mode looks at dependencies.
Init ==
  /\ mode \in Modes
  /\ deps \in IF mode = "dag" THEN Graphs ELSE {NoDependencies}
  /\ stage = "new"
  /\ relevant = [a \in Agents |-> "yes"]
  /\ agent = Idle /\ cancelled = FALSE
  /\ results = [a \in Agents |-> "none"] /\ order = << >>
  /\ changes = 0

-----------------------------------------------------------------------------
(* _validate_dag. *)

Search == [visited : SUBSET Names, stack : SUBSET Names, cyclic : BOOLEAN]

\* A call of has_cycle, with the dependencies it still has to look at.
Activation == [name : Names, todo : SUBSET Names, search : Search]

Dependencies(n) == IF n \in Agents THEN deps[n] ELSE {}

Called(n, s) ==
  [name |-> n, todo |-> Dependencies(n),
   search |-> [s EXCEPT !.visited = @ \cup {n}, !.stack = @ \cup {n}]]

\* As if rec_stack.remove were forgotten.
Left_Mutant(s, n) == s
Left(s, n) == [s EXCEPT !.stack = @ \ {n}]

\* What the search comes to when the call returns.
has_cycle[c \in Activation] ==
  IF c.todo = {} THEN Left(c.search, c.name)
  ELSE LET d == CHOOSE d \in c.todo : TRUE
           s == IF d \in c.search.visited
                THEN [c.search EXCEPT !.cyclic = d \in c.search.stack]
                ELSE has_cycle[Called(d, c.search)]
       IN  IF s.cyclic THEN s ELSE has_cycle[[c EXCEPT !.todo = @ \ {d}, !.search = s]]

Checked(n, s) == IF s.cyclic \/ n \in s.visited THEN s ELSE has_cycle[Called(n, s)]

Searched == FoldSet(Checked, [visited |-> {}, stack |-> {}, cyclic |-> FALSE], Agents)

Construct ==
  /\ stage = "new"
  /\ stage' = IF mode = "dag" /\ Searched.cyclic THEN "rejected" ELSE "built"
  /\ UNCHANGED <<mode, deps, relevant, agent, cancelled, results, order, changes>>

-----------------------------------------------------------------------------
(* execute, between waves. *)

Completed == {a \in Agents : results[a] # "none"}

\* Whom the list of the ready agents asks for their conditions.
Due == {a \in Agents \ Completed : deps[a] \subseteq Completed}

Asked == CASE mode = "dag" -> Due
           [] mode = "conditional" -> IF order = << >> THEN Agents ELSE {}
           [] OTHER -> {}

Calm == \A a \in Asked : relevant[a] # "raises"

Start ==
  /\ stage = "built"
  /\ relevant' \in Contexts
  /\ stage' = "choosing"
  /\ UNCHANGED <<mode, deps, agent, cancelled, results, order, changes>>

\* The agents of the next wave; none ends the execution.
Ready ==
  CASE mode = "dag" -> {{a \in Due : relevant[a] = "yes"}}
    [] mode = "sequential" -> IF Completed = Agents THEN {{}} ELSE {{a} : a \in Agents \ Completed}
    [] mode = "parallel" -> {Agents \ Completed}
    [] mode = "conditional" -> {{a \in Asked : relevant[a] = "yes"}}

\* The comprehension that asks the conditions has no handler.
ConditionRaises ==
  /\ stage = "choosing" /\ ~Calm
  /\ stage' = "raised"
  /\ UNCHANGED <<mode, deps, relevant, agent, cancelled, results, order, changes>>

\* The agent is asked once more when it begins.
Begun(a) == CASE relevant[a] = "yes" -> "running"
              [] relevant[a] = "no" -> "skipped"
              [] relevant[a] = "raises" -> "raised"

\* gather wraps each agent in a task; one awaited alone begins at once.
StartWave ==
  /\ stage = "choosing" /\ Calm
  /\ \E wave \in Ready \ {{}} :
       agent' = [a \in Agents |-> IF a \notin wave THEN "idle"
                                   ELSE IF mode = "sequential" THEN Begun(a)
                                   ELSE "created"]
  /\ stage' = "wave"
  /\ UNCHANGED <<mode, deps, relevant, cancelled, results, order, changes>>

\* As if the loop were left without a word about the others.
Finished_Mutant == results

\* What is left over in the dag mode is reported as skipped.
Finished ==
  [a \in Agents |-> IF mode = "dag" /\ results[a] = "none" THEN "unsatisfied" ELSE results[a]]

\* As if the loop did not leave when nobody is ready.
ReturnResult_Mutant ==
  /\ stage = "choosing" /\ Calm
  /\ {} \in Ready /\ (mode = "dag" => Completed = Agents)
  /\ results' = Finished
  /\ stage' = "returned"
  /\ UNCHANGED <<mode, deps, relevant, agent, cancelled, order, changes>>

ReturnResult ==
  /\ stage = "choosing" /\ Calm
  /\ {} \in Ready   \* nobody is left to be run
  /\ results' = Finished
  /\ stage' = "returned"
  /\ UNCHANGED <<mode, deps, relevant, agent, cancelled, order, changes>>

-----------------------------------------------------------------------------
(* _execute_agent, and the gather. *)

Set(a, state) == agent' = [agent EXCEPT ![a] = state]
KeepWave == UNCHANGED <<mode, deps, stage, results, order>>

Begin(a) ==
  /\ agent[a] = "created" /\ ~cancelled
  /\ Set(a, Begun(a))
  /\ UNCHANGED <<relevant, cancelled, changes>> /\ KeepWave

\* An answer, or an Err, an exception or the timeout, all of them failures.
AgentEnds(a, how) ==
  /\ agent[a] = "running" /\ how \in {"completed", "failed"}
  /\ Set(a, how)
  /\ UNCHANGED <<relevant, cancelled, changes>> /\ KeepWave

\* A running agent changes the context.
ContextChanges(a, answer) ==
  /\ changes < MaxChanges /\ changes' = changes + 1
  /\ \E b \in Agents : agent[b] = "running"
  /\ relevant[a] # answer
  /\ relevant' = [relevant EXCEPT ![a] = answer]
  /\ UNCHANGED <<agent, cancelled>> /\ KeepWave

\* gather, or the agent that is awaited alone, is cancelled.
Cancel ==
  /\ stage = "wave" /\ ~cancelled
  /\ mode = "sequential" => \E a \in Agents : agent[a] = "running"
  /\ cancelled' = TRUE
  /\ UNCHANGED <<relevant, agent, changes>> /\ KeepWave

Cut(a) ==
  /\ cancelled /\ agent[a] \in {"created", "running"}
  /\ Set(a, "cut")
  /\ UNCHANGED <<relevant, cancelled, changes>> /\ KeepWave

\* return_exceptions: an exception becomes a failure.
Result(a) ==
  IF agent[a] = "idle" THEN results[a]
  ELSE IF agent[a] = "raised" THEN "failed" ELSE agent[a]

\* All tasks are done.  gather raises if it was cancelled, whatever they came
\* to; an agent awaited alone may have won over the cancellation, which is then
\* lost (asyncio.wait_for of Python 3.11), and passes its exception on.
Gathered ==
  LET wave == {a \in Agents : agent[a] # "idle"}
      cut == IF mode = "sequential" THEN \E a \in wave : agent[a] = "cut" ELSE cancelled
      raised == mode = "sequential" /\ \E a \in wave : agent[a] = "raised"
  IN  /\ stage = "wave" /\ \A a \in wave : agent[a] \notin {"created", "running"}
      /\ agent' = Idle /\ cancelled' = FALSE
      /\ IF cut \/ raised
         THEN stage' = (IF cut THEN "cancelled" ELSE "raised") /\ UNCHANGED <<results, order>>
         ELSE /\ results' = [a \in Agents |-> Result(a)]
              /\ order' = order \o SetToSeq(wave)
              /\ stage' = "choosing"
      /\ UNCHANGED <<mode, deps, relevant, changes>>

-----------------------------------------------------------------------------
Step ==
  \/ ConditionRaises \/ StartWave \/ ReturnResult \/ Gathered
  \/ \E a \in Agents : Begin(a) \/ Cut(a)

Next ==
  \/ Construct \/ Start \/ Step
  \/ \E a \in Agents : \E how \in {"completed", "failed"} : AgentEnds(a, how)
  \/ \E a \in Agents, answer \in Answers : ContextChanges(a, answer)
  \/ Cancel

Spec == Init /\ [][Next]_vars

\* Nobody has to construct or execute a workflow, but the event loop runs what
\* is ready.  No agent owes an answer: each has its timeout.
Fairness == WF_vars(Step) /\ \A a \in Agents : WF_vars(AgentEnds(a, "failed"))

-----------------------------------------------------------------------------
(* Properties. *)

\* Some order puts every agent behind its dependencies: in every set of agents
\* one depends on none of them.
Acyclic == \A S \in (SUBSET Agents) \ {{}} : \E a \in S : deps[a] \cap S = {}

\* The depth-first search of _validate_dag rejects the circular graphs and no
\* others.
CyclesRejected ==
  mode = "dag" /\ stage # "new" => (stage = "rejected" <=> ~Acyclic)

\* "Agents with no dependencies run first, then agents that depend on them":
\* nobody is executed twice, or before all it depends on have been.
DependenciesFirst ==
  mode = "dag" =>
    /\ IsInjective(order)
    /\ \A i \in DOMAIN order : \A d \in deps[order[i]] : \E j \in 1..(i - 1) : order[j] = d
    /\ \A a \in Agents : agent[a] # "idle" =>
         a \notin ToSet(order) /\ deps[a] \subseteq ToSet(order)

\* A workflow that returns reports on every agent; only the conditional mode
\* leaves those out that it did not choose.
AllReported ==
  stage = "returned" /\ mode # "conditional" => \A a \in Agents : results[a] # "none"

\* In the dag mode an agent is passed over for its own condition, for a
\* dependency that does not exist, or for one that was itself passed over: a
\* failed dependency is not a reason, nor one skipped in its wave.
SkipsExplained ==
  \A a \in Agents : results[a] = "unsatisfied" =>
    \/ relevant[a] # "yes"
    \/ \E d \in deps[a] : d = Unknown \/ results[d] = "unsatisfied"

\* An execution that is over, by cancellation or exception too, has left no
\* agent running.
NobodyLeftRunning == stage \in Final => agent = Idle

\* What the validation is for: in a graph that was accepted, agents that want to
\* run and whose dependencies exist all get their turn.
NobodyStuck ==
  mode = "dag" /\ stage = "returned" =>
    \/ \E a \in Agents : relevant[a] # "yes" \/ Unknown \in deps[a]
    \/ \A a \in Agents : results[a] # "unsatisfied"

\* Agents are executed in the order the graph asks for, and when an execution
\* is over every agent is over and reported as it deserves.
AgentsAccounted ==
  /\ TypeOK /\ DependenciesFirst /\ AllReported /\ SkipsExplained /\ NobodyStuck
  /\ NobodyLeftRunning

\* execute comes to its end whatever agents and conditions do.
WorkflowEnds == stage \in {"choosing", "wave"} ~> stage \in Final
=============================================================================
