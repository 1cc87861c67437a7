----------------------------- MODULE Delegation -----------------------------
(***************************************************************************)
(* DelegationEngine of dawn_kestrel/delegation/engine.py with the          *)
(* ConvergenceTracker of delegation/convergence.py: one delegation of a    *)
(* tree of agents, breadth first through a worker pool (which a Batch      *)
(* stands for), depth first by recursion, or decision by decision of a     *)
(* DelegationPolicy.  The adaptive mode starts at depth 0 and is the       *)
(* breadth-first one.                                                      *)
(*                                                                         *)
(* An agent's answer is reduced to its novelty signature.  The engine's    *)
(* iteration_count is never incremented, so that boundary never stops      *)
(* anything.  The caller makes an engine for each delegation, as           *)
(* DelegateTool does.                                                      *)
(***************************************************************************)
EXTENDS Naturals, Sequences, FiniteSets, SequencesExt

CONSTANTS
  Agents, Root,
  Children,            \* the child specifications of an agent, in order
  Level,               \* how far below the root an agent of the tree is
  Modes,               \* traversals the engine may be configured for
  Totals,              \* values of max_total_agents it may be configured with
  Signatures, NoSignature,
  Subtasks,            \* numbers of subtasks a policy may ask for at a time
  MaxDepth, MaxBreadth, MaxIterations, StagnationThreshold,
  MaxConcurrent

ASSUME DelegationAssumption ==
  /\ IsFiniteSet(Agents) /\ Root \in Agents
  /\ Children \in [Agents -> Seq(Agents \ {Root})]
  /\ Level \in [Agents -> Nat] /\ Level[Root] = 0
  /\ \A a \in Agents : \A i \in DOMAIN Children[a] : Level[Children[a][i]] = Level[a] + 1
  /\ Modes \subseteq {"bfs", "dfs", "policy"}
  /\ NoSignature \notin Signatures /\ Subtasks \subseteq Nat
  /\ Totals \cup {MaxDepth, MaxBreadth, MaxIterations, StagnationThreshold,
                MaxConcurrent} \subseteq Nat \ {0}

VARIABLES
  config,      \* the mode and max_total_agents of the DelegationConfig
  stage,       \* where delegate is
  stack,       \* the activations of _execute_dfs, innermost last
  ctx,         \* the DelegationContext
  conv,        \* the ConvergenceTracker: its last signature and stagnation_count
  job, batch,  \* the children in the worker pool, see Batch
  answers,     \* results_map of the pool, in the order of its keys
  policy,      \* the loop of delegate_with_policy
  timeUp,      \* max_wall_time_seconds have passed
  lost         \* agents whose spawn callback raised, that were cancelled in it,
               \* or that the pool cut off while they ran (observed)

vars == <<config, stage, stack, ctx, conv, job, batch, answers, policy, timeUp, lost>>

mode == config.mode
MaxTotalAgents == config.total

Pool == INSTANCE Batch WITH Jobs <- Agents, Limit <- MaxConcurrent

\* An agent answers with a signature, or with an exception.
Failure == NoSignature
Answers == Signatures \cup {Failure}

Final == {"returned", "error", "cancelled"}
Frame == [node : Agents, child : Nat, at : {"self", "child", "after", "loop"}]

TypeOK ==
  /\ config \in [mode : Modes, total : Totals]
  /\ stage \in {"root", "children", "aborting", "dfs", "deciding", "continue",
                "subtasks", "subtask"} \cup Final
  /\ stack \in Seq(Frame)
  /\ ctx \in [depth : Nat, spawned : Nat, active : Nat, completed : Nat,
              results : Nat, errors : Nat]
  /\ conv \in [last : Answers, stagnation : Nat]
  /\ job \in [Agents -> {"absent", "waiting", "running", "deaf", "done", "failed", "cut"}]
  /\ batch \in {"open", "closing", "closed", "abandoned"}
  /\ answers \in Seq(Answers)
  /\ policy \in [iteration : Nat, depth : Nat, left : Nat]
  /\ timeUp \in BOOLEAN
  /\ lost \in [refused : Nat, unstarted : Nat, cut : Nat]

-----------------------------------------------------------------------------
(* _execute_agent, and what is done with its answer. *)

Spawned(c) == [c EXCEPT !.spawned = @ + 1, !.active = @ + 1]
Gone_Mutant(c) == [c EXCEPT !.active = @ - 1]
Gone(c) == [c EXCEPT !.active = @ - 1, !.completed = @ + 1]

\* context.results or context.errors
Recorded(c, a) == IF a = Failure THEN [c EXCEPT !.errors = @ + 1]
                  ELSE [c EXCEPT !.results = @ + 1]

\* ConvergenceTracker.check_novelty of one answer.
Novelty(t, a) ==
  IF a = Failure THEN t
  ELSE IF a = t.last THEN [t EXCEPT !.stagnation = @ + 1]
  ELSE [last |-> a, stagnation |-> 0]

Converged(t) == t.stagnation >= StagnationThreshold

\* _check_boundaries
Boundary(c, t) ==
  \/ timeUp \/ c.depth >= MaxDepth \/ c.spawned >= MaxTotalAgents \/ Converged(t)

Init ==
  /\ config \in [mode : Modes, total : Totals]
  /\ stage = CASE mode = "bfs" -> "root" [] mode = "dfs" -> "dfs"
               [] mode = "policy" -> "deciding"
  /\ stack = IF mode = "dfs" THEN <<[node |-> Root, child |-> 0, at |-> "self"]>>
             ELSE << >>
  /\ LET fresh == [depth |-> 0, spawned |-> 0, active |-> 0, completed |-> 0,
                   results |-> 0, errors |-> 0]
     IN  ctx = IF mode = "policy" THEN fresh ELSE Spawned(fresh)
  /\ conv = [last |-> NoSignature, stagnation |-> 0]
  /\ job = [a \in Agents |-> "absent"] /\ batch = "closed"
  /\ answers = << >>
  /\ policy = [iteration |-> 0, depth |-> 0, left |-> 0]
  /\ timeUp = FALSE
  /\ lost = [refused |-> 0, unstarted |-> 0, cut |-> 0]

TimeUp ==
  /\ ~timeUp /\ timeUp' = TRUE
  /\ UNCHANGED <<config, stage, stack, ctx, conv, job, batch, answers, policy, lost>>

-----------------------------------------------------------------------------
(* Breadth first. *)

\* children[:max_breadth][:agents_remaining]
ChildrenToRun(c) ==
  LET cap == IF MaxBreadth < MaxTotalAgents - c.spawned THEN MaxBreadth
             ELSE MaxTotalAgents - c.spawned
  IN  {Children[Root][i] : i \in {n \in DOMAIN Children[Root] : n <= cap}}

\* The root answers a; its children go to the pool, or nothing more is done.
RootAnswers(a) ==
  /\ stage = "root"
  /\ LET c == Recorded(Gone(ctx), a)
         t == Novelty(conv, a)
         stop == Boundary(c, t) \/ Children[Root] = << >> \/ c.depth + 1 >= MaxDepth
     IN  /\ conv' = t
         /\ IF stop THEN ctx' = c /\ stage' = "returned" /\ UNCHANGED <<job, batch>>
            ELSE /\ ctx' = [c EXCEPT !.depth = @ + 1]
                 /\ stage' = "children"
                 /\ job' = [b \in Agents |-> IF b \in ChildrenToRun(c) THEN "waiting"
                                             ELSE "absent"]
                 /\ batch' = "open"
  /\ UNCHANGED <<config, stack, answers, policy, timeUp, lost>>

KeepBfs == UNCHANGED <<config, stack, conv, policy, timeUp>>
KeepStage == UNCHANGED stage /\ KeepBfs

\* A worker takes the child up.  A batch whose caller was cancelled too early
\* goes on behind its back.
ChildBegins(j) ==
  /\ \E how \in Pool!Running : Pool!Begin(j, how)
  /\ ctx' = Spawned(ctx)
  /\ UNCHANGED <<answers, lost>> /\ KeepStage

\* The child's answer is put into results_map.
ChildEnds(j, a) ==
  /\ Pool!End(j, IF a = Failure THEN "failed" ELSE "done")
  /\ ctx' = Gone(ctx)
  /\ answers' = Append(answers, a)
  /\ UNCHANGED lost /\ KeepStage

\* on_agent_spawn raises, outside the try of _execute_agent: the worker fails
\* the task, and the agent is neither counted out nor reported.
ChildRefused(j) ==
  /\ Pool!End(j, "failed")
  /\ lost' = [lost EXCEPT !.refused = @ + 1]
  /\ UNCHANGED <<ctx, answers>> /\ KeepStage

\* pool.stop cancels the child's worker.  The finally counts the agent out, but
\* for one that is still in on_agent_spawn, which is outside the try.
ChildCut(j) ==
  /\ Pool!Cut(j)
  /\ \/ ctx' = Gone(ctx) /\ lost' = [lost EXCEPT !.cut = @ + 1]
     \/ lost' = [lost EXCEPT !.unstarted = @ + 1] /\ UNCHANGED ctx
  /\ UNCHANGED answers /\ KeepStage

KeepAgents == UNCHANGED <<ctx, answers, lost>>

\* As if the children were awaited without the wall time.
PoolStops_Mutant ==
  /\ stage = "children" /\ Pool!Close
  /\ \A j \in Agents : job[j] \in Pool!Ended \cup {"absent"}
  /\ KeepAgents /\ KeepStage

\* wait_for_completion answers Ok, or gives up after max_wall_time_seconds.
\* Nobody looks at its answer.
PoolStops ==
  /\ stage = "children" /\ Pool!Close
  /\ timeUp \/ \A j \in Agents : job[j] \in Pool!Ended \cup {"absent"}
  /\ KeepAgents /\ KeepStage

\* The caller is cancelled while it waits for the children: the pool is stopped,
\* and nothing is collected.
WaitCancelled ==
  /\ stage = "children" /\ Pool!Close
  /\ stage' = "aborting"
  /\ KeepAgents /\ KeepBfs

Stopping == stage \in {"children", "aborting"}

\* It is cancelled in pool.stop, before any worker has been told: the children
\* go on.
StopUnbegun ==
  /\ Stopping /\ Pool!Abandon
  /\ stage' = "cancelled"
  /\ KeepAgents /\ KeepBfs

\* It is cancelled in pool.stop later: every worker is cancelled once more.
StopCancelled ==
  /\ Stopping /\ Pool!CancelAgain
  /\ stage' = "aborting"
  /\ KeepAgents /\ KeepBfs

\* results_map is gone through: the context and the tracker after n answers.
Collected ==
  LET after[n \in 0 .. Len(answers)] ==
        IF n = 0 THEN [ctx |-> ctx, conv |-> conv]
        ELSE [ctx |-> Recorded(after[n - 1].ctx, answers[n]),
              conv |-> Novelty(after[n - 1].conv, answers[n])]
  IN  after[Len(answers)]

Collect ==
  /\ stage = "children" /\ Pool!Closed
  /\ ctx' = Collected.ctx
  /\ conv' = Collected.conv
  /\ stage' = "returned"
  /\ UNCHANGED <<config, stack, answers, policy, timeUp, lost>>

\* The CancelledError goes on once the pool has stopped.
Aborts ==
  /\ stage = "aborting" /\ Pool!Closed
  /\ stage' = "cancelled"
  /\ KeepAgents /\ KeepBfs

-----------------------------------------------------------------------------
(* Depth first. *)

Top == stack[Len(stack)]
Kids == Children[Top.node]
SetTop(f) == [stack EXCEPT ![Len(stack)] = f]
KeepDfs == UNCHANGED <<config, job, batch, answers, policy, timeUp>>

\* The innermost activation returns: its caller is behind its own child, or
\* delegate is done.
Pop == /\ stack' = Front(stack)
       /\ stage' = IF Len(stack) = 1 THEN "returned" ELSE stage

\* The finally of an activation that went through its children.
LeaveLevel_Mutant(c) == ctx' = c /\ Pop
LeaveLevel(c) == ctx' = [c EXCEPT !.depth = @ - 1] /\ Pop

\* A return before the try whose finally counts the level out.
EarlyReturn(c) == ctx' = c /\ Pop

\* The agent of the activation answers.
SelfAnswers(a) ==
  /\ stage = "dfs" /\ Top.at = "self"
  /\ LET c == Recorded(Gone(ctx), a)
         t == Novelty(conv, a)
     IN  /\ conv' = t
         /\ IF Boundary(c, t) \/ Kids = << >> \/ c.depth + 1 >= MaxDepth
            THEN EarlyReturn(c)
            ELSE /\ ctx' = [c EXCEPT !.depth = @ + 1]
                 /\ stack' = SetTop([Top EXCEPT !.at = "loop", !.child = 1])
                 /\ UNCHANGED stage
  /\ UNCHANGED lost /\ KeepDfs

\* The head of the loop over the children.
NextChild ==
  /\ stage = "dfs" /\ Top.at = "loop"
  /\ IF \/ Top.child > Len(Kids)
        \/ ctx.spawned >= MaxTotalAgents
        \/ Boundary(ctx, conv)
     THEN LeaveLevel(ctx)
     ELSE /\ ctx' = Spawned(ctx)
          /\ stack' = SetTop([Top EXCEPT !.at = "child"])
          /\ UNCHANGED stage
  /\ UNCHANGED <<conv, lost>> /\ KeepDfs

\* A child with children of its own becomes the agent of a new activation,
\* which executes it once more.
ChildAnswers(a) ==
  /\ stage = "dfs" /\ Top.at = "child"
  /\ conv' = Novelty(conv, a)
  /\ LET kid == Kids[Top.child]
         c == Recorded(Gone(ctx), a)
         back == SetTop([Top EXCEPT !.at = "after"])
     IN  IF Children[kid] = << >> THEN ctx' = c /\ stack' = back
         ELSE /\ ctx' = Spawned(c)
              /\ stack' = Append(back, [node |-> kid, child |-> 0, at |-> "self"])
  /\ UNCHANGED <<stage, lost>> /\ KeepDfs

AfterChild ==
  /\ stage = "dfs" /\ Top.at = "after"
  /\ IF Converged(conv) THEN LeaveLevel(ctx)
     ELSE /\ stack' = SetTop([Top EXCEPT !.at = "loop", !.child = @ + 1])
          /\ UNCHANGED <<ctx, stage>>
  /\ UNCHANGED <<conv, lost>> /\ KeepDfs

\* on_agent_spawn raises: the loop over the children that spawned the agent,
\* here or one activation further out, takes it for the child's error.
Refused ==
  /\ stage = "dfs" /\ Top.at \in {"self", "child"}
  /\ lost' = [lost EXCEPT !.refused = @ + 1]
  /\ LET rest == IF Top.at = "self" THEN Front(stack) ELSE stack
         top == rest[Len(rest)]
     IN  IF rest = << >> THEN stage' = "error" /\ stack' = rest /\ UNCHANGED ctx
         ELSE /\ ctx' = [ctx EXCEPT !.errors = @ + 1]
              /\ stack' = [rest EXCEPT ![Len(rest)] =
                             [top EXCEPT !.at = "loop", !.child = @ + 1]]
              /\ UNCHANGED stage
  /\ UNCHANGED conv /\ KeepDfs

-----------------------------------------------------------------------------
(* delegate_with_policy. *)

KeepPolicy == UNCHANGED <<config, stack, conv, job, batch, answers, timeUp>>

\* The end of a turn of the loop, with the policy context p.
Turn(p) ==
  /\ policy' = [p EXCEPT !.iteration = @ + 1]
  /\ stage' = IF p.iteration + 1 >= MaxIterations THEN "returned" ELSE "deciding"

\* DONE, CONTINUE with the agent itself, SYNTHESIZE, or DELEGATE some subtasks.
Decides ==
  /\ stage = "deciding"
  /\ \/ stage' = "returned" /\ UNCHANGED <<ctx, policy>>
     \/ stage' = "error" /\ UNCHANGED <<ctx, policy>>
     \/ stage' = "continue" /\ ctx' = Spawned(ctx) /\ UNCHANGED policy
     \/ Turn(policy) /\ UNCHANGED ctx
     \/ \E n \in Subtasks :
          /\ stage' = "subtasks" /\ policy' = [policy EXCEPT !.left = n]
          /\ UNCHANGED ctx
  /\ UNCHANGED lost /\ KeepPolicy

\* The loop over the subtasks.
NextSubtask ==
  /\ stage = "subtasks"
  /\ IF policy.left = 0 \/ policy.depth >= MaxDepth
     THEN Turn([policy EXCEPT !.depth = @ + 1, !.left = 0]) /\ UNCHANGED ctx
     ELSE /\ stage' = "subtask" /\ policy' = [policy EXCEPT !.left = @ - 1]
          /\ ctx' = Spawned(ctx)
  /\ UNCHANGED lost /\ KeepPolicy

PolicyAnswers(a) ==
  /\ stage \in {"continue", "subtask"}
  /\ ctx' = Recorded(Gone(ctx), a)
  /\ IF stage = "continue" THEN Turn(policy)
     ELSE stage' = "subtasks" /\ UNCHANGED policy
  /\ UNCHANGED lost /\ KeepPolicy

-----------------------------------------------------------------------------
\* on_agent_spawn raises with no loop to catch it: delegate answers Err.
SpawnRaises ==
  /\ stage \in {"root", "continue", "subtask"}
  /\ stage' = "error"
  /\ lost' = [lost EXCEPT !.refused = @ + 1]
  /\ UNCHANGED <<config, stack, ctx, conv, job, batch, answers, policy, timeUp>>

\* The caller is cancelled while an agent runs in its own coroutine, or is still
\* in on_agent_spawn: every finally on the way out is passed.
Cancelled ==
  /\ \/ stage \in {"root", "continue", "subtask"}
     \/ stage = "dfs" /\ Top.at \in {"self", "child"}
  /\ stage' = "cancelled"
  /\ \E c \in {Gone(ctx), ctx} :
       /\ ctx' = [c EXCEPT !.depth =
                    @ - Cardinality({i \in DOMAIN stack : stack[i].at # "self"})]
       /\ lost' = IF c = ctx THEN [lost EXCEPT !.unstarted = @ + 1] ELSE lost
  /\ stack' = << >>
  /\ UNCHANGED <<config, conv, job, batch, answers, policy, timeUp>>

AgentAnswers == \E a \in Answers :
  \/ RootAnswers(a) \/ SelfAnswers(a) \/ ChildAnswers(a) \/ PolicyAnswers(a)

Loops == NextChild \/ AfterChild \/ Decides \/ NextSubtask \/ Collect \/ Aborts

Next ==
  \/ AgentAnswers \/ Loops \/ PoolStops \/ WaitCancelled \/ StopUnbegun \/ StopCancelled
  \/ \E j \in Agents : ChildBegins(j) \/ ChildRefused(j) \/ ChildCut(j)
                         \/ \E a \in Answers : ChildEnds(j, a)
  \/ Refused \/ SpawnRaises \/ Cancelled \/ TimeUp

Spec == Init /\ [][Next]_vars

\* Agents that run in the engine's own coroutine answer; those in the pool
\* need not, the wall time passes and stops their workers.  A worker that has
\* swallowed its cancellation cannot be cut (see Batch).
FairSpec ==
  /\ Spec
  /\ WF_vars(AgentAnswers) /\ WF_vars(Loops) /\ WF_vars(PoolStops) /\ WF_vars(TimeUp)
  /\ \A j \in Agents : WF_vars(ChildCut(j))

-----------------------------------------------------------------------------
(* Properties. *)

\* The agents that run, in the pool, or on top of the stack.
InTree ==
  Pool!RunningJobs \cup
    CASE stage = "root" -> {Root}
      [] stage = "dfs" -> CASE Top.at = "self" -> {Top.node}
                            [] Top.at = "child" -> {Kids[Top.child]}
                            [] OTHER -> {}
      [] OTHER -> {}

\* "Test that max_depth boundary is never exceeded" (test_guarantees.py): the
\* counter follows the recursion through errors, early returns and repeated
\* executions, so no agent below the limit is ever executed.
DepthLimit ==
  \A a \in InTree : Level[a] < MaxDepth /\ (mode = "dfs" => ctx.depth = Level[a])

\* The depth counter is back where it was, however the delegation ended.
DepthRestored == mode = "dfs" /\ stage \in Final => ctx.depth = 0

\* max_total_agents holds for the breadth-first traversal.  The depth-first one
\* executes a child with children a second time without asking, so it may go
\* one beyond, and never further.  delegate_with_policy does not look at it.
AgentLimit ==
  /\ mode = "bfs" => ctx.spawned <= MaxTotalAgents
  /\ mode = "dfs" => ctx.spawned <= MaxTotalAgents + 1

\* Only repeated answers make a delegation stop as converged.
ConvergedMeansRepeated ==
  Converged(conv) => ctx.results > StagnationThreshold

\* No agent runs below max_depth, wherever the recursion is left; the traversals
\* spend max_total_agents and at most one agent more; and a delegation does not
\* converge before answers repeat.
BoundariesHold ==
  TypeOK /\ DepthLimit /\ DepthRestored /\ AgentLimit /\ ConvergedMeansRepeated

\* Agents are counted in and out once: what the context calls active runs, or
\* was refused by its spawn callback or cancelled in it, and never more run than
\* may.  It stays so when the caller is gone and the pool works on.
Counted ==
  LET running == Cardinality(InTree)
                   + IF stage \in {"continue", "subtask"} THEN 1 ELSE 0
  IN  /\ ctx.active = running + lost.refused + lost.unstarted
      /\ ctx.spawned = ctx.active + ctx.completed
      /\ running <= MaxConcurrent

\* Whatever was executed is reported once, as a result or as an error, but for
\* children of the pool that were cut off or refused.
Reported ==
  stage = "returned" =>
    /\ ctx.results + ctx.errors + lost.cut
         = ctx.completed + IF mode = "dfs" THEN lost.refused ELSE 0
    /\ mode # "bfs" => lost.cut = 0 /\ lost.unstarted = 0
    /\ Pool!RunningJobs = {}

\* Every agent is accounted for, while it runs and when it is over.
Accounted == Counted /\ Reported

\* A delegation comes to its end: the recursion, the policy's loop and the pool
\* with children that never answer, unless one of these began when its worker
\* had already swallowed the cancellation that was to stop it.
DelegationEnds ==
  <>(stage \in Final \/ [](\E j \in Agents : job[j] = "deaf"))

\* "Test that max_total_agents boundary is never exceeded"
\* (TestMaxTotalAgentsGuarantee of tests/delegation/test_guarantees.py, which
\* asks it of both traversals).
AgentLimitNeverExceeded == ctx.spawned <= MaxTotalAgents
=============================================================================
