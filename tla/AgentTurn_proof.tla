-------------------------- MODULE AgentTurn_proof ---------------------------
(***************************************************************************)
(* For any number of executions of a session, tools and turns: an          *)
(* execution numbers its own messages apart, no tool call outlives the     *)
(* reply it belongs to, the provider is asked with the question unless it  *)
(* was lost, written over or not read, and subscribers and the caller are  *)
(* told what happened.                                                     *)
(***************************************************************************)
EXTENDS AgentTurn, TLAPS

ToolStates == {"none", "created", "starting", "running", "completing", "erroring",
               "ended", "raised"}
Unsettled == ToolStates \ {"none", "ended", "raised"}

\* The types, but for the bound of Ids: that is a consequence of Turning, below.
LooseRun == [stage : Stages, counter : Nat, iteration : Nat, looping : BOOLEAN,
             asked : BOOLEAN, lost : BOOLEAN, unread : BOOLEAN, replies : Nat, acted : BOOLEAN,
             counted : Seq(Nat), wrote : Seq(Nat), recent : SUBSET Tools,
             cancelled : BOOLEAN, doomed : SUBSET Tools, events : Seq(Events)]

Typed ==
  /\ run \in [Runs -> LooseRun]
  /\ tool \in [Runs -> [Tools -> ToolStates]]
  /\ active \in [Runs -> SUBSET Tools]

-----------------------------------------------------------------------------
\* Steps that only publish and move on.
LEMMA GotoTyped ==
  ASSUME Typed, NEW r \in Runs, NEW stage \in Stages, NEW events \in Seq(Events),
         Goto(r, stage, events)
  PROVE  run' \in [Runs -> LooseRun]
<1> DEFINE next == [run[r] EXCEPT !.stage = stage, !.events = @ \o events]
<1>1. run[r] \in LooseRun
  BY DEF Typed
<1>2. run[r].events \o events \in Seq(Events)
  BY <1>1 DEF LooseRun
<1>3. next \in LooseRun
  BY <1>1, <1>2 DEF LooseRun
<1>4. [next EXCEPT !.counter = 0, !.iteration = 0, !.recent = {}, !.asked = FALSE,
                   !.lost = FALSE, !.unread = FALSE] \in LooseRun
  BY <1>3 DEF LooseRun
<1>. QED BY <1>3, <1>4 DEF Goto, Typed

\* The turn after a reply.
LEMMA TurnedTyped ==
  ASSUME NEW r \in Runs, NEW next \in LooseRun
  PROVE  /\ Turned(r, next) \in LooseRun
         /\ Turned(r, next).wrote = next.wrote /\ Turned(r, next).counter = next.counter
         /\ Turned(r, next).doomed = next.doomed
         /\ Turned(r, next).stage \in {"turn", "closing"}
<1> DEFINE in == [next EXCEPT !.counted =
                    IF next.looping THEN Append(@, next.replies) ELSE @]
<1>1. Append(next.counted, next.replies) \in Seq(Nat)
  BY DEF LooseRun
<1>2. in \in LooseRun
  BY <1>1 DEF LooseRun
<1>3. Append(in.counted, next.replies) \in Seq(Nat)
  BY <1>2 DEF LooseRun
<1>4. [in EXCEPT !.stage = "turn", !.iteration = @ + 1] \in LooseRun
  <2>. HIDE DEF in
  <2>1. in.iteration + 1 \in Nat
    BY <1>2 DEF LooseRun
  <2>2. \A n \in Nat : [in EXCEPT !.stage = "turn", !.iteration = n] \in LooseRun
    BY <1>2 DEF LooseRun, Stages
  <2>. QED BY <2>1, <2>2
<1>5. [in EXCEPT !.stage = "closing", !.counted = Append(@, next.replies)] \in LooseRun
  BY <1>2, <1>3 DEF LooseRun, Stages
<1>6. /\ in.wrote = next.wrote /\ in.counter = next.counter /\ in.doomed = next.doomed
      /\ DOMAIN in = DOMAIN next
  BY DEF LooseRun
<1>7. Turned(r, next) = IF next.looping /\ next.acted
                        THEN [in EXCEPT !.stage = "turn", !.iteration = @ + 1]
                        ELSE [in EXCEPT !.stage = "closing", !.counted = Append(@, next.replies)]
  BY DEF Turned
<1>8. {"stage", "wrote", "counter", "doomed"} \subseteq DOMAIN next
  BY DEF LooseRun
<1>. HIDE DEF in
<1>. QED BY <1>4, <1>5, <1>6, <1>7, <1>8

\* What the steps of a tool call have in common.
LEMMA ToolStepForm ==
  ASSUME Typed, NEW r \in Runs, NEW t \in Tools, ToolStep(r, t)
  PROVE  /\ tool[r][t] \in Unsettled
         /\ \E s \in ToolStates :
              /\ tool' = [tool EXCEPT ![r][t] = s]
              /\ \/ tool[r][t] = "created" /\ active' = active
                 \/ /\ s \in {"running", "completing", "erroring"}
                    /\ \/ active' = active
                       \/ active' = [active EXCEPT ![r] = @ \cup {t}]
                 \/ active' = [active EXCEPT ![r] = @ \ {t}]
         /\ \/ t \notin run[r].doomed /\ run' = run
            \/ run' = [run EXCEPT ![r].doomed = @ \ {t}]
<1>. USE DEF Set, InTool, KeepRun, Unsettled, ToolStates
<1>1. CASE UnknownTool(r, t)
  BY <1>1 DEF UnknownTool
<1>2. CASE ToolStarts(r, t)
  BY <1>2 DEF ToolStarts
<1>3. CASE ToolRuns(r, t)
  BY <1>3 DEF ToolRuns
<1>4. CASE ToolReturns(r, t)
  BY <1>4 DEF ToolReturns
<1>5. CASE ToolRaises(r, t)
  BY <1>5 DEF ToolRaises
<1>6. CASE ToolEnds(r, t)
  BY <1>6 DEF ToolEnds
<1>7. CASE ToolCancelled(r, t)
  BY <1>7 DEF ToolCancelled
<1>. QED BY <1>1, <1>2, <1>3, <1>4, <1>5, <1>6, <1>7 DEF ToolStep

\* A step of a tool call.
LEMMA ToolStepTyped ==
  ASSUME Typed, NEW r \in Runs, NEW t \in Tools, ToolStep(r, t)
  PROVE  Typed'
<1>1. PICK s \in ToolStates :
        /\ tool' = [tool EXCEPT ![r][t] = s]
        /\ \/ active' = active
           \/ active' = [active EXCEPT ![r] = @ \cup {t}]
           \/ active' = [active EXCEPT ![r] = @ \ {t}]
  BY ToolStepForm
<1>2. run' = run \/ run' = [run EXCEPT ![r].doomed = @ \ {t}]
  BY ToolStepForm
<1>3. tool' \in [Runs -> [Tools -> ToolStates]]
  BY <1>1 DEF Typed
<1>4. active' \in [Runs -> SUBSET Tools]
  BY <1>1 DEF Typed
<1>5. [run[r] EXCEPT !.doomed = run[r].doomed \ {t}] \in LooseRun
  <2>1. run[r] \in LooseRun
    BY DEF Typed
  <2>. QED BY <2>1 DEF LooseRun
<1>6. run' \in [Runs -> LooseRun]
  BY <1>2, <1>5 DEF Typed
<1>. QED BY <1>3, <1>4, <1>6 DEF Typed

\* At the start nothing has begun.
LEMMA TypedInit == Init => Typed
<1>1. Start \in LooseRun
  BY DEF Start, LooseRun, Stages, Final
<1>. QED BY <1>1 DEF Init, Typed, NoTools, ToolStates

\* The steps of an execution other than those of its tool calls.
RunStep(r) ==
  \/ execute_agent(r) \/ Refuse(r) \/ Ready(r) \/ Executing(r) \/ Gathered(r)
  \/ \E read \in BOOLEAN : List(r, read)
  \/ LeaveLoop(r) \/ Close(r) \/ CloseHookRaises(r) \/ Raises(r) \/ Fail(r) \/ Cancel(r)
  \/ \E written \in BOOLEAN : Ask(r, written) \/ AskAnyway(r, written)
  \/ \E written, raises \in BOOLEAN : Write(r, written, raises)
  \/ \E calls \in SUBSET Allowed[r], fresh \in SUBSET run[r].recent : Reply(r, calls, fresh)

\* Every step is one of an execution or of one of its tool calls.
LEMMA NextSplits ==
  ASSUME Next
  PROVE  \E r \in Runs : RunStep(r) \/ \E t \in Tools : ToolStep(r, t)
BY DEF Next, Advance, RunStep

\* A step of an execution.
LEMMA RunStepTyped ==
  ASSUME Typed, NEW r \in Runs, RunStep(r)
  PROVE  run' \in [Runs -> LooseRun]
<1>0. run[r] \in LooseRun
  BY DEF Typed
<1>1. ASSUME NEW stage \in Stages, NEW events \in Seq(Events), Goto(r, stage, events)
      PROVE  run' \in [Runs -> LooseRun]
  BY <1>1, GotoTyped
<1>2. /\ <<"error">> \in Seq(Events) /\ <<"initialized">> \in Seq(Events)
      /\ <<"ready">> \in Seq(Events) /\ <<"executing">> \in Seq(Events)
      /\ <<"cleanup">> \in Seq(Events) /\ << >> \in Seq(Events)
  BY DEF Events
<1>3. CASE \/ execute_agent(r) \/ Refuse(r) \/ Ready(r) \/ Executing(r)
           \/ Close(r) \/ CloseHookRaises(r) \/ Raises(r) \/ Fail(r)
  BY <1>1, <1>2, <1>3 DEF execute_agent, Refuse, Ready, Executing, Close, CloseHookRaises,
     Raises, Fail, Stages, Final
<1>4. ASSUME NEW read \in BOOLEAN, List(r, read) PROVE run' \in [Runs -> LooseRun]
  <2>1. \A a, b \in BOOLEAN :
          [run[r] EXCEPT !.stage = "asking", !.counter = Count(r), !.unread = a, !.asked = b]
             \in LooseRun
    <3>1. Count(r) \in Nat
      BY <1>0 DEF LooseRun, Count
    <3>. QED BY <1>0, <3>1 DEF LooseRun, Stages
  <2> DEFINE b == read /\ ~run[r].lost /\ \E i \in Ids : disk[i] = Question(r)
  <2>2. b \in BOOLEAN /\ (~read) \in BOOLEAN
    OBVIOUS
  <2>3. run' = [run EXCEPT ![r] = [run[r] EXCEPT !.stage = "asking", !.counter = Count(r),
                                                 !.unread = ~read, !.asked = b]]
    BY <1>4 DEF List, Typed
  <2>. HIDE DEF b
  <2>. QED BY <2>1, <2>2, <2>3 DEF Typed
<1>5. CASE Gathered(r)
  <2>1. \A b \in BOOLEAN : [run[r] EXCEPT !.stage = "writing", !.acted = b] \in LooseRun
    BY <1>0 DEF LooseRun, Stages
  <2>2. CASE run[r].cancelled
    BY <1>1, <1>2, <1>5, <2>2 DEF Gathered, Stages, Final
  <2>3. CASE ~run[r].cancelled
    <3>1. (\E t \in Tools : tool[r][t] = "ended") \in BOOLEAN
      OBVIOUS
    <3>. QED BY <1>5, <2>1, <2>3, <3>1 DEF Gathered, Typed
  <2>. QED BY <2>2, <2>3
<1>6. CASE LeaveLoop(r)
  <2>1. Append(run[r].counted, run[r].replies) \in Seq(Nat)
    BY <1>0 DEF LooseRun
  <2>2. [run[r] EXCEPT !.stage = "closing", !.counted = Append(@, run[r].replies)] \in LooseRun
    BY <1>0, <2>1 DEF LooseRun, Stages
  <2>. QED BY <1>6, <2>2 DEF LeaveLoop, Typed
<1>7. CASE Cancel(r)
  <2>1. \A d \in SUBSET Tools : [run[r] EXCEPT !.cancelled = TRUE, !.doomed = d] \in LooseRun
    BY <1>0 DEF LooseRun
  <2>2. CASE At(r, "tools")
    <3> DEFINE d == {t \in Tools : tool[r][t] \notin {"none", "ended", "raised"}}
    <3>1. run' = [run EXCEPT ![r] = [run[r] EXCEPT !.cancelled = TRUE, !.doomed = d]]
      BY <1>7, <2>2 DEF Cancel, Typed
    <3>2. [run[r] EXCEPT !.cancelled = TRUE, !.doomed = d] \in LooseRun
      BY <2>1
    <3>. QED BY <3>1, <3>2 DEF Typed
  <2>3. CASE ~At(r, "tools")
    BY <1>1, <1>2, <1>7, <2>3 DEF Cancel, Stages, Final
  <2>. QED BY <2>2, <2>3
<1>8. ASSUME NEW written \in BOOLEAN, Ask(r, written) \/ AskAnyway(r, written)
      PROVE  run' \in [Runs -> LooseRun]
  <2>1. \A b \in BOOLEAN :
          /\ [run[r] EXCEPT !.stage = "listing", !.lost = b] \in LooseRun
          /\ [run[r] EXCEPT !.stage = "listing", !.lost = b, !.looping = FALSE] \in LooseRun
    BY <1>0 DEF LooseRun, Stages
  <2>2. (~written) \in BOOLEAN
    OBVIOUS
  <2>3. ASSUME NEW next \in LooseRun, AddMessage(r, next, written)
        PROVE  run' \in [Runs -> LooseRun]
    <3>1. Append(next.wrote, next.counter) \in Seq(Nat)
      BY DEF LooseRun
    <3>2. [next EXCEPT !.wrote = Append(@, next.counter)] \in LooseRun
      BY <3>1 DEF LooseRun
    <3>. QED BY <2>3, <3>2 DEF AddMessage, Typed
  <2>4. CASE Ask(r, written)
    BY <2>1, <2>2, <2>3, <2>4 DEF Ask
  <2>5. CASE AskAnyway(r, written)
    BY <2>1, <2>2, <2>3, <2>5 DEF AskAnyway
  <2>. QED BY <1>8, <2>4, <2>5
<1>9. ASSUME NEW written \in BOOLEAN, NEW raises \in BOOLEAN, Write(r, written, raises)
      PROVE  run' \in [Runs -> LooseRun]
  <2> DEFINE next == IF raises THEN [run[r] EXCEPT !.stage = "failing"] ELSE Turned(r, run[r])
  <2>1. [run[r] EXCEPT !.stage = "failing"] \in LooseRun
    BY <1>0 DEF LooseRun, Stages
  <2>2. next \in LooseRun
    BY <1>0, <2>1, TurnedTyped
  <2>. HIDE DEF next
  <2>3. CountTwice(r) \in Nat /\ Append(next.wrote, run[r].counter) \in Seq(Nat)
    BY <1>0, <2>2 DEF CountTwice, LooseRun
  <2>4. [next EXCEPT !.counter = CountTwice(r),
                     !.wrote = IF written THEN Append(@, run[r].counter) ELSE @] \in LooseRun
    BY <2>2, <2>3 DEF LooseRun
  <2>5. run' = [run EXCEPT ![r] = [next EXCEPT !.counter = CountTwice(r),
                     !.wrote = IF written THEN Append(@, run[r].counter) ELSE @]]
    BY <1>9 DEF Write, next
  <2>. QED BY <2>4, <2>5 DEF Typed
<1>10. ASSUME NEW calls \in SUBSET Allowed[r], NEW fresh \in SUBSET run[r].recent,
              Reply(r, calls, fresh)
       PROVE  run' \in [Runs -> LooseRun]
  <2>1. fresh \cup calls \in SUBSET Tools
    BY <1>0, TurnAssumption DEF LooseRun
  <2>2. \A s \in {"writing", "tools"} :
          [run[r] EXCEPT !.stage = s, !.recent = fresh \cup calls, !.replies = @ + 1,
                         !.acted = FALSE] \in LooseRun
    <3>1. run[r].replies + 1 \in Nat
      BY <1>0 DEF LooseRun
    <3>. QED BY <1>0, <2>1, <3>1 DEF LooseRun, Stages
  <2>. QED BY <1>10, <2>2 DEF Reply, Typed
<1>. QED BY <1>3, <1>4, <1>5, <1>6, <1>7, <1>8, <1>9, <1>10 DEF RunStep

\* A step of one execution leaves the others alone.
LEMMA OthersUntouched ==
  ASSUME Typed, NEW r \in Runs, RunStep(r) \/ (\E t \in Tools : ToolStep(r, t)),
         NEW q \in Runs \ {r}
  PROVE  run'[q] = run[q] /\ tool'[q] = tool[q] /\ active'[q] = active[q]
<1>. USE DEF Typed, KeepTools, Goto
<1>1. CASE \E t \in Tools : ToolStep(r, t)
  BY <1>1, ToolStepForm
<1>2. CASE \/ execute_agent(r) \/ Refuse(r) \/ Ready(r) \/ Executing(r)
           \/ Close(r) \/ CloseHookRaises(r) \/ Raises(r) \/ Fail(r)
  BY <1>2 DEF execute_agent, Refuse, Ready, Executing, Close, CloseHookRaises, Raises, Fail
<1>3. CASE (\E read \in BOOLEAN : List(r, read)) \/ Gathered(r) \/ LeaveLoop(r)
  BY <1>3 DEF List, Gathered, LeaveLoop
<1>4. CASE Cancel(r)
  BY <1>4 DEF Cancel
<1>5. CASE \E written \in BOOLEAN : Ask(r, written) \/ AskAnyway(r, written)
  BY <1>5 DEF Ask, AskAnyway, AddMessage
<1>6. CASE \E written, raises \in BOOLEAN : Write(r, written, raises)
  BY <1>6 DEF Write
<1>7. CASE \E calls \in SUBSET Allowed[r], fresh \in SUBSET run[r].recent : Reply(r, calls, fresh)
  BY <1>7 DEF Reply
<1>. QED BY <1>1, <1>2, <1>3, <1>4, <1>5, <1>6, <1>7 DEF RunStep

\* Publishing and moving on changes neither what was written nor the counter.
LEMMA GotoForm ==
  ASSUME Typed, NEW r \in Runs, NEW stage, NEW events, Goto(r, stage, events)
  PROVE  /\ run'[r].stage = stage /\ run'[r].doomed = run[r].doomed
         /\ run'[r].wrote = run[r].wrote
         /\ stage \notin Final => run'[r].counter = run[r].counter
<1> DEFINE next == [run[r] EXCEPT !.stage = stage, !.events = @ \o events]
<1>0. run[r] \in LooseRun
  BY DEF Typed
<1>1. /\ next.stage = stage /\ next.doomed = run[r].doomed /\ next.wrote = run[r].wrote
      /\ next.counter = run[r].counter
      /\ DOMAIN next = DOMAIN run[r]
  BY <1>0 DEF LooseRun
<1>2. run'[r] = IF stage \in Final
                THEN [next EXCEPT !.counter = 0, !.iteration = 0, !.recent = {},
                                  !.asked = FALSE, !.lost = FALSE, !.unread = FALSE]
                ELSE next
  BY DEF Goto, Typed
<1>3. DOMAIN next = DOMAIN [stage |-> 0, counter |-> 0, iteration |-> 0, looping |-> 0,
        asked |-> 0, lost |-> 0, unread |-> 0, replies |-> 0, acted |-> 0, counted |-> 0, wrote |-> 0,
        recent |-> 0, cancelled |-> 0, doomed |-> 0, events |-> 0]
  BY <1>0, <1>1 DEF LooseRun
<1>. HIDE DEF next
<1>. QED BY <1>1, <1>2, <1>3

-----------------------------------------------------------------------------
(* Numbering. *)

\* The counter is ahead of every number the execution has written.  Only
\* between the question's write and the next line of process_message it is not.
Ahead(x) ==
  x.stage \notin Final =>
    \A i \in DOMAIN x.wrote :
      \/ x.wrote[i] < x.counter
      \/ x.stage = "listing" /\ x.wrote[i] = x.counter

Numbered(x) == IsInjective(x.wrote) /\ Ahead(x)

\* One more number, ahead of the others.
LEMMA AppendApart ==
  ASSUME NEW w \in Seq(Nat), NEW n \in Nat, IsInjective(w),
         \A i \in DOMAIN w : w[i] < n
  PROVE  /\ IsInjective(Append(w, n))
         /\ \A i \in DOMAIN Append(w, n) : Append(w, n)[i] <= n
<1> DEFINE v == Append(w, n)
<1>1. /\ DOMAIN v = 1 .. (Len(w) + 1) /\ DOMAIN w = 1 .. Len(w) /\ Len(w) \in Nat
      /\ v[Len(w) + 1] = n /\ \A i \in 1 .. Len(w) : v[i] = w[i] /\ w[i] \in Nat
  OBVIOUS
<1>. HIDE DEF v
<1>2. ASSUME NEW i \in DOMAIN v, NEW j \in DOMAIN v, v[i] = v[j] PROVE i = j
  BY <1>1, <1>2 DEF IsInjective
<1>3. \A i \in DOMAIN v : v[i] <= n
  BY <1>1
<1>4. IsInjective(v)
  BY <1>2 DEF IsInjective
<1>. QED BY <1>3, <1>4 DEF v

\* A message is written, or its write fails, under the number n of the counter.
LEMMA WriteNumbered ==
  ASSUME NEW w \in Seq(Nat), NEW n \in Nat, IsInjective(w), \A i \in DOMAIN w : w[i] < n,
         NEW y, y.wrote = w \/ y.wrote = Append(w, n),
         \/ y.counter = n /\ y.stage = "listing"
         \/ y.counter = n + 2
  PROVE  Numbered(y)
<1>1. \A i \in DOMAIN w : w[i] \in Nat
  OBVIOUS
<1>2. CASE y.wrote = w
  <2>1. \A i \in DOMAIN w : w[i] < y.counter
    BY <1>1
  <2>. QED BY <1>2, <2>1 DEF Numbered, Ahead
<1>3. CASE y.wrote = Append(w, n)
  <2> DEFINE v == Append(w, n)
  <2>1. \A i \in DOMAIN v : v[i] \in Nat
    OBVIOUS
  <2>2. IsInjective(v) /\ \A i \in DOMAIN v : v[i] <= n
    BY AppendApart
  <2>. HIDE DEF v
  <2>3. \A i \in DOMAIN v : \/ v[i] < y.counter
                            \/ y.stage = "listing" /\ v[i] = y.counter
    BY <2>1, <2>2
  <2>4. y.wrote = v
    BY <1>3 DEF v
  <2>. QED BY <2>2, <2>3, <2>4 DEF Numbered, Ahead
<1>. QED BY <1>2, <1>3

\* The counter stays ahead of the identifiers written.
LEMMA RunStepNumbered ==
  ASSUME Typed, NEW r \in Runs, RunStep(r), Numbered(run[r])
  PROVE  Numbered(run'[r])
<1>0. run[r] \in LooseRun /\ run[r].wrote \in Seq(Nat) /\ run[r].counter \in Nat
  BY DEF Typed, LooseRun
<1>1. ASSUME run'[r].wrote = run[r].wrote,
             \/ run'[r].stage \in Final
             \/ /\ run'[r].counter = run[r].counter
                /\ run[r].stage \notin Final \cup {"listing"}
      PROVE  Numbered(run'[r])
  BY <1>0, <1>1 DEF Numbered, Ahead, Final
<1>2. CASE \/ execute_agent(r) \/ Refuse(r) \/ Ready(r) \/ Executing(r)
           \/ Close(r) \/ CloseHookRaises(r) \/ Raises(r) \/ Fail(r)
  BY <1>1, <1>2, GotoForm DEF execute_agent, Refuse, Ready, Executing, Close,
     CloseHookRaises, Raises, Fail, At, Final
<1>3. CASE \E read \in BOOLEAN : List(r, read)
  <2>1. /\ run[r].stage = "listing" /\ run'[r].stage = "asking"
        /\ run'[r].counter = run[r].counter + 1 /\ run'[r].wrote = run[r].wrote
    BY <1>0, <1>3 DEF List, At, Count, Typed, LooseRun
  <2>2. \A i \in DOMAIN run[r].wrote : run[r].wrote[i] \in Nat
    BY <1>0
  <2>3. \A i \in DOMAIN run[r].wrote : run[r].wrote[i] < run[r].counter + 1
    BY <1>0, <2>1, <2>2 DEF Numbered, Ahead, Final
  <2>. QED BY <2>1, <2>3 DEF Numbered, Ahead
<1>4. CASE Gathered(r)
  <2>1. CASE run[r].cancelled
    BY <1>1, <1>4, <2>1, GotoForm DEF Gathered, Final
  <2>2. CASE ~run[r].cancelled
    BY <1>0, <1>1, <1>4, <2>2 DEF Gathered, At, Final, Typed, LooseRun
  <2>. QED BY <2>1, <2>2
<1>5. CASE LeaveLoop(r)
  BY <1>0, <1>1, <1>5 DEF LeaveLoop, At, Final, Typed, LooseRun
<1>6. CASE Cancel(r)
  <2>1. CASE At(r, "tools")
    BY <1>0, <1>1, <1>6, <2>1 DEF Cancel, At, Final, Typed, LooseRun
  <2>2. CASE ~At(r, "tools")
    BY <1>1, <1>6, <2>2, GotoForm DEF Cancel, Final
  <2>. QED BY <2>1, <2>2
<1>7. ASSUME NEW written \in BOOLEAN, Ask(r, written) \/ AskAnyway(r, written)
      PROVE  Numbered(run'[r])
  <2>1. ASSUME NEW next \in LooseRun, next.wrote = run[r].wrote,
               next.counter = run[r].counter, next.stage = "listing",
               AddMessage(r, next, written)
        PROVE  /\ run'[r].stage = "listing" /\ run'[r].counter = run[r].counter
               /\ \/ run'[r].wrote = run[r].wrote
                  \/ run'[r].wrote = Append(run[r].wrote, run[r].counter)
    BY <2>1 DEF AddMessage, Typed, LooseRun
  <2>2. ASSUME NEW b \in BOOLEAN
        PROVE  /\ [run[r] EXCEPT !.stage = "listing", !.lost = b] \in LooseRun
               /\ [run[r] EXCEPT !.stage = "listing", !.lost = b, !.looping = FALSE] \in LooseRun
    BY <1>0 DEF LooseRun, Stages
  <2>3. /\ run[r].stage = "turn"
        /\ run'[r].stage = "listing" /\ run'[r].counter = run[r].counter
        /\ \/ run'[r].wrote = run[r].wrote
           \/ run'[r].wrote = Append(run[r].wrote, run[r].counter)
    <3>1. CASE Ask(r, written)
      <4> DEFINE next == [run[r] EXCEPT !.stage = "listing", !.lost = ~written]
      <4>1. AddMessage(r, next, written) /\ run[r].stage = "turn"
        BY <3>1 DEF Ask, At
      <4>2. next \in LooseRun /\ next.wrote = run[r].wrote /\ next.counter = run[r].counter
              /\ next.stage = "listing"
        BY <1>0, <2>2 DEF LooseRun
      <4>. HIDE DEF next
      <4>. QED BY <2>1, <4>1, <4>2
    <3>2. CASE AskAnyway(r, written)
      <4> DEFINE next == [run[r] EXCEPT !.stage = "listing", !.lost = ~written,
                                        !.looping = FALSE]
      <4>1. AddMessage(r, next, written) /\ run[r].stage = "turn"
        BY <3>2 DEF AskAnyway, At
      <4>2. next \in LooseRun /\ next.wrote = run[r].wrote /\ next.counter = run[r].counter
              /\ next.stage = "listing"
        BY <1>0, <2>2 DEF LooseRun
      <4>. HIDE DEF next
      <4>. QED BY <2>1, <4>1, <4>2
    <3>. QED BY <1>7, <3>1, <3>2
  <2>4. IsInjective(run[r].wrote) /\ \A i \in DOMAIN run[r].wrote : run[r].wrote[i] < run[r].counter
    BY <2>3 DEF Numbered, Ahead, Final
  <2>. QED BY <1>0, <2>3, <2>4, WriteNumbered
<1>8. ASSUME NEW written \in BOOLEAN, NEW raises \in BOOLEAN, Write(r, written, raises)
      PROVE  Numbered(run'[r])
  <2> DEFINE next == IF raises THEN [run[r] EXCEPT !.stage = "failing"] ELSE Turned(r, run[r])
  <2>1. /\ next \in LooseRun /\ next.wrote = run[r].wrote
        /\ next.stage \in {"turn", "closing", "failing"}
    <3>1. /\ [run[r] EXCEPT !.stage = "failing"] \in LooseRun
          /\ [run[r] EXCEPT !.stage = "failing"].wrote = run[r].wrote
          /\ [run[r] EXCEPT !.stage = "failing"].stage = "failing"
      BY <1>0 DEF LooseRun, Stages
    <3>. QED BY <1>0, <3>1, TurnedTyped
  <2>. HIDE DEF next
  <2>2. run'[r] = [next EXCEPT !.counter = CountTwice(r),
                     !.wrote = IF written THEN Append(@, run[r].counter) ELSE @]
    BY <1>8 DEF Write, Typed, next
  <2>3. run[r].stage = "writing"
    BY <1>8 DEF Write, At
  <2>4. run'[r].counter = run[r].counter + 2
    BY <2>1, <2>2 DEF CountTwice, LooseRun
  <2>5. run'[r].wrote = IF written THEN Append(next.wrote, run[r].counter) ELSE next.wrote
    BY <2>1, <2>2 DEF LooseRun
  <2>6. IsInjective(run[r].wrote) /\ \A i \in DOMAIN run[r].wrote : run[r].wrote[i] < run[r].counter
    BY <2>3 DEF Numbered, Ahead, Final
  <2>. QED BY <1>0, <2>1, <2>4, <2>5, <2>6, WriteNumbered
<1>9. ASSUME NEW calls \in SUBSET Allowed[r], NEW fresh \in SUBSET run[r].recent,
             Reply(r, calls, fresh)
      PROVE  Numbered(run'[r])
  <2>1. /\ run[r].stage = "asking" /\ run'[r].counter = run[r].counter
        /\ run'[r].wrote = run[r].wrote
    BY <1>0, <1>9 DEF Reply, At, Typed, LooseRun
  <2>. QED BY <1>1, <2>1 DEF Final
<1>. QED BY <1>2, <1>3, <1>4, <1>5, <1>6, <1>7, <1>8, <1>9 DEF RunStep

\* Tool calls do not count.
LEMMA ToolStepNumbered ==
  ASSUME Typed, NEW r \in Runs, NEW t \in Tools, ToolStep(r, t), Numbered(run[r])
  PROVE  Numbered(run'[r]) /\ run'[r].stage = run[r].stage
<1>0. run[r] \in LooseRun
  BY DEF Typed
<1>1. run' = run \/ run' = [run EXCEPT ![r].doomed = @ \ {t}]
  BY ToolStepForm
<1>2. /\ run'[r].wrote = run[r].wrote /\ run'[r].counter = run[r].counter
      /\ run'[r].stage = run[r].stage
  BY <1>0, <1>1 DEF Typed, LooseRun
<1>. QED BY <1>2 DEF Numbered, Ahead

-----------------------------------------------------------------------------
(* The tool calls. *)

\* The active calls have begun, and there are unsettled ones only while the
\* execution waits for them.
Tidy(r) ==
  /\ \A t \in active[r] : tool[r][t] \in {"running", "completing", "erroring"}
  /\ ~At(r, "tools") => \A t \in Tools : tool[r][t] \notin Unsettled

\* A tool call is active only between its begin and its end.
LEMMA ToolStepTidy ==
  ASSUME Typed, NEW r \in Runs, NEW t \in Tools, ToolStep(r, t), Tidy(r), Numbered(run[r])
  PROVE  Tidy(r)'
<1>1. tool[r][t] \in Unsettled /\ run'[r].stage = "tools"
  BY ToolStepForm, ToolStepNumbered DEF Tidy, At
<1>2. PICK s \in ToolStates :
        /\ tool' = [tool EXCEPT ![r][t] = s]
        /\ \/ tool[r][t] = "created" /\ active' = active
           \/ /\ s \in {"running", "completing", "erroring"}
              /\ \/ active' = active
                 \/ active' = [active EXCEPT ![r] = @ \cup {t}]
           \/ active' = [active EXCEPT ![r] = @ \ {t}]
  BY ToolStepForm
<1>3. tool'[r][t] = s /\ \A u \in Tools \ {t} : tool'[r][u] = tool[r][u]
  BY <1>2 DEF Typed
<1>4. active[r] \subseteq Tools
  BY DEF Typed
<1>5. \A u \in active'[r] : tool'[r][u] \in {"running", "completing", "erroring"}
  <2>1. CASE tool[r][t] = "created" /\ active' = active
    BY <1>3, <1>4, <2>1 DEF Tidy
  <2>2. CASE /\ s \in {"running", "completing", "erroring"}
             /\ \/ active' = active
                \/ active' = [active EXCEPT ![r] = @ \cup {t}]
    <3>1. active'[r] \subseteq active[r] \cup {t}
      BY <2>2 DEF Typed
    <3>. QED BY <1>3, <1>4, <2>2, <3>1 DEF Tidy
  <2>3. CASE active' = [active EXCEPT ![r] = @ \ {t}]
    <3>1. active'[r] = active[r] \ {t}
      BY <2>3 DEF Typed
    <3>. QED BY <1>3, <1>4, <3>1 DEF Tidy
  <2>. QED BY <1>2, <2>1, <2>2, <2>3
<1>. QED BY <1>1, <1>5 DEF Tidy, At

\* What the steps of the execution itself do to the tool calls.
LEMMA RunStepTools ==
  ASSUME Typed, NEW r \in Runs, RunStep(r), Tidy(r)
  PROVE  /\ tool' \in [Runs -> [Tools -> ToolStates]] /\ active' = active
         /\ \/ tool' = tool /\ (~At(r, "tools") \/ Settled(r) \/ At(r, "tools")')
            \/ /\ ~At(r, "tools")
               /\ At(r, "tools")' \/ \A t \in Tools : tool'[r][t] \notin Unsettled
<1>. USE DEF KeepTools, At
<1>1. CASE \/ execute_agent(r) \/ Refuse(r) \/ Ready(r) \/ Executing(r)
           \/ (\E read \in BOOLEAN : List(r, read))
           \/ Gathered(r) \/ LeaveLoop(r) \/ Close(r) \/ CloseHookRaises(r)
           \/ Raises(r) \/ Fail(r)
  BY <1>1 DEF execute_agent, Refuse, Ready, Executing, List, Gathered, LeaveLoop, Close,
     CloseHookRaises, Raises, Fail, Typed
<1>2. CASE Cancel(r)
  <2>1. ASSUME At(r, "tools") PROVE run'[r].stage = "tools"
    BY <1>2, <2>1 DEF Cancel, Typed, LooseRun
  <2>. QED BY <1>2, <2>1 DEF Cancel, Typed
<1>3. CASE \E written \in BOOLEAN : Ask(r, written) \/ AskAnyway(r, written)
  BY <1>3 DEF Ask, AskAnyway, Typed
<1>4. CASE \E written, raises \in BOOLEAN : Write(r, written, raises)
  <2>1. run[r].stage = "writing" /\ tool' = [tool EXCEPT ![r] = NoTools] /\ active' = active
    BY <1>4 DEF Write
  <2>2. NoTools \in [Tools -> ToolStates]
    BY DEF NoTools, ToolStates
  <2>3. \A t \in Tools : tool'[r][t] = "none"
    BY <2>1 DEF Typed, NoTools
  <2>. QED BY <2>1, <2>2, <2>3 DEF Typed, Unsettled
<1>5. ASSUME NEW calls \in SUBSET Allowed[r], NEW fresh \in SUBSET run[r].recent,
             Reply(r, calls, fresh)
      PROVE  /\ tool' \in [Runs -> [Tools -> ToolStates]] /\ active' = active
             /\ ~At(r, "tools")
             /\ At(r, "tools")' \/ \A t \in Tools : tool'[r][t] \notin Unsettled
  <2> DEFINE new == calls \ fresh
             asked == [t \in Tools |-> IF t \in new THEN "created" ELSE "none"]
  <2>1. /\ run[r].stage = "asking" /\ active' = active
        /\ tool' = [tool EXCEPT ![r] = asked]
    BY <1>5 DEF Reply
  <2>2. asked \in [Tools -> ToolStates]
    BY DEF ToolStates
  <2>3. tool'[r] = asked
    BY <2>1 DEF Typed
  <2>4. CASE new = {}
    BY <2>1, <2>2, <2>3, <2>4 DEF Typed, Unsettled
  <2>5. CASE new # {}
    <3>1. run'[r].stage = "tools"
      BY <1>5, <2>5 DEF Reply, Typed, LooseRun
    <3>. QED BY <2>1, <2>2, <3>1 DEF Typed
  <2>. QED BY <2>4, <2>5
<1>. QED BY <1>1, <1>2, <1>3, <1>4, <1>5 DEF RunStep

\* An execution goes on when its tool calls have ended.
LEMMA RunStepTidy ==
  ASSUME Typed, NEW r \in Runs, RunStep(r), Tidy(r)
  PROVE  Tidy(r)'
<1>0. active[r] \subseteq Tools /\ tool[r] \in [Tools -> ToolStates]
  BY DEF Typed
<1>1. active' = active
  BY RunStepTools
<1>2. ASSUME ~At(r, "tools") \/ Settled(r)
      PROVE  active[r] = {} /\ \A t \in Tools : tool[r][t] \notin Unsettled
  BY <1>0, <1>2 DEF Tidy, Settled, Unsettled, ToolStates
<1>3. CASE tool' = tool
  <2>1. ~At(r, "tools") \/ Settled(r) \/ At(r, "tools")'
          \/ \A t \in Tools : tool[r][t] \notin Unsettled
    BY <1>3, RunStepTools
  <2>. QED BY <1>1, <1>2, <1>3, <2>1 DEF Tidy, At
<1>4. CASE /\ ~At(r, "tools")
           /\ At(r, "tools")' \/ \A t \in Tools : tool'[r][t] \notin Unsettled
  BY <1>1, <1>2, <1>4 DEF Tidy, At
<1>. QED BY <1>3, <1>4, RunStepTools

-----------------------------------------------------------------------------
(* The theorems about numbers and tool calls. *)

TurnInv == Typed /\ \A r \in Runs : Numbered(run[r]) /\ Tidy(r)

\* The invariant holds at the start.
LEMMA TurnInit == Init => TurnInv
<1>. SUFFICES ASSUME Init PROVE TurnInv
  OBVIOUS
<1>1. Typed
  BY TypedInit
<1>2. ASSUME NEW r \in Runs PROVE Numbered(run[r]) /\ Tidy(r)
  <2>1. run[r].wrote = << >> /\ active[r] = {} /\ \A t \in Tools : tool[r][t] = "none"
    BY DEF Init, Start, NoTools
  <2>2. IsInjective(<< >>) /\ DOMAIN << >> = {}
    BY DEF IsInjective
  <2>. QED BY <2>1, <2>2 DEF Numbered, Ahead, Tidy, Unsettled
<1>. QED BY <1>1, <1>2 DEF TurnInv

\* Each step keeps it, since it touches one execution.
LEMMA TurnStep == TurnInv /\ [Next]_vars => TurnInv'
<1>. SUFFICES ASSUME TurnInv, [Next]_vars PROVE TurnInv'
  OBVIOUS
<1>0. Typed
  BY DEF TurnInv
<1>1. CASE UNCHANGED vars
  BY <1>1 DEF TurnInv, Typed, Numbered, Ahead, Tidy, At, vars
<1>2. ASSUME NEW r \in Runs, RunStep(r) \/ \E t \in Tools : ToolStep(r, t)
      PROVE  TurnInv'
  <2>0. Numbered(run[r]) /\ Tidy(r)
    BY DEF TurnInv
  <2>1. Typed' /\ Numbered(run'[r]) /\ Tidy(r)'
    <3>1. ASSUME RunStep(r) PROVE Typed' /\ Numbered(run'[r]) /\ Tidy(r)'
      <4>1. run' \in [Runs -> LooseRun]
        BY <1>0, <3>1, RunStepTyped
      <4>2. tool' \in [Runs -> [Tools -> ToolStates]] /\ active' = active
        BY <1>0, <2>0, <3>1, RunStepTools
      <4>3. Typed'
        BY <1>0, <4>1, <4>2 DEF Typed
      <4>4. Numbered(run'[r])
        BY <1>0, <2>0, <3>1, RunStepNumbered
      <4>5. Tidy(r)'
        BY <1>0, <2>0, <3>1, RunStepTidy
      <4>. QED BY <4>3, <4>4, <4>5
    <3>2. ASSUME NEW t \in Tools, ToolStep(r, t)
          PROVE  Typed' /\ Numbered(run'[r]) /\ Tidy(r)'
      <4>1. Typed'
        BY <1>0, <3>2, ToolStepTyped
      <4>2. Numbered(run'[r])
        BY <1>0, <2>0, <3>2, ToolStepNumbered
      <4>3. Tidy(r)'
        BY <1>0, <2>0, <3>2, ToolStepTidy
      <4>. QED BY <4>1, <4>2, <4>3
    <3>. QED BY <1>2, <3>1, <3>2
  <2>2. ASSUME NEW q \in Runs \ {r} PROVE Numbered(run'[q]) /\ Tidy(q)'
    <3>1. run'[q] = run[q] /\ tool'[q] = tool[q] /\ active'[q] = active[q]
      BY <1>0, <1>2, OthersUntouched
    <3>2. Numbered(run[q]) /\ Tidy(q)
      BY DEF TurnInv
    <3>. QED BY <3>1, <3>2 DEF Tidy, At
  <2>. QED BY <2>1, <2>2 DEF TurnInv
<1>3. CASE Next
  <2>1. PICK r \in Runs : RunStep(r) \/ \E t \in Tools : ToolStep(r, t)
    BY <1>3, NextSplits
  <2>. QED BY <1>2, <2>1
<1>. QED BY <1>1, <1>3

\* It holds always.
LEMMA TurnInvariant == Spec => []TurnInv
BY TurnInit, TurnStep, PTL DEF Spec

\* An execution never writes two of its messages under one number, although
\* process_message and create_assistant_message both move the counter and a
\* write or its listeners may fail between: the counter stays ahead of all it
\* has numbered (AISession.message_counter).
THEOREM NumbersApart == Spec => []OwnMessagesApart
<1>1. TurnInv => OwnMessagesApart
  BY DEF TurnInv, Numbered, OwnMessagesApart
<1>. QED BY <1>1, TurnInvariant, PTL

\* When an execution goes on from a reply's tool calls, or ends, cancelled or
\* not, every call has ended and ToolExecutionManager.active_calls is empty.
THEOREM CallsEndWithReply == Spec => []ToolsSettled
<1>1. TurnInv => ToolsSettled
  <2>. SUFFICES ASSUME TurnInv, NEW r \in Runs, ~At(r, "tools")
                PROVE  Settled(r) /\ active[r] = {}
    BY DEF ToolsSettled
  <2>1. Tidy(r) /\ active[r] \subseteq Tools /\ tool[r] \in [Tools -> ToolStates]
    BY DEF TurnInv, Typed
  <2>. QED BY <2>1 DEF Tidy, Settled, Unsettled, ToolStates
<1>. QED BY <1>1, TurnInvariant, PTL

-----------------------------------------------------------------------------
(* What a step of an execution does to it, x before and y after. *)

\* Everything but the fields named stays.
Only(x, y, fields) ==
  /\ "stage" \in fields \/ y.stage = x.stage
  /\ "counter" \in fields \/ y.counter = x.counter
  /\ "iteration" \in fields \/ y.iteration = x.iteration
  /\ "looping" \in fields \/ y.looping = x.looping
  /\ "asked" \in fields \/ y.asked = x.asked
  /\ "lost" \in fields \/ y.lost = x.lost
  /\ "unread" \in fields \/ y.unread = x.unread
  /\ "replies" \in fields \/ y.replies = x.replies
  /\ "acted" \in fields \/ y.acted = x.acted
  /\ "counted" \in fields \/ y.counted = x.counted
  /\ "wrote" \in fields \/ y.wrote = x.wrote
  /\ "recent" \in fields \/ y.recent = x.recent
  /\ "cancelled" \in fields \/ y.cancelled = x.cancelled
  /\ "doomed" \in fields \/ y.doomed = x.doomed
  /\ "events" \in fields \/ y.events = x.events

\* It publishes the events and moves on; at the end the AISession goes.
Moves(x, y, stages, stage, events) ==
  /\ x.stage \in stages /\ y.stage = stage /\ y.events = x.events \o events
  /\ Only(x, y, {"stage", "events"} \cup
                IF stage \in Final
                THEN {"counter", "iteration", "recent", "asked", "lost", "unread"} ELSE {})

Publishes(x, y) ==
  \/ Moves(x, y, {"idle"}, "refused", <<"error">>)
  \/ Moves(x, y, {"idle"}, "initialized", <<"initialized">>)
  \/ Moves(x, y, {"initialized"}, "ready", <<"ready">>)
  \/ Moves(x, y, {"ready"}, "turn", <<"executing">>)
  \/ Moves(x, y, {"closing"}, "answered", <<"cleanup">>)
  \/ Moves(x, y, {"closing"}, "failing", <<"cleanup">>)
  \/ Moves(x, y, {"initialized", "ready", "asking", "writing", "turn"}, "failing", << >>)
  \/ Moves(x, y, {"failing"}, "failed", <<"error">>)
  \/ Moves(x, y, Stages \ (Final \cup {"idle"}), "cancelled", << >>)

\* It stores the question.
Asks(x, y) ==
  /\ x.stage = "turn" /\ y.stage = "listing"
  /\ \/ Only(x, y, {"stage", "lost", "wrote"}) /\ x.iteration < MaxLoops
     \/ Only(x, y, {"stage", "lost", "wrote", "looping"}) /\ x.replies = 0 /\ y.looping = FALSE
  /\ \/ y.wrote = x.wrote /\ y.lost = TRUE
     \/ y.wrote = Append(x.wrote, x.counter) /\ y.lost = FALSE

Lists(x, y) ==
  /\ x.stage = "listing" /\ y.stage = "asking" /\ y.counter = x.counter + 1
  /\ Only(x, y, {"stage", "counter", "asked", "unread"})

IsTold(x, y) ==
  /\ x.stage = "asking" /\ y.stage \in {"tools", "writing"} /\ y.replies = x.replies + 1
  /\ Only(x, y, {"stage", "replies", "acted", "recent"})

Gathers(x, y) ==
  /\ x.stage = "tools" /\ y.stage = "writing" /\ ~x.cancelled
  /\ Only(x, y, {"stage", "acted"})

\* It stores the reply, and turns unless a listener raised.
Stores(x, y) ==
  /\ x.stage = "writing" /\ y.counter = x.counter + 2
  /\ Only(x, y, {"stage", "counter", "iteration", "counted", "wrote"})
  /\ y.wrote = x.wrote \/ y.wrote = Append(x.wrote, x.counter)
  /\ \/ y.stage = "failing"
     \/ /\ y.stage = "turn" /\ x.looping /\ y.iteration = x.iteration + 1
        /\ y.counted = Append(x.counted, x.replies)
     \/ /\ y.stage = "closing"
        /\ \/ ~x.looping /\ y.counted = Append(x.counted, x.replies)
           \/ x.looping /\ y.counted = Append(Append(x.counted, x.replies), x.replies)

Leaves(x, y) ==
  /\ x.stage = "turn" /\ x.replies > 0 /\ y.stage = "closing"
  /\ y.counted = Append(x.counted, x.replies)
  /\ Only(x, y, {"stage", "counted"})

\* A cancellation reaches its tool calls.
Dooms(x, y) == y.cancelled = TRUE /\ x.stage = "tools" /\ Only(x, y, {"cancelled", "doomed"})

StepOf(x, y) ==
  \/ Publishes(x, y) \/ Asks(x, y) \/ Lists(x, y) \/ IsTold(x, y) \/ Gathers(x, y)
  \/ Stores(x, y) \/ Leaves(x, y) \/ Dooms(x, y)

\* Publishing and moving on.
LEMMA GotoMoves ==
  ASSUME Typed, NEW r \in Runs, NEW stage, NEW events, Goto(r, stage, events),
         NEW stages, run[r].stage \in stages
  PROVE  Moves(run[r], run'[r], stages, stage, events)
<1> DEFINE next == [run[r] EXCEPT !.stage = stage, !.events = @ \o events]
           fields == {"stage", "counter", "iteration", "looping", "asked", "lost", "unread", "replies",
                      "acted", "counted", "wrote", "recent", "cancelled", "doomed", "events"}
<1>0. run[r] \in LooseRun /\ DOMAIN run[r] = fields
  BY DEF Typed, LooseRun
<1>1. /\ DOMAIN next = fields /\ next.stage = stage /\ next.events = run[r].events \o events
      /\ Only(run[r], next, {"stage", "events"})
  BY <1>0 DEF Only
<1>2. run'[r] = IF stage \in Final
                THEN [next EXCEPT !.counter = 0, !.iteration = 0, !.recent = {},
                                  !.asked = FALSE, !.lost = FALSE, !.unread = FALSE]
                ELSE next
  BY DEF Goto, Typed
<1>. HIDE DEF next
<1>3. CASE stage \in Final
  BY <1>0, <1>1, <1>2, <1>3 DEF Moves, Only
<1>4. CASE stage \notin Final
  BY <1>0, <1>1, <1>2, <1>4 DEF Moves, Only
<1>. QED BY <1>3, <1>4

\* The reply in the loop.
LEMMA WriteStores ==
  ASSUME Typed, NEW r \in Runs, NEW written \in BOOLEAN, NEW raises \in BOOLEAN,
         Write(r, written, raises)
  PROVE  Stores(run[r], run'[r])
<1> DEFINE x == run[r]
           in == [x EXCEPT !.counted = IF x.looping THEN Append(@, x.replies) ELSE @]
           next == IF raises THEN [x EXCEPT !.stage = "failing"] ELSE Turned(r, x)
           fields == {"stage", "counter", "iteration", "looping", "asked", "lost", "unread", "replies",
                      "acted", "counted", "wrote", "recent", "cancelled", "doomed", "events"}
<1>0. x \in LooseRun /\ DOMAIN x = fields /\ x.stage = "writing"
  BY DEF Typed, LooseRun, Write, At
<1>1. /\ DOMAIN in = fields /\ Only(x, in, {"counted"})
      /\ in.counted = IF x.looping THEN Append(x.counted, x.replies) ELSE x.counted
  BY <1>0 DEF Only
<1>2. Turned(r, x) = IF x.looping /\ x.acted
                     THEN [in EXCEPT !.stage = "turn", !.iteration = @ + 1]
                     ELSE [in EXCEPT !.stage = "closing", !.counted = Append(@, x.replies)]
  BY DEF Turned
<1>3. /\ DOMAIN next = fields
      /\ Only(x, next, {"stage", "iteration", "counted"})
      /\ \/ next.stage = "failing"
         \/ /\ next.stage = "turn" /\ x.looping /\ next.iteration = x.iteration + 1
            /\ next.counted = Append(x.counted, x.replies)
         \/ /\ next.stage = "closing"
            /\ \/ ~x.looping /\ next.counted = Append(x.counted, x.replies)
               \/ x.looping /\ next.counted = Append(Append(x.counted, x.replies), x.replies)
  <2>1. CASE raises
    <3> DEFINE z == [x EXCEPT !.stage = "failing"]
    <3>1. DOMAIN z = fields /\ Only(x, z, {"stage"}) /\ z.stage = "failing"
      BY <1>0 DEF Only
    <3>2. next = z
      BY <2>1
    <3>. HIDE DEF z, next, x
    <3>. QED BY <1>0, <3>1, <3>2 DEF Only
  <2>2. CASE ~raises /\ x.looping /\ x.acted
    <3> DEFINE z == [in EXCEPT !.stage = "turn", !.iteration = @ + 1]
    <3>1. next = z
      BY <1>2, <2>2
    <3>. HIDE DEF in, next, x
    <3>2. in.iteration = x.iteration
      BY <1>0, <1>1 DEF Only
    <3>3. /\ DOMAIN z = fields /\ Only(in, z, {"stage", "iteration"})
          /\ z.stage = "turn" /\ z.iteration = x.iteration + 1
      BY <1>1, <3>2 DEF Only
    <3>. HIDE DEF z
    <3>. QED BY <1>0, <1>1, <2>2, <3>1, <3>3 DEF Only
  <2>3. CASE ~raises /\ ~(x.looping /\ x.acted)
    <3> DEFINE z == [in EXCEPT !.stage = "closing", !.counted = Append(@, x.replies)]
    <3>1. next = z
      BY <1>2, <2>3
    <3>. HIDE DEF in, next, x
    <3>2. /\ DOMAIN z = fields /\ Only(in, z, {"stage", "counted"})
          /\ z.stage = "closing" /\ z.counted = Append(in.counted, x.replies)
      BY <1>1 DEF Only
    <3>. HIDE DEF z
    <3>. QED BY <1>0, <1>1, <2>3, <3>1, <3>2 DEF Only
  <2>. QED BY <2>1, <2>2, <2>3
<1>4. run'[r] = [next EXCEPT !.counter = CountTwice(r),
                   !.wrote = IF written THEN Append(@, run[r].counter) ELSE @]
  BY DEF Write, Typed
<1>5. CountTwice(r) = x.counter + 2
  BY DEF CountTwice
<1>. HIDE DEF next, x
<1>6. next.wrote = x.wrote
  BY <1>0, <1>3 DEF Only
<1>7. /\ run'[r].counter = x.counter + 2
      /\ Only(next, run'[r], {"counter", "wrote"})
      /\ run'[r].wrote = x.wrote \/ run'[r].wrote = Append(x.wrote, x.counter)
  <2>1. DOMAIN next = fields
    BY <1>3
  <2>2. CASE written
    BY <1>4, <1>5, <1>6, <2>1, <2>2 DEF Only, x
  <2>3. CASE ~written
    BY <1>4, <1>5, <1>6, <2>1, <2>3 DEF Only, x
  <2>. QED BY <2>2, <2>3
<1>8. /\ Only(x, run'[r], {"stage", "counter", "iteration", "counted", "wrote"})
      /\ run'[r].stage = next.stage /\ run'[r].iteration = next.iteration
      /\ run'[r].counted = next.counted
  BY <1>0, <1>3, <1>7 DEF Only
<1>9. Stores(x, run'[r])
  BY <1>0, <1>3, <1>7, <1>8 DEF Stores, x
<1>. QED BY <1>9 DEF x

\* The provider's reply.
LEMMA ReplyIsTold ==
  ASSUME Typed, NEW r \in Runs, NEW calls \in SUBSET Allowed[r],
         NEW fresh \in SUBSET run[r].recent, Reply(r, calls, fresh)
  PROVE  IsTold(run[r], run'[r])
<1>0. run[r] \in LooseRun
  BY DEF Typed
<1> DEFINE stage == IF calls \ fresh = {} THEN "writing" ELSE "tools"
<1>1. run[r].stage = "asking" /\ stage \in {"tools", "writing"}
  BY Zenon DEF Reply, At
<1>2. run' = [run EXCEPT ![r].stage = stage, ![r].recent = fresh \cup calls,
                         ![r].replies = @ + 1, ![r].acted = FALSE]
  BY Zenon DEF Reply
<1>. HIDE DEF stage
<1>. QED BY <1>0, <1>1, <1>2 DEF Typed, LooseRun, IsTold, Only

\* Every step of an execution is one of these.
LEMMA RunStepForm ==
  ASSUME Typed, NEW r \in Runs, RunStep(r)
  PROVE  StepOf(run[r], run'[r])
<1> DEFINE x == run[r]
           y == run'[r]
           fields == {"stage", "counter", "iteration", "looping", "asked", "lost", "unread", "replies",
                      "acted", "counted", "wrote", "recent", "cancelled", "doomed", "events"}
<1>0. x \in LooseRun /\ DOMAIN x = fields /\ x.stage \in Stages
  BY DEF Typed, LooseRun
<1>1. CASE \/ execute_agent(r) \/ Refuse(r) \/ Ready(r) \/ Executing(r)
           \/ Close(r) \/ CloseHookRaises(r) \/ Raises(r) \/ Fail(r)
  BY <1>1, GotoMoves DEF execute_agent, Refuse, Ready, Executing, Close, CloseHookRaises,
     Raises, Fail, At, StepOf, Publishes
<1>2. CASE \E read \in BOOLEAN : List(r, read)
  BY <1>0, <1>2 DEF List, At, Count, Typed, LooseRun, StepOf, Lists, Only
<1>3. CASE Gathered(r)
  <2>1. CASE run[r].cancelled
    BY <1>3, <2>1, GotoMoves DEF Gathered, At, Stages, Final, StepOf, Publishes
  <2>2. CASE ~run[r].cancelled
    BY <1>0, <1>3, <2>2 DEF Gathered, At, Typed, LooseRun, StepOf, Gathers, Only
  <2>. QED BY <2>1, <2>2
<1>4. CASE LeaveLoop(r)
  BY <1>0, <1>4 DEF LeaveLoop, At, Typed, LooseRun, StepOf, Leaves, Only
<1>5. CASE Cancel(r)
  <2>1. CASE At(r, "tools")
    BY <1>0, <1>5, <2>1 DEF Cancel, At, Typed, LooseRun, StepOf, Dooms, Only
  <2>2. CASE ~At(r, "tools")
    BY <1>0, <1>5, <2>2, GotoMoves DEF Cancel, StepOf, Publishes
  <2>. QED BY <2>1, <2>2
<1>6. ASSUME NEW written \in BOOLEAN, Ask(r, written) \/ AskAnyway(r, written)
      PROVE  Asks(x, y)
  <2>1. ASSUME NEW next, DOMAIN next = fields, AddMessage(r, next, written),
               next.wrote = x.wrote, next.counter = x.counter, next.lost = ~written
        PROVE  /\ Only(next, y, {"wrote"})
               /\ \/ y.wrote = x.wrote /\ y.lost = TRUE
                  \/ y.wrote = Append(x.wrote, x.counter) /\ y.lost = FALSE
    BY <2>1 DEF AddMessage, Typed, Only
  <2>2. CASE Ask(r, written)
    <3> DEFINE next == [x EXCEPT !.stage = "listing", !.lost = ~written]
    <3>1. /\ AddMessage(r, next, written) /\ x.stage = "turn" /\ x.iteration < MaxLoops
          /\ DOMAIN next = fields /\ next.wrote = x.wrote /\ next.counter = x.counter
          /\ next.lost = ~written /\ next.stage = "listing" /\ Only(x, next, {"stage", "lost"})
      BY <1>0, <2>2 DEF Ask, At, Only
    <3>. HIDE DEF next, x, y
    <3>. QED BY <1>0, <2>1, <3>1 DEF Asks, Only
  <2>3. CASE AskAnyway(r, written)
    <3> DEFINE next == [x EXCEPT !.stage = "listing", !.lost = ~written, !.looping = FALSE]
    <3>1. /\ AddMessage(r, next, written) /\ x.stage = "turn" /\ x.replies = 0
          /\ DOMAIN next = fields /\ next.wrote = x.wrote /\ next.counter = x.counter
          /\ next.lost = ~written /\ next.stage = "listing" /\ next.looping = FALSE
          /\ Only(x, next, {"stage", "lost", "looping"})
      BY <1>0, <2>3 DEF AskAnyway, At, Only
    <3>. HIDE DEF next, x, y
    <3>. QED BY <1>0, <2>1, <3>1 DEF Asks, Only
  <2>. QED BY <1>6, <2>2, <2>3
<1>7. ASSUME NEW written \in BOOLEAN, NEW raises \in BOOLEAN, Write(r, written, raises)
      PROVE  Stores(x, y)
  BY <1>7, WriteStores
<1>8. ASSUME NEW calls \in SUBSET Allowed[r], NEW fresh \in SUBSET run[r].recent,
             Reply(r, calls, fresh)
      PROVE  IsTold(x, y)
  BY <1>8, ReplyIsTold
<1>. QED BY <1>1, <1>2, <1>3, <1>4, <1>5, <1>6, <1>7, <1>8 DEF RunStep, StepOf

-----------------------------------------------------------------------------
(* What it has counted and published. *)

\* The replies 1 to n, each once.
Tally(s, n) == Len(s) = n /\ Range(s) = 1 .. n

\* The turns, the provider's replies and the numbers of the messages go up
\* together, and what is counted keeps up with them.
Turning(x) ==
  /\ x.stage \in {"idle", "initialized", "ready"} =>
       x.counter = 0 /\ x.iteration = 0 /\ x.replies = 0 /\ x.looping /\ x.counted = << >>
  /\ x.stage = "turn" =>
       /\ x.looping /\ x.iteration <= MaxLoops
       /\ x.counter = 3 * x.iteration /\ x.replies = x.iteration
       /\ Tally(x.counted, x.iteration)
  /\ x.stage \in {"listing", "asking"} =>
       /\ x.iteration < MaxLoops
       /\ x.counter = IF x.stage = "asking" THEN 3 * x.iteration + 1 ELSE 3 * x.iteration
       /\ x.replies = x.iteration /\ Tally(x.counted, x.iteration)
  /\ x.stage \in {"tools", "writing"} =>
       /\ x.iteration < MaxLoops /\ x.counter = 3 * x.iteration + 1
       /\ x.replies = x.iteration + 1 /\ Tally(x.counted, x.iteration)
  /\ x.stage \in {"closing", "answered"} =>
       /\ x.replies <= MaxLoops /\ Range(x.counted) = 1 .. x.replies
       /\ Len(x.counted) = x.replies + IF x.looping THEN 1 ELSE 0

\* What the types of an execution's fields say.
LEMMA FieldTypes ==
  ASSUME NEW x \in LooseRun
  PROVE  /\ DOMAIN x = {"stage", "counter", "iteration", "looping", "asked", "lost", "unread", "replies",
                        "acted", "counted", "wrote", "recent", "cancelled", "doomed", "events"}
         /\ x.stage \in Stages /\ x.counter \in Nat /\ x.iteration \in Nat /\ x.replies \in Nat
         /\ x.counted \in Seq(Nat) /\ x.wrote \in Seq(Nat) /\ x.events \in Seq(Events)
         /\ x.looping \in BOOLEAN /\ x.lost \in BOOLEAN /\ x.asked \in BOOLEAN
         /\ x.unread \in BOOLEAN
         /\ x.cancelled \in BOOLEAN /\ x.doomed \subseteq Tools
BY DEF LooseRun

\* Counting a reply, and counting the last one again.
LEMMA TallyGrows ==
  ASSUME NEW s \in Seq(Nat), NEW n \in Nat, Tally(s, n)
  PROVE  /\ Tally(Append(s, n + 1), n + 1)
         /\ n > 0 => Range(Append(s, n)) = 1 .. n /\ Len(Append(s, n)) = n + 1
<1>1. ASSUME NEW m \in Nat PROVE Range(Append(s, m)) = Range(s) \cup {m} /\ Len(Append(s, m)) = n + 1
  <2> DEFINE t == Append(s, m)
  <2>1. /\ DOMAIN t = 1 .. (Len(s) + 1) /\ DOMAIN s = 1 .. Len(s) /\ Len(s) \in Nat
        /\ t[Len(s) + 1] = m /\ \A i \in 1 .. Len(s) : t[i] = s[i]
        /\ Len(t) = Len(s) + 1
    OBVIOUS
  <2>. HIDE DEF t
  <2>2. Range(t) = Range(s) \cup {m}
    BY <2>1 DEF Range
  <2>. QED BY <2>1, <2>2 DEF t, Tally
<1>2. 1 .. (n + 1) = (1 .. n) \cup {n + 1}
  OBVIOUS
<1>3. Tally(Append(s, n + 1), n + 1)
  <2>1. Range(Append(s, n + 1)) = (1 .. n) \cup {n + 1} /\ Len(Append(s, n + 1)) = n + 1
    BY <1>1 DEF Tally
  <2>. QED BY <1>2, <2>1 DEF Tally
<1>4. n > 0 => Range(Append(s, n)) = 1 .. n /\ Len(Append(s, n)) = n + 1
  <2>1. Range(Append(s, n)) = (1 .. n) \cup {n} /\ Len(Append(s, n)) = n + 1
    BY <1>1 DEF Tally
  <2>. QED BY <2>1
<1>. QED BY <1>3, <1>4

\* The tally stays right.
LEMMA StepTurning ==
  ASSUME NEW x \in LooseRun, NEW y \in LooseRun, StepOf(x, y), Turning(x)
  PROVE  Turning(y)
<1>0. MaxLoops \in Nat \ {0}
  BY TurnAssumption
<1>1. DOMAIN x = {"stage", "counter", "iteration", "looping", "asked", "lost", "unread", "replies",
                  "acted", "counted", "wrote", "recent", "cancelled", "doomed", "events"}
  BY FieldTypes
<1>2. /\ x.stage \in Stages /\ x.counter \in Nat /\ x.iteration \in Nat /\ x.replies \in Nat
      /\ x.counted \in Seq(Nat) /\ y.stage \in Stages
  BY FieldTypes
<1>3. CASE Publishes(x, y)
  <2>1. Tally(<< >>, 0)
    BY DEF Tally, Range
  <2>2. PICK stages, stage, events : Moves(x, y, stages, stage, events)
    BY <1>3 DEF Publishes
  <2>3. /\ y.replies = x.replies /\ y.looping = x.looping /\ y.counted = x.counted
        /\ y.stage \notin Final => y.counter = x.counter /\ y.iteration = x.iteration
    BY <1>1, <2>2 DEF Moves, Only
  <2>4. \/ x.stage = "idle" /\ y.stage \in {"refused", "initialized"}
        \/ x.stage = "initialized" /\ y.stage = "ready"
        \/ x.stage = "ready" /\ y.stage = "turn"
        \/ x.stage = "closing" /\ y.stage = "answered"
        \/ y.stage \in {"failing", "failed", "cancelled"}
    BY <1>3 DEF Publishes, Moves
  <2>. QED BY <1>0, <2>1, <2>3, <2>4 DEF Turning, Final
<1>4. CASE Asks(x, y)
  <2>1. /\ x.stage = "turn" /\ y.stage = "listing" /\ y.counter = x.counter
        /\ y.iteration = x.iteration /\ y.replies = x.replies /\ y.counted = x.counted
        /\ x.iteration < MaxLoops \/ x.replies = 0
    BY <1>1, <1>4 DEF Asks, Only
  <2>. QED BY <1>0, <1>2, <2>1 DEF Turning
<1>5. CASE Lists(x, y)
  <2>1. /\ x.stage = "listing" /\ y.stage = "asking" /\ y.counter = x.counter + 1
        /\ y.iteration = x.iteration /\ y.replies = x.replies /\ y.counted = x.counted
    BY <1>1, <1>5 DEF Lists, Only
  <2>. QED BY <1>2, <2>1 DEF Turning
<1>6. CASE IsTold(x, y)
  <2>1. /\ x.stage = "asking" /\ y.stage \in {"tools", "writing"} /\ y.counter = x.counter
        /\ y.iteration = x.iteration /\ y.replies = x.replies + 1 /\ y.counted = x.counted
    BY <1>1, <1>6 DEF IsTold, Only
  <2>. QED BY <1>2, <2>1 DEF Turning
<1>7. CASE Gathers(x, y) \/ Dooms(x, y)
  <2>1. /\ x.stage = "tools" /\ y.stage \in {"tools", "writing"} /\ y.counter = x.counter
        /\ y.iteration = x.iteration /\ y.replies = x.replies /\ y.counted = x.counted
    BY <1>1, <1>7 DEF Gathers, Dooms, Only
  <2>. QED BY <1>2, <2>1 DEF Turning
<1>8. CASE Stores(x, y)
  <2>0. /\ x.iteration < MaxLoops /\ x.counter = 3 * x.iteration + 1
        /\ x.replies = x.iteration + 1 /\ Tally(x.counted, x.iteration)
        /\ y.counter = x.counter + 2 /\ y.looping = x.looping /\ y.replies = x.replies
    BY <1>1, <1>8 DEF Stores, Only, Turning
  <2> DEFINE s == Append(x.counted, x.replies)
  <2>1. s \in Seq(Nat) /\ Tally(s, x.replies)
    BY <1>2, <2>0, TallyGrows
  <2>. HIDE DEF s
  <2>2. Range(Append(s, x.replies)) = 1 .. x.replies /\ Len(Append(s, x.replies)) = x.replies + 1
    <3>1. x.replies \in Nat /\ x.replies > 0
      BY <1>2, <2>0
    <3>. QED BY <2>1, <3>1, TallyGrows
  <2>3. \/ y.stage = "failing"
        \/ y.stage = "turn" /\ x.looping /\ y.iteration = x.iteration + 1 /\ y.counted = s
        \/ /\ y.stage = "closing"
           /\ \/ ~x.looping /\ y.counted = s
              \/ x.looping /\ y.counted = Append(s, x.replies)
    BY <1>8 DEF Stores, s
  <2>4. CASE y.stage = "failing"
    BY <2>4 DEF Turning
  <2>5. CASE y.stage = "turn" /\ x.looping /\ y.iteration = x.iteration + 1 /\ y.counted = s
    <3>1. y.iteration = x.replies /\ y.counter = 3 * y.iteration /\ y.iteration <= MaxLoops
      <4>1. PICK n \in Nat : n = x.iteration
        BY <1>2
      <4>2. /\ n < MaxLoops /\ x.replies = n + 1 /\ y.iteration = n + 1
            /\ y.counter = (3 * n + 1) + 2
        BY <2>0, <2>5, <4>1
      <4>3. (3 * n + 1) + 2 = 3 * (n + 1)
        OBVIOUS
      <4>. QED BY <1>0, <4>2, <4>3
    <3>2. Tally(y.counted, y.iteration)
      BY <2>1, <2>5, <3>1
    <3>. QED BY <2>0, <2>5, <3>1, <3>2 DEF Turning
  <2>6. CASE /\ y.stage = "closing"
             /\ \/ ~x.looping /\ y.counted = s
                \/ x.looping /\ y.counted = Append(s, x.replies)
    <3>1. /\ Range(y.counted) = 1 .. x.replies
          /\ Len(y.counted) = x.replies + IF y.looping THEN 1 ELSE 0
      <4>1. CASE ~x.looping /\ y.counted = s
        BY <1>2, <2>0, <2>1, <4>1 DEF Tally
      <4>2. CASE x.looping /\ y.counted = Append(s, x.replies)
        BY <1>2, <2>0, <2>2, <4>2
      <4>. QED BY <2>6, <4>1, <4>2
    <3>. QED BY <1>0, <1>2, <2>0, <2>6, <3>1 DEF Turning
  <2>. QED BY <2>3, <2>4, <2>5, <2>6
<1>9. CASE Leaves(x, y)
  <2>1. /\ x.replies = x.iteration /\ x.iteration <= MaxLoops /\ x.replies > 0
        /\ y.replies = x.replies /\ y.stage = "closing" /\ y.looping
        /\ Tally(x.counted, x.iteration) /\ y.counted = Append(x.counted, x.replies)
    BY <1>1, <1>9 DEF Leaves, Only, Turning
  <2>2. Range(y.counted) = 1 .. y.replies /\ Len(y.counted) = y.replies + 1
    BY <1>2, <2>1, TallyGrows
  <2>. QED BY <1>0, <1>2, <2>1, <2>2 DEF Turning
<1>. QED BY <1>3, <1>4, <1>5, <1>6, <1>7, <1>8, <1>9 DEF StepOf

\* The lifecycle's events so far.
One == <<"initialized">>
Two == Append(One, "ready")
Three == Append(Two, "executing")
Four == Append(Three, "cleanup")

Logged(x) ==
  /\ x.stage = "idle" => x.events = << >>
  /\ x.stage = "initialized" => x.events = One
  /\ x.stage = "ready" => x.events = Two
  /\ x.stage \in {"turn", "listing", "asking", "tools", "writing", "closing"} => x.events = Three
  /\ x.stage = "answered" => x.events = Four
  /\ x.stage \in {"failing", "cancelled"} => x.events \in {One, Two, Three, Four}
  /\ x.stage = "failed" => \E log \in {One, Two, Three, Four} : x.events = Append(log, "error")
  /\ x.stage = "refused" => x.events = <<"error">>

\* One event at most is published in a step.
LEMMA Publishing ==
  ASSUME NEW log \in Seq(Events), NEW e \in Events
  PROVE  log \o << >> = log /\ log \o <<e>> = Append(log, e) /\ << >> \o <<e>> = <<e>>
OBVIOUS

\* The events stay in order.
LEMMA StepLogged ==
  ASSUME NEW x \in LooseRun, NEW y \in LooseRun, StepOf(x, y), Logged(x)
  PROVE  Logged(y)
<1>0. /\ "error" \in Events /\ "initialized" \in Events /\ "ready" \in Events
      /\ "executing" \in Events /\ "cleanup" \in Events
  BY DEF Events
<1>1. /\ << >> \in Seq(Events) /\ One \in Seq(Events) /\ Two \in Seq(Events)
      /\ Three \in Seq(Events) /\ Four \in Seq(Events)
  BY <1>0 DEF One, Two, Three, Four
<1>. USE FieldTypes DEF Only
<1>2. ASSUME y.events = x.events,
             \/ y.stage = x.stage \/ y.stage = "failing"
             \/ y.stage \in {"turn", "listing", "asking", "tools", "writing", "closing"},
             x.stage \in {"turn", "listing", "asking", "tools", "writing"}
      PROVE  Logged(y)
  BY <1>2 DEF Logged
<1>3. CASE Publishes(x, y)
  <2>1. \A log \in Seq(Events) : log \o << >> = log
    BY <1>0, Publishing
  <2>2. \A log \in Seq(Events), e \in Events : log \o <<e>> = Append(log, e)
    BY Publishing
  <2>3. << >> \o <<"error">> = <<"error">> /\ << >> \o <<"initialized">> = One
    BY <1>0, Publishing DEF One
  <2>4. CASE Moves(x, y, {"idle"}, "refused", <<"error">>)
    BY <2>3, <2>4 DEF Moves, Logged
  <2>5. CASE Moves(x, y, {"idle"}, "initialized", <<"initialized">>)
    BY <2>3, <2>5 DEF Moves, Logged
  <2>6. CASE \/ Moves(x, y, {"initialized"}, "ready", <<"ready">>)
             \/ Moves(x, y, {"ready"}, "turn", <<"executing">>)
             \/ Moves(x, y, {"closing"}, "answered", <<"cleanup">>)
             \/ Moves(x, y, {"closing"}, "failing", <<"cleanup">>)
    <3>1. /\ One \o <<"ready">> = Two /\ Two \o <<"executing">> = Three
          /\ Three \o <<"cleanup">> = Four
      BY <1>0, <1>1, <2>2 DEF Two, Three, Four
    <3>. QED BY <2>6, <3>1 DEF Moves, Logged
  <2>7. CASE Moves(x, y, {"failing"}, "failed", <<"error">>)
    <3>1. PICK log \in {One, Two, Three, Four} : y.events = log \o <<"error">> /\ y.stage = "failed"
      BY <2>7 DEF Moves, Logged
    <3>2. log \o <<"error">> = Append(log, "error")
      BY <1>0, <1>1, <2>2
    <3>. QED BY <3>1, <3>2 DEF Logged
  <2>8. CASE \/ Moves(x, y, {"initialized", "ready", "asking", "writing", "turn"}, "failing", << >>)
             \/ Moves(x, y, Stages \ (Final \cup {"idle"}), "cancelled", << >>)
    <3>1. y.events = x.events /\ y.stage \in {"failing", "cancelled"}
      BY <2>1, <2>8 DEF Moves
    <3>2. x.stage \in Stages \ (Final \cup {"idle"})
      BY <2>8 DEF Moves, Stages, Final
    <3>. QED BY <3>1, <3>2 DEF Logged, Stages, Final
  <2>. QED BY <1>3, <2>4, <2>5, <2>6, <2>7, <2>8 DEF Publishes
<1>4. CASE \/ Asks(x, y) \/ Lists(x, y) \/ IsTold(x, y) \/ Gathers(x, y)
           \/ Stores(x, y) \/ Leaves(x, y) \/ Dooms(x, y)
  <2>1. y.events = x.events
    BY <1>4 DEF Asks, Lists, IsTold, Gathers, Stores, Leaves, Dooms
  <2>. QED BY <1>2, <1>4, <2>1 DEF Asks, Lists, IsTold, Gathers, Stores, Leaves, Dooms
<1>. QED BY <1>3, <1>4 DEF StepOf

\* The logs are in order, and the last event tells how the execution ended.
LEMMA LogTells ==
  ASSUME NEW r \in Runs, Logged(run[r]), run[r].stage \in Stages
  PROVE  LET log == run[r].events
         IN  /\ \A i, j \in DOMAIN log : i < j => Rank(log[i]) < Rank(log[j])
             /\ At(r, "answered") => Last(log) = "cleanup"
             /\ run[r].stage \in {"failed", "refused"} => Last(log) = "error"
<1> DEFINE Ordered(s) == \A i, j \in DOMAIN s : i < j => Rank(s[i]) < Rank(s[j])
           Below(s, n) == \A i \in DOMAIN s : Rank(s[i]) < n
<1>0. /\ Rank("initialized") = 1 /\ Rank("ready") = 2 /\ Rank("executing") = 3
      /\ Rank("cleanup") = 4 /\ Rank("error") = 5
  BY DEF Rank
<1>1. ASSUME NEW s \in Seq(Events), NEW e \in Events, NEW n \in Nat, Ordered(s), Below(s, Rank(e)),
             Rank(e) \in Nat, Rank(e) < n, \A i \in DOMAIN s : Rank(s[i]) \in Nat
      PROVE  /\ Append(s, e) \in Seq(Events) /\ Ordered(Append(s, e)) /\ Below(Append(s, e), n)
             /\ Last(Append(s, e)) = e
  <2> DEFINE t == Append(s, e)
  <2>1. /\ DOMAIN t = 1 .. (Len(s) + 1) /\ DOMAIN s = 1 .. Len(s) /\ Len(s) \in Nat
        /\ t[Len(s) + 1] = e /\ \A i \in 1 .. Len(s) : t[i] = s[i]
        /\ Len(t) = Len(s) + 1 /\ t \in Seq(Events)
    OBVIOUS
  <2>. HIDE DEF t
  <2>2. Ordered(t)
    BY <1>1, <2>1
  <2>3. Below(t, n)
    BY <1>1, <2>1
  <2>4. Last(t) = e
    BY <2>1 DEF Last
  <2>. QED BY <2>1, <2>2, <2>3, <2>4 DEF t
<1>2. \A s \in Seq(Events) : \A i \in DOMAIN s : Rank(s[i]) \in Nat
  BY <1>0 DEF Events
<1>3. /\ "error" \in Events /\ "initialized" \in Events /\ "ready" \in Events
      /\ "executing" \in Events /\ "cleanup" \in Events
  BY DEF Events
<1>. HIDE DEF Ordered, Below
<1>4. << >> \in Seq(Events) /\ Ordered(<< >>) /\ Below(<< >>, 1) /\ Below(<< >>, 5)
  BY DEF Ordered, Below
<1>5. ASSUME NEW s \in Seq(Events), NEW n \in {2, 3, 4, 5}, Ordered(s), Below(s, n)
      PROVE  Below(s, 5)
  BY <1>2, <1>5 DEF Below
<1>6. One = Append(<< >>, "initialized") /\ <<"error">> = Append(<< >>, "error")
  BY DEF One
<1>7. One \in Seq(Events) /\ Ordered(One) /\ Below(One, 2)
  <2>1. Rank("initialized") \in Nat /\ Rank("initialized") = 1 /\ Rank("initialized") < 2 /\ 2 \in Nat
    BY <1>0
  <2>. QED BY <1>1, <1>2, <1>3, <1>4, <1>6, <2>1
<1>8. Two \in Seq(Events) /\ Ordered(Two) /\ Below(Two, 3)
  BY <1>0, <1>1, <1>2, <1>3, <1>7 DEF Two
<1>9. Three \in Seq(Events) /\ Ordered(Three) /\ Below(Three, 4)
  BY <1>0, <1>1, <1>2, <1>3, <1>8 DEF Three
<1>10. Four \in Seq(Events) /\ Ordered(Four) /\ Below(Four, 5) /\ Last(Four) = "cleanup"
  BY <1>0, <1>1, <1>2, <1>3, <1>9 DEF Four
<1>11. ASSUME NEW log \in {<< >>, One, Two, Three, Four}
       PROVE  Ordered(log) /\ Ordered(Append(log, "error")) /\ Last(Append(log, "error")) = "error"
  <2>1. log \in Seq(Events) /\ Ordered(log) /\ Below(log, 5)
    BY <1>4, <1>5, <1>7, <1>8, <1>9, <1>10
  <2>2. Rank("error") = 5 /\ Rank("error") < 6 /\ 6 \in Nat
    BY <1>0
  <2>. QED BY <1>1, <1>2, <1>3, <2>1, <2>2
<1>12. Ordered(run[r].events) /\ (At(r, "answered") => Last(run[r].events) = "cleanup")
         /\ (run[r].stage \in {"failed", "refused"} => Last(run[r].events) = "error")
  BY <1>6, <1>10, <1>11 DEF Logged, At, Stages, Final
<1>. QED BY <1>12 DEF Ordered

-----------------------------------------------------------------------------
(* The events of the tool calls. *)

Saw == [start : 0..1, end : 0..2]
ToldTyped == told \in [Runs -> [Tools -> Saw]]

\* What has been published of a tool call, from where it is.  Only a
\* cancellation makes it tell its end again, or not at all.
PairedAt(x, state, saw) ==
  /\ state \in {"none", "created"} => saw.start = 0 /\ saw.end = 0
  /\ state \in {"starting", "running"} => saw.start = 1 /\ saw.end = 0
  /\ state = "completing" => saw.start = 1 /\ saw.end = 1
  /\ state = "erroring" => saw.start = 1 /\ saw.end > 0 /\ (~x.cancelled => saw.end = 1)
  /\ state = "ended" /\ ~x.cancelled => saw.end = saw.start

Early == {"idle", "initialized", "ready", "turn", "listing", "asking"}

Paired(r) ==
  /\ \A t \in Tools : PairedAt(run[r], tool[r][t], told[r][t])
  /\ run[r].stage \in Early => \A t \in Tools : told[r][t].start = 0 /\ told[r][t].end = 0
  /\ run[r].doomed # {} => run[r].cancelled

\* A step of a tool call.
LEMMA ToolStepPaired ==
  ASSUME Typed, ToldTyped, NEW r \in Runs, NEW t \in Tools, ToolStep(r, t), Paired(r), Tidy(r)
  PROVE  ToldTyped' /\ Paired(r)' /\ \A q \in Runs \ {r} : told'[q] = told[q]
<1> DEFINE x == run[r]
<1>0. /\ tool[r][t] \in Unsettled /\ x.stage = "tools"
      /\ told[r][t] \in Saw /\ PairedAt(x, tool[r][t], told[r][t])
  BY ToolStepForm DEF Tidy, At, ToldTyped, Paired
<1>1. /\ run'[r].stage = "tools" /\ run'[r].cancelled = x.cancelled
      /\ run'[r].doomed # {} => x.cancelled
  <2>1. x \in LooseRun
    BY DEF Typed
  <2>2. \/ run' = run
        \/ run' = [run EXCEPT ![r].doomed = @ \ {t}]
    BY ToolStepForm
  <2>. QED BY <1>0, <2>1, <2>2 DEF Typed, LooseRun, Paired
<1>2. ASSUME NEW s \in ToolStates, NEW saw \in Saw, Set(r, t, s), PairedAt(x, s, saw),
             told' = [told EXCEPT ![r][t] = saw]
      PROVE  ToldTyped' /\ Paired(r)' /\ \A q \in Runs \ {r} : told'[q] = told[q]
  <2>1. /\ ToldTyped' /\ told'[r][t] = saw /\ tool'[r][t] = s
        /\ \A u \in Tools \ {t} : told'[r][u] = told[r][u] /\ tool'[r][u] = tool[r][u]
        /\ \A q \in Runs \ {r} : told'[q] = told[q]
    BY <1>2 DEF ToldTyped, Typed, Set
  <2>2. \A u \in Tools : PairedAt(x, tool'[r][u], told'[r][u])
    BY <1>2, <2>1 DEF Paired
  <2>3. \A u \in Tools : PairedAt(run'[r], tool'[r][u], told'[r][u])
    BY <1>1, <2>2 DEF PairedAt
  <2>. QED BY <1>1, <2>1, <2>3 DEF Paired, Early
<1>3. ASSUME NEW s \in ToolStates, Set(r, t, s), UNCHANGED told,
             PairedAt(x, s, told[r][t])
      PROVE  ToldTyped' /\ Paired(r)' /\ \A q \in Runs \ {r} : told'[q] = told[q]
  <2>1. told' = [told EXCEPT ![r][t] = told[r][t]]
    BY <1>3 DEF ToldTyped
  <2>. QED BY <1>0, <1>2, <1>3, <2>1
<1>4. ASSUME NEW s \in ToolStates, Set(r, t, s), TellStart(r, t),
             tool[r][t] = "created", s = "starting"
      PROVE  ToldTyped' /\ Paired(r)' /\ \A q \in Runs \ {r} : told'[q] = told[q]
  <2> DEFINE saw == [start |-> 1, end |-> 0]
  <2>1. told[r][t] = [start |-> 0, end |-> 0]
    BY <1>0, <1>4 DEF PairedAt, Saw
  <2>2. told' = [told EXCEPT ![r][t] = saw]
    <3>1. told' = [told EXCEPT ![r][t] = [told[r][t] EXCEPT !.start = told[r][t].start + 1]]
      BY <1>4 DEF TellStart
    <3>2. [told[r][t] EXCEPT !.start = told[r][t].start + 1] = saw
      BY <2>1
    <3>. QED BY <3>1, <3>2
  <2>3. saw \in Saw /\ PairedAt(x, s, saw)
    BY <1>4 DEF PairedAt, Saw
  <2>. QED BY <1>2, <1>4, <2>2, <2>3
<1>5. ASSUME NEW s \in {"completing", "erroring"}, Set(r, t, s), TellEnd(r, t),
             \/ tool[r][t] = "running"
             \/ tool[r][t] = "completing" /\ s = "erroring" /\ x.cancelled
      PROVE  ToldTyped' /\ Paired(r)' /\ \A q \in Runs \ {r} : told'[q] = told[q]
  <2>1. PICK n \in {0, 1} : /\ told[r][t] = [start |-> 1, end |-> n]
                            /\ n = 0 \/ (s = "erroring" /\ x.cancelled)
    <3>1. told[r][t] \in Saw /\ told[r][t].start = 1
      BY <1>0, <1>5 DEF PairedAt
    <3>2. CASE tool[r][t] = "running"
      BY <1>0, <3>1, <3>2 DEF PairedAt, Saw
    <3>3. CASE tool[r][t] = "completing" /\ s = "erroring" /\ x.cancelled
      BY <1>0, <3>1, <3>3 DEF PairedAt, Saw
    <3>. QED BY <1>5, <3>2, <3>3
  <2> DEFINE saw == [start |-> 1, end |-> n + 1]
  <2>2. told' = [told EXCEPT ![r][t] = saw]
    <3>1. told' = [told EXCEPT ![r][t] = [told[r][t] EXCEPT !.end = told[r][t].end + 1]]
      BY <1>5 DEF TellEnd
    <3>2. [told[r][t] EXCEPT !.end = told[r][t].end + 1] = saw
      BY <2>1
    <3>. QED BY <3>1, <3>2
  <2>3. saw \in Saw /\ PairedAt(x, s, saw)
    BY <1>5, <2>1 DEF PairedAt, Saw
  <2>4. s \in ToolStates
    BY DEF ToolStates
  <2>. QED BY <1>2, <1>5, <2>2, <2>3, <2>4
<1>6. {"starting", "running", "completing", "erroring", "ended", "raised"} \subseteq ToolStates
  BY DEF ToolStates
<1>7. CASE UnknownTool(r, t)
  BY <1>0, <1>3, <1>6, <1>7 DEF UnknownTool, InTool, PairedAt
<1>8. CASE ToolStarts(r, t)
  BY <1>4, <1>6, <1>8 DEF ToolStarts, InTool
<1>9. CASE ToolRuns(r, t)
  BY <1>0, <1>3, <1>6, <1>9 DEF ToolRuns, InTool, PairedAt
<1>10. CASE ToolReturns(r, t) \/ ToolRaises(r, t)
  BY <1>5, <1>10 DEF ToolReturns, ToolRaises, InTool
<1>11. CASE ToolEnds(r, t)
  BY <1>0, <1>3, <1>6, <1>11 DEF ToolEnds, InTool, PairedAt
<1>12. CASE ToolCancelled(r, t)
  <2>1. x.cancelled
    BY <1>12 DEF ToolCancelled, Paired
  <2>2. CASE /\ tool[r][t] \in {"running", "completing"}
             /\ Set(r, t, "erroring") /\ TellEnd(r, t)
    BY <1>5, <2>1, <2>2
  <2>3. CASE Set(r, t, "raised") /\ UNCHANGED told
    BY <1>3, <1>6, <2>3 DEF PairedAt
  <2>. QED BY <1>12, <2>2, <2>3 DEF ToolCancelled
<1>. QED BY <1>7, <1>8, <1>9, <1>10, <1>11, <1>12 DEF ToolStep

\* A reply starts its tool calls, or is to be stored.
LEMMA ReplyForm ==
  ASSUME Typed, NEW r \in Runs, NEW calls \in SUBSET Allowed[r],
         NEW fresh \in SUBSET run[r].recent, Reply(r, calls, fresh)
  PROVE  /\ told' = told /\ run[r].stage = "asking" /\ run'[r].stage \notin Early
         /\ tool'[r] \in [Tools -> {"none", "created"}]
<1>0. run[r] \in LooseRun
  BY DEF Typed
<1> DEFINE new == calls \ fresh
           asked == [t \in Tools |-> IF t \in new THEN "created" ELSE "none"]
<1>1. tool' = [tool EXCEPT ![r] = asked]
  BY Zenon DEF Reply
<1>5. run[r].stage = "asking" /\ UNCHANGED <<disk, active, told>>
  BY Zenon DEF Reply, At
<1>2. asked \in [Tools -> {"none", "created"}]
  OBVIOUS
<1>3. tool'[r] = asked
  BY <1>1 DEF Typed
<1>4. run'[r].stage \in {"tools", "writing"}
  BY ReplyIsTold DEF IsTold
<1>. HIDE DEF asked
<1>. QED BY <1>5, <1>2, <1>3, <1>4 DEF Early

\* What the steps of the execution itself do to the events of its tool calls.
LEMMA RunStepTold ==
  ASSUME Typed, ToldTyped, NEW r \in Runs, RunStep(r)
  PROVE  \/ /\ told' = told /\ tool' = tool
            /\ run'[r].stage \in Early => run[r].stage \in Early
         \/ told' = [told EXCEPT ![r] = Quiet] /\ tool' = [tool EXCEPT ![r] = NoTools]
         \/ /\ told' = told /\ run[r].stage = "asking" /\ run'[r].stage \notin Early
            /\ tool'[r] \in [Tools -> {"none", "created"}]
<1>0. run[r] \in LooseRun
  BY DEF Typed
<1>1. CASE \E written, raises \in BOOLEAN : Write(r, written, raises)
  BY <1>1 DEF Write
<1>2. ASSUME NEW calls \in SUBSET Allowed[r], NEW fresh \in SUBSET run[r].recent,
             Reply(r, calls, fresh)
      PROVE  /\ told' = told /\ run[r].stage = "asking" /\ run'[r].stage \notin Early
             /\ tool'[r] \in [Tools -> {"none", "created"}]
  BY <1>2, ReplyForm
<1>3. CASE \/ execute_agent(r) \/ Refuse(r) \/ Ready(r) \/ Executing(r)
           \/ (\E read \in BOOLEAN : List(r, read))
           \/ LeaveLoop(r) \/ \E written \in BOOLEAN : Ask(r, written) \/ AskAnyway(r, written)
  <2>1. CASE execute_agent(r) \/ Refuse(r) \/ Ready(r) \/ Executing(r)
    BY <2>1 DEF execute_agent, Refuse, Ready, Executing, KeepTools, At, Early
  <2>2. CASE (\E read \in BOOLEAN : List(r, read)) \/ LeaveLoop(r)
    BY <2>2 DEF List, LeaveLoop, KeepTools, At, Early
  <2>3. CASE \E written \in BOOLEAN : Ask(r, written) \/ AskAnyway(r, written)
    BY <2>3 DEF Ask, AskAnyway, KeepTools, At, Early
  <2>. QED BY <1>3, <2>1, <2>2, <2>3
<1>4. CASE Close(r) \/ CloseHookRaises(r) \/ Raises(r) \/ Fail(r)
  <2>1. told' = told /\ tool' = tool
    BY <1>4 DEF Close, CloseHookRaises, Raises, Fail, KeepTools
  <2>2. run'[r].stage \in {"answered", "failing", "failed"}
    BY <1>4, GotoForm DEF Close, CloseHookRaises, Raises, Fail
  <2>. QED BY <2>1, <2>2 DEF Early
<1>5. CASE Gathered(r) \/ Cancel(r)
  <2>1. told' = told /\ tool' = tool
    BY <1>5 DEF Gathered, Cancel, KeepTools
  <2>2. run'[r].stage \in {"cancelled", "writing", "tools"}
    <3>1. ASSUME Goto(r, "cancelled", << >>) PROVE run'[r].stage = "cancelled"
      BY <3>1, GotoForm
    <3>2. ASSUME At(r, "tools"),
                 \/ \E b : run' = [run EXCEPT ![r].stage = "writing", ![r].acted = b]
                 \/ \E d : run' = [run EXCEPT ![r].cancelled = TRUE, ![r].doomed = d]
          PROVE  run'[r].stage \in {"writing", "tools"}
      BY <1>0, <3>2 DEF At, Typed, LooseRun
    <3>. QED BY <1>5, <3>1, <3>2 DEF Gathered, Cancel
  <2>. QED BY <2>1, <2>2 DEF Early
<1>. QED BY <1>1, <1>2, <1>3, <1>4, <1>5 DEF RunStep

\* A cancellation, once delivered, is not forgotten, and dooms calls only then.
LEMMA StepCancels ==
  ASSUME NEW x \in LooseRun, NEW y \in LooseRun, StepOf(x, y)
  PROVE  (x.cancelled => y.cancelled) /\ (y.doomed = x.doomed \/ y.cancelled)
<1>1. DOMAIN x = {"stage", "counter", "iteration", "looping", "asked", "lost", "unread", "replies",
                  "acted", "counted", "wrote", "recent", "cancelled", "doomed", "events"}
  BY FieldTypes
<1>2. CASE Publishes(x, y)
  <2>1. PICK stages, stage, events : Moves(x, y, stages, stage, events)
    BY <1>2 DEF Publishes
  <2>. QED BY <1>1, <2>1 DEF Moves, Only
<1>3. CASE \/ Asks(x, y) \/ Lists(x, y) \/ IsTold(x, y) \/ Gathers(x, y)
           \/ Stores(x, y) \/ Leaves(x, y) \/ Dooms(x, y)
  BY <1>1, <1>3 DEF Asks, Lists, IsTold, Gathers, Stores, Leaves, Dooms, Only
<1>. QED BY <1>2, <1>3 DEF StepOf

\* A step of the execution itself.
LEMMA RunStepPaired ==
  ASSUME Typed, ToldTyped, NEW r \in Runs, RunStep(r), Paired(r),
         run' \in [Runs -> LooseRun]
  PROVE  ToldTyped' /\ Paired(r)' /\ \A q \in Runs \ {r} : told'[q] = told[q]
<1>0. /\ run[r].cancelled => run'[r].cancelled
      /\ run'[r].doomed # {} => run'[r].cancelled
  <2>1. run[r] \in LooseRun /\ run'[r] \in LooseRun /\ StepOf(run[r], run'[r])
    BY RunStepForm DEF Typed
  <2>. QED BY <2>1, StepCancels DEF Paired
<1>1. CASE told' = told /\ tool' = tool /\ (run'[r].stage \in Early => run[r].stage \in Early)
  <2>1. \A u \in Tools : PairedAt(run'[r], tool'[r][u], told'[r][u])
    BY <1>0, <1>1 DEF Paired, PairedAt
  <2>. QED BY <1>0, <1>1, <2>1 DEF Paired, ToldTyped
<1>2. CASE told' = [told EXCEPT ![r] = Quiet] /\ tool' = [tool EXCEPT ![r] = NoTools]
  <2>1. /\ \A u \in Tools : /\ told'[r][u].start = 0 /\ told'[r][u].end = 0
                            /\ tool'[r][u] = "none"
        /\ \A q \in Runs \ {r} : told'[q] = told[q]
    BY <1>2 DEF ToldTyped, Typed, Quiet, NoTools
  <2>2. Quiet \in [Tools -> Saw]
    BY DEF Quiet, Saw
  <2>3. ToldTyped'
    BY <1>2, <2>2 DEF ToldTyped
  <2>. QED BY <1>0, <2>1, <2>3 DEF Paired, PairedAt
<1>3. CASE /\ told' = told /\ run[r].stage = "asking" /\ run'[r].stage \notin Early
           /\ tool'[r] \in [Tools -> {"none", "created"}]
  <2>1. \A u \in Tools : /\ told'[r][u].start = 0 /\ told'[r][u].end = 0
                         /\ tool'[r][u] \in {"none", "created"}
    BY <1>3 DEF Paired, Early
  <2>. QED BY <1>0, <1>3, <2>1 DEF Paired, PairedAt, ToldTyped
<1>. QED BY <1>1, <1>2, <1>3, RunStepTold

-----------------------------------------------------------------------------
(* The prompts. *)

\* Another execution wrote under the number of r's latest message.
Overwritten(r) == \E q \in Runs \ {r} : Contains(run[q].wrote, Last(run[r].wrote))

Prompted(r) ==
  /\ At(r, "listing") /\ ~run[r].lost =>
       /\ run[r].wrote # << >>
       /\ disk[Last(run[r].wrote)] = Question(r) \/ Overwritten(r)
  /\ At(r, "asking") /\ ~run[r].asked =>
       run[r].lost \/ run[r].unread \/ Overwritten(r)

Stored == disk \in [Ids -> (Runs \X Nat) \cup {NoMessage}]

\* What appending shows.
LEMMA Appended ==
  ASSUME NEW S, NEW s \in Seq(S), NEW e \in S
  PROVE  /\ Append(s, e) \in Seq(S) /\ Append(s, e) # << >>
         /\ Last(Append(s, e)) = e /\ Len(Append(s, e)) = Len(s) + 1
         /\ Contains(Append(s, e), e)
         /\ \A x : Contains(s, x) => Contains(Append(s, e), x)
<1> DEFINE t == Append(s, e)
<1>1. /\ t \in Seq(S) /\ Len(t) = Len(s) + 1 /\ Len(s) \in Nat
      /\ t[Len(s) + 1] = e /\ \A i \in 1 .. Len(s) : t[i] = s[i]
  OBVIOUS
<1>. HIDE DEF t
<1>2. t # << >>
  BY <1>1
<1>3. Last(t) = e
  BY <1>1 DEF Last
<1>4. Contains(t, e) /\ \A x : Contains(s, x) => Contains(t, x)
  BY <1>1 DEF Contains
<1>. QED BY <1>1, <1>2, <1>3, <1>4 DEF t

\* A message is stored and noted in one, under a number there is.
LEMMA RunStepStores ==
  ASSUME Typed, Stored, NEW r \in Runs, RunStep(r), Turning(run[r]), run[r].wrote \in Seq(Ids)
  PROVE  \/ disk' = disk /\ run'[r].wrote = run[r].wrote
         \/ /\ run[r].counter \in Ids
            /\ disk' = [disk EXCEPT ![run[r].counter] = <<r, Len(run[r].wrote) + 1>>]
            /\ run'[r].wrote = Append(run[r].wrote, run[r].counter)
<1>0. run[r] \in LooseRun
  BY DEF Typed
<1>1. /\ run[r].counter \in Nat /\ run[r].iteration \in Nat /\ run[r].replies \in Nat
      /\ MaxLoops \in Nat \ {0}
  BY <1>0, FieldTypes, TurnAssumption
<1>2. CASE \/ execute_agent(r) \/ Refuse(r) \/ Ready(r) \/ Executing(r)
           \/ Close(r) \/ CloseHookRaises(r) \/ Raises(r) \/ Fail(r)
  BY <1>2, GotoForm DEF execute_agent, Refuse, Ready, Executing, Close, CloseHookRaises,
     Raises, Fail, Stages, Final
<1>3. CASE (\E read \in BOOLEAN : List(r, read)) \/ LeaveLoop(r)
  <2>1. disk' = disk
    BY <1>3 DEF List, LeaveLoop
  <2>2. ASSUME NEW read \in BOOLEAN, List(r, read) PROVE run'[r].wrote = run[r].wrote
    <3> DEFINE b == read /\ ~run[r].lost /\ \E i \in Ids : disk[i] = Question(r)
    <3>1. run' = [run EXCEPT ![r].stage = "asking", ![r].counter = Count(r),
                             ![r].unread = ~read, ![r].asked = b]
      BY <2>2 DEF List
    <3>. HIDE DEF b
    <3>. QED BY <1>0, <3>1 DEF Typed, LooseRun
  <2>3. ASSUME LeaveLoop(r) PROVE run'[r].wrote = run[r].wrote
    BY <1>0, <2>3 DEF LeaveLoop, Typed, LooseRun
  <2>. QED BY <1>3, <2>1, <2>2, <2>3
<1>4. CASE Gathered(r) \/ Cancel(r)
  <2>1. disk' = disk
    BY <1>4 DEF Gathered, Cancel
  <2>2. run'[r].wrote = run[r].wrote
    <3>1. ASSUME Goto(r, "cancelled", << >>) PROVE run'[r].wrote = run[r].wrote
      BY <3>1, GotoForm
    <3>2. ASSUME \/ \E b : run' = [run EXCEPT ![r].stage = "writing", ![r].acted = b]
                 \/ \E d : run' = [run EXCEPT ![r].cancelled = TRUE, ![r].doomed = d]
          PROVE  run'[r].wrote = run[r].wrote
      BY <1>0, <3>2 DEF Typed, LooseRun
    <3>. QED BY <1>4, <3>1, <3>2 DEF Gathered, Cancel
  <2>. QED BY <2>1, <2>2
<1>5. ASSUME NEW written \in BOOLEAN, Ask(r, written) \/ AskAnyway(r, written)
      PROVE  \/ disk' = disk /\ run'[r].wrote = run[r].wrote
             \/ /\ run[r].counter \in Ids
                /\ disk' = [disk EXCEPT ![run[r].counter] = <<r, Len(run[r].wrote) + 1>>]
                /\ run'[r].wrote = Append(run[r].wrote, run[r].counter)
  <2>1. run[r].counter \in Ids
    <3>1. /\ run[r].counter = 3 * run[r].iteration /\ run[r].iteration < MaxLoops
      BY <1>1, <1>5 DEF Ask, AskAnyway, At, Turning
    <3>2. PICK n \in Nat, m \in Nat : n = run[r].iteration /\ m = MaxLoops
      BY <1>1
    <3>3. n < m /\ run[r].counter = 3 * n
      BY <3>1, <3>2
    <3>. QED BY <3>2, <3>3 DEF Ids
  <2>2. ASSUME NEW next \in LooseRun, next.wrote = run[r].wrote,
               next.counter = run[r].counter, AddMessage(r, next, written)
        PROVE  \/ disk' = disk /\ run'[r].wrote = run[r].wrote
               \/ /\ disk' = [disk EXCEPT ![run[r].counter] = <<r, Len(run[r].wrote) + 1>>]
                  /\ run'[r].wrote = Append(run[r].wrote, run[r].counter)
    BY <2>2 DEF AddMessage, Typed, LooseRun
  <2>3. CASE Ask(r, written)
    <3> DEFINE next == [run[r] EXCEPT !.stage = "listing", !.lost = ~written]
    <3>1. /\ AddMessage(r, next, written) /\ next \in LooseRun
          /\ next.wrote = run[r].wrote /\ next.counter = run[r].counter
      BY <1>0, <2>3 DEF Ask, LooseRun, Stages
    <3>. HIDE DEF next
    <3>. QED BY <2>1, <2>2, <3>1
  <2>4. CASE AskAnyway(r, written)
    <3> DEFINE next == [run[r] EXCEPT !.stage = "listing", !.lost = ~written, !.looping = FALSE]
    <3>1. /\ AddMessage(r, next, written) /\ next \in LooseRun
          /\ next.wrote = run[r].wrote /\ next.counter = run[r].counter
      BY <1>0, <2>4 DEF AskAnyway, LooseRun, Stages
    <3>. HIDE DEF next
    <3>. QED BY <2>1, <2>2, <3>1
  <2>. QED BY <1>5, <2>3, <2>4
<1>6. ASSUME NEW written \in BOOLEAN, NEW raises \in BOOLEAN, Write(r, written, raises)
      PROVE  \/ disk' = disk /\ run'[r].wrote = run[r].wrote
             \/ /\ run[r].counter \in Ids
                /\ disk' = [disk EXCEPT ![run[r].counter] = <<r, Len(run[r].wrote) + 1>>]
                /\ run'[r].wrote = Append(run[r].wrote, run[r].counter)
  <2>1. run[r].counter \in Ids
    <3>1. /\ run[r].counter = 3 * run[r].iteration + 1 /\ run[r].iteration < MaxLoops
      BY <1>6 DEF Write, At, Turning
    <3>2. PICK n \in Nat, m \in Nat : n = run[r].iteration /\ m = MaxLoops
      BY <1>1
    <3>3. n < m /\ run[r].counter = 3 * n + 1
      BY <3>1, <3>2
    <3>. QED BY <3>2, <3>3 DEF Ids
  <2> DEFINE next == IF raises THEN [run[r] EXCEPT !.stage = "failing"] ELSE Turned(r, run[r])
  <2>2. next \in LooseRun /\ next.wrote = run[r].wrote
    <3>1. /\ [run[r] EXCEPT !.stage = "failing"] \in LooseRun
          /\ [run[r] EXCEPT !.stage = "failing"].wrote = run[r].wrote
      BY <1>0 DEF LooseRun, Stages
    <3>. QED BY <1>0, <3>1, TurnedTyped
  <2>3. /\ disk' = IF written
                   THEN [disk EXCEPT ![run[r].counter] = <<r, Len(run[r].wrote) + 1>>]
                   ELSE disk
        /\ run'[r] = [next EXCEPT !.counter = CountTwice(r),
                        !.wrote = IF written THEN Append(@, run[r].counter) ELSE @]
    BY <1>6 DEF Write, Typed, Mine
  <2>. HIDE DEF next
  <2>4. run'[r].wrote = IF written THEN Append(run[r].wrote, run[r].counter) ELSE run[r].wrote
    BY <2>2, <2>3 DEF LooseRun
  <2>. QED BY <2>1, <2>3, <2>4
<1>7. ASSUME NEW calls \in SUBSET Allowed[r], NEW fresh \in SUBSET run[r].recent,
             Reply(r, calls, fresh)
      PROVE  disk' = disk /\ run'[r].wrote = run[r].wrote
  <2>1. run'[r].wrote = run[r].wrote
    BY <1>7, ReplyIsTold DEF IsTold, Only
  <2>2. UNCHANGED <<disk, active, told>>
    BY <1>7, Zenon DEF Reply
  <2>. QED BY <2>1, <2>2
<1>. QED BY <1>2, <1>3, <1>4, <1>5, <1>6, <1>7 DEF RunStep

\* Another execution's step may write over r's question, and then says so.
LEMMA OthersPrompted ==
  ASSUME NEW r \in Runs, NEW q \in Runs \ {r}, Stored, Prompted(r),
         run \in [Runs -> LooseRun], \A p \in Runs : run[p].wrote \in Seq(Ids),
         \A p \in Runs \ {q} : run'[p] = run[p],
         \/ disk' = disk /\ run'[q].wrote = run[q].wrote
         \/ /\ run[q].counter \in Ids
            /\ disk' = [disk EXCEPT ![run[q].counter] = <<q, Len(run[q].wrote) + 1>>]
            /\ run'[q].wrote = Append(run[q].wrote, run[q].counter)
  PROVE  Prompted(r)'
<1>1. run'[r] = run[r]
  OBVIOUS
<1>2. ASSUME NEW e, Contains(run[q].wrote, e) PROVE Contains(run'[q].wrote, e)
  <2>1. CASE run'[q].wrote = run[q].wrote
    BY <1>2, <2>1
  <2>2. CASE run[q].counter \in Ids /\ run'[q].wrote = Append(run[q].wrote, run[q].counter)
    <3>1. run[q].wrote \in Seq(Ids)
      OBVIOUS
    <3>. QED BY <1>2, <2>2, <3>1, Appended
  <2>. QED BY <2>1, <2>2
<1>3. Overwritten(r) => Overwritten(r)'
  <2>. SUFFICES ASSUME NEW p \in Runs \ {r}, Contains(run[p].wrote, Last(run[r].wrote))
                PROVE  Overwritten(r)'
    BY DEF Overwritten
  <2>1. Contains(run'[p].wrote, Last(run'[r].wrote))
    BY <1>1, <1>2
  <2>. QED BY <2>1 DEF Overwritten
<1>4. disk'[Last(run[r].wrote)] = disk[Last(run[r].wrote)] \/ Overwritten(r)'
  <2>1. CASE disk' = disk
    BY <2>1
  <2>2. CASE /\ run[q].counter \in Ids
             /\ disk' = [disk EXCEPT ![run[q].counter] = <<q, Len(run[q].wrote) + 1>>]
             /\ run'[q].wrote = Append(run[q].wrote, run[q].counter)
    <3>1. CASE run[q].counter = Last(run[r].wrote)
      <4>1. Contains(run'[q].wrote, Last(run'[r].wrote))
        BY <1>1, <2>2, <3>1, Appended
      <4>. QED BY <4>1 DEF Overwritten
    <3>2. CASE run[q].counter # Last(run[r].wrote)
      BY <2>2, <3>2 DEF Stored
    <3>. QED BY <3>1, <3>2
  <2>. QED BY <2>1, <2>2
<1>. QED BY <1>1, <1>3, <1>4 DEF Prompted, At, Question, Mine

\* Between its question and the provider's reply an execution reads the messages.
LEMMA ListsOnly ==
  ASSUME Typed, NEW r \in Runs, RunStep(r), run[r].stage = "listing", run'[r].stage = "asking"
  PROVE  \E read \in BOOLEAN : List(r, read)
<1>1. CASE \/ execute_agent(r) \/ Refuse(r) \/ Ready(r) \/ Executing(r)
           \/ Close(r) \/ CloseHookRaises(r) \/ Raises(r) \/ Fail(r)
  BY <1>1 DEF execute_agent, Refuse, Ready, Executing, Close, CloseHookRaises, Raises, Fail, At
<1>2. CASE Gathered(r) \/ LeaveLoop(r)
  BY <1>2 DEF Gathered, LeaveLoop, At
<1>3. CASE Cancel(r)
  <2>1. Goto(r, "cancelled", << >>)
    BY <1>3 DEF Cancel, At
  <2>. QED BY <2>1, GotoForm
<1>4. CASE \E written \in BOOLEAN : Ask(r, written) \/ AskAnyway(r, written)
  BY <1>4 DEF Ask, AskAnyway, At
<1>5. CASE \E written, raises \in BOOLEAN : Write(r, written, raises)
  BY <1>5 DEF Write, At
<1>6. CASE \E calls \in SUBSET Allowed[r], fresh \in SUBSET run[r].recent : Reply(r, calls, fresh)
  BY <1>6, Zenon DEF Reply, At
<1>. QED BY <1>1, <1>2, <1>3, <1>4, <1>5, <1>6 DEF RunStep

\* Its own step: it asks, and lists what is there.
LEMMA RunStepPrompted ==
  ASSUME Typed, Stored, NEW r \in Runs, RunStep(r), Prompted(r), Turning(run[r]),
         run' \in [Runs -> LooseRun], \A p \in Runs : run[p].wrote \in Seq(Ids),
         \A p \in Runs \ {r} : run'[p] = run[p]
  PROVE  Prompted(r)'
<1> DEFINE x == run[r]
           y == run'[r]
<1>0. x \in LooseRun /\ y \in LooseRun /\ StepOf(x, y)
  BY RunStepForm DEF Typed
<1>1. CASE Asks(x, y)
  <2>1. /\ y.stage = "listing"
        /\ \/ y.wrote = x.wrote /\ y.lost = TRUE
           \/ y.wrote = Append(x.wrote, x.counter) /\ y.lost = FALSE
    BY <1>1 DEF Asks
  <2>2. CASE y.lost = TRUE
    BY <2>1, <2>2 DEF Prompted, At
  <2>3. CASE y.wrote = Append(x.wrote, x.counter) /\ y.lost = FALSE
    <3>1. /\ x.counter \in Ids /\ disk' = [disk EXCEPT ![x.counter] = <<r, Len(x.wrote) + 1>>]
      <4>1. x.wrote # y.wrote
        <5>1. Len(y.wrote) = Len(x.wrote) + 1 /\ Len(x.wrote) \in Nat
          BY <1>0, <2>3, FieldTypes, Appended
        <5>. QED BY <5>1
      <4>. QED BY <4>1, RunStepStores
    <3>2. y.wrote # << >> /\ Last(y.wrote) = x.counter /\ Len(y.wrote) = Len(x.wrote) + 1
      BY <2>3, <3>1, Appended
    <3>3. disk'[Last(y.wrote)] = <<r, Len(y.wrote)>>
      BY <3>1, <3>2 DEF Stored
    <3>. QED BY <2>1, <3>2, <3>3 DEF Prompted, At, Question, Mine
  <2>. QED BY <2>1, <2>2, <2>3
<1>2. CASE Lists(x, y)
  <2>1. /\ x.stage = "listing" /\ y.stage = "asking" /\ y.lost = x.lost /\ y.wrote = x.wrote
    BY <1>2 DEF Lists, Only
  <2>2. Overwritten(r) => Overwritten(r)'
    BY <2>1 DEF Overwritten
  <2>3. PICK read \in BOOLEAN : List(r, read)
    BY <2>1, ListsOnly
  <2>5. /\ y.unread = ~read
        /\ y.asked = (read /\ ~x.lost /\ \E i \in Ids : disk[i] = Question(r))
    <3> DEFINE b == read /\ ~x.lost /\ \E i \in Ids : disk[i] = Question(r)
    <3>2. run' = [run EXCEPT ![r].stage = "asking", ![r].counter = Count(r),
                             ![r].unread = ~read, ![r].asked = b]
      BY <2>3 DEF List
    <3>. HIDE DEF b
    <3>3. y.unread = ~read /\ y.asked = b
      BY <1>0, <3>2 DEF Typed, LooseRun
    <3>. QED BY <3>3 DEF b
  <2>4. ASSUME ~y.asked, ~x.lost, ~y.unread PROVE Overwritten(r)
    <3>1. x.wrote # << >> /\ (disk[Last(x.wrote)] = Question(r) \/ Overwritten(r))
      BY <2>1, <2>4 DEF Prompted, At
    <3>2. Last(x.wrote) \in Ids
      <4>1. x.wrote \in Seq(Ids)
        OBVIOUS
      <4>. QED BY <3>1, <4>1 DEF Last
    <3>. QED BY <2>4, <2>5, <3>1, <3>2
  <2>. QED BY <2>1, <2>2, <2>4, <2>5 DEF Prompted, At
<1>3. CASE Publishes(x, y) \/ IsTold(x, y) \/ Gathers(x, y) \/ Stores(x, y) \/ Leaves(x, y) \/ Dooms(x, y)
  <2>1. y.stage \notin {"listing", "asking"}
    <3>1. CASE Publishes(x, y)
      BY <3>1 DEF Publishes, Moves
    <3>2. CASE IsTold(x, y) \/ Gathers(x, y) \/ Stores(x, y) \/ Leaves(x, y) \/ Dooms(x, y)
      BY <3>2 DEF IsTold, Gathers, Stores, Leaves, Dooms, Only
    <3>. QED BY <1>3, <3>1, <3>2
  <2>. QED BY <2>1 DEF Prompted, At
<1>. QED BY <1>0, <1>1, <1>2, <1>3 DEF StepOf
-----------------------------------------------------------------------------
(* The theorems about what an execution is asked and tells.                *)

Reporting(x) == x.wrote \in Seq(Ids) /\ Turning(x) /\ Logged(x)

Telling ==
  /\ TurnInv /\ ToldTyped /\ Stored
  /\ \A r \in Runs : Reporting(run[r]) /\ Paired(r) /\ Prompted(r)

\* The invariant holds at the start.
LEMMA TellingInit == Init => Telling
<1>. SUFFICES ASSUME Init PROVE Telling
  OBVIOUS
<1>1. TurnInv
  BY TurnInit
<1>2. Stored
  BY DEF Init, Stored
<1>3. ToldTyped
  <2>1. Quiet \in [Tools -> Saw]
    BY DEF Quiet, Saw
  <2>. QED BY <2>1 DEF Init, ToldTyped
<1>4. ASSUME NEW r \in Runs PROVE Reporting(run[r]) /\ Paired(r) /\ Prompted(r)
  <2>1. run[r] = Start /\ tool[r] = NoTools /\ told[r] = Quiet
    BY DEF Init
  <2>2. Reporting(run[r])
    BY <2>1 DEF Start, Reporting, Turning, Logged
  <2>3. Paired(r)
    BY <2>1 DEF Start, Paired, PairedAt, NoTools, Quiet
  <2>4. Prompted(r)
    BY <2>1 DEF Start, Prompted, At
  <2>. QED BY <2>2, <2>3, <2>4
<1>. QED BY <1>1, <1>2, <1>3, <1>4 DEF Telling

\* A step of a tool call stores nothing and leaves what the execution reports.
LEMMA ToolStepLeaves ==
  ASSUME Typed, NEW r \in Runs, NEW t \in Tools, ToolStep(r, t)
  PROVE  /\ disk' = disk
         /\ \A q \in Runs :
              /\ run'[q].wrote = run[q].wrote /\ run'[q].stage = run[q].stage
              /\ run'[q].lost = run[q].lost /\ run'[q].asked = run[q].asked
              /\ run'[q].unread = run[q].unread
         /\ Reporting(run[r]) => Reporting(run'[r])
<1>1. disk' = disk
  BY DEF ToolStep, UnknownTool, ToolStarts, ToolRuns, ToolReturns, ToolRaises, ToolEnds,
     ToolCancelled, KeepRun
<1>2. run' = run \/ run' = [run EXCEPT ![r].doomed = @ \ {t}]
  BY ToolStepForm
<1>3. /\ run'[r].wrote = run[r].wrote /\ run'[r].stage = run[r].stage
      /\ run'[r].lost = run[r].lost /\ run'[r].asked = run[r].asked
      /\ run'[r].unread = run[r].unread
      /\ run'[r].counter = run[r].counter /\ run'[r].iteration = run[r].iteration
      /\ run'[r].replies = run[r].replies /\ run'[r].counted = run[r].counted
      /\ run'[r].looping = run[r].looping /\ run'[r].events = run[r].events
  <2>1. run[r] \in LooseRun
    BY DEF Typed
  <2>. QED BY <1>2, <2>1 DEF Typed, LooseRun
<1>4. \A q \in Runs \ {r} : run'[q] = run[q]
  BY <1>2 DEF Typed
<1>5. ASSUME Reporting(run[r]) PROVE Reporting(run'[r])
  BY <1>3, <1>5 DEF Reporting, Turning, Logged
<1>. QED BY <1>1, <1>3, <1>4, <1>5

\* A tool call keeps the invariant.
LEMMA TellingToolStep ==
  ASSUME Telling, TurnInv', NEW r \in Runs, NEW t \in Tools, ToolStep(r, t)
  PROVE  Telling'
<1>0. Typed /\ Tidy(r) /\ Paired(r) /\ ToldTyped
  BY DEF Telling, TurnInv
<1>1. ToldTyped' /\ Paired(r)' /\ \A q \in Runs \ {r} : told'[q] = told[q]
  BY <1>0, ToolStepPaired
<1>2. /\ disk' = disk
      /\ \A q \in Runs :
           /\ run'[q].wrote = run[q].wrote /\ run'[q].stage = run[q].stage
           /\ run'[q].lost = run[q].lost /\ run'[q].asked = run[q].asked
           /\ run'[q].unread = run[q].unread
      /\ Reporting(run'[r])
  BY <1>0, ToolStepLeaves DEF Telling
<1>3. \A q \in Runs \ {r} : run'[q] = run[q] /\ tool'[q] = tool[q]
  BY <1>0, OthersUntouched
<1>4. Stored'
  BY <1>2 DEF Telling, Stored
<1>5. ASSUME NEW q \in Runs PROVE Prompted(q)'
  <2>1. Prompted(q)
    BY DEF Telling
  <2>2. Overwritten(q) => Overwritten(q)'
    BY <1>2 DEF Overwritten
  <2>. QED BY <1>2, <2>1, <2>2 DEF Prompted, At, Question, Mine
<1>6. ASSUME NEW q \in Runs \ {r} PROVE Reporting(run'[q]) /\ Paired(q)'
  <2>1. Reporting(run[q]) /\ Paired(q)
    BY DEF Telling
  <2>. QED BY <1>1, <1>3, <2>1 DEF Paired
<1>. QED BY <1>1, <1>2, <1>4, <1>5, <1>6 DEF Telling

\* So does a step of the execution itself.
LEMMA TellingRunStep ==
  ASSUME Telling, TurnInv', NEW r \in Runs, RunStep(r)
  PROVE  Telling'
<1>0. /\ Typed /\ Typed' /\ ToldTyped /\ Stored
      /\ \A q \in Runs : Reporting(run[q]) /\ Paired(q) /\ Prompted(q)
  BY DEF Telling, TurnInv
<1>1. /\ \A q \in Runs : run[q] \in LooseRun /\ run'[q] \in LooseRun /\ run[q].wrote \in Seq(Ids)
      /\ run \in [Runs -> LooseRun] /\ run' \in [Runs -> LooseRun]
      /\ Turning(run[r]) /\ Logged(run[r])
  BY <1>0 DEF Typed, Reporting
<1>2. ToldTyped' /\ Paired(r)' /\ \A q \in Runs \ {r} : told'[q] = told[q]
  BY <1>0, <1>1, RunStepPaired
<1>3. \A q \in Runs \ {r} : run'[q] = run[q] /\ tool'[q] = tool[q]
  BY <1>0, OthersUntouched
<1>4. \/ disk' = disk /\ run'[r].wrote = run[r].wrote
      \/ /\ run[r].counter \in Ids
         /\ disk' = [disk EXCEPT ![run[r].counter] = <<r, Len(run[r].wrote) + 1>>]
         /\ run'[r].wrote = Append(run[r].wrote, run[r].counter)
  BY <1>0, <1>1, RunStepStores
<1>5. Stored'
  <2>1. <<r, Len(run[r].wrote) + 1>> \in Runs \X Nat
    BY <1>1
  <2>. QED BY <1>0, <1>4, <2>1 DEF Stored
<1>6. Reporting(run'[r])
  <2>1. run'[r].wrote \in Seq(Ids)
    BY <1>1, <1>4, Appended
  <2>2. StepOf(run[r], run'[r])
    BY <1>0, RunStepForm
  <2>. QED BY <1>1, <2>1, <2>2, StepTurning, StepLogged DEF Reporting
<1>7. Prompted(r)'
  BY <1>0, <1>1, <1>3, RunStepPrompted
<1>8. ASSUME NEW q \in Runs \ {r} PROVE Prompted(q)'
  <2>1. \A p \in Runs \ {r} : run'[p] = run[p]
    BY <1>3
  <2>. QED BY <1>0, <1>1, <1>4, <2>1, OthersPrompted
<1>9. ASSUME NEW q \in Runs \ {r} PROVE Reporting(run'[q]) /\ Paired(q)'
  BY <1>0, <1>2, <1>3 DEF Paired
<1>. QED BY <1>2, <1>5, <1>6, <1>7, <1>8, <1>9 DEF Telling

\* Each step keeps it.
LEMMA TellingStep == Telling /\ [Next]_vars => Telling'
<1>. SUFFICES ASSUME Telling, [Next]_vars PROVE Telling'
  OBVIOUS
<1>1. TurnInv'
  BY TurnStep DEF Telling
<1>2. CASE UNCHANGED vars
  BY <1>1, <1>2 DEF Telling, ToldTyped, Stored, Paired, Prompted, Overwritten, Question, Mine,
     At, vars
<1>3. CASE Next
  <2>1. PICK r \in Runs : RunStep(r) \/ \E t \in Tools : ToolStep(r, t)
    BY <1>3, NextSplits
  <2>. QED BY <1>1, <2>1, TellingRunStep, TellingToolStep
<1>. QED BY <1>2, <1>3

\* It holds always.
LEMMA TellingInvariant == Spec => []Telling
BY TellingInit, TellingStep, PTL DEF Spec

\* With executions of one session overlapping at will, the provider is asked
\* with the question among the messages (AISession.process_message lists them
\* after its write), unless that write failed, the listing failed (the session
\* service then answers with no messages) or another execution, counting from
\* the same stored number, wrote over it.
THEOREM PromptsHold == Spec => []PromptHasQuestion
<1>1. Telling => PromptHasQuestion
  BY DEF Telling, Prompted, Overwritten, PromptHasQuestion
<1>. QED BY <1>1, TellingInvariant, PTL

\* Every variable has its type, the tool calls' events are paired, the
\* lifecycle's are in order and end as the execution does, and the answer
\* reports every reply of the provider once, and the last one once more when the
\* loop had counted it already.
THEOREM ReportsAreTrue == Spec => []TellsWhatHappened
<1>1. Telling => TypeOK
  <2>. SUFFICES ASSUME Telling PROVE TypeOK
    OBVIOUS
  <2>1. ASSUME NEW r \in Runs PROVE run[r] \in Run
    <3>1. run[r] \in LooseRun /\ run[r].wrote \in Seq(Ids)
      BY DEF Telling, TurnInv, Typed, Reporting
    <3>. QED BY <3>1 DEF LooseRun, Run
  <2>2. run \in [Runs -> Run]
    BY <2>1 DEF Telling, TurnInv, Typed
  <2>. QED BY <2>2 DEF TypeOK, Telling, TurnInv, Typed, ToldTyped, Saw, Stored, ToolStates
<1>2. Telling => ToolEventsPaired
  BY DEF Telling, Paired, PairedAt, ToolEventsPaired
<1>3. Telling => EventsTellAnswer
  <2>. SUFFICES ASSUME Telling PROVE EventsTellAnswer
    OBVIOUS
  <2>1. \A r \in Runs : Logged(run[r]) /\ run[r].stage \in Stages
    BY FieldTypes DEF Telling, TurnInv, Typed, Reporting
  <2>. QED BY <2>1, LogTells DEF EventsTellAnswer
<1>4. Telling => RepliesCounted
  BY DEF Telling, Reporting, Turning, RepliesCounted, At
<1>5. Telling => TellsWhatHappened
  BY <1>1, <1>2, <1>3, <1>4 DEF TellsWhatHappened
<1>. QED BY <1>5, TellingInvariant, PTL
=============================================================================
