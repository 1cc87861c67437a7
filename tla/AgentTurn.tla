----------------------------- MODULE AgentTurn ------------------------------
(***************************************************************************)
(* AgentRuntime.execute_agent (agents/runtime.py) with the AISession it    *)
(* makes (ai_session.py), the ToolExecutionManager of that session         *)
(* (ai/tool_execution.py) and the session's messages on disk, for          *)
(* executions of one stored session, one after the other or overlapping.   *)
(*                                                                         *)
(* Each execution loads the session for itself, and with it a              *)
(* message_counter that nobody writes back: every execution numbers its    *)
(* messages from the stored counter, 0.  The tool calls of a reply run in  *)
(* tasks of their own under one gather.  A publication is one suspension,  *)
(* during which its subscribers run.                                       *)
(***************************************************************************)
EXTENDS Integers, Sequences, FiniteSets, SequencesExt

CONSTANTS
  Runs,       \* executions of the session
  Tools,      \* tool calls a reply may hold, told apart by their signature
  Allowed,    \* those an execution's agent has permission for
  MaxLoops,   \* MAX_TOOL_LOOPS
  NoMessage

ASSUME TurnAssumption ==
  /\ Allowed \in [Runs -> SUBSET Tools]
  /\ MaxLoops \in Nat \ {0} /\ NoMessage \notin Runs \X Nat

\* Three numbers go with every exchange, the first two of them to messages; an
\* exchange outside the loop is the only one.
Ids == 0 .. 3 * (MaxLoops - 1) + 1

VARIABLES
  disk,    \* the message stored under each identifier: its run and number
  run,     \* each execution
  tool,    \* each tool call of its current reply
  active,  \* ToolExecutionManager.active_calls
  told     \* TOOL_STARTED, and TOOL_COMPLETED or TOOL_ERROR, published for a call

vars == <<disk, run, tool, active, told>>

Final == {"answered", "failed", "refused", "cancelled"}
Stages == {"idle", "initialized", "ready", "turn", "listing", "asking", "tools",
           "writing", "closing", "failing"} \cup Final
Events == {"initialized", "ready", "executing", "cleanup", "error"}

Run == [stage : Stages, counter : Nat, iteration : Nat,
        looping : BOOLEAN,          \* still in the loop over tool replies
        asked : BOOLEAN,            \* the prompt holds the question
        lost : BOOLEAN,             \* the question could not be stored
        unread : BOOLEAN,           \* the messages could not be listed
        replies : Nat,              \* messages the provider answered with
        acted : BOOLEAN,            \* the latest one has a tool part
        counted : Seq(Nat),         \* the replies in all_parts and total_tokens
        wrote : Seq(Ids),           \* identifiers written, in order
        recent : SUBSET Tools,      \* _recent_tool_signatures of the last 8 s
        cancelled : BOOLEAN,        \* gather will raise CancelledError
        doomed : SUBSET Tools,      \* tool calls that still have to see it
        events : Seq(Events)]

Start == [stage |-> "idle", counter |-> 0, iteration |-> 0, looping |-> TRUE,
          asked |-> FALSE, lost |-> FALSE, unread |-> FALSE, replies |-> 0, acted |-> FALSE,
          counted |-> << >>, wrote |-> << >>, recent |-> {},
          cancelled |-> FALSE, doomed |-> {}, events |-> << >>]

NoTools == [t \in Tools |-> "none"]
Quiet == [t \in Tools |-> [start |-> 0, end |-> 0]]

\* Every variable has its type.
TypeOK ==
  /\ disk \in [Ids -> (Runs \X Nat) \cup {NoMessage}]
  /\ run \in [Runs -> Run]
  /\ tool \in [Runs -> [Tools -> {"none", "created", "starting", "running",
                                  "completing", "erroring", "ended", "raised"}]]
  /\ active \in [Runs -> SUBSET Tools]
  /\ told \in [Runs -> [Tools -> [start : 0..1, end : 0..2]]]

Init ==
  /\ disk = [i \in Ids |-> NoMessage]
  /\ run = [r \in Runs |-> Start]
  /\ tool = [r \in Runs |-> NoTools]
  /\ active = [r \in Runs |-> {}]
  /\ told = [r \in Runs |-> Quiet]

KeepTools == UNCHANGED <<tool, active, told>>
At(r, stage) == run[r].stage = stage

\* The run continues at the stage, after publishing the events.  The AISession
\* goes with the execution.
Goto(r, stage, events) ==
  LET next == [run[r] EXCEPT !.stage = stage, !.events = @ \o events]
  IN  run' = [run EXCEPT ![r] =
                IF stage \in Final
                THEN [next EXCEPT !.counter = 0, !.iteration = 0, !.recent = {},
                                  !.asked = FALSE, !.lost = FALSE, !.unread = FALSE]
                ELSE next]

-----------------------------------------------------------------------------
(* execute_agent up to the loop. *)

\* No such agent or session, or the session lacks a field.
Refuse(r) ==
  /\ At(r, "idle")
  /\ Goto(r, "refused", <<"error">>)
  /\ UNCHANGED disk /\ KeepTools

execute_agent(r) ==
  /\ At(r, "idle")
  /\ Goto(r, "initialized", <<"initialized">>)
  /\ UNCHANGED disk /\ KeepTools

\* Tools are filtered and the context is built.
Ready(r) ==
  /\ At(r, "initialized")
  /\ Goto(r, "ready", <<"ready">>)
  /\ UNCHANGED disk /\ KeepTools

\* The AISession is made.
Executing(r) ==
  /\ At(r, "ready")
  /\ Goto(r, "turn", <<"executing">>)
  /\ UNCHANGED disk /\ KeepTools

-----------------------------------------------------------------------------
(* process_message: the question is stored under the counter's number, all *)
(* messages are listed, the provider is asked and its reply is stored.     *)

Mine(r) == run[r].wrote
Question(r) == <<r, Len(Mine(r))>>

\* As if the write were not awaited.
AddMessage_Mutant(r, next, written) ==
  /\ run' = [run EXCEPT ![r] = [next EXCEPT !.wrote = Append(@, next.counter), !.lost = FALSE]]
  /\ UNCHANGED disk

\* add_message answers with the identifier also when the write failed.
AddMessage(r, next, written) ==
  IF written
  THEN /\ disk' = [disk EXCEPT ![next.counter] = <<r, Len(next.wrote) + 1>>]
       /\ run' = [run EXCEPT ![r] = [next EXCEPT !.wrote = Append(@, next.counter)]]
  ELSE /\ run' = [run EXCEPT ![r] = next]
       /\ UNCHANGED disk

\* An iteration the policy lets through.
Ask(r, written) ==
  /\ At(r, "turn") /\ run[r].iteration < MaxLoops
  /\ AddMessage(r, [run[r] EXCEPT !.stage = "listing", !.lost = ~written], written)
  /\ KeepTools

\* The policy stops the loop before the provider was ever asked: it is asked
\* once, without tools.
AskAnyway(r, written) ==
  /\ At(r, "turn") /\ run[r].replies = 0
  /\ AddMessage(r, [run[r] EXCEPT !.stage = "listing", !.lost = ~written, !.looping = FALSE], written)
  /\ KeepTools

\* list_messages; the counter moves on.
NoCount_Mutant(r) == run[r].counter
Count(r) == run[r].counter + 1

\* Whatever goes wrong with the listing, DefaultSessionService.list_messages
\* answers an empty one.
List(r, read) ==
  /\ At(r, "listing")
  /\ run' = [run EXCEPT
       ![r].stage = "asking", ![r].counter = Count(r), ![r].unread = ~read,
       ![r].asked = read /\ ~run[r].lost /\ \E i \in Ids : disk[i] = Question(r)]
  /\ UNCHANGED disk /\ KeepTools

\* The stream ends: tool calls seen in the last 8 seconds are dropped, the
\* others are started together.
Reply(r, calls, fresh) ==
  /\ At(r, "asking")
  /\ run[r].looping \/ calls = {}
  /\ LET new == calls \ fresh
     IN  /\ run' = [run EXCEPT ![r].stage = IF new = {} THEN "writing" ELSE "tools",
                               ![r].recent = fresh \cup calls,
                               ![r].replies = @ + 1, ![r].acted = FALSE]
         /\ tool' = [tool EXCEPT ![r] = [t \in Tools |-> IF t \in new THEN "created" ELSE "none"]]
  /\ UNCHANGED <<disk, active, told>>

-----------------------------------------------------------------------------
(* execute_tool_call, in a task of its own. *)

Settled(r) == \A t \in Tools : tool[r][t] \in {"none", "ended", "raised"}

Set(r, t, state) == tool' = [tool EXCEPT ![r][t] = state]
TellStart(r, t) == told' = [told EXCEPT ![r][t].start = @ + 1]
TellEnd(r, t) == told' = [told EXCEPT ![r][t].end = @ + 1]
InTool(r, t, state) == tool[r][t] = state /\ t \notin run[r].doomed
KeepRun == UNCHANGED <<disk, run>>

UnknownTool(r, t) ==
  /\ InTool(r, t, "created") /\ Set(r, t, "ended")
  /\ UNCHANGED <<active, told>> /\ KeepRun

ToolStarts(r, t) ==
  /\ InTool(r, t, "created") /\ Set(r, t, "starting") /\ TellStart(r, t)
  /\ UNCHANGED active /\ KeepRun

ToolRuns(r, t) ==
  /\ InTool(r, t, "starting") /\ Set(r, t, "running")
  /\ active' = [active EXCEPT ![r] = @ \cup {t}]
  /\ UNCHANGED told /\ KeepRun

ToolReturns(r, t) ==
  /\ InTool(r, t, "running") /\ Set(r, t, "completing") /\ TellEnd(r, t)
  /\ UNCHANGED active /\ KeepRun

ToolRaises_Mutant(r, t) ==
  /\ InTool(r, t, "running") /\ Set(r, t, "erroring")
  /\ UNCHANGED <<active, told>> /\ KeepRun

ToolRaises(r, t) ==
  /\ InTool(r, t, "running") /\ Set(r, t, "erroring") /\ TellEnd(r, t)
  /\ UNCHANGED active /\ KeepRun

\* The event is out: finally, and a ToolResult, for an error too.
ToolEnds(r, t) ==
  /\ \/ InTool(r, t, "completing")
     \/ InTool(r, t, "erroring")
  /\ Set(r, t, "ended")
  /\ active' = [active EXCEPT ![r] = @ \ {t}]
  /\ UNCHANGED told /\ KeepRun

\* CancelledError reaches the tool call: inside try it becomes a TOOL_ERROR and
\* a result, elsewhere it ends the call.
ToolCancelled(r, t) ==
  /\ t \in run[r].doomed
  /\ run' = [run EXCEPT ![r].doomed = @ \ {t}]
  /\ \/ /\ tool[r][t] \in {"running", "completing"}
        /\ Set(r, t, "erroring") /\ TellEnd(r, t) /\ UNCHANGED active
     \/ /\ tool[r][t] \in {"created", "starting", "erroring"}
        /\ Set(r, t, "raised") /\ active' = [active EXCEPT ![r] = @ \ {t}] /\ UNCHANGED told
  /\ UNCHANGED disk

\* gather returns when every call has ended; with return_exceptions a call that
\* raised leaves no part.
Gathered(r) ==
  /\ At(r, "tools") /\ Settled(r)
  /\ IF run[r].cancelled THEN Goto(r, "cancelled", << >>)
     ELSE run' = [run EXCEPT ![r].stage = "writing",
                            ![r].acted = \E t \in Tools : tool[r][t] = "ended"]
  /\ UNCHANGED disk /\ KeepTools

-----------------------------------------------------------------------------
(* The reply is stored and counted; the loop goes on after tool calls.     *)

\* The reply is added to all_parts and total_tokens in the loop; whatever the
\* last reply is, it is added after the loop.
Turned(r, next) ==
  LET in == [next EXCEPT !.counted = IF next.looping THEN Append(@, next.replies) ELSE @]
  IN  IF next.looping /\ next.acted
      THEN [in EXCEPT !.stage = "turn", !.iteration = @ + 1]
      ELSE [in EXCEPT !.stage = "closing", !.counted = Append(@, next.replies)]

\* create_assistant_message counts once, process_message once more.
CountTwice(r) == run[r].counter + 2

\* The write lands or fails, and a listener may raise once it is done.
Write(r, written, raises) ==
  /\ At(r, "writing")
  /\ LET next == IF raises THEN [run[r] EXCEPT !.stage = "failing"] ELSE Turned(r, run[r])
         id == run[r].counter
     IN  /\ disk' = IF written THEN [disk EXCEPT ![id] = <<r, Len(Mine(r)) + 1>>] ELSE disk
         /\ run' = [run EXCEPT ![r] = [next EXCEPT !.counter = CountTwice(r),
                      !.wrote = IF written THEN Append(@, id) ELSE @]]
  /\ tool' = [tool EXCEPT ![r] = NoTools] /\ told' = [told EXCEPT ![r] = Quiet]
  /\ UNCHANGED active

\* The policy rejects the proposal, asks for approval or has no budget left, or
\* the loop has had its turns.
LeaveLoop(r) ==
  /\ At(r, "turn") /\ run[r].replies > 0
  /\ run' = [run EXCEPT ![r].stage = "closing", ![r].counted = Append(@, run[r].replies)]
  /\ UNCHANGED disk /\ KeepTools

Close(r) ==
  /\ At(r, "closing")
  /\ Goto(r, "answered", <<"cleanup">>)
  /\ UNCHANGED disk /\ KeepTools

\* The evaluation hook for the end of a phase raises, after AGENT_CLEANUP.
CloseHookRaises(r) ==
  /\ At(r, "closing")
  /\ Goto(r, "failing", <<"cleanup">>)
  /\ UNCHANGED disk /\ KeepTools

\* Context, model lookup, provider or an evaluation hook raises.
Raises(r) ==
  /\ run[r].stage \in {"initialized", "ready", "asking", "writing", "turn"}
  /\ Goto(r, "failing", << >>)
  /\ UNCHANGED disk /\ KeepTools

Fail(r) ==
  /\ At(r, "failing")
  /\ Goto(r, "failed", <<"error">>)
  /\ UNCHANGED disk /\ KeepTools

\* The caller is cancelled.  No handler of execute_agent sees it; gather hands
\* it to the tool calls first.
Cancel_Mutant(r) ==
  /\ run[r].stage \notin Final \cup {"idle"} /\ ~run[r].cancelled
  /\ run' = [run EXCEPT ![r].cancelled = TRUE, ![r].stage = "cancelled"]
  /\ UNCHANGED disk /\ KeepTools

Cancel(r) ==
  /\ run[r].stage \notin Final \cup {"idle"} /\ ~run[r].cancelled
  /\ IF At(r, "tools")
     THEN run' = [run EXCEPT ![r].cancelled = TRUE, ![r].doomed =
                    {t \in Tools : tool[r][t] \notin {"none", "ended", "raised"}}]
     ELSE Goto(r, "cancelled", << >>)
  /\ UNCHANGED disk /\ KeepTools

-----------------------------------------------------------------------------
ToolStep(r, t) ==
  \/ UnknownTool(r, t) \/ ToolStarts(r, t) \/ ToolRuns(r, t) \/ ToolReturns(r, t)
  \/ ToolRaises(r, t) \/ ToolEnds(r, t) \/ ToolCancelled(r, t)

Advance(r) ==
  \/ Ready(r) \/ Executing(r) \/ Gathered(r)
  \/ \E read \in BOOLEAN : List(r, read)
  \/ \E written \in BOOLEAN :
       \/ Ask(r, written) \/ AskAnyway(r, written)
       \/ \E raises \in BOOLEAN : Write(r, written, raises)
  \/ \E calls \in SUBSET Allowed[r], fresh \in SUBSET run[r].recent : Reply(r, calls, fresh)
  \/ LeaveLoop(r) \/ Close(r) \/ CloseHookRaises(r) \/ Raises(r) \/ Fail(r)
  \/ \E t \in Tools : ToolStep(r, t)

Next ==
  \E r \in Runs : execute_agent(r) \/ Refuse(r) \/ Advance(r) \/ Cancel(r)

Spec == Init /\ [][Next]_vars

-----------------------------------------------------------------------------
(* Properties. *)

\* A tool call never outlives the reply it belongs to: when the session goes on
\* to anything else, and when the execution is over, cancelled ones included,
\* every call has ended and active_calls is empty.
ToolsSettled ==
  \A r \in Runs : ~At(r, "tools") => Settled(r) /\ active[r] = {}

\* Subscribers see one end of every tool call they saw start, unless the
\* execution was cancelled; then they may see none, or two.
ToolEventsPaired ==
  \A r \in Runs, t \in Tools :
    ~run[r].cancelled /\ tool[r][t] = "ended" => told[r][t].end = told[r][t].start

\* The lifecycle events, in order and each at most once; the last one tells how
\* the execution was answered.
Rank(e) == CASE e = "initialized" -> 1 [] e = "ready" -> 2 [] e = "executing" -> 3
             [] e = "cleanup" -> 4 [] e = "error" -> 5

EventsTellAnswer ==
  \A r \in Runs :
    LET log == run[r].events
    IN  /\ \A i, j \in DOMAIN log : i < j => Rank(log[i]) < Rank(log[j])
        /\ At(r, "answered") => Last(log) = "cleanup"
        /\ run[r].stage \in {"failed", "refused"} => Last(log) = "error"

\* An execution numbers its own messages apart, although three places count.
OwnMessagesApart == \A r \in Runs : IsInjective(run[r].wrote)

\* The provider is asked with the question among the messages, unless it could
\* not be stored, the messages could not be listed (both failures are swallowed
\* by the session service), or another execution of the session wrote under its
\* number.
PromptHasQuestion ==
  \A r \in Runs : At(r, "asking") /\ ~run[r].asked =>
    \/ run[r].lost \/ run[r].unread
    \/ \E q \in Runs \ {r} : Contains(run[q].wrote, Last(run[r].wrote))

\* What the answer reports covers every reply of the provider, no reply more
\* often than this: the last one is in it twice if it came out of the loop.
RepliesCounted ==
  \A r \in Runs : At(r, "answered") =>
    /\ Range(run[r].counted) = 1 .. run[r].replies
    /\ Len(run[r].counted) = run[r].replies + IF run[r].looping THEN 1 ELSE 0
    /\ run[r].replies <= MaxLoops

\* What an execution tells its subscribers, and its caller, is what it did.
TellsWhatHappened == TypeOK /\ ToolEventsPaired /\ EventsTellAnswer /\ RepliesCounted

\* "assert result.tokens_used.input == 10" after one reply of 10 tokens
\* (tests/test_agent_runtime.py): no reply is in the answer twice.
RepliesCountedOnce ==
  \A r \in Runs : At(r, "answered") => IsInjective(run[r].counted)
=============================================================================
