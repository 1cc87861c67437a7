-------------------------------- MODULE Fsm --------------------------------
(***************************************************************************)
(* FSMImpl of dawn_kestrel/core/fsm.py: one state machine object, driven   *)
(* by several coroutines of one event loop.  transition_to validates the   *)
(* requested edge once, on entry, and then suspends in the exit hook, the  *)
(* entry hook, the repository, the mediator and each observer; between two *)
(* suspensions the coroutine runs alone.  Every action below is one such   *)
(* stretch of transition_to, named for what the coroutine resumes from.    *)
(*                                                                         *)
(* A hook may succeed, return Err, raise, be refused by the rate limiter   *)
(* or run out of retries: _execute_with_reliability turns all of these     *)
(* into a Result that transition_to logs and ignores, so they are one      *)
(* step here.  The same holds for an Err of mediator.publish and for an    *)
(* observer that raises.                                                   *)
(***************************************************************************)
EXTENDS Naturals, Sequences, FiniteSets

CONSTANTS
  States,       \* with_state: the declared states
  Initial,      \* with_initial_state
  Transitions,  \* with_transition: from -> set of to, {} when from is no key
  ExitHooks,    \* states with an exit hook
  EntryHooks,   \* states with an entry hook
  Callers,      \* coroutines that call transition_to
  Observers,    \* observers that may be registered
  Unreadable,   \* the stored record is missing or torn
  MaxCalls      \* bound: calls of transition_to in a behaviour

ASSUME FsmAssumption ==
  /\ Initial \in States
  /\ Transitions \in [States -> SUBSET States]
  /\ ExitHooks \subseteq States /\ EntryHooks \subseteq States
  /\ Unreadable \notin States
  /\ IsFiniteSet(Callers) /\ IsFiniteSet(Observers)
  /\ MaxCalls \in Nat

VARIABLES
  state,      \* self._state
  store,      \* the repository's record for this fsm_id
  observers,  \* self._observers
  view,       \* the last to_state each observer was told
  history,    \* self._command_history
  path,       \* the edges self._state really moved along (observed, not in the code)
  call,       \* what each coroutine is doing inside transition_to
  calls       \* calls made so far, for the bound

vars == <<state, store, observers, view, history, path, call, calls>>

Edge == [from : States, to : States]

\* Where a call is suspended; "idle" is outside transition_to.
Phases == {"idle", "exit", "entry", "persist", "publish", "notify"}

Outcomes == {"none", "Ok", "INVALID_TRANSITION", "PERSISTENCE_ERROR",
             "RuntimeError", "CancelledError"}

\* The loop over the live set self._observers: its size when the loop began,
\* the members of it not yet told, and those told.
Loop == [size : Nat, due : SUBSET Observers, seen : SUBSET Observers]

NoLoop == [size |-> 0, due |-> {}, seen |-> {}]

Call == [phase : Phases, cmd : Edge, loop : Loop, out : Outcomes]

TypeOK ==
  /\ state \in States
  /\ store \in States \cup {Unreadable}
  /\ observers \subseteq Observers
  /\ view \in [Observers -> States]
  /\ history \in Seq(Edge)
  /\ path \in Seq(Edge)
  /\ call \in [Callers -> Call]
  /\ calls \in 0..MaxCalls

Init ==
  /\ state = Initial
  /\ store = Unreadable
  /\ observers \in SUBSET Observers
  /\ view = [o \in Observers |-> Initial]
  /\ history = << >>
  /\ path = << >>
  /\ call = [c \in Callers |->
               [phase |-> "idle", cmd |-> [from |-> Initial, to |-> Initial],
                loop |-> NoLoop, out |-> "none"]]
  /\ calls = 0

-----------------------------------------------------------------------------
(* The stretches of transition_to. *)

is_transition_valid_Mutant(from, to) == TRUE

is_transition_valid(from, to) == to \in Transitions[from]

\* transition_to returns, or an exception leaves it.
Return(c, out) ==
  call' = [call EXCEPT ![c].phase = "idle", ![c].loop = NoLoop, ![c].out = out]

\* self._state = new_state, then on to the entry hook or the repository.
Enter(c, cmd) ==
  /\ state' = cmd.to
  /\ path' = Append(path, [from |-> state, to |-> cmd.to])
  /\ call' = [call EXCEPT
        ![c].phase = IF cmd.to \in EntryHooks THEN "entry" ELSE "persist",
        ![c].cmd = cmd, ![c].out = "none"]

\* Entry of transition_to up to its first suspension.
TransitionTo(c, to) ==
  /\ call[c].phase = "idle"
  /\ calls < MaxCalls
  /\ calls' = calls + 1
  /\ LET cmd == [from |-> state, to |-> to]
     IN \/ /\ ~is_transition_valid(state, to)
           /\ Return(c, "INVALID_TRANSITION")
           /\ UNCHANGED <<state, path>>
        \/ /\ is_transition_valid(state, to)
           /\ state \in ExitHooks
           /\ call' = [call EXCEPT ![c].phase = "exit", ![c].cmd = cmd,
                                   ![c].out = "none"]
           /\ UNCHANGED <<state, path>>
        \/ /\ is_transition_valid(state, to)
           /\ state \notin ExitHooks
           /\ Enter(c, cmd)
  /\ UNCHANGED <<store, observers, view, history>>

ExitHookDone_Mutant(c) ==
  /\ call[c].phase = "exit"
  /\ Enter(c, call[c].cmd)
  /\ history' = Append(history, call[c].cmd)
  /\ UNCHANGED <<store, observers, view, calls>>

ExitHookDone(c) ==
  /\ call[c].phase = "exit"
  /\ Enter(c, call[c].cmd)
  /\ UNCHANGED <<store, observers, view, history, calls>>

EntryHookDone_Mutant(c) ==
  /\ call[c].phase = "entry"
  /\ call' = [call EXCEPT ![c].phase = "publish"]
  /\ UNCHANGED <<state, store, observers, view, history, path, calls>>

EntryHookDone(c) ==
  /\ call[c].phase = "entry"
  /\ call' = [call EXCEPT ![c].phase = "persist"]
  /\ UNCHANGED <<state, store, observers, view, history, path, calls>>

\* repository.set_state lands and mediator.publish is awaited.
Persisted(c) ==
  /\ call[c].phase = "persist"
  /\ store' = call[c].cmd.to
  /\ call' = [call EXCEPT ![c].phase = "publish"]
  /\ UNCHANGED <<state, observers, view, history, path, calls>>

\* set_state answers Err: transition_to gives up with self._state already
\* changed.  A write that fails half way leaves a torn record.
PersistFails_Mutant(c) ==
  /\ call[c].phase = "persist"
  /\ store' \in {store, Unreadable}
  /\ call' = [call EXCEPT ![c].phase = "publish"]
  /\ UNCHANGED <<state, observers, view, history, path, calls>>

PersistFails(c) ==
  /\ call[c].phase = "persist"
  /\ store' \in {store, Unreadable}
  /\ Return(c, "PERSISTENCE_ERROR")
  /\ UNCHANGED <<state, observers, view, history, path, calls>>

\* One turn of "for observer in self._observers".  CPython's set iterator
\* raises when the size differs from the size it began with; a member removed
\* meanwhile is skipped, one added meanwhile may or may not be reached.
LoopTurn(c, loop) ==
  \/ /\ loop.size # Cardinality(observers)
     /\ Return(c, "RuntimeError")
     /\ UNCHANGED <<view, history>>
  \/ /\ loop.size = Cardinality(observers)
     /\ \E o \in observers \ loop.seen :
          /\ view' = [view EXCEPT ![o] = call[c].cmd.to]
          /\ call' = [call EXCEPT ![c].phase = "notify",
                        ![c].loop = [loop EXCEPT !.due = @ \ {o},
                                                 !.seen = @ \cup {o}]]
     /\ UNCHANGED history
  \/ /\ loop.size = Cardinality(observers)
     /\ loop.due = {}
     /\ history' = Append(history, call[c].cmd)
     /\ Return(c, "Ok")
     /\ UNCHANGED view

\* mediator.publish answers and the loop over the observers begins.
Published(c) ==
  /\ call[c].phase = "publish"
  /\ LoopTurn(c, [size |-> Cardinality(observers), due |-> observers, seen |-> {}])
  /\ UNCHANGED <<state, store, observers, path, calls>>

\* An observer's on_notify returns and the loop goes on.
Notified(c) ==
  /\ call[c].phase = "notify"
  /\ LoopTurn(c, call[c].loop)
  /\ UNCHANGED <<state, store, observers, path, calls>>

\* The task is cancelled where it is suspended: CancelledError is no
\* Exception, so nothing in transition_to catches it.  A cancelled write may
\* have landed, have truncated the record, or have done nothing.
Cancel(c) ==
  /\ call[c].phase # "idle"
  /\ Return(c, "CancelledError")
  /\ store' \in IF call[c].phase = "persist"
                THEN {store, Unreadable, call[c].cmd.to} ELSE {store}
  /\ UNCHANGED <<state, observers, view, history, path, calls>>

-----------------------------------------------------------------------------
(* The observer registry, open to everyone while calls are in flight. *)

register_observer(o) ==
  /\ o \notin observers
  /\ observers' = observers \cup {o}
  /\ UNCHANGED <<state, store, view, history, path, call, calls>>

unregister_observer(o) ==
  /\ o \in observers
  /\ observers' = observers \ {o}
  /\ call' = [c \in Callers |-> [call[c] EXCEPT !.loop.due = @ \ {o}]]
  /\ UNCHANGED <<state, store, view, history, path, calls>>

-----------------------------------------------------------------------------
Resume(c) ==
  \/ ExitHookDone(c)
  \/ EntryHookDone(c)
  \/ Persisted(c)
  \/ PersistFails(c)
  \/ Published(c)
  \/ Notified(c)

Next ==
  \/ \E c \in Callers :
       \/ \E to \in States : TransitionTo(c, to)
       \/ Resume(c)
       \/ Cancel(c)
  \/ \E o \in Observers : register_observer(o) \/ unregister_observer(o)

Spec == Init /\ [][Next]_vars

-----------------------------------------------------------------------------
(* Properties. *)

\* transition_to validates against self._state, whoever moved it last: with
\* any number of coroutines, cancellations and failed writes, the FSM and the
\* stored record only ever hold a state that declared transitions lead to.
Closed(S) == \A s \in S : Transitions[s] \subseteq S

ReachableOnly ==
  \A S \in SUBSET States :
    Initial \in S /\ Closed(S) => state \in S /\ store \in S \cup {Unreadable}

\* As long as one coroutine alone has called transition_to.
Called(c) == call[c].phase # "idle" \/ call[c].out # "none"
Alone == \A c, d \in Callers : Called(c) /\ Called(d) => c = d

\* A coroutine that drives the FSM alone and is answered Ok finds memory, the
\* repository and the audit history agreeing on the move it asked for.
AgreeWhenOk ==
  Alone => \A c \in Callers :
    call[c].phase = "idle" /\ call[c].out = "Ok" =>
      /\ store = state
      /\ history # << >> /\ history[Len(history)].to = state
      /\ path[Len(path)] = history[Len(history)]

\* Driven by one coroutine, an observer hears of a transition only once the
\* repository holds it: a reader it triggers never finds the older record.
ToldAfterPersisted ==
  [][Alone' => \A o \in Observers : view'[o] # view[o] => store = view'[o]]_vars

\* get_command_history never lists the entry into a state more often than it
\* was made, however calls interleave, fail or are cancelled.  (Where an entry
\* says the move came from is true of a coroutine alone, see AgreeWhenOk: with
\* two, the edge it validated may not be the one taken.)
Count(seq, s) == Cardinality({i \in DOMAIN seq : seq[i].to = s})
AuditSound == \A s \in States : Count(history, s) <= Count(path, s)

\* Driven by one coroutine, the FSM refines the machine of its declaration:
\* terminal states are never left and no edge is invented.
Declared == INSTANCE StateMachine WITH current <- state
MovesAreDeclared == Declared!Init /\ [][Alone' => Declared!Next]_state
=============================================================================
