----------------------------- MODULE Fsm_proof -----------------------------
(***************************************************************************)
(* What holds of FSMImpl for every set of states, every transition table   *)
(* and any number of coroutines (type correctness, ReachableOnly,          *)
(* AuditSound), and what holds as long as a single one of them drives it   *)
(* (MovesAreDeclared, AgreeWhenOk, ToldAfterPersisted).                    *)
(***************************************************************************)
EXTENDS Fsm, FiniteSetTheorems, TLAPS

USE FsmAssumption

\* The type invariant holds initially.
LEMMA InitTypeOK == Init => TypeOK
<1>. SUFFICES ASSUME Init PROVE TypeOK
  OBVIOUS
<1>1. NoLoop \in Loop
  BY DEF NoLoop, Loop
<1>2. [from |-> Initial, to |-> Initial] \in Edge
  BY DEF Edge
<1>3. call \in [Callers -> Call]
  BY <1>1, <1>2 DEF Init, Call, Phases, Outcomes
<1>. QED BY <1>3 DEF Init, TypeOK

\* Leaving transition_to keeps every call well typed.
LEMMA ReturnTyped ==
  ASSUME TypeOK, NEW c \in Callers, NEW out \in Outcomes, Return(c, out)
  PROVE  call' \in [Callers -> Call]
<1>1. NoLoop \in Loop
  BY DEF NoLoop, Loop
<1>2. call[c] \in Call
  BY DEF TypeOK
<1>3. [call[c] EXCEPT !.phase = "idle", !.loop = NoLoop, !.out = out] \in Call
  BY <1>1, <1>2 DEF Call, Phases
<1>. QED BY <1>3 DEF Return, TypeOK

\* Setting self._state keeps everything it touches well typed.
LEMMA EnterTyped ==
  ASSUME TypeOK, NEW c \in Callers, NEW cmd \in Edge, Enter(c, cmd)
  PROVE  state' \in States /\ path' \in Seq(Edge) /\ call' \in [Callers -> Call]
<1>1. state' \in States
  BY DEF Enter, Edge
<1>2. path' \in Seq(Edge)
  <2>1. [from |-> state, to |-> cmd.to] \in Edge
    BY DEF Edge, TypeOK
  <2>. QED BY <2>1 DEF Enter, TypeOK
<1>3. call' \in [Callers -> Call]
  <2>. DEFINE next == IF cmd.to \in EntryHooks THEN "entry" ELSE "persist"
  <2>1. next \in Phases
    BY DEF Phases
  <2>2. call' = [call EXCEPT ![c] = [call[c] EXCEPT !.phase = next, !.cmd = cmd,
                                                    !.out = "none"]]
    BY DEF Enter
  <2>. HIDE DEF next
  <2>3. [call[c] EXCEPT !.phase = next, !.cmd = cmd, !.out = "none"] \in Call
    BY <2>1 DEF TypeOK, Call, Outcomes
  <2>. QED BY <2>2, <2>3 DEF TypeOK
<1>. QED BY <1>1, <1>2, <1>3

\* A turn of the observer loop keeps everything it touches well typed.
LEMMA LoopTurnTyped ==
  ASSUME TypeOK, NEW c \in Callers, NEW loop \in Loop, LoopTurn(c, loop)
  PROVE  /\ view' \in [Observers -> States]
         /\ history' \in Seq(Edge)
         /\ call' \in [Callers -> Call]
<1>. call[c].cmd \in Edge /\ call[c].cmd.to \in States
  BY DEF TypeOK, Call, Edge
<1>1. CASE Return(c, "RuntimeError") /\ UNCHANGED <<view, history>>
  BY <1>1, ReturnTyped DEF TypeOK, Outcomes
<1>2. ASSUME NEW o \in observers \ loop.seen,
             view' = [view EXCEPT ![o] = call[c].cmd.to],
             call' = [call EXCEPT ![c].phase = "notify",
                        ![c].loop = [loop EXCEPT !.due = @ \ {o},
                                                 !.seen = @ \cup {o}]],
             UNCHANGED history
      PROVE  /\ view' \in [Observers -> States]
             /\ history' \in Seq(Edge)
             /\ call' \in [Callers -> Call]
  <2>1. o \in Observers
    BY DEF TypeOK
  <2>2. [loop EXCEPT !.due = @ \ {o}, !.seen = @ \cup {o}] \in Loop
    BY <2>1 DEF Loop
  <2>3. call' \in [Callers -> Call]
    <3>. DEFINE next == [loop EXCEPT !.due = @ \ {o}, !.seen = @ \cup {o}]
    <3>. HIDE DEF next
    <3>1. [call[c] EXCEPT !.phase = "notify", !.loop = next] \in Call
      BY <2>2 DEF TypeOK, Call, Phases, next
    <3>2. call' = [call EXCEPT ![c] = [call[c] EXCEPT !.phase = "notify", !.loop = next]]
      BY <1>2 DEF next
    <3>. QED BY <3>1, <3>2 DEF TypeOK
  <2>. QED BY <1>2, <2>1, <2>3 DEF TypeOK
<1>3. CASE /\ history' = Append(history, call[c].cmd)
           /\ Return(c, "Ok")
           /\ UNCHANGED view
  BY <1>3, ReturnTyped DEF TypeOK, Outcomes
<1>. QED BY <1>1, <1>2, <1>3 DEF LoopTurn

\* Every step of transition_to and of the registry preserves the types.
LEMMA NextTypeOK == TypeOK /\ [Next]_vars => TypeOK'
<1>. SUFFICES ASSUME TypeOK, [Next]_vars
              PROVE  TypeOK'
  OBVIOUS
<1>1. ASSUME NEW c \in Callers, NEW to \in States, TransitionTo(c, to)
      PROVE  TypeOK'
  <2>. DEFINE cmd == [from |-> state, to |-> to]
  <2>1. cmd \in Edge
    BY DEF TypeOK, Edge
  <2>2. calls' \in 0..MaxCalls
    BY <1>1 DEF TransitionTo, TypeOK
  <2>3. CASE Return(c, "INVALID_TRANSITION") /\ UNCHANGED <<state, path>>
    BY <1>1, <2>2, <2>3, ReturnTyped DEF TransitionTo, TypeOK, Outcomes
  <2>4. CASE /\ call' = [call EXCEPT ![c].phase = "exit", ![c].cmd = cmd,
                                     ![c].out = "none"]
             /\ UNCHANGED <<state, path>>
    <3>1. call' \in [Callers -> Call]
      <4>1. call' = [call EXCEPT ![c] = [call[c] EXCEPT !.phase = "exit", !.cmd = cmd,
                                                        !.out = "none"]]
        BY <2>4
      <4>2. [call[c] EXCEPT !.phase = "exit", !.cmd = cmd, !.out = "none"] \in Call
        BY <2>1 DEF TypeOK, Call, Phases, Outcomes
      <4>. QED BY <4>1, <4>2 DEF TypeOK
    <3>. QED BY <1>1, <2>2, <2>4, <3>1 DEF TransitionTo, TypeOK
  <2>5. CASE Enter(c, cmd)
    BY <1>1, <2>1, <2>2, <2>5, EnterTyped DEF TransitionTo, TypeOK
  <2>. QED BY <1>1, <2>3, <2>4, <2>5 DEF TransitionTo
<1>2. ASSUME NEW c \in Callers, ExitHookDone(c) PROVE TypeOK'
  <2>1. call[c].cmd \in Edge
    BY DEF TypeOK, Call
  <2>. QED BY <1>2, <2>1, EnterTyped DEF ExitHookDone, TypeOK
<1>3. ASSUME NEW c \in Callers, EntryHookDone(c) PROVE TypeOK'
  BY <1>3 DEF EntryHookDone, TypeOK, Call, Phases
<1>4. ASSUME NEW c \in Callers, Persisted(c) PROVE TypeOK'
  BY <1>4 DEF Persisted, TypeOK, Call, Edge, Phases
<1>5. ASSUME NEW c \in Callers, PersistFails(c) PROVE TypeOK'
  BY <1>5, ReturnTyped DEF PersistFails, TypeOK, Outcomes
<1>6. ASSUME NEW c \in Callers, Published(c) PROVE TypeOK'
  <2>1. [size |-> Cardinality(observers), due |-> observers, seen |-> {}] \in Loop
    <3>1. IsFiniteSet(observers)
      BY FS_Subset DEF TypeOK
    <3>. QED BY <3>1, FS_CardinalityType DEF Loop, TypeOK
  <2>. QED BY <1>6, <2>1, LoopTurnTyped DEF Published, TypeOK
<1>7. ASSUME NEW c \in Callers, Notified(c) PROVE TypeOK'
  <2>1. call[c].loop \in Loop
    BY DEF TypeOK, Call
  <2>. QED BY <1>7, <2>1, LoopTurnTyped DEF Notified, TypeOK
<1>8. ASSUME NEW c \in Callers, Cancel(c) PROVE TypeOK'
  <2>1. store' \in States \cup {Unreadable}
    BY <1>8 DEF Cancel, TypeOK, Call, Edge
  <2>. QED BY <1>8, <2>1, ReturnTyped DEF Cancel, TypeOK, Outcomes
<1>9. ASSUME NEW o \in Observers, register_observer(o) PROVE TypeOK'
  BY <1>9 DEF register_observer, TypeOK
<1>10. ASSUME NEW o \in Observers, unregister_observer(o) PROVE TypeOK'
  <2>1. ASSUME NEW c \in Callers
        PROVE  [call[c] EXCEPT !.loop.due = @ \ {o}] \in Call
    <3>1. call[c] \in Call /\ call[c].loop \in Loop
      BY DEF TypeOK, Call
    <3>2. [call[c].loop EXCEPT !.due = @ \ {o}] \in Loop
      BY <3>1 DEF Loop
    <3>3. [call[c] EXCEPT !.loop.due = @ \ {o}]
            = [call[c] EXCEPT !.loop = [call[c].loop EXCEPT !.due = @ \ {o}]]
      BY <3>1 DEF Call, Loop
    <3>4. [call[c] EXCEPT !.loop = [call[c].loop EXCEPT !.due = @ \ {o}]] \in Call
      BY <3>1, <3>2 DEF Call
    <3>. QED BY <3>3, <3>4
  <2>2. call' \in [Callers -> Call]
    BY <1>10, <2>1 DEF unregister_observer
  <2>. QED BY <1>10, <2>2 DEF unregister_observer, TypeOK
<1>11. CASE UNCHANGED vars
  BY <1>11 DEF vars, TypeOK
<1>. QED
  BY <1>1, <1>2, <1>3, <1>4, <1>5, <1>6, <1>7, <1>8, <1>9, <1>10, <1>11
     DEF Next, Resume

\* Type correctness of the FSM, for any table and any number of coroutines.
THEOREM TypeCorrect == Spec => []TypeOK
BY InitTypeOK, NextTypeOK, PTL DEF Spec

-----------------------------------------------------------------------------
(* A call under way carries a target that was validated when it began, maybe *)
(* long ago: the target stays reachable, so the state it will set is.        *)

\* The strengthening of ReachableOnly for one closed set of states.
Within(S) ==
  /\ state \in S
  /\ store \in S \cup {Unreadable}
  /\ \A c \in Callers : call[c].cmd.to \in S

\* Turns of the observer loop move no target.
LEMMA LoopTurnTargets ==
  ASSUME TypeOK, NEW c \in Callers, NEW loop, LoopTurn(c, loop), NEW d \in Callers
  PROVE  call'[d].cmd = call[d].cmd
<1>1. ASSUME NEW out, Return(c, out) PROVE call'[d].cmd = call[d].cmd
  BY <1>1 DEF Return, TypeOK, Call
<1>2. ASSUME NEW next,
             call' = [call EXCEPT ![c].phase = "notify", ![c].loop = next]
      PROVE  call'[d].cmd = call[d].cmd
  BY <1>2 DEF TypeOK, Call
<1>. QED BY <1>1, <1>2 DEF LoopTurn

\* A closed set of states that holds the state, the record and every target
\* under way goes on holding them.
LEMMA NextWithin ==
  ASSUME NEW S \in SUBSET States, Closed(S)
  PROVE  TypeOK /\ Within(S) /\ [Next]_vars => Within(S)'
<1>. SUFFICES ASSUME TypeOK, Within(S), [Next]_vars
              PROVE  Within(S)'
  OBVIOUS
<1>0. ASSUME NEW c \in Callers, NEW cmd \in Edge, cmd.to \in S, Enter(c, cmd)
      PROVE  state' \in S /\ \A d \in Callers : call'[d].cmd.to \in S
  BY <1>0 DEF Enter, Within, TypeOK, Call
<1>1. ASSUME NEW c \in Callers, NEW to \in States, TransitionTo(c, to)
      PROVE  Within(S)'
  <2>. DEFINE cmd == [from |-> state, to |-> to]
  <2>0. cmd \in Edge
    BY DEF TypeOK, Edge
  <2>1. CASE Return(c, "INVALID_TRANSITION") /\ UNCHANGED <<state, path>>
    BY <1>1, <2>1 DEF TransitionTo, Return, Within, TypeOK, Call
  <2>2. CASE is_transition_valid(state, to)
    <3>1. cmd.to \in S
      BY <2>2 DEF is_transition_valid, Closed, Within
    <3>2. CASE Enter(c, cmd)
      BY <1>0, <1>1, <2>0, <3>1, <3>2 DEF TransitionTo, Within
    <3>3. CASE /\ call' = [call EXCEPT ![c].phase = "exit", ![c].cmd = cmd,
                                       ![c].out = "none"]
               /\ UNCHANGED <<state, path>>
      BY <1>1, <3>1, <3>3 DEF TransitionTo, Within, TypeOK, Call
    <3>. QED BY <1>1, <2>1, <3>2, <3>3 DEF TransitionTo
  <2>. QED BY <1>1, <2>1, <2>2 DEF TransitionTo
<1>2. ASSUME NEW c \in Callers, ExitHookDone(c) PROVE Within(S)'
  <2>1. call[c].cmd \in Edge /\ call[c].cmd.to \in S
    BY DEF TypeOK, Call, Within
  <2>. QED BY <1>0, <1>2, <2>1 DEF ExitHookDone, Within
<1>3. ASSUME NEW c \in Callers, EntryHookDone(c) PROVE Within(S)'
  BY <1>3 DEF EntryHookDone, Within, TypeOK, Call
<1>4. ASSUME NEW c \in Callers, Persisted(c) PROVE Within(S)'
  BY <1>4 DEF Persisted, Within, TypeOK, Call
<1>5. ASSUME NEW c \in Callers, PersistFails(c) PROVE Within(S)'
  BY <1>5 DEF PersistFails, Return, Within, TypeOK, Call
<1>6. ASSUME NEW c \in Callers, Published(c) PROVE Within(S)'
  BY <1>6, LoopTurnTargets DEF Published, Within
<1>7. ASSUME NEW c \in Callers, Notified(c) PROVE Within(S)'
  BY <1>7, LoopTurnTargets DEF Notified, Within
<1>8. ASSUME NEW c \in Callers, Cancel(c) PROVE Within(S)'
  <2>1. \A d \in Callers : call'[d].cmd = call[d].cmd
    BY <1>8 DEF Cancel, Return, TypeOK, Call
  <2>. QED BY <1>8, <2>1 DEF Cancel, Within
<1>9. ASSUME NEW o \in Observers, register_observer(o) PROVE Within(S)'
  BY <1>9 DEF register_observer, Within
<1>10. ASSUME NEW o \in Observers, unregister_observer(o) PROVE Within(S)'
  BY <1>10 DEF unregister_observer, Within, TypeOK, Call
<1>11. CASE UNCHANGED vars
  BY <1>11 DEF vars, Within
<1>. QED
  BY <1>1, <1>2, <1>3, <1>4, <1>5, <1>6, <1>7, <1>8, <1>9, <1>10, <1>11
     DEF Next, Resume

\* The inductive invariant behind ReachableOnly.
AllWithin == \A S \in SUBSET States : Initial \in S /\ Closed(S) => Within(S)

\* However many coroutines race, fail or are cancelled, neither the FSM nor
\* the stored record leaves the states its table reaches from the initial one.
THEOREM Reachability == Spec => []ReachableOnly
<1>1. Init => AllWithin
  BY DEF Init, AllWithin, Within
<1>2. TypeOK /\ AllWithin /\ [Next]_vars => AllWithin'
  <2>. SUFFICES ASSUME TypeOK, AllWithin, [Next]_vars,
                       NEW S \in SUBSET States, Initial \in S, Closed(S)
                PROVE  Within(S)'
    BY DEF AllWithin, Closed
  <2>1. Within(S)
    BY DEF AllWithin
  <2>. QED BY <2>1, NextWithin
<1>3. AllWithin => ReachableOnly
  BY DEF AllWithin, Within, ReachableOnly
<1>. QED BY <1>1, <1>2, <1>3, TypeCorrect, PTL DEF Spec

-----------------------------------------------------------------------------
(* What the stretches of transition_to do to the calls. *)

Others(c) == \A d \in Callers \ {c} : call'[d] = call[d]

\* The call is over and keeps its outcome.
LEMMA ReturnEffect ==
  ASSUME TypeOK, NEW c \in Callers, NEW out \in Outcomes, Return(c, out)
  PROVE  call'[c].phase = "idle" /\ call'[c].out = out /\ Others(c)
<1>1. call[c] \in Call /\ call \in [Callers -> Call]
  BY DEF TypeOK
<1>2. call' = [call EXCEPT ![c] = [call[c] EXCEPT !.phase = "idle", !.loop = NoLoop, !.out = out]]
  BY DEF Return
<1>. QED BY <1>1, <1>2 DEF Call, Others

\* The move is made; the entry hook or the write comes next.
LEMMA EnterEffect ==
  ASSUME TypeOK, NEW c \in Callers, NEW cmd \in Edge, Enter(c, cmd)
  PROVE  /\ call'[c].phase \in {"entry", "persist"} /\ call'[c].cmd = cmd /\ Others(c)
         /\ state' = cmd.to /\ path' = Append(path, [from |-> state, to |-> cmd.to])
<1> DEFINE next == IF cmd.to \in EntryHooks THEN "entry" ELSE "persist"
<1>1. call[c] \in Call /\ call \in [Callers -> Call] /\ next \in {"entry", "persist"}
  BY DEF TypeOK
<1>2. call' = [call EXCEPT ![c] = [call[c] EXCEPT !.phase = next, !.cmd = cmd, !.out = "none"]]
  BY DEF Enter
<1>. HIDE DEF next
<1>3. call'[c] = [call[c] EXCEPT !.phase = next, !.cmd = cmd, !.out = "none"] /\ Others(c)
  BY <1>1, <1>2 DEF Others
<1>. QED BY <1>1, <1>3 DEF Call, Enter

\* The phase alone moves on.
LEMMA PhaseEffect ==
  ASSUME TypeOK, NEW c \in Callers, NEW p, call' = [call EXCEPT ![c].phase = p]
  PROVE  call'[c].phase = p /\ call'[c].cmd = call[c].cmd /\ Others(c)
<1>1. call[c] \in Call /\ call \in [Callers -> Call]
  BY DEF TypeOK
<1>. QED BY <1>1 DEF Call, Others

\* A turn of the observer loop breaks off, tells one observer or is the last.
LEMMA LoopTurnEffect ==
  ASSUME TypeOK, NEW c \in Callers, NEW loop, LoopTurn(c, loop)
  PROVE  /\ Others(c)
         /\ \/ /\ call'[c].phase = "idle" /\ call'[c].out = "RuntimeError"
               /\ UNCHANGED <<view, history>>
            \/ /\ call'[c].phase = "notify" /\ call'[c].cmd = call[c].cmd
               /\ \E o \in Observers : view' = [view EXCEPT ![o] = call[c].cmd.to]
               /\ UNCHANGED history
            \/ /\ call'[c].phase = "idle" /\ call'[c].out = "Ok"
               /\ history' = Append(history, call[c].cmd) /\ UNCHANGED view
<1>1. CASE Return(c, "RuntimeError") /\ UNCHANGED <<view, history>>
  BY <1>1, ReturnEffect DEF Outcomes
<1>2. ASSUME NEW o \in observers \ loop.seen, NEW next,
             view' = [view EXCEPT ![o] = call[c].cmd.to],
             call' = [call EXCEPT ![c].phase = "notify", ![c].loop = next],
             UNCHANGED history
      PROVE  /\ call'[c].phase = "notify" /\ call'[c].cmd = call[c].cmd /\ Others(c)
             /\ o \in Observers
  <2>1. call[c] \in Call /\ call \in [Callers -> Call] /\ o \in Observers
    BY DEF TypeOK
  <2>. QED BY <1>2, <2>1 DEF Call, Others
<1>3. CASE history' = Append(history, call[c].cmd) /\ Return(c, "Ok") /\ UNCHANGED view
  BY <1>3, ReturnEffect DEF Outcomes
<1>. QED BY <1>1, <1>2, <1>3 DEF LoopTurn

\* Whoever takes a step has called.
LEMMA StepOfCaller ==
  ASSUME TypeOK, NEW c \in Callers,
         (\E to \in States : TransitionTo(c, to)) \/ Resume(c) \/ Cancel(c)
  PROVE  Called(c)' /\ Others(c)
<1>0. call[c].cmd \in Edge
  BY DEF TypeOK, Call
<1>1. ASSUME NEW to \in States, TransitionTo(c, to) PROVE Called(c)' /\ Others(c)
  <2> DEFINE cmd == [from |-> state, to |-> to]
  <2>1. cmd \in Edge
    BY DEF TypeOK, Edge
  <2>2. CASE Return(c, "INVALID_TRANSITION")
    BY <2>2, ReturnEffect DEF Called, Outcomes
  <2>3. CASE call' = [call EXCEPT ![c].phase = "exit", ![c].cmd = cmd, ![c].out = "none"]
    BY <2>3 DEF Called, Others, TypeOK, Call
  <2>4. CASE Enter(c, cmd)
    BY <2>1, <2>4, EnterEffect DEF Called
  <2>. QED BY <1>1, <2>2, <2>3, <2>4 DEF TransitionTo
<1>2. CASE ExitHookDone(c)
  BY <1>0, <1>2, EnterEffect DEF ExitHookDone, Called
<1>3. CASE EntryHookDone(c) \/ Persisted(c)
  BY <1>3, PhaseEffect DEF EntryHookDone, Persisted, Called
<1>4. CASE PersistFails(c) \/ Cancel(c)
  BY <1>4, ReturnEffect DEF PersistFails, Cancel, Called, Outcomes
<1>5. CASE Published(c) \/ Notified(c)
  <2>1. PICK loop : LoopTurn(c, loop)
    BY <1>5 DEF Published, Notified
  <2>. QED BY <2>1, LoopTurnEffect DEF Called
<1>. QED BY <1>1, <1>2, <1>3, <1>4, <1>5 DEF Resume

\* Nobody but c has called.
OnlyCaller(c) == \A d \in Callers \ {c} : call'[d].phase = "idle" /\ call'[d].out = "none"

\* Whoever is alone after a step was alone before it.
LEMMA StillAlone ==
  ASSUME TypeOK, [Next]_vars, Alone'
  PROVE  /\ Alone
         /\ \A c \in Callers :
              (\E to \in States : TransitionTo(c, to)) \/ Resume(c) \/ Cancel(c) => OnlyCaller(c)
<1>1. ASSUME NEW c \in Callers, (\E to \in States : TransitionTo(c, to)) \/ Resume(c) \/ Cancel(c)
      PROVE  Alone /\ OnlyCaller(c)
  <2>1. Called(c)' /\ Others(c)
    BY <1>1, StepOfCaller
  <2>2. \A d \in Callers : Called(d) => Called(d)'
    BY <2>1 DEF Others, Called
  <2>. QED BY <2>1, <2>2 DEF Alone, OnlyCaller, Called
<1>2. ASSUME NEW o \in Observers, register_observer(o) \/ unregister_observer(o) PROVE Alone
  <2>1. \A d \in Callers : call'[d].phase = call[d].phase /\ call'[d].out = call[d].out
    BY <1>2 DEF register_observer, unregister_observer, TypeOK, Call
  <2>. QED BY <2>1 DEF Alone, Called
<1>3. ASSUME UNCHANGED vars PROVE Alone
  BY <1>3 DEF vars, Alone, Called
<1>4. Alone
  <2>1. CASE \E c \in Callers : (\E to \in States : TransitionTo(c, to)) \/ Resume(c) \/ Cancel(c)
    BY <1>1, <2>1
  <2>2. CASE \E o \in Observers : register_observer(o) \/ unregister_observer(o)
    BY <1>2, <2>2
  <2>. QED BY <1>3, <2>1, <2>2 DEF Next
<1>. QED BY <1>1, <1>4

-----------------------------------------------------------------------------
(* A coroutine alone with the FSM. *)

\* While the exit hook of the only caller runs, nobody moves the machine, and
\* the edge it validated is still one of the table.
ExitPending ==
  \A c \in Callers : call[c].phase = "exit" =>
    call[c].cmd.from = state /\ call[c].cmd.to \in Transitions[state]

\* ExitPending is kept by every step as long as one coroutine is alone.
LEMMA NextExitPending ==
  TypeOK /\ (Alone => ExitPending) /\ [Next]_vars => (Alone => ExitPending)'
<1>. SUFFICES ASSUME TypeOK, Alone => ExitPending, [Next]_vars, Alone'
              PROVE  ExitPending'
  OBVIOUS
<1>. ExitPending
  BY StillAlone
<1>1. ASSUME NEW c \in Callers, NEW to \in States, TransitionTo(c, to)
      PROVE  ExitPending'
  <2>1. OnlyCaller(c)
    BY <1>1, StillAlone
  <2>. QED BY <1>1, <2>1 DEF OnlyCaller, TransitionTo, Return, Enter, is_transition_valid,
                             ExitPending, TypeOK, Call
<1>2. ASSUME NEW c \in Callers, Resume(c) PROVE ExitPending'
  <2>0. ASSUME NEW loop, LoopTurn(c, loop) PROVE call'[c].phase # "exit"
    <3>1. ASSUME NEW out, Return(c, out) PROVE call'[c].phase # "exit"
      BY <3>1 DEF Return, TypeOK, Call
    <3>2. ASSUME NEW next,
                 call' = [call EXCEPT ![c].phase = "notify", ![c].loop = next]
          PROVE  call'[c].phase # "exit"
      BY <3>2 DEF TypeOK, Call
    <3>. QED BY <2>0, <3>1, <3>2 DEF LoopTurn
  <2>1. call'[c].phase # "exit"
    <3>1. CASE ExitHookDone(c) \/ EntryHookDone(c)
      BY <3>1 DEF ExitHookDone, EntryHookDone, Enter, TypeOK, Call
    <3>2. CASE Persisted(c) \/ PersistFails(c)
      BY <3>2 DEF Persisted, PersistFails, Return, TypeOK, Call
    <3>3. CASE Published(c) \/ Notified(c)
      BY <2>0, <3>3 DEF Published, Notified
    <3>. QED BY <1>2, <3>1, <3>2, <3>3 DEF Resume
  <2>2. OnlyCaller(c)
    BY <1>2, StillAlone
  <2>. QED BY <2>1, <2>2 DEF ExitPending, OnlyCaller
<1>3. ASSUME NEW c \in Callers, Cancel(c) PROVE ExitPending'
  <2>1. OnlyCaller(c)
    BY <1>3, StillAlone
  <2>. QED BY <1>3, <2>1 DEF Cancel, Return, ExitPending, OnlyCaller, TypeOK, Call
<1>4. ASSUME NEW o \in Observers, register_observer(o) \/ unregister_observer(o)
      PROVE  ExitPending'
  BY <1>4 DEF register_observer, unregister_observer, ExitPending, TypeOK, Call
<1>5. CASE UNCHANGED vars
  BY <1>5 DEF vars, ExitPending
<1>. QED BY <1>1, <1>2, <1>3, <1>4, <1>5 DEF Next

\* As long as one coroutine is alone every step of the FSM is a step of the
\* declared machine or leaves its state alone.
LEMMA StepDeclared ==
  TypeOK /\ ExitPending /\ [Next]_vars => [Declared!Next]_state
<1>. SUFFICES ASSUME TypeOK, ExitPending, [Next]_vars
              PROVE  [Declared!Next]_state
  OBVIOUS
<1>1. ASSUME NEW c \in Callers, NEW to \in States, TransitionTo(c, to)
      PROVE  [Declared!Next]_state
  BY <1>1 DEF TransitionTo, Enter, is_transition_valid, Declared!Next, Declared!Move
<1>2. ASSUME NEW c \in Callers, ExitHookDone(c)
      PROVE  [Declared!Next]_state
  BY <1>2 DEF ExitHookDone, Enter, ExitPending, Declared!Next, Declared!Move
<1>3. ASSUME NEW c \in Callers, Resume(c), ~ExitHookDone(c)
      PROVE  UNCHANGED state
  BY <1>3 DEF Resume, EntryHookDone, Persisted, PersistFails, Published, Notified
<1>4. ASSUME NEW c \in Callers, Cancel(c)
      PROVE  UNCHANGED state
  BY <1>4 DEF Cancel
<1>5. ASSUME NEW o \in Observers, register_observer(o) \/ unregister_observer(o)
      PROVE  UNCHANGED state
  BY <1>5 DEF register_observer, unregister_observer
<1>6. CASE UNCHANGED vars
  BY <1>6 DEF vars
<1>. QED BY <1>1, <1>2, <1>3, <1>4, <1>5, <1>6 DEF Next

\* As long as a single coroutine drives it, FSMImpl implements its declaration: no edge
\* is invented and terminal states are never left, whatever hooks, the
\* repository, the observers and cancellation do.
THEOREM SerialRefinement == Spec => MovesAreDeclared
<1>1. Init => Declared!Init /\ (Alone => ExitPending)
  BY DEF Init, Declared!Init, ExitPending
<1>2. TypeOK /\ (Alone => ExitPending) /\ [Next]_vars => [Alone' => Declared!Next]_state
  BY StillAlone, StepDeclared
<1>. QED BY <1>1, <1>2, NextExitPending, TypeCorrect, PTL DEF Spec, MovesAreDeclared

\* Hence an FSM that no second coroutine ever calls is the declared machine.
THEOREM SingleCaller ==
  ASSUME \A c, d \in Callers : c = d
  PROVE  Spec => Declared!Spec
<1>1. Alone' /\ [Alone' => Declared!Next]_state => [Declared!Next]_state
  OBVIOUS
<1>2. Alone'
  BY DEF Alone
<1>. QED BY <1>1, <1>2, SerialRefinement, PTL DEF MovesAreDeclared, Declared!Spec

-----------------------------------------------------------------------------
(* Where a single coroutine's call stands tells what it has achieved. *)

Moved == {"entry", "persist", "publish", "notify"}

InStep ==
  \A c \in Callers :
    /\ call[c].phase \in Moved =>
         call[c].cmd.to = state /\ path # << >> /\ path[Len(path)] = call[c].cmd
    /\ call[c].phase \in {"publish", "notify"} => store = state

Agreed == TypeOK /\ (Alone => ExitPending) /\ (Alone => InStep) /\ AgreeWhenOk

\* What is last in a list that has grown.
LEMMA LastAppended ==
  ASSUME NEW q \in Seq(Edge), NEW e \in Edge
  PROVE  LET r == Append(q, e) IN r # << >> /\ r[Len(r)] = e
OBVIOUS

\* A coroutine alone with the FSM keeps them in agreement.
LEMMA NextAgreed == Agreed /\ [Next]_vars => Agreed'
<1>. SUFFICES ASSUME Agreed, [Next]_vars, Alone' PROVE InStep' /\ AgreeWhenOk'
  BY NextTypeOK, NextExitPending DEF Agreed, AgreeWhenOk
<1>. USE DEF Agreed
<1>. Alone
  BY StillAlone
<1>0. ASSUME NEW c \in Callers PROVE call[c].cmd \in Edge /\ call[c].cmd.to \in States
  BY DEF TypeOK, Call, Edge
<1>1. ASSUME NEW c \in Callers, NEW cmd \in Edge, cmd.from = state, Enter(c, cmd), OnlyCaller(c)
      PROVE  InStep' /\ AgreeWhenOk'
  <2>1. /\ call'[c].phase \in {"entry", "persist"} /\ call'[c].cmd = cmd /\ state' = cmd.to
        /\ path' = Append(path, [from |-> state, to |-> cmd.to])
    BY <1>1, EnterEffect
  <2>2. [from |-> state, to |-> cmd.to] = cmd
    BY <1>1 DEF Edge
  <2>3. path' # << >> /\ path'[Len(path')] = cmd
    BY <2>1, <2>2, LastAppended DEF TypeOK
  <2>. QED BY <1>1, <2>1, <2>3 DEF InStep, AgreeWhenOk, OnlyCaller, Moved
<1>2. ASSUME NEW c \in Callers, NEW to \in States, TransitionTo(c, to)
      PROVE  InStep' /\ AgreeWhenOk'
  <2> DEFINE cmd == [from |-> state, to |-> to]
  <2>1. cmd \in Edge /\ cmd.from = state /\ OnlyCaller(c)
    BY <1>2, StillAlone DEF TypeOK, Edge
  <2>2. CASE Return(c, "INVALID_TRANSITION")
    BY <2>1, <2>2, ReturnEffect DEF InStep, AgreeWhenOk, Moved, Outcomes, OnlyCaller
  <2>3. CASE call' = [call EXCEPT ![c].phase = "exit", ![c].cmd = cmd, ![c].out = "none"]
    <3>1. call'[c].phase = "exit"
      BY <2>3 DEF TypeOK, Call
    <3>. QED BY <2>1, <3>1 DEF InStep, AgreeWhenOk, Moved, OnlyCaller
  <2>. QED BY <1>1, <1>2, <2>1, <2>2, <2>3 DEF TransitionTo
<1>3. ASSUME NEW c \in Callers, ExitHookDone(c) PROVE InStep' /\ AgreeWhenOk'
  <2>1. OnlyCaller(c)
    BY <1>3, StillAlone DEF Resume
  <2>. QED BY <1>0, <1>1, <1>3, <2>1 DEF ExitHookDone, ExitPending
<1>4. ASSUME NEW c \in Callers, EntryHookDone(c) PROVE InStep' /\ AgreeWhenOk'
  <2>1. /\ call[c].phase = "entry" /\ call'[c].phase = "persist" /\ call'[c].cmd = call[c].cmd
        /\ UNCHANGED <<state, store, history, path>>
    BY <1>4, PhaseEffect DEF EntryHookDone
  <2>2. OnlyCaller(c)
    BY <1>4, StillAlone DEF Resume
  <2>. QED BY <2>1, <2>2 DEF InStep, AgreeWhenOk, Moved, OnlyCaller
<1>5. ASSUME NEW c \in Callers, Persisted(c) PROVE InStep' /\ AgreeWhenOk'
  <2>1. /\ call[c].phase = "persist" /\ call'[c].phase = "publish" /\ call'[c].cmd = call[c].cmd
        /\ store' = call[c].cmd.to /\ UNCHANGED <<state, history, path>>
    BY <1>5, PhaseEffect DEF Persisted
  <2>2. OnlyCaller(c)
    BY <1>5, StillAlone DEF Resume
  <2>. QED BY <2>1, <2>2 DEF InStep, AgreeWhenOk, Moved, OnlyCaller
<1>6. ASSUME NEW c \in Callers, PersistFails(c) \/ Cancel(c) PROVE InStep' /\ AgreeWhenOk'
  <2>1. OnlyCaller(c)
    BY <1>6, StillAlone DEF Resume
  <2>. QED BY <1>6, <2>1, ReturnEffect DEF PersistFails, Cancel, InStep, AgreeWhenOk, Moved,
                                           Outcomes, OnlyCaller
<1>7. ASSUME NEW c \in Callers, NEW loop, LoopTurn(c, loop),
             call[c].phase \in {"publish", "notify"}, UNCHANGED <<state, store, path>>, OnlyCaller(c)
      PROVE  InStep' /\ AgreeWhenOk'
  <2>1. call[c].cmd.to = state /\ path # << >> /\ path[Len(path)] = call[c].cmd /\ store = state
    BY <1>7 DEF InStep, Moved
  <2>2. CASE call'[c].phase = "idle" /\ call'[c].out = "RuntimeError"
    BY <1>7, <2>2 DEF InStep, AgreeWhenOk, Moved, OnlyCaller
  <2>3. CASE call'[c].phase = "notify" /\ call'[c].cmd = call[c].cmd
    BY <2>1, <2>3, <1>7 DEF InStep, AgreeWhenOk, Moved, OnlyCaller
  <2>4. CASE /\ call'[c].phase = "idle" /\ call'[c].out = "Ok"
             /\ history' = Append(history, call[c].cmd)
    <3>1. history' # << >> /\ history'[Len(history')] = call[c].cmd
      BY <2>4, <1>0, LastAppended DEF TypeOK
    <3>. QED BY <2>1, <2>4, <3>1, <1>7 DEF InStep, AgreeWhenOk, Moved, OnlyCaller
  <2>. QED BY <1>7, <2>2, <2>3, <2>4, LoopTurnEffect
<1>8. ASSUME NEW c \in Callers, Published(c) \/ Notified(c) PROVE InStep' /\ AgreeWhenOk'
  <2>1. OnlyCaller(c)
    BY <1>8, StillAlone DEF Resume
  <2>. QED BY <1>7, <1>8, <2>1 DEF Published, Notified
<1>9. ASSUME NEW o \in Observers, register_observer(o) PROVE InStep' /\ AgreeWhenOk'
  BY <1>9 DEF register_observer, InStep, AgreeWhenOk
<1>10. ASSUME NEW o \in Observers, unregister_observer(o) PROVE InStep' /\ AgreeWhenOk'
  <2>1. /\ \A c \in Callers : /\ call'[c].phase = call[c].phase /\ call'[c].cmd = call[c].cmd
                              /\ call'[c].out = call[c].out
        /\ UNCHANGED <<state, store, history, path>>
    BY <1>10 DEF unregister_observer, TypeOK, Call
  <2>. QED BY <2>1 DEF InStep, AgreeWhenOk
<1>11. CASE UNCHANGED vars
  BY <1>11 DEF vars, InStep, AgreeWhenOk
<1>. QED
  BY <1>2, <1>3, <1>4, <1>5, <1>6, <1>8, <1>9, <1>10, <1>11 DEF Next, Resume

\* At the start all show the initial state.
LEMMA InitAgreed == Init => Agreed
BY InitTypeOK DEF Init, Agreed, ExitPending, InStep, AgreeWhenOk, Moved

\* AgreeWhenOk: a coroutine that drives the FSM alone and is answered Ok finds
\* memory, repository and audit history in agreement.
THEOREM OkMeansAgreement == Spec => []AgreeWhenOk
<1>1. Agreed => AgreeWhenOk
  BY DEF Agreed
<1>. QED BY <1>1, InitAgreed, NextAgreed, PTL DEF Spec

\* ToldAfterPersisted: whoever is told by a single coroutine's FSM that it has
\* moved finds that state in the repository.
THEOREM ToldWhatIsStored == Spec => ToldAfterPersisted
<1>1. Agreed /\ [Next]_vars => [Alone' => \A o \in Observers : view'[o] # view[o] => store = view'[o]]_vars
  <2>. SUFFICES ASSUME Agreed, Next, Alone', NEW o \in Observers, view'[o] # view[o]
                PROVE  store = view'[o]
    OBVIOUS
  <2>. USE DEF Agreed
  <2>. InStep
    BY StillAlone
  <2>1. PICK c \in Callers : Published(c) \/ Notified(c)
    BY DEF Next, Resume, TransitionTo, ExitHookDone, EntryHookDone, Persisted, PersistFails,
           Cancel, register_observer, unregister_observer
  <2>2. store = call[c].cmd.to
    BY <2>1 DEF Published, Notified, InStep, Moved
  <2>3. PICK loop : LoopTurn(c, loop)
    BY <2>1 DEF Published, Notified
  <2>4. PICK p \in Observers : view' = [view EXCEPT ![p] = call[c].cmd.to]
    BY <2>3, LoopTurnEffect
  <2>5. view'[o] = call[c].cmd.to
    BY <2>4 DEF TypeOK
  <2>. QED BY <2>2, <2>5
<1>. QED BY <1>1, InitAgreed, NextAgreed, PTL DEF Spec, ToldAfterPersisted

-----------------------------------------------------------------------------
(* The audit history: a move under way is made and not yet in it. *)

\* Calls that have moved the FSM to s and have not returned.
Unaudited(s) == {c \in Callers : call[c].phase \in Moved /\ call[c].cmd.to = s}

Audited ==
  \A s \in States : Count(history, s) + Cardinality(Unaudited(s)) <= Count(path, s)

\* The occurrences in a sequence are finitely many.
LEMMA CountIsNat ==
  ASSUME NEW q \in Seq(Edge), NEW s
  PROVE  Count(q, s) \in Nat
<1>1. IsFiniteSet(DOMAIN q)
  <2>1. DOMAIN q = 1..Len(q)
    OBVIOUS
  <2>. QED BY <2>1, FS_Interval
<1>2. {i \in DOMAIN q : q[i].to = s} \subseteq DOMAIN q
  OBVIOUS
<1>. QED BY <1>1, <1>2, FS_Subset, FS_CardinalityType DEF Count

\* How an entry counts.
LEMMA CountAppended ==
  ASSUME NEW q \in Seq(Edge), NEW e \in Edge, NEW s \in States
  PROVE  Count(Append(q, e), s) = IF e.to = s THEN Count(q, s) + 1 ELSE Count(q, s)
<1> DEFINE I == {i \in DOMAIN q : q[i].to = s}
           n == Len(q) + 1
           r == Append(q, e)
<1>1. IsFiniteSet(I) /\ Cardinality(I) \in Nat
  <2>1. IsFiniteSet(1..Len(q)) /\ I \subseteq 1..Len(q)
    BY FS_Interval
  <2>. QED BY <2>1, FS_Subset, FS_CardinalityType
<1>2. {i \in DOMAIN r : r[i].to = s} = IF e.to = s THEN I \cup {n} ELSE I
  <2>1. /\ DOMAIN r = DOMAIN q \cup {n} /\ n \notin DOMAIN q /\ r[n] = e
        /\ \A i \in DOMAIN q : r[i] = q[i]
    OBVIOUS
  <2>. HIDE DEF r, n
  <2>. QED BY <2>1
<1>3. n \notin I
  OBVIOUS
<1>. HIDE DEF I, n
<1>4. Cardinality(I \cup {n}) = Cardinality(I) + 1
  BY <1>1, <1>3, FS_AddElement
<1>. QED BY <1>1, <1>2, <1>4 DEF Count, I

\* The moves not yet in the history are finitely many.
LEMMA UnauditedFinite ==
  ASSUME NEW s
  PROVE  IsFiniteSet(Unaudited(s)) /\ Cardinality(Unaudited(s)) \in Nat
<1>1. Unaudited(s) \subseteq Callers
  BY DEF Unaudited
<1>. QED BY <1>1, FS_Subset, FS_CardinalityType

\* A call that leaves, or that had not moved anything, takes nothing along.
LEMMA NoMoreUnaudited ==
  ASSUME TypeOK, Audited, UNCHANGED <<history, path>>,
         \A s \in States : Unaudited(s)' \subseteq Unaudited(s)
  PROVE  Audited'
<1>. SUFFICES ASSUME NEW s \in States
              PROVE  Count(history, s)' + Cardinality(Unaudited(s)') <= Count(path, s)'
  BY DEF Audited
<1>1. /\ Cardinality(Unaudited(s)') <= Cardinality(Unaudited(s))
      /\ Cardinality(Unaudited(s)') \in Nat
  BY UnauditedFinite, FS_Subset, FS_CardinalityType
<1>2. Count(history, s)' = Count(history, s) /\ Count(path, s)' = Count(path, s)
  BY DEF Count
<1>3. Count(history, s) \in Nat /\ Count(path, s) \in Nat
  BY CountIsNat DEF TypeOK
<1>4. Count(history, s) + Cardinality(Unaudited(s)) <= Count(path, s)
  BY DEF Audited
<1>. QED BY <1>1, <1>2, <1>3, <1>4, UnauditedFinite

\* A move counts before its entry, which may never come.
LEMMA NextAudited == TypeOK /\ Audited /\ [Next]_vars => Audited'
<1>. SUFFICES ASSUME TypeOK, Audited, [Next]_vars PROVE Audited'
  OBVIOUS
<1>0. ASSUME NEW c \in Callers PROVE call[c].cmd \in Edge /\ call[c].cmd.to \in States
  BY DEF TypeOK, Call, Edge
<1>1. ASSUME NEW c \in Callers, NEW cmd \in Edge, call[c].phase \notin Moved,
             Enter(c, cmd), UNCHANGED history
      PROVE  Audited'
  <2>1. /\ call'[c].phase \in Moved /\ call'[c].cmd = cmd /\ Others(c)
        /\ path' = Append(path, [from |-> state, to |-> cmd.to])
    BY <1>1, EnterEffect DEF Moved
  <2>2. [from |-> state, to |-> cmd.to] \in Edge
    BY DEF TypeOK, Edge
  <2>. SUFFICES ASSUME NEW s \in States
                PROVE  Count(history, s)' + Cardinality(Unaudited(s)') <= Count(path, s)'
    BY DEF Audited
  <2>3. /\ Unaudited(s)' = IF cmd.to = s THEN Unaudited(s) \cup {c} ELSE Unaudited(s)
        /\ c \notin Unaudited(s)
    BY <1>1, <2>1 DEF Unaudited, Others
  <2>4. Count(path, s)' = IF cmd.to = s THEN Count(path, s) + 1 ELSE Count(path, s)
    <3>1. Count(path', s) = IF cmd.to = s THEN Count(path, s) + 1 ELSE Count(path, s)
      BY <2>1, <2>2, CountAppended DEF TypeOK
    <3>. QED BY <3>1 DEF Count
  <2>5. Count(history, s)' = Count(history, s)
    BY <1>1 DEF Count
  <2>6. /\ Count(path, s) \in Nat /\ Count(history, s) \in Nat
        /\ Count(history, s) + Cardinality(Unaudited(s)) <= Count(path, s)
    BY CountIsNat DEF TypeOK, Audited
  <2>7. Cardinality(Unaudited(s) \cup {c}) = Cardinality(Unaudited(s)) + 1
    BY <2>3, UnauditedFinite, FS_AddElement
  <2>. QED BY <2>3, <2>4, <2>5, <2>6, <2>7, UnauditedFinite
<1>2. ASSUME NEW c \in Callers, call'[c].phase \notin Moved, Others(c), UNCHANGED <<history, path>>
      PROVE  Audited'
  <2>1. \A s \in States : Unaudited(s)' \subseteq Unaudited(s)
    BY <1>2 DEF Unaudited, Others
  <2>. QED BY <1>2, <2>1, NoMoreUnaudited
<1>3. ASSUME NEW c \in Callers, call[c].phase \in Moved, call'[c].cmd = call[c].cmd, Others(c),
             UNCHANGED <<history, path>>
      PROVE  Audited'
  <2>1. \A s \in States : Unaudited(s)' \subseteq Unaudited(s)
    BY <1>3 DEF Unaudited, Others
  <2>. QED BY <1>3, <2>1, NoMoreUnaudited
<1>4. ASSUME NEW c \in Callers, NEW to \in States, TransitionTo(c, to) PROVE Audited'
  <2> DEFINE cmd == [from |-> state, to |-> to]
  <2>1. cmd \in Edge /\ UNCHANGED history /\ call[c].phase \notin Moved
    BY <1>4 DEF TypeOK, Edge, TransitionTo, Moved
  <2>2. CASE Return(c, "INVALID_TRANSITION") /\ UNCHANGED <<state, path>>
    BY <1>2, <2>1, <2>2, ReturnEffect DEF Moved, Outcomes
  <2>3. CASE /\ call' = [call EXCEPT ![c].phase = "exit", ![c].cmd = cmd, ![c].out = "none"]
             /\ UNCHANGED <<state, path>>
    <3>1. call'[c].phase = "exit" /\ Others(c)
      BY <2>3 DEF TypeOK, Call, Others
    <3>. QED BY <1>2, <2>1, <2>3, <3>1 DEF Moved
  <2>4. CASE Enter(c, cmd)
    BY <1>1, <2>1, <2>4
  <2>. QED BY <1>4, <2>2, <2>3, <2>4 DEF TransitionTo
<1>5. ASSUME NEW c \in Callers, ExitHookDone(c) PROVE Audited'
  BY <1>0, <1>1, <1>5 DEF ExitHookDone, Moved
<1>6. ASSUME NEW c \in Callers, EntryHookDone(c) \/ Persisted(c) PROVE Audited'
  BY <1>3, <1>6, PhaseEffect DEF EntryHookDone, Persisted, Moved
<1>7. ASSUME NEW c \in Callers, PersistFails(c) \/ Cancel(c) PROVE Audited'
  BY <1>2, <1>7, ReturnEffect DEF PersistFails, Cancel, Moved, Outcomes
<1>8. ASSUME NEW c \in Callers, Published(c) \/ Notified(c) PROVE Audited'
  <2>1. PICK loop : LoopTurn(c, loop)
    BY <1>8 DEF Published, Notified
  <2>2. call[c].phase \in Moved /\ UNCHANGED path
    BY <1>8 DEF Published, Notified, Moved
  <2>3. CASE call'[c].phase = "idle" /\ UNCHANGED history
    BY <1>2, <2>1, <2>2, <2>3, LoopTurnEffect DEF Moved
  <2>4. CASE call'[c].cmd = call[c].cmd /\ UNCHANGED history
    BY <1>3, <2>1, <2>2, <2>4, LoopTurnEffect
  <2>5. CASE call'[c].phase = "idle" /\ history' = Append(history, call[c].cmd)
    <3>. SUFFICES ASSUME NEW s \in States
                  PROVE  Count(history, s)' + Cardinality(Unaudited(s)') <= Count(path, s)'
      BY DEF Audited
    <3>1. /\ Unaudited(s)' = IF call[c].cmd.to = s THEN Unaudited(s) \ {c} ELSE Unaudited(s)
          /\ call[c].cmd.to = s => c \in Unaudited(s)
      BY <2>1, <2>2, <2>5, LoopTurnEffect DEF Unaudited, Others, Moved
    <3>2. Count(history, s)' = IF call[c].cmd.to = s THEN Count(history, s) + 1 ELSE Count(history, s)
      <4>1. Count(history', s) = IF call[c].cmd.to = s THEN Count(history, s) + 1
                                 ELSE Count(history, s)
        BY <1>0, <2>5, CountAppended DEF TypeOK
      <4>. QED BY <4>1 DEF Count
    <3>3. Count(path, s)' = Count(path, s)
      BY <2>2 DEF Count
    <3>4. /\ Count(path, s) \in Nat /\ Count(history, s) \in Nat
          /\ Count(history, s) + Cardinality(Unaudited(s)) <= Count(path, s)
      BY CountIsNat DEF TypeOK, Audited
    <3>5. c \in Unaudited(s) => Cardinality(Unaudited(s) \ {c}) = Cardinality(Unaudited(s)) - 1
      BY UnauditedFinite, FS_RemoveElement
    <3>. QED BY <3>1, <3>2, <3>3, <3>4, <3>5, UnauditedFinite
  <2>. QED BY <2>1, <2>3, <2>4, <2>5, LoopTurnEffect
<1>9. ASSUME NEW o \in Observers, register_observer(o) \/ unregister_observer(o) PROVE Audited'
  <2>1. /\ \A c \in Callers : call'[c].phase = call[c].phase /\ call'[c].cmd = call[c].cmd
        /\ UNCHANGED <<history, path>>
    BY <1>9 DEF register_observer, unregister_observer, TypeOK, Call
  <2>2. \A s \in States : Unaudited(s)' \subseteq Unaudited(s)
    BY <2>1 DEF Unaudited
  <2>. QED BY <2>1, <2>2, NoMoreUnaudited
<1>10. CASE UNCHANGED vars
  <2>1. UNCHANGED <<history, path>> /\ \A s \in States : Unaudited(s)' \subseteq Unaudited(s)
    BY <1>10 DEF vars, Unaudited
  <2>. QED BY <2>1, NoMoreUnaudited
<1>. QED BY <1>4, <1>5, <1>6, <1>7, <1>8, <1>9, <1>10 DEF Next, Resume

\* AuditSound: however many coroutines share the FSM, its history lists the
\* entry into a state no more often than it was made.
THEOREM HistoryIsTrue == Spec => []AuditSound
<1>1. Init => Audited
  <2>. SUFFICES ASSUME Init, NEW s \in States
                PROVE  Count(history, s) + Cardinality(Unaudited(s)) <= Count(path, s)
    BY DEF Audited
  <2>1. history = << >> /\ path = << >> /\ Unaudited(s) = {}
    BY DEF Init, Unaudited, Moved
  <2>2. {i \in DOMAIN << >> : << >>[i].to = s} = {}
    OBVIOUS
  <2>3. Count(history, s) = 0 /\ Count(path, s) = 0 /\ Cardinality(Unaudited(s)) = 0
    BY <2>1, <2>2, FS_EmptySet DEF Count
  <2>. QED BY <2>3
<1>2. TypeOK /\ Audited => AuditSound
  <2>. SUFFICES ASSUME TypeOK, Audited, NEW s \in States
                PROVE  Count(history, s) <= Count(path, s)
    BY DEF AuditSound
  <2>1. Count(history, s) \in Nat /\ Count(path, s) \in Nat
    BY CountIsNat DEF TypeOK
  <2>. QED BY <2>1, UnauditedFinite DEF Audited
<1>. QED BY <1>1, <1>2, NextAudited, TypeCorrect, PTL DEF Spec
=============================================================================
