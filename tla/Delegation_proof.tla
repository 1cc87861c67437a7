-------------------------- MODULE Delegation_proof --------------------------
(***************************************************************************)
(* A delegation keeps to its boundaries and accounts for every agent, for  *)
(* any tree of agents, any limits and whatever the agents answer, however  *)
(* often the spawn callback raises, and wherever the caller is cancelled.  *)
(* The bulkhead, at the end, never lets more callers in than a semaphore   *)
(* was created for, and a semaphore of one permit never loses it.          *)
(***************************************************************************)
EXTENDS Delegation, Bulkhead, FiniteSetTheorems, NaturalsInduction, WellFoundedInduction, TLAPS

Ctx == [depth : Nat, spawned : Nat, active : Nat, completed : Nat, results : Nat, errors : Nat]
Conv == [last : Answers, stagnation : Nat]

-----------------------------------------------------------------------------
(* What is done with an answer. *)

\* An agent is counted in.
LEMMA Spawns ==
  ASSUME NEW c \in Ctx
  PROVE  /\ Spawned(c) \in Ctx
         /\ Spawned(c).spawned = c.spawned + 1 /\ Spawned(c).active = c.active + 1
         /\ Spawned(c).depth = c.depth /\ Spawned(c).completed = c.completed
         /\ Spawned(c).results = c.results /\ Spawned(c).errors = c.errors
<1>1. [c EXCEPT !.spawned = c.spawned + 1] \in Ctx
  BY DEF Ctx
<1>2. \A d \in Ctx : [d EXCEPT !.active = d.active + 1] \in Ctx
  BY DEF Ctx
<1>3. Spawned(c) = [[c EXCEPT !.spawned = c.spawned + 1] EXCEPT !.active = @ + 1]
  BY DEF Spawned
<1>4. Spawned(c) \in Ctx
  BY <1>1, <1>2, <1>3
<1>. QED BY <1>4 DEF Ctx, Spawned

\* An agent is counted out.
LEMMA Goes ==
  ASSUME NEW c \in Ctx
  PROVE  /\ c.active > 0 => Gone(c) \in Ctx
         /\ Gone(c).active = c.active - 1 /\ Gone(c).completed = c.completed + 1
         /\ Gone(c).depth = c.depth /\ Gone(c).spawned = c.spawned
         /\ Gone(c).results = c.results /\ Gone(c).errors = c.errors
<1>1. c.active > 0 => [c EXCEPT !.active = c.active - 1] \in Ctx
  BY DEF Ctx
<1>2. \A d \in Ctx : [d EXCEPT !.completed = d.completed + 1] \in Ctx
  BY DEF Ctx
<1>3. Gone(c) = [[c EXCEPT !.active = c.active - 1] EXCEPT !.completed = @ + 1]
  BY DEF Gone
<1>4. c.active > 0 => Gone(c) \in Ctx
  BY <1>1, <1>2, <1>3
<1>. QED BY <1>4 DEF Ctx, Gone

\* An answer is a result or an error.
LEMMA Records ==
  ASSUME NEW c \in Ctx, NEW a \in Answers
  PROVE  /\ Recorded(c, a) \in Ctx
         /\ Recorded(c, a).depth = c.depth /\ Recorded(c, a).spawned = c.spawned
         /\ Recorded(c, a).active = c.active /\ Recorded(c, a).completed = c.completed
         /\ Recorded(c, a).results + Recorded(c, a).errors = c.results + c.errors + 1
         /\ Recorded(c, a).results = IF a = Failure THEN c.results ELSE c.results + 1
<1>1. Recorded(c, a) \in Ctx
  BY DEF Ctx, Recorded
<1>2. /\ Recorded(c, a).depth = c.depth /\ Recorded(c, a).spawned = c.spawned
      /\ Recorded(c, a).active = c.active /\ Recorded(c, a).completed = c.completed
  BY DEF Ctx, Recorded
<1>3. /\ Recorded(c, a).results = IF a = Failure THEN c.results ELSE c.results + 1
      /\ Recorded(c, a).errors = IF a = Failure THEN c.errors + 1 ELSE c.errors
  BY DEF Ctx, Recorded
<1>4. c.results \in Nat /\ c.errors \in Nat
  BY DEF Ctx
<1>. QED BY <1>1, <1>2, <1>3, <1>4

\* The tracker counts answers that are results, and the first of them is none
\* that repeats another.
Repeated(c, t) ==
  IF t.last = NoSignature THEN t.stagnation = 0 ELSE t.stagnation + 1 <= c.results

\* An answer keeps the tracker behind the results.
LEMMA Repeats ==
  ASSUME NEW c \in Ctx, NEW t \in Conv, NEW a \in Answers, Repeated(c, t)
  PROVE  Novelty(t, a) \in Conv /\ Repeated(Recorded(c, a), Novelty(t, a))
<1>1. CASE a = Failure
  BY <1>1, Records DEF Novelty, Repeated, Failure
<1>2. CASE a # Failure
  <2>1. Recorded(c, a).results = c.results + 1 /\ c.results \in Nat
    BY <1>2, Records DEF Ctx
  <2>2. CASE a = t.last
    <3>1. Novelty(t, a) = [t EXCEPT !.stagnation = t.stagnation + 1]
      BY <1>2, <2>2 DEF Novelty
    <3>2. Novelty(t, a) \in Conv
      BY <3>1 DEF Conv
    <3>3. Novelty(t, a).last = t.last /\ Novelty(t, a).stagnation = t.stagnation + 1
      BY <3>1 DEF Conv
    <3>. QED BY <1>2, <2>1, <2>2, <3>2, <3>3 DEF Repeated, Failure, Conv
  <2>3. CASE a # t.last
    <3>1. Novelty(t, a) = [last |-> a, stagnation |-> 0]
      BY <1>2, <2>3 DEF Novelty
    <3>. QED BY <1>2, <2>1, <3>1 DEF Repeated, Failure, Conv
  <2>. QED BY <2>2, <2>3
<1>. QED BY <1>1, <1>2

\* Numbers have a least one.
LEMMA SmallestNat ==
  ASSUME NEW I, I \subseteq Nat, I # {}
  PROVE  \E m \in I : \A i \in I : m <= i
<1>1. PICK m \in I : \A i \in I : ~(<<i, m>> \in OpToRel(<, Nat))
  BY NatLessThanWellFounded, WFMin
<1>2. \A i \in I : ~(i < m)
  BY <1>1 DEF OpToRel
<1>. QED BY <1>2

State == [ctx : Ctx, conv : Conv]
Step(s, a) == [ctx |-> Recorded(s.ctx, a), conv |-> Novelty(s.conv, a)]

\* An answer of the pool keeps the tracker behind the results.
LEMMA Keeps ==
  ASSUME NEW s \in State, Repeated(s.ctx, s.conv), NEW a \in Answers
  PROVE  Step(s, a) \in State /\ Repeated(Step(s, a).ctx, Step(s, a).conv)
<1>1. s.ctx \in Ctx /\ s.conv \in Conv
  BY DEF State
<1>2. /\ Recorded(s.ctx, a) \in Ctx /\ Novelty(s.conv, a) \in Conv
      /\ Repeated(Recorded(s.ctx, a), Novelty(s.conv, a))
  BY <1>1, Records, Repeats
<1>. QED BY <1>2 DEF Step, State

\* The answers of the pool are gone through one by one.
LEMMA CollectedSteps ==
  ASSUME NEW base \in State, base = [ctx |-> ctx, conv |-> conv],
         Repeated(ctx, conv), answers \in Seq(Answers)
  PROVE  \E f : /\ f \in [0 .. Len(answers) -> State] /\ f[0] = base
                /\ \A i \in 1 .. Len(answers) : f[i] = Step(f[i - 1], answers[i])
                /\ \A i \in 0 .. Len(answers) : Repeated(f[i].ctx, f[i].conv)
                /\ Collected = f[Len(answers)]
<1> DEFINE Steps(f, n) == /\ f \in [0 .. n -> State] /\ f[0] = base
                          /\ \A i \in 0 .. n : Repeated(f[i].ctx, f[i].conv)
                          /\ \A i \in 1 .. n : f[i] = Step(f[i - 1], answers[i])
           body(f) == [i \in 0 .. Len(answers) |->
                         IF i = 0 THEN [ctx |-> ctx, conv |-> conv]
                         ELSE [ctx |-> Recorded(f[i - 1].ctx, answers[i]),
                               conv |-> Novelty(f[i - 1].conv, answers[i])]]
<1>0. Len(answers) \in Nat
  OBVIOUS
<1>1. \A n \in Nat : n <= Len(answers) => \E f : Steps(f, n)
  <2> DEFINE I == {n \in Nat : n <= Len(answers) /\ ~ \E f : Steps(f, n)}
  <2>. SUFFICES ASSUME I # {} PROVE FALSE
    OBVIOUS
  <2>1. PICK n \in I : \A i \in I : n <= i
    <3>. HIDE DEF Steps
    <3>. QED BY SmallestNat
  <2>2. n \in Nat /\ n <= Len(answers) /\ ~ \E f : Steps(f, n)
    BY <2>1
  <2>3. n # 0
    <3>1. Steps([i \in 0 .. 0 |-> base], 0)
      OBVIOUS
    <3>. QED BY <2>2, <3>1
  <2>4. PICK g : Steps(g, n - 1)
    <3>. HIDE DEF Steps
    <3>1. n - 1 \in Nat /\ n - 1 <= Len(answers) /\ n - 1 < n
      BY <1>0, <2>2, <2>3
    <3>2. n - 1 \notin I
      <4>. HIDE DEF I
      <4>. QED BY <2>1, <2>2, <3>1
    <3>. QED BY <3>1, <3>2
  <2> DEFINE last == Step(g[n - 1], answers[n])
             h == [i \in 0 .. n |-> IF i = n THEN last ELSE g[i]]
  <2>5. last \in State /\ Repeated(last.ctx, last.conv)
    <3>1. /\ g[n - 1] \in State /\ Repeated(g[n - 1].ctx, g[n - 1].conv)
          /\ answers[n] \in Answers
      BY <1>0, <2>2, <2>3, <2>4
    <3>. QED BY <3>1, Keeps
  <2>. HIDE DEF last
  <2>6. /\ h \in [0 .. n -> State] /\ h[0] = base /\ h[n] = last
        /\ \A i \in 0 .. n - 1 : h[i] = g[i]
    BY <2>2, <2>3, <2>4, <2>5
  <2>7. Steps(h, n)
    <3>. HIDE DEF h
    <3>1. ASSUME NEW i \in 1 .. n PROVE h[i] = Step(h[i - 1], answers[i])
      <4>1. CASE i = n
        BY <2>2, <2>3, <2>6, <4>1 DEF last
      <4>2. CASE i # n
        <5>1. i \in 1 .. n - 1 /\ i \in 0 .. n - 1 /\ i - 1 \in 0 .. n - 1
          BY <2>2, <4>2
        <5>. QED BY <2>4, <2>6, <5>1
      <4>. QED BY <4>1, <4>2
    <3>2. ASSUME NEW i \in 0 .. n PROVE Repeated(h[i].ctx, h[i].conv)
      <4>1. CASE i = n
        BY <2>5, <2>6, <4>1
      <4>2. CASE i # n
        <5>1. i \in 0 .. n - 1
          BY <2>2, <4>2
        <5>. QED BY <2>4, <2>6, <5>1
      <4>. QED BY <4>1, <4>2
    <3>. QED BY <2>6, <3>1, <3>2
  <2>. QED BY <2>2, <2>7
<1>2. PICK g : Steps(g, Len(answers))
  <2>. HIDE DEF Steps
  <2>. QED BY <1>0, <1>1
<1>3. g = body(g)
  <2>1. g = [i \in 0 .. Len(answers) |-> g[i]]
    BY <1>2
  <2>2. ASSUME NEW i \in 0 .. Len(answers) PROVE g[i] = body(g)[i]
    <3>1. CASE i = 0
      BY <1>2, <3>1
    <3>2. CASE i # 0
      <4>1. i \in 1 .. Len(answers)
        BY <1>0, <3>2
      <4>. QED BY <1>2, <3>2, <4>1 DEF Step
    <3>. QED BY <3>1, <3>2
  <2>. QED BY <2>1, <2>2
<1> DEFINE f == CHOOSE f : f = body(f)
<1>4. f = body(f)
  <2>. HIDE DEF body
  <2>. QED BY <1>3
<1>5. Collected = f[Len(answers)]
  BY DEF Collected
<1>. HIDE DEF f
<1>6. /\ f[0] = base
      /\ \A i \in 1 .. Len(answers) : f[i] = Step(f[i - 1], answers[i])
      /\ f = [i \in 0 .. Len(answers) |-> f[i]]
  <2>1. ASSUME NEW i \in 0 .. Len(answers)
        PROVE  f[i] = IF i = 0 THEN [ctx |-> ctx, conv |-> conv]
                      ELSE [ctx |-> Recorded(f[i - 1].ctx, answers[i]),
                            conv |-> Novelty(f[i - 1].conv, answers[i])]
    <3>1. f[i] = body(f)[i]
      BY <1>4
    <3>. QED BY <3>1
  <2>2. f[0] = base
    <3>1. 0 \in 0 .. Len(answers)
      BY <1>0
    <3>2. f[0] = [ctx |-> ctx, conv |-> conv]
      BY <2>1, <3>1
    <3>. QED BY <3>2
  <2>3. ASSUME NEW i \in 1 .. Len(answers) PROVE f[i] = Step(f[i - 1], answers[i])
    <3>1. i \in 0 .. Len(answers) /\ i # 0
      BY <1>0
    <3>. QED BY <2>1, <3>1 DEF Step
  <2>4. f = [i \in 0 .. Len(answers) |-> f[i]]
    <3>1. f = [i \in 0 .. Len(answers) |-> body(f)[i]]
      BY <1>4
    <3>. QED BY <1>4, <3>1
  <2>. QED BY <2>2, <2>3, <2>4
<1>7. \A n \in Nat : n <= Len(answers) => f[n] \in State /\ Repeated(f[n].ctx, f[n].conv)
  <2> DEFINE I == {n \in Nat : n <= Len(answers)
                               /\ ~(f[n] \in State /\ Repeated(f[n].ctx, f[n].conv))}
  <2>. SUFFICES ASSUME I # {} PROVE FALSE
    OBVIOUS
  <2>1. PICK n \in I : \A i \in I : n <= i
    BY SmallestNat
  <2>2. n # 0
    BY <1>6, <2>1
  <2>3. n - 1 \in Nat /\ n - 1 <= Len(answers) /\ n - 1 \notin I
    BY <1>0, <2>1, <2>2
  <2>4. f[n - 1] \in State /\ Repeated(f[n - 1].ctx, f[n - 1].conv)
    BY <2>3
  <2>5. n \in 1 .. Len(answers) /\ answers[n] \in Answers
    BY <1>0, <2>1, <2>2
  <2>6. f[n] = Step(f[n - 1], answers[n])
    BY <1>6, <2>5
  <2>7. f[n] \in State /\ Repeated(f[n].ctx, f[n].conv)
    BY <2>4, <2>5, <2>6, Keeps
  <2>. QED BY <2>1, <2>7
<1>8. /\ f \in [0 .. Len(answers) -> State]
      /\ \A i \in 0 .. Len(answers) : Repeated(f[i].ctx, f[i].conv)
  BY <1>0, <1>6, <1>7
<1>. QED BY <1>5, <1>6, <1>8

\* All answers together are so many results and errors more.
LEMMA CollectedCounts ==
  ASSUME ctx \in Ctx, conv \in Conv, Repeated(ctx, conv), answers \in Seq(Answers)
  PROVE  /\ Collected.ctx \in Ctx /\ Collected.conv \in Conv
         /\ Repeated(Collected.ctx, Collected.conv)
         /\ Collected.ctx.spawned = ctx.spawned /\ Collected.ctx.active = ctx.active
         /\ Collected.ctx.completed = ctx.completed
         /\ Collected.ctx.results + Collected.ctx.errors
              = ctx.results + ctx.errors + Len(answers)
<1> DEFINE base == [ctx |-> ctx, conv |-> conv]
           Counts(c, n) == /\ c.spawned = ctx.spawned /\ c.active = ctx.active
                           /\ c.completed = ctx.completed
                           /\ c.results + c.errors = ctx.results + ctx.errors + n
<1>0. Len(answers) \in Nat /\ base \in State
  BY DEF State
<1>1. PICK f :
        /\ f \in [0 .. Len(answers) -> State] /\ f[0] = base
        /\ \A i \in 1 .. Len(answers) : f[i] = Step(f[i - 1], answers[i])
        /\ \A i \in 0 .. Len(answers) : Repeated(f[i].ctx, f[i].conv)
        /\ Collected = f[Len(answers)]
  <2>. QED BY <1>0, CollectedSteps
<1>2. \A n \in Nat : n <= Len(answers) => Counts(f[n].ctx, n)
  <2> DEFINE I == {n \in Nat : n <= Len(answers) /\ ~Counts(f[n].ctx, n)}
  <2>. SUFFICES ASSUME I # {} PROVE FALSE
    OBVIOUS
  <2>1. PICK n \in I : \A i \in I : n <= i
    <3>. HIDE DEF Counts
    <3>. QED BY SmallestNat
  <2>2. n \in Nat /\ n <= Len(answers) /\ ~Counts(f[n].ctx, n)
    BY <2>1
  <2>3. n # 0
    <3>1. Counts(ctx, 0)
      BY DEF Ctx
    <3>2. f[0].ctx = ctx
      BY <1>1
    <3>. QED BY <2>2, <3>1, <3>2
  <2>4. n - 1 \in Nat /\ n - 1 <= Len(answers) /\ n - 1 < n
    BY <1>0, <2>2, <2>3
  <2>5. Counts(f[n - 1].ctx, n - 1)
    <3>. HIDE DEF Counts
    <3>1. n - 1 \notin I
      <4>. HIDE DEF I
      <4>. QED BY <2>1, <2>2, <2>4
    <3>. QED BY <2>4, <3>1
  <2>6. n \in 1 .. Len(answers) /\ n - 1 \in 0 .. Len(answers) /\ answers[n] \in Answers
    BY <1>0, <2>2, <2>3
  <2> DEFINE d == f[n - 1].ctx
  <2>7. f[n].ctx = Recorded(d, answers[n]) /\ d \in Ctx
    <3>. HIDE DEF Counts, I, base
    <3>1. f[n] = Step(f[n - 1], answers[n]) /\ f[n - 1] \in State
      BY <1>1, <2>6
    <3>. QED BY <3>1 DEF Step, State
  <2>8. Counts(f[n].ctx, n)
    <3>. HIDE DEF d, I
    <3>1. ctx.results \in Nat /\ ctx.errors \in Nat /\ d.results \in Nat /\ d.errors \in Nat
      BY <2>7 DEF Ctx
    <3>2. Counts(d, n - 1)
      BY <2>5 DEF d
    <3> DEFINE e == Recorded(d, answers[n])
    <3>3. /\ e.spawned = d.spawned /\ e.active = d.active /\ e.completed = d.completed
          /\ e.results + e.errors = d.results + d.errors + 1
      BY <2>6, <2>7, Records
    <3>4. f[n].ctx = e
      BY <2>7
    <3>. HIDE DEF e
    <3>. QED BY <2>2, <3>1, <3>2, <3>3, <3>4
  <2>. QED BY <2>2, <2>8
<1>3. Counts(Collected.ctx, Len(answers))
  <2>. HIDE DEF Counts
  <2>. QED BY <1>0, <1>1, <1>2
<1>4. Collected \in State /\ Repeated(Collected.ctx, Collected.conv)
  BY <1>0, <1>1
<1>. QED BY <1>3, <1>4 DEF State

-----------------------------------------------------------------------------
(* The activations of _execute_dfs. *)

\* An activation is on the level of its place; all but the last wait for the
\* activation of a child.
Nested(s) ==
  \A i \in DOMAIN s :
    /\ Level[s[i].node] = i - 1
    /\ i < Len(s) => s[i].at = "after"
    /\ s[i].at # "self" => s[i].child > 0
    /\ s[i].at = "child" => s[i].child <= Len(Children[s[i].node])

\* The last activation moves on.
LEMMA Replaced ==
  ASSUME NEW s \in Seq(Frame), s # << >>, Nested(s), NEW f \in Frame,
         f.node = s[Len(s)].node, f.at # "self", f.child > 0,
         f.at = "child" => f.child <= Len(Children[f.node])
  PROVE  LET t == [s EXCEPT ![Len(s)] = f]
         IN  /\ t \in Seq(Frame) /\ Nested(t) /\ t # << >>
             /\ Len(t) = Len(s) /\ t[Len(t)] = f
<1> DEFINE t == [s EXCEPT ![Len(s)] = f]
<1>1. /\ Len(s) \in DOMAIN s /\ t \in Seq(Frame) /\ Len(t) = Len(s) /\ DOMAIN t = DOMAIN s
      /\ t[Len(s)] = f /\ \A i \in DOMAIN s : i # Len(s) => t[i] = s[i]
      /\ Len(s) \in Nat
  OBVIOUS
<1>. HIDE DEF t
<1>2. Nested(t)
  BY <1>1 DEF Nested
<1>3. t # << >>
  BY <1>1
<1>. QED BY <1>1, <1>2, <1>3 DEF t

\* The last activation returns.
LEMMA Fronted ==
  ASSUME NEW s \in Seq(Frame), s # << >>, Nested(s)
  PROVE  /\ Front(s) \in Seq(Frame) /\ Nested(Front(s)) /\ Len(Front(s)) = Len(s) - 1
         /\ Len(s) > 0 /\ (Front(s) = << >> <=> Len(s) = 1)
         /\ Len(s) > 1 => /\ Len(s) - 1 \in DOMAIN Front(s)
                          /\ Front(s)[Len(s) - 1] \in Frame
                          /\ Front(s)[Len(s) - 1].at = "after"
                          /\ Front(s)[Len(s) - 1].child > 0
<1>1. /\ Front(s) \in Seq(Frame) /\ Len(Front(s)) = Len(s) - 1
      /\ Len(s) > 0 /\ Len(s) \in Nat
      /\ \A i \in DOMAIN Front(s) : i \in DOMAIN s /\ Front(s)[i] = s[i] /\ i < Len(s) /\ i \in Int
  BY DEF Front
<1>2. Front(s) = << >> <=> Len(s) = 1
  BY <1>1
<1>3. \A i \in DOMAIN Front(s) :
        /\ Level[Front(s)[i].node] = i - 1
        /\ Front(s)[i].at = "after" /\ Front(s)[i].child > 0
  BY <1>1 DEF Nested
<1>4. Nested(Front(s))
  BY <1>3 DEF Nested
<1>5. Len(s) > 1 => Len(s) - 1 \in DOMAIN Front(s)
  BY <1>1
<1>. QED BY <1>1, <1>2, <1>3, <1>4, <1>5

\* A child with children becomes the agent of another activation.
LEMMA Pushed ==
  ASSUME NEW s \in Seq(Frame), s # << >>, Nested(s), s[Len(s)].at = "after",
         NEW f \in Frame, f.at = "self", Level[f.node] = Len(s)
  PROVE  /\ Append(s, f) \in Seq(Frame) /\ Nested(Append(s, f)) /\ Append(s, f) # << >>
         /\ Len(Append(s, f)) = Len(s) + 1
         /\ Append(s, f)[Len(Append(s, f))] = f
<1>1. /\ Append(s, f) \in Seq(Frame) /\ Len(Append(s, f)) = Len(s) + 1 /\ Len(s) \in Nat
      /\ Append(s, f)[Len(s) + 1] = f
      /\ \A i \in DOMAIN s : Append(s, f)[i] = s[i]
      /\ \A i \in DOMAIN Append(s, f) : i \in DOMAIN s \/ i = Len(s) + 1
  OBVIOUS
<1>2. Nested(Append(s, f))
  <2>. SUFFICES ASSUME NEW i \in DOMAIN Append(s, f)
                PROVE  LET t == Append(s, f) IN
                       /\ Level[t[i].node] = i - 1
                       /\ i < Len(t) => t[i].at = "after"
                       /\ t[i].at # "self" => t[i].child > 0
                       /\ t[i].at = "child" => t[i].child <= Len(Children[t[i].node])
    BY DEF Nested
  <2>1. CASE i = Len(s) + 1
    BY <1>1, <2>1
  <2>2. CASE i \in DOMAIN s
    <3>1. i \in 1 .. Len(s) /\ Append(s, f)[i] = s[i]
      BY <1>1, <2>2
    <3>2. i = Len(s) \/ i < Len(s)
      BY <1>1, <3>1
    <3>3. /\ Level[s[i].node] = i - 1
          /\ i < Len(s) => s[i].at = "after"
          /\ s[i].at # "self" => s[i].child > 0
      BY <2>2 DEF Nested
    <3>4. s[i].at = "after"
      BY <3>2, <3>3
    <3>. QED BY <3>1, <3>3, <3>4
  <2>. QED BY <1>1, <2>1, <2>2
<1>. QED BY <1>1, <1>2

-----------------------------------------------------------------------------
(* The inductive invariant. *)

Lost == [refused : Nat, unstarted : Nat, cut : Nat]
In(f, S) == {j \in Agents : f[j] \in S}
Waiting == In(job, {"waiting"})
Running == In(job, {"running", "deaf"})

\* Children are in the pool, awaited or left behind.
Pooled == batch # "closed"

\* One agent runs in the engine's own coroutine, or none does.
Alone ==
  stage \in {"root", "continue", "subtask"} \/ (stage = "dfs" /\ Top.at \in {"self", "child"})
Resting ==
  \/ stage \in {"returned", "deciding", "subtasks", "error"}
  \/ stage = "cancelled" /\ ~Pooled
  \/ stage = "dfs" /\ Top.at \in {"after", "loop"}

Stages ==
  /\ mode = "bfs" => stage \in {"root", "children", "aborting"} \cup Final
  /\ mode = "dfs" => stage \in {"dfs"} \cup Final
  /\ mode = "policy" => stage \in {"deciding", "continue", "subtasks", "subtask"} \cup Final

Frames == (stage = "dfs" <=> stack # << >>) /\ Nested(stack)

\* The depth is the number of activations that are behind their own agent.
DepthKept ==
  /\ stage = "dfs" => /\ ctx.depth = IF Top.at = "self" THEN Len(stack) - 1 ELSE Len(stack)
                      /\ ctx.depth < MaxDepth
  /\ mode = "dfs" /\ stage \in Final => ctx.depth = 0
  /\ stage = "root" => ctx.depth = 0
  /\ Pooled => \A j \in Agents : job[j] # "absent" => Level[j] < MaxDepth

\* The children that wait in the pool are still to be spawned.
AgentsKept ==
  /\ mode = "bfs" => ctx.spawned <= MaxTotalAgents
  /\ mode = "dfs" => ctx.spawned <= MaxTotalAgents + 1
  /\ Pooled => ctx.spawned + Cardinality(Waiting) <= MaxTotalAgents
  /\ stage = "dfs" /\ Top.at = "child" => ctx.spawned <= MaxTotalAgents

InAndOut ==
  /\ ctx.spawned = ctx.active + ctx.completed
  /\ Alone => ctx.active = lost.refused + 1
  /\ Resting => ctx.active = lost.refused + lost.unstarted
  /\ Pooled => /\ ctx.active = Cardinality(Running) + lost.refused + lost.unstarted
               /\ Cardinality(Running) <= MaxConcurrent

\* Only a breadth-first delegation uses the pool, nothing of it runs when it is
\* closed, and only there or in the last step of all is an agent cancelled in
\* its spawn callback.
PoolKept ==
  /\ Pooled => /\ mode = "bfs"
               /\ IF batch = "abandoned" THEN stage = "cancelled"
                  ELSE stage \in {"children", "aborting"}
  /\ ~Pooled => Running = {} /\ stage \notin {"children", "aborting"}
  /\ lost.unstarted # 0 => stage = "cancelled" \/ (mode = "bfs" /\ stage # "root")

\* Children that are out of the pool again.
Told == Len(answers) + lost.cut

\* Who was counted out has answered, but for those the pool cut off.
AnswersKept ==
  /\ stage = "root" => answers = << >>
  /\ stage = "root" \/ Pooled => ctx.results + ctx.errors + Told = ctx.completed
  /\ mode = "bfs" /\ stage = "returned" => ctx.results + ctx.errors + lost.cut = ctx.completed
  /\ mode # "bfs" => lost.cut = 0
  /\ mode = "dfs" /\ stage \in {"dfs", "returned"} =>
       ctx.results + ctx.errors = ctx.completed + lost.refused
  /\ mode = "policy" /\ stage \notin {"error", "cancelled"} =>
       ctx.results + ctx.errors = ctx.completed

Sound ==
  /\ TypeOK /\ Stages /\ Frames /\ Repeated(ctx, conv)
  /\ DepthKept /\ AgentsKept /\ InAndOut /\ PoolKept /\ AnswersKept

-----------------------------------------------------------------------------
\* One more agent is refused, cancelled in its spawn callback, or cut off.
LEMMA Loses ==
  ASSUME NEW l \in Lost
  PROVE  /\ [l EXCEPT !.refused = l.refused + 1] \in Lost
         /\ [l EXCEPT !.refused = l.refused + 1].refused = l.refused + 1
         /\ [l EXCEPT !.refused = l.refused + 1].cut = l.cut
         /\ [l EXCEPT !.refused = l.refused + 1].unstarted = l.unstarted
         /\ [l EXCEPT !.unstarted = l.unstarted + 1] \in Lost
         /\ [l EXCEPT !.unstarted = l.unstarted + 1].refused = l.refused
         /\ [l EXCEPT !.unstarted = l.unstarted + 1].unstarted = l.unstarted + 1
         /\ [l EXCEPT !.unstarted = l.unstarted + 1].cut = l.cut
         /\ [l EXCEPT !.cut = l.cut + 1] \in Lost
         /\ [l EXCEPT !.cut = l.cut + 1].refused = l.refused
         /\ [l EXCEPT !.cut = l.cut + 1].unstarted = l.unstarted
         /\ [l EXCEPT !.cut = l.cut + 1].cut = l.cut + 1
BY DEF Lost

\* What the types say of the parts of a state.
LEMMA Typed ==
  ASSUME Sound
  PROVE  /\ ctx \in Ctx /\ conv \in Conv /\ lost \in Lost /\ stack \in Seq(Frame)
         /\ mode \in {"bfs", "dfs", "policy"} /\ MaxTotalAgents \in Nat \ {0}
         /\ ctx.depth \in Nat /\ ctx.spawned \in Nat /\ ctx.active \in Nat
         /\ ctx.completed \in Nat /\ ctx.results \in Nat /\ ctx.errors \in Nat
         /\ lost.refused \in Nat /\ lost.unstarted \in Nat /\ lost.cut \in Nat
<1>1. /\ ctx \in Ctx /\ conv \in Conv /\ lost \in Lost /\ stack \in Seq(Frame)
      /\ config \in [mode : Modes, total : Totals]
  BY DEF Sound, TypeOK, Ctx, Conv, Lost
<1>2. mode \in {"bfs", "dfs", "policy"} /\ MaxTotalAgents \in Nat \ {0}
  BY <1>1, DelegationAssumption DEF mode, MaxTotalAgents
<1>3. /\ ctx.depth \in Nat /\ ctx.spawned \in Nat /\ ctx.active \in Nat
      /\ ctx.completed \in Nat /\ ctx.results \in Nat /\ ctx.errors \in Nat
  BY <1>1 DEF Ctx
<1>4. lost.refused \in Nat /\ lost.unstarted \in Nat /\ lost.cut \in Nat
  BY <1>1 DEF Lost
<1>. QED BY <1>1, <1>2, <1>3, <1>4

\* The last activation and where it is in the tree.
LEMMA Tops ==
  ASSUME Sound, stage = "dfs"
  PROVE  /\ stack # << >> /\ Len(stack) \in Nat /\ Len(stack) > 0
         /\ Top \in Frame /\ Top = stack[Len(stack)]
         /\ Top.node \in Agents /\ Level[Top.node] = Len(stack) - 1
         /\ Top.at # "self" => Top.child > 0
         /\ Top.at = "child" => Top.child \in DOMAIN Kids
         /\ Top.child \in Nat
         /\ Top.at \in {"self", "child", "after", "loop"}
         /\ mode = "dfs" /\ ctx.depth < MaxDepth /\ ctx.depth \in Nat
<1>1. stack # << >> /\ Nested(stack) /\ stack \in Seq(Frame)
  BY Typed DEF Sound, Frames
<1>2. Len(stack) \in DOMAIN stack /\ Len(stack) \in Nat /\ Len(stack) > 0
  BY <1>1
<1>3. Top \in Frame /\ Top = stack[Len(stack)]
  BY <1>1, <1>2 DEF Top
<1>4. /\ Level[Top.node] = Len(stack) - 1
      /\ Top.at # "self" => Top.child > 0
      /\ Top.at = "child" => Top.child <= Len(Children[Top.node])
  BY <1>1, <1>2, <1>3 DEF Nested
<1>5. Top.node \in Agents /\ Top.child \in Nat /\ Top.at \in {"self", "child", "after", "loop"}
  BY <1>3 DEF Frame
<1>6. Children[Top.node] \in Seq(Agents \ {Root})
  BY <1>5, DelegationAssumption
<1>7. Top.at = "child" => Top.child \in DOMAIN Kids
  BY <1>4, <1>5, <1>6 DEF Kids
<1>8. mode = "dfs"
  BY Typed DEF Sound, Stages, Final
<1>9. ctx.depth < MaxDepth /\ ctx.depth \in Nat
  BY Typed DEF Sound, DepthKept
<1>. QED BY <1>1, <1>2, <1>3, <1>4, <1>5, <1>7, <1>8, <1>9

\* The agents of a place in the tree.
LEMMA Kin ==
  ASSUME NEW a \in Agents, NEW i \in DOMAIN Children[a]
  PROVE  Children[a][i] \in Agents /\ Level[Children[a][i]] = Level[a] + 1
<1>1. Children[a] \in Seq(Agents \ {Root})
  BY DelegationAssumption
<1>. QED BY <1>1, DelegationAssumption

\* Who waits and who runs can be counted.
LEMMA Countable ==
  /\ IsFiniteSet(Waiting) /\ Cardinality(Waiting) \in Nat
  /\ IsFiniteSet(Running) /\ Cardinality(Running) \in Nat
  /\ Pool!RunningJobs = Running
<1>1. Waiting \subseteq Agents /\ Running \subseteq Agents
  BY DEF Waiting, Running, In
<1>2. IsFiniteSet(Waiting) /\ IsFiniteSet(Running)
  BY <1>1, FS_Subset, DelegationAssumption
<1>3. Cardinality(Waiting) \in Nat /\ Cardinality(Running) \in Nat
  BY <1>2, FS_CardinalityType
<1>4. Pool!RunningJobs = Running
  BY DEF Running, In, Pool!RunningJobs, Pool!Running
<1>. QED BY <1>2, <1>3, <1>4

-----------------------------------------------------------------------------
(* The invariant holds at the start and says what the properties say. *)

\* A delegation starts sound.
LEMMA InitSound == ASSUME Init PROVE Sound
<1>1. /\ config \in [mode : Modes, total : Totals]
      /\ mode \in {"bfs", "dfs", "policy"} /\ MaxTotalAgents \in Nat \ {0}
      /\ MaxDepth \in Nat \ {0}
  BY DelegationAssumption DEF Init, mode, MaxTotalAgents
<1> DEFINE fresh == [depth |-> 0, spawned |-> 0, active |-> 0, completed |-> 0,
                     results |-> 0, errors |-> 0]
<1>2. fresh \in Ctx
  BY DEF Ctx
<1>3. ctx = IF mode = "policy" THEN fresh ELSE Spawned(fresh)
  BY DEF Init
<1>. HIDE DEF fresh
<1>4. ctx \in Ctx
  BY <1>2, <1>3, Spawns
<1>5. /\ ctx.depth = 0 /\ ctx.completed = 0 /\ ctx.results = 0 /\ ctx.errors = 0
      /\ ctx.spawned = (IF mode = "policy" THEN 0 ELSE 1)
      /\ ctx.active = (IF mode = "policy" THEN 0 ELSE 1)
  BY <1>2, <1>3, Spawns DEF fresh
<1>6. /\ stage = (IF mode = "bfs" THEN "root" ELSE IF mode = "dfs" THEN "dfs" ELSE "deciding")
      /\ stack = (IF mode = "dfs" THEN <<[node |-> Root, child |-> 0, at |-> "self"]>>
                  ELSE << >>)
  BY <1>1 DEF Init
<1>7. conv \in Conv /\ Repeated(ctx, conv)
  BY DEF Init, Conv, Repeated, Answers, Failure
<1>8. stack \in Seq(Frame) /\ Frames
  <2>1. CASE mode = "dfs"
    <3> DEFINE f == [node |-> Root, child |-> 0, at |-> "self"]
    <3>1. f \in Frame
      BY DelegationAssumption DEF Frame
    <3>2. stack = <<f>> /\ f.node = Root /\ f.at = "self"
      BY <1>6, <2>1
    <3>. HIDE DEF f
    <3>3. stack \in Seq(Frame) /\ Len(stack) = 1 /\ stack[1] = f /\ stack # << >>
      BY <3>1, <3>2
    <3>4. Nested(stack)
      BY <3>2, <3>3, DelegationAssumption DEF Nested
    <3>. QED BY <1>6, <2>1, <3>3, <3>4 DEF Frames
  <2>2. CASE mode # "dfs"
    BY <1>1, <1>6, <2>2 DEF Frames, Nested
  <2>. QED BY <2>1, <2>2
<1>9. mode = "dfs" => Len(stack) = 1 /\ Top.at = "self"
  BY <1>6 DEF Top
<1>10. /\ lost.refused = 0 /\ lost.unstarted = 0 /\ lost.cut = 0 /\ lost \in Lost
       /\ answers = << >> /\ ~Pooled /\ Running = {}
  BY DEF Init, Lost, Pooled, Running, In
<1>11. TypeOK
  <2>1. job \in [Agents -> {"absent", "waiting", "running", "deaf", "done", "failed", "cut"}]
    BY DEF Init
  <2>2. policy \in [iteration : Nat, depth : Nat, left : Nat]
    BY DEF Init
  <2>3. batch = "closed" /\ timeUp = FALSE
    BY DEF Init
  <2>4. answers \in Seq(Answers)
    BY <1>10
  <2>. QED BY <1>1, <1>4, <1>6, <1>7, <1>8, <1>10, <2>1, <2>2, <2>3, <2>4
           DEF TypeOK, Ctx, Conv, Lost, Final
<1>12. Stages
  BY <1>1, <1>6 DEF Stages
<1>13. DepthKept
  BY <1>1, <1>5, <1>6, <1>9, <1>10 DEF DepthKept, Final
<1>14. AgentsKept
  BY <1>1, <1>5, <1>6, <1>9, <1>10 DEF AgentsKept
<1>15. InAndOut /\ PoolKept
  BY <1>1, <1>5, <1>6, <1>9, <1>10 DEF InAndOut, PoolKept, Alone, Resting
<1>16. AnswersKept
  BY <1>1, <1>5, <1>6, <1>10 DEF AnswersKept, Told
<1>. QED BY <1>7, <1>8, <1>11, <1>12, <1>13, <1>14, <1>15, <1>16 DEF Sound

\* No agent of a delegation that is sound is below the depth limit.
LEMMA SoundDepth == ASSUME Sound PROVE DepthLimit
<1>. SUFFICES ASSUME NEW a \in InTree
              PROVE  Level[a] < MaxDepth /\ (mode = "dfs" => ctx.depth = Level[a])
  BY DEF DepthLimit
<1>0. MaxDepth \in Nat \ {0} /\ Level[Root] = 0
  BY DelegationAssumption
<1>1. CASE Pooled
  <2>1. a \in Running
    <3>1. stage \notin {"root", "dfs"}
      BY <1>1 DEF Sound, PoolKept
    <3>. QED BY <3>1, Countable DEF InTree
  <2>2. mode # "dfs"
    BY <1>1 DEF Sound, PoolKept
  <2>. QED BY <1>1, <2>1, <2>2 DEF Sound, DepthKept, Running, In
<1>2. CASE ~Pooled /\ stage = "root"
  <2>1. a = Root
    BY <1>2, Countable DEF InTree, Sound, PoolKept
  <2>2. mode # "dfs"
    BY <1>2 DEF Sound, Stages, Final
  <2>. QED BY <1>0, <2>1, <2>2
<1>3. CASE ~Pooled /\ stage = "dfs"
  <2>0. Pool!RunningJobs = {}
    BY <1>3, Countable DEF Sound, PoolKept
  <2>1. CASE Top.at = "self"
    <3>1. a = Top.node
      BY <1>3, <2>0, <2>1 DEF InTree
    <3>. QED BY <1>3, <2>1, <3>1, Tops DEF Sound, DepthKept
  <2>2. CASE Top.at = "child"
    <3>1. a = Kids[Top.child]
      BY <1>3, <2>0, <2>2 DEF InTree
    <3>2. Level[a] = Level[Top.node] + 1
      BY <1>3, <2>2, <3>1, Tops, Kin DEF Kids
    <3>3. ctx.depth = Len(stack) /\ ctx.depth < MaxDepth
      BY <1>3, <2>2 DEF Sound, DepthKept
    <3>. QED BY <1>3, <3>2, <3>3, Tops
  <2>3. CASE Top.at \notin {"self", "child"}
    BY <1>3, <2>0, <2>3 DEF InTree
  <2>. QED BY <2>1, <2>2, <2>3
<1>4. CASE ~Pooled /\ stage \notin {"root", "dfs"}
  BY <1>4, Countable DEF InTree, Sound, PoolKept
<1>. QED BY <1>1, <1>2, <1>3, <1>4

\* What is sound is within its boundaries.
LEMMA SoundBounds == ASSUME Sound PROVE BoundariesHold
<1>1. ConvergedMeansRepeated
  <2>. SUFFICES ASSUME Converged(conv) PROVE ctx.results > StagnationThreshold
    BY DEF ConvergedMeansRepeated
  <2>1. conv.stagnation >= StagnationThreshold /\ conv.stagnation \in Nat /\ ctx.results \in Nat
    BY Typed DEF Converged, Conv
  <2>2. StagnationThreshold \in Nat \ {0}
    BY DelegationAssumption
  <2>3. conv.stagnation + 1 <= ctx.results
    BY <2>1, <2>2 DEF Sound, Repeated
  <2>. QED BY <2>1, <2>2, <2>3
<1>2. DepthRestored
  BY DEF Sound, DepthKept, DepthRestored
<1>3. AgentLimit
  BY DEF Sound, AgentsKept, AgentLimit
<1>. QED BY <1>1, <1>2, <1>3, SoundDepth DEF BoundariesHold, Sound

\* How many agents run.
LEMMA Working ==
  ASSUME Sound
  PROVE  Cardinality(InTree) = IF stage = "root" \/ (stage = "dfs" /\ Top.at \in {"self", "child"})
                               THEN 1 ELSE IF Pooled THEN Cardinality(Running) ELSE 0
<1>0. /\ ~Pooled => Pool!RunningJobs = {}
      /\ Pooled => stage \notin {"root", "dfs"}
  BY Countable DEF Sound, PoolKept
<1>1. CASE stage = "root"
  <2>1. InTree = {Root}
    BY <1>0, <1>1 DEF InTree
  <2>. QED BY <1>1, <2>1, FS_Singleton
<1>2. CASE Pooled
  <2>1. InTree = Running
    BY <1>0, <1>2, Countable DEF InTree
  <2>. QED BY <1>0, <1>2, <2>1
<1>3. CASE stage = "dfs" /\ Top.at = "self"
  <2>1. InTree = {Top.node}
    BY <1>0, <1>3 DEF InTree
  <2>. QED BY <1>3, <2>1, FS_Singleton
<1>4. CASE stage = "dfs" /\ Top.at = "child"
  <2>1. InTree = {Kids[Top.child]}
    BY <1>0, <1>4 DEF InTree
  <2>. QED BY <1>4, <2>1, FS_Singleton
<1>5. CASE stage = "dfs" /\ Top.at \notin {"self", "child"}
  <2>1. InTree = {}
    BY <1>0, <1>5 DEF InTree
  <2>. QED BY <1>0, <1>5, <2>1, FS_EmptySet
<1>6. CASE stage \notin {"root", "dfs"} /\ ~Pooled
  <2>1. InTree = {}
    BY <1>0, <1>6 DEF InTree
  <2>. QED BY <1>6, <2>1, FS_EmptySet
<1>. QED BY <1>1, <1>2, <1>3, <1>4, <1>5, <1>6

\* What is sound accounts for its agents.
LEMMA SoundAccounts == ASSUME Sound PROVE Accounted
<1> DEFINE running == Cardinality(InTree)
                        + IF stage \in {"continue", "subtask"} THEN 1 ELSE 0
<1>0. /\ MaxConcurrent \in Nat \ {0} /\ Cardinality(Running) \in Nat
      /\ ctx.active \in Nat /\ lost.refused \in Nat /\ lost.unstarted \in Nat
      /\ stage \in {"root", "children", "aborting", "dfs", "deciding", "continue",
                    "subtasks", "subtask"} \cup Final
  BY DelegationAssumption, Countable, Typed DEF Sound, TypeOK
<1>1. running = IF Alone THEN 1 ELSE IF Pooled THEN Cardinality(Running) ELSE 0
  <2>1. Pooled => stage \notin {"root", "continue", "subtask", "dfs"}
    BY DEF Sound, PoolKept
  <2>. QED BY <1>0, <2>1, Working DEF Alone
<1>2. running <= MaxConcurrent
  BY <1>0, <1>1 DEF Sound, InAndOut
<1>3. ctx.active = running + lost.refused + lost.unstarted
  <2>1. CASE Alone
    <3>1. stage # "cancelled" /\ (mode = "bfs" => stage = "root")
      BY <2>1 DEF Sound, Stages, Alone, Final
    <3>2. lost.unstarted = 0
      BY <3>1 DEF Sound, PoolKept
    <3>. QED BY <1>0, <1>1, <2>1, <3>2 DEF Sound, InAndOut
  <2>2. CASE ~Alone /\ Pooled
    BY <1>0, <1>1, <2>2 DEF Sound, InAndOut
  <2>3. CASE ~Alone /\ ~Pooled
    <3>1. stage = "dfs" => Top.at \in {"self", "child", "after", "loop"}
      BY Tops
    <3>2. stage \notin {"children", "aborting"}
      BY <2>3 DEF Sound, PoolKept
    <3>3. Resting
      BY <1>0, <2>3, <3>1, <3>2 DEF Resting, Alone, Final
    <3>. QED BY <1>0, <1>1, <2>3, <3>3 DEF Sound, InAndOut
  <2>. QED BY <2>1, <2>2, <2>3
<1>4. Counted
  BY <1>2, <1>3 DEF Counted, Sound, InAndOut
<1>5. Reported
  <2>. SUFFICES ASSUME stage = "returned"
                PROVE  /\ ctx.results + ctx.errors + lost.cut
                            = ctx.completed + IF mode = "dfs" THEN lost.refused ELSE 0
                       /\ mode # "bfs" => lost.cut = 0 /\ lost.unstarted = 0
                       /\ Pool!RunningJobs = {}
    BY DEF Reported
  <2>1. AnswersKept /\ PoolKept
    BY DEF Sound
  <2>2. Pool!RunningJobs = {}
    BY <2>1, Countable DEF PoolKept
  <2>. QED BY <2>1, <2>2, Typed DEF AnswersKept, PoolKept
<1>. QED BY <1>4, <1>5 DEF Accounted

-----------------------------------------------------------------------------
(* The depth-first steps. *)

\* What a step of the depth-first traversal has to establish.
LEMMA DfsSound ==
  ASSUME Sound, stage = "dfs", KeepDfs,
         ctx' \in Ctx, conv' \in Conv, lost' \in Lost, stack' \in Seq(Frame),
         Repeated(ctx, conv)', Nested(stack'),
         IF stack' = << >> THEN stage' \in Final ELSE stage' = "dfs",
         stage' \in Final => ctx'.depth = 0,
         stage' = "dfs" => /\ ctx'.depth = IF Top'.at = "self" THEN Len(stack') - 1
                                           ELSE Len(stack')
                           /\ ctx'.depth < MaxDepth,
         ctx'.spawned <= MaxTotalAgents + 1,
         stage' = "dfs" /\ Top'.at = "child" => ctx'.spawned <= MaxTotalAgents,
         ctx'.spawned = ctx'.active + ctx'.completed,
         stage' = "dfs" /\ Top'.at \in {"self", "child"} => ctx'.active = lost'.refused + 1,
         stage' = "dfs" /\ Top'.at \in {"after", "loop"} => ctx'.active = lost'.refused,
         stage' \in {"returned", "error"} => ctx'.active = lost'.refused,
         stage' # "cancelled",
         lost'.cut = 0, lost'.unstarted = lost.unstarted,
         stage' \in {"dfs", "returned"} =>
           ctx'.results + ctx'.errors = ctx'.completed + lost'.refused
  PROVE  Sound'
<1>0. mode = "dfs" /\ mode' = "dfs" /\ config' = config /\ MaxTotalAgents' = MaxTotalAgents
  BY Tops DEF KeepDfs, mode, MaxTotalAgents
<1>1. stage' \in {"dfs"} \cup Final
  OBVIOUS
<1>9. /\ lost.unstarted = 0 /\ lost'.refused \in Nat
      /\ ~Pooled /\ Running = {} /\ Pooled' = Pooled /\ Running' = Running
  BY <1>0 DEF Sound, PoolKept, KeepDfs, Lost, Pooled, Running
<1>2. TypeOK'
  <2>1. /\ config' \in [mode : Modes, total : Totals]
        /\ job' \in [Agents -> {"absent", "waiting", "running", "deaf", "done", "failed", "cut"}]
        /\ batch' \in {"open", "closing", "closed", "abandoned"} /\ answers' \in Seq(Answers)
        /\ policy' \in [iteration : Nat, depth : Nat, left : Nat] /\ timeUp' \in BOOLEAN
    BY DEF Sound, TypeOK, KeepDfs
  <2>. QED BY <1>1, <2>1 DEF TypeOK, Ctx, Conv, Lost
<1>3. Stages'
  BY <1>0, <1>1 DEF Stages, Final
<1>4. Frames'
  BY DEF Frames, Final
<1>5. DepthKept'
  BY <1>0, <1>1, <1>9 DEF DepthKept, Final
<1>6. AgentsKept'
  BY <1>0, <1>1, <1>9 DEF AgentsKept, Final
<1>7. InAndOut'
  BY <1>0, <1>1, <1>9 DEF InAndOut, Alone, Resting, Final
<1>8. AnswersKept'
  BY <1>0, <1>1, <1>9 DEF AnswersKept, Final
<1>10. PoolKept'
  BY <1>0, <1>1, <1>9 DEF PoolKept, Final
<1>. QED BY <1>2, <1>3, <1>4, <1>5, <1>6, <1>7, <1>8, <1>10 DEF Sound

\* The innermost activation returns and leaves the depth of its caller.
LEMMA PopSound ==
  ASSUME Sound, stage = "dfs", KeepDfs, Pop, UNCHANGED lost,
         ctx' \in Ctx, conv' \in Conv, Repeated(ctx, conv)',
         ctx'.depth = Len(stack) - 1, ctx'.spawned <= MaxTotalAgents + 1,
         ctx'.spawned = ctx'.active + ctx'.completed, ctx'.active = lost.refused,
         ctx'.results + ctx'.errors = ctx'.completed + lost.refused
  PROVE  Sound'
<1>1. stack \in Seq(Frame) /\ stack # << >> /\ Nested(stack) /\ Len(stack) \in Nat
  BY Typed, Tops DEF Sound, Frames
<1>2. /\ stack' \in Seq(Frame) /\ Nested(stack') /\ Len(stack') = Len(stack) - 1
      /\ (stack' = << >> <=> Len(stack) = 1) /\ Len(stack) > 0
      /\ Len(stack) > 1 => stack'[Len(stack) - 1].at = "after"
  BY <1>1, Fronted DEF Pop
<1>3. /\ stage' = (IF Len(stack) = 1 THEN "returned" ELSE "dfs")
      /\ Len(stack) > 1 => Top'.at = "after"
  BY <1>2 DEF Pop, Top
<1>4. lost \in Lost /\ lost.cut = 0
  BY Typed, Tops DEF Sound, AnswersKept
<1>5. Len(stack) - 1 < MaxDepth /\ MaxDepth \in Nat
  <2>1. ctx.depth = (IF Top.at = "self" THEN Len(stack) - 1 ELSE Len(stack)) /\ ctx.depth < MaxDepth
    BY DEF Sound, DepthKept
  <2>2. MaxDepth \in Nat
    BY DelegationAssumption
  <2>. QED BY <1>1, <2>1, <2>2
<1>6. stage' \in Final => ctx'.depth = 0
  BY <1>1, <1>3 DEF Final
<1>7. stage' = "dfs" => Top'.at = "after" /\ ctx'.depth = Len(stack') /\ ctx'.depth < MaxDepth
  BY <1>1, <1>2, <1>3, <1>5
<1>8. IF stack' = << >> THEN stage' \in Final ELSE stage' = "dfs"
  BY <1>2, <1>3 DEF Final
<1>9. lost' = lost /\ stage' # "cancelled"
  BY DEF Pop
<1>. QED BY <1>2, <1>4, <1>6, <1>7, <1>8, <1>9, DfsSound

\* The innermost activation moves on to f.
LEMMA MoveSound ==
  ASSUME Sound, stage = "dfs", KeepDfs, UNCHANGED stage,
         NEW f \in Frame, f.node = Top.node, f.at # "self", f.child > 0,
         f.at = "child" => f.child <= Len(Kids) /\ ctx'.spawned <= MaxTotalAgents,
         stack' = SetTop(f),
         ctx' \in Ctx, conv' \in Conv, lost' \in Lost, Repeated(ctx, conv)',
         ctx'.depth = Len(stack), ctx'.depth < MaxDepth,
         ctx'.spawned <= MaxTotalAgents + 1,
         ctx'.spawned = ctx'.active + ctx'.completed,
         ctx'.active = lost'.refused + (IF f.at = "child" THEN 1 ELSE 0),
         lost'.cut = 0, lost'.unstarted = lost.unstarted,
         ctx'.results + ctx'.errors = ctx'.completed + lost'.refused
  PROVE  Sound'
<1>1. stack \in Seq(Frame) /\ stack # << >> /\ Nested(stack) /\ Top = stack[Len(stack)]
  BY Typed, Tops DEF Sound, Frames
<1>2. /\ stack' \in Seq(Frame) /\ Nested(stack') /\ stack' # << >>
      /\ Len(stack') = Len(stack) /\ stack'[Len(stack')] = f
  BY <1>1, Replaced DEF SetTop, Kids
<1>3. Top' = f /\ stage' = "dfs" /\ f.at \in {"self", "child", "after", "loop"}
  BY <1>2 DEF Top, Frame
<1>4. lost'.refused \in Nat
  BY DEF Lost
<1>. QED BY <1>2, <1>3, <1>4, DfsSound DEF Final

\* What sound says of the counters of the depth-first traversal.
LEMMA DfsCounts ==
  ASSUME Sound, stage = "dfs"
  PROVE  /\ ctx.depth = (IF Top.at = "self" THEN Len(stack) - 1 ELSE Len(stack))
         /\ ctx.depth < MaxDepth /\ MaxDepth \in Nat /\ MaxTotalAgents \in Nat
         /\ ctx.spawned <= MaxTotalAgents + 1
         /\ Top.at = "child" => ctx.spawned <= MaxTotalAgents
         /\ ctx.spawned = ctx.active + ctx.completed
         /\ ctx.active = lost.refused + (IF Top.at \in {"self", "child"} THEN 1 ELSE 0)
         /\ lost.cut = 0
         /\ ctx.results + ctx.errors = ctx.completed + lost.refused
         /\ Repeated(ctx, conv)
<1>1. mode = "dfs" /\ Top.at \in {"self", "child", "after", "loop"}
  BY Tops
<1>2. MaxDepth \in Nat /\ MaxTotalAgents \in Nat /\ lost.refused \in Nat
  BY DelegationAssumption, Typed
<1>3. ctx.depth = (IF Top.at = "self" THEN Len(stack) - 1 ELSE Len(stack)) /\ ctx.depth < MaxDepth
  BY DEF Sound, DepthKept
<1>4. /\ ctx.spawned <= MaxTotalAgents + 1
      /\ Top.at = "child" => ctx.spawned <= MaxTotalAgents
  BY <1>1 DEF Sound, AgentsKept
<1>5. /\ ctx.spawned = ctx.active + ctx.completed
      /\ Top.at \in {"self", "child"} => ctx.active = lost.refused + 1
      /\ Top.at \in {"after", "loop"} => ctx.active = lost.refused
  <2>1. lost.unstarted = 0
    BY <1>1 DEF Sound, PoolKept
  <2>. QED BY <1>1, <1>2, <2>1 DEF Sound, InAndOut, Alone, Resting
<1>6. lost.cut = 0 /\ ctx.results + ctx.errors = ctx.completed + lost.refused
  BY <1>1 DEF Sound, AnswersKept
<1>7. ctx.active = lost.refused + (IF Top.at \in {"self", "child"} THEN 1 ELSE 0)
  BY <1>1, <1>2, <1>5
<1>. QED BY <1>2, <1>3, <1>4, <1>5, <1>6, <1>7 DEF Sound

\* The agent that runs alone is counted out and its answer is reported.
LEMMA Answered ==
  ASSUME Sound, ctx.active > 0, NEW a \in Answers
  PROVE  LET c == Recorded(Gone(ctx), a) IN
         /\ c \in Ctx /\ c.depth = ctx.depth /\ c.spawned = ctx.spawned
         /\ c.active = ctx.active - 1 /\ c.completed = ctx.completed + 1
         /\ c.results + c.errors = ctx.results + ctx.errors + 1
         /\ Novelty(conv, a) \in Conv /\ Repeated(c, Novelty(conv, a))
         /\ ctx.spawned = ctx.active + ctx.completed => c.spawned = c.active + c.completed
         /\ \A n \in Nat : ctx.results + ctx.errors = ctx.completed + n =>
              c.results + c.errors = c.completed + n
<1>1. /\ Gone(ctx) \in Ctx
      /\ Gone(ctx).active = ctx.active - 1 /\ Gone(ctx).completed = ctx.completed + 1
      /\ Gone(ctx).depth = ctx.depth /\ Gone(ctx).spawned = ctx.spawned
      /\ Gone(ctx).results = ctx.results /\ Gone(ctx).errors = ctx.errors
  BY Typed, Goes
<1>2. Repeated(Gone(ctx), conv)
  BY <1>1 DEF Sound, Repeated
<1>3. conv \in Conv
  BY Typed
<1> DEFINE c == Recorded(Gone(ctx), a)
<1>4. /\ c \in Ctx /\ c.depth = ctx.depth /\ c.spawned = ctx.spawned
      /\ c.active = ctx.active - 1 /\ c.completed = ctx.completed + 1
      /\ c.results + c.errors = ctx.results + ctx.errors + 1
      /\ Novelty(conv, a) \in Conv /\ Repeated(c, Novelty(conv, a))
  BY <1>1, <1>2, <1>3, Records, Repeats
<1>. HIDE DEF c
<1>5. ctx.active \in Nat /\ ctx.completed \in Nat
  BY Typed
<1>6. ctx.spawned = ctx.active + ctx.completed => c.spawned = c.active + c.completed
  BY <1>4, <1>5
<1>7. ASSUME NEW n \in Nat, ctx.results + ctx.errors = ctx.completed + n
      PROVE  c.results + c.errors = c.completed + n
  <2>1. c.results + c.errors = (ctx.completed + n) + 1 /\ c.completed = ctx.completed + 1
    BY <1>4, <1>7
  <2>. QED BY <1>5, <2>1
<1>. QED BY <1>4, <1>6, <1>7 DEF c

\* The agent of an activation answers.
LEMMA SelfSound == ASSUME Sound, NEW a \in Answers, SelfAnswers(a) PROVE Sound'
<1> DEFINE c == Recorded(Gone(ctx), a)
           t == Novelty(conv, a)
<1>1. /\ stage = "dfs" /\ Top.at = "self" /\ conv' = t /\ UNCHANGED lost /\ KeepDfs
      /\ IF Boundary(c, t) \/ Kids = << >> \/ c.depth + 1 >= MaxDepth
         THEN EarlyReturn(c)
         ELSE /\ ctx' = [c EXCEPT !.depth = @ + 1]
              /\ stack' = SetTop([Top EXCEPT !.at = "loop", !.child = 1])
              /\ UNCHANGED stage
  BY DEF SelfAnswers
<1>2. /\ ctx.active > 0 /\ ctx.active = lost.refused + 1 /\ lost.refused \in Nat
      /\ ctx.active \in Nat /\ ctx.completed \in Nat
      /\ ctx.depth = Len(stack) - 1 /\ Len(stack) \in Nat
      /\ ctx.spawned <= MaxTotalAgents + 1 /\ ctx.spawned = ctx.active + ctx.completed
      /\ lost.cut = 0 /\ MaxDepth \in Nat
      /\ ctx.results + ctx.errors = ctx.completed + lost.refused
  BY <1>1, DfsCounts, Typed, Tops
<1>3. /\ c \in Ctx /\ c.depth = ctx.depth /\ c.spawned = ctx.spawned
      /\ c.active = ctx.active - 1 /\ c.spawned = c.active + c.completed
      /\ c.results + c.errors = c.completed + lost.refused
      /\ t \in Conv /\ Repeated(c, t)
  BY <1>2, Answered
<1>. HIDE DEF c, t
<1>4. /\ c.spawned <= MaxTotalAgents + 1 /\ c.spawned = c.active + c.completed
      /\ c.active = lost.refused /\ c.results + c.errors = c.completed + lost.refused
      /\ c.depth = Len(stack) - 1 /\ lost.cut = 0 /\ MaxDepth \in Nat
  BY <1>2, <1>3
<1>5. CASE Boundary(c, t) \/ Kids = << >> \/ c.depth + 1 >= MaxDepth
  <2>1. ctx' = c /\ Pop
    BY <1>1, <1>5 DEF EarlyReturn
  <2>. QED BY <1>1, <1>3, <1>4, <2>1, PopSound
<1>6. CASE ~(Boundary(c, t) \/ Kids = << >> \/ c.depth + 1 >= MaxDepth)
  <2> DEFINE f == [Top EXCEPT !.at = "loop", !.child = 1]
  <2>1. ctx' = [c EXCEPT !.depth = c.depth + 1] /\ stack' = SetTop(f) /\ stage' = "dfs"
    BY <1>1, <1>6
  <2>2. /\ ctx' \in Ctx /\ ctx'.depth = Len(stack) /\ ctx'.depth < MaxDepth
        /\ ctx'.spawned = c.spawned /\ ctx'.active = c.active
        /\ ctx'.completed = c.completed /\ ctx'.results = c.results /\ ctx'.errors = c.errors
    <3>1. c.depth \in Nat /\ c \in Ctx
      BY <1>3 DEF Ctx
    <3>2. /\ ctx' \in Ctx /\ ctx'.depth = c.depth + 1
          /\ ctx'.spawned = c.spawned /\ ctx'.active = c.active
          /\ ctx'.completed = c.completed /\ ctx'.results = c.results
          /\ ctx'.errors = c.errors
      BY <2>1, <3>1 DEF Ctx
    <3>. QED BY <1>2, <1>4, <1>6, <3>1, <3>2
  <2>3. f \in Frame /\ f.node = Top.node /\ f.at = "loop" /\ f.child = 1
    <3>1. Top \in Frame
      BY <1>1, Tops
    <3>2. [Top EXCEPT !.at = "loop"] \in Frame
      BY <3>1 DEF Frame
    <3>. QED BY <3>1, <3>2 DEF Frame
  <2>4. Repeated(ctx, conv)'
    BY <1>1, <1>3, <2>2 DEF Repeated
  <2>5. lost' \in Lost /\ lost' = lost
    BY <1>1, Typed
  <2>. HIDE DEF f
  <2>6. /\ conv' \in Conv /\ ctx'.spawned <= MaxTotalAgents + 1
        /\ ctx'.spawned = ctx'.active + ctx'.completed
        /\ ctx'.active = lost'.refused + 0 /\ lost'.cut = 0
        /\ ctx'.results + ctx'.errors = ctx'.completed + lost'.refused
    BY <1>1, <1>2, <1>3, <1>4, <2>2, <2>5
  <2>. QED BY <1>1, <2>1, <2>2, <2>3, <2>4, <2>5, <2>6, MoveSound
<1>. QED BY <1>5, <1>6

\* The loop over the children leaves the level.
LEMMA LeaveSound ==
  ASSUME Sound, stage = "dfs", Top.at \in {"loop", "after"}, LeaveLevel(ctx), KeepDfs,
         UNCHANGED <<conv, lost>>
  PROVE  Sound'
<1>1. ctx' = [ctx EXCEPT !.depth = ctx.depth - 1] /\ Pop
  BY DEF LeaveLevel
<1>2. ctx \in Ctx /\ ctx.depth = Len(stack) /\ Len(stack) \in Nat /\ Len(stack) > 0
      /\ lost.refused \in Nat
  BY DfsCounts, Typed, Tops
<1>3. /\ ctx' \in Ctx /\ ctx'.depth = Len(stack) - 1
      /\ ctx'.spawned = ctx.spawned /\ ctx'.active = ctx.active
      /\ ctx'.completed = ctx.completed /\ ctx'.results = ctx.results
      /\ ctx'.errors = ctx.errors
  BY <1>1, <1>2 DEF Ctx
<1>4. Repeated(ctx, conv)' /\ conv' \in Conv
  BY <1>3, Typed, DfsCounts DEF Repeated
<1>5. ctx.active = lost.refused
  BY <1>2, DfsCounts
<1>. QED BY <1>1, <1>3, <1>4, <1>5, DfsCounts, PopSound

\* The head of the loop.
LEMMA NextSound == ASSUME Sound, NextChild PROVE Sound'
<1>1. stage = "dfs" /\ Top.at = "loop" /\ UNCHANGED <<conv, lost>> /\ KeepDfs
  BY DEF NextChild
<1> DEFINE stop == Top.child > Len(Kids) \/ ctx.spawned >= MaxTotalAgents \/ Boundary(ctx, conv)
<1>2. CASE stop
  BY <1>1, <1>2, LeaveSound DEF NextChild
<1>3. CASE ~stop
  <2> DEFINE f == [Top EXCEPT !.at = "child"]
  <2>1. ctx' = Spawned(ctx) /\ stack' = SetTop(f) /\ UNCHANGED stage
    BY <1>3 DEF NextChild
  <2>2. /\ Top \in Frame /\ Top.child > 0 /\ Top.child \in Nat /\ Top.node \in Agents
        /\ Len(stack) \in Nat
    BY <1>1, Tops
  <2>3. f \in Frame /\ f.node = Top.node /\ f.at = "child" /\ f.child = Top.child
    BY <2>2 DEF Frame
  <2>4. Len(Kids) \in Nat
    <3>1. Kids \in Seq(Agents \ {Root})
      BY <2>2, DelegationAssumption DEF Kids
    <3>. QED BY <3>1
  <2>5. /\ ctx' \in Ctx /\ ctx'.spawned = ctx.spawned + 1 /\ ctx'.active = ctx.active + 1
        /\ ctx'.depth = ctx.depth /\ ctx'.completed = ctx.completed
        /\ ctx'.results = ctx.results /\ ctx'.errors = ctx.errors
    BY <2>1, Typed, Spawns
  <2>6. Repeated(ctx, conv)' /\ conv' \in Conv /\ lost' \in Lost /\ lost' = lost
    BY <1>1, <2>5, Typed, DfsCounts DEF Repeated
  <2>. HIDE DEF f
  <2>7. ctx'.spawned <= MaxTotalAgents /\ f.child <= Len(Kids)
    BY <1>3, <2>2, <2>3, <2>4, <2>5, Typed
  <2>8. /\ ctx'.spawned = ctx'.active + ctx'.completed
        /\ ctx'.active = lost'.refused + 1 /\ ctx'.spawned <= MaxTotalAgents + 1
        /\ ctx'.results + ctx'.errors = ctx'.completed + lost'.refused
        /\ ctx'.depth = Len(stack) /\ ctx'.depth < MaxDepth /\ lost'.cut = 0
    <3>1. /\ ctx.depth = Len(stack) /\ ctx.depth < MaxDepth /\ lost.cut = 0
          /\ ctx.spawned = ctx.active + ctx.completed
          /\ ctx.active = lost.refused + 0
          /\ ctx.results + ctx.errors = ctx.completed + lost.refused
      BY <1>1, DfsCounts
    <3>2. /\ ctx.active \in Nat /\ ctx.completed \in Nat /\ lost.refused \in Nat
          /\ MaxTotalAgents \in Nat /\ ctx.spawned \in Nat
      BY Typed
    <3>. QED BY <2>5, <2>6, <2>7, <3>1, <3>2
  <2>. QED BY <1>1, <2>1, <2>2, <2>3, <2>5, <2>6, <2>7, <2>8, MoveSound
<1>. QED BY <1>2, <1>3

\* A child answers.
LEMMA ChildSound == ASSUME Sound, NEW a \in Answers, ChildAnswers(a) PROVE Sound'
<1> DEFINE c == Recorded(Gone(ctx), a)
           t == Novelty(conv, a)
           kid == Kids[Top.child]
           f == [Top EXCEPT !.at = "after"]
           back == SetTop(f)
<1>1. /\ stage = "dfs" /\ Top.at = "child" /\ conv' = t /\ UNCHANGED <<stage, lost>> /\ KeepDfs
      /\ IF Children[kid] = << >> THEN ctx' = c /\ stack' = back
         ELSE /\ ctx' = Spawned(c)
              /\ stack' = Append(back, [node |-> kid, child |-> 0, at |-> "self"])
  BY DEF ChildAnswers
<1>2. /\ ctx.active > 0 /\ ctx.active = lost.refused + 1 /\ lost.refused \in Nat
      /\ ctx.active \in Nat /\ ctx.completed \in Nat /\ ctx.spawned \in Nat
      /\ ctx.depth = Len(stack) /\ Len(stack) \in Nat /\ MaxTotalAgents \in Nat
      /\ ctx.depth < MaxDepth /\ ctx.spawned <= MaxTotalAgents
      /\ ctx.spawned = ctx.active + ctx.completed /\ lost.cut = 0
      /\ ctx.results + ctx.errors = ctx.completed + lost.refused
  BY <1>1, DfsCounts, Typed, Tops
<1>3. /\ c \in Ctx /\ c.depth = ctx.depth /\ c.spawned = ctx.spawned
      /\ c.active = ctx.active - 1 /\ c.spawned = c.active + c.completed
      /\ c.results + c.errors = c.completed + lost.refused
      /\ t \in Conv /\ Repeated(c, t)
  BY <1>2, Answered
<1>. HIDE DEF c, t
<1>4. c.completed \in Nat /\ c.active = lost.refused
  BY <1>2, <1>3 DEF Ctx
<1>5. f \in Frame /\ f.node = Top.node /\ f.at = "after" /\ f.child = Top.child /\ f.child > 0
  BY <1>1, Tops DEF Frame
<1>. HIDE DEF f
<1>6. lost' \in Lost /\ lost' = lost
  BY <1>1, Typed
<1>7. CASE Children[kid] = << >>
  <2>1. ctx' = c /\ stack' = SetTop(f)
    BY <1>1, <1>7
  <2>2. Repeated(ctx, conv)'
    BY <1>1, <1>3, <2>1 DEF Repeated
  <2>3. /\ ctx' \in Ctx /\ conv' \in Conv
        /\ ctx'.depth = Len(stack) /\ ctx'.depth < MaxDepth
        /\ ctx'.spawned <= MaxTotalAgents + 1 /\ ctx'.spawned = ctx'.active + ctx'.completed
        /\ ctx'.active = lost'.refused /\ lost'.cut = 0
        /\ ctx'.results + ctx'.errors = ctx'.completed + lost'.refused
    <3>1. c.depth = Len(stack) /\ c.depth < MaxDepth /\ c.spawned <= MaxTotalAgents + 1
      BY <1>2, <1>3
    <3>. QED BY <1>1, <1>2, <1>3, <1>6, <1>4, <2>1, <3>1
  <2>. QED BY <1>1, <1>2, <1>5, <1>6, <2>1, <2>2, <2>3, MoveSound
<1>8. CASE Children[kid] # << >>
  <2> DEFINE g == [node |-> kid, child |-> 0, at |-> "self"]
  <2>1. ctx' = Spawned(c) /\ stack' = Append(back, g)
    BY <1>1, <1>8
  <2>2. kid \in Agents /\ Level[kid] = Len(stack)
    <3>1. kid \in Agents /\ Level[kid] = Level[Top.node] + 1
      BY <1>1, Tops, Kin DEF Kids
    <3>. QED BY <1>1, <3>1, Tops
  <2>3. g \in Frame /\ g.node = kid /\ g.at = "self"
    BY <2>2 DEF Frame
  <2>. HIDE DEF g
  <2>4. stack \in Seq(Frame) /\ stack # << >> /\ Nested(stack) /\ Top = stack[Len(stack)]
    BY <1>1, Typed, Tops DEF Sound, Frames
  <2>5. /\ back \in Seq(Frame) /\ Nested(back) /\ back # << >>
        /\ Len(back) = Len(stack) /\ back[Len(back)] = f
    BY <1>5, <2>4, Replaced DEF SetTop
  <2>. HIDE DEF back
  <2>6. /\ stack' \in Seq(Frame) /\ Nested(stack') /\ stack' # << >>
        /\ Len(stack') = Len(stack) + 1 /\ stack'[Len(stack')] = g
    <3>1. Level[g.node] = Len(back)
      BY <2>2, <2>3, <2>5
    <3>. QED BY <1>5, <2>1, <2>3, <2>5, <3>1, Pushed
  <2>7. Top'.at = "self"
    BY <2>3, <2>6 DEF Top
  <2>8. /\ ctx' \in Ctx /\ ctx'.spawned = c.spawned + 1 /\ ctx'.active = c.active + 1
        /\ ctx'.depth = c.depth /\ ctx'.completed = c.completed
        /\ ctx'.results = c.results /\ ctx'.errors = c.errors
    BY <1>3, <2>1, Spawns
  <2>9. Repeated(ctx, conv)'
    BY <1>1, <1>3, <2>8 DEF Repeated
  <2>10. /\ ctx'.spawned = ctx'.active + ctx'.completed
         /\ ctx'.active = lost'.refused + 1 /\ ctx'.spawned <= MaxTotalAgents + 1
         /\ ctx'.results + ctx'.errors = ctx'.completed + lost'.refused
         /\ ctx'.depth = Len(stack') - 1 /\ ctx'.depth < MaxDepth /\ lost'.cut = 0
    <3>1. ctx'.spawned = ctx'.active + ctx'.completed /\ ctx'.active = lost.refused + 1
      <4>1. c.spawned = c.active + c.completed
        BY <1>3
      <4>. QED BY <1>2, <1>4, <2>8, <4>1
    <3>2. ctx'.results + ctx'.errors = ctx'.completed + lost.refused
      BY <1>3, <2>8
    <3>3. ctx'.spawned <= MaxTotalAgents + 1
      <4>1. ctx'.spawned = ctx.spawned + 1
        BY <1>3, <2>8
      <4>. QED BY <1>2, <4>1
    <3>4. ctx'.depth = Len(stack') - 1 /\ ctx'.depth < MaxDepth
      BY <1>2, <1>3, <2>6, <2>8
    <3>. QED BY <1>2, <1>6, <3>1, <3>2, <3>3, <3>4
  <2>11. stage' = "dfs"
    BY <1>1
  <2>. QED BY <1>1, <1>3, <1>6, <2>6, <2>7, <2>8, <2>9, <2>10, <2>11, DfsSound DEF Final
<1>. QED BY <1>7, <1>8

\* The loop over the children goes on behind a child.
LEMMA Onward ==
  ASSUME NEW f \in Frame
  PROVE  LET g == [f EXCEPT !.at = "loop", !.child = f.child + 1]
         IN  g \in Frame /\ g.node = f.node /\ g.at = "loop" /\ g.child > 0
<1> DEFINE g == [f EXCEPT !.at = "loop", !.child = f.child + 1]
<1>1. f.child \in Nat /\ f.node \in Agents
  BY DEF Frame
<1>2. g = [node |-> f.node, child |-> f.child + 1, at |-> "loop"]
  <2> DEFINE h == [f EXCEPT !.at = "loop"]
  <2>1. h = [node |-> f.node, child |-> f.child, at |-> "loop"]
    BY DEF Frame
  <2>2. g = [h EXCEPT !.child = f.child + 1]
    OBVIOUS
  <2>. HIDE DEF h, g
  <2>. QED BY <2>1, <2>2
<1>3. f.child + 1 \in Nat /\ f.child + 1 > 0
  BY <1>1
<1>. HIDE DEF g
<1>. QED BY <1>1, <1>2, <1>3 DEF Frame, g

\* A child's activation is back, the loop goes on or leaves.
LEMMA AfterSound == ASSUME Sound, AfterChild PROVE Sound'
<1>1. stage = "dfs" /\ Top.at = "after" /\ UNCHANGED <<conv, lost>> /\ KeepDfs
  BY DEF AfterChild
<1>2. CASE Converged(conv)
  BY <1>1, <1>2, LeaveSound DEF AfterChild
<1>3. CASE ~Converged(conv)
  <2> DEFINE f == [Top EXCEPT !.at = "loop", !.child = Top.child + 1]
  <2>1. stack' = SetTop(f) /\ UNCHANGED <<ctx, stage>>
    BY <1>1, <1>3 DEF AfterChild
  <2>2. Top \in Frame /\ Top.child > 0 /\ Top.child \in Nat
    BY <1>1, Tops
  <2>3. f \in Frame /\ f.node = Top.node /\ f.at = "loop" /\ f.child > 0
    BY <2>2, Onward
  <2>. HIDE DEF f
  <2>4. /\ ctx' = ctx /\ conv' = conv /\ lost' = lost
        /\ ctx \in Ctx /\ conv \in Conv /\ lost \in Lost
        /\ ctx.depth = Len(stack) /\ ctx.depth < MaxDepth
        /\ ctx.spawned <= MaxTotalAgents + 1 /\ ctx.spawned = ctx.active + ctx.completed
        /\ ctx.active = lost.refused + 0 /\ lost.cut = 0
        /\ ctx.results + ctx.errors = ctx.completed + lost.refused
        /\ Repeated(ctx, conv)
    BY <1>1, <2>1, Typed, DfsCounts
  <2>5. Repeated(ctx, conv)'
    BY <2>4 DEF Repeated
  <2>. QED BY <1>1, <2>1, <2>3, <2>4, <2>5, MoveSound
<1>. QED BY <1>2, <1>3

\* The spawn callback raises: the activation it was called in, or the one
\* further out, goes on behind the child.
LEMMA RefusedSound == ASSUME Sound, Refused PROVE Sound'
<1> DEFINE rest == IF Top.at = "self" THEN Front(stack) ELSE stack
           top == rest[Len(rest)]
           f == [top EXCEPT !.at = "loop", !.child = top.child + 1]
<1>1. /\ stage = "dfs" /\ Top.at \in {"self", "child"} /\ UNCHANGED conv /\ KeepDfs
      /\ lost' = [lost EXCEPT !.refused = lost.refused + 1]
      /\ IF rest = << >> THEN stage' = "error" /\ stack' = rest /\ UNCHANGED ctx
         ELSE /\ ctx' = [ctx EXCEPT !.errors = ctx.errors + 1]
              /\ stack' = [rest EXCEPT ![Len(rest)] = f]
              /\ UNCHANGED stage
  BY DEF Refused
<1>2. /\ stack \in Seq(Frame) /\ stack # << >> /\ Nested(stack) /\ Top = stack[Len(stack)]
      /\ Len(stack) \in Nat /\ Len(stack) > 0 /\ Top \in Frame
  BY <1>1, Typed, Tops DEF Sound, Frames
<1>3. lost' \in Lost /\ lost'.refused = lost.refused + 1 /\ lost'.cut = lost.cut
  BY <1>1, Typed, Loses
<1>4. /\ ctx.depth = (IF Top.at = "self" THEN Len(stack) - 1 ELSE Len(stack))
      /\ ctx.depth < MaxDepth
      /\ ctx.spawned <= MaxTotalAgents + 1 /\ ctx.spawned = ctx.active + ctx.completed
      /\ ctx.active = lost.refused + 1 /\ lost.cut = 0
      /\ ctx.results + ctx.errors = ctx.completed + lost.refused
      /\ ctx \in Ctx /\ conv \in Conv /\ Repeated(ctx, conv)
      /\ ctx.results \in Nat /\ ctx.errors \in Nat /\ ctx.completed \in Nat
      /\ lost.refused \in Nat
  BY <1>1, DfsCounts, Typed
<1>5. CASE rest = << >>
  <2>1. Top.at = "self" /\ Len(stack) = 1
    BY <1>2, <1>5, Fronted
  <2>2. stack' = << >> /\ stage' = "error" /\ ctx' = ctx /\ conv' = conv
    BY <1>1, <1>5
  <2>3. Nested(stack') /\ stack' \in Seq(Frame)
    BY <2>2 DEF Nested
  <2>4. Repeated(ctx, conv)'
    BY <1>4, <2>2 DEF Repeated
  <2>5. ctx'.depth = 0
    BY <1>4, <2>1, <2>2
  <2>. HIDE DEF rest
  <2>. QED BY <1>1, <1>3, <1>4, <2>2, <2>3, <2>4, <2>5, DfsSound DEF Final
<1>6. CASE rest # << >>
  <2>1. /\ rest \in Seq(Frame) /\ Nested(rest) /\ Len(rest) \in Nat /\ Len(rest) > 0
        /\ top \in Frame /\ top.child > 0 /\ Len(rest) = ctx.depth
    <3>1. CASE Top.at = "self"
      <4>1. rest = Front(stack) /\ Len(rest) = Len(stack) - 1 /\ Len(stack) > 1
        BY <1>2, <1>6, <3>1, Fronted
      <4>. QED BY <1>2, <1>4, <3>1, <4>1, Fronted
    <3>2. CASE Top.at # "self"
      <4>1. rest = stack /\ top = Top
        BY <1>2, <3>2
      <4>. QED BY <1>1, <1>2, <1>4, <3>2, <4>1, Tops
    <3>. QED BY <3>1, <3>2
  <2>. HIDE DEF rest
  <2>2. f \in Frame /\ f.node = top.node /\ f.at = "loop" /\ f.child > 0
    <3>. HIDE DEF top
    <3>. QED BY <2>1, Onward
  <2>3. f.node = rest[Len(rest)].node
    BY <2>2
  <2>. HIDE DEF f, top
  <2>4. stack' = [rest EXCEPT ![Len(rest)] = f] /\ stage' = "dfs" /\ conv' = conv
    BY <1>1, <1>6
  <2>5. /\ stack' \in Seq(Frame) /\ Nested(stack') /\ stack' # << >>
        /\ Len(stack') = Len(rest) /\ stack'[Len(stack')] = f
    BY <1>6, <2>1, <2>2, <2>3, <2>4, Replaced
  <2>6. Top'.at = "loop"
    BY <2>2, <2>5 DEF Top
  <2>7. ctx' = Recorded(ctx, Failure) /\ Failure \in Answers
    BY <1>1, <1>6 DEF Recorded, Answers
  <2>8. /\ ctx' \in Ctx /\ ctx'.depth = ctx.depth /\ ctx'.spawned = ctx.spawned
        /\ ctx'.active = ctx.active /\ ctx'.completed = ctx.completed
        /\ ctx'.results = ctx.results
        /\ ctx'.results + ctx'.errors = ctx.results + ctx.errors + 1
    BY <1>4, <2>7, Records
  <2>9. Repeated(ctx, conv)'
    BY <1>4, <2>4, <2>8 DEF Repeated
  <2>10. /\ ctx'.depth = Len(stack') /\ ctx'.depth < MaxDepth
         /\ ctx'.spawned <= MaxTotalAgents + 1 /\ ctx'.spawned = ctx'.active + ctx'.completed
         /\ ctx'.active = lost'.refused /\ lost'.cut = 0
         /\ ctx'.results + ctx'.errors = ctx'.completed + lost'.refused
    <3>1. /\ ctx.active = lost.refused + 1
          /\ ctx.results + (ctx.errors + 1) = ctx.completed + (lost.refused + 1)
      BY <1>4
    <3>. QED BY <1>3, <1>4, <2>1, <2>5, <2>8, <3>1
  <2>. QED BY <1>1, <1>3, <1>4, <2>4, <2>5, <2>6, <2>8, <2>9, <2>10, DfsSound DEF Final
<1>. QED BY <1>5, <1>6

-----------------------------------------------------------------------------
(* The breadth-first steps. *)

\* Where a child may be.
Places == {"absent", "waiting", "running", "deaf", "done", "failed", "cut"}

\* The agents somewhere can be counted.
LEMMA Some ==
  ASSUME NEW f, NEW S
  PROVE  IsFiniteSet(In(f, S)) /\ Cardinality(In(f, S)) \in Nat
<1>1. In(f, S) \in SUBSET Agents
  BY DEF In
<1>. QED BY <1>1, FS_Subset, FS_CardinalityType, DelegationAssumption

\* A finite set without one of its elements.
LEMMA OneOut ==
  ASSUME NEW A, IsFiniteSet(A), NEW x \in A
  PROVE  Cardinality(A \ {x}) = Cardinality(A) - 1
BY FS_RemoveElement

\* An agent that goes from one place to another is one fewer here and one more
\* there.
LEMMA Moves ==
  ASSUME job \in [Agents -> Places], NEW j \in Agents, NEW w \in Places, w # job[j],
         job' = [job EXCEPT ![j] = w]
  PROVE  /\ job' \in [Agents -> Places]
         /\ \A S \in SUBSET Places :
              /\ job[j] \in S => Cardinality(In(job, S)) > 0
              /\ Cardinality(In(job', S)) = Cardinality(In(job, S)) +
                   (IF w \in S THEN 1 ELSE 0) - (IF job[j] \in S THEN 1 ELSE 0)
<1>1. job' \in [Agents -> Places] /\ job'[j] = w /\ \A i \in Agents : i # j => job'[i] = job[i]
  OBVIOUS
<1>2. ASSUME NEW S \in SUBSET Places
      PROVE  Cardinality(In(job', S)) = Cardinality(In(job, S)) +
               (IF w \in S THEN 1 ELSE 0) - (IF job[j] \in S THEN 1 ELSE 0)
  <2>0. IsFiniteSet(In(job, S)) /\ Cardinality(In(job, S)) \in Nat
    BY Some
  <2>1. CASE w \in S /\ job[j] \notin S
    <3>1. In(job', S) = In(job, S) \cup {j} /\ j \notin In(job, S)
      BY <1>1, <2>1 DEF In
    <3>2. Cardinality(In(job', S)) = Cardinality(In(job, S)) + 1
      BY <2>0, <3>1, FS_AddElement
    <3>. QED BY <2>0, <2>1, <3>2
  <2>2. CASE w \notin S /\ job[j] \in S
    <3>1. In(job', S) = In(job, S) \ {j}
      BY <1>1, <2>2 DEF In
    <3>2. j \in In(job, S)
      BY <2>2 DEF In
    <3>3. Cardinality(In(job, S) \ {j}) = Cardinality(In(job, S)) - 1
      BY <2>0, <3>2, OneOut
    <3>4. Cardinality(In(job', S)) = Cardinality(In(job, S)) - 1
      BY <3>1, <3>3, Zenon
    <3>. QED BY <2>0, <2>2, <3>4
  <2>3. CASE w \in S <=> job[j] \in S
    <3>1. In(job', S) = In(job, S)
      BY <1>1, <2>3 DEF In
    <3>. QED BY <2>0, <2>3, <3>1
  <2>. QED BY <2>1, <2>2, <2>3
<1>3. ASSUME NEW S \in SUBSET Places, job[j] \in S PROVE Cardinality(In(job, S)) > 0
  <2>1. IsFiniteSet(In(job, S)) /\ j \in In(job, S) /\ Cardinality(In(job, S)) \in Nat
    BY <1>3, Some DEF In
  <2>2. Cardinality(In(job, S)) # 0
    BY <2>1, FS_EmptySet
  <2>. QED BY <2>1, <2>2
<1>. QED BY <1>1, <1>2, <1>3

\* What sound says while children are in the pool.
LEMMA PoolCounts ==
  ASSUME Sound, Pooled
  PROVE  /\ mode = "bfs" /\ Repeated(ctx, conv) /\ stage \in {"children", "aborting", "cancelled"}
         /\ stack = << >>
         /\ job \in [Agents -> Places] /\ batch \in {"open", "closing", "abandoned"}
         /\ batch = "abandoned" <=> stage = "cancelled"
         /\ \A j \in Agents : job[j] # "absent" => Level[j] < MaxDepth
         /\ answers \in Seq(Answers) /\ Len(answers) \in Nat /\ MaxConcurrent \in Nat
         /\ Cardinality(Waiting) \in Nat /\ Cardinality(Running) \in Nat
         /\ ctx.spawned + Cardinality(Waiting) <= MaxTotalAgents
         /\ Cardinality(Running) <= MaxConcurrent
         /\ ctx.spawned = ctx.active + ctx.completed
         /\ ctx.active = Cardinality(Running) + lost.refused + lost.unstarted
         /\ ctx.results + ctx.errors + Told = ctx.completed
<1>1. /\ mode = "bfs" /\ stage \in {"children", "aborting", "cancelled"}
      /\ batch = "abandoned" <=> stage = "cancelled"
  BY DEF Sound, PoolKept
<1>2. /\ job \in [Agents -> Places] /\ batch \in {"open", "closing", "abandoned"}
      /\ answers \in Seq(Answers) /\ Len(answers) \in Nat
  BY DEF Sound, TypeOK, Places, Pooled
<1>3. MaxConcurrent \in Nat
  BY DelegationAssumption
<1>4. \A j \in Agents : job[j] # "absent" => Level[j] < MaxDepth
  BY DEF Sound, DepthKept
<1>5. ctx.spawned + Cardinality(Waiting) <= MaxTotalAgents
  BY DEF Sound, AgentsKept
<1>6. /\ Cardinality(Running) <= MaxConcurrent /\ ctx.spawned = ctx.active + ctx.completed
      /\ ctx.active = Cardinality(Running) + lost.refused + lost.unstarted
  BY DEF Sound, InAndOut
<1>7. ctx.results + ctx.errors + Told = ctx.completed
  BY DEF Sound, AnswersKept
<1>8. stack = << >>
  BY <1>1 DEF Sound, Frames
<1>. QED BY <1>1, <1>2, <1>3, <1>4, <1>5, <1>6, <1>7, <1>8, Countable DEF Sound

\* What a step of the pool has to establish.
LEMMA PoolSound ==
  ASSUME Sound, Pooled, KeepBfs,
         job' \in [Agents -> Places],
         \A j \in Agents : job'[j] # "absent" => job[j] # "absent",
         IF stage' = "cancelled" THEN batch' = "abandoned"
         ELSE stage' \in {"children", "aborting"} /\ batch' \in {"open", "closing"},
         answers' \in Seq(Answers),
         ctx' \in Ctx, lost' \in Lost, ctx'.results = ctx.results,
         ctx'.spawned + Cardinality(Waiting)' <= MaxTotalAgents,
         ctx'.spawned = ctx'.active + ctx'.completed,
         ctx'.active = Cardinality(Running)' + lost'.refused + lost'.unstarted,
         Cardinality(Running)' <= MaxConcurrent,
         ctx'.results + ctx'.errors + Told' = ctx'.completed
  PROVE  Sound'
<1>0. /\ mode' = mode /\ mode = "bfs" /\ MaxTotalAgents' = MaxTotalAgents
      /\ stack' = stack /\ stack = << >> /\ conv' = conv /\ Pooled'
      /\ stage' \in {"children", "aborting", "cancelled"}
      /\ batch' = "abandoned" <=> stage' = "cancelled"
  BY PoolCounts DEF KeepBfs, mode, MaxTotalAgents, Pooled
<1>1. TypeOK'
  <2>1. stage' \in {"root", "children", "aborting", "dfs", "deciding", "continue",
                   "subtasks", "subtask"} \cup Final
    BY <1>0 DEF Final
  <2>2. batch' \in {"open", "closing", "closed", "abandoned"}
    OBVIOUS
  <2>. QED BY <2>1, <2>2 DEF KeepBfs, Sound, TypeOK, Ctx, Lost, Places
<1>2. Stages'
  BY <1>0 DEF Stages, Final
<1>3. Frames'
  BY <1>0 DEF Frames, Nested
<1>4. Repeated(ctx, conv)'
  BY <1>0 DEF Sound, Repeated
<1>5. DepthKept'
  <2>1. \A j \in Agents : job'[j] # "absent" => Level[j] < MaxDepth
    BY PoolCounts
  <2>. QED BY <1>0, <2>1 DEF DepthKept
<1>6. AgentsKept'
  <2>1. Cardinality(Waiting)' \in Nat
    BY Some DEF Waiting
  <2>2. ctx'.spawned \in Nat /\ MaxTotalAgents \in Nat
    BY Typed DEF Ctx
  <2>3. ctx'.spawned <= MaxTotalAgents
    BY <2>1, <2>2
  <2>. QED BY <1>0, <2>3 DEF AgentsKept
<1>7. InAndOut'
  BY <1>0 DEF InAndOut, Alone, Resting
<1>8. AnswersKept'
  BY <1>0 DEF AnswersKept
<1>9. PoolKept'
  BY <1>0 DEF PoolKept
<1>. QED BY <1>1, <1>2, <1>3, <1>4, <1>5, <1>6, <1>7, <1>8, <1>9 DEF Sound

\* The numbers of those facts.
Figures ==
  /\ Cardinality(Waiting) \in Nat /\ Cardinality(Running) \in Nat
  /\ Cardinality(Running) <= MaxConcurrent
  /\ ctx.spawned + Cardinality(Waiting) <= MaxTotalAgents
  /\ ctx.spawned = ctx.active + ctx.completed
  /\ ctx.active = Cardinality(Running) + lost.refused + lost.unstarted
  /\ ctx.spawned \in Nat /\ ctx.active \in Nat /\ ctx.completed \in Nat
  /\ lost.refused \in Nat /\ lost.unstarted \in Nat
  /\ MaxTotalAgents \in Nat /\ MaxConcurrent \in Nat

Sum == /\ ctx.results + ctx.errors + Told = ctx.completed
       /\ ctx.results \in Nat /\ ctx.errors \in Nat
       /\ Told \in Nat /\ ctx.completed \in Nat

\* They hold while children are in the pool.
LEMMA PoolFigures == ASSUME Sound, Pooled PROVE Figures /\ Sum
<1>1. Told \in Nat
  <2>1. Len(answers) \in Nat /\ lost.cut \in Nat
    BY Typed, PoolCounts
  <2>. QED BY <2>1 DEF Told
<1>. QED BY <1>1, Typed, PoolCounts DEF Figures, Sum

\* A step of a child leaves the delegation where it is.
LEMMA Stays ==
  ASSUME Sound, Pooled, KeepStage, batch' = batch
  PROVE  /\ KeepBfs
         /\ IF stage' = "cancelled" THEN batch' = "abandoned"
            ELSE stage' \in {"children", "aborting"} /\ batch' \in {"open", "closing"}
BY PoolCounts DEF KeepStage

\* The pool counts as everybody does.
LEMMA SameCount == ASSUME NEW S PROVE Pool!Cardinality(S) = Cardinality(S)
BY DEF Pool!Cardinality, Cardinality

\* A child of the pool begins.
LEMMA BeginSound == ASSUME Sound, NEW j \in Agents, ChildBegins(j) PROVE Sound'
<1>1. /\ Pooled /\ KeepStage /\ answers' = answers /\ lost' = lost
      /\ ctx' = Spawned(ctx) /\ batch' = batch
      /\ job[j] = "waiting" /\ Cardinality(Running) < MaxConcurrent
      /\ \E how \in {"running", "deaf"} : job' = [job EXCEPT ![j] = how]
  <2>1. Pool!RunningJobs = Running
    BY Countable
  <2>2. PICK how \in {"running", "deaf"} : Pool!Begin(j, how)
    BY DEF ChildBegins, Pool!Running
  <2>. QED BY <2>1, <2>2, SameCount DEF ChildBegins, Pool!Begin, Pooled
<1>0. job \in [Agents -> Places] /\ Figures /\ Sum
  BY <1>1, PoolCounts, PoolFigures
<1>2. /\ job' \in [Agents -> Places]
      /\ Cardinality(Waiting)' = Cardinality(Waiting) - 1
      /\ Cardinality(Running)' = Cardinality(Running) + 1
  <2>1. PICK how \in {"running", "deaf"} : job' = [job EXCEPT ![j] = how]
    BY <1>1
  <2>2. how # job[j] /\ how \in Places
        /\ {"waiting"} \in SUBSET Places /\ {"running", "deaf"} \in SUBSET Places
    BY <1>1 DEF Places
  <2>3. /\ job' \in [Agents -> Places]
        /\ \A S \in SUBSET Places : Cardinality(In(job', S)) = Cardinality(In(job, S)) +
             (IF how \in S THEN 1 ELSE 0) - (IF job[j] \in S THEN 1 ELSE 0)
    BY <1>0, <2>1, <2>2, Moves
  <2>4. Cardinality(In(job', {"waiting"})) = Cardinality(In(job, {"waiting"})) + 0 - 1
    BY <1>1, <2>2, <2>3
  <2>5. Cardinality(In(job', {"running", "deaf"})) = Cardinality(In(job, {"running", "deaf"})) + 1 - 0
    BY <1>1, <2>2, <2>3
  <2>6. Cardinality(In(job, {"waiting"})) \in Nat /\ Cardinality(In(job, {"running", "deaf"})) \in Nat
    BY Some
  <2>. QED BY <2>3, <2>4, <2>5, <2>6 DEF Waiting, Running
<1>3. /\ ctx' \in Ctx /\ ctx'.spawned = ctx.spawned + 1 /\ ctx'.active = ctx.active + 1
      /\ ctx'.completed = ctx.completed /\ ctx'.results = ctx.results
      /\ ctx'.errors = ctx.errors
  BY <1>1, Typed, Spawns
<1>4. /\ ctx'.spawned + Cardinality(Waiting)' <= MaxTotalAgents
      /\ ctx'.spawned = ctx'.active + ctx'.completed
      /\ ctx'.active = Cardinality(Running)' + lost.refused + lost.unstarted
      /\ Cardinality(Running)' <= MaxConcurrent
  <2>1. Cardinality(Running) < MaxConcurrent
    BY <1>1
  <2>. QED BY <1>0, <1>2, <1>3, <2>1 DEF Figures
<1>5. \A i \in Agents : job'[i] # "absent" => job[i] # "absent"
  BY <1>1, PoolCounts
<1>6. ctx'.results + ctx'.errors + Told' = ctx'.completed
  <2>1. Told' = Told
    BY <1>1 DEF Told
  <2>. QED BY <1>0, <1>3, <2>1 DEF Sum
<1>7. answers' \in Seq(Answers) /\ lost' \in Lost
  BY <1>1, Typed, PoolCounts
<1>. QED BY <1>1, <1>2, <1>3, <1>4, <1>5, <1>6, <1>7, Stays, PoolSound

\* A child that ran is no longer among those that run.
LEMMA Stopped ==
  ASSUME Sound, Pooled, NEW j \in Agents, job[j] \in {"running", "deaf"},
         NEW w \in {"done", "failed", "cut"}, job' = [job EXCEPT ![j] = w]
  PROVE  /\ job' \in [Agents -> Places]
         /\ Cardinality(Waiting)' = Cardinality(Waiting)
         /\ Cardinality(Running)' = Cardinality(Running) - 1
         /\ Cardinality(Running) > 0
         /\ \A i \in Agents : job'[i] # "absent" => job[i] # "absent"
<1>1. /\ job' \in [Agents -> Places]
      /\ Cardinality(Waiting)' = Cardinality(Waiting)
      /\ Cardinality(Running)' = Cardinality(Running) - 1
      /\ Cardinality(Running) > 0
  <2>1. /\ w # job[j] /\ w \in Places
        /\ {"waiting"} \in SUBSET Places /\ {"running", "deaf"} \in SUBSET Places
    BY DEF Places
  <2>2. job \in [Agents -> Places]
    BY PoolCounts
  <2>3. /\ job' \in [Agents -> Places]
        /\ \A S \in SUBSET Places :
             /\ job[j] \in S => Cardinality(In(job, S)) > 0
             /\ Cardinality(In(job', S)) = Cardinality(In(job, S)) +
                  (IF w \in S THEN 1 ELSE 0) - (IF job[j] \in S THEN 1 ELSE 0)
    BY <2>1, <2>2, Moves
  <2>4. Cardinality(In(job', {"waiting"})) = Cardinality(In(job, {"waiting"})) + 0 - 0
    BY <2>1, <2>3
  <2>5. /\ Cardinality(In(job', {"running", "deaf"})) = Cardinality(In(job, {"running", "deaf"})) + 0 - 1
        /\ Cardinality(In(job, {"running", "deaf"})) > 0
    BY <2>1, <2>3
  <2>6. Cardinality(In(job, {"waiting"})) \in Nat /\ Cardinality(In(job, {"running", "deaf"})) \in Nat
    BY Some
  <2>. QED BY <2>3, <2>4, <2>5, <2>6 DEF Waiting, Running
<1>2. \A i \in Agents : job'[i] # "absent" => job[i] # "absent"
  BY PoolCounts
<1>. QED BY <1>1, <1>2

\* A child answers.
LEMMA EndSound ==
  ASSUME Sound, NEW j \in Agents, NEW a \in Answers, ChildEnds(j, a) PROVE Sound'
<1>1. /\ Pooled /\ KeepStage /\ lost' = lost
      /\ ctx' = Gone(ctx) /\ batch' = batch /\ job[j] \in {"running", "deaf"}
      /\ answers' = Append(answers, a)
  <2>1. job[j] \in {"running", "deaf"}
    BY DEF ChildEnds, Pool!End, Pool!Running
  <2>2. Pooled
    <3>1. j \in Running
      BY <2>1 DEF Running, In
    <3>. QED BY <3>1 DEF Sound, PoolKept
  <2>. QED BY <2>1, <2>2 DEF ChildEnds, Pool!End
<1>0. Figures /\ Sum
  BY <1>1, PoolFigures
<1>2. PICK w \in {"done", "failed", "cut"} : job' = [job EXCEPT ![j] = w]
  BY DEF ChildEnds, Pool!End
<1>3. /\ job' \in [Agents -> Places]
      /\ Cardinality(Waiting)' = Cardinality(Waiting)
      /\ Cardinality(Running)' = Cardinality(Running) - 1
      /\ Cardinality(Running) > 0
      /\ \A i \in Agents : job'[i] # "absent" => job[i] # "absent"
  BY <1>1, <1>2, Stopped
<1>4. answers' \in Seq(Answers) /\ Len(answers') = Len(answers) + 1
  BY <1>1, PoolCounts
<1>5. ctx.active > 0
  BY <1>0, <1>3 DEF Figures
<1>6. /\ ctx' \in Ctx /\ ctx'.spawned = ctx.spawned /\ ctx'.active = ctx.active - 1
      /\ ctx'.completed = ctx.completed + 1 /\ ctx'.results = ctx.results
      /\ ctx'.errors = ctx.errors
  BY <1>1, <1>5, Typed, Goes
<1>7. /\ ctx'.spawned + Cardinality(Waiting)' <= MaxTotalAgents
      /\ ctx'.spawned = ctx'.active + ctx'.completed
      /\ ctx'.active = Cardinality(Running)' + lost.refused + lost.unstarted
      /\ Cardinality(Running)' <= MaxConcurrent
  BY <1>0, <1>3, <1>6 DEF Figures
<1>8. ctx'.results + ctx'.errors + Told' = ctx'.completed
  <2>1. Told' = Told + 1
    <3>1. Len(answers) \in Nat /\ lost.cut \in Nat /\ lost' = lost
      BY <1>1, Typed, PoolCounts
    <3>. QED BY <1>4, <3>1 DEF Told
  <2>. QED BY <1>0, <1>6, <2>1 DEF Sum
<1>9. lost' \in Lost
  BY <1>1, Typed
<1>. QED BY <1>1, <1>3, <1>4, <1>6, <1>7, <1>8, <1>9, Stays, PoolSound

\* An agent that is lost before it has started, refused by its spawn callback or
\* cancelled in it, stays counted in.
LEMMA Unstarted ==
  ASSUME Sound, Pooled, KeepStage, UNCHANGED <<ctx, answers, batch>>, NEW j \in Agents,
         job[j] \in {"running", "deaf"}, NEW w \in {"failed", "cut"},
         job' = [job EXCEPT ![j] = w], lost' \in Lost, lost'.cut = lost.cut,
         lost'.refused + lost'.unstarted = lost.refused + lost.unstarted + 1
  PROVE  Sound'
<1>0. Figures /\ Sum
  BY PoolFigures
<1>1. /\ job' \in [Agents -> Places]
      /\ Cardinality(Waiting)' = Cardinality(Waiting)
      /\ Cardinality(Running)' = Cardinality(Running) - 1
      /\ \A i \in Agents : job'[i] # "absent" => job[i] # "absent"
  BY Stopped
<1>2. lost'.refused \in Nat /\ lost'.unstarted \in Nat /\ Told' = Told
  BY DEF Lost, Told
<1>3. /\ ctx'.spawned + Cardinality(Waiting)' <= MaxTotalAgents
      /\ ctx'.spawned = ctx'.active + ctx'.completed
      /\ ctx'.active = Cardinality(Running)' + lost'.refused + lost'.unstarted
      /\ Cardinality(Running)' <= MaxConcurrent
  BY <1>0, <1>1, <1>2 DEF Figures
<1>4. ctx'.results + ctx'.errors + Told' = ctx'.completed
  BY <1>0, <1>2 DEF Sum
<1>5. ctx' \in Ctx /\ answers' \in Seq(Answers) /\ ctx'.results = ctx.results
  BY Typed, PoolCounts
<1>. QED BY <1>1, <1>3, <1>4, <1>5, Stays, PoolSound

\* A child's spawn callback raises.
LEMMA ChildRefusedSound == ASSUME Sound, NEW j \in Agents, ChildRefused(j) PROVE Sound'
<1>1. /\ KeepStage /\ ctx' = ctx /\ answers' = answers
      /\ batch' = batch /\ job[j] \in {"running", "deaf"} /\ job' = [job EXCEPT ![j] = "failed"]
      /\ lost' = [lost EXCEPT !.refused = lost.refused + 1]
  BY DEF ChildRefused, Pool!End, Pool!Running
<1>2. Pooled
  <2>1. j \in Running
    BY <1>1 DEF Running, In
  <2>. QED BY <2>1 DEF Sound, PoolKept
<1>3. /\ lost' \in Lost /\ lost'.refused = lost.refused + 1 /\ lost'.cut = lost.cut
      /\ lost'.unstarted = lost.unstarted
  BY <1>1, Typed, Loses
<1>4. lost'.refused + lost'.unstarted = lost.refused + lost.unstarted + 1
  BY <1>3, Typed
<1>. QED BY <1>1, <1>2, <1>3, <1>4, Unstarted

\* The pool cuts a child off.
LEMMA CutSound == ASSUME Sound, NEW j \in Agents, ChildCut(j) PROVE Sound'
<1>1. /\ KeepStage /\ answers' = answers /\ Pooled
      /\ batch' = batch /\ job[j] = "running" /\ job' = [job EXCEPT ![j] = "cut"]
      /\ \/ ctx' = Gone(ctx) /\ lost' = [lost EXCEPT !.cut = lost.cut + 1]
         \/ lost' = [lost EXCEPT !.unstarted = lost.unstarted + 1] /\ ctx' = ctx
  BY DEF ChildCut, Pool!Cut, Pooled
<1>0. Figures /\ Sum
  BY <1>1, PoolFigures
<1>2. /\ job' \in [Agents -> Places]
      /\ Cardinality(Waiting)' = Cardinality(Waiting)
      /\ Cardinality(Running)' = Cardinality(Running) - 1
      /\ Cardinality(Running) > 0
      /\ \A i \in Agents : job'[i] # "absent" => job[i] # "absent"
  BY <1>1, Stopped
<1>3. CASE ctx' = Gone(ctx) /\ lost' = [lost EXCEPT !.cut = lost.cut + 1]
  <2>3. /\ lost' \in Lost /\ lost'.refused = lost.refused /\ lost'.cut = lost.cut + 1
        /\ lost'.unstarted = lost.unstarted
    BY <1>3, Typed, Loses
  <2>4. ctx.active > 0
    BY <1>0, <1>2 DEF Figures
  <2>5. /\ ctx' \in Ctx /\ ctx'.spawned = ctx.spawned /\ ctx'.active = ctx.active - 1
        /\ ctx'.completed = ctx.completed + 1 /\ ctx'.results = ctx.results
        /\ ctx'.errors = ctx.errors
    BY <1>3, <2>4, Typed, Goes
  <2>6. /\ ctx'.spawned + Cardinality(Waiting)' <= MaxTotalAgents
        /\ ctx'.spawned = ctx'.active + ctx'.completed
        /\ ctx'.active = Cardinality(Running)' + lost'.refused + lost'.unstarted
        /\ Cardinality(Running)' <= MaxConcurrent
    BY <1>0, <1>2, <2>3, <2>5 DEF Figures
  <2>7. ctx'.results + ctx'.errors + Told' = ctx'.completed
    <3>1. Told' = Told + 1
      <4>1. Len(answers) \in Nat /\ lost.cut \in Nat /\ answers' = answers
        BY <1>1, Typed, PoolCounts
      <4>. QED BY <2>3, <4>1 DEF Told
    <3>. QED BY <1>0, <2>5, <3>1 DEF Sum
  <2>8. answers' \in Seq(Answers)
    BY <1>1, PoolCounts
  <2>. QED BY <1>1, <1>2, <2>3, <2>5, <2>6, <2>7, <2>8, Stays, PoolSound
<1>4. CASE lost' = [lost EXCEPT !.unstarted = lost.unstarted + 1] /\ ctx' = ctx
  <2>1. /\ lost' \in Lost /\ lost'.refused = lost.refused /\ lost'.cut = lost.cut
        /\ lost'.unstarted = lost.unstarted + 1
    BY <1>4, Typed, Loses
  <2>2. lost'.refused + lost'.unstarted = lost.refused + lost.unstarted + 1
    BY <2>1, Typed
  <2>. QED BY <1>1, <1>4, <2>1, <2>2, Unstarted
<1>. QED BY <1>1, <1>3, <1>4

\* What the caller does to the pool touches no agent.
LEMMA StopsSound ==
  ASSUME Sound, Pooled, KeepBfs, KeepAgents, Running' = Running, Waiting' = Waiting,
         job' \in [Agents -> Places],
         \A j \in Agents : job'[j] # "absent" => job[j] # "absent",
         IF stage' = "cancelled" THEN batch' = "abandoned"
         ELSE stage' \in {"children", "aborting"} /\ batch' \in {"open", "closing"}
  PROVE  Sound'
<1>1. ctx' = ctx /\ answers' = answers /\ lost' = lost
  BY DEF KeepAgents
<1>2. Told' = Told
  BY <1>1 DEF Told
<1>3. ctx' \in Ctx /\ lost' \in Lost
  BY <1>1, Typed
<1>. QED BY <1>1, <1>2, <1>3, PoolCounts, PoolSound

\* The pool is stopped, or the caller cancelled, before or while it is.
LEMMA StopSteps ==
  ASSUME Sound, PoolStops \/ WaitCancelled \/ StopUnbegun \/ StopCancelled PROVE Sound'
<1>1. CASE PoolStops \/ WaitCancelled \/ StopUnbegun
  <2>1. /\ KeepBfs /\ KeepAgents /\ job' = job /\ Pooled
        /\ IF stage' = "cancelled" THEN batch' = "abandoned"
           ELSE stage' \in {"children", "aborting"} /\ batch' \in {"open", "closing"}
    BY <1>1 DEF PoolStops, WaitCancelled, StopUnbegun, KeepStage, Pool!Close, Pool!Abandon,
                Pooled
  <2>2. Waiting' = Waiting /\ Running' = Running
    BY <2>1 DEF Waiting, Running
  <2>. QED BY <2>1, <2>2, PoolCounts, StopsSound
<1>2. CASE StopCancelled
  <2>1. /\ KeepBfs /\ KeepAgents /\ Pooled /\ stage' = "aborting" /\ batch' = "closing"
        /\ job' = [j \in Agents |-> IF job[j] = "deaf" THEN "running" ELSE job[j]]
    BY <1>2 DEF StopCancelled, Pool!CancelAgain, Pooled
  <2>2. job \in [Agents -> Places]
    BY <2>1, PoolCounts
  <2>3. Waiting' = Waiting /\ Running' = Running
    BY <2>1 DEF Waiting, Running, In
  <2>4. job' \in [Agents -> Places] /\ \A j \in Agents : job'[j] # "absent" => job[j] # "absent"
    BY <2>1, <2>2 DEF Places
  <2>. QED BY <2>1, <2>3, <2>4, StopsSound
<1>. QED BY <1>1, <1>2

\* What a step has to establish that leaves nothing in the pool or on the stack.
LEMMA RestSound ==
  ASSUME Sound, config' = config, TypeOK', Stages', stack' = << >>, Repeated(ctx, conv)',
         stage' \notin {"root", "children", "aborting", "dfs"}, ~Pooled', Running' = {},
         mode = "dfs" => ctx'.depth = 0 /\ stage' # "returned",
         mode = "bfs" => ctx'.spawned <= MaxTotalAgents,
         mode = "dfs" => ctx'.spawned <= MaxTotalAgents + 1,
         ctx'.spawned = ctx'.active + ctx'.completed,
         stage' \in {"continue", "subtask"} => ctx'.active = lost'.refused + 1,
         stage' \in {"returned", "deciding", "subtasks", "error", "cancelled"} =>
           ctx'.active = lost'.refused + lost'.unstarted,
         lost'.unstarted # 0 => stage' = "cancelled" \/ mode = "bfs",
         mode = "bfs" /\ stage' = "returned" =>
           ctx'.results + ctx'.errors + lost'.cut = ctx'.completed,
         mode # "bfs" => lost'.cut = 0,
         mode = "policy" /\ stage' \notin {"error", "cancelled"} =>
           ctx'.results + ctx'.errors = ctx'.completed
  PROVE  Sound'
<1>0. mode' = mode /\ MaxTotalAgents' = MaxTotalAgents
  BY DEF mode, MaxTotalAgents
<1>1. Frames'
  BY DEF Frames, Nested
<1>2. DepthKept'
  BY <1>0 DEF DepthKept
<1>3. AgentsKept'
  BY <1>0 DEF AgentsKept
<1>4. InAndOut'
  BY DEF InAndOut, Alone, Resting
<1>5. AnswersKept'
  BY <1>0 DEF AnswersKept
<1>6. PoolKept'
  BY <1>0 DEF PoolKept
<1>. QED BY <1>1, <1>2, <1>3, <1>4, <1>5, <1>6 DEF Sound

\* The children that are run are so few that the number of agents holds, and
\* they are the root's.
LEMMA ChildrenBound ==
  ASSUME NEW c, c.spawned \in Nat, MaxTotalAgents \in Nat, c.spawned < MaxTotalAgents
  PROVE  LET K == ChildrenToRun(c)
         IN  /\ K \subseteq Agents /\ \A b \in K : Level[b] = 1
             /\ Cardinality(K) \in Nat /\ c.spawned + Cardinality(K) <= MaxTotalAgents
<1> DEFINE cap == IF MaxBreadth < MaxTotalAgents - c.spawned THEN MaxBreadth
                  ELSE MaxTotalAgents - c.spawned
           D == {n \in DOMAIN Children[Root] : n <= cap}
           K == ChildrenToRun(c)
           f == [i \in D |-> Children[Root][i]]
<1>1. MaxBreadth \in Nat /\ Root \in Agents /\ Level[Root] = 0
  BY DelegationAssumption
<1>2. cap \in Nat /\ cap <= MaxTotalAgents - c.spawned
  BY <1>1
<1>3. Children[Root] \in Seq(Agents \ {Root})
  BY <1>1, DelegationAssumption
<1>. HIDE DEF cap
<1>4. D \in SUBSET (1 .. cap)
  BY <1>2, <1>3
<1>5. IsFiniteSet(1 .. cap) /\ Cardinality(1 .. cap) <= cap
  <2>1. 1 \in Int /\ cap \in Int
    BY <1>2
  <2>2. IsFiniteSet(1 .. cap) /\ Cardinality(1 .. cap) = IF 1 > cap THEN 0 ELSE cap - 1 + 1
    BY <2>1, FS_Interval
  <2>. QED BY <1>2, <2>2
<1>6. IsFiniteSet(D) /\ Cardinality(D) <= Cardinality(1 .. cap)
  BY <1>4, <1>5, FS_Subset
<1>7. K = {Children[Root][i] : i \in D}
  BY DEF ChildrenToRun, cap
<1>8. f \in Surjection(D, K)
  <2>. HIDE DEF D, K
  <2>. QED BY <1>7 DEF Surjection
<1>9. IsFiniteSet(K) /\ Cardinality(K) <= Cardinality(D)
  <2>. HIDE DEF D, K, f
  <2>. QED BY <1>6, <1>8, FS_Surjection
<1>10. Cardinality(K) \in Nat /\ Cardinality(D) \in Nat /\ Cardinality(1 .. cap) \in Nat
  BY <1>5, <1>6, <1>9, FS_CardinalityType
<1>11. K \subseteq Agents /\ \A b \in K : Level[b] = 1
  <2>1. ASSUME NEW b \in K PROVE b \in Agents /\ Level[b] = 1
    <3>1. PICK i \in D : b = Children[Root][i]
      BY <1>7
    <3>2. i \in DOMAIN Children[Root]
      OBVIOUS
    <3>. QED BY <1>1, <3>1, <3>2, Kin
  <2>. QED BY <2>1
<1>. HIDE DEF K, D
<1>12. c.spawned + Cardinality(K) <= MaxTotalAgents
  <2>1. Cardinality(K) <= MaxTotalAgents - c.spawned
    BY <1>2, <1>5, <1>6, <1>9, <1>10
  <2>. QED BY <1>10, <2>1
<1>. QED BY <1>10, <1>11, <1>12 DEF K

\* The root answers.
LEMMA RootSound == ASSUME Sound, NEW a \in Answers, RootAnswers(a) PROVE Sound'
<1> DEFINE c == Recorded(Gone(ctx), a)
           t == Novelty(conv, a)
           stop == Boundary(c, t) \/ Children[Root] = << >> \/ c.depth + 1 >= MaxDepth
<1>1. /\ stage = "root" /\ conv' = t
      /\ config' = config /\ stack' = stack /\ answers' = answers /\ policy' = policy
      /\ timeUp' = timeUp /\ lost' = lost
      /\ IF stop THEN ctx' = c /\ stage' = "returned" /\ UNCHANGED <<job, batch>>
         ELSE /\ ctx' = [c EXCEPT !.depth = c.depth + 1]
              /\ stage' = "children"
              /\ job' = [b \in Agents |-> IF b \in ChildrenToRun(c) THEN "waiting"
                                          ELSE "absent"]
              /\ batch' = "open"
  BY DEF RootAnswers
<1>0. ~Pooled /\ Running = {} /\ lost.unstarted = 0
  BY <1>1 DEF Sound, PoolKept
<1>2. /\ mode = "bfs" /\ stack = << >> /\ ctx.depth = 0 /\ answers = << >>
      /\ ctx.active = lost.refused + 1 /\ ctx.spawned = ctx.active + ctx.completed
      /\ ctx.spawned <= MaxTotalAgents
  BY <1>1, Typed DEF Sound, Stages, Frames, DepthKept, AgentsKept, InAndOut, Alone,
                     AnswersKept, Final
<1>3. /\ ctx.active \in Nat /\ ctx.completed \in Nat /\ ctx.spawned \in Nat
      /\ ctx.results \in Nat /\ ctx.errors \in Nat
      /\ lost.refused \in Nat /\ lost.cut \in Nat /\ lost \in Lost /\ MaxTotalAgents \in Nat
  BY Typed
<1>4. ctx.results + ctx.errors + lost.cut = ctx.completed
  <2>1. Told = lost.cut
    BY <1>2, <1>3 DEF Told
  <2>. QED BY <1>1, <2>1 DEF Sound, AnswersKept
<1>5. /\ c \in Ctx /\ c.depth = 0 /\ c.spawned = ctx.spawned
      /\ c.active = ctx.active - 1 /\ c.completed = ctx.completed + 1
      /\ c.results + c.errors = ctx.results + ctx.errors + 1
      /\ c.spawned = c.active + c.completed
      /\ t \in Conv /\ Repeated(c, t)
  <2>1. ctx.active > 0
    BY <1>2, <1>3
  <2>. QED BY <1>2, <2>1, Answered
<1>. HIDE DEF c, t
<1>6. /\ c.active = lost.refused /\ c.spawned = c.active + c.completed
      /\ c.spawned <= MaxTotalAgents /\ c.spawned \in Nat
  <2>1. c.active = lost.refused
    BY <1>2, <1>3, <1>5
  <2>. QED BY <1>2, <1>3, <1>5, <2>1
<1>7. c.results + c.errors + lost.cut = c.completed
  <2>1. c.results + c.errors = (ctx.results + ctx.errors) + 1 /\ ctx.results + ctx.errors \in Nat
    BY <1>3, <1>5
  <2>. QED BY <1>3, <1>4, <1>5, <2>1
<1>8. /\ config' \in [mode : Modes, total : Totals] /\ stack' \in Seq(Frame)
      /\ answers' \in Seq(Answers) /\ policy' \in [iteration : Nat, depth : Nat, left : Nat]
      /\ timeUp' \in BOOLEAN /\ conv' \in Conv /\ lost' \in Lost
  BY <1>1, <1>5, Typed DEF Sound, TypeOK
<1>9. CASE stop
  <2>1. ctx' = c /\ stage' = "returned" /\ job' = job /\ batch' = batch
    BY <1>1, <1>9
  <2>2. TypeOK'
    BY <1>5, <1>8, <2>1 DEF Sound, TypeOK, Ctx, Conv, Lost, Final
  <2>3. Stages'
    BY <1>1, <1>2, <2>1 DEF Stages, Final, mode
  <2>4. Repeated(ctx, conv)'
    BY <1>1, <1>5, <2>1 DEF Repeated
  <2>5. ~Pooled' /\ Running' = {} /\ lost'.unstarted = 0
    BY <1>0, <1>1, <2>1 DEF Pooled, Running
  <2>6. c.active = lost.refused + 0
    BY <1>3, <1>6
  <2>. QED BY <1>1, <1>2, <1>6, <1>7, <2>1, <2>2, <2>3, <2>4, <2>5, <2>6, RestSound
<1>10. CASE ~stop
  <2> DEFINE K == ChildrenToRun(c)
  <2>1. /\ ctx' = [c EXCEPT !.depth = c.depth + 1] /\ stage' = "children" /\ batch' = "open"
        /\ job' = [b \in Agents |-> IF b \in K THEN "waiting" ELSE "absent"]
    BY <1>1, <1>10
  <2>2. c.spawned < MaxTotalAgents /\ 1 < MaxDepth
    <3>1. MaxDepth \in Nat
      BY DelegationAssumption
    <3>. QED BY <1>3, <1>5, <1>6, <1>10, <3>1 DEF Boundary
  <2>3. /\ K \subseteq Agents /\ \A b \in K : Level[b] = 1
        /\ Cardinality(K) \in Nat /\ c.spawned + Cardinality(K) <= MaxTotalAgents
    BY <1>3, <1>6, <2>2, ChildrenBound
  <2>. HIDE DEF K
  <2>4. /\ ctx' \in Ctx /\ ctx'.spawned = c.spawned /\ ctx'.active = c.active
        /\ ctx'.completed = c.completed /\ ctx'.results = c.results /\ ctx'.errors = c.errors
    BY <1>5, <2>1 DEF Ctx
  <2>5. Waiting' = K /\ Running' = {}
    BY <2>1, <2>3 DEF Waiting, Running, In
  <2>6. job' \in [Agents -> Places]
    BY <2>1 DEF Places
  <2>7. TypeOK'
    BY <1>8, <2>1, <2>4, <2>6 DEF TypeOK, Ctx, Conv, Lost, Places
  <2>8. mode' = mode /\ MaxTotalAgents' = MaxTotalAgents /\ stack' = << >>
    BY <1>1, <1>2 DEF mode, MaxTotalAgents
  <2>9. Stages'
    BY <1>2, <2>1, <2>8 DEF Stages
  <2>10. Frames'
    BY <2>1, <2>8 DEF Frames, Nested
  <2>11. Repeated(ctx, conv)'
    BY <1>1, <1>5, <2>4 DEF Repeated
  <2>12. DepthKept'
    BY <1>2, <2>1, <2>2, <2>3, <2>8 DEF DepthKept, Final
  <2>13. AgentsKept'
    BY <1>2, <1>6, <2>1, <2>3, <2>4, <2>5, <2>8 DEF AgentsKept
  <2>14. InAndOut'
    <3>1. Cardinality(Running)' = 0 /\ MaxConcurrent \in Nat
      BY <2>5, FS_EmptySet, DelegationAssumption
    <3>2. lost'.unstarted = 0 /\ lost'.refused = lost.refused
      BY <1>0, <1>1
    <3>. QED BY <1>3, <1>6, <2>1, <2>4, <3>1, <3>2 DEF InAndOut, Alone, Resting
  <2>16. PoolKept'
    BY <1>0, <1>1, <1>2, <2>1, <2>8 DEF PoolKept, Pooled
  <2>15. AnswersKept'
    <3>1. Told' = lost.cut
      BY <1>1, <1>2, <1>3 DEF Told
    <3>. QED BY <1>2, <1>7, <2>1, <2>4, <2>8, <3>1 DEF AnswersKept
  <2>. QED BY <2>7, <2>9, <2>10, <2>11, <2>12, <2>13, <2>14, <2>15, <2>16 DEF Sound
<1>. QED BY <1>9, <1>10

\* The answers of the pool are gone through when nothing of it runs any more.
LEMMA CollectSound == ASSUME Sound, Collect PROVE Sound'
<1>1. /\ stage = "children" /\ Pooled /\ Running = {} /\ batch' = "closed" /\ job' = job
      /\ ctx' = Collected.ctx /\ conv' = Collected.conv /\ stage' = "returned"
      /\ config' = config /\ stack' = stack /\ answers' = answers /\ policy' = policy
      /\ timeUp' = timeUp /\ lost' = lost
  <2>1. Pool!RunningJobs = Running
    BY Countable
  <2>. QED BY <2>1 DEF Collect, Pool!Closed, Pooled
<1>2. /\ mode = "bfs" /\ Repeated(ctx, conv) /\ answers \in Seq(Answers)
      /\ ctx \in Ctx /\ conv \in Conv /\ lost \in Lost
  BY <1>1, PoolCounts, Typed
<1>3. Figures /\ Sum
  BY <1>1, PoolFigures
<1>4. stack = << >>
  BY <1>1 DEF Sound, Frames
<1>5. /\ ctx' \in Ctx /\ conv' \in Conv
      /\ Repeated(Collected.ctx, Collected.conv)
      /\ ctx'.spawned = ctx.spawned /\ ctx'.active = ctx.active
      /\ ctx'.completed = ctx.completed
      /\ ctx'.results + ctx'.errors = ctx.results + ctx.errors + Len(answers)
  BY <1>1, <1>2, CollectedCounts
<1>6. Repeated(ctx, conv)'
  BY <1>1, <1>5 DEF Repeated
<1>7. TypeOK'
  BY <1>1, <1>2, <1>5 DEF Sound, TypeOK, Ctx, Conv, Lost, Final
<1>8. Stages'
  BY <1>1, <1>2 DEF Stages, Final, mode
<1>9. ctx.active = lost.refused + lost.unstarted
  <2>1. Cardinality(Running) = 0
    BY <1>1, FS_EmptySet
  <2>. QED BY <1>3, <2>1 DEF Figures
<1>10. ctx'.results + ctx'.errors + lost'.cut = ctx'.completed
  <2>1. Len(answers) \in Nat /\ lost.cut \in Nat /\ Told = Len(answers) + lost.cut
    BY <1>2, Typed DEF Told
  <2>2. ctx.results + ctx.errors \in Nat /\ (ctx.results + ctx.errors) + Told = ctx.completed
    BY <1>3 DEF Sum
  <2>3. ctx'.results + ctx'.errors = (ctx.results + ctx.errors) + Len(answers)
    BY <1>5
  <2> DEFINE both == ctx.results + ctx.errors
             n == Len(answers)
             x == lost.cut
  <2>4. (both + n) + x = ctx.completed
    <3>1. both \in Nat /\ n \in Nat /\ x \in Nat /\ both + (n + x) = ctx.completed
      BY <2>1, <2>2
    <3>. HIDE DEF both, n, x
    <3>. QED BY <3>1
  <2>. QED BY <1>1, <1>5, <2>3, <2>4
<1>11. ctx'.spawned <= MaxTotalAgents /\ ctx'.spawned = ctx'.active + ctx'.completed
  BY <1>3, <1>5 DEF Figures
<1>12. ~Pooled' /\ Running' = {}
  BY <1>1 DEF Pooled, Running
<1>. QED BY <1>1, <1>2, <1>4, <1>5, <1>6, <1>7, <1>8, <1>9, <1>10, <1>11, <1>12, RestSound

\* The caller was cancelled, and the pool has stopped.
LEMMA AbortsSound == ASSUME Sound, Aborts PROVE Sound'
<1>1. /\ stage = "aborting" /\ Pooled /\ Running = {} /\ batch' = "closed" /\ job' = job
      /\ stage' = "cancelled" /\ ctx' = ctx /\ answers' = answers /\ lost' = lost
      /\ config' = config /\ stack' = stack /\ conv' = conv /\ policy' = policy
      /\ timeUp' = timeUp
  <2>1. Pool!RunningJobs = Running
    BY Countable
  <2>. QED BY <2>1 DEF Aborts, Pool!Closed, Pooled, KeepAgents, KeepBfs
<1>2. mode = "bfs" /\ mode' = "bfs" /\ stack = << >> /\ Figures
  BY <1>1, PoolCounts, PoolFigures DEF mode
<1>3. TypeOK'
  BY <1>1 DEF Sound, TypeOK, Final
<1>4. Stages' /\ Repeated(ctx, conv)'
  BY <1>1, <1>2 DEF Sound, Stages, Repeated, Final
<1>5. ctx.active = lost.refused + lost.unstarted
  <2>1. Cardinality(Running) = 0
    BY <1>1, FS_EmptySet
  <2>. QED BY <1>2, <2>1 DEF Figures
<1>6. ctx.spawned <= MaxTotalAgents /\ ctx.spawned = ctx.active + ctx.completed
  BY <1>2 DEF Figures
<1>7. ~Pooled' /\ Running' = {}
  BY <1>1 DEF Pooled, Running
<1>. QED BY <1>1, <1>2, <1>3, <1>4, <1>5, <1>6, <1>7, RestSound

-----------------------------------------------------------------------------
(* The steps of delegate_with_policy, and the ways out. *)

\* What sound says of the policy's loop.
LEMMA PolicyCounts ==
  ASSUME Sound, stage \in {"deciding", "continue", "subtasks", "subtask"}
  PROVE  /\ mode = "policy" /\ stack = << >> /\ lost.cut = 0 /\ Repeated(ctx, conv)
         /\ ~Pooled /\ Running = {} /\ lost.unstarted = 0
         /\ ctx.spawned = ctx.active + ctx.completed
         /\ ctx.results + ctx.errors = ctx.completed
         /\ ctx.active = lost.refused
              + (IF stage \in {"continue", "subtask"} THEN 1 ELSE 0)
         /\ ctx.active \in Nat /\ ctx.completed \in Nat /\ lost.refused \in Nat
<1>1. mode = "policy" /\ stack = << >>
  BY Typed DEF Sound, Stages, Frames, Final
<1>2. lost.cut = 0 /\ ctx.results + ctx.errors = ctx.completed
  BY <1>1 DEF Sound, AnswersKept
<1>6. ~Pooled /\ Running = {} /\ lost.unstarted = 0
  BY <1>1 DEF Sound, PoolKept
<1>3. /\ ctx.spawned = ctx.active + ctx.completed
      /\ stage \in {"continue", "subtask"} => ctx.active = lost.refused + 1
      /\ stage \in {"deciding", "subtasks"} => ctx.active = lost.refused
  BY <1>6, Typed DEF Sound, InAndOut, Alone, Resting
<1>4. ctx.active \in Nat /\ ctx.completed \in Nat /\ lost.refused \in Nat
  BY Typed
<1>5. ctx.active = lost.refused + (IF stage \in {"continue", "subtask"} THEN 1 ELSE 0)
  BY <1>3, <1>4
<1>. QED BY <1>1, <1>2, <1>3, <1>4, <1>5, <1>6 DEF Sound

\* What a step of the policy's loop has to establish.
LEMMA PolicySound ==
  ASSUME Sound, stage \in {"deciding", "continue", "subtasks", "subtask"}, KeepPolicy,
         UNCHANGED lost,
         stage' \in {"deciding", "continue", "subtasks", "subtask", "returned", "error"},
         policy' \in [iteration : Nat, depth : Nat, left : Nat],
         ctx' \in Ctx, Repeated(ctx, conv)',
         ctx'.spawned = ctx'.active + ctx'.completed,
         stage' \in {"continue", "subtask"} => ctx'.active = lost.refused + 1,
         stage' \in {"deciding", "subtasks", "returned", "error"} => ctx'.active = lost.refused,
         ctx'.results + ctx'.errors = ctx'.completed
  PROVE  Sound'
<1>1. /\ mode = "policy" /\ stack = << >> /\ lost.cut = 0 /\ lost.unstarted = 0
      /\ ~Pooled /\ Running = {} /\ lost.refused \in Nat
  BY PolicyCounts
<1>2. /\ config' = config /\ stack' = << >> /\ lost' = lost /\ mode' = mode
  BY <1>1 DEF KeepPolicy, mode
<1>3. TypeOK'
  BY DEF KeepPolicy, Sound, TypeOK, Ctx, Final
<1>4. Stages'
  BY <1>1, <1>2 DEF Stages, Final
<1>5. stage' \notin {"root", "children", "aborting", "dfs"}
  OBVIOUS
<1>6. ~Pooled' /\ Running' = {}
  BY <1>1 DEF KeepPolicy, Pooled, Running
<1>7. lost.refused = lost.refused + lost.unstarted
  BY <1>1
<1>. QED BY <1>1, <1>2, <1>3, <1>4, <1>5, <1>6, <1>7, RestSound

\* The policy's counters stay numbers.
LEMMA PolicyTyped ==
  ASSUME NEW p \in [iteration : Nat, depth : Nat, left : Nat], NEW n \in Nat
  PROVE  /\ [p EXCEPT !.iteration = p.iteration + 1] \in [iteration : Nat, depth : Nat, left : Nat]
         /\ [p EXCEPT !.depth = p.depth + 1] \in [iteration : Nat, depth : Nat, left : Nat]
         /\ [p EXCEPT !.left = n] \in [iteration : Nat, depth : Nat, left : Nat]
         /\ p.left > 0 => p.left - 1 \in Nat
         /\ p.left \in Nat
OBVIOUS

\* The end of a turn.
LEMMA Turns ==
  ASSUME NEW p \in [iteration : Nat, depth : Nat, left : Nat], Turn(p)
  PROVE  /\ policy' \in [iteration : Nat, depth : Nat, left : Nat]
         /\ stage' \in {"returned", "deciding"}
BY PolicyTyped DEF Turn

\* The policy decides.
LEMMA DecidesSound == ASSUME Sound, Decides PROVE Sound'
<1>1. stage = "deciding" /\ UNCHANGED lost /\ KeepPolicy
  BY DEF Decides
<1>2. policy \in [iteration : Nat, depth : Nat, left : Nat] /\ ctx \in Ctx
  BY Typed DEF Sound, TypeOK
<1>3. /\ ctx.spawned = ctx.active + ctx.completed /\ ctx.active = lost.refused + 0
      /\ ctx.results + ctx.errors = ctx.completed /\ Repeated(ctx, conv)
      /\ ctx.active \in Nat /\ ctx.completed \in Nat /\ lost.refused \in Nat
  BY <1>1, PolicyCounts
<1>4. conv' = conv
  BY <1>1 DEF KeepPolicy
<1>5. CASE stage' = "continue" /\ ctx' = Spawned(ctx) /\ UNCHANGED policy
  <2>1. /\ ctx' \in Ctx /\ ctx'.spawned = ctx.spawned + 1 /\ ctx'.active = ctx.active + 1
        /\ ctx'.completed = ctx.completed /\ ctx'.results = ctx.results
        /\ ctx'.errors = ctx.errors
    BY <1>2, <1>5, Spawns
  <2>2. Repeated(ctx, conv)'
    BY <1>3, <1>4, <2>1 DEF Repeated
  <2>3. ctx'.spawned = ctx'.active + ctx'.completed /\ ctx'.active = lost.refused + 1
    BY <1>3, <2>1
  <2>4. ctx'.results + ctx'.errors = ctx'.completed
    BY <1>3, <2>1
  <2>. QED BY <1>1, <1>2, <1>5, <2>1, <2>2, <2>3, <2>4, PolicySound
<1>6. CASE /\ ctx' = ctx /\ stage' \in {"returned", "error", "deciding", "subtasks"}
           /\ policy' \in [iteration : Nat, depth : Nat, left : Nat]
  <2>1. Repeated(ctx, conv)'
    BY <1>3, <1>4, <1>6 DEF Repeated
  <2>2. /\ ctx' \in Ctx /\ ctx'.spawned = ctx'.active + ctx'.completed
        /\ ctx'.active = lost.refused /\ ctx'.results + ctx'.errors = ctx'.completed
    BY <1>2, <1>3, <1>6
  <2>. QED BY <1>1, <1>6, <2>1, <2>2, PolicySound
<1>7. ASSUME Turn(policy), UNCHANGED ctx PROVE Sound'
  <2>1. /\ policy' \in [iteration : Nat, depth : Nat, left : Nat]
        /\ stage' \in {"returned", "deciding"}
    BY <1>2, <1>7, Turns
  <2>. QED BY <1>6, <1>7, <2>1
<1>8. ASSUME NEW n \in Subtasks, stage' = "subtasks",
             policy' = [policy EXCEPT !.left = n], UNCHANGED ctx
      PROVE  Sound'
  <2>1. n \in Nat
    BY DelegationAssumption
  <2>2. policy' \in [iteration : Nat, depth : Nat, left : Nat]
    BY <1>2, <1>8, <2>1, PolicyTyped
  <2>. QED BY <1>6, <1>8, <2>2
<1>. QED BY <1>2, <1>5, <1>6, <1>7, <1>8 DEF Decides

\* The loop over the subtasks.
LEMMA SubtaskSound == ASSUME Sound, NextSubtask PROVE Sound'
<1>1. stage = "subtasks" /\ UNCHANGED lost /\ KeepPolicy
  BY DEF NextSubtask
<1>2. policy \in [iteration : Nat, depth : Nat, left : Nat] /\ ctx \in Ctx
  BY Typed DEF Sound, TypeOK
<1>3. /\ ctx.spawned = ctx.active + ctx.completed /\ ctx.active = lost.refused + 0
      /\ ctx.results + ctx.errors = ctx.completed /\ Repeated(ctx, conv)
      /\ ctx.active \in Nat /\ ctx.completed \in Nat /\ lost.refused \in Nat
  BY <1>1, PolicyCounts
<1>4. conv' = conv
  BY <1>1 DEF KeepPolicy
<1>5. CASE policy.left = 0 \/ policy.depth >= MaxDepth
  <2> DEFINE q == [policy EXCEPT !.depth = policy.depth + 1]
             p == [q EXCEPT !.left = 0]
  <2>1. Turn(p) /\ ctx' = ctx
    <3>1. p = [policy EXCEPT !.depth = @ + 1, !.left = 0]
      OBVIOUS
    <3>. QED BY <1>5, <3>1 DEF NextSubtask
  <2>2. p \in [iteration : Nat, depth : Nat, left : Nat]
    <3>1. q \in [iteration : Nat, depth : Nat, left : Nat]
      BY <1>2, PolicyTyped
    <3>. HIDE DEF q
    <3>. QED BY <3>1, PolicyTyped
  <2>. HIDE DEF p
  <2>3. /\ policy' \in [iteration : Nat, depth : Nat, left : Nat]
        /\ stage' \in {"returned", "deciding"}
    BY <2>1, <2>2, Turns
  <2>4. Repeated(ctx, conv)'
    BY <1>3, <1>4, <2>1 DEF Repeated
  <2>5. /\ ctx' \in Ctx /\ ctx'.spawned = ctx'.active + ctx'.completed
        /\ ctx'.active = lost.refused /\ ctx'.results + ctx'.errors = ctx'.completed
    BY <1>2, <1>3, <2>1
  <2>. QED BY <1>1, <2>3, <2>4, <2>5, PolicySound
<1>6. CASE ~(policy.left = 0 \/ policy.depth >= MaxDepth)
  <2>1. /\ stage' = "subtask" /\ policy' = [policy EXCEPT !.left = policy.left - 1]
        /\ ctx' = Spawned(ctx)
    BY <1>6 DEF NextSubtask
  <2>2. policy.left \in Nat
    BY <1>2
  <2>3. policy.left - 1 \in Nat
    BY <1>6, <2>2
  <2>4. policy' \in [iteration : Nat, depth : Nat, left : Nat]
    BY <1>2, <2>1, <2>3, PolicyTyped
  <2>5. /\ ctx' \in Ctx /\ ctx'.spawned = ctx.spawned + 1 /\ ctx'.active = ctx.active + 1
        /\ ctx'.completed = ctx.completed /\ ctx'.results = ctx.results
        /\ ctx'.errors = ctx.errors
    BY <1>2, <2>1, Spawns
  <2>6. Repeated(ctx, conv)'
    BY <1>3, <1>4, <2>5 DEF Repeated
  <2>7. ctx'.spawned = ctx'.active + ctx'.completed /\ ctx'.active = lost.refused + 1
    BY <1>3, <2>5
  <2>8. ctx'.results + ctx'.errors = ctx'.completed
    BY <1>3, <2>5
  <2>. QED BY <1>1, <2>1, <2>4, <2>5, <2>6, <2>7, <2>8, PolicySound
<1>. QED BY <1>5, <1>6

\* The agent itself or a subtask's answers.
LEMMA PolicyAnswersSound ==
  ASSUME Sound, NEW a \in Answers, PolicyAnswers(a) PROVE Sound'
<1> DEFINE c == Recorded(Gone(ctx), a)
<1>1. /\ stage \in {"continue", "subtask"} /\ UNCHANGED lost /\ KeepPolicy
      /\ ctx' = c
      /\ IF stage = "continue" THEN Turn(policy) ELSE stage' = "subtasks" /\ UNCHANGED policy
  BY DEF PolicyAnswers
<1>2. policy \in [iteration : Nat, depth : Nat, left : Nat] /\ ctx \in Ctx
      /\ ctx.results \in Nat /\ ctx.errors \in Nat /\ ctx.spawned \in Nat
  BY Typed DEF Sound, TypeOK
<1>3. /\ ctx.spawned = ctx.active + ctx.completed /\ ctx.active = lost.refused + 1
      /\ ctx.results + ctx.errors = ctx.completed /\ Repeated(ctx, conv)
      /\ ctx.active \in Nat /\ ctx.completed \in Nat /\ lost.refused \in Nat
      /\ ctx.active > 0
  BY <1>1, PolicyCounts
<1>4. conv' = conv /\ conv \in Conv
  BY <1>1, Typed DEF KeepPolicy
<1>5. Gone(ctx) \in Ctx /\ Gone(ctx).results = ctx.results
  BY <1>2, <1>3, Goes
<1>6. /\ c \in Ctx /\ c.spawned = ctx.spawned
      /\ c.active = ctx.active - 1 /\ c.completed = ctx.completed + 1
      /\ c.results + c.errors = ctx.results + ctx.errors + 1
  BY <1>3, Answered
<1>7. c.results >= ctx.results /\ c.results \in Nat
  BY <1>2, <1>5, Records
<1>. HIDE DEF c
<1>8. Repeated(ctx, conv)'
  <2>1. conv.stagnation \in Nat
    BY <1>4 DEF Conv
  <2>2. Repeated(c, conv)
    BY <1>2, <1>3, <1>7, <2>1 DEF Repeated
  <2>. QED BY <1>1, <1>4, <2>2 DEF Repeated
<1>9. /\ policy' \in [iteration : Nat, depth : Nat, left : Nat]
      /\ stage' \in {"returned", "deciding", "subtasks"}
  BY <1>1, <1>2, Turns
<1>10. /\ ctx' \in Ctx /\ ctx'.spawned = ctx'.active + ctx'.completed
       /\ ctx'.active = lost.refused /\ ctx'.results + ctx'.errors = ctx'.completed
  <2>1. c.active = lost.refused /\ c.spawned = c.active + c.completed
    BY <1>2, <1>3, <1>6
  <2>2. c.results + c.errors = c.completed
    BY <1>2, <1>3, <1>6
  <2>. QED BY <1>1, <1>6, <2>1, <2>2
<1>. QED BY <1>1, <1>8, <1>9, <1>10, PolicySound

\* The spawn callback raises with nothing to catch it.
LEMMA RaisesSound == ASSUME Sound, SpawnRaises PROVE Sound'
<1>1. /\ stage \in {"root", "continue", "subtask"} /\ stage' = "error"
      /\ lost' = [lost EXCEPT !.refused = lost.refused + 1]
      /\ config' = config /\ stack' = stack /\ ctx' = ctx /\ conv' = conv /\ job' = job
      /\ batch' = batch /\ answers' = answers /\ policy' = policy /\ timeUp' = timeUp
  BY DEF SpawnRaises
<1>2. /\ lost' \in Lost /\ lost'.cut = lost.cut /\ lost'.unstarted = lost.unstarted
      /\ lost'.refused = lost.refused + 1
  BY <1>1, Typed, Loses
<1>3. mode' = mode /\ stack = << >> /\ mode \in {"bfs", "policy"}
  BY <1>1, Typed DEF mode, Sound, Frames, Stages, Final
<1>4. TypeOK'
  BY <1>1, <1>2 DEF Sound, TypeOK, Lost, Final
<1>5. Stages'
  BY <1>1, <1>3 DEF Stages, Final
<1>6. Repeated(ctx, conv)'
  BY <1>1 DEF Sound, Repeated
<1>7. /\ mode = "bfs" => ctx.spawned <= MaxTotalAgents
      /\ ctx.spawned = ctx.active + ctx.completed
      /\ mode # "bfs" => lost.cut = 0
  BY DEF Sound, AgentsKept, InAndOut, AnswersKept
<1>8. /\ lost.unstarted = 0 /\ lost.refused \in Nat /\ ctx.active = lost.refused + 1
      /\ ~Pooled /\ Running = {}
  BY <1>1, Typed DEF Sound, PoolKept, Stages, Final, InAndOut, Alone
<1>9. ~Pooled' /\ Running' = {} /\ ctx'.active = lost'.refused + lost'.unstarted
  BY <1>1, <1>2, <1>8 DEF Pooled, Running
<1>. QED BY <1>1, <1>2, <1>3, <1>4, <1>5, <1>6, <1>7, <1>8, <1>9, RestSound

\* The levels that a cancelled traversal counts out are those it counted in.
LEMMA LevelsIn ==
  ASSUME Sound, Alone
  PROVE  ctx.depth - Cardinality({i \in DOMAIN stack : stack[i].at # "self"})
           = IF stage = "dfs" THEN 0 ELSE ctx.depth
<1> DEFINE I == {i \in DOMAIN stack : stack[i].at # "self"}
<1>0. ctx.depth \in Nat
  BY Typed
<1>1. CASE stage = "dfs"
  <2>1. /\ stack \in Seq(Frame) /\ stack # << >> /\ Len(stack) \in Nat /\ Len(stack) > 0
        /\ Top = stack[Len(stack)] /\ Top.at \in {"self", "child"}
    BY <1>1, Typed, Tops DEF Alone
  <2>2. \A i \in 1 .. Len(stack) - 1 : stack[i].at = "after"
    <3>1. Nested(stack)
      BY DEF Sound, Frames
    <3>. QED BY <2>1, <3>1 DEF Nested
  <2>3. I = 1 .. ctx.depth
    <3>1. ctx.depth = IF Top.at = "self" THEN Len(stack) - 1 ELSE Len(stack)
      BY <1>1, DfsCounts
    <3>2. DOMAIN stack = 1 .. Len(stack)
      BY <2>1
    <3>3. CASE Top.at = "self"
      BY <2>1, <2>2, <3>1, <3>2, <3>3
    <3>4. CASE Top.at = "child"
      BY <2>1, <2>2, <3>1, <3>2, <3>4
    <3>. QED BY <2>1, <3>3, <3>4
  <2>4. 1 \in Int /\ ctx.depth \in Int
    BY <1>0
  <2>5. Cardinality(1 .. ctx.depth) = IF 1 > ctx.depth THEN 0 ELSE ctx.depth - 1 + 1
    BY <2>4, FS_Interval
  <2>6. Cardinality(I) = ctx.depth
    <3>. HIDE DEF I
    <3>1. Cardinality(1 .. ctx.depth) = ctx.depth
      BY <1>0, <2>5
    <3>. QED BY <2>3, <3>1
  <2>. QED BY <1>0, <1>1, <2>6
<1>2. CASE stage # "dfs"
  <2>1. stack = << >>
    BY <1>2 DEF Sound, Frames
  <2>2. I = {}
    BY <2>1
  <2>3. Cardinality(I) = 0
    BY <2>2, FS_EmptySet
  <2>. QED BY <1>0, <1>2, <2>3
<1>. QED BY <1>1, <1>2

\* The caller is cancelled.
LEMMA CancelledSound == ASSUME Sound, Cancelled PROVE Sound'
<1> DEFINE n == ctx.depth - Cardinality({i \in DOMAIN stack : stack[i].at # "self"})
<1>1. Alone /\ stage' = "cancelled" /\ stack' = << >>
      /\ config' = config /\ conv' = conv /\ job' = job
      /\ batch' = batch /\ answers' = answers /\ policy' = policy /\ timeUp' = timeUp
  BY DEF Cancelled, Alone
<1>2. /\ ctx.active > 0 /\ ctx.spawned = ctx.active + ctx.completed /\ ctx.active \in Nat
      /\ ctx.completed \in Nat /\ ctx.spawned \in Nat /\ ctx \in Ctx
      /\ ctx.active = lost.refused + 1 /\ lost.refused \in Nat /\ lost \in Lost
  BY <1>1, Typed DEF Sound, InAndOut
<1>3. /\ Gone(ctx) \in Ctx /\ Gone(ctx).active = ctx.active - 1
      /\ Gone(ctx).completed = ctx.completed + 1
      /\ Gone(ctx).depth = ctx.depth /\ Gone(ctx).spawned = ctx.spawned
      /\ Gone(ctx).results = ctx.results /\ Gone(ctx).errors = ctx.errors
  BY <1>2, Goes
<1>4. n \in Nat /\ (stage = "dfs" => n = 0)
  BY <1>1, Typed, LevelsIn
<1>0. ~Pooled /\ Running = {} /\ lost.unstarted = 0
  <2>1. stage \in {"root", "continue", "subtask", "dfs"} /\ (mode = "bfs" => stage = "root")
    BY <1>1 DEF Sound, Stages, Alone, Final
  <2>. QED BY <2>1 DEF Sound, PoolKept
<1>5. PICK c \in {Gone(ctx), ctx} :
         /\ ctx' = [c EXCEPT !.depth = n]
         /\ lost' = IF c = ctx THEN [lost EXCEPT !.unstarted = lost.unstarted + 1] ELSE lost
  <2>1. PICK c \in {Gone(ctx), ctx} :
         /\ ctx' = [c EXCEPT !.depth =
                      c.depth - Cardinality({i \in DOMAIN stack : stack[i].at # "self"})]
         /\ lost' = IF c = ctx THEN [lost EXCEPT !.unstarted = lost.unstarted + 1] ELSE lost
    BY DEF Cancelled
  <2>2. c.depth = ctx.depth
    BY <1>3
  <2>. QED BY <2>1, <2>2
<1>. HIDE DEF n
<1>6. /\ ctx' \in Ctx /\ ctx'.depth = n /\ ctx'.active = c.active
      /\ ctx'.completed = c.completed /\ ctx'.spawned = c.spawned
      /\ ctx'.results = c.results
  BY <1>2, <1>3, <1>4, <1>5 DEF Ctx
<1>7. mode' = mode /\ (mode = "dfs" => stage = "dfs")
  <2>1. mode = "dfs" => stage = "dfs"
    BY <1>1 DEF Sound, Stages, Alone, Final
  <2>. QED BY <1>1, <2>1 DEF mode
<1>13. /\ lost' \in Lost /\ lost'.cut = lost.cut
       /\ c.spawned = ctx.spawned /\ c.spawned = c.active + c.completed
       /\ c.active = lost'.refused + lost'.unstarted
       /\ c.results = ctx.results
  <2>1. CASE c = ctx
    <3>1. /\ lost' \in Lost /\ lost'.refused = lost.refused /\ lost'.cut = lost.cut
          /\ lost'.unstarted = lost.unstarted + 1
      BY <1>2, <1>5, <2>1, Loses
    <3>. QED BY <1>0, <1>2, <2>1, <3>1
  <2>2. CASE c # ctx
    <3>1. c = Gone(ctx) /\ lost' = lost
      BY <1>5, <2>2
    <3>. QED BY <1>0, <1>2, <1>3, <3>1
  <2>. QED BY <2>1, <2>2
<1>8. TypeOK'
  BY <1>1, <1>6, <1>13 DEF Sound, TypeOK, Ctx, Lost, Final
<1>9. Stages'
  BY <1>1, <1>7 DEF Stages, Final
<1>10. Repeated(ctx, conv)'
  BY <1>1, <1>6, <1>13 DEF Sound, Repeated
<1>11. /\ mode = "bfs" => ctx'.spawned <= MaxTotalAgents
       /\ mode = "dfs" => ctx'.spawned <= MaxTotalAgents + 1
       /\ ctx'.spawned = ctx'.active + ctx'.completed
       /\ mode # "bfs" => lost'.cut = 0
  <2>1. /\ mode = "bfs" => ctx.spawned <= MaxTotalAgents
        /\ mode = "dfs" => ctx.spawned <= MaxTotalAgents + 1
        /\ mode # "bfs" => lost.cut = 0
    BY DEF Sound, AgentsKept, AnswersKept
  <2>. QED BY <1>6, <1>13, <2>1
<1>12. mode = "dfs" => ctx'.depth = 0
  BY <1>4, <1>6, <1>7
<1>14. ~Pooled' /\ Running' = {} /\ ctx'.active = lost'.refused + lost'.unstarted
  BY <1>0, <1>1, <1>6, <1>13 DEF Pooled, Running
<1>. QED BY <1>1, <1>8, <1>9, <1>10, <1>11, <1>12, <1>14, RestSound

\* The time passes, or nothing happens.
LEMMA QuietSound ==
  ASSUME Sound, timeUp' \in BOOLEAN,
         UNCHANGED <<config, stage, stack, ctx, conv, job, batch, answers, policy, lost>>
  PROVE  Sound'
<1>1. TypeOK'
  BY DEF Sound, TypeOK
<1>2. Stages' /\ Frames' /\ Repeated(ctx, conv)'
  BY DEF Sound, Stages, Frames, Repeated, mode
<1>3. DepthKept'
  BY DEF Sound, DepthKept, mode, Top, Pooled
<1>4. AgentsKept'
  BY DEF Sound, AgentsKept, mode, MaxTotalAgents, Top, Waiting, Pooled
<1>5. InAndOut'
  BY DEF Sound, InAndOut, Alone, Resting, Running, Top, Pooled
<1>6. AnswersKept'
  BY DEF Sound, AnswersKept, mode, Told, Pooled
<1>7. PoolKept'
  BY DEF Sound, PoolKept, mode, Running, Pooled
<1>. QED BY <1>1, <1>2, <1>3, <1>4, <1>5, <1>6, <1>7 DEF Sound

\* Every step keeps the invariant.
LEMMA NextSteps == ASSUME Sound, [Next]_vars PROVE Sound'
<1>1. ASSUME NEW a \in Answers, RootAnswers(a) PROVE Sound'
  BY <1>1, RootSound
<1>2. ASSUME NEW a \in Answers, SelfAnswers(a) PROVE Sound'
  BY <1>2, SelfSound
<1>3. ASSUME NEW a \in Answers, ChildAnswers(a) PROVE Sound'
  BY <1>3, ChildSound
<1>4. ASSUME NEW a \in Answers, PolicyAnswers(a) PROVE Sound'
  BY <1>4, PolicyAnswersSound
<1>5. ASSUME NextChild PROVE Sound'
  BY <1>5, NextSound
<1>6. ASSUME AfterChild PROVE Sound'
  BY <1>6, AfterSound
<1>7. ASSUME Decides PROVE Sound'
  BY <1>7, DecidesSound
<1>8. ASSUME NextSubtask PROVE Sound'
  BY <1>8, SubtaskSound
<1>9. ASSUME Collect PROVE Sound'
  BY <1>9, CollectSound
<1>10. ASSUME PoolStops \/ WaitCancelled \/ StopUnbegun \/ StopCancelled PROVE Sound'
  BY <1>10, StopSteps
<1>20. ASSUME Aborts PROVE Sound'
  BY <1>20, AbortsSound
<1>11. ASSUME NEW j \in Agents, ChildBegins(j) PROVE Sound'
  BY <1>11, BeginSound
<1>12. ASSUME NEW j \in Agents, ChildRefused(j) PROVE Sound'
  BY <1>12, ChildRefusedSound
<1>13. ASSUME NEW j \in Agents, ChildCut(j) PROVE Sound'
  BY <1>13, CutSound
<1>14. ASSUME NEW j \in Agents, NEW a \in Answers, ChildEnds(j, a) PROVE Sound'
  BY <1>14, EndSound
<1>15. ASSUME Refused PROVE Sound'
  BY <1>15, RefusedSound
<1>16. ASSUME SpawnRaises PROVE Sound'
  BY <1>16, RaisesSound
<1>17. ASSUME Cancelled PROVE Sound'
  BY <1>17, CancelledSound
<1>18. ASSUME TimeUp PROVE Sound'
  BY <1>18, QuietSound DEF TimeUp
<1>19. ASSUME UNCHANGED vars PROVE Sound'
  BY <1>19, QuietSound DEF vars, Sound, TypeOK
<1>. QED BY <1>1, <1>2, <1>3, <1>4, <1>5, <1>6, <1>7, <1>8, <1>9, <1>10, <1>11, <1>12,
            <1>13, <1>14, <1>15, <1>16, <1>17, <1>18, <1>19, <1>20 DEF Next, AgentAnswers, Loops

\* The invariant is an invariant.
LEMMA AlwaysSound == Spec => []Sound
<1>1. Init => Sound
  BY InitSound
<1>2. Sound /\ [Next]_vars => Sound'
  BY NextSteps
<1>. QED BY <1>1, <1>2, PTL DEF Spec

\* No agent below the depth limit is ever executed, not even by a pool whose
\* caller is gone; the depth counter follows the recursion of _execute_dfs
\* through errors, early returns, repeated executions and cancellation and ends
\* at zero; the breadth-first traversal keeps to max_total_agents and the
\* depth-first one passes it by one agent at most (of delegate_with_policy, which
\* never looks at it, nothing is said); and only answers that repeat let the
\* tracker say the delegation has converged.
THEOREM BoundariesKept == Spec => []BoundariesHold
<1>1. Sound => BoundariesHold
  BY SoundBounds
<1>. QED BY <1>1, AlwaysSound, PTL

\* Every agent that _execute_agent spawned is counted out once, but for those
\* whose spawn callback raised or was cancelled, which stay active for ever; no
\* more run than the pool's limit; and when delegate returns, nothing of it runs
\* and whoever was counted out is reported once, as a result or as an error, but
\* for the children that the pool cut off.
THEOREM AgentsCounted == Spec => []Accounted
<1>1. Sound => Accounted
  BY SoundAccounts
<1>. QED BY <1>1, AlwaysSound, PTL

-----------------------------------------------------------------------------
(* The bulkhead: any limits and overrides, and any number of callers.      *)

USE BulkheadAssumption

\* A caller that waits or executes does so on a semaphore that exists.
OnSemaphore == \A c \in Users : use[c].phase # "idle" => capacity[use[c].res] # Unset

\* The callers inside a resource are finitely many.
LEMMA HoldersFinite ==
  ASSUME NEW r \in Resources
  PROVE  IsFiniteSet(Holders(r)) /\ Cardinality(Holders(r)) \in Nat
<1>1. Holders(r) \subseteq Users
  BY DEF Holders
<1>. QED BY <1>1, FS_Subset, FS_CardinalityType

\* Nobody is inside a resource at the start.
LEMMA InitHolders == ASSUME BulkheadInit, NEW r \in Resources PROVE Holders(r) = {}
BY DEF BulkheadInit, Holders

\* Waiting and giving up admit nobody and let nobody out.
LEMMA SameHolders ==
  ASSUME BulkheadTypeOK, NEW c \in Users, NEW r \in Resources,
         \/ \E q \in Resources, o \in Overrides : try_execute(c, q, o)
         \/ AcquireFails(c)
  PROVE  Holders(r)' = Holders(r)
<1>1. \A d \in Users : d # c => use'[d] = use[d]
  BY DEF try_execute, AcquireFails, Leave, BulkheadTypeOK
<1>2. use[c].phase # "executing" /\ use'[c].phase # "executing"
  BY DEF try_execute, AcquireFails, Leave, BulkheadTypeOK, Use
<1>. QED BY <1>1, <1>2 DEF Holders

\* A caller that acquires is one more inside its resource.
LEMMA AcquiredHolders ==
  ASSUME BulkheadTypeOK, NEW c \in Users, Acquired(c), NEW r \in Resources
  PROVE  Cardinality(Holders(r))' =
           IF r = use[c].res THEN Cardinality(Holders(r)) + 1
           ELSE Cardinality(Holders(r))
<1>1. /\ \A d \in Users : d # c => use'[d] = use[d]
      /\ use[c].phase = "acquiring" /\ use'[c].phase = "executing"
      /\ use'[c].res = use[c].res
  BY DEF Acquired, BulkheadTypeOK, Use
<1>2. CASE r = use[c].res
  <2>1. Holders(r)' = Holders(r) \cup {c} /\ c \notin Holders(r)
    BY <1>1, <1>2 DEF Holders
  <2>. QED BY <1>2, <2>1, HoldersFinite, FS_AddElement
<1>3. CASE r # use[c].res
  <2>1. Holders(r)' = Holders(r)
    BY <1>1, <1>3 DEF Holders
  <2>. QED BY <1>3, <2>1
<1>. QED BY <1>2, <1>3

\* A caller that is done is one fewer inside its resource.
LEMMA DoneHolders ==
  ASSUME BulkheadTypeOK, NEW c \in Users, Done(c), NEW r \in Resources
  PROVE  Cardinality(Holders(r))' =
           IF r = use[c].res THEN Cardinality(Holders(r)) - 1
           ELSE Cardinality(Holders(r))
<1>1. /\ \A d \in Users : d # c => use'[d] = use[d]
      /\ use[c].phase = "executing" /\ use'[c].phase = "idle"
  BY DEF Done, Leave, BulkheadTypeOK, Use
<1>2. CASE r = use[c].res
  <2>1. Holders(r)' = Holders(r) \ {c} /\ c \in Holders(r)
    BY <1>1, <1>2 DEF Holders
  <2>2. Cardinality(Holders(r) \ {c}) = Cardinality(Holders(r)) - 1
    BY <2>1, HoldersFinite, FS_RemoveElement
  <2>. QED BY <1>2, <2>1, <2>2
<1>3. CASE r # use[c].res
  <2>1. Holders(r)' = Holders(r)
    BY <1>1, <1>3 DEF Holders
  <2>. QED BY <1>3, <2>1
<1>. QED BY <1>2, <1>3

-----------------------------------------------------------------------------
\* Leaving try_execute keeps limits and calls well typed.
LEMMA LeaveTyped ==
  ASSUME BulkheadTypeOK, NEW c \in Users, Leave(c)
  PROVE  limit' \in [Resources -> Nat] /\ use' \in [Users -> Use]
<1>1. limit' \in [Resources -> Nat]
  BY DEF Leave, BulkheadTypeOK, Use
<1>2. use' = [use EXCEPT ![c] = [use[c] EXCEPT !.phase = "idle", !.orig = 0,
                                                  !.override = 0]]
  BY DEF Leave
<1>3. [use[c] EXCEPT !.phase = "idle", !.orig = 0, !.override = 0] \in Use
  BY DEF BulkheadTypeOK, Use, Phases
<1>. QED BY <1>1, <1>2, <1>3 DEF BulkheadTypeOK

\* Types, and waiting only on existing semaphores, are kept by every step.
Sane == BulkheadTypeOK /\ OnSemaphore

\* No semaphore exists at the start, and nobody holds one.
LEMMA InitSane == BulkheadInit => Sane
BY DEF BulkheadInit, Sane, BulkheadTypeOK, OnSemaphore, Use, Phases

\* Those who wait for a permit or hold one have their semaphore.
LEMMA NextSane == Sane /\ [BulkheadNext]_bulkheadVars => Sane'
<1>. SUFFICES ASSUME Sane, [BulkheadNext]_bulkheadVars PROVE Sane'
  OBVIOUS
<1>. USE DEF Sane
<1>1. ASSUME NEW c \in Users, NEW r \in Resources, NEW o \in Overrides,
             try_execute(c, r, o)
      PROVE  Sane'
  <2>1. limit' \in [Resources -> Nat]
    BY <1>1 DEF try_execute, BulkheadTypeOK
  <2>2. capacity' \in [Resources -> Nat \cup {Unset}] /\ permits' \in [Resources -> Nat]
    <3>1. CASE UNCHANGED <<capacity, permits>>
      BY <3>1 DEF BulkheadTypeOK
    <3>2. CASE /\ capacity' = [capacity EXCEPT ![r] = limit'[r]]
               /\ permits' = [permits EXCEPT ![r] = limit'[r]]
      <4>1. limit'[r] \in Nat
        BY <2>1
      <4>. QED BY <3>2, <4>1 DEF BulkheadTypeOK
    <3>. QED BY <1>1, <3>1, <3>2 DEF try_execute
  <2>3. [phase |-> "acquiring", res |-> r, orig |-> limit[r], override |-> o] \in Use
    BY DEF BulkheadTypeOK, Use, Phases
  <2>4. BulkheadTypeOK'
    BY <1>1, <2>1, <2>2, <2>3 DEF try_execute, BulkheadTypeOK
  <2>5. \A q \in Resources : capacity[q] # Unset => capacity'[q] # Unset
    BY <1>1 DEF try_execute, BulkheadTypeOK
  <2>6. capacity'[r] # Unset
    BY <1>1, <2>1 DEF try_execute, BulkheadTypeOK
  <2>7. OnSemaphore'
    BY <1>1, <2>5, <2>6 DEF try_execute, OnSemaphore, BulkheadTypeOK, Use
  <2>. QED BY <2>4, <2>7
<1>2. ASSUME NEW c \in Users, Acquired(c) PROVE Sane'
  <2>1. use[c].res \in Resources /\ use[c] \in Use
    BY DEF BulkheadTypeOK, Use
  <2>2. permits' \in [Resources -> Nat] /\ active' \in [Resources -> Nat]
    <3>1. /\ permits[use[c].res] > 0
          /\ permits' = [permits EXCEPT ![use[c].res] = permits[use[c].res] - 1]
          /\ active' = [active EXCEPT ![use[c].res] = active[use[c].res] + 1]
      BY <1>2 DEF Acquired
    <3>2. permits[use[c].res] - 1 \in Nat /\ active[use[c].res] + 1 \in Nat
      BY <2>1, <3>1 DEF BulkheadTypeOK
    <3>. QED BY <3>1, <3>2 DEF BulkheadTypeOK
  <2>3. order' \in Seq(Resources)
    BY <1>2, <2>1 DEF Acquired, BulkheadTypeOK
  <2>4. use' \in [Users -> Use]
    BY <1>2, <2>1 DEF Acquired, BulkheadTypeOK, Use, Phases
  <2>5. BulkheadTypeOK'
    BY <1>2, <2>1, <2>2, <2>3, <2>4 DEF Acquired, BulkheadTypeOK
  <2>6. OnSemaphore'
    BY <1>2 DEF Acquired, OnSemaphore, BulkheadTypeOK, Use
  <2>. QED BY <2>5, <2>6
<1>3. ASSUME NEW c \in Users, AcquireFails(c) PROVE Sane'
  BY <1>3, LeaveTyped DEF AcquireFails, Leave, OnSemaphore, BulkheadTypeOK, Use
<1>4. ASSUME NEW c \in Users, Done(c) PROVE Sane'
  <2>1. permits' \in [Resources -> Nat]
    <3>1. \/ permits' = [permits EXCEPT ![use[c].res] = permits[use[c].res] + 1]
          \/ permits' = permits
      BY <1>4 DEF Done
    <3>2. permits[use[c].res] + 1 \in Nat
      BY DEF BulkheadTypeOK, Use
    <3>. QED BY <3>1, <3>2 DEF BulkheadTypeOK
  <2>2. active' \in [Resources -> Nat]
    <3>. DEFINE q == order[FirstActive]
                n == IF active[q] > 0 THEN active[q] - 1 ELSE 0
    <3>1. active' = active \/ active' = [active EXCEPT ![q] = n]
      BY <1>4 DEF Done
    <3>2. q \in Resources => n \in Nat
      BY DEF BulkheadTypeOK
    <3>. HIDE DEF q, n
    <3>. QED BY <3>1, <3>2 DEF BulkheadTypeOK
  <2>3. managed' \subseteq Resources
    BY <1>4 DEF Done, BulkheadTypeOK
  <2>4. BulkheadTypeOK'
    BY <1>4, <2>1, <2>2, <2>3, LeaveTyped DEF Done, BulkheadTypeOK
  <2>5. OnSemaphore'
    BY <1>4 DEF Done, Leave, OnSemaphore, BulkheadTypeOK, Use
  <2>. QED BY <2>4, <2>5
<1>5. CASE UNCHANGED bulkheadVars
  BY <1>5 DEF bulkheadVars, BulkheadTypeOK, OnSemaphore
<1>. QED BY <1>1, <1>2, <1>3, <1>4, <1>5 DEF BulkheadNext

\* Type correctness of the bulkhead.
THEOREM BulkheadTypeCorrect == BulkheadSpec => []BulkheadTypeOK
<1>1. BulkheadSpec => []Sane
  BY InitSane, NextSane, PTL DEF BulkheadSpec
<1>. QED BY <1>1, PTL DEF Sane

-----------------------------------------------------------------------------
\* No step admits a caller without a permit or frees a permit nobody held.
LEMMA NextNeverOver ==
  Sane /\ NeverOverCapacity /\ [BulkheadNext]_bulkheadVars => NeverOverCapacity'
<1>. SUFFICES ASSUME Sane, NeverOverCapacity, [BulkheadNext]_bulkheadVars,
                     NEW r \in Resources, capacity'[r] # Unset
              PROVE  permits'[r] + Cardinality(Holders(r))' <= capacity'[r]
  BY DEF NeverOverCapacity
<1>0. /\ permits[r] \in Nat /\ Cardinality(Holders(r)) \in Nat
      /\ capacity[r] \in Nat \cup {Unset}
  BY HoldersFinite DEF Sane, BulkheadTypeOK
<1>1. ASSUME NEW c \in Users, NEW q \in Resources, NEW o \in Overrides,
             try_execute(c, q, o)
      PROVE  permits'[r] + Cardinality(Holders(r))' <= capacity'[r]
  <2>1. Holders(r)' = Holders(r)
    BY <1>1, SameHolders DEF Sane
  <2>2. CASE capacity[r] # Unset
    BY <1>0, <1>1, <2>1, <2>2 DEF try_execute, NeverOverCapacity, Sane, BulkheadTypeOK
  <2>3. CASE capacity[r] = Unset
    <3>1. Holders(r) = {}
      BY <2>3 DEF Holders, Sane, OnSemaphore
    <3>2. Cardinality(Holders(r)) = 0
      BY <3>1, FS_EmptySet
    <3>3. permits'[r] = capacity'[r] /\ permits'[r] \in Nat
      BY <1>1, <2>3 DEF try_execute, Sane, BulkheadTypeOK
    <3>. QED BY <2>1, <3>2, <3>3
  <2>. QED BY <2>2, <2>3
<1>2. ASSUME NEW c \in Users, Acquired(c)
      PROVE  permits'[r] + Cardinality(Holders(r))' <= capacity'[r]
  <2>1. /\ permits'[r] = IF r = use[c].res THEN permits[r] - 1 ELSE permits[r]
        /\ capacity' = capacity
    BY <1>2 DEF Acquired, Sane, BulkheadTypeOK
  <2>2. permits[r] + Cardinality(Holders(r)) <= capacity[r]
    BY <2>1 DEF NeverOverCapacity
  <2>. QED BY <1>0, <1>2, <2>1, <2>2, AcquiredHolders DEF Sane
<1>3. ASSUME NEW c \in Users, AcquireFails(c)
      PROVE  permits'[r] + Cardinality(Holders(r))' <= capacity'[r]
  <2>1. Holders(r)' = Holders(r)
    BY <1>3, SameHolders DEF Sane
  <2>. QED BY <1>3, <2>1 DEF AcquireFails, NeverOverCapacity
<1>4. ASSUME NEW c \in Users, Done(c)
      PROVE  permits'[r] + Cardinality(Holders(r))' <= capacity'[r]
  <2>1. /\ permits'[r] = permits[r] \/ (r = use[c].res /\ permits'[r] = permits[r] + 1)
        /\ capacity' = capacity
    BY <1>4 DEF Done, Sane, BulkheadTypeOK
  <2>2. permits[r] + Cardinality(Holders(r)) <= capacity[r]
    BY <2>1 DEF NeverOverCapacity
  <2>. QED BY <1>0, <1>4, <2>1, <2>2, DoneHolders DEF Sane
<1>5. CASE UNCHANGED bulkheadVars
  BY <1>5 DEF bulkheadVars, NeverOverCapacity, Holders
<1>. QED BY <1>1, <1>2, <1>3, <1>4, <1>5 DEF BulkheadNext

\* However callers overlap, override limits, time out or are cancelled, a
\* resource never holds more of them than its semaphore was created for.
THEOREM BulkheadHolds == BulkheadSpec => []NeverOverCapacity
<1>1. BulkheadInit => NeverOverCapacity
  BY DEF BulkheadInit, NeverOverCapacity
<1>2. BulkheadSpec => []Sane
  BY InitSane, NextSane, PTL DEF BulkheadSpec
<1>. QED BY <1>1, <1>2, NextNeverOver, PTL DEF BulkheadSpec

-----------------------------------------------------------------------------
(* Single permits.  release forgets a semaphore as soon as one holder        *)
(* returns its permit; of a single permit there is no second holder to be    *)
(* refused.                                                                  *)

SingleHolderManaged ==
  \A c \in Users :
    use[c].phase = "executing" /\ capacity[use[c].res] = 1 => use[c].res \in managed

Exclusive == Sane /\ SinglePermitReturns /\ SingleHolderManaged

\* Every step keeps a single permit free or with one caller whose release will
\* be accepted.
LEMMA NextExclusive ==
  Exclusive /\ [BulkheadNext]_bulkheadVars => (SinglePermitReturns /\ SingleHolderManaged)'
<1>. SUFFICES ASSUME Exclusive, [BulkheadNext]_bulkheadVars
              PROVE  SinglePermitReturns' /\ SingleHolderManaged'
  OBVIOUS
<1>. USE DEF Exclusive
<1>0. \A r \in Resources : permits[r] \in Nat /\ Cardinality(Holders(r)) \in Nat
  BY HoldersFinite DEF Sane, BulkheadTypeOK
<1>1. ASSUME NEW c \in Users, NEW q \in Resources, NEW o \in Overrides,
             try_execute(c, q, o)
      PROVE  SinglePermitReturns' /\ SingleHolderManaged'
  <2>1. ASSUME NEW r \in Resources, capacity'[r] = 1
        PROVE  permits'[r] + Cardinality(Holders(r))' = 1
    <3>1. Holders(r)' = Holders(r)
      BY <1>1, SameHolders DEF Sane
    <3>2. CASE capacity[r] # Unset
      <4>1. capacity'[r] = capacity[r] /\ permits'[r] = permits[r]
        BY <1>1, <3>2 DEF try_execute, Sane, BulkheadTypeOK
      <4>. QED BY <2>1, <3>1, <4>1 DEF SinglePermitReturns
    <3>3. CASE capacity[r] = Unset
      <4>1. Holders(r) = {}
        BY <3>3 DEF Holders, Sane, OnSemaphore
      <4>2. Cardinality(Holders(r)) = 0
        BY <4>1, FS_EmptySet
      <4>3. capacity'[r] # Unset
        BY <2>1
      <4>4. permits'[r] = capacity'[r]
        BY <1>1, <3>3, <4>3 DEF try_execute, Sane, BulkheadTypeOK
      <4>. QED BY <2>1, <3>1, <4>2, <4>4
    <3>. QED BY <3>2, <3>3
  <2>2. ASSUME NEW d \in Users, use'[d].phase = "executing", capacity'[use'[d].res] = 1
        PROVE  use'[d].res \in managed'
    <3>1. d # c /\ use'[d] = use[d] /\ managed' = managed
      BY <1>1, <2>2 DEF try_execute, Sane, BulkheadTypeOK, Use
    <3>2. capacity[use[d].res] # Unset /\ use[d].res \in Resources
      BY <2>2, <3>1 DEF Sane, OnSemaphore, BulkheadTypeOK, Use
    <3>3. capacity[use[d].res] = 1
      BY <1>1, <2>2, <3>1, <3>2 DEF try_execute, Sane, BulkheadTypeOK
    <3>. QED BY <2>2, <3>1, <3>3 DEF SingleHolderManaged
  <2>. QED BY <2>1, <2>2 DEF SinglePermitReturns, SingleHolderManaged
<1>2. ASSUME NEW c \in Users, Acquired(c)
      PROVE  SinglePermitReturns' /\ SingleHolderManaged'
  <2>1. ASSUME NEW r \in Resources, capacity'[r] = 1
        PROVE  permits'[r] + Cardinality(Holders(r))' = 1
    <3>1. /\ permits'[r] = IF r = use[c].res THEN permits[r] - 1 ELSE permits[r]
          /\ capacity' = capacity
      BY <1>2 DEF Acquired, Sane, BulkheadTypeOK
    <3>2. permits[r] + Cardinality(Holders(r)) = 1
      BY <2>1, <3>1 DEF SinglePermitReturns
    <3>. QED BY <1>0, <1>2, <3>1, <3>2, AcquiredHolders DEF Sane
  <2>2. SingleHolderManaged'
    BY <1>2 DEF Acquired, SingleHolderManaged, Sane, BulkheadTypeOK, Use
  <2>. QED BY <2>1, <2>2 DEF SinglePermitReturns
<1>3. ASSUME NEW c \in Users, AcquireFails(c)
      PROVE  SinglePermitReturns' /\ SingleHolderManaged'
  <2>1. \A r \in Resources : Holders(r)' = Holders(r)
    BY <1>3, SameHolders DEF Sane
  <2>2. SinglePermitReturns'
    BY <1>3, <2>1 DEF AcquireFails, SinglePermitReturns
  <2>3. SingleHolderManaged'
    BY <1>3 DEF AcquireFails, Leave, SingleHolderManaged, Sane, BulkheadTypeOK, Use
  <2>. QED BY <2>2, <2>3
<1>4. ASSUME NEW c \in Users, Done(c)
      PROVE  SinglePermitReturns' /\ SingleHolderManaged'
  <2>. DEFINE q == use[c].res
  <2>0. q \in Resources /\ c \in Holders(q) /\ capacity' = capacity
    BY <1>4 DEF Done, Holders, Sane, BulkheadTypeOK, Use
  \* The caller that leaves a single permit was alone on it, and is not refused.
  <2>1. ASSUME capacity[q] = 1
        PROVE  q \in managed /\ \A d \in Holders(q) : d = c
    <3>1. q \in managed
      BY <1>4, <2>1 DEF Done, SingleHolderManaged
    <3>2. Cardinality(Holders(q)) <= 1
      BY <1>0, <2>0, <2>1 DEF SinglePermitReturns
    <3>3. /\ IsFiniteSet(Holders(q) \ {c})
          /\ Cardinality(Holders(q) \ {c}) = Cardinality(Holders(q)) - 1
      BY <2>0, HoldersFinite, FS_RemoveElement
    <3>4. Cardinality(Holders(q) \ {c}) \in Nat
      BY <3>3, FS_CardinalityType
    <3>5. Cardinality(Holders(q) \ {c}) = 0
      BY <1>0, <2>0, <3>2, <3>3, <3>4
    <3>. QED BY <3>1, <3>3, <3>5, FS_EmptySet
  <2>2. ASSUME NEW r \in Resources, capacity'[r] = 1
        PROVE  permits'[r] + Cardinality(Holders(r))' = 1
    <3>1. permits[r] + Cardinality(Holders(r)) = 1
      BY <2>0, <2>2 DEF SinglePermitReturns
    <3>2. permits'[r] = IF r = q THEN permits[r] + 1 ELSE permits[r]
      BY <1>4, <2>0, <2>1, <2>2 DEF Done, Sane, BulkheadTypeOK
    <3>. QED BY <1>0, <1>4, <3>1, <3>2, DoneHolders DEF Sane
  <2>3. ASSUME NEW d \in Users, use'[d].phase = "executing", capacity'[use'[d].res] = 1
        PROVE  use'[d].res \in managed'
    <3>1. d # c /\ use'[d] = use[d] /\ capacity[use[d].res] = 1
      BY <1>4, <2>0, <2>3 DEF Done, Leave, Sane, BulkheadTypeOK, Use
    <3>2. use[d].res \in managed
      BY <2>3, <3>1 DEF SingleHolderManaged
    <3>3. use[d].res # q
      BY <2>1, <2>3, <3>1 DEF Holders
    <3>4. managed' = managed \/ managed' = managed \ {q}
      BY <1>4 DEF Done
    <3>. QED BY <3>1, <3>2, <3>3, <3>4
  <2>. QED BY <2>2, <2>3 DEF SinglePermitReturns, SingleHolderManaged
<1>5. CASE UNCHANGED bulkheadVars
  BY <1>5 DEF bulkheadVars, SinglePermitReturns, SingleHolderManaged, Holders
<1>. QED BY <1>1, <1>2, <1>3, <1>4, <1>5 DEF BulkheadNext

\* A semaphore created with one permit, the default, never loses it, for any
\* number of callers and resources, any limits and any overrides.
THEOREM SinglePermit == BulkheadSpec => []SinglePermitReturns
<1>1. BulkheadInit => SinglePermitReturns /\ SingleHolderManaged
  BY DEF BulkheadInit, SinglePermitReturns, SingleHolderManaged
<1>2. BulkheadSpec => []Exclusive
  BY <1>1, InitSane, NextSane, NextExclusive, PTL DEF BulkheadSpec, Exclusive
<1>. QED BY <1>2, PTL DEF Exclusive
=============================================================================
