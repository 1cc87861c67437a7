-------------------------- MODULE MultiAgent_proof --------------------------
(***************************************************************************)
(* What a workflow does to its agents is sound for any set of agents, any  *)
(* graph of dependencies and any conditions: the graphs it rejects are the *)
(* circular ones, nobody is executed twice or before what it depends on,   *)
(* and an execution that is over has reported on everybody, for a reason,  *)
(* and left nobody running.                                                *)
(*                                                                         *)
(* The last part is about the tasks of AgentOrchestrator.  When every      *)
(* task is delegated once, as run_parallel_agents and                      *)
(* execute_task_via_task do, results and statuses never contradict each    *)
(* other and a finished task stays finished, for any number of calls and   *)
(* whatever is cancelled, cleared or killed.                               *)
(***************************************************************************)
EXTENDS MultiAgent, Orchestrator, FiniteSetTheorems, NaturalsInduction, WellFoundedInduction,
        TLAPS

USE WorkflowAssumption

-----------------------------------------------------------------------------
(* The search for cycles is a recursive function that calls itself on what *)
(* it returned.  It exists, since every call visits another name or has    *)
(* another dependency behind it.                                           *)

\* Numbers have a least one.
LEMMA SmallestNat ==
  ASSUME NEW I, I \subseteq Nat, I # {}
  PROVE  \E m \in I : \A i \in I : m <= i
<1>1. PICK m \in I : \A i \in I : ~(<<i, m>> \in OpToRel(<, Nat))
  BY NatLessThanWellFounded, WFMin
<1>2. \A i \in I : ~(i < m)
  BY <1>1 DEF OpToRel
<1>. QED BY <1>2

Typed == deps \in [Agents -> SUBSET Names]
Width == Cardinality(Names) + 1
Unvisited(s) == Cardinality(Names \ s.visited)

\* What is still to be done for a call.
Rank(c) == Unvisited(c.search) * Width + Cardinality(c.todo)

\* A call goes on behind a dependency.
GoesOn(c, d, s) == [c EXCEPT !.todo = @ \ {d}, !.search = s]

\* A call that takes its results from f.
Ahead(c) == CHOOSE d \in c.todo : TRUE
Looked(f, c) ==
  IF Ahead(c) \in c.search.visited
  THEN [c.search EXCEPT !.cyclic = Ahead(c) \in c.search.stack]
  ELSE f[Called(Ahead(c), c.search)]
Comes(f, c) ==
  IF c.todo = {} THEN Left(c.search, c.name)
  ELSE IF Looked(f, c).cyclic THEN Looked(f, c)
  ELSE f[GoesOn(c, Ahead(c), Looked(f, c))]

\* The names are finitely many.
LEMMA NamesFinite ==
  /\ IsFiniteSet(Names) /\ Cardinality(Names) \in Nat
  /\ \A S \in SUBSET Names : IsFiniteSet(S) /\ Cardinality(S) \in 0 .. Cardinality(Names)
<1>1. IsFiniteSet(Names)
  BY FS_AddElement DEF Names
<1>2. ASSUME NEW S \in SUBSET Names
      PROVE  IsFiniteSet(S) /\ Cardinality(S) \in 0 .. Cardinality(Names)
  <2>1. IsFiniteSet(S) /\ Cardinality(S) <= Cardinality(Names)
    BY <1>1, FS_Subset
  <2>. QED BY <1>1, <2>1, FS_CardinalityType
<1>. QED BY <1>1, <1>2, FS_CardinalityType

\* What is still to be done is a number, and bounded.
LEMMA RankBounded ==
  \E k \in Nat : \A c \in Activation : Rank(c) \in Nat /\ Rank(c) < k
<1> DEFINE m == Cardinality(Names)
<1>1. m \in Nat /\ Width = m + 1
  BY NamesFinite DEF Width
<1>2. (m + 1) * (m + 1) \in Nat
  BY <1>1
<1>3. ASSUME NEW c \in Activation PROVE Rank(c) \in Nat /\ Rank(c) < (m + 1) * (m + 1)
  <2>1. c.todo \in SUBSET Names /\ Names \ c.search.visited \in SUBSET Names
    BY DEF Activation
  <2> DEFINE u == Unvisited(c.search)
             t == Cardinality(c.todo)
  <2>2. u \in 0 .. m /\ t \in 0 .. m
    BY <2>1, NamesFinite DEF Unvisited
  <2>3. Rank(c) = u * (m + 1) + t
    BY <1>1 DEF Rank
  <2>. HIDE DEF u, t, m
  <2>4. u * (m + 1) \in Nat /\ u * (m + 1) <= m * (m + 1)
    BY <1>1, <2>2
  <2>5. m * (m + 1) + (m + 1) = (m + 1) * (m + 1) /\ m * (m + 1) \in Nat
    BY <1>1
  <2>. QED BY <1>1, <2>2, <2>3, <2>4, <2>5
<1>. QED BY <1>2, <1>3

\* Calls, and what they hand on, are of their types.
LEMMA CalledTyped ==
  ASSUME Typed, NEW s \in Search, NEW n \in Names
  PROVE  /\ Called(n, s) \in Activation
         /\ Called(n, s).name = n /\ Called(n, s).todo = Dependencies(n)
         /\ Called(n, s).search \in Search
         /\ Called(n, s).search.visited = s.visited \cup {n}
         /\ Called(n, s).search.stack = s.stack \cup {n}
         /\ Called(n, s).search.cyclic = s.cyclic
<1>1. Dependencies(n) \in SUBSET Names
  BY DEF Dependencies, Typed
<1> DEFINE e == [s EXCEPT !.visited = @ \cup {n}, !.stack = @ \cup {n}]
<1>2. /\ e \in Search /\ e.cyclic = s.cyclic
      /\ e.visited = s.visited \cup {n} /\ e.stack = s.stack \cup {n}
  BY DEF Search
<1>3. Called(n, s) = [name |-> n, todo |-> Dependencies(n), search |-> e]
  BY DEF Called
<1>. HIDE DEF e
<1>. QED BY <1>1, <1>2, <1>3 DEF Activation

LEMMA GoesOnTyped ==
  ASSUME NEW c \in Activation, NEW d, NEW s \in Search
  PROVE  /\ GoesOn(c, d, s) \in Activation /\ GoesOn(c, d, s).name = c.name
         /\ GoesOn(c, d, s).todo = c.todo \ {d} /\ GoesOn(c, d, s).search = s
BY DEF Activation, GoesOn

\* A call of a name that was not visited has less to do.
LEMMA CalledLess ==
  ASSUME Typed, NEW c \in Activation, NEW d \in c.todo, d \notin c.search.visited
  PROVE  Rank(Called(d, c.search)) < Rank(c)
<1> DEFINE e == Called(d, c.search)
           m == Cardinality(Names)
           u == Unvisited(c.search)
           v == Unvisited(e.search)
<1>1. c.search \in Search /\ d \in Names /\ c.todo \in SUBSET Names
  BY DEF Activation
<1>2. e \in Activation /\ e.search.visited = c.search.visited \cup {d} /\ e.todo \in SUBSET Names
  <2>1. e \in Activation /\ e.search.visited = c.search.visited \cup {d}
    BY <1>1, CalledTyped
  <2>. QED BY <2>1 DEF Activation
<1>3. Names \ e.search.visited = (Names \ c.search.visited) \ {d} /\ d \in Names \ c.search.visited
  BY <1>1, <1>2
<1>4. /\ IsFiniteSet(Names \ c.search.visited) /\ m \in Nat /\ u \in 0 .. m
      /\ Cardinality(e.todo) \in 0 .. m /\ Cardinality(c.todo) \in 0 .. m
  BY <1>1, <1>2, NamesFinite DEF Unvisited
<1>5. v = u - 1 /\ u > 0
  <2>1. v = u - 1
    <3> DEFINE w == Names \ c.search.visited
    <3>1. IsFiniteSet(w) /\ d \in w
      BY <1>3, <1>4
    <3>2. Cardinality(w \ {d}) = Cardinality(w) - 1
      <4>. HIDE DEF w
      <4>. QED BY <3>1, FS_RemoveElement
    <3>3. v = Cardinality(w \ {d}) /\ u = Cardinality(w)
      BY <1>3 DEF Unvisited
    <3>. QED BY <3>2, <3>3
  <2>2. u # 0
    BY <1>3, <1>4, FS_EmptySet DEF Unvisited
  <2>. QED BY <1>4, <2>1, <2>2
<1>6. Rank(e) = v * (m + 1) + Cardinality(e.todo) /\ Rank(c) = u * (m + 1) + Cardinality(c.todo)
  BY DEF Rank, Width
<1> DEFINE te == Cardinality(e.todo)
           tc == Cardinality(c.todo)
<1>7. te \in 0 .. m /\ tc \in 0 .. m
  BY <1>4
<1>8. Rank(e) = v * (m + 1) + te /\ Rank(c) = u * (m + 1) + tc
  BY <1>6
<1>. HIDE DEF e, m, u, v, te, tc
<1>9. v * (m + 1) = u * (m + 1) - (m + 1) /\ u * (m + 1) \in Nat
  BY <1>4, <1>5
<1>. QED BY <1>4, <1>7, <1>8, <1>9 DEF e

\* So has one that goes on behind a dependency, having forgotten no name.
LEMMA GoesOnLess ==
  ASSUME NEW c \in Activation, NEW d \in c.todo, NEW s \in Search,
         c.search.visited \subseteq s.visited
  PROVE  Rank(GoesOn(c, d, s)) < Rank(c)
<1> DEFINE e == GoesOn(c, d, s)
           m == Cardinality(Names)
           u == Unvisited(c.search)
           v == Unvisited(s)
           tc == Cardinality(c.todo)
<1>1. c.search \in Search /\ c.todo \in SUBSET Names
  BY DEF Activation
<1>2. e \in Activation /\ e.todo = c.todo \ {d} /\ e.search = s
  BY GoesOnTyped
<1>3. /\ IsFiniteSet(Names \ c.search.visited) /\ m \in Nat /\ u \in 0 .. m /\ v \in 0 .. m
      /\ IsFiniteSet(c.todo) /\ tc \in 0 .. m
  BY <1>1, NamesFinite DEF Unvisited
<1>4. v <= u
  <2>1. Names \ s.visited \subseteq Names \ c.search.visited
    OBVIOUS
  <2>. QED BY <1>3, <2>1, FS_Subset DEF Unvisited
<1>5. Cardinality(e.todo) = tc - 1
  BY <1>2, <1>3, FS_RemoveElement
<1>6. Rank(e) = v * (m + 1) + (tc - 1) /\ Rank(c) = u * (m + 1) + tc
  BY <1>2, <1>5 DEF Rank, Width
<1>. HIDE DEF e, m, u, v, tc
<1>7. v * (m + 1) <= u * (m + 1) /\ u * (m + 1) \in Nat /\ v * (m + 1) \in Nat
  BY <1>3, <1>4
<1>. QED BY <1>3, <1>6, <1>7 DEF e

\* A function that keeps the visited names on every call with less to do than k
\* gives the same again for those, and for the next.
Keeping(f, c) == c.search.visited \subseteq f[c].visited
Solves(f, k) ==
  /\ f \in [Activation -> Search]
  /\ \A c \in Activation : Rank(c) < k => f[c] = Comes(f, c) /\ Keeping(f, c)

\* What a call comes to from the results of calls with less to do.
LEMMA ComesTyped ==
  ASSUME Typed, NEW f, NEW c \in Activation,
         \A e \in Activation : Rank(e) < Rank(c) => f[e] \in Search /\ Keeping(f, e)
  PROVE  /\ Comes(f, c) \in Search
         /\ c.search.visited \subseteq Comes(f, c).visited
         /\ c.todo # {} =>
              /\ Ahead(c) \in c.todo /\ Ahead(c) \in Names
              /\ Looked(f, c) \in Search
              /\ c.search.visited \subseteq Looked(f, c).visited
<1>1. c.search \in Search /\ c.todo \in SUBSET Names /\ c.name \in Names
  BY DEF Activation
<1>2. CASE c.todo = {}
  <2>1. Comes(f, c) = Left(c.search, c.name)
    BY <1>2 DEF Comes
  <2>. QED BY <1>1, <1>2, <2>1 DEF Left, Search
<1>3. CASE c.todo # {}
  <2> DEFINE d == Ahead(c)
             s == Looked(f, c)
             e == Called(d, c.search)
             g == GoesOn(c, d, s)
  <2>1. d \in c.todo /\ d \in Names
    BY <1>1, <1>3 DEF Ahead
  <2>2. s \in Search /\ c.search.visited \subseteq s.visited
    <3>1. CASE d \in c.search.visited
      <4>1. s = [c.search EXCEPT !.cyclic = d \in c.search.stack]
        BY <3>1 DEF Looked
      <4>2. (d \in c.search.stack) \in BOOLEAN
        OBVIOUS
      <4>. QED BY <1>1, <4>1, <4>2 DEF Search
    <3>2. CASE d \notin c.search.visited
      <4>1. s = f[e]
        BY <3>2 DEF Looked
      <4>2. e \in Activation /\ e.search.visited = c.search.visited \cup {d}
        BY <1>1, <2>1, CalledTyped
      <4>3. Rank(e) < Rank(c)
        BY <2>1, <3>2, CalledLess
      <4>4. f[e] \in Search /\ e.search.visited \subseteq f[e].visited
        BY <4>2, <4>3 DEF Keeping
      <4>. QED BY <4>1, <4>2, <4>4
    <3>. QED BY <3>1, <3>2
  <2>3. CASE s.cyclic
    <3>1. Comes(f, c) = s
      BY <1>3, <2>3 DEF Comes
    <3>. QED BY <2>1, <2>2, <3>1
  <2>4. CASE ~s.cyclic
    <3>1. Comes(f, c) = f[g]
      BY <1>3, <2>4 DEF Comes
    <3>2. g \in Activation /\ g.search = s
      BY <2>2, GoesOnTyped
    <3>3. Rank(g) < Rank(c)
      BY <2>1, <2>2, GoesOnLess
    <3>4. f[g] \in Search /\ g.search.visited \subseteq f[g].visited
      BY <3>2, <3>3 DEF Keeping
    <3>. QED BY <2>1, <2>2, <3>1, <3>2, <3>4
  <2>. QED BY <2>3, <2>4
<1>. QED BY <1>2, <1>3

\* It depends on nothing else.
LEMMA ComesSame ==
  ASSUME Typed, NEW f, NEW h, NEW c \in Activation,
         \A e \in Activation : Rank(e) < Rank(c) =>
           f[e] \in Search /\ Keeping(f, e) /\ h[e] = f[e]
  PROVE  Comes(h, c) = Comes(f, c)
<1>1. c.search \in Search /\ c.todo \in SUBSET Names
  BY DEF Activation
<1>2. CASE c.todo = {}
  BY <1>2 DEF Comes
<1>3. CASE c.todo # {}
  <2> DEFINE d == Ahead(c)
             s == Looked(f, c)
  <2>1. d \in c.todo /\ d \in Names /\ s \in Search /\ c.search.visited \subseteq s.visited
    BY <1>3, ComesTyped
  <2>2. Looked(h, c) = s
    <3>1. CASE d \in c.search.visited
      BY <3>1 DEF Looked
    <3>2. CASE d \notin c.search.visited
      <4>1. Called(d, c.search) \in Activation
        BY <1>1, <2>1, CalledTyped
      <4>2. Rank(Called(d, c.search)) < Rank(c)
        BY <2>1, <3>2, CalledLess
      <4>3. h[Called(d, c.search)] = f[Called(d, c.search)]
        BY <4>1, <4>2
      <4>. QED BY <3>2, <4>3 DEF Looked
    <3>. QED BY <3>1, <3>2
  <2>3. h[GoesOn(c, d, s)] = f[GoesOn(c, d, s)]
    <3>1. GoesOn(c, d, s) \in Activation
      BY <2>1, GoesOnTyped
    <3>2. Rank(GoesOn(c, d, s)) < Rank(c)
      BY <2>1, GoesOnLess
    <3>. QED BY <3>1, <3>2
  <2>. QED BY <2>2, <2>3 DEF Comes
<1>. QED BY <1>2, <1>3

\* Whatever f gives, what a call comes to is a state of the search.
LEMMA ComesAnyway ==
  ASSUME Typed, NEW f \in [Activation -> Search], NEW c \in Activation
  PROVE  Comes(f, c) \in Search
<1>1. c.search \in Search /\ c.todo \in SUBSET Names /\ c.name \in Names
  BY DEF Activation
<1>2. CASE c.todo = {}
  <2>1. Comes(f, c) = Left(c.search, c.name)
    BY <1>2 DEF Comes
  <2>. QED BY <1>1, <2>1 DEF Left, Search
<1>3. CASE c.todo # {}
  <2> DEFINE d == Ahead(c)
  <2>1. d \in c.todo /\ d \in Names
    BY <1>1, <1>3 DEF Ahead
  <2>2. Looked(f, c) \in Search
    <3>1. CASE d \in c.search.visited
      <4>1. Looked(f, c) = [c.search EXCEPT !.cyclic = d \in c.search.stack]
        BY <3>1 DEF Looked
      <4>2. (d \in c.search.stack) \in BOOLEAN
        OBVIOUS
      <4>. QED BY <1>1, <4>1, <4>2 DEF Search
    <3>2. CASE d \notin c.search.visited
      <4>1. Called(d, c.search) \in Activation
        BY <1>1, <2>1, CalledTyped
      <4>. QED BY <3>2, <4>1 DEF Looked
    <3>. QED BY <3>1, <3>2
  <2>3. GoesOn(c, d, Looked(f, c)) \in Activation
    BY <2>2, GoesOnTyped
  <2>. QED BY <1>3, <2>2, <2>3 DEF Comes
<1>. QED BY <1>2, <1>3

\* One more round of calls.
LEMMA SolvesNext ==
  ASSUME Typed, NEW k \in Nat, NEW f, Solves(f, k),
         \A c \in Activation : Rank(c) \in Nat
  PROVE  Solves([c \in Activation |-> Comes(f, c)], k + 1)
<1> DEFINE h == [c \in Activation |-> Comes(f, c)]
<1>1. f \in [Activation -> Search]
  BY DEF Solves
<1>2. h \in [Activation -> Search] /\ \A c \in Activation : h[c] = Comes(f, c)
  BY <1>1, ComesAnyway
<1>. HIDE DEF h
<1>3. \A c \in Activation : Rank(c) < k => f[c] \in Search /\ Keeping(f, c) /\ h[c] = f[c]
  BY <1>1, <1>2 DEF Solves
<1>4. ASSUME NEW c \in Activation, Rank(c) < k + 1
      PROVE  h[c] = Comes(h, c) /\ Keeping(h, c)
  <2>1. \A e \in Activation : Rank(e) < Rank(c) =>
          f[e] \in Search /\ Keeping(f, e) /\ h[e] = f[e]
    <3>1. ASSUME NEW e \in Activation, Rank(e) < Rank(c) PROVE Rank(e) < k
      BY <1>4, <3>1
    <3>. QED BY <1>3, <3>1
  <2>2. c.search.visited \subseteq Comes(f, c).visited
    BY <2>1, ComesTyped
  <2>3. Comes(h, c) = Comes(f, c)
    BY <2>1, ComesSame
  <2>. QED BY <1>2, <2>2, <2>3 DEF Keeping
<1>5. Solves(h, k + 1)
  BY <1>2, <1>4 DEF Solves
<1>. QED BY <1>5 DEF h

\* The search is what its definition says.
LEMMA SearchExists ==
  ASSUME Typed
  PROVE  /\ \A c \in Activation : has_cycle[c] = Comes(has_cycle, c)
         /\ \A c \in Activation : has_cycle[c] \in Search /\ Keeping(has_cycle, c)
<1> DEFINE body(f) == [c \in Activation |-> Comes(f, c)]
<1>1. PICK limit \in Nat : \A c \in Activation : Rank(c) \in Nat /\ Rank(c) < limit
  BY RankBounded
<1>2. \A k \in Nat : \E f : Solves(f, k)
  <2> DEFINE I == {k \in Nat : ~ \E f : Solves(f, k)}
  <2>. SUFFICES ASSUME I # {} PROVE FALSE
    OBVIOUS
  <2>1. PICK k \in I : \A i \in I : k <= i
    BY SmallestNat
  <2>2. k \in Nat /\ ~ \E f : Solves(f, k)
    BY <2>1
  <2>3. CASE k = 0
    <3> DEFINE f == [c \in Activation |-> c.search]
    <3>1. f \in [Activation -> Search]
      BY DEF Activation
    <3>2. Solves(f, 0)
      <4>. HIDE DEF f
      <4>. QED BY <1>1, <3>1 DEF Solves
    <3>. QED BY <2>2, <2>3, <3>2
  <2>4. CASE k # 0
    <3>1. k - 1 \in Nat /\ ~(k <= k - 1) /\ k - 1 + 1 = k
      BY <2>2, <2>4
    <3>2. k - 1 \notin I
      <4>. HIDE DEF I
      <4>. QED BY <2>1, <3>1
    <3>3. PICK f : Solves(f, k - 1)
      BY <3>1, <3>2
    <3>4. Solves(body(f), k - 1 + 1)
      BY <1>1, <3>1, <3>3, SolvesNext
    <3>. QED BY <2>2, <3>1, <3>4
  <2>. QED BY <2>3, <2>4
<1>3. PICK g : Solves(g, limit)
  BY <1>2
<1>4. g = body(g)
  <2>1. g = [c \in Activation |-> g[c]] /\ \A c \in Activation : g[c] = Comes(g, c)
    BY <1>1, <1>3 DEF Solves
  <2>. QED BY <2>1
<1>5. has_cycle = CHOOSE f : f = body(f)
  BY DEF has_cycle, Comes, Looked, Ahead, GoesOn
<1>6. has_cycle = body(has_cycle)
  <2>. HIDE DEF body
  <2>. QED BY <1>4, <1>5
<1>7. \A c \in Activation : has_cycle[c] = Comes(has_cycle, c)
  BY <1>6
<1>8. \A c \in Activation : has_cycle[c] \in Search /\ Keeping(has_cycle, c)
  <2> DEFINE Wrong(c) == ~(has_cycle[c] \in Search /\ Keeping(has_cycle, c))
             I == {k \in Nat : \E c \in Activation : Rank(c) = k /\ Wrong(c)}
  <2>. SUFFICES ASSUME I # {} PROVE FALSE
    BY <1>1
  <2>1. PICK k \in I : \A i \in I : k <= i
    BY SmallestNat
  <2>2. PICK c \in Activation : Rank(c) = k /\ Wrong(c)
    BY <2>1
  <2>3. ASSUME NEW e \in Activation, Rank(e) < Rank(c)
        PROVE  has_cycle[e] \in Search /\ Keeping(has_cycle, e)
    <3>1. Rank(e) \notin I
      <4>1. Rank(e) \in Nat /\ Rank(c) \in Nat /\ ~(Rank(c) <= Rank(e))
        BY <1>1, <2>3
      <4>. HIDE DEF I
      <4>. QED BY <2>1, <2>2, <4>1
    <3>. QED BY <1>1, <3>1
  <2>4. /\ Comes(has_cycle, c) \in Search
        /\ c.search.visited \subseteq Comes(has_cycle, c).visited
    BY <2>3, ComesTyped
  <2>. QED BY <1>7, <2>2, <2>4 DEF Keeping
<1>. QED BY <1>7, <1>8

-----------------------------------------------------------------------------
(* What the search finds out. *)

Circle(S) == S # {} /\ \A a \in S : deps[a] \cap S # {}

\* The names F are behind each other: they depend on each other only, and not
\* in a circle.
Layered(F) ==
  /\ \A a \in F \cap Agents : deps[a] \subseteq F
  /\ \A S \in SUBSET (F \cap Agents) : ~Circle(S)

\* The names that has_cycle has returned from.
Behind(s) == s.visited \ s.stack

\* A call is on top of a path of calls, has looked at dependencies that are
\* behind it, and what is behind is no circle.
Begins(c) ==
  LET s == c.search
  IN  /\ ~s.cyclic
      /\ s.stack \subseteq s.visited /\ c.name \in s.stack /\ s.stack \ {c.name} \subseteq Agents
      /\ \A a \in s.stack \ {c.name} : deps[a] \cap s.stack # {}
      /\ c.todo \subseteq Dependencies(c.name)
      /\ Dependencies(c.name) \ c.todo \subseteq Behind(s)
      /\ Layered(Behind(s))

\* It returns with a circle in the graph, or behind everything it depends on.
Returns(c, t) ==
  IF t.cyclic THEN ~Acyclic
  ELSE /\ t.stack = c.search.stack \ {c.name} /\ t.stack \subseteq t.visited
       /\ c.name \in t.visited
       /\ Layered(Behind(t))

\* A circle of agents makes the graph circular.
LEMMA CircleFound ==
  ASSUME NEW S \in SUBSET Agents, Circle(S)
  PROVE  ~Acyclic
BY DEF Circle, Acyclic

\* A name whose dependencies are behind may go there as well.
LEMMA LayeredMore ==
  ASSUME NEW F, Layered(F), NEW n, n \notin F, Dependencies(n) \subseteq F
  PROVE  Layered(F \cup {n})
<1>1. \A a \in (F \cup {n}) \cap Agents : deps[a] \subseteq F
  BY DEF Layered, Dependencies
<1>2. ASSUME NEW S \in SUBSET ((F \cup {n}) \cap Agents), Circle(S) PROVE FALSE
  <2>1. \A a \in S : a \in Agents /\ n \notin deps[a]
    BY <1>1
  <2>2. \A a \in S : deps[a] \cap (S \ {n}) # {}
    BY <1>2, <2>1 DEF Circle
  <2>3. S \ {n} # {}
    BY <1>2, <2>2 DEF Circle
  <2>4. Circle(S \ {n}) /\ S \ {n} \in SUBSET (F \cap Agents)
    BY <2>2, <2>3 DEF Circle
  <2>. QED BY <2>4 DEF Layered
<1>. QED BY <1>1, <1>2 DEF Layered

\* A call that has looked at everything puts its name behind.
LEMMA LeftReturns ==
  ASSUME NEW c \in Activation, Begins(c), c.todo = {}
  PROVE  Returns(c, Left(c.search, c.name))
<1> DEFINE s == c.search
           t == Left(s, c.name)
<1>1. s \in Search
  BY DEF Activation
<1>2. t.cyclic = s.cyclic /\ t.visited = s.visited /\ t.stack = s.stack \ {c.name}
  BY <1>1 DEF Left, Search
<1>3. Behind(t) = Behind(s) \cup {c.name} /\ c.name \notin Behind(s)
  BY <1>2 DEF Behind, Begins
<1>4. Layered(Behind(t))
  <2>1. Layered(Behind(s)) /\ Dependencies(c.name) \subseteq Behind(s)
    BY DEF Begins
  <2>. QED BY <1>3, <2>1, LayeredMore
<1>. HIDE DEF t
<1>5. Returns(c, t)
  BY <1>2, <1>4 DEF Returns, Begins
<1>. QED BY <1>5 DEF t

\* A name on the stack that is met again closes a circle.
LEMMA MetAgain ==
  ASSUME NEW c \in Activation, Begins(c), NEW d \in c.todo, d \in c.search.stack
  PROVE  ~Acyclic
<1>1. c.name \in Agents /\ d \in deps[c.name]
  BY DEF Begins, Dependencies
<1>2. c.search.stack \in SUBSET Agents /\ Circle(c.search.stack)
  BY <1>1 DEF Begins, Circle
<1>. QED BY <1>2, CircleFound

\* A call of a name that was not visited begins on a longer path.
LEMMA CalledBegins ==
  ASSUME Typed, NEW c \in Activation, Begins(c), NEW d \in c.todo, d \notin c.search.visited
  PROVE  Called(d, c.search) \in Activation /\ Begins(Called(d, c.search))
<1> DEFINE e == Called(d, c.search)
           s == c.search
           t == e.search
<1>1. s \in Search /\ d \in Names
  BY DEF Activation
<1>2. /\ e \in Activation /\ e.name = d /\ e.todo = Dependencies(d)
      /\ t.visited = s.visited \cup {d} /\ t.stack = s.stack \cup {d} /\ t.cyclic = s.cyclic
  BY <1>1, CalledTyped
<1>3. c.name \in Agents /\ d \in deps[c.name]
  BY DEF Begins, Dependencies
<1>4. Behind(t) = Behind(s) /\ d \notin s.stack
  BY <1>2 DEF Behind, Begins
<1>5. s.stack \subseteq Agents /\ \A a \in s.stack : deps[a] \cap t.stack # {}
  BY <1>2, <1>3 DEF Begins
<1>. HIDE DEF e
<1>6. Begins(e)
  BY <1>2, <1>4, <1>5 DEF Begins
<1>. QED BY <1>2, <1>6 DEF e

\* A dependency that is behind is looked at, and the call goes on.
LEMMA GoesOnBegins ==
  ASSUME NEW c \in Activation, Begins(c), NEW d \in c.todo, NEW t \in Search,
         ~t.cyclic, t.stack = c.search.stack, c.search.visited \subseteq t.visited,
         d \in Behind(t), Layered(Behind(t))
  PROVE  GoesOn(c, d, t) \in Activation /\ Begins(GoesOn(c, d, t))
<1> DEFINE g == GoesOn(c, d, t)
<1>1. g \in Activation /\ g.name = c.name /\ g.todo = c.todo \ {d} /\ g.search = t
  BY GoesOnTyped
<1>. HIDE DEF g
<1>2. Behind(c.search) \subseteq Behind(t)
  BY DEF Behind
<1>3. Begins(g)
  BY <1>1, <1>2 DEF Begins
<1>. QED BY <1>1, <1>3 DEF g

\* Every call returns what it should.
LEMMA CallReturnsRight ==
  ASSUME Typed, NEW c \in Activation, Begins(c)
  PROVE  Returns(c, has_cycle[c])
<1> DEFINE Wrong(e) == Begins(e) /\ ~Returns(e, has_cycle[e])
           I == {k \in Nat : \E e \in Activation : Rank(e) = k /\ Wrong(e)}
<1>1. \A e \in Activation : Rank(e) \in Nat
  BY RankBounded
<1>. SUFFICES ASSUME I # {} PROVE FALSE
  BY <1>1
<1>2. PICK k \in I : \A i \in I : k <= i
  BY SmallestNat
<1>3. PICK e \in Activation : Rank(e) = k /\ Wrong(e)
  BY <1>2
<1>4. ASSUME NEW g \in Activation, Rank(g) < Rank(e), Begins(g)
      PROVE  Returns(g, has_cycle[g])
  <2>1. Rank(g) \notin I
    <3>1. Rank(g) \in Nat /\ Rank(e) \in Nat /\ ~(Rank(e) <= Rank(g))
      BY <1>1, <1>4
    <3>. HIDE DEF I
    <3>. QED BY <1>2, <1>3, <3>1
  <2>. QED BY <1>1, <1>4, <2>1
<1>5. Begins(e) /\ ~Returns(e, has_cycle[e])
  BY <1>3
<1>. HIDE DEF I, Wrong
<1>6. has_cycle[e] = Comes(has_cycle, e)
  BY SearchExists
<1>7. CASE e.todo = {}
  BY <1>5, <1>6, <1>7, LeftReturns DEF Comes
<1>8. CASE e.todo # {}
  <2> DEFINE d == Ahead(e)
             s == e.search
             t == Looked(has_cycle, e)
  <2>1. /\ d \in e.todo /\ d \in Names /\ t \in Search /\ s.visited \subseteq t.visited
    BY <1>8, SearchExists, ComesTyped
  <2>2. s \in Search /\ ~s.cyclic /\ s.stack \subseteq s.visited /\ Layered(Behind(s))
    BY <1>5 DEF Activation, Begins
  <2>3. \/ t.cyclic /\ ~Acyclic
        \/ ~t.cyclic /\ t.stack = s.stack /\ d \in Behind(t) /\ Layered(Behind(t))
    <3>1. CASE d \in s.visited
      <4>1. t = [s EXCEPT !.cyclic = d \in s.stack]
        BY <3>1 DEF Looked
      <4>2. t.cyclic = (d \in s.stack) /\ t.visited = s.visited /\ t.stack = s.stack
        BY <2>2, <4>1 DEF Search
      <4>3. CASE d \in s.stack
        BY <1>5, <2>1, <4>2, <4>3, MetAgain
      <4>4. CASE d \notin s.stack
        BY <2>2, <3>1, <4>2, <4>4 DEF Behind
      <4>. QED BY <4>3, <4>4
    <3>2. CASE d \notin s.visited
      <4> DEFINE g == Called(d, s)
      <4>1. t = has_cycle[g]
        BY <3>2 DEF Looked
      <4>2. g \in Activation /\ Begins(g)
        BY <1>5, <2>1, <3>2, CalledBegins
      <4>3. Rank(g) < Rank(e)
        BY <2>1, <3>2, CalledLess
      <4>4. Returns(g, t)
        BY <1>4, <4>1, <4>2, <4>3
      <4>5. g.name = d /\ g.search.stack = s.stack \cup {d}
        BY <2>1, <2>2, CalledTyped
      <4>. HIDE DEF g, t
      <4>6. CASE t.cyclic
        BY <4>4, <4>6 DEF Returns
      <4>7. CASE ~t.cyclic
        <5>1. /\ t.stack = (s.stack \cup {d}) \ {d} /\ d \in t.visited
              /\ Layered(Behind(t))
          BY <4>4, <4>5, <4>7 DEF Returns
        <5>2. d \notin s.stack
          BY <2>2, <3>2
        <5>3. t.stack = s.stack
          BY <5>1, <5>2
        <5>4. d \in Behind(t)
          BY <5>1, <5>2, <5>3 DEF Behind
        <5>. QED BY <4>7, <5>1, <5>3, <5>4
      <4>. QED BY <4>6, <4>7
    <3>. QED BY <3>1, <3>2
  <2>4. CASE t.cyclic
    <3>1. has_cycle[e] = t
      BY <1>6, <1>8, <2>4 DEF Comes
    <3>. QED BY <1>5, <2>3, <2>4, <3>1 DEF Returns
  <2>5. CASE ~t.cyclic
    <3> DEFINE g == GoesOn(e, d, t)
    <3>1. has_cycle[e] = has_cycle[g]
      BY <1>6, <1>8, <2>5 DEF Comes
    <3>2. g \in Activation /\ Begins(g)
      BY <1>5, <2>1, <2>3, <2>5, GoesOnBegins
    <3>3. Rank(g) < Rank(e)
      BY <2>1, GoesOnLess
    <3>4. Returns(g, has_cycle[g])
      BY <1>4, <3>2, <3>3
    <3>5. g.name = e.name /\ g.search.stack = s.stack
      BY <2>1, <2>3, <2>5, GoesOnTyped
    <3>. HIDE DEF g
    <3>. QED BY <1>5, <3>1, <3>4, <3>5 DEF Returns
  <2>. QED BY <2>4, <2>5
<1>. QED BY <1>7, <1>8

-----------------------------------------------------------------------------
(* The loop over the agents, and the theorem. *)

Untouched == [visited |-> {}, stack |-> {}, cyclic |-> FALSE]
Some(names) == CHOOSE n \in names : TRUE

\* What the search has found out when these agents have been looked at.
Knows(names, s) ==
  /\ s \in Search
  /\ IF s.cyclic THEN ~Acyclic
     ELSE s.stack = {} /\ names \subseteq s.visited /\ Layered(s.visited)

\* One more agent is looked at.
LEMMA CheckedKnows ==
  ASSUME Typed, NEW names \in SUBSET Agents, NEW n \in names, NEW s, Knows(names \ {n}, s)
  PROVE  Knows(names, Checked(n, s))
<1>1. s \in Search /\ n \in Names
  BY DEF Knows, Names
<1>2. CASE s.cyclic \/ n \in s.visited
  BY <1>2 DEF Knows, Checked
<1>3. CASE ~s.cyclic /\ n \notin s.visited
  <2> DEFINE c == Called(n, s)
             t == has_cycle[c]
  <2>1. Checked(n, s) = t
    BY <1>3 DEF Checked
  <2>2. s.stack = {} /\ names \ {n} \subseteq s.visited /\ Layered(s.visited)
    BY <1>3 DEF Knows
  <2>3. /\ c \in Activation /\ c.name = n /\ c.todo = Dependencies(n)
        /\ c.search.visited = s.visited \cup {n} /\ c.search.stack = {n}
        /\ c.search.cyclic = s.cyclic
    <3>1. c.search.stack = s.stack \cup {n}
      BY <1>1, CalledTyped
    <3>. QED BY <1>1, <2>2, <3>1, CalledTyped
  <2>4. Behind(c.search) = s.visited
    BY <1>3, <2>3 DEF Behind
  <2>. HIDE DEF c
  <2>5. Begins(c)
    BY <1>3, <2>2, <2>3, <2>4 DEF Begins
  <2>6. Returns(c, t) /\ t \in Search /\ c.search.visited \subseteq t.visited
    BY <2>3, <2>5, CallReturnsRight, SearchExists DEF Keeping
  <2>. HIDE DEF t
  <2>7. CASE t.cyclic
    BY <2>1, <2>6, <2>7 DEF Knows, Returns
  <2>8. CASE ~t.cyclic
    <3>1. t.stack = {} /\ Layered(Behind(t))
      BY <2>3, <2>6, <2>8 DEF Returns
    <3>2. Behind(t) = t.visited
      BY <3>1 DEF Behind
    <3>3. names \subseteq t.visited
      BY <2>2, <2>3, <2>6
    <3>. QED BY <2>1, <2>6, <2>8, <3>1, <3>2, <3>3 DEF Knows
  <2>. QED BY <2>7, <2>8
<1>. QED BY <1>2, <1>3

\* The loop has looked at every agent.
LEMMA SearchedKnows == ASSUME Typed PROVE Knows(Agents, Searched)
<1> DEFINE after(f, names) == IF names = {} THEN Untouched
                              ELSE Checked(Some(names), f[names \ {Some(names)}])
           body(f) == [names \in SUBSET Agents |-> after(f, names)]
           size(names) == Cardinality(names)
           Solved(f, k) == /\ DOMAIN f = SUBSET Agents
                           /\ f = [names \in SUBSET Agents |-> f[names]]
                           /\ \A names \in SUBSET Agents :
                                size(names) < k => f[names] = after(f, names)
<1>1. \A names \in SUBSET Agents :
        /\ size(names) \in Nat /\ size(names) <= Cardinality(Agents)
        /\ names # {} => /\ Some(names) \in names
                         /\ size(names \ {Some(names)}) = size(names) - 1
  <2>. SUFFICES ASSUME NEW names \in SUBSET Agents
                PROVE  /\ size(names) \in Nat /\ size(names) <= Cardinality(Agents)
                       /\ names # {} => /\ Some(names) \in names
                                        /\ size(names \ {Some(names)}) = size(names) - 1
    OBVIOUS
  <2>1. IsFiniteSet(names) /\ size(names) <= Cardinality(Agents)
    BY FS_Subset
  <2>2. names # {} => Some(names) \in names
    BY DEF Some
  <2>. QED BY <2>1, <2>2, FS_CardinalityType, FS_RemoveElement
<1>2. Cardinality(Agents) \in Nat
  BY FS_CardinalityType
<1>. HIDE DEF size
<1>3. ASSUME NEW f, NEW k \in Nat, Solved(f, k) PROVE Solved(body(f), k + 1)
  <2> DEFINE h == body(f)
  <2>1. /\ DOMAIN h = SUBSET Agents /\ h = [names \in SUBSET Agents |-> h[names]]
        /\ \A names \in SUBSET Agents : h[names] = after(f, names)
    OBVIOUS
  <2>2. ASSUME NEW names \in SUBSET Agents, size(names) < k + 1
        PROVE  after(f, names) = after(h, names)
    <3>1. CASE names = {}
      BY <3>1
    <3>2. CASE names # {}
      <4> DEFINE less == names \ {Some(names)}
      <4>1. less \in SUBSET Agents /\ size(less) < k
        BY <1>1, <2>2, <3>2
      <4>2. f[less] = after(f, less) /\ h[less] = after(f, less)
        BY <1>3, <2>1, <4>1
      <4>. HIDE DEF h
      <4>. QED BY <3>2, <4>2
    <3>. QED BY <3>1, <3>2
  <2>. HIDE DEF h, after
  <2>3. \A names \in SUBSET Agents : size(names) < k + 1 => h[names] = after(h, names)
    BY <2>1, <2>2
  <2>. QED BY <2>1, <2>3 DEF h
<1>4. \A k \in Nat : \E f : Solved(f, k)
  <2>. HIDE DEF body, after
  <2> DEFINE I == {k \in Nat : ~ \E f : Solved(f, k)}
  <2>. SUFFICES ASSUME I # {} PROVE FALSE
    OBVIOUS
  <2>1. PICK k \in I : \A i \in I : k <= i
    BY SmallestNat
  <2>2. k \in Nat /\ ~ \E f : Solved(f, k)
    BY <2>1
  <2>3. CASE k = 0
    <3> DEFINE f == [names \in SUBSET Agents |-> 0]
    <3>1. ASSUME NEW names \in SUBSET Agents PROVE ~(size(names) < 0)
      <4>1. size(names) \in Nat
        BY <1>1
      <4>. QED BY <4>1
    <3>2. DOMAIN f = SUBSET Agents /\ f = [names \in SUBSET Agents |-> f[names]]
      OBVIOUS
    <3>. HIDE DEF f
    <3>3. Solved(f, 0)
      BY <3>1, <3>2
    <3>. QED BY <2>2, <2>3, <3>3
  <2>4. CASE k # 0
    <3>1. k - 1 \in Nat /\ ~(k <= k - 1) /\ k - 1 + 1 = k
      BY <2>2, <2>4
    <3>2. k - 1 \notin I
      <4>. HIDE DEF I
      <4>. QED BY <2>1, <3>1
    <3>3. PICK f : Solved(f, k - 1)
      BY <3>1, <3>2
    <3>. HIDE DEF Solved
    <3>4. Solved(body(f), k - 1 + 1)
      BY <1>3, <3>1, <3>3
    <3>. QED BY <2>2, <3>1, <3>4
  <2>. QED BY <2>3, <2>4
<1> DEFINE all == CHOOSE f : f = body(f)
<1>5. all = body(all)
  <2>1. PICK f : Solved(f, Cardinality(Agents) + 1)
    <3>. HIDE DEF Solved
    <3>. QED BY <1>2, <1>4
  <2>2. \A names \in SUBSET Agents : f[names] = after(f, names)
    <3>1. ASSUME NEW names \in SUBSET Agents PROVE size(names) < Cardinality(Agents) + 1
      <4>1. size(names) \in Nat /\ size(names) <= Cardinality(Agents)
        BY <1>1
      <4>. QED BY <1>2, <4>1
    <3>. HIDE DEF after
    <3>. QED BY <2>1, <3>1
  <2>3. f = body(f)
    <3>. HIDE DEF after
    <3>. QED BY <2>1, <2>2
  <2>. HIDE DEF body
  <2>. QED BY <2>3
<1>6. Searched = all[Agents]
  BY DEF Searched, FoldSet, MapThenFoldSet, Untouched, Some
<1>. HIDE DEF all
<1>7. \A names \in SUBSET Agents : all[names] = after(all, names)
  <2>. HIDE DEF after
  <2>. QED BY <1>5
<1>8. \A names \in SUBSET Agents : Knows(names, all[names])
  <2> DEFINE I == {k \in Nat : \E names \in SUBSET Agents : size(names) = k
                                                         /\ ~Knows(names, all[names])}
  <2>. SUFFICES ASSUME I # {} PROVE FALSE
    BY <1>1
  <2>1. PICK k \in I : \A i \in I : k <= i
    BY SmallestNat
  <2>2. PICK names \in SUBSET Agents : size(names) = k /\ ~Knows(names, all[names])
    BY <2>1
  <2>3. CASE names = {}
    <3>1. all[names] = Untouched
      BY <1>7, <2>3
    <3>2. Knows({}, Untouched)
      BY DEF Knows, Untouched, Search, Layered, Circle
    <3>. QED BY <2>2, <2>3, <3>1, <3>2
  <2>4. CASE names # {}
    <3> DEFINE n == Some(names)
               less == names \ {n}
    <3>1. n \in names /\ less \in SUBSET Agents /\ size(less) = k - 1 /\ k \in Nat
      BY <1>1, <2>1, <2>2, <2>4
    <3>2. size(less) \in Nat /\ ~(k <= size(less))
      <4>1. size(less) \in Nat
        <5>. HIDE DEF less
        <5>. QED BY <1>1, <3>1
      <4>. HIDE DEF less
      <4>. QED BY <3>1, <4>1
    <3>3. size(less) \notin I
      <4>. HIDE DEF I, less
      <4>. QED BY <2>1, <3>2
    <3>4. Knows(less, all[less])
      BY <3>1, <3>2, <3>3
    <3>5. all[names] = Checked(n, all[less])
      BY <1>7, <2>4
    <3>. HIDE DEF n
    <3>. QED BY <2>2, <3>1, <3>4, <3>5, CheckedKnows
  <2>. QED BY <2>3, <2>4
<1>. QED BY <1>6, <1>8

\* The search finds a circle exactly if there is one.
LEMMA SearchIsRight == ASSUME Typed PROVE Searched.cyclic <=> ~Acyclic
<1>1. Knows(Agents, Searched)
  BY SearchedKnows
<1>2. ASSUME ~Searched.cyclic PROVE Acyclic
  <2>1. Agents \subseteq Searched.visited /\ Layered(Searched.visited)
    BY <1>1, <1>2 DEF Knows
  <2>2. ASSUME NEW S \in (SUBSET Agents) \ {{}} PROVE ~Circle(S)
    BY <2>1 DEF Layered
  <2>. QED BY <2>2 DEF Acyclic, Circle
<1>. QED BY <1>1, <1>2 DEF Knows

-----------------------------------------------------------------------------
(* Sequences without repetition. *)

\* A finite set is listed without repetition.
LEMMA Listed ==
  ASSUME NEW S, IsFiniteSet(S)
  PROVE  /\ SetToSeq(S) \in Seq(S) /\ IsInjective(SetToSeq(S))
         /\ ToSet(SetToSeq(S)) = S
<1> DEFINE n == Cardinality(S)
           F == {f \in [1..n -> S] : IsInjective(f)}
<1>1. n \in Nat /\ \E f : f \in Bijection(1..n, S)
  BY FS_CardinalityType DEF ExistsBijection
<1>2. F # {}
  BY <1>1 DEF Bijection, Injection, IsInjective
<1>3. SetToSeq(S) \in F
  BY <1>2 DEF SetToSeq
<1>4. SetToSeq(S) \in Injection(1..n, S)
  BY <1>3 DEF Injection
<1>5. Cardinality(1..n) = n
  BY <1>1, FS_Interval
<1>6. SetToSeq(S) \in Surjection(1..n, S)
  BY <1>4, <1>5, FS_Injection
<1>. QED BY <1>1, <1>3, <1>6 DEF Surjection, ToSet

\* Two such sequences without a common element make one.
LEMMA Joined ==
  ASSUME NEW S, NEW p \in Seq(S), NEW q \in Seq(S),
         IsInjective(p), IsInjective(q), ToSet(p) \cap ToSet(q) = {}
  PROVE  /\ p \o q \in Seq(S) /\ IsInjective(p \o q)
         /\ ToSet(p \o q) = ToSet(p) \cup ToSet(q)
<1>1. /\ p \o q \in Seq(S) /\ DOMAIN (p \o q) = 1..(Len(p) + Len(q))
      /\ \A i \in DOMAIN p : i \in DOMAIN (p \o q) /\ (p \o q)[i] = p[i]
      /\ \A i \in DOMAIN q : Len(p) + i \in DOMAIN (p \o q) /\ (p \o q)[Len(p) + i] = q[i]
  OBVIOUS
<1>2. \A i \in DOMAIN (p \o q) :
        \/ i \in DOMAIN p
        \/ i - Len(p) \in DOMAIN q /\ Len(p) + (i - Len(p)) = i /\ i \in Int
  BY <1>1
<1>3. \A i \in DOMAIN (p \o q) :
        \/ i \in DOMAIN p /\ (p \o q)[i] = p[i]
        \/ i - Len(p) \in DOMAIN q /\ (p \o q)[i] = q[i - Len(p)] /\ i \in Int
  BY <1>1, <1>2
<1>4. \A i \in DOMAIN p, j \in DOMAIN q : p[i] # q[j]
  BY DEF ToSet
<1>5. ASSUME NEW i \in DOMAIN (p \o q), NEW j \in DOMAIN (p \o q), (p \o q)[i] = (p \o q)[j]
      PROVE  i = j
  <2>1. CASE i \in DOMAIN p /\ (p \o q)[i] = p[i]
    BY <2>1, <1>3, <1>4, <1>5 DEF IsInjective
  <2>2. CASE i - Len(p) \in DOMAIN q /\ (p \o q)[i] = q[i - Len(p)] /\ i \in Int
    <3>1. j - Len(p) \in DOMAIN q /\ (p \o q)[j] = q[j - Len(p)] /\ j \in Int
      BY <2>2, <1>3, <1>4, <1>5
    <3>2. i - Len(p) = j - Len(p)
      BY <2>2, <3>1, <1>5 DEF IsInjective
    <3>. QED BY <2>2, <3>1, <3>2
  <2>. QED BY <1>3, <2>1, <2>2
<1>6. ToSet(p \o q) = ToSet(p) \cup ToSet(q)
  <2>1. ASSUME NEW x \in ToSet(p \o q) PROVE x \in ToSet(p) \cup ToSet(q)
    BY <1>3 DEF ToSet
  <2>2. ASSUME NEW x \in ToSet(p) PROVE x \in ToSet(p \o q)
    BY <1>1 DEF ToSet
  <2>3. ASSUME NEW x \in ToSet(q) PROVE x \in ToSet(p \o q)
    BY <1>1 DEF ToSet
  <2>. QED BY <2>1, <2>2, <2>3
<1>. QED BY <1>1, <1>5, <1>6 DEF IsInjective

\* Such a sequence is no longer than there are elements.
LEMMA Bounded ==
  ASSUME NEW S, IsFiniteSet(S), NEW p \in Seq(S), IsInjective(p)
  PROVE  Len(p) <= Cardinality(S)
<1>1. p \in Injection(1..Len(p), S)
  BY DEF Injection
<1>2. Cardinality(1..Len(p)) <= Cardinality(S)
  BY <1>1, FS_Injection
<1>3. Len(p) \in Nat /\ Cardinality(1..Len(p)) = Len(p)
  <2>1. Len(p) \in Nat
    OBVIOUS
  <2>2. Cardinality(1..Len(p)) = IF 1 > Len(p) THEN 0 ELSE Len(p) - 1 + 1
    BY <2>1, FS_Interval
  <2>. QED BY <2>1, <2>2
<1>. QED BY <1>2, <1>3

-----------------------------------------------------------------------------
(* The inductive invariant. *)

Ran == ToSet(order)

\* Agents have tasks, and somebody waits for them, during a wave only.
WavesOnly ==
  /\ stage # "wave" => agent = Idle /\ ~cancelled
  /\ \A a \in Agents : agent[a] = "cut" => cancelled

\* A wave has agents that have not run yet and whose dependencies have.
WaveIsDue == \A a \in Agents : agent[a] # "idle" => a \notin Ran /\ deps[a] \subseteq Ran

\* The table has an outcome of those who ran, and of nobody else before the end.
TableIsOrder ==
  \A a \in Agents : /\ a \in Ran <=> results[a] \in Outcomes
                    /\ results[a] = "unsatisfied" => stage = "returned"

Ordered ==
  /\ mode # "dag" => deps = NoDependencies
  /\ IsInjective(order)
  /\ \A i \in DOMAIN order : \A d \in deps[order[i]] : \E j \in 1..(i - 1) : order[j] = d

Types ==
  /\ mode \in Modes /\ deps \in [Agents -> SUBSET Names]
  /\ deps \in Graphs \cup {NoDependencies}
  /\ stage \in {"new", "built", "choosing", "wave"} \cup Final
  /\ relevant \in [Agents -> Answers]
  /\ agent \in [Agents -> {"idle", "created", "running", "raised", "cut"} \cup Outcomes]
  /\ cancelled \in BOOLEAN
  /\ results \in [Agents -> {"none", "unsatisfied"} \cup Outcomes]
  /\ order \in Seq(Agents)
  /\ changes \in 0..MaxChanges

Sound == Types /\ WavesOnly /\ WaveIsDue /\ TableIsOrder /\ Ordered /\ AllReported /\ SkipsExplained

\* In a graph without circles someone is left over for a reason of its own.
LEMMA OneToBlame == ASSUME Sound, CyclesRejected PROVE NobodyStuck
<1>. SUFFICES ASSUME mode = "dag", stage = "returned",
                     \A a \in Agents : relevant[a] = "yes" /\ Unknown \notin deps[a],
                     NEW b \in Agents, results[b] = "unsatisfied"
              PROVE  FALSE
  BY DEF NobodyStuck
<1> DEFINE U == {a \in Agents : results[a] = "unsatisfied"}
<1>1. Acyclic
  BY DEF CyclesRejected
<1>2. U \in (SUBSET Agents) \ {{}}
  OBVIOUS
<1>3. PICK a \in U : deps[a] \cap U = {}
  <2>. HIDE DEF U
  <2>. QED BY <1>1, <1>2 DEF Acyclic
<1>4. PICK d \in deps[a] : results[d] = "unsatisfied"
  BY <1>3 DEF Sound, SkipsExplained
<1>5. d \in Agents
  BY <1>3, <1>4 DEF Sound, Types, Names
<1>. QED BY <1>3, <1>4, <1>5

\* The strengthening says what the workflow promises.
LEMMA SoundIsAccounted == Sound /\ CyclesRejected => AgentsAccounted
<1>. SUFFICES ASSUME Sound, CyclesRejected PROVE AgentsAccounted
  OBVIOUS
<1>1. TypeOK
  BY Bounded DEF Sound, Types, Ordered, TypeOK
<1>2. DependenciesFirst
  BY DEF Sound, Ordered, WaveIsDue, Ran, DependenciesFirst
<1>3. NobodyLeftRunning
  BY DEF Sound, WavesOnly, NobodyLeftRunning, Final
<1>4. NobodyStuck
  BY OneToBlame
<1>. QED BY <1>1, <1>2, <1>3, <1>4 DEF Sound, AgentsAccounted

\* At first nobody has run.
LEMMA InitSound == Init => Sound
<1>. SUFFICES ASSUME Init PROVE Sound
  OBVIOUS
<1>1. Ran = {} /\ IsInjective(order)
  BY DEF Init, Ran, ToSet, IsInjective
<1>2. deps \in Graphs \cup {NoDependencies} /\ (mode # "dag" => deps = NoDependencies)
  BY DEF Init
<1>3. Types
  <2>1. deps \in [Agents -> SUBSET Names]
    BY <1>2 DEF NoDependencies
  <2>2. agent \in [Agents -> {"idle", "created", "running", "raised", "cut"} \cup Outcomes]
    BY DEF Init, Idle
  <2>3. relevant \in [Agents -> Answers] /\ order \in Seq(Agents)
    BY DEF Init, Answers
  <2>4. results \in [Agents -> {"none", "unsatisfied"} \cup Outcomes] /\ changes \in 0..MaxChanges
    BY DEF Init
  <2>5. cancelled \in BOOLEAN
    BY DEF Init
  <2>. QED BY <1>2, <2>1, <2>2, <2>3, <2>4, <2>5 DEF Init, Types
<1>4. WavesOnly /\ WaveIsDue
  BY DEF Init, WavesOnly, WaveIsDue, Idle
<1>5. TableIsOrder /\ AllReported /\ SkipsExplained
  BY <1>1 DEF Init, TableIsOrder, AllReported, SkipsExplained, Outcomes
<1>6. Ordered
  BY <1>1, <1>2 DEF Init, Ordered
<1>. QED BY <1>3, <1>4, <1>5, <1>6 DEF Sound

-----------------------------------------------------------------------------
(* The steps between waves. *)

\* A step that leaves the agents and what they did alone, outside the waves.
LEMMA StageSound ==
  ASSUME Sound, stage # "wave", stage' # "wave", stage # "returned", stage' # "returned",
         stage' \in {"new", "built", "choosing", "wave"} \cup Final,
         relevant' \in [Agents -> Answers],
         UNCHANGED <<mode, deps, agent, cancelled, results, order, changes>>
  PROVE  Sound'
<1>1. Types'
  BY DEF Sound, Types
<1>2. WavesOnly'
  BY DEF Sound, WavesOnly, Idle
<1>3. WaveIsDue' /\ TableIsOrder'
  BY DEF Sound, WaveIsDue, TableIsOrder, Ran
<1>4. Ordered' /\ AllReported'
  BY DEF Sound, Ordered, NoDependencies, AllReported
<1>5. SkipsExplained'
  BY DEF Sound, TableIsOrder, SkipsExplained
<1>. QED BY <1>1, <1>2, <1>3, <1>4, <1>5 DEF Sound

\* Who is in a wave has not run, and all it depends on has.
LEMMA ReadyIsDue ==
  ASSUME Sound, stage = "choosing", NEW wave \in Ready
  PROVE  \A a \in wave : a \in Agents /\ a \notin Ran /\ deps[a] \subseteq Ran
<1>1. Completed = Ran
  BY DEF Sound, Types, TableIsOrder, Completed, Ran, ToSet, Outcomes
<1>2. CASE mode = "dag"
  BY <1>1, <1>2 DEF Ready, Due
<1>3. CASE mode \in {"sequential", "parallel"}
  <2>1. \A a \in wave : a \in Agents \ Completed
    BY <1>3 DEF Ready
  <2>. QED BY <1>1, <1>3, <2>1 DEF Sound, Ordered, NoDependencies
<1>4. CASE mode = "conditional"
  <2>1. \A a \in wave : a \in Agents /\ order = << >>
    BY <1>4 DEF Ready, Asked
  <2>. QED BY <1>4, <2>1 DEF Sound, Ordered, NoDependencies, Ran, ToSet
<1>. QED BY <1>2, <1>3, <1>4 DEF Sound, Types

\* StartWave.
LEMMA StartWaveSound == ASSUME Sound, StartWave PROVE Sound'
<1>1. PICK wave \in Ready \ {{}} :
        agent' = [a \in Agents |-> IF a \notin wave THEN "idle"
                                    ELSE IF mode = "sequential" THEN Begun(a)
                                    ELSE "created"]
  BY DEF StartWave
<1>2. \A a \in Agents : Begun(a) \in {"running", "skipped", "raised"}
  BY DEF Sound, Types, Answers, Begun
<1>3. Types'
  BY <1>1, <1>2 DEF StartWave, Sound, Types, Outcomes
<1>4. \A a \in Agents : /\ agent'[a] # "idle" => a \in wave
                        /\ agent'[a] # "cut"
  BY <1>1, <1>2
<1>5. WavesOnly'
  BY <1>4 DEF StartWave, WavesOnly
<1>6. WaveIsDue'
  BY <1>1, <1>4, ReadyIsDue DEF StartWave, WaveIsDue, Ran
<1>7. TableIsOrder' /\ Ordered' /\ AllReported'
  BY DEF StartWave, Sound, TableIsOrder, Ordered, AllReported, Ran, NoDependencies
<1>8. SkipsExplained'
  BY DEF StartWave, Sound, TableIsOrder, SkipsExplained
<1>. QED BY <1>3, <1>5, <1>6, <1>7, <1>8 DEF Sound

\* Return: nobody is ready, so whoever has not run has a reason.
LEMMA ReturnSound == ASSUME Sound, ReturnResult PROVE Sound'
<1>1. stage = "choosing" /\ stage' = "returned" /\ {} \in Ready
      /\ UNCHANGED <<mode, deps, relevant, agent, cancelled, order, changes>>
  BY DEF ReturnResult
<1>2. results' = [a \in Agents |-> IF mode = "dag" /\ results[a] = "none" THEN "unsatisfied"
                                   ELSE results[a]]
  BY DEF ReturnResult, Finished
<1>3. Types'
  BY <1>1, <1>2 DEF Sound, Types, Final
<1>4. WavesOnly' /\ WaveIsDue' /\ Ordered'
  BY <1>1 DEF Sound, WavesOnly, WaveIsDue, Ordered, Ran, Idle, NoDependencies
<1>5. TableIsOrder'
  BY <1>1, <1>2 DEF Sound, Types, TableIsOrder, Ran, Outcomes
<1>6. AllReported'
  <2>1. CASE mode = "dag"
    BY <1>2, <2>1 DEF AllReported
  <2>2. CASE mode = "sequential" \/ mode = "parallel"
    <3>1. Completed = Agents
      <4>1. CASE mode = "sequential"
        BY <1>1, <4>1 DEF Ready
      <4>2. CASE mode = "parallel"
        BY <1>1, <4>2 DEF Ready, Completed
      <4>. QED BY <2>2, <4>1, <4>2
    <3>2. \A a \in Agents : results[a] # "none"
      BY <3>1 DEF Completed
    <3>. QED BY <1>2, <3>2 DEF AllReported
  <2>. QED BY <1>1, <2>1, <2>2 DEF Sound, Types, AllReported
<1>7. SkipsExplained'
  <2>. SUFFICES ASSUME NEW a \in Agents, results'[a] = "unsatisfied"
                PROVE  \/ relevant[a] # "yes"
                       \/ \E d \in deps[a] : d = Unknown \/ results'[d] = "unsatisfied"
    BY <1>1 DEF SkipsExplained
  <2>1. mode = "dag" /\ results[a] = "none"
    BY <1>1, <1>2 DEF Sound, TableIsOrder
  <2>2. CASE deps[a] \subseteq Completed
    <3>1. a \in Due
      BY <2>1, <2>2 DEF Due, Completed
    <3>. QED BY <1>1, <2>1, <3>1 DEF Ready
  <2>3. CASE ~(deps[a] \subseteq Completed)
    <3>1. PICK d \in deps[a] : d \notin Completed
      BY <2>3
    <3>2. CASE d \in Agents
      BY <1>2, <2>1, <3>1, <3>2 DEF Completed
    <3>3. CASE d \notin Agents
      BY <3>3 DEF Sound, Types, Names
    <3>. QED BY <3>2, <3>3
  <2>. QED BY <2>2, <2>3
<1>. QED BY <1>3, <1>4, <1>5, <1>6, <1>7 DEF Sound

-----------------------------------------------------------------------------
(* The steps of a wave. *)

\* A step that moves agents of the wave, or the context while one runs.
LEMMA WaveSound ==
  ASSUME Sound, stage = "wave",
         UNCHANGED <<mode, deps, stage, results, order>>,
         relevant' \in [Agents -> Answers], changes' \in 0..MaxChanges,
         cancelled' \in BOOLEAN, cancelled => cancelled',
         agent' \in [Agents -> {"idle", "created", "running", "raised", "cut"} \cup Outcomes],
         \A a \in Agents : /\ agent'[a] # "idle" => agent[a] # "idle"
                           /\ agent'[a] = "cut" => agent[a] = "cut" \/ cancelled
  PROVE  Sound'
<1>1. Types'
  BY DEF Sound, Types
<1>2. WavesOnly'
  BY DEF Sound, WavesOnly
<1>3. WaveIsDue' /\ TableIsOrder'
  BY DEF Sound, WaveIsDue, TableIsOrder, Ran
<1>4. Ordered' /\ AllReported'
  BY DEF Sound, Ordered, NoDependencies, AllReported
<1>5. SkipsExplained'
  BY DEF Sound, TableIsOrder, SkipsExplained
<1>. QED BY <1>1, <1>2, <1>3, <1>4, <1>5 DEF Sound

\* _execute_agent of one agent, its cancellation, and the cancellation of all.
LEMMA AgentSound ==
  ASSUME Sound,
         \/ Cancel
         \/ \E a \in Agents : Begin(a) \/ Cut(a) \/ \E how \in {"completed", "failed"} : AgentEnds(a, how)
  PROVE  Sound'
<1>. USE DEF Set, KeepWave
<1>0. \A a \in Agents : agent[a] # "idle" => stage = "wave"
  BY DEF Sound, Types, WavesOnly, Idle
<1>1. CASE Cancel
  <2>. QED BY <1>1, WaveSound DEF Cancel, Sound, Types
<1>2. ASSUME NEW a \in Agents, Begin(a) PROVE Sound'
  <2>1. Begun(a) \in {"running", "skipped", "raised"}
    BY DEF Sound, Types, Answers, Begun
  <2>2. stage = "wave"
    BY <1>0, <1>2 DEF Begin
  <2>. QED BY <1>2, <2>1, <2>2, WaveSound DEF Begin, Sound, Types, Outcomes
<1>3. ASSUME NEW a \in Agents, Cut(a) PROVE Sound'
  <2>1. stage = "wave"
    BY <1>0, <1>3 DEF Cut
  <2>. QED BY <1>3, <2>1, WaveSound DEF Cut, Sound, Types
<1>4. ASSUME NEW a \in Agents, NEW how \in {"completed", "failed"}, AgentEnds(a, how) PROVE Sound'
  <2>1. stage = "wave"
    BY <1>0, <1>4 DEF AgentEnds
  <2>. QED BY <1>4, <2>1, WaveSound DEF AgentEnds, Sound, Types, Outcomes
<1>. QED BY <1>1, <1>2, <1>3, <1>4

\* ContextChanges.
LEMMA ContextSound ==
  ASSUME Sound, NEW a \in Agents, NEW answer \in Answers, ContextChanges(a, answer)
  PROVE  Sound'
<1>1. stage = "wave"
  BY DEF ContextChanges, Sound, Types, WavesOnly, Idle
<1>2. relevant' \in [Agents -> Answers] /\ changes' \in 0..MaxChanges
  BY DEF ContextChanges, Sound, Types
<1>. QED BY <1>1, <1>2, WaveSound DEF ContextChanges, KeepWave, Sound, Types

\* Gathered: the wave is over, or the execution is.
LEMMA GatheredSound == ASSUME Sound, Gathered PROVE Sound'
<1> DEFINE wave == {a \in Agents : agent[a] # "idle"}
           cut == IF mode = "sequential" THEN \E a \in wave : agent[a] = "cut" ELSE cancelled
           raised == mode = "sequential" /\ \E a \in wave : agent[a] = "raised"
<1>1. /\ stage = "wave" /\ \A a \in wave : agent[a] \notin {"created", "running"}
      /\ agent' = Idle /\ cancelled' = FALSE
      /\ UNCHANGED <<mode, deps, relevant, changes>>
  BY DEF Gathered
<1>2. WavesOnly' /\ WaveIsDue'
  BY <1>1 DEF WavesOnly, WaveIsDue, Idle
<1>3. CASE cut \/ raised
  <2>1. stage' \in {"cancelled", "raised"} /\ UNCHANGED <<results, order>>
    BY <1>3 DEF Gathered
  <2>2. Types'
    BY <1>1, <2>1 DEF Sound, Types, Idle, Final
  <2>3. TableIsOrder' /\ Ordered' /\ AllReported'
    BY <1>1, <2>1 DEF Sound, TableIsOrder, Ordered, AllReported, Ran, NoDependencies
  <2>4. SkipsExplained'
    BY <1>1, <2>1 DEF Sound, TableIsOrder, SkipsExplained
  <2>. QED BY <1>2, <2>2, <2>3, <2>4 DEF Sound
<1>4. CASE ~(cut \/ raised)
  <2>1. /\ results' = [a \in Agents |-> Result(a)]
        /\ order' = order \o SetToSeq(wave)
        /\ stage' = "choosing"
    BY <1>4 DEF Gathered
  <2>2. \A a \in wave : agent[a] # "cut"
    BY <1>4 DEF Sound, WavesOnly
  <2>3. \A a \in Agents : Result(a) = results[a] \/ Result(a) \in Outcomes
    BY <1>1, <2>2 DEF Sound, Types, Result, Outcomes
  <2>4. \A a \in wave : Result(a) \in Outcomes
    BY <1>1, <2>2 DEF Sound, Types, Result, Outcomes
  <2>5. \A a \in Agents \ wave : Result(a) = results[a]
    BY DEF Result
  <2>6. wave \subseteq Agents /\ IsFiniteSet(wave)
    BY FS_Subset
  <2>. HIDE DEF wave, cut, raised
  <2> DEFINE q == SetToSeq(wave)
  <2>7. q \in Seq(Agents) /\ IsInjective(q) /\ ToSet(q) = wave
    <3>1. q \in Seq(wave) /\ IsInjective(q) /\ ToSet(q) = wave
      BY <2>6, Listed
    <3>. QED BY <2>6, <3>1
  <2>8. \A a \in wave : a \notin Ran /\ deps[a] \subseteq Ran
    BY DEF Sound, WaveIsDue, wave
  <2>. HIDE DEF q
  <2>9. order' \in Seq(Agents) /\ IsInjective(order') /\ Ran' = Ran \cup wave
    BY <2>1, <2>7, <2>8, Joined DEF Sound, Types, Ordered, Ran, q
  <2>10. Types'
    BY <1>1, <2>1, <2>3, <2>9 DEF Sound, Types, Idle
  <2>11. TableIsOrder'
    <3>1. ASSUME NEW a \in Agents, a \in wave
          PROVE  a \in Ran' /\ results'[a] \in Outcomes
      BY <2>1, <2>4, <2>9, <3>1
    <3>2. ASSUME NEW a \in Agents, a \notin wave
          PROVE  results'[a] = results[a] /\ (a \in Ran' <=> a \in Ran)
      BY <2>1, <2>5, <2>9, <3>2
    <3>. QED BY <1>1, <3>1, <3>2 DEF Sound, TableIsOrder, Outcomes
  <2>12. ASSUME NEW i \in DOMAIN order', NEW d \in deps[order'[i]]
         PROVE  \E j \in 1..(i - 1) : order'[j] = d
    <3>1. /\ order \in Seq(Agents) /\ Len(order) \in Nat
          /\ \A k \in DOMAIN order : order'[k] = order[k]
      BY <2>1, <2>7 DEF Sound, Types, q
    <3>2. CASE i \in DOMAIN order
      BY <2>12, <3>1, <3>2 DEF Sound, Ordered
    <3>3. CASE i \notin DOMAIN order
      <4>1. i > Len(order) /\ i \in Nat /\ order'[i] = q[i - Len(order)] /\ i - Len(order) \in DOMAIN q
        BY <2>1, <2>7, <3>1, <3>3 DEF q
      <4>2. order'[i] \in wave
        BY <2>7, <4>1 DEF ToSet
      <4>3. PICK j \in DOMAIN order : order[j] = d
        BY <2>8, <2>12, <4>2 DEF Ran, ToSet
      <4>4. j \in 1..(i - 1) /\ order'[j] = d
        BY <3>1, <4>1, <4>3
      <4>. QED BY <4>4
    <3>. QED BY <3>2, <3>3
  <2>13. Ordered'
    BY <1>1, <2>9, <2>12 DEF Sound, Ordered, NoDependencies
  <2>14. AllReported' /\ SkipsExplained'
    BY <1>1, <2>1, <2>3 DEF Sound, TableIsOrder, AllReported, SkipsExplained, Outcomes
  <2>. QED BY <1>2, <2>10, <2>11, <2>13, <2>14 DEF Sound
<1>. QED BY <1>3, <1>4

-----------------------------------------------------------------------------
\* Every step keeps it.
LEMMA NextSound == Sound /\ [Next]_vars => Sound'
<1>. SUFFICES ASSUME Sound, [Next]_vars PROVE Sound'
  OBVIOUS
<1>1. CASE Construct
  <2>1. stage' \in {"rejected", "built"}
    BY <1>1 DEF Construct
  <2>. QED BY <1>1, <2>1, StageSound DEF Construct, Sound, Types, Final
<1>2. CASE Start
  BY <1>2, StageSound DEF Start, Final
<1>3. CASE ConditionRaises
  BY <1>3, StageSound DEF ConditionRaises, Sound, Types, Final
<1>4. CASE StartWave
  BY <1>4, StartWaveSound
<1>5. CASE ReturnResult
  BY <1>5, ReturnSound
<1>6. CASE Gathered
  BY <1>6, GatheredSound
<1>7. CASE \/ Cancel
           \/ \E a \in Agents : Begin(a) \/ Cut(a)
                                \/ \E how \in {"completed", "failed"} : AgentEnds(a, how)
  BY <1>7, AgentSound
<1>8. CASE \E a \in Agents, answer \in Answers : ContextChanges(a, answer)
  BY <1>8, ContextSound
<1>9. CASE UNCHANGED vars
  <2>1. Types' /\ WavesOnly' /\ WaveIsDue'
    BY <1>9 DEF vars, Sound, Types, WavesOnly, WaveIsDue, Ran, Idle
  <2>2. TableIsOrder' /\ Ordered' /\ AllReported' /\ SkipsExplained'
    BY <1>9 DEF vars, Sound, TableIsOrder, Ordered, AllReported, SkipsExplained, Ran, NoDependencies
  <2>. QED BY <2>1, <2>2 DEF Sound
<1>. QED BY <1>1, <1>2, <1>3, <1>4, <1>5, <1>6, <1>7, <1>8, <1>9 DEF Next, Step

\* Only the validation rejects, and only by what the search says.
LEMMA NextRejects == Sound /\ CyclesRejected /\ [Next]_vars => CyclesRejected'
<1>. SUFFICES ASSUME Sound, CyclesRejected, [Next]_vars PROVE CyclesRejected'
  OBVIOUS
<1>1. CASE Construct
  <2>1. /\ stage' = (IF mode = "dag" /\ Searched.cyclic THEN "rejected" ELSE "built")
        /\ mode' = mode /\ deps' = deps
    BY <1>1 DEF Construct
  <2>2. Searched.cyclic <=> ~Acyclic
    BY SearchIsRight DEF Sound, Types, Typed
  <2>3. Acyclic' <=> Acyclic
    BY <2>1 DEF Acyclic
  <2>. QED BY <2>1, <2>2, <2>3 DEF CyclesRejected
<1>2. CASE \/ Start \/ ConditionRaises \/ StartWave \/ ReturnResult \/ Gathered
           \/ Cancel \/ UNCHANGED vars
           \/ \E a \in Agents : Begin(a) \/ Cut(a)
                                \/ \E how \in {"completed", "failed"} : AgentEnds(a, how)
           \/ \E a \in Agents, answer \in Answers : ContextChanges(a, answer)
  <2>1. /\ mode' = mode /\ deps' = deps
        /\ \/ stage' = stage
           \/ stage \notin {"new", "rejected"} /\ stage' \notin {"new", "rejected"}
    BY <1>2 DEF Start, ConditionRaises, StartWave, ReturnResult, Gathered, Cancel, vars, Begin,
                Cut, AgentEnds, ContextChanges, KeepWave
  <2>2. Acyclic' <=> Acyclic
    BY <2>1 DEF Acyclic
  <2>. QED BY <2>1, <2>2 DEF CyclesRejected
<1>. QED BY <1>1, <1>2 DEF Next, Step

\* The depth-first search of _validate_dag rejects a graph exactly if agents of it
\* depend on each other in a circle, whatever unknown names it holds.
THEOREM CyclesAreRejected == Spec => []CyclesRejected
<1>1. Init => CyclesRejected
  BY DEF Init, CyclesRejected
<1>. QED BY <1>1, InitSound, NextSound, NextRejects, PTL DEF Spec

\* Whatever agents, conditions and the canceller do: agents run once, behind
\* what they depend on, and an execution that is over has reported on
\* everybody for a reason and left nobody running; if the graph has no circle
\* and no unknown name, agents that want to run have run.
THEOREM WorkflowSound == Spec => []AgentsAccounted
BY InitSound, NextSound, SoundIsAccounted, CyclesAreRejected, PTL DEF Spec

-----------------------------------------------------------------------------
(* The tasks of the AgentOrchestrator. *)

HIDE WorkflowAssumption
USE OrchestratorAssumption

OncePerTask == \A d, e \in Calls : TaskOf[d] = TaskOf[e] => d = e

\* A task whose agent has not ended has no result and is not finished: what
\* Execute and Finish overwrite is at most a cancellation.
Unfinished ==
  \A d \in Calls : call[d] \in {"new", "started", "executing"} =>
    /\ result[TaskOf[d]] = "none"
    /\ status[TaskOf[d]] \notin {"COMPLETED", "FAILED"}

Consistent == TasksTypeOK /\ Unfinished /\ ResultTellsStatus

-----------------------------------------------------------------------------
\* The initial state is well typed.
LEMMA TasksInitTyped == TasksInit => TasksTypeOK
<1>. SUFFICES ASSUME TasksInit PROVE TasksTypeOK
  OBVIOUS
<1>1. status \in [Tasks -> Active \cup Complete] /\ call \in [Calls -> CallPhases]
  BY DEF TasksInit, CallPhases, Active
<1>2. lock \in BOOLEAN
  BY DEF TasksInit
<1>. QED BY <1>1, <1>2 DEF TasksInit, TasksTypeOK

\* cancel_tasks marks active tasks only.
LEMMA CancelNextMarks ==
  ASSUME TasksTypeOK, NEW ids \in SUBSET Tasks, CancelNext(ids)
  PROVE  /\ status' \in [Tasks -> Active \cup Complete]
         /\ lock' \in BOOLEAN /\ toCancel' \subseteq Tasks
         /\ \A t \in Tasks : status'[t] = status[t]
                             \/ (status[t] \in Active /\ status'[t] = "CANCELLED")
BY DEF CancelNext, Cancellable, TasksTypeOK, Active, Complete

\* How a call ends is a phase of a call.
LEMMA OutcomeTyped ==
  ASSUME NEW d \in Calls, NEW ok, NEW table
  PROVE  Outcome(d, ok, table) \in {"missing", "returned", "raised"}
BY DEF Outcome

\* Every step keeps the types.
LEMMA TasksNextTyped == TasksTypeOK /\ [TasksNext]_taskVars => TasksTypeOK'
<1>. SUFFICES ASSUME TasksTypeOK, [TasksNext]_taskVars PROVE TasksTypeOK'
  OBVIOUS
<1>1. ASSUME NEW d \in Calls, Delegate(d) PROVE TasksTypeOK'
  BY <1>1 DEF Delegate, Move, TasksTypeOK, CallPhases, Active
<1>2. ASSUME NEW a \in Calls \cup {Canceller}, Publish(a) PROVE TasksTypeOK'
  BY <1>2 DEF Publish, TasksTypeOK
<1>3. ASSUME NEW d \in Calls, Execute(d) PROVE TasksTypeOK'
  BY <1>3 DEF Execute, Published, Move, TasksTypeOK, CallPhases, Active
<1>4. ASSUME NEW d \in Calls, Finish(d) PROVE TasksTypeOK'
  <2>1. PICK ok \in BOOLEAN :
          /\ status' = [status EXCEPT ![TaskOf[d]] = IF ok THEN "COMPLETED" ELSE "FAILED"]
          /\ result' = [result EXCEPT ![TaskOf[d]] = IF ok THEN "ok" ELSE "error"]
          /\ Ends(d, ok)
    BY <1>4 DEF Finish
  <2>2. \E p \in CallPhases : call' = [call EXCEPT ![d] = p]
    BY <2>1, OutcomeTyped DEF Ends, Move, CallPhases
  <2>. QED BY <1>4, <2>1, <2>2 DEF Finish, TasksTypeOK, Complete
<1>5. ASSUME NEW d \in Calls, Return(d) PROVE TasksTypeOK'
  <2>1. \E p \in CallPhases : call' = [call EXCEPT ![d] = p]
    BY <1>5, OutcomeTyped DEF Return, Move, CallPhases
  <2>. QED BY <1>5, <2>1 DEF Return, Published, TasksTypeOK
<1>6. ASSUME NEW d \in Calls, Kill(d) PROVE TasksTypeOK'
  BY <1>6 DEF Kill, Move, TasksTypeOK, CallPhases
<1>7. ASSUME NEW ids \in SUBSET Tasks, cancel_tasks(ids) PROVE TasksTypeOK'
  <2>1. cancels' \in 0..MaxCancels
    BY <1>7 DEF cancel_tasks, TasksTypeOK
  <2>2. CASE CancelNext(ids)
    BY <1>7, <2>1, <2>2, CancelNextMarks DEF cancel_tasks, TasksTypeOK
  <2>3. CASE UNCHANGED <<lock, toCancel>> /\ \A t \in Tasks : status'[t] = status[t] \/ status'[t] = "CANCELLED"
    BY <1>7, <2>1, <2>3, CancelNextMarks DEF cancel_tasks, TasksTypeOK, Complete
  <2>. QED BY <1>7, <2>2, <2>3 DEF cancel_tasks
<1>8. ASSUME CancelResumes PROVE TasksTypeOK'
  BY <1>8, CancelNextMarks DEF CancelResumes, Published, TasksTypeOK
<1>9. ASSUME clear_completed_tasks PROVE TasksTypeOK'
  BY <1>9 DEF clear_completed_tasks, TasksTypeOK
<1>10. ASSUME TakesHeldLock PROVE TasksTypeOK'
  BY <1>10 DEF TakesHeldLock, TasksTypeOK
<1>11. CASE UNCHANGED taskVars
  BY <1>11 DEF taskVars, TasksTypeOK
<1>. QED BY <1>1, <1>2, <1>3, <1>4, <1>5, <1>6, <1>7, <1>8, <1>9, <1>10, <1>11
     DEF TasksNext, CallStep

\* Type correctness of the orchestrator.
THEOREM OrchestratorTypeCorrect == TasksSpec => []TasksTypeOK
BY TasksInitTyped, TasksNextTyped, PTL DEF TasksSpec

-----------------------------------------------------------------------------
(* What a step does to statuses and results, seen from the tables. *)

\* Only tasks that are not finished are marked cancelled.
Marks == \A t \in Tasks : status'[t] = status[t]
                          \/ (status[t] \in Active /\ status'[t] = "CANCELLED")

\* A step that at most marks tasks and forgets results, and starts no call anew.
LEMMA MarksConsistent ==
  ASSUME Consistent, Marks,
         \A t \in Tasks : result'[t] \in {result[t], "none"},
         \A d \in Calls : call'[d] \in {"new", "started", "executing"} =>
                          call[d] \in {"new", "started", "executing"}
  PROVE  Unfinished' /\ ResultTellsStatus'
<1>1. Unfinished'
  BY DEF Consistent, Unfinished, Marks
<1>2. ResultTellsStatus'
  BY DEF Consistent, ResultTellsStatus, Marks, Active
<1>. QED BY <1>1, <1>2

\* Every step keeps results and statuses consistent and finished tasks finished.
LEMMA TasksNextConsistent ==
  ASSUME OncePerTask
  PROVE  Consistent /\ [TasksNext]_taskVars =>
           /\ Unfinished' /\ ResultTellsStatus'
           /\ \A t \in Tasks : status[t] \in {"COMPLETED", "FAILED"} => status'[t] = status[t]
<1>. SUFFICES ASSUME Consistent, [TasksNext]_taskVars
              PROVE  /\ Unfinished' /\ ResultTellsStatus'
                     /\ \A t \in Tasks : status[t] \in {"COMPLETED", "FAILED"} => status'[t] = status[t]
  OBVIOUS
<1>. DEFINE Goal == /\ Unfinished' /\ ResultTellsStatus'
                    /\ \A t \in Tasks : status[t] \in {"COMPLETED", "FAILED"} => status'[t] = status[t]
<1>1. ASSUME NEW d \in Calls, call[d] \in {"new", "started"},
             call' = [call EXCEPT ![d] = "executing"], UNCHANGED result,
             status' = [status EXCEPT ![TaskOf[d]] = "RUNNING"]
      PROVE  Goal
  <2>1. result[TaskOf[d]] = "none" /\ status[TaskOf[d]] \notin {"COMPLETED", "FAILED"}
    BY <1>1 DEF Consistent, Unfinished
  <2>2. \A t \in Tasks : t # TaskOf[d] => status'[t] = status[t]
    BY <1>1 DEF Consistent, TasksTypeOK
  <2>3. status'[TaskOf[d]] = "RUNNING"
    BY <1>1 DEF Consistent, TasksTypeOK
  <2>4. Unfinished'
    BY <1>1, <2>1, <2>2, <2>3 DEF Consistent, Unfinished, TasksTypeOK
  <2>5. ResultTellsStatus'
    BY <1>1, <2>1, <2>2 DEF Consistent, ResultTellsStatus
  <2>. QED BY <2>1, <2>2, <2>4, <2>5
<1>2. ASSUME NEW d \in Calls, Finish(d) PROVE Goal
  <2>1. PICK ok \in BOOLEAN :
          /\ status' = [status EXCEPT ![TaskOf[d]] = IF ok THEN "COMPLETED" ELSE "FAILED"]
          /\ result' = [result EXCEPT ![TaskOf[d]] = IF ok THEN "ok" ELSE "error"]
          /\ Ends(d, ok)
    BY <1>2 DEF Finish
  <2>2. /\ status[TaskOf[d]] \notin {"COMPLETED", "FAILED"}
        /\ \A e \in Calls : e # d => TaskOf[e] # TaskOf[d] /\ call'[e] = call[e]
        /\ call'[d] \notin {"new", "started", "executing"}
    BY <1>2, <2>1, OutcomeTyped
    DEF Finish, Ends, Move, Consistent, Unfinished, TasksTypeOK, OncePerTask
  <2>3. \A t \in Tasks : t # TaskOf[d] => status'[t] = status[t] /\ result'[t] = result[t]
    BY <2>1 DEF Consistent, TasksTypeOK
  <2>4. /\ status'[TaskOf[d]] = IF ok THEN "COMPLETED" ELSE "FAILED"
        /\ result'[TaskOf[d]] = IF ok THEN "ok" ELSE "error"
    BY <2>1 DEF Consistent, TasksTypeOK
  <2>5. Unfinished'
    BY <2>2, <2>3 DEF Consistent, Unfinished
  <2>6. ResultTellsStatus'
    BY <2>3, <2>4 DEF Consistent, ResultTellsStatus
  <2>. QED BY <2>2, <2>3, <2>5, <2>6
<1>3. ASSUME Marks, \A t \in Tasks : result'[t] \in {result[t], "none"},
             \A d \in Calls : call'[d] \in {"new", "started", "executing"} =>
                              call[d] \in {"new", "started", "executing"}
      PROVE  Goal
  BY <1>3, MarksConsistent DEF Marks, Active
<1>4. ASSUME NEW d \in Calls, Delegate(d) PROVE Goal
  <2>1. CASE call' = [call EXCEPT ![d] = "executing"]
    BY <1>1, <1>4, <2>1 DEF Delegate, Move, Consistent, TasksTypeOK
  <2>2. CASE UNCHANGED <<status, result>> /\ \E p : call' = [call EXCEPT ![d] = p]
    BY <1>3, <1>4, <2>2 DEF Delegate, Marks, Consistent, TasksTypeOK
  <2>. QED BY <1>4, <2>1, <2>2 DEF Delegate, Move
<1>5. ASSUME NEW d \in Calls, Execute(d) PROVE Goal
  BY <1>1, <1>5 DEF Execute, Move
<1>6. ASSUME NEW d \in Calls, Return(d) \/ Kill(d) PROVE Goal
  <2>1. /\ UNCHANGED <<status, result>>
        /\ \A e \in Calls : call'[e] = call[e] \/ call'[e] \notin {"new", "started", "executing"}
    BY <1>6, OutcomeTyped DEF Return, Kill, Move, Consistent, TasksTypeOK
  <2>. QED BY <1>3, <2>1 DEF Marks
<1>7. ASSUME NEW ids \in SUBSET Tasks, cancel_tasks(ids) PROVE Goal
  <2>1. Marks
    BY <1>7, CancelNextMarks DEF cancel_tasks, Marks, Cancellable, Consistent, TasksTypeOK
  <2>. QED BY <1>3, <1>7, <2>1 DEF cancel_tasks
<1>8. ASSUME CancelResumes PROVE Goal
  <2>1. Marks
    BY <1>8, CancelNextMarks DEF CancelResumes, Marks, Consistent, TasksTypeOK
  <2>. QED BY <1>3, <1>8, <2>1 DEF CancelResumes
<1>9. ASSUME clear_completed_tasks PROVE Goal
  BY <1>3, <1>9 DEF clear_completed_tasks, Marks
<1>10. ASSUME UNCHANGED <<status, result, call>> PROVE Goal
  BY <1>3, <1>10 DEF Marks
<1>. HIDE DEF Goal
<1>11. Goal
  BY <1>2, <1>4, <1>5, <1>6, <1>7, <1>8, <1>9, <1>10
  DEF TasksNext, CallStep, Publish, TakesHeldLock, taskVars
<1>. QED BY <1>11 DEF Goal

\* At first no task has a result or a final status.
LEMMA TasksInitConsistent == TasksInit => Consistent
BY TasksInitTyped DEF TasksInit, Consistent, Unfinished, ResultTellsStatus

\* The strengthening holds throughout.
LEMMA TasksAlwaysConsistent ==
  ASSUME OncePerTask
  PROVE  TasksSpec => []Consistent
BY TasksInitConsistent, TasksNextConsistent, TasksNextTyped, PTL DEF TasksSpec, Consistent

\* The result table never contradicts a status, however calls are cancelled,
\* cleared or killed.
THEOREM ResultsTellStatus ==
  ASSUME OncePerTask
  PROVE  TasksSpec => []ResultTellsStatus
BY TasksAlwaysConsistent, PTL DEF Consistent

\* A completed or failed task never changes its status again.
THEOREM FinishedStaysFinished ==
  ASSUME OncePerTask
  PROVE  TasksSpec => DoneIsFinal
<1>1. Consistent /\ [TasksNext]_taskVars =>
        [\A t \in Tasks : status[t] \in {"COMPLETED", "FAILED"} => status'[t] = status[t]]_taskVars
  BY TasksNextConsistent
<1>. QED BY <1>1, TasksAlwaysConsistent, PTL DEF TasksSpec, DoneIsFinal
=============================================================================
