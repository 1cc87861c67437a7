------------------------- MODULE SessionStore_proof -------------------------
(***************************************************************************)
(* For any number of coroutines on the manager, any sessions, messages and *)
(* parts under any identifiers, and any number of failing writes and       *)
(* crashes: no two calls of the manager have a message open at once, a     *)
(* file reads as nothing only for a reason, a listing misses no complete   *)
(* message that nobody touches, what a commit answered Ok for is on disk,  *)
(* and one that is at its parts has written its messages.                  *)
(***************************************************************************)
EXTENDS SessionStore, FiniteSetTheorems, TLAPS

USE StoreAssumption

-----------------------------------------------------------------------------
(* Sequences. *)

\* What taking the head leaves.
LEMMA Behead ==
  ASSUME NEW S, NEW s \in Seq(S), s # << >>
  PROVE  /\ Head(s) = s[1] /\ Head(s) \in S /\ 1 \in DOMAIN s
         /\ Tail(s) \in Seq(S)
         /\ \A i \in DOMAIN Tail(s) : i + 1 \in DOMAIN s /\ Tail(s)[i] = s[i + 1]
         /\ \A i \in DOMAIN s : i = 1 \/ (i - 1 \in DOMAIN Tail(s) /\ Tail(s)[i - 1] = s[i])
OBVIOUS

\* The head is the one element that is gone.
LEMMA BeheadRange ==
  ASSUME NEW S, NEW s \in Seq(S), s # << >>
  PROVE  /\ Range(s) = Range(Tail(s)) \cup {Head(s)}
         /\ IsInjective(s) => IsInjective(Tail(s)) /\ Head(s) \notin Range(Tail(s))
<1>1. /\ Head(s) = s[1] /\ 1 \in DOMAIN s
      /\ \A i \in DOMAIN Tail(s) : i + 1 \in DOMAIN s /\ i + 1 # 1 /\ Tail(s)[i] = s[i + 1]
      /\ \A i \in DOMAIN s : i = 1 \/ (i - 1 \in DOMAIN Tail(s) /\ Tail(s)[i - 1] = s[i])
      /\ \A i, j \in DOMAIN Tail(s) : i + 1 = j + 1 => i = j
  BY Behead
<1>2. ASSUME NEW x PROVE x \in Range(s) <=> x \in Range(Tail(s)) \/ x = Head(s)
  <2>1. ASSUME x \in Range(s) PROVE x \in Range(Tail(s)) \/ x = Head(s)
    <3>1. PICK i \in DOMAIN s : s[i] = x
      BY <2>1 DEF Range
    <3>. QED BY <1>1, <3>1 DEF Range
  <2>2. ASSUME x \in Range(Tail(s)) PROVE x \in Range(s)
    <3>1. PICK i \in DOMAIN Tail(s) : Tail(s)[i] = x
      BY <2>2 DEF Range
    <3>. QED BY <1>1, <3>1 DEF Range
  <2>3. ASSUME x = Head(s) PROVE x \in Range(s)
    BY <1>1, <2>3 DEF Range
  <2>. QED BY <2>1, <2>2, <2>3
<1>3. ASSUME IsInjective(s) PROVE IsInjective(Tail(s)) /\ Head(s) \notin Range(Tail(s))
  BY <1>1, <1>3 DEF IsInjective, Range
<1>. QED BY <1>2, <1>3

\* Appending adds one element and leaves the head.
LEMMA AppendRange ==
  ASSUME NEW S, NEW s \in Seq(S), NEW x \in S
  PROVE  /\ Append(s, x) \in Seq(S) /\ Range(Append(s, x)) = Range(s) \cup {x}
         /\ IsInjective(s) /\ x \notin Range(s) => IsInjective(Append(s, x))
         /\ s # << >> => Append(s, x)[1] = s[1]
         /\ s = << >> => Append(s, x)[1] = x
<1>1. /\ Append(s, x) \in Seq(S) /\ DOMAIN Append(s, x) = DOMAIN s \cup {Len(s) + 1}
      /\ Len(s) + 1 \notin DOMAIN s /\ Append(s, x)[Len(s) + 1] = x
      /\ \A i \in DOMAIN s : Append(s, x)[i] = s[i]
      /\ s # << >> => 1 \in DOMAIN s
  OBVIOUS
<1>. QED BY <1>1 DEF Range, IsInjective

\* Two sequences joined have the elements of both.
LEMMA ConcatRange ==
  ASSUME NEW S, NEW p \in Seq(S), NEW q \in Seq(S)
  PROVE  /\ p \o q \in Seq(S) /\ Range(p \o q) = Range(p) \cup Range(q)
<1>1. /\ p \o q \in Seq(S) /\ DOMAIN (p \o q) = 1..(Len(p) + Len(q))
      /\ \A i \in DOMAIN p : i \in DOMAIN (p \o q) /\ (p \o q)[i] = p[i]
      /\ \A i \in DOMAIN q : Len(p) + i \in DOMAIN (p \o q) /\ (p \o q)[Len(p) + i] = q[i]
  OBVIOUS
<1>2. \A i \in DOMAIN (p \o q) : \/ i \in DOMAIN p
                                 \/ i - Len(p) \in DOMAIN q /\ Len(p) + (i - Len(p)) = i
  BY <1>1
<1>3. ASSUME NEW x PROVE x \in Range(p \o q) <=> x \in Range(p) \/ x \in Range(q)
  <2>1. ASSUME x \in Range(p \o q) PROVE x \in Range(p) \/ x \in Range(q)
    <3>1. PICK i \in DOMAIN (p \o q) : (p \o q)[i] = x
      BY <2>1 DEF Range
    <3>2. CASE i \in DOMAIN p
      BY <1>1, <3>1, <3>2 DEF Range
    <3>3. CASE i - Len(p) \in DOMAIN q /\ Len(p) + (i - Len(p)) = i
      BY <1>1, <3>1, <3>3 DEF Range
    <3>. QED BY <1>2, <3>2, <3>3
  <2>2. ASSUME x \in Range(p) PROVE x \in Range(p \o q)
    BY <1>1, <2>2 DEF Range
  <2>3. ASSUME x \in Range(q) PROVE x \in Range(p \o q)
    BY <1>1, <2>3 DEF Range
  <2>. QED BY <2>1, <2>2, <2>3
<1>. QED BY <1>1, <1>3

\* A finite set is what its listing lists.
LEMMA SetToSeqRange ==
  ASSUME NEW S, IsFiniteSet(S)
  PROVE  SetToSeq(S) \in Seq(S) /\ Range(SetToSeq(S)) = S
<1> DEFINE n == Cardinality(S)
           F == {f \in [1..n -> S] : IsInjective(f)}
<1>1. n \in Nat /\ \E f : f \in Bijection(1..n, S)
  BY FS_CardinalityType DEF ExistsBijection
<1>2. F # {}
  BY <1>1 DEF Bijection, Injection, IsInjective
<1>3. SetToSeq(S) \in F
  BY <1>2 DEF SetToSeq
<1>4. SetToSeq(S) \in Injection(1..n, S)
  BY <1>3 DEF Injection
<1>5. Cardinality(1..n) = n
  BY <1>1, FS_Interval
<1>6. SetToSeq(S) \in Surjection(1..n, S)
  BY <1>4, <1>5, FS_Injection
<1>. QED BY <1>1, <1>6 DEF Surjection, Range

-----------------------------------------------------------------------------
(* The inductive invariant: what is known of the files, of the calls and   *)
(* of the lock, and how they hang together.                                *)

WritingOps == {"create", "update_session", "add_message", "create_message", "create_messages",
               "add_part", "commit"}
Creating == {"create", "create_message"}
Pend == Range(InOrder(uow.pending))
Todo(c) == Range(call[c].todo)

\* The files that a call is going to write.
Writing(c) == Busy(c) /\ call[c].op \in WritingOps
Claimed(c) == IF Writing(c) THEN Todo(c) ELSE {}

FilesTyped ==
  /\ disk \in [Keys -> {"absent", "empty", "garbled", "written"}]
  /\ fd \in [Callers -> Keys \cup {Closed, Unlinked}]
  /\ past \in [Keys -> SUBSET {"overlapped", "interrupted", "deleted"}]
  /\ due \in [Callers -> SUBSET Messages]

Typed ==
  /\ FilesTyped
  /\ call \in [Callers -> Call] /\ queue \in Seq(Callers)
  /\ used \subseteq Keys
  /\ uow \in [txn : BOOLEAN, pending : Pending, committed : SUBSET Keys]

\* Which operations reach which phase, and with something left to do.
PlacedAt(c, r) ==
  /\ r.phase = "list" => /\ r.op \in {"list_messages", "get_export_data"}
                         /\ Range(r.todo) \subseteq Messages
  /\ r.phase \in {"open", "write"} => r.op \in WritingOps
  /\ r.phase \in {"read", "act"} => r.op \in ReadsFirst
  /\ r.phase = "lock" => r.op \in Locked
  /\ r.phase \in {"lock", "read", "act", "write"} => r.todo # << >>
  /\ r.phase = "open" /\ r.op # "commit" => r.todo # << >>
  /\ r.phase # "idle" => (r.op = "commit" <=> c = U)
  /\ r.phase = "idle" => r.todo = << >>
  /\ r.op = "update_session" => Range(r.todo) \subseteq Sessions
  /\ r.op = "add_part" => Range(r.todo) \subseteq Parts

Placed == \A c \in Callers : PlacedAt(c, call[c])

\* The head of the queue holds the lock.
LockHeld ==
  /\ IsInjective(queue)
  /\ Range(queue) = {c \in Callers : Busy(c) /\ call[c].op \in Locked}
  /\ \A c \in Callers :
       Busy(c) /\ call[c].phase # "lock" /\ call[c].op \in Locked => Head(queue) = c

\* What a call writes under a new identifier, nobody else is going to write.
Owned ==
  /\ \A c \in Callers : Claimed(c) \subseteq used
  /\ \A b, c \in Callers : b # c /\ call[c].op \in Creating => Claimed(b) \cap Claimed(c) = {}
  /\ Pend \subseteq used
  /\ \A c \in Callers : call[c].op \in Creating => Claimed(c) \cap Pend = {}
  /\ Busy(U) => Todo(U) \subseteq Pend

Opened ==
  \A c \in Callers :
    IF call[c].phase = "write"
    THEN \/ fd[c] = Head(call[c].todo)
         \/ fd[c] = Unlinked /\ Kept(Head(call[c].todo))
    ELSE fd[c] = Closed

Tainted(k) == past[k] \cap {"interrupted", "overlapped"} # {}

Explained ==
  /\ \A k \in Keys : Unreadable(k) => BeingWritten(k) \/ Tainted(k)
  /\ \A k \in Keys : BeingWritten(k) /\ disk[k] # "empty" => Tainted(k)
  /\ \A b, c \in Callers : b # c /\ fd[b] = fd[c] /\ fd[b] \in Keys => "overlapped" \in past[fd[b]]

DueWritten == \A c \in Callers : due[c] \subseteq Complete

\* What follows a part is a part.
PartsLast(todo) ==
  \A i, j \in DOMAIN todo : i < j /\ todo[i] \in Parts => todo[j] \in Parts

Committing ==
  /\ \A k \in uow.committed : Kept(k)
  /\ Busy(U) => /\ \A k \in Pend : k \in Todo(U) \/ Kept(k)
                /\ PartsLast(call[U].todo)

Calling == Typed /\ Placed /\ LockHeld /\ Owned
Filed == Opened /\ Explained
IInv == Calling /\ Filed /\ DueWritten /\ ListingComplete /\ Committing

-----------------------------------------------------------------------------
(* The files. *)

\* What happened to a file is not forgotten.
Keeps == \A k \in Keys : Kept(k) => Kept(k)'

\* Opened, for the callers that do not move.
StillOpen(c) ==
  \A b \in Callers \ {c} :
    \/ fd'[b] = fd[b]
    \/ \E k \in Keys : fd[b] = k /\ fd'[b] = Unlinked /\ Kept(k)'

\* Nothing changes in the files.
LEMMA FilesUntouched ==
  ASSUME Explained, NEW c \in Callers, UNCHANGED <<disk, fd, past>>
  PROVE  Explained' /\ Keeps /\ StillOpen(c)
BY DEF Explained, Keeps, StillOpen, Kept, BeingWritten, Unreadable, Tainted

\* Opening for writing.
LEMMA TruncateFiles ==
  ASSUME Typed, Explained, NEW c \in Callers, NEW k \in Keys,
         fd[c] = Closed, Truncate(c, k)
  PROVE  Explained' /\ Keeps /\ StillOpen(c) /\ fd'[c] = k
<1>1. /\ fd' \in [Callers -> Keys \cup {Closed, Unlinked}] /\ fd'[c] = k
      /\ \A b \in Callers : b # c => fd'[b] = fd[b]
      /\ disk'[k] = "empty" /\ \A j \in Keys : j # k => disk'[j] = disk[j] /\ past'[j] = past[j]
  BY DEF Truncate, Typed, FilesTyped
<1>2. \/ (\E b \in Callers \ {c} : fd[b] = k) /\ past'[k] = past[k] \cup {"overlapped"}
      \/ (\A b \in Callers \ {c} : fd[b] # k) /\ past'[k] = {}
  BY DEF Truncate, Typed, FilesTyped
<1>3. \A j \in Keys : j # k => (BeingWritten(j)' <=> BeingWritten(j))
  BY <1>1 DEF BeingWritten
<1>4. BeingWritten(k)'
  BY <1>1 DEF BeingWritten
<1>5. \A j \in Keys : j # k => /\ Unreadable(j)' = Unreadable(j) /\ Tainted(j)' = Tainted(j)
                               /\ Kept(j) => Kept(j)'
  BY <1>1, <1>3 DEF Unreadable, Tainted, Kept
<1>6. Kept(k)'
  BY <1>4 DEF Kept
<1>7. Keeps /\ StillOpen(c)
  BY <1>1, <1>5, <1>6 DEF Keeps, StillOpen
<1>8. /\ \A j \in Keys : Unreadable(j)' => BeingWritten(j)' \/ Tainted(j)'
      /\ \A j \in Keys : BeingWritten(j)' /\ disk'[j] # "empty" => Tainted(j)'
  BY <1>1, <1>3, <1>4, <1>5 DEF Explained
<1>9. ASSUME NEW a \in Callers, NEW b \in Callers, a # b, fd'[a] = fd'[b], fd'[a] \in Keys
      PROVE  "overlapped" \in past'[fd'[a]]
  BY <1>1, <1>2, <1>9 DEF Explained
<1>10. Explained'
  BY <1>8, <1>9 DEF Explained
<1>. QED BY <1>1, <1>7, <1>10

\* A writer closes: its file is kept, and no message that nobody writes is spoilt.
LEMMA CloseFiles ==
  ASSUME Typed, Opened, Explained, NEW c \in Callers,
         call[c].phase = "write", Head(call[c].todo) \in Keys,
         disk' \in Flushed(c), fd' = [fd EXCEPT ![c] = Closed], past' = past
  PROVE  /\ Explained' /\ Keeps /\ StillOpen(c) /\ fd'[c] = Closed
         /\ \A k \in Keys : IF k = Head(call[c].todo) THEN Kept(k)' ELSE disk'[k] = disk[k]
         /\ Complete \subseteq Complete'
<1>0. PICK k \in Keys : k = Head(call[c].todo)
  OBVIOUS
<1>1. /\ fd'[c] = Closed /\ \A b \in Callers : b # c => fd'[b] = fd[b]
      /\ Closed \notin Keys /\ Unlinked \notin Keys
  BY DEF Typed, FilesTyped
<1>2. CASE fd[c] = Unlinked /\ Kept(k)
  <2>1. disk' = disk
    BY <1>2 DEF Flushed
  <2>2. \A j \in Keys : BeingWritten(j)' = BeingWritten(j)
    BY <1>1, <1>2 DEF BeingWritten
  <2>3. \A j \in Keys : Kept(j)' = Kept(j)
    BY <2>1, <2>2 DEF Kept
  <2>4. Explained'
    BY <1>1, <2>1, <2>2 DEF Explained, Unreadable, Tainted
  <2>5. Complete \subseteq Complete'
    BY <1>1, <2>1 DEF Complete, Keys
  <2>. QED BY <1>0, <1>1, <1>2, <2>1, <2>3, <2>4, <2>5 DEF Keeps, StillOpen
<1>3. CASE fd[c] = k
  <2>1. /\ disk'[k] \in {"written", "garbled"} /\ (disk[k] = "empty" => disk'[k] = "written")
        /\ \A j \in Keys : j # k => disk'[j] = disk[j]
    BY <1>1, <1>3 DEF Flushed, Typed, FilesTyped
  <2>2. BeingWritten(k)
    BY <1>3 DEF BeingWritten
  <2>3. \A j \in Keys : j # k => (BeingWritten(j)' <=> BeingWritten(j))
    BY <1>1, <1>3 DEF BeingWritten
  <2>4. disk'[k] = "garbled" => Tainted(k)
    BY <2>1, <2>2 DEF Explained
  <2>5. \A j \in Keys : Kept(j) => Kept(j)'
    BY <2>1, <2>3, <2>4 DEF Kept, Tainted
  <2>6. Kept(k)'
    BY <2>1, <2>4 DEF Kept, Tainted
  <2>7. Complete \subseteq Complete'
    BY <1>1, <1>3, <2>1 DEF Complete, Keys
  <2>8. BeingWritten(k)' => "overlapped" \in past[k]
    BY <1>1, <1>3 DEF BeingWritten, Explained
  <2>9. /\ \A j \in Keys : Unreadable(j)' => BeingWritten(j)' \/ Tainted(j)'
        /\ \A j \in Keys : BeingWritten(j)' /\ disk'[j] # "empty" => Tainted(j)'
    BY <2>1, <2>3, <2>4, <2>8 DEF Explained, Unreadable, Tainted
  <2>10. \A a, b \in Callers : a # b /\ fd'[a] = fd'[b] /\ fd'[a] \in Keys => "overlapped" \in past'[fd'[a]]
    BY <1>1 DEF Explained
  <2>11. Explained'
    BY <2>9, <2>10 DEF Explained
  <2>. QED BY <1>0, <1>1, <2>1, <2>5, <2>6, <2>7, <2>11 DEF Keeps, StillOpen
<1>. QED BY <1>0, <1>2, <1>3 DEF Opened

\* A file is removed, also under those who have it open.
LEMMA UnlinkFiles ==
  ASSUME Typed, Explained, NEW c \in Callers, NEW k \in Keys, fd[c] = Closed, Unlink(k)
  PROVE  /\ Explained' /\ Keeps /\ StillOpen(c) /\ fd'[c] = Closed
         /\ \A j \in Keys : j # k => disk'[j] = disk[j]
         /\ disk'[k] = "absent"
<1>1. /\ \A b \in Callers : fd'[b] = IF fd[b] = k THEN Unlinked ELSE fd[b]
      /\ disk'[k] = "absent" /\ past'[k] = {"deleted"}
      /\ \A j \in Keys : j # k => disk'[j] = disk[j] /\ past'[j] = past[j]
      /\ Closed \notin Keys /\ Unlinked \notin Keys
  BY DEF Unlink, Typed, FilesTyped
<1>2. \A j \in Keys : j # k => (BeingWritten(j)' <=> BeingWritten(j))
  BY <1>1 DEF BeingWritten
<1>3. ~BeingWritten(k)' /\ Kept(k)'
  BY <1>1 DEF BeingWritten, Kept
<1>4. Keeps
  BY <1>1, <1>2, <1>3 DEF Keeps, Kept
<1>5. fd'[c] = Closed
  BY <1>1
<1>6. StillOpen(c)
  BY <1>1, <1>3 DEF StillOpen
<1>7. /\ \A j \in Keys : Unreadable(j)' => BeingWritten(j)' \/ Tainted(j)'
      /\ \A j \in Keys : BeingWritten(j)' /\ disk'[j] # "empty" => Tainted(j)'
  BY <1>1, <1>2, <1>3 DEF Explained, Unreadable, Tainted
<1>8. ASSUME NEW a \in Callers, NEW b \in Callers, a # b, fd'[a] = fd'[b], fd'[a] \in Keys
      PROVE  "overlapped" \in past'[fd'[a]]
  BY <1>1, <1>8 DEF Explained
<1>9. Explained'
  BY <1>7, <1>8 DEF Explained
<1>. QED BY <1>1, <1>4, <1>5, <1>6, <1>9

\* Some callers stop writing: their files are marked as interrupted.
LEMMA InterruptFiles ==
  ASSUME Typed, Explained, NEW C \in SUBSET Callers, disk' = disk,
         \A b \in Callers : fd'[b] = IF b \in C THEN Closed ELSE fd[b],
         \A k \in Keys : past'[k] = IF \E b \in C : fd[b] = k THEN past[k] \cup {"interrupted"} ELSE past[k]
  PROVE  Explained' /\ Keeps
<1>1. Closed \notin Keys
  OBVIOUS
<1>2. \A j \in Keys : /\ BeingWritten(j)' => BeingWritten(j)
                      /\ BeingWritten(j) => BeingWritten(j)' \/ "interrupted" \in past'[j]
                      /\ past[j] \subseteq past'[j]
                      /\ "overlapped" \in past'[j] => "overlapped" \in past[j]
  <2>. TAKE j \in Keys
  <2>0. /\ (\E b \in C : fd[b] = j) => past'[j] = past[j] \cup {"interrupted"}
        /\ (\A b \in C : fd[b] # j) => past'[j] = past[j]
    <3>1. CASE \E b \in C : fd[b] = j
      BY <3>1
    <3>2. CASE \A b \in C : fd[b] # j
      BY <3>2
    <3>. QED BY <3>1, <3>2
  <2>1. BeingWritten(j)' => BeingWritten(j)
    BY <1>1 DEF BeingWritten
  <2>2. ASSUME BeingWritten(j) PROVE BeingWritten(j)' \/ "interrupted" \in past'[j]
    <3>1. PICK b \in Callers : fd[b] = j
      BY <2>2 DEF BeingWritten
    <3>2. CASE b \in C
      BY <2>0, <3>1, <3>2
    <3>3. CASE b \notin C
      BY <3>1, <3>3 DEF BeingWritten
    <3>. QED BY <3>2, <3>3
  <2>3. past[j] \subseteq past'[j] /\ ("overlapped" \in past'[j] => "overlapped" \in past[j])
    BY <2>0
  <2>. QED BY <2>1, <2>2, <2>3
<1>3. Keeps
  BY <1>2 DEF Keeps, Kept
<1>4. /\ \A j \in Keys : Unreadable(j)' => BeingWritten(j)' \/ Tainted(j)'
      /\ \A j \in Keys : BeingWritten(j)' /\ disk'[j] # "empty" => Tainted(j)'
  BY <1>2 DEF Explained, Unreadable, Tainted
<1>5. ASSUME NEW a \in Callers, NEW b \in Callers, a # b, fd'[a] = fd'[b], fd'[a] \in Keys
      PROVE  "overlapped" \in past'[fd'[a]]
  BY <1>1, <1>2, <1>5 DEF Explained
<1>. QED BY <1>3, <1>4, <1>5 DEF Explained

\* One writer fails.
LEMMA FailFiles ==
  ASSUME Typed, Placed, Opened, Explained, NEW c \in Callers, Fails(c)
  PROVE  Explained' /\ Keeps /\ StillOpen(c) /\ fd'[c] = Closed /\ call[c].phase \in {"open", "write"}
<1>1. /\ fd'[c] = Closed /\ \A b \in Callers : b # c => fd'[b] = fd[b]
      /\ disk' = disk /\ call[c].phase \in {"open", "write"}
  BY DEF Fails, Typed, FilesTyped
<1>2. CASE call[c].phase = "open" /\ past' = past
  <2>1. fd[c] = Closed
    BY <1>2 DEF Opened
  <2>2. \A b \in Callers : fd'[b] = IF b \in {} THEN Closed ELSE fd[b]
    BY <1>1, <2>1
  <2>3. Explained' /\ Keeps
    BY <1>1, <1>2, <2>2, InterruptFiles
  <2>. QED BY <1>1, <2>3 DEF StillOpen
<1>3. CASE call[c].phase = "write" /\ past' = IF fd[c] = Unlinked THEN past ELSE Interrupted(fd[c])
  <2>1. fd[c] \in Keys \cup {Closed, Unlinked} /\ Unlinked \notin Keys
    BY DEF Typed, FilesTyped
  <2>2. fd[c] \in Keys \/ fd[c] = Unlinked
    <3>1. call[c].todo # << >> /\ call[c].todo \in Seq(Keys)
      BY <1>3 DEF Placed, PlacedAt, Typed, FilesTyped, Call
    <3>2. Head(call[c].todo) \in Keys
      BY <3>1, Behead
    <3>. QED BY <1>3, <3>2 DEF Opened
  <2>3. \A k \in Keys : past'[k] = IF \E b \in {c} : fd[b] = k THEN past[k] \cup {"interrupted"} ELSE past[k]
    BY <1>3, <2>1, <2>2 DEF Interrupted, Typed, FilesTyped
  <2>4. \A b \in Callers : fd'[b] = IF b \in {c} THEN Closed ELSE fd[b]
    BY <1>1
  <2>5. Explained' /\ Keeps
    BY <1>1, <2>3, <2>4, InterruptFiles
  <2>. QED BY <1>1, <2>5 DEF StillOpen
<1>. QED BY <1>2, <1>3 DEF Fails

\* The process dies.
LEMMA CrashFiles ==
  ASSUME Typed, Explained, Crash
  PROVE  Explained' /\ Keeps
<1>1. \A b \in Callers : fd'[b] = IF b \in Callers THEN Closed ELSE fd[b]
  BY DEF Crash
<1>2. \A k \in Keys :
        past'[k] = IF \E b \in Callers : fd[b] = k THEN past[k] \cup {"interrupted"} ELSE past[k]
  BY DEF Crash
<1>. QED BY <1>1, <1>2, InterruptFiles DEF Crash

-----------------------------------------------------------------------------
(* The calls: each step takes its call further, or ends it.                *)

Advances(c) ==
  /\ Busy(c) /\ queue' = queue
  /\ call'[c].op = call[c].op /\ call'[c].phase \notin {"idle", "lock"}
  /\ call[c].phase = "lock" => Head(queue) = c
  /\ call[c].op \in WritingOps => Range(call'[c].todo) \subseteq Todo(c)

Releases(c) ==
  /\ Busy(c) /\ call[c].phase # "lock"
  /\ call'[c] = NoCall /\ queue' = Unlocked(c)

Moves(c) ==
  /\ call' \in [Callers -> Call]
  /\ \A b \in Callers \ {c} : call'[b] = call[b]
  /\ PlacedAt(c, call'[c])
  /\ Advances(c) \/ Releases(c)

\* The call of c is replaced by r.
LEMMA Replaced ==
  ASSUME Typed, NEW c \in Callers, NEW r \in Call, call' = [call EXCEPT ![c] = r]
  PROVE  /\ call' \in [Callers -> Call] /\ call'[c] = r
         /\ \A b \in Callers \ {c} : call'[b] = call[b]
BY DEF Typed, FilesTyped

\* The fields of a call.
LEMMA CallFields ==
  ASSUME Typed, NEW c \in Callers
  PROVE  /\ call[c] \in Call /\ call[c].op \in Ops /\ call[c].phase \in Phases
         /\ call[c].todo \in Seq(Keys) /\ call[c].seen \in BOOLEAN
         /\ call[c].got \in SUBSET Messages
<1>1. call[c] \in Call
  BY DEF Typed, FilesTyped
<1>. QED BY <1>1 DEF Call

\* Nothing is executed: a call like any other.
LEMMA NoCallPlaced ==
  ASSUME NEW c
  PROVE  /\ NoCall \in Call /\ PlacedAt(c, NoCall) /\ NoCall.phase = "idle"
         /\ NoCall.todo = << >> /\ NoCall.op = "list_messages"
BY DEF NoCall, Call, Ops, Phases, PlacedAt

\* The end of a call.
LEMMA ReturnedMoves ==
  ASSUME Typed, NEW c \in Callers, Busy(c), call[c].phase # "lock",
         call' = Returned(c), queue' = Unlocked(c)
  PROVE  Moves(c) /\ Releases(c)
<1>1. NoCall \in Call /\ PlacedAt(c, NoCall)
  BY NoCallPlaced
<1>2. /\ call' \in [Callers -> Call] /\ call'[c] = NoCall
      /\ \A b \in Callers \ {c} : call'[b] = call[b]
  BY <1>1, Replaced DEF Returned
<1>. QED BY <1>1, <1>2 DEF Moves, Releases

\* The names of the messages on disk.
LEMMA ListedSeq ==
  ASSUME Typed
  PROVE  SetToSeq(Listed) \in Seq(Keys) /\ Range(SetToSeq(Listed)) = Listed
<1>1. IsFiniteSet(Listed)
  BY FS_Subset DEF Listed
<1>2. SetToSeq(Listed) \in Seq(Listed) /\ Range(SetToSeq(Listed)) = Listed
  BY <1>1, SetToSeqRange
<1>3. Listed \subseteq Keys
  BY DEF Listed, Keys
<1>. QED BY <1>2, <1>3

\* A call takes another phase, with the same or less to do.
LEMMA AdvancedMoves ==
  ASSUME Typed, NEW c \in Callers, Busy(c), NEW r \in Call,
         call' = [call EXCEPT ![c] = r], queue' = queue,
         r.op = call[c].op, r.phase \notin {"idle", "lock"}, PlacedAt(c, r),
         call[c].phase = "lock" => Head(queue) = c,
         call[c].op \in WritingOps => Range(r.todo) \subseteq Todo(c)
  PROVE  Moves(c) /\ Advances(c) /\ call'[c] = r
<1>1. /\ call' \in [Callers -> Call] /\ call'[c] = r
      /\ \A b \in Callers \ {c} : call'[b] = call[b]
  BY Replaced
<1>. QED BY <1>1 DEF Moves, Advances

\* What follows the last write or removal.
LEMMA AfterEffectMoves ==
  ASSUME Typed, Placed, NEW c \in Callers, Busy(c), call[c].phase \in {"act", "open", "write"},
         NEW todo \in Seq(Keys), Range(todo) \subseteq Todo(c),
         todo # << >> => call[c].op \in WritingOps, AfterEffect(c, todo)
  PROVE  /\ Moves(c)
         /\ call'[c].todo = todo /\ call'[c].phase \in {"open", "publish", "idle"}
<1>0. call[c] \in Call /\ PlacedAt(c, call[c])
  BY DEF Typed, FilesTyped, Placed
<1>1. CASE todo # << >>
  <2> DEFINE r == [call[c] EXCEPT !.phase = "open", !.todo = todo]
  <2>1. r \in Call /\ r.phase = "open" /\ r.todo = todo /\ r.op = call[c].op
    BY <1>0 DEF Call, Phases
  <2>2. call' = [call EXCEPT ![c] = r] /\ queue' = queue
    BY <1>1 DEF AfterEffect
  <2>3. PlacedAt(c, r)
    BY <1>0, <1>1, <2>1 DEF PlacedAt, Busy, Todo
  <2> HIDE DEF r
  <2>. QED BY <2>1, <2>2, <2>3, AdvancedMoves
<1>2. CASE todo = << >> /\ call[c].op \in Publishing
  <2> DEFINE r == [call[c] EXCEPT !.phase = "publish", !.todo = todo]
  <2>1. r \in Call /\ r.phase = "publish" /\ r.todo = todo /\ r.op = call[c].op
    BY <1>0 DEF Call, Phases
  <2>2. call' = [call EXCEPT ![c] = r] /\ queue' = queue
    BY <1>2 DEF AfterEffect
  <2>3. PlacedAt(c, r)
    BY <1>0, <1>2, <2>1 DEF PlacedAt, Busy, Range
  <2> HIDE DEF r
  <2>. QED BY <2>1, <2>2, <2>3, AdvancedMoves
<1>3. CASE todo = << >> /\ call[c].op \notin Publishing
  BY <1>3, ReturnedMoves, NoCallPlaced DEF AfterEffect, Releases
<1>. QED BY <1>1, <1>2, <1>3

-----------------------------------------------------------------------------
(* What a step of c does, whichever it is, as the others see it.           *)

OnTheFiles(c) ==
  /\ FilesTyped' /\ Explained' /\ Keeps /\ StillOpen(c)
  /\ fd'[c] = IF call'[c].phase = "write" THEN Head(call'[c].todo) ELSE Closed

OnTheListings(c) ==
  /\ DueWritten'
  /\ \A b \in Callers \ {c} : due'[b] \subseteq due[b]
  /\ call'[c].phase = "list" => due'[c] \subseteq call'[c].got \cup Range(call'[c].todo)

OnTheCommit(c) ==
  /\ used' = used
  /\ call'[c].phase # "idle" /\ call[c].op \in WritingOps =>
       /\ \A k \in Todo(c) : k \in Range(call'[c].todo) \/ Kept(k)'
       /\ PartsLast(call[c].todo) => PartsLast(call'[c].todo)
  /\ \/ uow' = uow
     \/ /\ c = U /\ call'[c].phase = "idle"
        /\ uow' = [NoTransaction EXCEPT !.committed = Pend]
        /\ \A k \in Todo(c) : Kept(k)'

Served(c) == Moves(c) /\ OnTheFiles(c) /\ OnTheListings(c) /\ OnTheCommit(c)

\* Neither the files nor the listings nor the unit of work change.
LEMMA QuietServed ==
  ASSUME IInv, NEW c \in Callers, Moves(c), UNCHANGED <<disk, fd, past, due, used, uow>>,
         call[c].phase # "write", call'[c].phase # "write",
         call'[c].phase # "idle" /\ call[c].op \in WritingOps => call'[c].todo = call[c].todo,
         call'[c].phase = "list" => due[c] \subseteq call'[c].got \cup Range(call'[c].todo)
  PROVE  Served(c)
<1>1. Explained' /\ Keeps /\ StillOpen(c)
  BY FilesUntouched DEF IInv, Filed
<1>2. FilesTyped' /\ fd'[c] = Closed
  BY DEF IInv, Calling, Typed, FilesTyped, Filed, Opened
<1>3. OnTheFiles(c)
  BY <1>1, <1>2 DEF OnTheFiles
<1>4. OnTheListings(c)
  BY DEF OnTheListings, IInv, DueWritten, Complete
<1>5. OnTheCommit(c)
  BY DEF OnTheCommit, Todo
<1>. QED BY <1>3, <1>4, <1>5 DEF Served

\* Taking the lock.
LEMMA AcquiredServed == ASSUME IInv, NEW c \in Callers, Acquired(c) PROVE Served(c)
<1> DEFINE r == [call[c] EXCEPT !.phase = Body(call[c].op)]
<1>1. /\ call[c] \in Call /\ PlacedAt(c, call[c]) /\ call[c].phase = "lock" /\ Typed
  BY DEF IInv, Calling, Typed, Placed, Acquired
<1>2. Body(call[c].op) \in IF call[c].op = "delete_session" THEN {"read"} ELSE {"open"}
  BY <1>1 DEF PlacedAt, Locked, Body, ReadsFirst
<1>3. r \in Call /\ r.phase = Body(call[c].op) /\ r.todo = call[c].todo /\ r.op = call[c].op
  BY <1>1, <1>2 DEF Call, Phases
<1>4. call' = [call EXCEPT ![c] = r] /\ queue' = queue /\ Head(queue) = c
  BY DEF Acquired
<1>5. PlacedAt(c, r)
  BY <1>1, <1>2, <1>3 DEF PlacedAt, Locked, WritingOps, ReadsFirst
<1>6. Busy(c) /\ Range(r.todo) \subseteq Todo(c)
  BY <1>1, <1>3 DEF Busy, Todo
<1>7. r.phase \in {"read", "open"}
  BY <1>2, <1>3
<1> HIDE DEF r
<1>8. Moves(c) /\ call'[c] = r
  BY <1>1, <1>3, <1>4, <1>5, <1>6, <1>7, AdvancedMoves
<1>. QED BY <1>1, <1>3, <1>7, <1>8, QuietServed DEF Acquired

\* Reading the session or the message first.
LEMMA ReadServed == ASSUME IInv, NEW c \in Callers, Read(c) PROVE Served(c)
<1> DEFINE v == disk[Head(call[c].todo)] = "written"
           r == [call[c] EXCEPT !.phase = "act", !.seen = v]
<1>1. call[c] \in Call /\ PlacedAt(c, call[c]) /\ call[c].phase = "read" /\ Typed
  BY DEF IInv, Calling, Typed, Placed, Read
<1>2. v \in BOOLEAN
  OBVIOUS
<1>4. call' = [call EXCEPT ![c] = r] /\ queue' = queue
  BY DEF Read
<1> HIDE DEF v
<1>3. r \in Call /\ r.phase = "act" /\ r.todo = call[c].todo /\ r.op = call[c].op
  BY <1>1, <1>2 DEF Call, Phases
<1>5. PlacedAt(c, r)
  BY <1>1, <1>3 DEF PlacedAt
<1>6. Busy(c) /\ Range(r.todo) \subseteq Todo(c)
  BY <1>1, <1>3 DEF Busy, Todo
<1> HIDE DEF r
<1>8. Moves(c) /\ call'[c] = r
  BY <1>1, <1>3, <1>4, <1>5, <1>6, AdvancedMoves
<1>. QED BY <1>1, <1>3, <1>8, QuietServed DEF Read

\* Nothing to change, or the event published: the call ends.
LEMMA EndServed ==
  ASSUME IInv, NEW c \in Callers, NotFound(c) \/ Published(c)
  PROVE  Served(c)
<1>1. Moves(c) /\ call'[c] = NoCall
  BY ReturnedMoves DEF NotFound, Published, Busy, IInv, Calling, Releases
<1>. QED BY <1>1, NoCallPlaced, QuietServed DEF NotFound, Published

\* The next file of a listing, read or skipped.
LEMMA ListNextServed == ASSUME IInv, NEW c \in Callers, ListNext(c) PROVE Served(c)
<1>1. /\ call[c] \in Call /\ PlacedAt(c, call[c]) /\ call[c].phase = "list" /\ Typed
      /\ call[c].todo # << >> /\ call[c].todo \in Seq(Keys) /\ call[c].got \in SUBSET Messages
  BY CallFields DEF IInv, Calling, Typed, Placed, ListNext
<1>2. PICK m \in Keys : m = Head(call[c].todo)
  BY <1>1, Behead
<1>3. /\ Tail(call[c].todo) \in Seq(Keys)
      /\ Todo(c) = Range(Tail(call[c].todo)) \cup {m}
  BY <1>1, <1>2, Behead, BeheadRange DEF Todo
<1>4. m \in Messages
  BY <1>1, <1>3 DEF PlacedAt, Todo
<1> DEFINE g == IF disk[m] = "written" THEN call[c].got \cup {m} ELSE call[c].got
           r == [call[c] EXCEPT !.todo = Tail(call[c].todo), !.got = g]
<1>5. call' = [call EXCEPT ![c] = r] /\ queue' = queue
  BY <1>1, <1>2 DEF ListNext, Typed
<1>6. /\ r \in Call /\ r.phase = "list" /\ r.op = call[c].op
      /\ r.todo = Tail(call[c].todo) /\ r.got = g
  BY <1>1, <1>3, <1>4 DEF Call
<1>7. PlacedAt(c, r)
  BY <1>1, <1>3, <1>6 DEF PlacedAt, Todo
<1>8. Busy(c) /\ call[c].op \notin WritingOps
  BY <1>1 DEF Busy, PlacedAt, WritingOps
<1>9. due[c] \subseteq call[c].got \cup Todo(c) /\ \A n \in due[c] : disk[n] = "written"
  BY <1>1 DEF IInv, ListingComplete, DueWritten, Complete, Todo
<1>10. due[c] \subseteq r.got \cup Range(r.todo)
  BY <1>3, <1>6, <1>9
<1> HIDE DEF r
<1>11. Moves(c) /\ call'[c] = r
  BY <1>1, <1>5, <1>6, <1>7, <1>8, AdvancedMoves
<1>. QED BY <1>1, <1>6, <1>8, <1>10, <1>11, QuietServed DEF ListNext

\* The end of a listing.
LEMMA ListDoneServed == ASSUME IInv, NEW c \in Callers, ListDone(c) PROVE Served(c)
<1>1. /\ PlacedAt(c, call[c]) /\ call[c].phase = "list" /\ Typed
      /\ Opened /\ Explained /\ DueWritten
  BY DEF IInv, Calling, Placed, ListDone, Filed
<1>2. call[c].op \notin Locked /\ call[c].op \notin WritingOps
  BY <1>1 DEF PlacedAt, Locked, WritingOps
<1>3. Moves(c) /\ call'[c] = NoCall
  BY <1>1, <1>2, ReturnedMoves DEF ListDone, Busy, Unlocked, Releases
<1>4. /\ due'[c] = {} /\ due' \in [Callers -> SUBSET Messages]
      /\ \A b \in Callers \ {c} : due'[b] = due[b]
  BY <1>1 DEF ListDone, Typed, FilesTyped
<1>5. Explained' /\ Keeps /\ StillOpen(c)
  BY <1>1, FilesUntouched DEF ListDone
<1>6. FilesTyped' /\ fd'[c] = Closed
  BY <1>1, <1>4 DEF Typed, FilesTyped, Opened, ListDone
<1>7. OnTheFiles(c)
  BY <1>3, <1>5, <1>6, NoCallPlaced DEF OnTheFiles, ListDone
<1>8. OnTheListings(c)
  BY <1>1, <1>3, <1>4, NoCallPlaced DEF OnTheListings, DueWritten, Complete, ListDone
<1>9. OnTheCommit(c)
  BY <1>2 DEF OnTheCommit, ListDone
<1>. QED BY <1>3, <1>7, <1>8, <1>9 DEF Served

\* The messages that a listing begun now has to return.
LEMMA ListedNow ==
  ASSUME Typed
  PROVE  /\ Complete \subseteq Range(SetToSeq(Listed))
         /\ Range(SetToSeq(Listed)) \subseteq Messages /\ SetToSeq(Listed) \in Seq(Keys)
BY ListedSeq DEF Listed, Complete

\* An export goes on to the messages.
LEMMA ExportServed == ASSUME IInv, NEW c \in Callers, Export(c) PROVE Served(c)
<1> DEFINE r == [call[c] EXCEPT !.phase = "list", !.todo = SetToSeq(Listed)]
<1>1. /\ call[c] \in Call /\ PlacedAt(c, call[c]) /\ call[c].phase = "act" /\ Typed
      /\ Opened /\ Explained /\ DueWritten /\ call[c].op = "get_export_data"
  BY DEF IInv, Calling, Placed, Export, Filed, Typed
<1>2. /\ r \in Call /\ r.phase = "list" /\ r.op = "get_export_data" /\ r.todo = SetToSeq(Listed)
  BY <1>1, ListedNow DEF Call, Phases
<1>3. PlacedAt(c, r)
  BY <1>1, <1>2, ListedNow DEF PlacedAt
<1>4. call' = [call EXCEPT ![c] = r] /\ queue' = queue
  BY DEF Export
<1> HIDE DEF r
<1>5. Moves(c) /\ call'[c] = r
  BY <1>1, <1>2, <1>3, <1>4, AdvancedMoves DEF Busy, WritingOps
<1>6. /\ due'[c] = Complete
      /\ due' \in [Callers -> SUBSET Messages]
      /\ \A b \in Callers \ {c} : due'[b] = due[b]
  BY <1>1 DEF Export, Typed, FilesTyped, Complete
<1>7. Explained' /\ Keeps /\ StillOpen(c)
  BY <1>1, FilesUntouched DEF Export
<1>8. FilesTyped' /\ fd'[c] = Closed
  BY <1>1, <1>6 DEF Typed, FilesTyped, Opened, Export
<1>9. OnTheFiles(c)
  BY <1>2, <1>5, <1>7, <1>8 DEF OnTheFiles, Export
<1>10. OnTheListings(c)
  <2>1. DueWritten'
    <3>1. Complete' = Complete
      BY DEF Export, Complete
    <3>. QED BY <1>1, <1>6, <3>1 DEF DueWritten
  <2>2. due'[c] \subseteq Range(call'[c].todo)
    BY <1>1, <1>2, <1>5, <1>6, ListedNow
  <2>. QED BY <1>6, <2>1, <2>2 DEF OnTheListings
<1>11. OnTheCommit(c)
  BY <1>1 DEF OnTheCommit, WritingOps, Export
<1>. QED BY <1>5, <1>9, <1>10, <1>11 DEF Served

\* A call with a file open is in the middle of writing it.
LEMMA WriterOf ==
  ASSUME IInv, NEW b \in Callers, NEW k \in Keys, fd[b] = k
  PROVE  /\ call[b].phase = "write" /\ Busy(b) /\ call[b].op \in WritingOps
         /\ k = Head(call[b].todo) /\ k \in Todo(b)
<1>1. PlacedAt(b, call[b]) /\ Opened /\ Typed /\ call[b].todo \in Seq(Keys)
  BY CallFields DEF IInv, Calling, Placed, Filed
<1>2. call[b].phase = "write" /\ k = Head(call[b].todo)
  BY <1>1 DEF Opened
<1>3. call[b].todo # << >>
  BY <1>1, <1>2 DEF PlacedAt
<1>. QED BY <1>1, <1>2, <1>3, BeheadRange DEF Busy, PlacedAt, Todo

\* No two calls of the manager have a message open: its writers are under
\* the lock, or create it under a new identifier.
LEMMA WritersAlone == IInv => MessageWritersAlone
<1>. SUFFICES ASSUME IInv, NEW c \in Managers, NEW d \in Managers, c # d, fd[c] = fd[d],
                     fd[c] \in Messages
              PROVE  FALSE
  BY DEF MessageWritersAlone
<1>1. PICK m \in Keys : m \in Messages /\ fd[c] = m /\ fd[d] = m
  BY DEF Keys
<1>2. c \in Callers /\ d \in Callers /\ c # U /\ d # U /\ m \notin Sessions /\ m \notin Parts
  BY <1>1 DEF Callers
<1>3. /\ call[c].phase = "write" /\ Writing(c) /\ m \in Todo(c)
      /\ call[d].phase = "write" /\ Writing(d) /\ m \in Todo(d)
  BY <1>1, <1>2, WriterOf DEF Writing
<1>4. call[c].op \in Locked \cup Creating /\ call[d].op \in Locked \cup Creating
  <2>1. PlacedAt(c, call[c]) /\ PlacedAt(d, call[d])
    BY <1>2 DEF IInv, Calling, Placed
  <2>. QED BY <1>2, <1>3, <2>1 DEF PlacedAt, Writing, Busy, WritingOps, Locked, Creating, Todo
<1>5. m \in Claimed(c) /\ m \in Claimed(d)
  BY <1>3 DEF Claimed
<1>6. call[c].op \in Locked /\ call[d].op \in Locked
  BY <1>2, <1>4, <1>5 DEF IInv, Calling, Owned
<1>7. Head(queue) = c /\ Head(queue) = d
  BY <1>2, <1>3, <1>6 DEF IInv, Calling, LockHeld, Writing
<1>. QED BY <1>7

\* The next file is opened for writing.
LEMMA OpenServed == ASSUME IInv, NEW c \in Callers, Open(c) PROVE Served(c)
<1> DEFINE r == [call[c] EXCEPT !.phase = "write"]
<1>1. /\ call[c] \in Call /\ PlacedAt(c, call[c]) /\ Typed /\ Opened /\ Explained /\ DueWritten
      /\ call[c].phase \in {"open", "act"} /\ call[c].todo \in Seq(Keys)
  BY CallFields DEF IInv, Calling, Placed, Open, Filed, Typed
<1>2. call[c].op \in WritingOps /\ call[c].todo # << >> /\ Busy(c)
  BY <1>1 DEF PlacedAt, Open, WritingOps, Busy
<1>3. PICK k \in Keys : k = Head(call[c].todo)
  BY <1>1, <1>2, Behead
<1>4. Truncate(c, k) /\ k \in Todo(c)
  BY <1>1, <1>2, <1>3, BeheadRange DEF Open, Todo
<1>5. fd[c] = Closed
  BY <1>1 DEF Opened
<1>7. Explained' /\ Keeps /\ StillOpen(c) /\ fd'[c] = k
  BY <1>1, <1>4, <1>5, TruncateFiles
<1>8. r \in Call /\ r.phase = "write" /\ r.op = call[c].op /\ r.todo = call[c].todo
  BY <1>1 DEF Call, Phases
<1>9. PlacedAt(c, r)
  BY <1>1, <1>2, <1>8 DEF PlacedAt, Busy
<1>10. call' = [call EXCEPT ![c] = r] /\ queue' = queue
  BY DEF Open
<1>11. Range(r.todo) \subseteq Todo(c)
  BY <1>8 DEF Todo
<1> HIDE DEF r
<1>12. Moves(c) /\ call'[c] = r
  BY <1>1, <1>2, <1>8, <1>9, <1>10, <1>11, AdvancedMoves
<1>13. /\ disk'[k] = "empty" /\ \A j \in Keys : j # k => disk'[j] = disk[j]
       /\ \A b \in Callers : due'[b] = due[b] \ {k}
       /\ \A b \in Callers \ {c} : fd'[b] = fd[b]
  BY <1>1, <1>4 DEF Truncate, Typed, FilesTyped
<1>14. FilesTyped'
  <2>1. disk' \in [Keys -> {"absent", "empty", "garbled", "written"}]
        /\ fd' \in [Callers -> Keys \cup {Closed, Unlinked}]
    BY <1>1, <1>4 DEF Truncate, Typed, FilesTyped
  <2>2. past' \in [Keys -> SUBSET {"overlapped", "interrupted", "deleted"}]
    <3>1. PICK x \in SUBSET {"overlapped", "interrupted", "deleted"} : past' = [past EXCEPT ![k] = x]
      <4>1. past[k] \in SUBSET {"overlapped", "interrupted", "deleted"}
        BY <1>1 DEF Typed, FilesTyped
      <4>. QED BY <1>4, <4>1 DEF Truncate
    <3>. QED BY <1>1, <3>1 DEF Typed, FilesTyped
  <2>3. due' \in [Callers -> SUBSET Messages]
    BY <1>1, <1>4 DEF Truncate, Typed, FilesTyped
  <2>. QED BY <2>1, <2>2, <2>3 DEF FilesTyped
<1>15. OnTheFiles(c)
  BY <1>3, <1>7, <1>8, <1>12, <1>13, <1>14 DEF OnTheFiles, Keys
<1>16. OnTheListings(c)
  <2>1. \A b \in Callers : due[b] \subseteq Keys
    BY <1>1 DEF Typed, FilesTyped, Keys
  <2>2. Complete \ {k} \subseteq Complete'
    BY <1>7, <1>13 DEF Complete, Keys
  <2>3. DueWritten'
    BY <1>1, <1>13, <2>2 DEF DueWritten
  <2>. QED BY <1>8, <1>12, <1>13, <2>3 DEF OnTheListings
<1>17. OnTheCommit(c)
  BY <1>8, <1>12 DEF OnTheCommit, Open, Todo
<1>. QED BY <1>12, <1>15, <1>16, <1>17 DEF Served

\* A session or a message is removed.
LEMMA DeleteServed == ASSUME IInv, NEW c \in Callers, Delete(c) PROVE Served(c)
<1>1. /\ call[c] \in Call /\ PlacedAt(c, call[c]) /\ Typed /\ Placed /\ Opened /\ Explained /\ DueWritten
      /\ call[c].phase = "act" /\ call[c].todo \in Seq(Keys) /\ Busy(c)
      /\ call[c].op \notin WritingOps
  BY CallFields DEF IInv, Calling, Placed, Delete, Filed, Typed, Busy, WritingOps
<1>2. PICK k \in Keys : k = Head(call[c].todo)
  BY <1>1, Behead DEF PlacedAt
<1>3. Unlink(k) /\ fd[c] = Closed
  BY <1>1, <1>2 DEF Delete, Opened
<1>4. /\ Explained' /\ Keeps /\ StillOpen(c) /\ fd'[c] = Closed
      /\ \A j \in Keys : j # k => disk'[j] = disk[j]
      /\ disk'[k] = "absent"
  BY <1>1, <1>3, UnlinkFiles
<1>5. << >> \in Seq(Keys) /\ Range(<< >>) \subseteq Todo(c)
  BY DEF Range
<1>6. Moves(c) /\ call'[c].phase \in {"open", "publish", "idle"} /\ call'[c].todo = << >>
  BY <1>1, <1>5, AfterEffectMoves DEF Delete
<1>7. call'[c].phase \in {"publish", "idle"}
  <2>1. call[c].op \in Publishing
    BY DEF Delete, Publishing
  <2>2. call' = [call EXCEPT ![c].phase = "publish", ![c].todo = << >>]
    BY <2>1 DEF Delete, AfterEffect
  <2>. QED BY <1>1, <2>2 DEF Typed, Call
<1>8. FilesTyped' /\ \A b \in Callers : due'[b] = due[b] \ {k}
  BY <1>1, <1>3 DEF Unlink, Typed, FilesTyped
<1>9. OnTheFiles(c)
  BY <1>4, <1>7, <1>8 DEF OnTheFiles, Keys
<1>10. OnTheListings(c)
  <2>1. \A b \in Callers : due[b] \subseteq Keys
    BY <1>1 DEF Typed, FilesTyped, Keys
  <2>2. Complete \ {k} \subseteq Complete'
    BY <1>1, <1>3, <1>4 DEF Complete, Keys, Unlink
  <2>3. DueWritten'
    BY <1>1, <1>8, <2>2 DEF DueWritten
  <2>. QED BY <1>7, <1>8, <2>3 DEF OnTheListings
<1>11. OnTheCommit(c)
  BY <1>1 DEF OnTheCommit, Delete
<1>. QED BY <1>6, <1>9, <1>10, <1>11 DEF Served

\* What follows the first file is in the same order.
LEMMA PartsLastTail ==
  ASSUME NEW s \in Seq(Keys), s # << >>, PartsLast(s)
  PROVE  PartsLast(Tail(s))
<1>1. /\ \A i \in DOMAIN Tail(s) : i + 1 \in DOMAIN s /\ Tail(s)[i] = s[i + 1]
      /\ \A i, j \in DOMAIN Tail(s) : i < j => i + 1 < j + 1
  BY Behead
<1>. QED BY <1>1 DEF PartsLast

\* A file is written and closed.
LEMMA CloseServed == ASSUME IInv, NEW c \in Callers, Close(c) PROVE Served(c)
<1>1. /\ call[c] \in Call /\ PlacedAt(c, call[c]) /\ Typed /\ Placed /\ Opened /\ Explained /\ DueWritten
      /\ call[c].phase = "write" /\ call[c].todo \in Seq(Keys) /\ Busy(c)
  BY CallFields DEF IInv, Calling, Placed, Close, Filed, Typed, Busy
<1>2. call[c].op \in WritingOps /\ call[c].todo # << >>
  BY <1>1 DEF PlacedAt
<1>3. PICK k \in Keys : k = Head(call[c].todo)
  BY <1>1, <1>2, Behead
<1>4. disk' \in Flushed(c) /\ fd' = [fd EXCEPT ![c] = Closed] /\ past' = past /\ due' = due /\ used' = used
  BY DEF Close
<1>5. /\ Explained' /\ Keeps /\ StillOpen(c) /\ fd'[c] = Closed
      /\ Kept(k)' /\ \A j \in Keys : j # k => disk'[j] = disk[j]
      /\ Complete \subseteq Complete'
  BY <1>1, <1>3, <1>4, CloseFiles
<1>6. /\ Tail(call[c].todo) \in Seq(Keys) /\ Todo(c) = Range(Tail(call[c].todo)) \cup {k}
  BY <1>1, <1>2, <1>3, Behead, BeheadRange DEF Todo
<1>7. /\ Moves(c) /\ call'[c].phase \in {"open", "publish", "idle"}
      /\ call'[c].todo = Tail(call[c].todo)
  BY <1>1, <1>2, <1>6, AfterEffectMoves DEF Close
<1>8. FilesTyped'
  <2>1. disk' \in [Keys -> {"absent", "empty", "garbled", "written"}]
    BY <1>1, <1>4 DEF Flushed, Typed, FilesTyped
  <2>. QED BY <1>1, <1>4, <2>1 DEF Typed, FilesTyped
<1>10. OnTheFiles(c)
  BY <1>5, <1>7, <1>8 DEF OnTheFiles
<1>11. OnTheListings(c)
  BY <1>1, <1>4, <1>5, <1>7 DEF OnTheListings, DueWritten
<1>12. PartsLast(call[c].todo) => PartsLast(call'[c].todo)
  BY <1>1, <1>2, <1>7, PartsLastTail
<1>13. \A j \in Todo(c) : j \in Range(call'[c].todo) \/ Kept(j)'
  BY <1>5, <1>6, <1>7
<1>14. \/ uow' = uow
       \/ /\ c = U /\ call'[c].phase = "idle"
          /\ uow' = [NoTransaction EXCEPT !.committed = Pend]
          /\ \A j \in Todo(c) : Kept(j)'
  <2>1. CASE call[c].op = "commit" /\ Tail(call[c].todo) = << >>
    <3>1. c = U
      BY <1>1, <2>1 DEF PlacedAt, Busy
    <3>2. call'[c] = NoCall
      BY <1>1, <2>1, ReturnedMoves DEF Close, AfterEffect, Publishing, Releases
    <3>3. Range(call'[c].todo) = {}
      BY <1>7, <2>1 DEF Range
    <3>. QED BY <1>13, <2>1, <3>1, <3>2, <3>3, NoCallPlaced DEF Close, Ended, Pend
  <2>2. CASE ~(call[c].op = "commit" /\ Tail(call[c].todo) = << >>)
    BY <2>2 DEF Close, Ended
  <2>. QED BY <2>1, <2>2
<1>15. OnTheCommit(c)
  BY <1>4, <1>12, <1>13, <1>14 DEF OnTheCommit
<1>. QED BY <1>7, <1>10, <1>11, <1>15 DEF Served

\* A commit with nothing registered.
LEMMA CommitNothingServed == ASSUME IInv, NEW c \in Callers, CommitNothing(c) PROVE Served(c)
<1>1. /\ PlacedAt(c, call[c]) /\ Typed /\ Opened /\ Explained /\ DueWritten
      /\ call[c].phase = "open" /\ call[c].todo = << >> /\ Busy(c)
  BY DEF IInv, Calling, Placed, CommitNothing, Filed, Busy
<1>2. call[c].op = "commit" /\ c = U
  BY <1>1 DEF PlacedAt, Busy
<1>3. Moves(c) /\ call'[c] = NoCall
  BY <1>1, <1>2, ReturnedMoves DEF CommitNothing, AfterEffect, Publishing, Releases
<1>4. uow' = [NoTransaction EXCEPT !.committed = Pend] /\ Todo(c) = {}
  BY <1>1, <1>2 DEF CommitNothing, Ended, Pend, Todo, Range
<1>5. Explained' /\ Keeps /\ StillOpen(c)
  BY <1>1, FilesUntouched DEF CommitNothing
<1>6. FilesTyped' /\ fd'[c] = Closed
  BY <1>1 DEF Typed, FilesTyped, Opened, CommitNothing
<1>7. OnTheFiles(c)
  BY <1>3, <1>5, <1>6, NoCallPlaced DEF OnTheFiles, CommitNothing
<1>8. OnTheListings(c)
  BY <1>1, <1>3, NoCallPlaced DEF OnTheListings, DueWritten, Complete, CommitNothing
<1>9. OnTheCommit(c)
  BY <1>2, <1>3, <1>4, NoCallPlaced DEF OnTheCommit, CommitNothing
<1>. QED BY <1>3, <1>7, <1>8, <1>9 DEF Served

\* Opening or writing raises.
LEMMA FailsServed == ASSUME IInv, NEW c \in Callers, Fails(c) PROVE Served(c)
<1>1. Typed /\ Placed /\ Opened /\ Explained /\ DueWritten
  BY DEF IInv, Calling, Filed
<1>2. /\ Explained' /\ Keeps /\ StillOpen(c) /\ fd'[c] = Closed
      /\ call[c].phase \in {"open", "write"}
  BY <1>1, FailFiles
<1>3. Moves(c) /\ call'[c] = NoCall
  BY <1>1, <1>2, ReturnedMoves DEF Fails, Busy, Releases
<1>4. FilesTyped'
  <2>1. past' \in [Keys -> SUBSET {"overlapped", "interrupted", "deleted"}]
    <3>1. CASE past' = past
      BY <1>1, <3>1 DEF Typed, FilesTyped
    <3>2. CASE past' = Interrupted(fd[c])
      BY <1>1, <3>2 DEF Typed, FilesTyped, Interrupted
    <3>. QED BY <3>1, <3>2 DEF Fails
  <2>. QED BY <1>1, <2>1 DEF Typed, FilesTyped, Fails
<1>5. OnTheFiles(c)
  BY <1>2, <1>3, <1>4, NoCallPlaced DEF OnTheFiles, Fails
<1>6. OnTheListings(c)
  <2>1. Complete \subseteq Complete'
    <3>1. \A b \in Callers : fd'[b] = fd[b] \/ fd'[b] \notin Messages
      BY <1>1 DEF Fails, Typed, FilesTyped, Keys
    <3>. QED BY <3>1 DEF Complete, Fails
  <2>. QED BY <1>1, <1>3, <2>1, NoCallPlaced DEF OnTheListings, DueWritten, Fails
<1>7. OnTheCommit(c)
  BY <1>3, NoCallPlaced DEF OnTheCommit, Fails
<1>. QED BY <1>3, <1>5, <1>6, <1>7 DEF Served

\* Each step of a call, and each failure.
LEMMA StepServed ==
  ASSUME IInv, NEW c \in Callers, Step(c) \/ Fails(c)
  PROVE  Served(c)
BY AcquiredServed, ReadServed, EndServed, DeleteServed, ExportServed, OpenServed, CloseServed,
   CommitNothingServed, ListNextServed, ListDoneServed, FailsServed DEF Step

-----------------------------------------------------------------------------
(* A step that is served this way keeps the invariant.                     *)

\* Which calls are under way and of which kind does not change, but for the
\* one that ends.
LEMMA MovedCalls ==
  ASSUME Typed, NEW c \in Callers, Moves(c), NEW b \in Callers
  PROVE  /\ Busy(b)' => Busy(b) /\ call'[b].op = call[b].op
         /\ Writing(b)' => Writing(b) /\ Todo(b)' \subseteq Todo(b)
         /\ Claimed(b)' \subseteq Claimed(b)
         /\ b # c => Busy(b)' = Busy(b) /\ call'[b] = call[b]
<1>1. CASE b # c
  BY <1>1 DEF Moves, Busy, Writing, Todo, Claimed
<1>2. CASE b = c /\ Advances(c)
  BY <1>2 DEF Moves, Advances, Busy, Writing, Todo, Claimed
<1>3. CASE b = c /\ Releases(c)
  BY <1>3, NoCallPlaced DEF Releases, Busy, Writing, Todo, Claimed
<1>. QED BY <1>1, <1>2, <1>3 DEF Moves

\* The lock stays with the head of the queue; whoever ends lets go of it.
LEMMA MovedLock ==
  ASSUME Typed, LockHeld, NEW c \in Callers, Moves(c)
  PROVE  LockHeld' /\ queue' \in Seq(Callers)
<1>1. CASE Advances(c)
  <2>1. /\ \A b \in Callers : Busy(b)' = Busy(b) /\ call'[b].op = call[b].op
        /\ queue' = queue
    BY <1>1 DEF Moves, Advances, Busy
  <2>2. ASSUME NEW b \in Callers, Busy(b)', call'[b].phase # "lock", call'[b].op \in Locked
        PROVE  Head(queue) = b
    <3>1. CASE b = c
      BY <1>1, <2>1, <2>2, <3>1 DEF Advances, LockHeld
    <3>2. CASE b # c
      BY <2>1, <2>2, <3>2 DEF Moves, LockHeld
    <3>. QED BY <3>1, <3>2
  <2>. QED BY <2>1, <2>2 DEF LockHeld, Typed
<1>2. CASE Releases(c) /\ call[c].op \notin Locked
  <2>1. queue' = queue /\ ~Busy(c)' /\ \A b \in Callers \ {c} : call'[b] = call[b]
    BY <1>2, NoCallPlaced DEF Releases, Unlocked, Moves, Busy
  <2>2. \A b \in Callers : Busy(b)' /\ call'[b].op \in Locked <=> Busy(b) /\ call[b].op \in Locked
    BY <1>2, <2>1 DEF Busy
  <2>3. ASSUME NEW b \in Callers, Busy(b)', call'[b].phase # "lock", call'[b].op \in Locked
        PROVE  Head(queue) = b
    BY <2>1, <2>3 DEF LockHeld, Busy
  <2>. QED BY <2>1, <2>2, <2>3 DEF LockHeld, Typed
<1>3. CASE Releases(c) /\ call[c].op \in Locked
  <2>1. queue' = Tail(queue) /\ ~Busy(c)' /\ \A b \in Callers \ {c} : call'[b] = call[b]
    BY <1>3, NoCallPlaced DEF Releases, Unlocked, Moves, Busy
  <2>2. Head(queue) = c /\ c \in Range(queue)
    BY <1>3 DEF LockHeld, Releases
  <2>3. queue # << >> /\ queue \in Seq(Callers)
    BY <2>2 DEF Typed, Range
  <2>4. /\ IsInjective(Tail(queue)) /\ c \notin Range(Tail(queue))
        /\ Range(queue) = Range(Tail(queue)) \cup {c} /\ Tail(queue) \in Seq(Callers)
    BY <2>2, <2>3, BeheadRange, Behead DEF LockHeld
  <2>5. \A b \in Callers : Busy(b)' /\ call'[b].op \in Locked
                             <=> b # c /\ Busy(b) /\ call[b].op \in Locked
    BY <2>1 DEF Busy
  <2>6. Range(Tail(queue)) = {b \in Callers : b # c /\ Busy(b) /\ call[b].op \in Locked}
    BY <2>4 DEF LockHeld
  <2>7. ASSUME NEW b \in Callers, Busy(b)', call'[b].phase # "lock", call'[b].op \in Locked
        PROVE  FALSE
    BY <2>1, <2>2, <2>7 DEF LockHeld, Busy
  <2>. QED BY <2>1, <2>4, <2>5, <2>6, <2>7 DEF LockHeld
<1>. QED BY <1>1, <1>2, <1>3 DEF Moves

\* Nothing is claimed that was not claimed before.
LEMMA ServedOwned ==
  ASSUME IInv, NEW c \in Callers, Moves(c), OnTheCommit(c)
  PROVE  Owned'
<1>1. /\ \A b \in Callers : Claimed(b)' \subseteq Claimed(b)
      /\ \A b \in Callers : \A k \in Claimed(b)' : call'[b].op = call[b].op
      /\ used' = used
  <2>. Typed
    BY DEF IInv, Calling
  <2>1. ASSUME NEW b \in Callers, NEW k \in Claimed(b)' PROVE call'[b].op = call[b].op
    <3>1. Busy(b)'
      BY <2>1 DEF Claimed, Writing
    <3>. QED BY <3>1, MovedCalls
  <2>. QED BY <2>1, MovedCalls DEF OnTheCommit
<1>2. CASE uow' = uow
  <2>1. Pend' = Pend
    BY <1>2 DEF Pend
  <2>2. Busy(U)' => Todo(U)' \subseteq Pend
    <3>. SUFFICES ASSUME Busy(U)' PROVE Todo(U)' \subseteq Pend
      OBVIOUS
    <3>1. U \in Callers /\ Typed /\ Placed
      BY DEF Callers, IInv, Calling
    <3>2. Busy(U) /\ call'[U].op = call[U].op
      BY <3>1, MovedCalls
    <3>3. call[U].op = "commit"
      BY <3>1, <3>2 DEF Placed, PlacedAt, Busy
    <3>4. Todo(U)' \subseteq Todo(U)
      BY <3>1, <3>2, <3>3, MovedCalls DEF Writing, WritingOps
    <3>. QED BY <3>2, <3>4 DEF IInv, Calling, Owned
  <2>. QED BY <1>1, <2>1, <2>2 DEF IInv, Calling, Owned, Callers
<1>3. CASE c = U /\ call'[c].phase = "idle" /\ uow' = [NoTransaction EXCEPT !.committed = Pend]
  <2>1. Pend' = {} /\ ~Busy(U)'
    BY <1>3 DEF NoTransaction, NothingPending, InOrder, Pend, Range, Busy
  <2>. QED BY <1>1, <2>1 DEF IInv, Calling, Owned, Callers
<1>. QED BY <1>2, <1>3 DEF OnTheCommit

\* What is open is still at the head of what its writer has to do.
LEMMA ServedOpened ==
  ASSUME IInv, NEW c \in Callers, Moves(c), OnTheFiles(c)
  PROVE  Opened'
<1>. SUFFICES ASSUME NEW b \in Callers
              PROVE  IF call'[b].phase = "write"
                     THEN \/ fd'[b] = Head(call'[b].todo)
                          \/ fd'[b] = Unlinked /\ Kept(Head(call[b].todo))'
                     ELSE fd'[b] = Closed
  BY DEF Opened
<1>1. CASE b = c
  BY <1>1 DEF OnTheFiles
<1>2. CASE b # c
  <2>1. call'[b] = call[b] /\ Opened /\ Typed
    BY <1>2 DEF Moves, IInv, Filed, Calling
  <2>2. CASE call[b].phase = "write"
    <3>1. call[b].todo # << >> /\ call[b].todo \in Seq(Keys)
      BY <2>1, <2>2, CallFields DEF IInv, Calling, Placed, PlacedAt
    <3>2. PICK k \in Keys : k = Head(call[b].todo)
      BY <3>1, Behead
    <3>3. fd[b] = k \/ (fd[b] = Unlinked /\ Kept(k))
      BY <2>1, <2>2, <3>2 DEF Opened
    <3>4. fd'[b] = fd[b] \/ (fd[b] = k /\ fd'[b] = Unlinked /\ Kept(k)')
      BY <1>2, <3>3 DEF OnTheFiles, StillOpen
    <3>5. Kept(k) => Kept(k)'
      BY DEF OnTheFiles, Keeps
    <3>. QED BY <2>1, <2>2, <3>2, <3>3, <3>4, <3>5
  <2>3. CASE call[b].phase # "write"
    <3>1. fd[b] = Closed /\ Closed \notin Keys
      BY <2>1, <2>3 DEF Opened
    <3>. QED BY <1>2, <2>1, <2>3, <3>1 DEF OnTheFiles, StillOpen
  <2>. QED BY <2>2, <2>3
<1>. QED BY <1>1, <1>2

\* A listing still has before it, or has read, all it has to return.
LEMMA ServedListing ==
  ASSUME IInv, NEW c \in Callers, Moves(c), OnTheListings(c)
  PROVE  DueWritten' /\ ListingComplete'
<1>. SUFFICES ASSUME NEW b \in Callers, call'[b].phase = "list"
              PROVE  due'[b] \subseteq call'[b].got \cup Range(call'[b].todo)
  BY DEF ListingComplete, OnTheListings
<1>1. CASE b = c
  BY <1>1 DEF OnTheListings
<1>2. CASE b # c
  BY <1>2 DEF OnTheListings, Moves, IInv, ListingComplete
<1>. QED BY <1>1, <1>2

\* A sequence over a set is one over a larger set.
LEMMA SeqOver == ASSUME NEW S, NEW T, S \subseteq T, NEW s \in Seq(S) PROVE s \in Seq(T)
OBVIOUS

\* What a commit writes, in its order.
LEMMA PendingOrder ==
  ASSUME NEW p \in Pending
  PROVE  /\ InOrder(p) \in Seq(Keys)
         /\ Range(InOrder(p)) = Range(p.sessions) \cup Range(p.messages) \cup Range(p.parts)
         /\ Range(p.sessions) \subseteq Sessions /\ Range(p.messages) \subseteq Messages
         /\ Range(p.parts) \subseteq Parts
<1>1. /\ p.sessions \in Seq(Sessions) /\ p.messages \in Seq(Messages) /\ p.parts \in Seq(Parts)
      /\ Sessions \subseteq Keys /\ Messages \subseteq Keys /\ Parts \subseteq Keys
  BY DEF Pending, Keys
<1>2. p.sessions \in Seq(Keys) /\ p.messages \in Seq(Keys) /\ p.parts \in Seq(Keys)
  BY <1>1, SeqOver
<1>3. /\ p.sessions \o p.messages \in Seq(Keys)
      /\ Range(p.sessions \o p.messages) = Range(p.sessions) \cup Range(p.messages)
  BY <1>2, ConcatRange
<1>4. /\ (p.sessions \o p.messages) \o p.parts \in Seq(Keys)
      /\ Range((p.sessions \o p.messages) \o p.parts)
           = Range(p.sessions) \cup Range(p.messages) \cup Range(p.parts)
  <2>1. PICK q \in Seq(Keys) : q = p.sessions \o p.messages
    BY <1>3
  <2>2. q \o p.parts \in Seq(Keys) /\ Range(q \o p.parts) = Range(q) \cup Range(p.parts)
    BY <1>2, ConcatRange
  <2>. QED BY <1>3, <2>1, <2>2
<1>5. \A S : \A s \in Seq(S) : Range(s) \subseteq S
  BY DEF Range
<1>. QED BY <1>1, <1>4, <1>5 DEF InOrder

\* What is registered.
LEMMA PendKeys ==
  ASSUME Typed
  PROVE  uow.pending \in Pending /\ Pend \subseteq Keys /\ InOrder(uow.pending) \in Seq(Keys)
<1>1. uow.pending \in Pending
  BY DEF Typed
<1>2. InOrder(uow.pending) \in Seq(Keys)
  BY <1>1, PendingOrder
<1>. QED BY <1>1, <1>2 DEF Pend, Range

\* What is committed stays kept, and parts stay last.
LEMMA ServedCommitting ==
  ASSUME IInv, NEW c \in Callers, Moves(c), OnTheFiles(c), OnTheCommit(c)
  PROVE  Committing'
<1>1. /\ Typed /\ Placed /\ Committing /\ Keeps /\ U \in Callers /\ Pend \subseteq Keys
      /\ uow.committed \subseteq Keys /\ Busy(c)
  BY PendKeys DEF IInv, Calling, OnTheFiles, Callers, Typed, Moves, Advances, Releases
<1>2. \A k \in uow'.committed : Kept(k)'
  <2>1. CASE uow' = uow
    BY <1>1, <2>1 DEF Committing, Keeps
  <2>2. CASE c = U /\ uow' = [NoTransaction EXCEPT !.committed = Pend] /\ \A k \in Todo(c) : Kept(k)'
    <3>1. uow'.committed = Pend
      BY <2>2 DEF NoTransaction
    <3>2. \A k \in Pend : k \in Todo(c) \/ Kept(k)
      BY <1>1, <2>2 DEF Committing
    <3>. QED BY <1>1, <2>2, <3>1, <3>2 DEF Keeps
  <2>. QED BY <2>1, <2>2 DEF OnTheCommit
<1>5. ASSUME Busy(U)', NEW k \in Pend' PROVE k \in Todo(U)' \/ Kept(k)'
  <2>1. uow' = uow /\ k \in Pend /\ Busy(U)
    BY <1>1, <1>5, MovedCalls DEF OnTheCommit, Busy, Pend, NoTransaction
  <2>2. k \in Todo(U) \/ Kept(k)
    BY <1>1, <2>1 DEF Committing
  <2>3. CASE c = U
    <3>1. call[U].op \in WritingOps
      BY <1>1, <2>1 DEF Placed, PlacedAt, Busy, WritingOps
    <3>. QED BY <1>1, <1>5, <2>1, <2>2, <2>3, <3>1 DEF OnTheCommit, Busy, Todo, Keeps
  <2>4. CASE c # U
    BY <1>1, <2>1, <2>2, <2>4 DEF Moves, Todo, Keeps
  <2>. QED BY <2>3, <2>4
<1>6. ASSUME Busy(U)' PROVE PartsLast(call'[U].todo)
  <2>1. Busy(U) /\ PartsLast(call[U].todo)
    BY <1>1, <1>6, MovedCalls DEF Committing
  <2>2. CASE c = U
    <3>1. call[U].op \in WritingOps
      BY <1>1, <2>1 DEF Placed, PlacedAt, Busy, WritingOps
    <3>. QED BY <1>6, <2>1, <2>2, <3>1 DEF OnTheCommit, Busy
  <2>3. CASE c # U
    BY <1>1, <2>1, <2>3 DEF Moves
  <2>. QED BY <2>2, <2>3
<1>7. PartsLast(call[U].todo)' <=> PartsLast(call'[U].todo)
  BY DEF PartsLast
<1>. QED BY <1>2, <1>5, <1>6, <1>7 DEF Committing

\* A served step keeps the invariant.
LEMMA ServedInv ==
  ASSUME IInv, NEW c \in Callers, Served(c)
  PROVE  IInv'
<1>1. Typed /\ Placed /\ LockHeld /\ Moves(c) /\ OnTheFiles(c) /\ OnTheListings(c) /\ OnTheCommit(c)
  BY DEF IInv, Calling, Served
<1>2. LockHeld' /\ queue' \in Seq(Callers)
  BY <1>1, MovedLock
<1>3. Typed'
  <2>1. uow' \in [txn : BOOLEAN, pending : Pending, committed : SUBSET Keys]
    <3>1. CASE uow' = uow
      BY <1>1, <3>1 DEF Typed
    <3>2. CASE uow' = [NoTransaction EXCEPT !.committed = Pend]
      <4>1. NothingPending \in Pending
        BY DEF NothingPending, Pending
      <4>2. uow' = [txn |-> FALSE, pending |-> NothingPending, committed |-> Pend]
        BY <3>2 DEF NoTransaction
      <4>. QED BY <1>1, <4>1, <4>2, PendKeys
    <3>. QED BY <1>1, <3>1, <3>2 DEF OnTheCommit
  <2>. QED BY <1>1, <1>2, <2>1 DEF Typed, Moves, OnTheFiles, OnTheCommit
<1>4. Placed'
  BY <1>1 DEF Placed, Moves
<1>5. Owned'
  BY <1>1, ServedOwned
<1>6. Opened' /\ Explained'
  BY <1>1, ServedOpened DEF OnTheFiles
<1>7. DueWritten' /\ ListingComplete'
  BY <1>1, ServedListing
<1>8. Committing'
  BY <1>1, ServedCommitting
<1>. QED BY <1>2, <1>3, <1>4, <1>5, <1>6, <1>7, <1>8 DEF IInv, Calling, Filed

-----------------------------------------------------------------------------
(* Calls that begin.                                                       *)

\* The call is at its first step: waiting for the lock, reading, listing or
\* writing.
LEMMA BeginCall ==
  ASSUME Typed, NEW c \in Callers, NEW op \in Ops, NEW todo \in Seq(Keys), Begin(c, op, todo),
         todo = << >> => op \in {"list_messages", "commit"}, op = "commit" <=> c = U,
         op = "update_session" => Range(todo) \subseteq Sessions,
         op = "add_part" => Range(todo) \subseteq Parts
  PROVE  /\ ~Busy(c) /\ call' \in [Callers -> Call] /\ \A b \in Callers \ {c} : call'[b] = call[b]
         /\ PlacedAt(c, call'[c]) /\ call'[c].op = op
         /\ call'[c].phase = IF op \in Locked THEN "lock" ELSE Body(op)
         /\ call'[c].todo = IF op = "list_messages" THEN SetToSeq(Listed) ELSE todo
<1> DEFINE r == IF op \in Locked THEN [Enter(c, op, todo) EXCEPT !.phase = "lock"] ELSE Enter(c, op, todo)
<1>1. call[c] \in Call /\ ~Busy(c) /\ call' = [call EXCEPT ![c] = r]
  BY DEF Typed, Begin
<1>2. Body(op) = IF op \in ReadsFirst THEN "read" ELSE IF op = "list_messages" THEN "list" ELSE "open"
  BY DEF Body
<1>3. /\ r \in Call /\ r.op = op
      /\ r.phase = IF op \in Locked THEN "lock" ELSE Body(op)
      /\ r.todo = IF op = "list_messages" THEN SetToSeq(Listed) ELSE todo
  <2>1. CASE op = "list_messages"
    <3>1. /\ r = [call[c] EXCEPT !.op = op, !.phase = "list", !.todo = SetToSeq(Listed), !.got = {}]
          /\ op \notin Locked /\ Body(op) = "list"
      BY <1>2, <2>1 DEF Enter, ReadsFirst, Locked
    <3>. QED BY <1>1, <2>1, <3>1, ListedNow DEF Call, Phases
  <2>2. CASE op # "list_messages" /\ op \in Locked
    <3>1. r = [call[c] EXCEPT !.op = op, !.phase = "lock", !.todo = todo, !.got = {}]
      BY <1>1, <1>2, <2>2 DEF Enter, ReadsFirst, Call
    <3>. QED BY <1>1, <2>2, <3>1 DEF Call, Phases
  <2>3. CASE op # "list_messages" /\ op \notin Locked
    <3>1. /\ r = [call[c] EXCEPT !.op = op, !.phase = Body(op), !.todo = todo, !.got = {}]
          /\ Body(op) \in {"read", "open"}
      BY <1>2, <2>3 DEF Enter, ReadsFirst
    <3>. QED BY <1>1, <2>3, <3>1 DEF Call, Phases
  <2>. QED BY <2>1, <2>2, <2>3
<1> HIDE DEF r
<1>4. PlacedAt(c, r)
  <2>1. r.phase = "open" => r.op \in WritingOps
    BY <1>2, <1>3 DEF Ops, Locked, ReadsFirst, Publishing, WritingOps
  <2>2. /\ r.phase \in {"read", "act"} => r.op \in ReadsFirst
        /\ r.phase = "list" => r.op = "list_messages"
        /\ r.phase = "lock" => r.op \in Locked
        /\ r.phase \in {"lock", "read", "list", "open"}
    BY <1>2, <1>3
  <2>3. r.phase # "list" => r.op # "list_messages" /\ r.todo = todo
    BY <1>2, <1>3 DEF Locked, ReadsFirst
  <2>4. r.phase \in {"lock", "read"} => r.op # "commit"
    BY <2>2 DEF Locked, ReadsFirst
  <2>. QED BY <1>3, <2>1, <2>2, <2>3, <2>4, ListedNow DEF PlacedAt
<1>. QED BY <1>1, <1>3, <1>4, Replaced

\* Whoever takes the lock queues behind the others.
LEMMA BeginLock ==
  ASSUME Typed, LockHeld, NEW c \in Callers, NEW op, NEW todo, Begin(c, op, todo), ~Busy(c), Busy(c)',
         call'[c].op = op, call'[c].phase = "lock" <=> op \in Locked,
         \A b \in Callers \ {c} : call'[b] = call[b]
  PROVE  LockHeld' /\ queue' \in Seq(Callers)
<1>1. \A b \in Callers \ {c} : Busy(b)' = Busy(b)
  BY DEF Busy
<1>2. CASE op \notin Locked
  <2>1. queue' = queue
    BY <1>2 DEF Begin
  <2>2. \A b \in Callers : Busy(b)' /\ call'[b].op \in Locked <=> Busy(b) /\ call[b].op \in Locked
    BY <1>1, <1>2
  <2>3. ASSUME NEW b \in Callers, Busy(b)', call'[b].phase # "lock", call'[b].op \in Locked
        PROVE  Head(queue) = b
    BY <1>1, <1>2, <2>3 DEF LockHeld
  <2>. QED BY <2>1, <2>2, <2>3 DEF LockHeld, Typed
<1>3. CASE op \in Locked
  <2>1. queue' = Append(queue, c) /\ queue \in Seq(Callers) /\ c \notin Range(queue)
    BY <1>3 DEF Begin, LockHeld, Typed
  <2>2. /\ queue' \in Seq(Callers) /\ Range(queue') = Range(queue) \cup {c} /\ IsInjective(queue')
        /\ queue # << >> => queue'[1] = queue[1]
    BY <2>1, AppendRange DEF LockHeld
  <2>3. \A b \in Callers : Busy(b)' /\ call'[b].op \in Locked
                             <=> b = c \/ (Busy(b) /\ call[b].op \in Locked)
    BY <1>1, <1>3
  <2>4. ASSUME NEW b \in Callers, Busy(b)', call'[b].phase # "lock", call'[b].op \in Locked
        PROVE  Head(queue') = b
    <3>1. b # c /\ Busy(b) /\ call[b].op \in Locked /\ Head(queue) = b /\ b \in Range(queue)
      BY <1>1, <1>3, <2>4 DEF LockHeld
    <3>2. queue # << >>
      BY <3>1 DEF Range
    <3>. QED BY <2>1, <2>2, <3>1, <3>2
  <2>5. Range(queue') = {b \in Callers : Busy(b)' /\ call'[b].op \in Locked}
    BY <2>2, <2>3 DEF LockHeld
  <2>. QED BY <2>2, <2>4, <2>5 DEF LockHeld
<1>. QED BY <1>2, <1>3

\* Nobody else is going to write what a call creates, nor does a call write
\* what another one creates.
Unclaimed(op, todo) ==
  \A k \in Range(todo) : IF op \in Creating THEN k \notin used ELSE ~InCreation(k)

\* The claims of the call that begins.
LEMMA BeginOwned ==
  ASSUME IInv, NEW c \in Callers, NEW op \in Ops, NEW todo \in Seq(Keys), Begin(c, op, todo),
         \A b \in Callers \ {c} : call'[b] = call[b],
         call'[c].op = op, op \in WritingOps => call'[c].todo = todo, op = "commit" <=> c = U,
         used \subseteq used',
         op \in WritingOps => Range(todo) \subseteq used' /\ (c # U => Unclaimed(op, todo)),
         c = U => todo = InOrder(uow.pending)
  PROVE  Owned'
<1>1. Owned /\ Typed /\ Placed /\ uow' = uow /\ Callers = Managers \cup {U} /\ U \notin Managers
  BY DEF IInv, Calling, Begin, Callers
<1>2. Pend' = Pend
  BY <1>1 DEF Pend
<1>3. /\ \A b \in Callers \ {c} : Claimed(b)' = Claimed(b) /\ call'[b].op = call[b].op
      /\ Claimed(c)' \subseteq Range(todo)
      /\ Claimed(c)' # {} => op \in WritingOps
  BY DEF Claimed, Writing, Busy, Todo
<1>4. CASE c = U
  <2>1. Range(todo) = Pend /\ op = "commit" /\ call'[U].todo = todo /\ op \notin Creating
    BY <1>4 DEF Pend, WritingOps, Creating
  <2>2. Claimed(U)' \subseteq Pend /\ Todo(U)' \subseteq Pend
    BY <1>3, <1>4, <2>1 DEF Todo
  <2>3. \A b \in Callers : Claimed(b)' \subseteq used'
    BY <1>1, <1>3, <1>4, <2>2 DEF Owned
  <2>4. \A b \in Callers : call'[b].op \in Creating =>
          b # U /\ call[b].op \in Creating /\ Claimed(b)' = Claimed(b) /\ Claimed(b) \cap Pend = {}
    BY <1>1, <1>3, <1>4, <2>1 DEF Owned
  <2>5. \A a, b \in Callers : a # b /\ call'[b].op \in Creating => Claimed(a)' \cap Claimed(b)' = {}
    BY <1>1, <1>3, <1>4, <2>2, <2>4 DEF Owned
  <2>. QED BY <1>1, <1>2, <2>2, <2>3, <2>4, <2>5 DEF Owned
<1>5. CASE c # U
  <2>1. \A k \in Claimed(c)' : k \in used' /\ IF op \in Creating THEN k \notin used ELSE ~InCreation(k)
    BY <1>3, <1>5 DEF Unclaimed
  <2>2. \A b \in Callers \ {c} : \A k \in Claimed(b)' :
          k \in used /\ (call'[b].op \in Creating => InCreation(k))
    BY <1>1, <1>3 DEF Owned, Claimed, Creating, InCreation, Todo
  <2>3. \A b \in Callers : Claimed(b)' \subseteq used'
    BY <2>1, <2>2
  <2>4. \A b \in Callers \ {c} : call'[b].op \in Creating \/ op \in Creating => Claimed(c)' \cap Claimed(b)' = {}
    BY <2>1, <2>2
  <2>5. \A a, b \in Callers : a # b /\ call'[b].op \in Creating => Claimed(a)' \cap Claimed(b)' = {}
    <3>. TAKE a, b \in Callers
    <3>1. CASE a = c
      BY <2>4, <3>1
    <3>2. CASE b = c
      BY <2>4, <3>2
    <3>3. CASE a # c /\ b # c
      BY <1>1, <1>3, <3>3 DEF Owned
    <3>. QED BY <3>1, <3>2, <3>3
  <2>6. \A b \in Callers : call'[b].op \in Creating => Claimed(b)' \cap Pend = {}
    BY <1>1, <1>3, <2>1 DEF Owned
  <2>7. Busy(U)' => Todo(U)' \subseteq Pend
    BY <1>1, <1>5 DEF Owned, Busy, Todo
  <2>8. Pend \subseteq used'
    BY <1>1 DEF Owned
  <2>. QED BY <1>2, <2>3, <2>5, <2>6, <2>7, <2>8 DEF Owned
<1>. QED BY <1>4, <1>5

\* A call that begins keeps the invariant.
LEMMA BeginInv ==
  ASSUME IInv, NEW c \in Callers, NEW op \in Ops, NEW todo \in Seq(Keys), Begin(c, op, todo),
         todo = << >> => op \in {"list_messages", "commit"}, op = "commit" <=> c = U,
         op = "update_session" => Range(todo) \subseteq Sessions,
         op = "add_part" => Range(todo) \subseteq Parts,
         used \subseteq used', used' \subseteq Keys,
         op \in WritingOps => Range(todo) \subseteq used' /\ (c # U => Unclaimed(op, todo)),
         c = U => todo = InOrder(uow.pending) /\ PartsLast(todo)
  PROVE  IInv'
<1>1. Typed /\ Placed /\ LockHeld /\ Opened /\ Explained /\ DueWritten /\ ListingComplete /\ Committing
  BY DEF IInv, Calling, Filed
<1>2. /\ disk' = disk /\ fd' = fd /\ past' = past /\ uow' = uow
      /\ due' = [due EXCEPT ![c] = IF op = "list_messages" THEN Complete ELSE {}]
  BY DEF Begin
<1>3. /\ ~Busy(c) /\ call' \in [Callers -> Call] /\ \A b \in Callers \ {c} : call'[b] = call[b]
      /\ PlacedAt(c, call'[c]) /\ call'[c].op = op
      /\ call'[c].phase = IF op \in Locked THEN "lock" ELSE Body(op)
      /\ call'[c].todo = IF op = "list_messages" THEN SetToSeq(Listed) ELSE todo
  BY <1>1, BeginCall
<1>4. /\ Body(op) \in {"read", "list", "open"} /\ (Body(op) = "list" => op = "list_messages")
      /\ (op \in WritingOps => op # "list_messages")
  BY DEF Body, WritingOps
<1>5. Busy(c)' /\ call'[c].phase # "write" /\ (call'[c].phase = "lock" <=> op \in Locked)
  BY <1>3, <1>4 DEF Busy
<1>6. LockHeld' /\ queue' \in Seq(Callers)
  BY <1>1, <1>3, <1>5, BeginLock
<1>7. FilesTyped'
  <2>1. due' \in [Callers -> SUBSET Messages]
    BY <1>1, <1>2 DEF Typed, FilesTyped, Complete
  <2>. QED BY <1>1, <1>2, <2>1 DEF Typed, FilesTyped
<1>8. Typed'
  BY <1>1, <1>2, <1>3, <1>6, <1>7 DEF Typed
<1>9. Placed'
  BY <1>1, <1>3 DEF Placed
<1>10. Owned'
  BY <1>3, <1>4, BeginOwned
<1>11. Explained' /\ Keeps
  BY <1>1, <1>2, FilesUntouched
<1>12. ASSUME NEW b \in Callers
       PROVE  IF call'[b].phase = "write"
              THEN fd'[b] = Head(call'[b].todo) \/ (fd'[b] = Unlinked /\ Kept(Head(call[b].todo))')
              ELSE fd'[b] = Closed
  <2>1. CASE b = c
    BY <1>1, <1>2, <1>3, <1>5, <2>1 DEF Opened, Busy
  <2>2. CASE b # c
    <3>1. call'[b] = call[b] /\ fd' = fd /\ disk' = disk /\ past' = past
      BY <1>2, <1>3, <2>2
    <3>. QED BY <1>1, <3>1 DEF Opened, Kept, BeingWritten
  <2>. QED BY <2>1, <2>2
<1>13. Opened'
  BY <1>12 DEF Opened
<1>14. /\ \A b \in Callers \ {c} : due'[b] = due[b]
       /\ due'[c] = IF op = "list_messages" THEN Complete ELSE {}
  BY <1>1, <1>2 DEF Typed, FilesTyped
<1>15. DueWritten'
  BY <1>1, <1>2, <1>14 DEF DueWritten, Complete
<1>16. ListingComplete'
  <2>1. call'[c].phase = "list" => due'[c] \subseteq Range(call'[c].todo)
    BY <1>1, <1>3, <1>4, <1>14, ListedNow
  <2>. QED BY <1>1, <1>3, <1>14, <2>1 DEF ListingComplete
<1>17. \A k : Kept(k)' <=> Kept(k)
  BY <1>2 DEF Kept, BeingWritten
<1>18. \A k \in uow'.committed : Kept(k)'
  BY <1>1, <1>2, <1>17 DEF Committing
<1>19. ASSUME Busy(U)', NEW k \in Pend' PROVE k \in Todo(U)' \/ Kept(k)'
  <2>1. k \in Pend
    BY <1>2, <1>19 DEF Pend
  <2>2. CASE c = U
    BY <1>3, <1>4, <2>1, <2>2 DEF Todo, Pend, WritingOps
  <2>3. CASE c # U
    BY <1>1, <1>3, <1>17, <1>19, <2>1, <2>3 DEF Committing, Busy, Todo, Callers
  <2>. QED BY <2>2, <2>3
<1>20. ASSUME Busy(U)' PROVE PartsLast(call'[U].todo)
  <2>1. CASE c = U
    BY <1>3, <1>4, <2>1 DEF WritingOps
  <2>2. CASE c # U
    BY <1>1, <1>3, <1>20, <2>2 DEF Committing, Busy, Callers
  <2>. QED BY <2>1, <2>2
<1>21. PartsLast(call[U].todo)' <=> PartsLast(call'[U].todo)
  BY DEF PartsLast
<1>22. Committing'
  BY <1>18, <1>19, <1>20, <1>21 DEF Committing
<1>. QED BY <1>6, <1>8, <1>9, <1>10, <1>11, <1>13, <1>15, <1>16, <1>22 DEF IInv, Calling, Filed

\* One file to write, or two.
LEMMA OneTodo ==
  ASSUME NEW k \in Keys
  PROVE  <<k>> \in Seq(Keys) /\ <<k>> # << >> /\ Range(<<k>>) = {k} /\ DOMAIN <<k>> = {1} /\ <<k>>[1] = k
<1>1. <<k>> \in Seq(Keys) /\ <<k>> # << >> /\ DOMAIN <<k>> = {1} /\ <<k>>[1] = k
  OBVIOUS
<1>. QED BY <1>1 DEF Range

\* A call of create_messages with two messages.
LEMMA TwoTodo ==
  ASSUME NEW m \in Keys, NEW n \in Keys
  PROVE  <<m, n>> \in Seq(Keys) /\ <<m, n>> # << >> /\ Range(<<m, n>>) = {m, n}
<1>1. /\ <<m, n>> \in Seq(Keys) /\ <<m, n>> # << >> /\ DOMAIN <<m, n>> = {1, 2}
      /\ <<m, n>>[1] = m /\ <<m, n>>[2] = n
  OBVIOUS
<1>. QED BY <1>1 DEF Range

\* The operations of the manager.
LEMMA OperationInv == ASSUME IInv, NEW c \in Managers, Operation(c) PROVE IInv'
<1>0. /\ c \in Callers /\ c # U /\ used \subseteq Keys
      /\ Sessions \subseteq Keys /\ Messages \subseteq Keys /\ Parts \subseteq Keys
  BY DEF Callers, Keys, IInv, Calling, Typed
<1>1. ASSUME NEW k \in Keys, NEW op \in Creating, Fresh(k), Begin(c, op, <<k>>) PROVE IInv'
  <2>1. /\ <<k>> \in Seq(Keys) /\ <<k>> # << >> /\ Range(<<k>>) = {k} /\ op \in Ops
        /\ op \notin {"list_messages", "commit", "update_session", "add_part"}
    BY <1>0, OneTodo DEF Creating, Ops, Locked, Publishing
  <2>2. Unclaimed(op, <<k>>) /\ Range(<<k>>) \subseteq used' /\ used \subseteq used' /\ used' \subseteq Keys
    BY <1>0, <1>1, <2>1 DEF Unclaimed, Fresh
  <2>. QED BY <1>0, <1>1, <2>1, <2>2, BeginInv
<1>2. ASSUME NEW k \in Keys, NEW op \in {"update_session", "add_message", "add_part"}, ~InCreation(k),
             Begin(c, op, <<k>>), used' = used \cup {k},
             op = "update_session" => k \in Sessions, op = "add_part" => k \in Parts
      PROVE  IInv'
  <2>1. /\ <<k>> \in Seq(Keys) /\ <<k>> # << >> /\ Range(<<k>>) = {k} /\ op \in Ops
        /\ op \notin Creating /\ op \notin {"list_messages", "commit"}
    BY <1>0, OneTodo DEF Creating, Ops, Locked, ReadsFirst, Publishing
  <2>2. Unclaimed(op, <<k>>) /\ Range(<<k>>) \subseteq used' /\ used \subseteq used' /\ used' \subseteq Keys
    BY <1>0, <1>2, <2>1 DEF Unclaimed
  <2>. QED BY <1>0, <1>2, <2>1, <2>2, BeginInv
<1>3. ASSUME NEW s \in Keys, NEW op \in {"delete_session", "get_export_data", "delete_message"},
             Begin(c, op, <<s>>), used' = used
      PROVE  IInv'
  <2>1. /\ op \in Ops /\ op \notin WritingOps
        /\ op \notin {"commit", "update_session", "add_part", "list_messages"}
    BY DEF Ops, ReadsFirst, WritingOps
  <2>. QED BY <1>0, <1>3, <2>1, OneTodo, BeginInv
<1>4. ASSUME NEW s \in Sessions, create(c, s) PROVE IInv'
  BY <1>0, <1>1, <1>4 DEF create, Creating
<1>5. ASSUME NEW m \in Messages, create_message(c, m) PROVE IInv'
  BY <1>0, <1>1, <1>5 DEF create_message, Creating
<1>6. ASSUME NEW m \in Messages, NEW n \in Messages, create_messages(c, <<m, n>>) PROVE IInv'
  <2>1. /\ <<m, n>> \in Seq(Keys) /\ <<m, n>> # << >> /\ Range(<<m, n>>) = {m, n}
        /\ "create_messages" \in Ops /\ "create_messages" \notin Creating
    BY <1>0, <1>6, TwoTodo DEF Ops, Locked, Creating
  <2>2. /\ Unclaimed("create_messages", <<m, n>>) /\ Range(<<m, n>>) \subseteq used'
        /\ used \subseteq used' /\ used' \subseteq Keys
    BY <1>0, <1>6, <2>1 DEF Unclaimed, create_messages
  <2>. QED BY <1>0, <1>6, <2>1, <2>2, BeginInv DEF create_messages
<1>7. ASSUME NEW k \in Keys,
             \/ k \in Sessions /\ update_session(c, k)
             \/ k \in Messages /\ add_message(c, k)
             \/ k \in Parts /\ add_part(c, k)
      PROVE  IInv'
  <2>1. k \in used => used \cup {k} = used
    OBVIOUS
  <2>. QED BY <1>2, <1>7, <2>1 DEF update_session, add_message, add_part, Given, Known
<1>8. CASE list_messages(c)
  <2>1. "list_messages" \in Ops /\ "list_messages" \notin WritingOps /\ << >> \in Seq(Keys)
    BY DEF Ops, WritingOps
  <2>. QED BY <1>0, <1>8, <2>1, BeginInv DEF list_messages
<1>9. ASSUME NEW s \in Sessions, delete_session(c, s) \/ get_export_data(c, s) PROVE IInv'
  BY <1>0, <1>3, <1>9 DEF delete_session, get_export_data, Known
<1>10. ASSUME NEW m \in Messages, delete_message(c, m) PROVE IInv'
  BY <1>0, <1>3, <1>10 DEF delete_message, Known
<1>. QED BY <1>0, <1>4, <1>5, <1>6, <1>7, <1>8, <1>9, <1>10 DEF Operation

-----------------------------------------------------------------------------
(* The unit of work.                                                       *)

\* Joining what has no part with parts.
LEMMA JoinOrder ==
  ASSUME NEW a \in Seq(Keys), NEW b \in Seq(Keys), Range(a) \cap Parts = {}, Range(b) \subseteq Parts
  PROVE  PartsLast(a \o b)
<1>1. /\ \A i \in DOMAIN a : (a \o b)[i] = a[i] /\ i <= Len(a)
      /\ \A i \in DOMAIN (a \o b) : \/ i \in DOMAIN a
                                    \/ i - Len(a) \in DOMAIN b /\ i > Len(a) /\ (a \o b)[i] = b[i - Len(a)]
      /\ Len(a) \in Nat
  OBVIOUS
<1>. SUFFICES ASSUME NEW i \in DOMAIN (a \o b), NEW j \in DOMAIN (a \o b), i < j, (a \o b)[i] \in Parts
              PROVE  (a \o b)[j] \in Parts
  BY DEF PartsLast
<1>2. i \notin DOMAIN a
  BY <1>1 DEF Range
<1>3. i > Len(a) /\ i \in Int /\ j \in Int
  BY <1>1, <1>2
<1>4. j - Len(a) \in DOMAIN b /\ (a \o b)[j] = b[j - Len(a)]
  BY <1>1, <1>3
<1>. QED BY <1>4 DEF Range

\* The commit writes its parts last.
LEMMA CommitOrder ==
  ASSUME Typed
  PROVE  PartsLast(InOrder(uow.pending))
<1>1. /\ uow.pending.sessions \in Seq(Keys) /\ uow.pending.messages \in Seq(Keys)
      /\ uow.pending.parts \in Seq(Keys)
  <2>1. /\ uow.pending.sessions \in Seq(Sessions) /\ uow.pending.messages \in Seq(Messages)
        /\ uow.pending.parts \in Seq(Parts)
        /\ Sessions \subseteq Keys /\ Messages \subseteq Keys /\ Parts \subseteq Keys
    BY PendKeys DEF Pending, Keys
  <2>. QED BY <2>1, SeqOver
<1>2. PICK a \in Seq(Keys) : /\ a = uow.pending.sessions \o uow.pending.messages
                             /\ Range(a) = Range(uow.pending.sessions) \cup Range(uow.pending.messages)
  BY <1>1, ConcatRange
<1>3. /\ Range(uow.pending.sessions) \subseteq Sessions /\ Range(uow.pending.messages) \subseteq Messages
      /\ Range(uow.pending.parts) \subseteq Parts
  BY PendKeys, PendingOrder
<1>4. PartsLast(a \o uow.pending.parts)
  BY <1>1, <1>2, <1>3, JoinOrder
<1>. QED BY <1>2, <1>4 DEF InOrder

\* The commit begins.
LEMMA CommitInv == ASSUME IInv, commit PROVE IInv'
<1>1. /\ U \in Callers /\ "commit" \in Ops /\ InOrder(uow.pending) \in Seq(Keys)
      /\ Typed /\ Owned /\ used' = used /\ used \subseteq Keys /\ Begin(U, "commit", InOrder(uow.pending))
  BY PendKeys DEF Callers, Ops, commit, IInv, Calling, Typed
<1>2. PartsLast(InOrder(uow.pending))
  BY CommitOrder DEF IInv, Calling
<1>3. Range(InOrder(uow.pending)) \subseteq used'
  BY <1>1 DEF Owned, Pend
<1>4. PICK todo \in Seq(Keys) : todo = InOrder(uow.pending)
  BY <1>1
<1>5. todo = << >> => "commit" \in {"list_messages", "commit"}
  OBVIOUS
<1>. QED BY <1>1, <1>2, <1>3, <1>4, <1>5, BeginInv

\* The unit of work changes and no call does.
LEMMA UnitInv ==
  ASSUME IInv, UNCHANGED <<disk, fd, call, queue, past, due>>, ~Busy(U),
         used \subseteq used', used' \subseteq Keys,
         uow' \in [txn : BOOLEAN, pending : Pending, committed : SUBSET Keys],
         uow'.committed \subseteq uow.committed,
         \A k \in Pend' : k \in used' /\ (k \in Pend \/ ~InCreation(k))
  PROVE  IInv'
<1>1. Typed' /\ Placed' /\ LockHeld' /\ Opened' /\ Explained' /\ DueWritten' /\ ListingComplete'
  BY DEF IInv, Calling, Filed, Typed, FilesTyped, Placed, LockHeld, Busy, Opened, Kept, BeingWritten,
         Explained, Unreadable, Tainted, DueWritten, Complete, ListingComplete
<1>2. /\ \A b \in Callers : Claimed(b)' = Claimed(b) /\ Claimed(b) \subseteq used
      /\ \A b \in Callers : call[b].op \in Creating => Claimed(b) \cap Pend = {}
      /\ \A b \in Callers : call[b].op \in Creating => \A k \in Claimed(b) : InCreation(k)
      /\ ~Busy(U)'
  BY DEF IInv, Calling, Owned, Claimed, Writing, Busy, Todo, InCreation, Creating
<1>3. /\ Pend' \subseteq used'
      /\ \A b \in Callers : call'[b].op \in Creating => Claimed(b)' \cap Pend' = {}
  BY <1>2
<1>4. Owned'
  BY <1>2, <1>3 DEF IInv, Calling, Owned
<1>5. \A k : Kept(k)' <=> Kept(k)
  BY DEF Kept, BeingWritten
<1>6. Committing'
  BY <1>2, <1>5 DEF IInv, Committing
<1>. QED BY <1>1, <1>4, <1>6 DEF IInv, Calling, Filed

\* A transaction begins or is given up.
LEMMA TransactionInv == ASSUME IInv, begin \/ rollback PROVE IInv'
<1>1. Typed /\ UNCHANGED <<disk, fd, call, queue, past, due>> /\ ~Busy(U) /\ used' = used
  BY DEF begin, rollback, IInv, Calling
<1>2. NothingPending \in Pending /\ InOrder(NothingPending) = << >>
  BY DEF NothingPending, Pending, InOrder
<1>3. PICK t \in BOOLEAN, C \in SUBSET uow.committed :
        uow' = [txn |-> t, pending |-> NothingPending, committed |-> C]
  <2>1. CASE begin
    <3>1. uow' = [txn |-> TRUE, pending |-> NothingPending, committed |-> {}]
      BY <2>1 DEF begin, NoTransaction
    <3>. QED BY <3>1
  <2>2. CASE rollback
    <3>1. uow' = [txn |-> FALSE, pending |-> NothingPending, committed |-> uow.committed]
      BY <1>1, <2>2 DEF rollback, Typed
    <3>. QED BY <3>1
  <2>. QED BY <2>1, <2>2
<1>4. /\ uow' \in [txn : BOOLEAN, pending : Pending, committed : SUBSET Keys]
      /\ uow'.committed \subseteq uow.committed /\ uow'.pending = NothingPending
  BY <1>1, <1>2, <1>3 DEF Typed
<1>5. Pend' = {}
  BY <1>2, <1>4 DEF Pend, Range, NothingPending
<1>6. used \subseteq Keys
  BY <1>1 DEF Typed
<1>. QED BY <1>1, <1>4, <1>5, <1>6, UnitInv

\* A session, a message or a part is registered.
LEMMA registerInv == ASSUME IInv, NEW k \in Keys, register(k) PROVE IInv'
<1>1. /\ Typed /\ Committing /\ Owned /\ UNCHANGED <<disk, fd, call, queue, past, due>> /\ ~Busy(U)
      /\ used' = used \cup {k} /\ used \subseteq Keys /\ ~InCreation(k)
  BY DEF register, Given, IInv, Calling, Typed
<1>2. PICK p \in Pending : p = uow.pending
  BY <1>1, PendKeys
<1>3. /\ p.sessions \in Seq(Sessions) /\ p.messages \in Seq(Messages) /\ p.parts \in Seq(Parts)
      /\ p = [sessions |-> p.sessions, messages |-> p.messages, parts |-> p.parts]
  BY DEF Pending
<1>6. \E q \in Pending :
        /\ uow' = [uow EXCEPT !.pending = q]
        /\ Range(q.sessions) \cup Range(q.messages) \cup Range(q.parts)
             = Range(p.sessions) \cup Range(p.messages) \cup Range(p.parts) \cup {k}
  <2>1. CASE k \in Sessions
    <3>1. PICK s \in Seq(Sessions) : s = Append(p.sessions, k) /\ Range(s) = Range(p.sessions) \cup {k}
      <4>1. /\ Append(p.sessions, k) \in Seq(Sessions)
            /\ Range(Append(p.sessions, k)) = Range(p.sessions) \cup {k}
        BY <1>3, <2>1, AppendRange
      <4>. QED BY <4>1
    <3>2. [p EXCEPT !.sessions = s] \in Pending
      BY <1>3 DEF Pending
    <3>3. uow' = [uow EXCEPT !.pending = [p EXCEPT !.sessions = s]]
      BY <1>1, <1>2, <2>1, <3>1 DEF register, Typed
    <3>. QED BY <1>3, <3>1, <3>2, <3>3
  <2>2. CASE k \in Messages
    <3>1. PICK s \in Seq(Messages) : s = Append(p.messages, k) /\ Range(s) = Range(p.messages) \cup {k}
      <4>1. /\ Append(p.messages, k) \in Seq(Messages)
            /\ Range(Append(p.messages, k)) = Range(p.messages) \cup {k}
        BY <1>3, <2>2, AppendRange
      <4>. QED BY <4>1
    <3>2. [p EXCEPT !.messages = s] \in Pending
      BY <1>3 DEF Pending
    <3>3. uow' = [uow EXCEPT !.pending = [p EXCEPT !.messages = s]]
      BY <1>1, <1>2, <2>2, <3>1 DEF register, Typed
    <3>. QED BY <1>3, <3>1, <3>2, <3>3
  <2>3. CASE k \in Parts
    <3>1. PICK s \in Seq(Parts) : s = Append(p.parts, k) /\ Range(s) = Range(p.parts) \cup {k}
      <4>1. /\ Append(p.parts, k) \in Seq(Parts)
            /\ Range(Append(p.parts, k)) = Range(p.parts) \cup {k}
        BY <1>3, <2>3, AppendRange
      <4>. QED BY <4>1
    <3>2. [p EXCEPT !.parts = s] \in Pending
      BY <1>3 DEF Pending
    <3>3. uow' = [uow EXCEPT !.pending = [p EXCEPT !.parts = s]]
      BY <1>1, <1>2, <2>3, <3>1 DEF register, Typed
    <3>. QED BY <1>3, <3>1, <3>2, <3>3
  <2>. QED BY <2>1, <2>2, <2>3 DEF Keys
<1>7. PICK q \in Pending :
        /\ uow' = [uow EXCEPT !.pending = q]
        /\ Range(q.sessions) \cup Range(q.messages) \cup Range(q.parts)
             = Range(p.sessions) \cup Range(p.messages) \cup Range(p.parts) \cup {k}
  BY <1>6
<1>8. /\ uow' \in [txn : BOOLEAN, pending : Pending, committed : SUBSET Keys]
      /\ uow'.committed = uow.committed /\ uow'.pending = q
  BY <1>1, <1>7 DEF Typed
<1>9. Pend' = Pend \cup {k}
  BY <1>2, <1>7, <1>8, PendingOrder DEF Pend
<1>10. \A j \in Pend' : j \in used' /\ (j \in Pend \/ ~InCreation(j))
  BY <1>1, <1>9 DEF Owned
<1>. QED BY <1>1, <1>7, <1>8, <1>10, UnitInv

-----------------------------------------------------------------------------
(* The theorems.                                                           *)

\* The process dies: what was being written is marked, all else is let go.
LEMMA CrashInv == ASSUME IInv, Crash PROVE IInv'
<1>1. Typed /\ Explained /\ Committing /\ Owned /\ U \in Callers
  BY DEF IInv, Calling, Filed, Callers
<1>2. Explained' /\ Keeps
  BY <1>1, CrashFiles
<1>3. /\ \A c \in Callers : call'[c] = NoCall /\ fd'[c] = Closed /\ due'[c] = {}
      /\ queue' = << >> /\ uow' = NoTransaction /\ used' = used /\ disk' = disk
  BY DEF Crash
<1>4. FilesTyped'
  <2>1. fd' \in [Callers -> Keys \cup {Closed, Unlinked}] /\ due' \in [Callers -> SUBSET Messages]
    BY DEF Crash
  <2>2. past' \in [Keys -> SUBSET {"overlapped", "interrupted", "deleted"}]
    BY <1>1 DEF Crash, Typed, FilesTyped
  <2>. QED BY <1>1, <1>3, <2>1, <2>2 DEF Typed, FilesTyped
<1>5. Typed'
  <2>1. NoTransaction \in [txn : BOOLEAN, pending : Pending, committed : SUBSET Keys]
    BY DEF NoTransaction, NothingPending, Pending
  <2>2. call' \in [Callers -> Call]
    BY NoCallPlaced DEF Crash
  <2>. QED BY <1>1, <1>3, <1>4, <2>1, <2>2 DEF Typed
<1>6. Placed'
  BY <1>3, NoCallPlaced DEF Placed
<1>7. \A c \in Callers : ~Busy(c)' /\ Claimed(c)' = {}
  BY <1>3, NoCallPlaced DEF Busy, Claimed, Writing
<1>8. LockHeld'
  BY <1>3, <1>7 DEF LockHeld, IsInjective, Range
<1>9. Pend' = {} /\ uow'.committed = {}
  BY <1>3 DEF Pend, NoTransaction, NothingPending, InOrder, Range
<1>10. Owned'
  BY <1>1, <1>7, <1>9 DEF Owned, Callers
<1>11. Opened'
  BY <1>3, NoCallPlaced DEF Opened
<1>12. DueWritten' /\ ListingComplete'
  BY <1>3 DEF DueWritten, ListingComplete
<1>13. Committing'
  BY <1>1, <1>7, <1>9 DEF Committing
<1>. QED BY <1>2, <1>5, <1>6, <1>8, <1>10, <1>11, <1>12, <1>13 DEF IInv, Calling, Filed

\* Nothing happens.
LEMMA StutterInv == ASSUME IInv, UNCHANGED vars PROVE IInv'
<1>1. Typed' /\ Placed' /\ LockHeld' /\ Opened' /\ Explained' /\ DueWritten' /\ ListingComplete'
  BY DEF IInv, Calling, Filed, Typed, FilesTyped, Placed, LockHeld, Busy, Opened, Kept, BeingWritten,
         Explained, Unreadable, Tainted, DueWritten, Complete, ListingComplete, vars
<1>2. Owned'
  BY DEF IInv, Calling, Owned, Claimed, Writing, Busy, Todo, Pend, vars
<1>3. Committing'
  BY DEF IInv, Committing, PartsLast, Kept, BeingWritten, Busy, Todo, Pend, vars
<1>. QED BY <1>1, <1>2, <1>3 DEF IInv, Calling, Filed

\* Each step keeps the invariant.
LEMMA NextInv == IInv /\ [Next]_vars => IInv'
<1>. SUFFICES ASSUME IInv, [Next]_vars PROVE IInv'
  OBVIOUS
<1>1. ASSUME NEW c \in Managers, Operation(c) PROVE IInv'
  BY <1>1, OperationInv
<1>2. CASE begin \/ rollback
  BY <1>2, TransactionInv
<1>3. CASE commit
  BY <1>3, CommitInv
<1>4. ASSUME NEW k \in Keys, register(k) PROVE IInv'
  BY <1>4, registerInv
<1>5. ASSUME NEW c \in Callers, Step(c) \/ Fails(c) PROVE IInv'
  BY <1>5, StepServed, ServedInv
<1>6. CASE Crash
  BY <1>6, CrashInv
<1>7. CASE UNCHANGED vars
  BY <1>7, StutterInv
<1>. QED BY <1>1, <1>2, <1>3, <1>4, <1>5, <1>6, <1>7 DEF Next

\* At the start there are no files and no calls.
LEMMA InitInv == Init => IInv
<1>. SUFFICES ASSUME Init PROVE IInv
  OBVIOUS
<1>1. /\ \A c \in Callers : call[c] = NoCall /\ fd[c] = Closed /\ due[c] = {}
      /\ \A k \in Keys : disk[k] = "absent" /\ past[k] = {}
      /\ queue = << >> /\ uow = NoTransaction /\ used = {} /\ U \in Callers
  BY DEF Init, Callers
<1>2. NoTransaction \in [txn : BOOLEAN, pending : Pending, committed : SUBSET Keys]
  BY DEF NoTransaction, NothingPending, Pending
<1>3. Typed
  BY <1>2, NoCallPlaced DEF Init, Typed, FilesTyped
<1>4. Placed
  BY <1>1, NoCallPlaced DEF Placed
<1>5. \A c \in Callers : ~Busy(c) /\ Claimed(c) = {}
  BY <1>1, NoCallPlaced DEF Busy, Claimed, Writing
<1>6. LockHeld
  BY <1>1, <1>5 DEF LockHeld, IsInjective, Range
<1>7. Pend = {} /\ uow.committed = {}
  BY <1>1 DEF Pend, NoTransaction, NothingPending, InOrder, Range
<1>8. Owned
  BY <1>1, <1>5, <1>7 DEF Owned, Callers
<1>9. \A k \in Keys : ~BeingWritten(k)
  BY <1>1 DEF BeingWritten
<1>10. Opened /\ Explained /\ DueWritten /\ ListingComplete
  BY <1>1, <1>9, NoCallPlaced
     DEF Opened, Explained, Unreadable, DueWritten, ListingComplete
<1>11. Committing
  BY <1>1, <1>5, <1>7 DEF Committing
<1>. QED BY <1>3, <1>4, <1>6, <1>8, <1>10, <1>11 DEF IInv, Calling, Filed

\* Storage.write opens files in place and without locking.  Nevertheless no
\* two calls of the manager ever have a message open at once, whatever
\* identifiers they write under (a unit of work beside them may); every file
\* that reads as nothing is being written or was interrupted or shared; and
\* the manager's lock is held or awaited by exactly the calls under way.
THEOREM FilesAreSound == Spec => []FilesSound
<1>1. IInv => FilesSound
  BY WritersAlone DEF IInv, Calling, Filed, Typed, FilesTyped, LockHeld, TypeOK, FilesSound,
         Explained, Tainted, UnreadableExplained
<1>. QED BY <1>1, InitInv, NextInv, PTL DEF Spec

\* list_messages and get_export_data miss no message that was complete when
\* they took the names and that nobody rewrote or deleted since.
THEOREM NoMessageMissed == Spec => []ListingComplete
<1>1. IInv => ListingComplete
  BY DEF IInv
<1>. QED BY <1>1, InitInv, NextInv, PTL DEF Spec

\* A part at the head of what is left to write: the messages are done.
LEMMA OnlyPartsLeft ==
  ASSUME NEW s \in Seq(Keys), s # << >>, PartsLast(s), Head(s) \in Parts
  PROVE  Range(s) \subseteq Parts
<1>1. Head(s) = s[1] /\ 1 \in DOMAIN s /\ \A i \in DOMAIN s : i = 1 \/ 1 < i
  BY Behead
<1>. QED BY <1>1 DEF PartsLast, Range

\* What UnitOfWorkImpl.commit answered Ok for is on disk, through failing
\* writes and crashes, unless someone else rewrote or deleted it, and a commit
\* that is at its parts has all its messages there: whatever was registered,
\* in whatever order and beside whatever calls of the manager.
THEOREM CommitsPersist == Spec => []CommitPersists
<1>1. ASSUME IInv PROVE CommitPersists
  <2>1. U \in Callers /\ Typed /\ Placed /\ Committing
    BY <1>1 DEF IInv, Calling, Callers
  <2>2. ASSUME call[U].todo # << >>, Head(call[U].todo) \in Parts,
               NEW m \in Range(uow.pending.messages)
        PROVE  Kept(m)
    <3>1. Busy(U) /\ call[U].todo \in Seq(Keys)
      BY <2>1, <2>2, CallFields DEF Placed, PlacedAt, Busy
    <3>2. Todo(U) \subseteq Parts
      BY <2>1, <2>2, <3>1, OnlyPartsLeft DEF Committing, Todo
    <3>3. m \in Pend /\ m \in Messages
      BY <2>1, PendKeys, PendingOrder DEF Pend
    <3>. QED BY <2>1, <3>1, <3>2, <3>3 DEF Committing
  <2>. QED BY <2>1, <2>2 DEF CommitPersists, Committing
<1>. QED BY <1>1, InitInv, NextInv, PTL DEF Spec
=============================================================================
