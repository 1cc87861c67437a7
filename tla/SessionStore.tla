---------------------------- MODULE SessionStore ----------------------------
(***************************************************************************)
(* Sessions, messages and parts on disk: storage/store.py writes one JSON  *)
(* file per key in place, core/session.py (SessionManager) and             *)
(* core/repositories.py read and write them, and core/unit_of_work.py      *)
(* commits a batch.                                                        *)
(*                                                                         *)
(* aiofiles runs every open, read and close in a thread, so each is a      *)
(* suspension of the calling coroutine.  Opening for writing truncates the *)
(* file; the content reaches it when it is closed.  Each writer has its    *)
(* own offset: a writer that closes after another one closed overwrites    *)
(* the beginning of what that one wrote, and the tail of a longer text     *)
(* stays.  A file removed while it is open is written to no more.          *)
(*                                                                         *)
(* Content is absent, empty (truncated), garbled (not JSON) or written;    *)
(* read answers None for the first three.  Caller U drives a UnitOfWork,   *)
(* the others call the SessionManager.  A subscriber of the bus does not   *)
(* call the manager back.                                                  *)
(***************************************************************************)
EXTENDS Integers, Sequences, FiniteSets, SequencesExt

CONSTANTS
  Managers,    \* coroutines that call the SessionManager
  U,           \* the coroutine that drives the unit of work
  Sessions, Messages, Parts,
  Closed, Unlinked,
  MaxCalls,    \* bound: manager calls, registrations and commits
  MaxFaults    \* bound: writes that raise and crashes

Callers == Managers \cup {U}
Keys == Sessions \cup Messages \cup Parts

ASSUME StoreAssumption ==
  /\ U \notin Managers /\ IsFiniteSet(Messages)
  /\ Sessions \cap Messages = {} /\ (Sessions \cup Messages) \cap Parts = {}
  /\ {Closed, Unlinked} \cap Keys = {}
  /\ MaxCalls \in Nat /\ MaxFaults \in Nat

VARIABLES
  disk,    \* content of each file
  fd,      \* the file a caller has open for writing
  call,    \* what each caller executes
  queue,   \* SessionManager._lock: its holder and then its waiters
  used,    \* identifiers in use
  uow,     \* the unit of work
  past,    \* history: what befell the file since it was last truncated
  due,     \* history: messages a listing has to return
  calls, faults

vars == <<disk, fd, call, queue, used, uow, past, due, calls, faults>>

Locked_Mutant == {"create", "delete_session", "create_messages"}

\* What SessionManager does under its lock, after reading the session or
\* message first, and with an event at the end.
Locked == {"create", "delete_session", "add_message", "create_messages"}
ReadsFirst == {"update_session", "delete_session", "delete_message", "get_export_data"}
Publishing == {"create", "update_session", "delete_session", "add_message",
               "create_message", "delete_message", "add_part"}
Ops == Locked \cup ReadsFirst \cup Publishing \cup {"list_messages", "commit"}
Phases == {"idle", "lock", "read", "act", "open", "write", "publish", "list"}

Call == [op : Ops, phase : Phases, todo : Seq(Keys), seen : BOOLEAN, got : SUBSET Messages]
NoCall == [op |-> "list_messages", phase |-> "idle", todo |-> << >>, seen |-> FALSE, got |-> {}]
NothingPending == [sessions |-> << >>, messages |-> << >>, parts |-> << >>]
NoTransaction == [txn |-> FALSE, pending |-> NothingPending, committed |-> {}]

\* Sessions, then messages, then parts, each in the order of registration.
InOrder(pending) == pending.sessions \o pending.messages \o pending.parts

Busy(c) == call[c].phase # "idle"

Init ==
  /\ disk = [k \in Keys |-> "absent"]
  /\ fd = [c \in Callers |-> Closed]
  /\ call = [c \in Callers |-> NoCall]
  /\ queue = << >>
  /\ used = {}
  /\ uow = NoTransaction
  /\ past = [k \in Keys |-> {}]
  /\ due = [c \in Callers |-> {}]
  /\ calls = 0 /\ faults = 0

-----------------------------------------------------------------------------
(* Storage. *)

\* Truncation makes a new content of the file, unless another writer still
\* has it open.
Truncate(c, k) ==
  /\ fd' = [fd EXCEPT ![c] = k]
  /\ disk' = [disk EXCEPT ![k] = "empty"]
  /\ past' = [past EXCEPT ![k] =
                IF \E b \in Callers \ {c} : fd[b] = k THEN @ \cup {"overlapped"} ELSE {}]
  /\ due' = [b \in Callers |-> due[b] \ {k}]

\* The content written by a writer that closes: it covers what an earlier
\* closer wrote, or leaves the tail of it.
Flushed(c) ==
  IF fd[c] = Unlinked THEN {disk}
  ELSE {[disk EXCEPT ![fd[c]] = v] :
          v \in IF disk[fd[c]] = "empty" THEN {"written"} ELSE {"written", "garbled"}}

Unlink(k) ==
  /\ disk' = [disk EXCEPT ![k] = "absent"]
  /\ fd' = [b \in Callers |-> IF fd[b] = k THEN Unlinked ELSE fd[b]]
  /\ past' = [past EXCEPT ![k] = {"deleted"}]
  /\ due' = [b \in Callers |-> due[b] \ {k}]

Listed == {m \in Messages : disk[m] # "absent"}
Complete == {m \in Messages : disk[m] = "written" /\ \A c \in Callers : fd[c] # m}

-----------------------------------------------------------------------------
(* Calling, the lock, and returning. *)

Body(op) ==
  IF op \in ReadsFirst THEN "read" ELSE IF op = "list_messages" THEN "list" ELSE "open"

\* list takes the names of the files at once and reads them one by one.
Enter(c, op, todo) ==
  IF Body(op) = "list"
  THEN [call[c] EXCEPT !.op = op, !.phase = "list", !.todo = SetToSeq(Listed), !.got = {}]
  ELSE [call[c] EXCEPT !.op = op, !.phase = Body(op), !.todo = todo, !.got = {}]

Begin(c, op, todo) ==
  /\ ~Busy(c) /\ calls < MaxCalls
  /\ calls' = calls + 1
  /\ IF op \in Locked
     THEN /\ queue' = Append(queue, c)
          /\ call' = [call EXCEPT ![c] = [Enter(c, op, todo) EXCEPT !.phase = "lock"]]
     ELSE /\ call' = [call EXCEPT ![c] = Enter(c, op, todo)]
          /\ UNCHANGED queue
  /\ due' = [due EXCEPT ![c] = IF op = "list_messages" THEN Complete ELSE {}]
  /\ UNCHANGED <<disk, fd, uow, past, faults>>

\* asyncio.Lock serves its waiters in order.
Acquired(c) ==
  /\ call[c].phase = "lock" /\ Head(queue) = c
  /\ call' = [call EXCEPT ![c].phase = Body(call[c].op)]
  /\ UNCHANGED <<disk, fd, queue, used, uow, past, due, calls, faults>>

\* The call of c ends, normally or with an exception: async with lets go.
Unlocked(c) == IF call[c].op \in Locked THEN Tail(queue) ELSE queue

Returned(c) == [call EXCEPT ![c] = NoCall]

\* After the last write or removal: publish the event, or return.
AfterEffect(c, todo) ==
  IF todo # << >>
  THEN call' = [call EXCEPT ![c].phase = "open", ![c].todo = todo] /\ UNCHANGED queue
  ELSE IF call[c].op \in Publishing
       THEN call' = [call EXCEPT ![c].phase = "publish", ![c].todo = todo] /\ UNCHANGED queue
       ELSE call' = Returned(c) /\ queue' = Unlocked(c)

Published(c) ==
  /\ call[c].phase = "publish"
  /\ call' = Returned(c)
  /\ queue' = Unlocked(c)
  /\ UNCHANGED <<disk, fd, used, uow, past, due, calls, faults>>

-----------------------------------------------------------------------------
(* The steps of a call. *)

Read(c) ==
  /\ call[c].phase = "read"
  /\ call' = [call EXCEPT ![c].phase = "act", ![c].seen = disk[Head(call[c].todo)] = "written"]
  /\ UNCHANGED <<disk, fd, queue, used, uow, past, due, calls, faults>>

\* The caller resumes with what was read: nothing there ends the call.
NotFound(c) ==
  /\ call[c].phase = "act" /\ ~call[c].seen
  /\ call' = Returned(c)
  /\ queue' = Unlocked(c)
  /\ UNCHANGED <<disk, fd, used, uow, past, due, calls, faults>>

Delete(c) ==
  /\ call[c].phase = "act" /\ call[c].seen
  /\ call[c].op \in {"delete_session", "delete_message"}
  /\ Unlink(Head(call[c].todo))
  /\ AfterEffect(c, << >>)
  /\ UNCHANGED <<used, uow, calls, faults>>

\* get_export_data goes on to list the messages.
Export(c) ==
  /\ call[c].phase = "act" /\ call[c].seen /\ call[c].op = "get_export_data"
  /\ call' = [call EXCEPT ![c].phase = "list", ![c].todo = SetToSeq(Listed)]
  /\ due' = [due EXCEPT ![c] = Complete]
  /\ UNCHANGED <<disk, fd, queue, used, uow, past, calls, faults>>

Open(c) ==
  /\ \/ call[c].phase = "open" /\ call[c].todo # << >>
     \/ call[c].phase = "act" /\ call[c].seen /\ call[c].op = "update_session"
  /\ Truncate(c, Head(call[c].todo))
  /\ call' = [call EXCEPT ![c].phase = "write"]
  /\ UNCHANGED <<queue, used, uow, calls, faults>>

\* A commit without failure ends the transaction.
Ended(c, todo) ==
  IF call[c].op = "commit" /\ todo = << >>
  THEN [NoTransaction EXCEPT !.committed = Range(InOrder(uow.pending))]
  ELSE uow

Close(c) ==
  /\ call[c].phase = "write"
  /\ disk' \in Flushed(c)
  /\ fd' = [fd EXCEPT ![c] = Closed]
  /\ AfterEffect(c, Tail(call[c].todo))
  /\ uow' = Ended(c, Tail(call[c].todo))
  /\ UNCHANGED <<used, past, due, calls, faults>>

\* A commit with nothing registered.
CommitNothing(c) ==
  /\ call[c].phase = "open" /\ call[c].todo = << >>
  /\ uow' = Ended(c, << >>)
  /\ AfterEffect(c, << >>)
  /\ UNCHANGED <<disk, fd, used, past, due, calls, faults>>

\* As if repositories dropped the error.
Fails_Mutant(c) ==
  /\ faults < MaxFaults /\ faults' = faults + 1
  /\ call[c].phase = "open" /\ call[c].todo # << >>
  /\ AfterEffect(c, Tail(call[c].todo))
  /\ uow' = Ended(c, Tail(call[c].todo))
  /\ UNCHANGED <<disk, fd, used, past, due, calls>>

\* As if the lock were taken without async with.
FailsLocked_Mutant(c) ==
  /\ faults < MaxFaults /\ faults' = faults + 1
  /\ call[c].phase = "open" /\ call[c].todo # << >>
  /\ call' = Returned(c)
  /\ UNCHANGED <<disk, fd, queue, used, uow, past, due, calls>>

\* Opening or writing raises: what was not written stays unwritten, commit
\* answers Err with the transaction still open, the manager's caller gets
\* the exception.
Interrupted(k) == [past EXCEPT ![k] = @ \cup {"interrupted"}]

Fails(c) ==
  /\ faults < MaxFaults /\ faults' = faults + 1
  /\ \/ call[c].phase = "open" /\ call[c].todo # << >> /\ UNCHANGED past
     \/ call[c].phase = "write" /\ past' = IF fd[c] = Unlinked THEN past ELSE Interrupted(fd[c])
  /\ fd' = [fd EXCEPT ![c] = Closed]
  /\ call' = Returned(c)
  /\ queue' = Unlocked(c)
  /\ UNCHANGED <<disk, used, uow, due, calls>>

\* As if an unreadable file ended the listing.
ListNext_Mutant(c) ==
  /\ call[c].phase = "list" /\ call[c].todo # << >>
  /\ LET m == Head(call[c].todo)
     IN call' = IF disk[m] = "written"
                THEN [call EXCEPT ![c].todo = Tail(@), ![c].got = @ \cup {m}]
                ELSE [call EXCEPT ![c].todo = << >>]
  /\ UNCHANGED <<disk, fd, queue, used, uow, past, due, calls, faults>>

\* list_messages reads the files one by one and skips those it cannot parse.
ListNext(c) ==
  /\ call[c].phase = "list" /\ call[c].todo # << >>
  /\ LET m == Head(call[c].todo)
     IN call' = [call EXCEPT ![c].todo = Tail(@),
                             ![c].got = IF disk[m] = "written" THEN @ \cup {m} ELSE @]
  /\ UNCHANGED <<disk, fd, queue, used, uow, past, due, calls, faults>>

ListDone(c) ==
  /\ call[c].phase = "list" /\ call[c].todo = << >>
  /\ call' = Returned(c)
  /\ due' = [due EXCEPT ![c] = {}]
  /\ UNCHANGED <<disk, fd, queue, used, uow, past, calls, faults>>

-----------------------------------------------------------------------------
(* The operations of the SessionManager.  create and create_message take   *)
(* new UUIDs; the others write under the identifiers they are given, new   *)
(* or not.  import_data makes the calls update_session or create, and      *)
(* create_messages.                                                        *)

\* A new UUID is told to nobody before it is written.
InCreation(k) ==
  \E c \in Callers : call[c].op \in {"create", "create_message"} /\ k \in Range(call[c].todo)

Given(k) == ~InCreation(k) /\ used' = used \cup {k}
Fresh(k) == k \notin used /\ used' = used \cup {k}
Known(k) == k \in used /\ ~InCreation(k) /\ UNCHANGED used

create(c, s) == Fresh(s) /\ Begin(c, "create", <<s>>)
update_session(c, s) == Known(s) /\ Begin(c, "update_session", <<s>>)
delete_session(c, s) == Known(s) /\ Begin(c, "delete_session", <<s>>)
add_message(c, m) == Given(m) /\ Begin(c, "add_message", <<m>>)
create_message(c, m) == Fresh(m) /\ Begin(c, "create_message", <<m>>)

create_messages(c, ms) ==
  /\ \A m \in Range(ms) : ~InCreation(m)
  /\ Begin(c, "create_messages", ms) /\ used' = used \cup Range(ms)

delete_message(c, m) == Known(m) /\ Begin(c, "delete_message", <<m>>)
add_part(c, p) == Given(p) /\ Begin(c, "add_part", <<p>>)
list_messages(c) == Begin(c, "list_messages", << >>) /\ UNCHANGED used
get_export_data(c, s) == Known(s) /\ Begin(c, "get_export_data", <<s>>)

-----------------------------------------------------------------------------
(* The unit of work, driven by one coroutine. *)

begin ==
  /\ ~Busy(U) /\ ~uow.txn
  /\ uow' = [NoTransaction EXCEPT !.txn = TRUE]
  /\ UNCHANGED <<disk, fd, call, queue, used, past, due, calls, faults>>

\* Nothing is asked of what is registered: it may exist, be registered twice, or
\* be a part whose message is nowhere.
register(k) ==
  /\ ~Busy(U) /\ uow.txn
  /\ calls < MaxCalls /\ calls' = calls + 1
  /\ LET list == IF k \in Sessions THEN "sessions" ELSE IF k \in Messages THEN "messages" ELSE "parts"
     IN uow' = [uow EXCEPT !.pending[list] = Append(@, k)]
  /\ Given(k)
  /\ UNCHANGED <<disk, fd, call, queue, past, due, faults>>

commit ==
  /\ uow.txn
  /\ Begin(U, "commit", InOrder(uow.pending))
  /\ UNCHANGED used

rollback ==
  /\ ~Busy(U) /\ uow.txn
  /\ uow' = [uow EXCEPT !.txn = FALSE, !.pending = NothingPending]
  /\ UNCHANGED <<disk, fd, call, queue, used, past, due, calls, faults>>

\* The process dies and restarts: only the files remain.
Crash ==
  /\ faults < MaxFaults /\ faults' = faults + 1
  /\ \E c \in Callers : Busy(c)
  /\ past' = [k \in Keys |-> IF \E c \in Callers : fd[c] = k THEN past[k] \cup {"interrupted"} ELSE past[k]]
  /\ fd' = [c \in Callers |-> Closed]
  /\ call' = [c \in Callers |-> NoCall]
  /\ queue' = << >>
  /\ uow' = NoTransaction
  /\ due' = [c \in Callers |-> {}]
  /\ UNCHANGED <<disk, used, calls>>

-----------------------------------------------------------------------------
Step(c) ==
  \/ Acquired(c) \/ Read(c) \/ NotFound(c) \/ Delete(c) \/ Export(c)
  \/ Open(c) \/ Close(c) \/ CommitNothing(c) \/ Published(c)
  \/ ListNext(c) \/ ListDone(c)

Operation(c) ==
  \/ \E s \in Sessions : create(c, s) \/ update_session(c, s) \/ delete_session(c, s) \/ get_export_data(c, s)
  \/ \E m \in Messages : add_message(c, m) \/ create_message(c, m) \/ delete_message(c, m)
  \/ \E m, n \in Messages : m # n /\ create_messages(c, <<m, n>>)
  \/ \E p \in Parts : add_part(c, p)
  \/ list_messages(c)

Next ==
  \/ \E c \in Managers : Operation(c)
  \/ begin \/ commit \/ rollback
  \/ \E k \in Keys : register(k)
  \/ \E c \in Callers : Step(c) \/ Fails(c)
  \/ Crash

Spec == Init /\ [][Next]_vars

\* The threads and the subscribers of the bus answer.
FairSpec == Spec /\ \A c \in Callers : WF_vars(Step(c))

-----------------------------------------------------------------------------
(* Properties. *)

Pending == [sessions : Seq(Sessions), messages : Seq(Messages), parts : Seq(Parts)]

\* Every variable has its type, and the lock is held or awaited by exactly
\* the calls that take it: none leaves it locked behind.
TypeOK ==
  /\ disk \in [Keys -> {"absent", "empty", "garbled", "written"}]
  /\ fd \in [Callers -> Keys \cup {Closed, Unlinked}]
  /\ call \in [Callers -> Call]
  /\ used \subseteq Keys
  /\ uow \in [txn : BOOLEAN, pending : Pending, committed : SUBSET Keys]
  /\ past \in [Keys -> SUBSET {"overlapped", "interrupted", "deleted"}]
  /\ due \in [Callers -> SUBSET Messages]
  /\ IsInjective(queue)
  /\ Range(queue) = {c \in Callers : Busy(c) /\ call[c].op \in Locked}

BeingWritten(k) == \E c \in Callers : fd[c] = k
Unreadable(k) == disk[k] \in {"empty", "garbled"}

\* Storage.write opens in place: a file reads as nothing only while it is
\* written, after a write that raised or a crash, or when two writers had it
\* open at once.
UnreadableExplained ==
  \A k \in Keys :
    Unreadable(k) => BeingWritten(k) \/ past[k] \cap {"interrupted", "overlapped"} # {}

\* No two calls of the manager have a message open at once: its lock, or a new
\* UUID, stands in for the file locking that is not there.  (A unit of work,
\* which takes no lock, may write a message beside them.)
MessageWritersAlone ==
  \A c, d \in Managers : c # d /\ fd[c] = fd[d] => fd[c] \notin Messages

\* On disk is what the coroutines wrote, whole, but for the cases above.
FilesSound == TypeOK /\ UnreadableExplained /\ MessageWritersAlone

\* A listing, or an export, contains every message that was complete when it
\* took the names and that nobody rewrote or deleted since, whatever
\* unreadable files it meets.
ListingComplete ==
  \A c \in Callers :
    call[c].phase = "list" => due[c] \subseteq call[c].got \cup Range(call[c].todo)

Kept(k) == disk[k] = "written" \/ BeingWritten(k) \/ past[k] # {}

\* What a commit answered Ok for is on disk, although earlier commits of the
\* same transaction failed midway, unless someone else deleted or rewrote it.
\* A commit that is at its parts has all its messages on disk, and so has one
\* that fails, or dies, there: it may leave a part out, never a message whose
\* parts it has begun.
CommitPersists ==
  /\ \A k \in uow.committed : Kept(k)
  /\ call[U].todo # << >> /\ Head(call[U].todo) \in Parts =>
       \A m \in Range(uow.pending.messages) : Kept(m)

\* Every call of the manager and every commit comes back, through the lock
\* they contend for and the failures of others.
CallsReturn == \A c \in Callers : Busy(c) ~> ~Busy(c)
=============================================================================
