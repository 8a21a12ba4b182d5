------------------------------- MODULE Relay -------------------------------
(***************************************************************************)
(* One tomsg room bridged to its Matrix room.  Every registered user has a *)
(* connection task (ConnectionShed::bind) that keeps a session with the    *)
(* tomsg server; each session logs in, fetches the history of the room     *)
(* once, and then handles what the server pushes to it.  The handler of    *)
(* application service transactions sends what Matrix users write to tomsg *)
(* over their sessions.  All of them work on the same Room under the one   *)
(* lock of the State, which its holder keeps while it waits for a server.  *)
(*                                                                         *)
(* A message of the room is its index in log.  The two servers, the lock   *)
(* (a fair tokio Mutex) and the oneshot replies are modelled by what the   *)
(* bridge sees of them.                                                    *)
(***************************************************************************)
EXTENDS Integers, Sequences, FiniteSets, Batches

CONSTANTS
    Users,       \* Matrix users with a tomsg account of their own
    Slots,       \* distinguishes the sessions a user has at the same time
    Free,        \* the lock when nobody holds it
    Handler,     \* the transaction handler, as holder of the lock
    Lines,       \* lines of every Matrix event
    MaxTxn,      \* events in one transaction
    MaxNative,   \* bound: messages written by others in the tomsg room
    MaxEvents,   \* bound: events sent by Matrix users
    MaxLogins,   \* bound: login commands
    MaxFaults,   \* bound: faults
    FaultKinds   \* the faults that may happen

Sessions == Users \X Slots

ASSUME LockAssumption ==
    /\ Free \notin Sessions
    /\ Handler \notin Sessions
    /\ Free # Handler

ASSUME BoundAssumption ==
    /\ Batch \in Nat \ {0}
    /\ Lines \in Nat \ {0}
    /\ MaxTxn \in Nat \ {0}
    /\ {MaxNative, MaxEvents, MaxLogins, MaxFaults} \subseteq Nat
    /\ FaultKinds \subseteq {"drop", "crash", "matrix", "giveup", "ack", "cancel"}

VARIABLES
    \* The two servers.
    log,       \* origins of the messages of the tomsg room, oldest first
    posts,     \* posts[i]: copies of message i in the Matrix room
    events,    \* authors of the events of the Matrix room
    acked,     \* events acknowledged by the bridge
    upto,      \* events handed over, in the transaction acked+1..upto
    \* The disk.
    db,        \* ids in the table handled_messages
    \* The bridge process.
    up,
    handled,   \* Room.handled_messages
    fetched,   \* Room.fetched_tomsg_history
    lock,      \* who holds the lock of the State
    dead,      \* users whose connection task has ended
    stale,     \* commands in a user's channel whose callers are gone
    phase,     \* how far each session is
    alive,     \* the server still has the session
    inbox,     \* messages pushed to the session, not yet read from it
    next,      \* the event the transaction is at
    \* Locals of the holder of the lock.
    todo,      \* fetched messages that are still to be handled
    top,       \* the newest message at the time of the fetch
    job,       \* the message being copied to Matrix, 0 if none
    posted,    \* the copy has been posted
    line,      \* the line of event next being sent to tomsg, 0 if none
    await,     \* the id of the sent line, not yet recorded, 0 if none
    \* Ghosts.
    faults,    \* the kinds of the faults that happened, in order
    logins,    \* login commands that happened
    lost,      \* lost[i]: copies of message i whose record was lost
    orphan,    \* messages sent by the bridge whose id never reached it
    before     \* handled messages at the time the history was fetched

servers == <<log, posts, events, acked, upto>>
process == <<up, dead, next, stale>>
room    == <<handled, fetched>>
session == <<phase, alive, inbox>>
copying == <<todo, top, job, posted>>
sending == <<line, await>>
bounds  == <<faults, logins>>
ghosts  == <<lost, orphan, before>>
vars == <<servers, db, process, room, lock, session, copying, sending,
          bounds, ghosts>>

---------------------------------------------------------------------------
\* Messages.

Native == <<0, 0>>             \* written in tomsg by somebody else
Ids == 1..Len(log)
FromMatrix(i) == log[i] # Native
NumNative == Cardinality({i \in Ids : ~FromMatrix(i)})

\* A mutant of Earlier: the newest message first.
Later(i, j) == i > j

Earlier(i, j) == BatchOrder(top, i, j)

---------------------------------------------------------------------------
\* Sessions.

Phases == {"none", "open", "checked", "ready", "history", "live", "drain"}
Current == Phases \ {"none", "drain"}
CurrentSession(u) == {s \in Sessions : s[1] = u /\ phase[s] \in Current}
LoggedIn == {"ready", "history", "live", "drain"}
Online == {s \in Sessions : alive[s] /\ phase[s] \in LoggedIn}

Push(i, S) == inbox' = [s \in Sessions |->
                            IF s \in S THEN Append(inbox[s], i) ELSE inbox[s]]

\* The user in whose name the handler sends.
Author == events[next]

\* The session's bind() is dropped or returns.  Only the loop it spawned, if
\* it got that far, goes on.
After(p) == IF p = "live" THEN "drain" ELSE "none"

EndSession(s) ==
    /\ phase' = [phase EXCEPT ![s] = "none"]
    /\ alive' = [alive EXCEPT ![s] = FALSE]
    /\ inbox' = [inbox EXCEPT ![s] = <<>>]

\* A loop left behind keeps its end of the connection, a dropped bind() none.
Detach(S) ==
    /\ phase' = [s \in Sessions |-> IF s \in S THEN After(phase[s]) ELSE phase[s]]
    /\ alive' = [s \in Sessions |-> alive[s] /\ (s \in S => phase[s] = "live")]
    /\ inbox' = [s \in Sessions |->
                    IF s \in S /\ phase[s] # "live" THEN <<>> ELSE inbox[s]]

\* The task of the user returns or panics, and its channel goes with it.
TaskEnds(u) ==
    /\ dead' = dead \cup {u}
    /\ stale' = [stale EXCEPT ![u] = <<>>]

\* A caller in the user's name is gone, its command stays in the channel.
\* Native stands for one that writes nothing, or that was already sent.
Leave(u, command) == stale' = [stale EXCEPT ![u] = Append(@, command)]

\* The command loop of s waits for the answer to such a command.
InHand(s) ==
    phase[s] \in Current /\ stale[s[1]] # <<>> /\ Head(stale[s[1]]) = Native

Fault(kind) ==
    /\ kind \in FaultKinds
    /\ Len(faults) < MaxFaults
    /\ faults' = Append(faults, kind)

ServerType ==
    /\ log \in Seq(Nat \X Nat)
    /\ posts \in Seq(Nat) /\ Len(posts) = Len(log)
    /\ events \in Seq(Users)
    /\ acked \in Nat /\ upto \in Nat
    /\ db \subseteq Ids

ProcessType ==
    /\ up \in BOOLEAN /\ fetched \in BOOLEAN
    /\ handled \subseteq Ids
    /\ lock \in Sessions \cup {Free, Handler}
    /\ dead \subseteq Users
    /\ next \in Nat
    /\ stale \in [Users -> Seq(Nat \X Nat)]

SessionType ==
    /\ phase \in [Sessions -> Phases]
    /\ alive \in [Sessions -> BOOLEAN]
    /\ inbox \in [Sessions -> Seq(Ids)]

LocalType ==
    /\ todo \subseteq Ids /\ top \in Nat
    /\ job \in Ids \cup {0} /\ posted \in BOOLEAN
    /\ await \in Ids \cup {0} /\ line \in 0..Lines

GhostType ==
    /\ faults \in Seq(FaultKinds) /\ logins \in Nat
    /\ lost \in Seq(Nat) /\ Len(lost) = Len(log)
    /\ orphan \subseteq Ids /\ before \subseteq Ids

TypeOK == ServerType /\ ProcessType /\ SessionType /\ LocalType /\ GhostType

Init ==
    /\ log = <<>> /\ posts = <<>> /\ events = <<>>
    /\ acked = 0 /\ upto = 0 /\ next = 1
    /\ db = {}
    /\ up = TRUE /\ dead = {} /\ stale = [u \in Users |-> <<>>]
    /\ handled = {} /\ fetched = FALSE
    /\ lock = Free
    /\ phase = [s \in Sessions |-> "none"]
    /\ alive = [s \in Sessions |-> FALSE]
    /\ inbox = [s \in Sessions |-> <<>>]
    /\ todo = {} /\ top = 0 /\ job = 0 /\ posted = FALSE
    /\ line = 0 /\ await = 0
    /\ faults = <<>> /\ logins = 0
    /\ lost = <<>> /\ orphan = {} /\ before = {}

---------------------------------------------------------------------------
\* The servers.

\* The tomsg server stores message i of the given origin and pushes it to S.
Store(origin, S) ==
    /\ log' = Append(log, origin)
    /\ posts' = Append(posts, 0)
    /\ lost' = Append(lost, 0)
    /\ Push(Len(log) + 1, S)

NativeSend ==
    /\ NumNative < MaxNative
    /\ Store(Native, Online)
    /\ UNCHANGED <<events, acked, upto, db, process, room, lock, phase, alive,
                   copying, sending, bounds, orphan, before>>

\* A Matrix user writes in the room.
Submit(u) ==
    /\ Len(events) < MaxEvents
    /\ events' = Append(events, u)
    /\ UNCHANGED <<log, posts, acked, upto, db, process, room, lock, session,
                   copying, sending, bounds, ghosts>>

\* The homeserver puts some of the new events into a transaction, which it
\* keeps delivering until the bridge answers it.
BeginTxn ==
    /\ upto = acked
    /\ \E n \in 1..MaxTxn :
        /\ acked + n <= Len(events)
        /\ upto' = acked + n
    /\ UNCHANGED <<log, posts, events, acked, db, process, room, lock, session,
                   copying, sending, bounds, ghosts>>

---------------------------------------------------------------------------
\* The connection task of a user, up to the point where it gets messages.

\* try_connect succeeds and the task starts bind() and the command loop.
Connect(u) ==
    /\ up
    /\ u \notin dead
    /\ CurrentSession(u) = {}
    /\ \E k \in Slots :
        /\ phase[<<u, k>>] = "none"
        /\ phase' = [phase EXCEPT ![<<u, k>>] = "open"]
        /\ alive' = [alive EXCEPT ![<<u, k>>] = TRUE]
    /\ UNCHANGED <<servers, db, process, room, lock, inbox, copying, sending,
                   bounds, ghosts>>

\* try_connect fails CONNECT_MAX_TRIES times.
GiveUp(u) ==
    /\ up
    /\ u \notin dead
    /\ CurrentSession(u) = {}
    /\ Fault("giveup")
    /\ TaskEnds(u)
    /\ UNCHANGED <<servers, db, up, next, room, lock, session, copying, sending,
                   logins, ghosts>>

\* The assertion at the top of bind(), which takes the lock for a moment.
BindAssert(s) ==
    /\ phase[s] = "open"
    /\ lock = Free
    /\ phase' = [phase EXCEPT ![s] = "checked"]
    /\ UNCHANGED <<servers, db, process, room, lock, alive, inbox, copying,
                   sending, bounds, ghosts>>

\* Login and ListRooms are answered, or fail and bind() returns.  They wait
\* for their turn in the channel.
Login(s) ==
    /\ phase[s] = "checked"
    /\ stale[s[1]] = <<>>
    /\ \/ /\ alive[s]
          /\ phase' = [phase EXCEPT ![s] = "ready"]
          /\ UNCHANGED <<alive, inbox>>
       \/ /\ ~alive[s]
          /\ EndSession(s)
    /\ UNCHANGED <<servers, db, process, room, lock, copying, sending, bounds,
                   ghosts>>

\* bind() takes the lock and fetches the history, unless somebody did before.
BeginSetup(s) ==
    /\ phase[s] = "ready"
    /\ stale[s[1]] = <<>>
    /\ lock = Free
    /\ \/ /\ alive[s]
          /\ lock' = s
          /\ phase' = [phase EXCEPT ![s] = "history"]
          /\ todo' = IF fetched THEN {} ELSE Unhandled(Len(log), handled)
          /\ top' = Len(log)
          /\ before' = IF fetched THEN before ELSE handled
          /\ fetched' = TRUE
          /\ UNCHANGED <<alive, inbox>>
       \/ /\ ~alive[s]
          /\ EndSession(s)
          /\ UNCHANGED <<lock, todo, top, fetched, before>>
    /\ UNCHANGED <<servers, db, process, handled, job, posted, sending, bounds,
                   lost, orphan>>

---------------------------------------------------------------------------
\* Messages from tomsg: handle_tomsg_message, for history and for pushes.

\* A mutant of Wanted: handled_message is not asked.
Unchecked(i) == i

\* The messages that need no copy are dropped.
Wanted(i) == IF i \in handled THEN 0 ELSE i

TakeHistory(s) ==
    /\ lock = s
    /\ phase[s] = "history"
    /\ job = 0
    /\ \E i \in todo :
        /\ \A j \in todo \ {i} : ~Earlier(j, i)
        /\ todo' = todo \ {i}
        /\ job' = Wanted(i)
    /\ UNCHANGED <<servers, db, process, room, lock, session, top, posted,
                   sending, bounds, ghosts>>

\* The message loop reads a push and takes the lock.
TakePush(s) ==
    /\ phase[s] \in {"live", "drain"}
    /\ inbox[s] # <<>>
    /\ lock = Free
    /\ inbox' = [inbox EXCEPT ![s] = Tail(@)]
    /\ job' = Wanted(Head(inbox[s]))
    /\ lock' = IF job' = 0 THEN Free ELSE s
    /\ UNCHANGED <<servers, db, process, room, phase, alive, todo, top, posted,
                   sending, bounds, ghosts>>

\* create_message: the homeserver stores the copy.
Post(s) ==
    /\ lock = s
    /\ job # 0
    /\ ~posted
    /\ posts' = [posts EXCEPT ![job] = @ + 1]
    /\ posted' = TRUE
    /\ UNCHANGED <<log, events, acked, upto, db, process, room, lock, session,
                   todo, top, job, sending, bounds, ghosts>>

\* Mutants of Remember: the insert is forgotten; there is one record for
\* every Matrix event; there is none.
RememberInMemory(i) == handled' = handled \cup {i} /\ UNCHANGED db
RememberFirstLine(i) ==
    IF log[i][2] > 1 THEN UNCHANGED <<db, handled>>
    ELSE db' = db \cup {i} /\ handled' = handled \cup {i}
RememberNothing(i) == UNCHANGED <<db, handled>>

\* Room::handle_message, in the database and in memory.
Remember(i) ==
    /\ db' = db \cup {i}
    /\ handled' = handled \cup {i}

\* The copy is recorded.  The message loop is then done with the lock.
Record(s) ==
    /\ lock = s
    /\ posted
    /\ Remember(job)
    /\ job' = 0
    /\ posted' = FALSE
    /\ lock' = IF phase[s] = "history" THEN s ELSE Free
    /\ UNCHANGED <<servers, process, fetched, session, todo, top, sending,
                   bounds, ghosts>>

\* bind() releases the lock and spawns the message loop.
EndSetup(s) ==
    /\ lock = s
    /\ phase[s] = "history"
    /\ todo = {}
    /\ job = 0
    /\ lock' = Free
    /\ top' = 0
    /\ phase' = [phase EXCEPT ![s] = "live"]
    /\ UNCHANGED <<servers, db, process, room, alive, inbox, todo, job, posted,
                   sending, bounds, ghosts>>

---------------------------------------------------------------------------
\* The end of a session.

\* The handler waits for the answer to a command it sent over s.
Awaited(s) == await # 0 /\ s \in CurrentSession(Author)

\* The message loop has read everything that came before the end of the
\* connection.
LoopEnds(s) ==
    /\ phase[s] \in {"live", "drain"}
    /\ ~alive[s]
    /\ inbox[s] = <<>>
    /\ lock # s
    /\ ~Awaited(s)
    /\ ~InHand(s)
    /\ EndSession(s)
    /\ UNCHANGED <<servers, db, process, room, lock, copying, sending, bounds,
                   ghosts>>

\* A ping fails before the message loop has seen the end: the task leaves
\* the loop behind and connects again.
Abandon(s) ==
    /\ phase[s] = "live"
    /\ ~alive[s]
    /\ ~Awaited(s)
    /\ ~InHand(s)
    /\ Detach({s})
    /\ UNCHANGED <<servers, db, process, room, lock, copying, sending, bounds,
                   ghosts>>

Drop(s) ==
    /\ alive[s]
    /\ Fault("drop")
    /\ alive' = [alive EXCEPT ![s] = FALSE]
    /\ UNCHANGED <<servers, db, process, room, lock, phase, inbox, copying,
                   sending, logins, ghosts>>

\* A record of the copy that is being made is not going to be made.
LoseCopy == lost' = IF posted THEN [lost EXCEPT ![job] = @ + 1] ELSE lost

\* create_message panics, before or after the homeserver stored the copy.
\* The panic takes the message loop with it, or the connection task itself
\* if it happens in bind().
MatrixFails(s) ==
    /\ lock = s
    /\ job # 0
    /\ Fault("matrix")
    /\ LoseCopy
    /\ lock' = Free
    /\ job' = 0 /\ posted' = FALSE /\ todo' = {} /\ top' = 0
    /\ IF phase[s] = "history" THEN TaskEnds(s[1]) ELSE UNCHANGED <<dead, stale>>
    /\ EndSession(s)
    /\ UNCHANGED <<servers, db, up, next, room, sending, logins, orphan, before>>

\* The command login: the handler of transactions, which has the lock, makes
\* the shed close the user's channel, abort the task and start another.
Rebind(u) ==
    /\ up
    /\ lock = Free
    /\ logins < MaxLogins
    /\ logins' = logins + 1
    /\ dead' = dead \ {u}
    /\ stale' = [stale EXCEPT ![u] = <<>>]
    /\ Detach(CurrentSession(u))
    /\ UNCHANGED <<servers, db, up, next, room, lock, copying, sending, faults,
                   ghosts>>

---------------------------------------------------------------------------
\* Messages from Matrix: handler, handle_message_event, send_message_tomsg.

TakeEvent ==
    /\ up
    /\ lock = Free
    /\ next <= upto
    /\ lock' = Handler
    /\ line' = 1
    /\ UNCHANGED <<servers, db, process, room, session, copying, await, bounds,
                   ghosts>>

\* Mutants of Panic: the transaction goes on with the next event; the lock
\* is not released.
PanicSkips == lock' = Free /\ line' = 0 /\ await' = 0 /\ next' = next + 1
PanicInLock == line' = 0 /\ await' = 0 /\ next' = acked + 1 /\ UNCHANGED lock

\* The handler panics or is cancelled.  The transaction will be delivered again.
Panic ==
    /\ lock' = Free
    /\ line' = 0
    /\ await' = 0
    /\ next' = acked + 1

\* The id of a sent line does not reach the bridge.
LoseReply == orphan' = IF await # 0 THEN orphan \cup {await} ELSE orphan

\* Send over a session that is logged in, in its turn.  The server may or may
\* not push the message back to the session it came from.
SendLine(s) ==
    /\ line # 0
    /\ await = 0
    /\ s \in CurrentSession(Author)
    /\ stale[Author] = <<>>
    /\ alive[s]
    /\ phase[s] \in LoggedIn
    /\ \E S \in {Online, Online \ {s}} : Store(<<next, line>>, S)
    /\ await' = Len(log) + 1
    /\ UNCHANGED <<events, acked, upto, db, process, room, lock, phase, alive,
                   copying, line, bounds, orphan, before>>

\* The command loop runs before Login was sent: the server answers with an
\* error and `expect("expected number")` panics.
SendRefused(s) ==
    /\ line # 0
    /\ await = 0
    /\ s \in CurrentSession(Author)
    /\ stale[Author] = <<>>
    /\ alive[s]
    /\ phase[s] \notin LoggedIn
    /\ Panic
    /\ UNCHANGED <<servers, db, up, dead, stale, room, session, copying, bounds,
                   ghosts>>

\* The command loop sees the connection fail, before the line was stored or
\* after that.  It drops the reply's sender and gives the session up, whose
\* bind() may have put a Login or ListRooms in the channel.
SendFails(s) ==
    /\ line # 0
    /\ s \in CurrentSession(Author)
    /\ stale[Author] = <<>>
    /\ ~alive[s]
    /\ LoseReply
    /\ \/ phase[s] = "checked" /\ Leave(Author, Native)
       \/ UNCHANGED stale
    /\ Detach({s})
    /\ Panic
    /\ UNCHANGED <<servers, db, up, dead, room, copying, bounds, lost, before>>

\* The receiving end of the channel went with the connection task.
SendDisconnected ==
    /\ line # 0
    /\ await = 0
    /\ Author \in dead
    /\ Panic
    /\ UNCHANGED <<servers, db, up, dead, stale, room, session, copying, bounds,
                   ghosts>>

\* A mutant of FinishEvent: the transaction stays at the event.
RepeatEvent == lock' = Free /\ line' = 0 /\ UNCHANGED next

\* The handler is done with the event and releases the lock.
FinishEvent == lock' = Free /\ line' = 0 /\ next' = next + 1

\* send_message_tomsg has the reply and records the line as handled; the loop
\* over the lines, and then the handler, goes on with the next one.
RecordReply ==
    /\ await # 0
    /\ Remember(await)
    /\ await' = 0
    /\ \/ /\ line < Lines
          /\ line' = line + 1
          /\ UNCHANGED <<lock, next>>
       \/ /\ line = Lines
          /\ FinishEvent
    /\ UNCHANGED <<servers, up, dead, stale, fetched, session, copying, bounds,
                   ghosts>>

\* The homeserver hangs up during an event, and the handler is dropped.  Its
\* command may be in the channel still, or be sent and have no answer yet.
Cancel ==
    /\ line # 0
    /\ Fault("cancel")
    /\ LoseReply
    /\ \/ /\ Author \notin dead
          /\ Leave(Author, IF await = 0 THEN <<next, line>> ELSE Native)
       \/ UNCHANGED stale
    /\ Panic
    /\ UNCHANGED <<servers, db, up, dead, room, session, copying, logins, lost,
                   before>>

\* The command loop sends a line whose caller is gone: nobody gets its id.
SendStale(s) ==
    /\ phase[s] \in Current \cap LoggedIn
    /\ alive[s]
    /\ stale[s[1]] # <<>> /\ ~InHand(s)
    /\ \E S \in {Online, Online \ {s}} : Store(Head(stale[s[1]]), S)
    /\ orphan' = orphan \cup {Len(log) + 1}
    /\ stale' = [stale EXCEPT ![s[1]] = <<Native>> \o Tail(@)]
    /\ UNCHANGED <<events, acked, upto, db, up, dead, next, room, lock, phase,
                   alive, copying, sending, bounds, before>>

\* The answer, which before Login is an error, finds no receiver:
\* `sender.send(Ok(res)).unwrap()` panics in the connection task.
StaleAnswered(s) ==
    /\ phase[s] \in Current
    /\ alive[s]
    /\ stale[s[1]] # <<>>
    /\ InHand(s) \/ phase[s] \notin LoggedIn
    /\ TaskEnds(s[1])
    /\ Detach({s})
    /\ UNCHANGED <<servers, db, up, next, room, lock, copying, sending, bounds,
                   ghosts>>

\* The command loop sees the connection fail under such a command, which is
\* then gone.
StaleFails(s) ==
    /\ phase[s] \in Current
    /\ ~alive[s]
    /\ stale[s[1]] # <<>>
    /\ \E left \in {<<>>, <<Native>>} :
        /\ phase[s] # "checked" => left = <<>>
        /\ stale' = [stale EXCEPT ![s[1]] = Tail(@) \o left]
    /\ Detach({s})
    /\ UNCHANGED <<servers, db, up, dead, next, room, lock, copying, sending,
                   bounds, ghosts>>

\* The answer to the transaction.
AckTxn ==
    /\ up
    /\ acked < upto
    /\ next = upto + 1
    /\ acked' = upto
    /\ UNCHANGED <<log, posts, events, upto, db, process, room, lock, session,
                   copying, sending, bounds, ghosts>>

\* The answer is lost, or the homeserver hangs up between two events.
AckLost ==
    /\ up
    /\ line = 0
    /\ next > acked + 1
    /\ Fault("ack")
    /\ next' = acked + 1
    /\ UNCHANGED <<servers, db, up, dead, stale, room, lock, session, copying, sending,
                   logins, ghosts>>

---------------------------------------------------------------------------
\* The process.

Crash ==
    /\ up
    /\ Fault("crash")
    /\ LoseCopy
    /\ LoseReply
    /\ up' = FALSE /\ dead' = {} /\ stale' = [u \in Users |-> <<>>]
    /\ handled' = {} /\ fetched' = FALSE /\ before' = {}
    /\ phase' = [s \in Sessions |-> "none"]
    /\ alive' = [s \in Sessions |-> FALSE]
    /\ inbox' = [s \in Sessions |-> <<>>]
    /\ todo' = {} /\ top' = 0 /\ job' = 0 /\ posted' = FALSE
    /\ Panic
    /\ UNCHANGED <<servers, db, logins>>

\* State::from_db, and main binds every registered user.
Restart ==
    /\ ~up
    /\ up' = TRUE
    /\ handled' = db
    /\ UNCHANGED <<servers, db, dead, stale, next, fetched, lock, session,
                   copying, sending, bounds, ghosts>>

---------------------------------------------------------------------------

Environment ==
    \/ NativeSend
    \/ BeginTxn
    \/ \E u \in Users : Submit(u)

ConnectionTask ==
    \/ \E u \in Users : Connect(u) \/ GiveUp(u) \/ Rebind(u)
    \/ \E s \in Sessions :
        \/ BindAssert(s) \/ Login(s) \/ BeginSetup(s) \/ TakeHistory(s)
        \/ EndSetup(s) \/ LoopEnds(s) \/ Abandon(s) \/ Drop(s)

Copying ==
    \E s \in Sessions : TakePush(s) \/ Post(s) \/ Record(s) \/ MatrixFails(s)

Transaction ==
    \/ TakeEvent \/ SendDisconnected \/ RecordReply \/ Cancel \/ AckTxn \/ AckLost
    \/ \E s \in Sessions : SendLine(s) \/ SendRefused(s) \/ SendFails(s)

LeftBehind ==
    \E s \in Sessions : SendStale(s) \/ StaleAnswered(s) \/ StaleFails(s)

Next ==
    \/ Environment \/ ConnectionTask \/ Copying \/ Transaction \/ LeftBehind
    \/ Crash \/ Restart

Spec == Init /\ [][Next]_vars

\* The steps of whoever holds the lock, or needs nothing but its turn.
Work(s) ==
    \/ TakeHistory(s) \/ Post(s) \/ Record(s) \/ EndSetup(s) \/ Login(s)
    \/ LoopEnds(s) \/ SendStale(s) \/ StaleAnswered(s) \/ StaleFails(s)

Send ==
    \/ SendDisconnected \/ RecordReply
    \/ \E s \in Sessions : SendLine(s) \/ SendRefused(s) \/ SendFails(s)

\* The runtime runs every task that can run, the homeserver delivers what it
\* has, and the lock is granted in the order in which it was asked for.
Fairness ==
    /\ WF_vars(BeginTxn) /\ WF_vars(Send) /\ WF_vars(AckTxn) /\ WF_vars(Restart)
    /\ SF_vars(TakeEvent)
    /\ \A u \in Users : WF_vars(Connect(u))
    /\ \A s \in Sessions :
        /\ WF_vars(Work(s))
        /\ SF_vars(BindAssert(s)) /\ SF_vars(BeginSetup(s)) /\ SF_vars(TakePush(s))

FairSpec == Spec /\ Fairness

---------------------------------------------------------------------------
\* The inductive invariant.

\* The handler and the sessions use their locals only with the lock.
LockInv ==
    /\ line # 0 <=> lock = Handler
    /\ await # 0 => line # 0
    /\ job # 0 => lock \in Sessions
    /\ posted => job # 0

\* Nothing runs while the process is down.
DownInv ==
    ~up => /\ lock = Free
           /\ \A s \in Sessions : phase[s] = "none"

\* Memory mirrors the disk, and what is being handled is not recorded yet.
MemoryInv ==
    /\ up => handled = db
    /\ job \notin db
    /\ await \notin db

\* Copies without a record are lost, but for the one being made.
CopyInv ==
    \A i \in Ids :
        posts[i] <= lost[i] + IF i \in db \/ (posted /\ i = job) THEN 1 ELSE 0

\* The copy being made has been counted.
JobInv == posted => posts[job] > 0

\* A sent line is recorded, waited for or forgotten, and copied only then.
OwnInv ==
    /\ \A i \in Ids : FromMatrix(i) => i \in db \/ i \in orphan \/ i = await
    /\ \A i \in Ids : FromMatrix(i) /\ posts[i] > 0 => i \in orphan
    /\ await # 0 => FromMatrix(await) /\ await \notin orphan

Inv == LockInv /\ DownInv /\ MemoryInv /\ CopyInv /\ JobInv /\ OwnInv

---------------------------------------------------------------------------
\* Properties.

\* Memory and database agree on the handled messages, which is what keeps
\* handle_message from inserting a key twice (Room::handle_message).
HandledPersisted == up => handled = db

\* A message is copied to Matrix once, and once more for every copy whose
\* record was lost to a panic or crash (handle_tomsg_message).
PostsBounded == \A i \in Ids : posts[i] <= 1 + lost[i]

\* What a Matrix user wrote does not come back as a copy, unless the bridge
\* never learned the id of the line it sent (send_message_tomsg).
NoEcho == \A i \in Ids : FromMatrix(i) /\ posts[i] > 0 => i \in orphan

OnlyFaults(K) == \A n \in DOMAIN faults : faults[n] \in K

\* Message i is in what some session has yet to read.
Waiting(i) == \E s \in Sessions : \E k \in DOMAIN inbox[s] : inbox[s][k] = i

\* Once the history is fetched, every message that is not handled is in the
\* inbox of a session (Room.fetched_tomsg_history, get_unhandled_history).
NothingMissed == up /\ fetched /\ lock = Free => \A i \in Ids \ handled : Waiting(i)

\* That holds but for messages behind a whole batch that was handled before
\* the fetch, as long as no session is lost while the process runs.
MissedOnlyBehindBatch ==
    up /\ fetched /\ lock = Free /\ OnlyFaults({"crash", "ack"}) =>
        \A i \in Ids \ handled :
            Waiting(i) \/ \E j \in i + 1 .. Len(log) : j .. j + Batch - 1 \subseteq before

\* No line of an event is sent before all earlier lines have been (handler,
\* handle_message_event), redelivered transactions or not.
LinesInOrder ==
    \A i \in Ids : FromMatrix(i) =>
        \A e \in 1..log[i][1], l \in 1..Lines :
            e < log[i][1] \/ l < log[i][2] => \E j \in 1..(i - 1) : log[j] = <<e, l>>

\* An event that is alone in its transaction is sent once, and once more for every
\* fault.  A command that is refused before Login is none: it can only come before
\* the first line, as the handler keeps the lock, or after a connection was lost.
ResendsBounded ==
    MaxTxn = 1 =>
        \A i \in Ids : FromMatrix(i) =>
            Cardinality({j \in Ids : log[j] = log[i]}) <= 1 + Len(faults)

\* A user alone has messages copied in their order: first all older ones of
\* others.  Two sessions at a time, or more than a batch of history, break it
\* (get_unhandled_history).
Alone == (\A u, v \in Users : u = v) /\ logins = 0 /\ OnlyFaults({"crash", "ack"})
OldestFirst ==
    \A i \in Ids : posts'[i] > posts[i] =>
        \A j \in 1 .. i - 1 : ~FromMatrix(j) => posts[j] > 0
PostedInOrder == [][Alone /\ Len(log) <= Batch => OldestFirst]_vars

\* The lines the bridge sent and knows, or will know, to be its own.
Own == {i \in Ids : FromMatrix(i)} \ orphan

L == INSTANCE Ledger WITH copies <- posts, done <- db, own <- Own

\* Whatever is lost and crashes, the bridge keeps the promise of Ledger: a copy
\* is made only of a foreign message without a record, a record only after a
\* copy (handle_tomsg_message, send_message_tomsg).
LedgerSpec == L!Spec

\* Every message of the tomsg room gets to Matrix.
EveryMessagePosted ==
    \A i \in 1..MaxNative + MaxEvents * Lines :
        i \in Ids /\ ~FromMatrix(i) ~> i \in Ids /\ posts[i] > 0

\* Every event gets to tomsg, and the homeserver gets its answer.
EveryEventSent == \A e \in 1..MaxEvents : Len(events) >= e ~> acked >= e

=============================================================================
