# A specification of tomsg-matrix

tomsg-matrix bridges tomsg chat rooms to Matrix rooms. This directory holds
TLA+ models of it, TLC configurations that check them on small instances, and
proofs for TLAPS. Paths such as `tomsg.rs` are relative to `src/src/`.

## The system

| component | state | operations |
|---|---|---|
| connection shed, sessions (`tomsg.rs`) | `ConnectionShed.map`: for every Matrix user the sending end of a rendezvous channel and a handle that aborts the connection task; in the task, the session, its push channel, the loops for commands, messages and pings | `ensure_connection`, `bind` (shed), `try_connect`, `bind` (session), `handle_push`, `drop_connection`, `register`, `Channel::send` |
| messages from tomsg (`tomsg.rs`, `room.rs`) | `Room.handled_messages`, `Room.fetched_tomsg_history` | `get_unhandled_history`, `handle_tomsg_message`, `handle_message` |
| transaction handler (`handler.rs`) | none between transactions | `handler`, `handle_message_event`, `handle_state_event`, `send_message_tomsg`, `get_room_user`, `invite_user` |
| commands (`command.rs`) | none | `login` with or without credentials, `bridge`, `ping`, `help`; `take_over` |
| state (`state.rs`, `user.rs`) | `State.users`, `State.rooms`, `State.management_rooms`, under one `tokio::sync::Mutex` | `ensure_real_user`, `ensure_puppet`, `remove_user`, `add_room`, `remove_room`, `set_management_room` |
| rooms (`room.rs`) | participants, handled messages | `insert_user`, `remove_user`, `ensure_tomsg_user_in_room`, `insert_and_invite` |
| database (`db.rs`, `schema.sql`) | the tables `rooms`, `handled_messages`, `real_users`, `puppet_users`, `room_participants`, `management_rooms`, `meta` | one query per method |
| Matrix client (`matrix.rs`) | the transaction id | `create_puppet`, `invite_tomsg_members`, `puppet_join_room`, `create_message`, `create_room` |
| start-up (`main.rs`), migrations (`migration.rs`) | none | load the state, run migrations, bind every real user, listen |

Two servers surround it. The homeserver delivers events in transactions and
repeats each until it is answered; the tomsg server stores messages and pushes
them to the sessions that are logged in. The tasks in the process are one
connection task, message loop and ping loop per registered user, and one task
per HTTP request of the homeserver. They share the `State`, whose lock is held
across requests to either server, the shed, whose lock is held inside that one,
and the database.

What is hard:

- *Interleaving.* Every session gets every message. Two sessions, the history
  fetch and the handler that sent a message all see the same one.
- *Panics are error handling.* Nearly every failure is an `unwrap` that ends a
  task at an `await` and releases the lock with the work half done. Which task
  it ends, and who starts another, differs from place to place.
- *Memory and disk.* Each change is written to both, not in one transaction
  with the request it belongs to; a restart reads everything back.
- *Retries.* A transaction is delivered again from its first event.
- *Partial loss.* An aborted connection task leaves its message loop running.

For every component, `PROJECT.json` says what is modelled, and its "hazards"
list what can go wrong, at its line, and which property looks at it.

What makes each component correct:

- messages: copied to Matrix until recorded and not again, not copied back to
  where they came from, in order, none missed;
- handler: every event reaches tomsg, its lines in order, once if nothing fails;
- connections: everyone who is registered is connected, as who they are;
- accounts: a tomsg name is a puppet or a real user, never both; what is in
  memory is on disk; nobody is registered twice for nothing; who has left is
  not a participant;
- rooms: one Matrix room for each tomsg room, never one that is a management
  room; a participant is in the room on both sides; the bridge makes no room
  that it then forgets;
- database: what is inserted can be read back, what is removed cannot;
- a connection: a command is run once or fails, and its caller hears of it;
- start-up: a migration is applied once, to the schema it was written for, and
  loses nothing; the id of a message is used once, over all restarts.

## Modules

| module | what it is |
|---|---|
| `Ledger` | abstract: what the bridge promises for the messages of a room |
| `Relay` | sessions, history, pushes, transactions and the lock, for one room; implements `Ledger` |
| `RelayProofs` | theorems about `Relay`: records, copies, echoes, the refinement |
| `OrderProofs` | theorems about `Relay`: the order of lines, how often one is sent, the history fetch, the order of copies |
| `Batches` | what `get_unhandled_history` returns, said without its loop |
| `History` | the loop of `get_unhandled_history`, request by request; returns what `Batches` says |
| `HistoryProofs` | theorems about `History` |
| `Accounts` | managed users, puppets, participants and their tables, for one room |
| `AccountsProofs` | theorems about `Accounts` |
| `Directory` | abstract: what `State` and its database promise of rooms |
| `Rooms` | tomsg rooms and Matrix rooms, who is in them, events, the command bridge, management rooms; implements `Directory` |
| `RoomsProofs` | theorems about `Rooms`: the mapping of rooms, tables, participants, the refinement |
| `PlacesProofs` | theorems about `Rooms`: forgotten rooms, management rooms, invitations |
| `Connection` | the connection task of one user, the channel to it, and its replacement; implements `Calls` |
| `Calls` | abstract: what `Channel::send` promises its callers |
| `ConnectionProofs` | theorems about `Connection`, the refinement of `Calls` among them |
| `Startup` | schema version, migrations, loading, and the ids of messages over restarts |
| `StartupProofs` | theorems about `Startup` |
| `MCRelay`, `MCHistory`, `MCAccounts`, `MCRooms`, `MCConnection`, `MCStartup` | model values and symmetry for TLC |

The models look at the same code from different sides, and share no variables.
`Relay` takes one room in which everybody is admitted, and follows its messages;
`Accounts` has one room too, and asks who is managed as whom; `Rooms` takes the
accounts for granted and has several rooms; `Connection` is one
command loop in detail, which `Relay` has as a session that answers at once or
never; `Startup` is what comes before all of them.

### Relay

A message of the tomsg room is its index in `log`; its origin is `Native`
(somebody else wrote it) or `<<e, l>>`, line `l` of Matrix event `e`. `posts`
counts the copies in the Matrix room. `db` is the table `handled_messages`,
`handled` and `fetched` are the fields of `Room`, `lock` says who has the
`State`. A session is a user and a slot, as one user may have a new session while
the loop of an old one goes on. Its `phase` is where `bind` is:

    none -Connect-> open -BindAssert-> checked -Login-> ready
         -BeginSetup-> history -EndSetup-> live       (drain: loop left behind)

Every step ends where the code awaits something another task can overtake. So
`BeginSetup` takes the lock and has the history, `TakeHistory` picks the next
message and looks it up, `Post` is the homeserver storing the copy, and
`Record` is `handle_message`; `TakePush` does for a push what the first two do
for history. `TakeEvent`, `SendLine`, `RecordReply` and `AckTxn` are the way of
an event to tomsg. Between `SendLine` and `RecordReply` the line is in the log
and its push on the way, and only the lock keeps it from being copied.

`Unhandled` (in `Batches`) is what the loop of `get_unhandled_history` returns,
said without the loop: the unhandled messages such that neither their batch nor
a newer one is handled altogether. `Earlier` is its order: newest batch first,
each batch oldest first. In `Relay` the fetch is one step although the loop
awaits a reply for every batch; `History` justifies that.

The faults are counted and named in `FaultKinds`: `drop` (a connection breaks),
`matrix` (`create_message` fails, before or after the copy is stored), `giveup`
(`CONNECT_MAX_TRIES` failures), `ack` (the answer to a transaction is lost),
`cancel` (the homeserver hangs up and the handler is dropped) and `crash`. A
refused command (`SendRefused`) needs no fault: the command loop runs next to
`bind`, so a line can be sent before `Login` is.

`stale` has, for every user, the commands in the channel whose callers are gone:
the handler was dropped while its line was still in the channel or at the server
(`Cancel`), or `bind` was, with its `Login` or `ListRooms` (`SendFails`,
`StaleFails`). They are served before any other. The session sends the line
(`SendStale`), which therefore gets into the room although nobody hears of its id,
and the answer to it makes `sender.send(..).unwrap()` panic (`StaleAnswered`):
the task of that user ends for good (`TaskEnds`).

The ghosts `lost`, `orphan` and `before` record copies whose record was lost,
own lines whose id never reached the bridge, and what was handled when the
history was fetched.

### History

One room and one loop over it. `at` is where the loop is: `Begin` is its start,
`Reply` the answer to `History` or `HistoryBefore` with the new `earliest_id`,
`Read` looks at one message of the reply, `NextBatch` is the loop's condition,
and `Fail` an `unwrap` of a reply that did not come. Between any two of them
others may `Write`; nobody can `Handle`, because the caller holds the `State`, and
a `Restart` ends the loop. `Returned` says that whatever was written meanwhile,
the result is `Unhandled` in `BatchOrder`, of the room as it was at the first
reply: what is written later is in front of what `HistoryBefore` counts from.
So one step of `Relay`, at the first reply, stands for the loop. `RequestsBounded`
says that the loop ends, and how soon.

### Accounts

A tomsg name is a person's (`Names`) or `AutoName(m, i)`, the i-th that
`ensure_real_user` tries for Matrix id `m`. `Puppet(n)` is the Matrix id of the
puppet of `n`. `users`, `participants` and `bound` are `State.users`,
`Room.participants` and the shed; `real`, `puppets` and `rows` are the tables;
`accounts`, `roster`, `puppeted` and `joined` are what the servers know. `real`
is a sequence, as `get_users` (`Loaded`, `Winner`) depends on the order of the
rows. The holder of the lock is at one of `Steps`, and each action is the code
between two requests to a server:

- login: `BeginLogin`, `TakeOver`, `Leave`, `Replace` (or `Register`, `Insert`),
  `Reply`;
- an event of a room: `BeginEvent`, `Register`, `Insert`, `Invite` (or
  `NoInviter`), `SendInvite`;
- set-up of a connection or an invitation: `BeginMembers`, then for each member
  `ListMember`, `Create` (or `CreateTaken`), `Made`, `Join` (or `JoinRefused`), at
  last `EndList`;
- somebody joins: `BeginJoinPush`, `Create`, `Made`, `Join` (or `JoinRefused`).

`Panic` is the failure of a request at any of them, or the loss of its answer.
`JoinRefused` needs no failure: the homeserver refuses to invite a puppet that is
in the room, and to let in one that a `Join` push brings and nobody invited.
Where the `MappingDict`, which is a library, may hold several users under one
key, the model leaves open which it finds. So `NoInviter` may happen although
somebody could lend a connection (`Lender`): participants are looked up by their
tomsg names. Who lends one may be a participant on record and yet not in the
tomsg room; the server then refuses the invite, and the answer is not looked at.

`InvitesLost` counts the participants on record who are not in the tomsg room:
as many as there were faults at most, besides those whose invite was refused in
this way (`astray`).

`RestartKeeps` compares `users` with what a restart would load: `get_users` takes
one row for a name, so that of two users with one tomsg name one is lost, while
the row of a user who was replaced is still there and comes back. `NoneStranded`
says which puppet accounts the homeserver has and the bridge does not: without a
fault, those whose name somebody logged in with.

### Rooms

`rooms` and `participants` are `State.rooms` with the participants of each room,
`management` is `State.management_rooms`; `roomRows`, `memberRows` and
`managementRows` are their tables, the last one a sequence, as rows are only
ever added and the last of a user counts. `members` is what the tomsg server
knows, `present` and `invited` what the homeserver does. A Matrix room without
members does not exist, and a plumbed room is named like its tomsg room, as is
its alias: `CreateRoom` fails when the alias is taken.

The events that users make stand in `queue` until `Answer`: a panic releases
the lock and leaves the event where it is, to be delivered again. As in
`Accounts`, `job` is the holder of the lock with its local variables, and a
step ends where the code awaits a server:

| job | steps |
|---|---|
| set-up of a session | `BeginSetUp`, then for each room `NextRoom`, (`CreateRoom`, `AddRoom`,) `Enter`, `List`, for each missing puppet `InviteMember`, `JoinMember` (or `EnsureFails`), then `RecordMembers`, `Welcome` |
| pushes of an invitation, a join, a message | `BeginPush`, (`CreateRoom`, `AddRoom`,) `Enter`; an invitation goes on with `List`, a join with `JoinUninvited` |
| an invitation on Matrix | `HandleInvite`, `Invited` and, for a puppet, `SendInvite` |
| a join, a text | `HandleJoin`, `HandleText`, `SendInvite` when the sender is new on tomsg |
| the bot is put out | `HandleLeave`, which does nothing |
| the command bridge | `HandleBridge`, (`NewRoom`,) `Bridge`, `List` and on as above, `Bridged` |

The homeserver lets in whoever is invited or there already, and lets members
invite whoever is not there; the registration gives the bridge the right to act
as every user it makes, and rooms are private. Where the code unwraps the
answer to a request that is refused, the action releases the lock and
leaves out the rest. The ghosts `foreign`, `uninvited` and `left` are the three
ways in which the code, without any fault, gets participants and rooms that the
properties would forbid; each is a row of the hazards, without a property to
catch it. `ParticipantsInvited`, `PuppetsPresent` and `Apart` say that there is no
fourth.

`EnsureFails` is `state.ensure_puppet(..).await.unwrap()` in the list of
`invite_tomsg_members`. The puppets of `People` are there, so that it succeeds for
them; but a member of the tomsg room may be one who is not managed and whose
account exists (run `recreate`). Where in the list such a member stands is left
open. Like a panic in `puppet_join_room`, or the bot being put out
meanwhile, it cuts off the record of the puppets that joined before, and
`unrecorded` remembers them. `InvitesFit` says that no other puppet is ever
invited that is in the room, whatever fails; those are, by every later set-up,
which panics on each.

`Directory` has the same `rooms`, `participants` and `management`, and neither
tables nor restarts. `AddRoom` is its `Plumb`, `Bridge` its `Bridge`; `Enter`,
`HandleJoin`, `HandleText` and `Invited` are `Admit`, `RecordMembers` is `Gather`,
an invitation of the bot is `Appoint`. All else stutters, `Crash` because what
is loaded from the tables is what memory had.

### Connection

A task of `Tasks` is one call of `ConnectionShed::bind`: `connecting` while
`try_connect` loops, `open` in the loop over commands, `aborted` between
`abort()` and the next poll, `ended` when it returned or panicked. `queue` has
what callers put on its channel, `taken` the command it sent to the server,
`place` where a command is, `status` what its caller has heard. A caller has a
clone of the channel and one slot in it, so that the rendezvous channel
refuses nobody (`Send`); a caller with the channel of a task that has ended
fails at once. `End` is the task with all it owns being dropped, and
with it the `oneshot` of every command in its channel, which makes
their callers panic. `Lose` is a connection that breaks: the command in hand
fails, and the server may have run it, may still run it, or never; those in
the channel wait for the next connection. `Impatient` callers are those of
the command ping, which stop after five seconds; the reply to one of them is the
`sender.send(Ok(res)).unwrap()` that ends the task (`ReplyToNobody`).

`Calls` knows a caller and how often its command was run, and nothing
of tasks. The refinement maps `gone` to `failed`.

### Startup

`version`, `saved` and the tables are on disk, everything from `stage` on is
lost by `Down`. `Boot` reads the counter of message ids and picks the
migrations to run (`Skipped`); `Begin` takes any of them, as they are in a
`HashMap`; `Name` is one request of migration one, `Statement` one of the four
statements of migration two, which change `draft` until `Commit`. `Load` is
`State::from_db`, which needs the table that migration two makes. No code writes
the version into `meta`, so that a database of version 0 or 1 is served by its
first start only; one of version 2 is a database in whose `meta` somebody wrote
it by hand, after the migration. A message then takes an id (`Take`), saves the
next one (`Save`) and is sent (`Request`).
`SaveFails` leaves the `std::sync::Mutex` of the database poisoned, and every
later task panics on it (`SavePoisoned`).

## Runs

| run | instance | what it shows |
|---|---|---|
| `relay` | 2 users, 1 session each, batch 2, 1 foreign message, 1 event, 1 login, 2 faults of any kind | memory and disk agree, copies are bounded by lost records, a line is sent again only after a fault, nothing is missed but behind a handled batch, `Relay` implements `Ledger` |
| `sessions` | 1 user, 2 sessions, 1 foreign message, 2 events of 2 lines in a transaction, 1 fault of any kind | no echo; no line overtakes an earlier one, whatever is delivered again; the order of copies |
| `live` | 2 users, 1 foreign message, 1 event, 1 crash, fairness | every message is copied, every event sent |
| `history` | batch 2, 6 messages | the loop returns what `Unhandled` says, in order, and makes few requests |
| `accounts` | 2 Matrix users, 1 person, 3 logins, 1 failed request or crash | the type invariant and ten properties of `Accounts` |
| `rooms` | 2 users, 2 puppets, 2 tomsg rooms, 1 room made by users, 2 events, 2 tasks of sessions, 1 join, 1 failed request or crash | rooms stay apart from management rooms, participants are where they should be, `Rooms` implements `Directory`, so that rooms stay one to one and a restart changes none |
| `startup` | versions 0 to 2, 2 tasks, 4 ids per process, 3 faults of any kind | ids are used once, members survive the migration, `State::from_db` finds its table |
| `connection` | 3 commands, 1 of an impatient caller, 3 tries, 2 tasks, 2 losses, fairness | `Connection` implements `Calls`, every caller hears |
| `drop` | 1 user | messages that arrive while nobody is connected are never copied |
| `recreate` | 3 logins, no fault | a puppet that was taken over can never be made again |
| `startagain` | version 1 | the second start runs migration two again |
| `poison` | 1 user, 1 puppet, 1 room, 2 events, no fault, fairness | an event that the handler panics on is delivered for ever |

The last four end in a violation: `PROJECT.json` "findings" has the comment that
each contradicts.

**Bounds.** Two users are what it takes for two sessions to have the same
message, for the lock to be contended, and for a user to be taken over by
another; the third would do what the second does. Two slots are needed for the
loop of an aborted task to meet its successor. A batch of two with three
messages is the smallest history that spans batches, so that the stop at a
handled batch can hide a message; in `sessions` the batch is larger than the
log, since the order of copies is a claim about one batch only; the messages that
may come in the wrong order there are the foreign one and the lines whose reply was
lost, and the two sessions at a time are a broken connection whose message loop is
still busy and its successor. In `History` six
messages are three batches, the last of which can be full or not. Two lines and two events
separate an order among lines from an order among events. One fault is
enough for each partial result that the code can leave; it falls between any
two steps. In `relay` there are two, for a connection that breaks under a command
that a dropped handler left behind. In `Accounts` three logins are the shortest way to be taken over, log
in as somebody else, and come back; `MaxAuto` is `MaxFaults + 1`, so that
the loop over names never runs out. In `Rooms` two users are needed for one to
lend the connection that invites the other; the two tomsg rooms are one that
is there and one that the command bridge makes; the room of users is the one
that is bridged, or becomes a management room, or both; two puppets are
needed for one to join and its record to be cut off by the other; two events are
an invitation of the bot and a command, an invitation and its acceptance, or the
acceptance and the bot put out. In `Connection` two tasks are a binding and its
successor, with the clones of the old channel still in the hands of callers; three tries tell the
count of one round from that of all; two losses let a command wait over two
connections. In `Startup` three faults are a failed save, the crash after it,
and one more in the migration that follows. `CHECK_DEADLOCK FALSE` is set for
all but `Accounts` and `History`, because with every bound reached and everything
delivered the bridge is idle; these two cannot stop, and their deadlock check is on.

**Fairness** (`FairSpec`). In `Relay`: weak fairness for what a task does by itself once it
can: the runtime polls every task that is ready, a connection is tried again
until it is made, the homeserver delivers what it has. Strong fairness for the
steps that take the lock (`TakeEvent`, `BindAssert`, `BeginSetup`, `TakePush`):
others take it in between, but tokio's `Mutex` is granted in the order of the
requests, so nobody is passed over for ever. No fault is fair, nor is anything
users do. In `Connection`: weak fairness for each step of each task, which the
runtime polls, and for the server running what it was sent. In `Rooms`: weak
fairness for the holder of the lock and the delivery of the first event.
`Accounts`, `History` and `Startup` state none. That a bridge which is started
often enough gets to serve does not hold: run `startagain`.

## Proofs

Eight modules hold proofs, for any values of the constants that the named
assumptions allow. Every safety property that a passing run checks
is proved. `PROJECT.json` "theorems" says what each establishes.

| module | theorem | statement |
|---|---|---|
| `RelayProofs` | `InvCorrect` | `Spec => [](TypeOK /\ Inv)` |
| | `TypeCorrect`, `MemoryCorrect`, `CopiesCorrect`, `NoEchoCorrect` | `TypeOK`, `HandledPersisted`, `PostsBounded`, `NoEcho` always hold |
| | `LedgerRefined` | `Spec => LedgerSpec` |
| `OrderProofs` | `LinesCorrect`, `MissedCorrect` | `LinesInOrder`, `MissedOnlyBehindBatch` always hold |
| | `PostedCorrect` | `Spec => PostedInOrder` |
| | `ResendsCorrect` | `ResendsBounded` always holds |
| `HistoryProofs` | `InvCorrect` | `Spec => [](TypeOK /\ Bounds /\ LoopInv)` |
| | `HistoryTypeCorrect`, `ReturnedCorrect`, `RequestsCorrect` | `TypeOK`, `Returned`, `RequestsBounded` always hold |
| `AccountsProofs` | `InvCorrect` | `Spec => []Inv` |
| | `TypeCorrect`, `PuppetOrRealCorrect`, `BoundCorrect`, `RecordedCorrect`, `PuppetsStayCorrect`, `RegisteredOnceCorrect`, `InvitesLostCorrect`, `OneUserCorrect`, `KickedOutCorrect`, `RestartCorrect`, `StrandedCorrect` | each of the eleven invariants of run `accounts` always holds |
| `RoomsProofs` | `InvCorrect` | `Spec => [](TypeOK /\ Inv)` |
| | `TypeCorrect`, `OneRoomCorrect`, `ParticipantsCorrect`, `PuppetsCorrect` | `TypeOK`, `OneRoomPerName`, `ParticipantsInvited`, `PuppetsPresent` always hold |
| | `DirectoryRefined` | `Spec => DirectorySpec` |
| `PlacesProofs` | `PlacesCorrect` | `Spec => [](TypeOK /\ Inv /\ PlacesInv)` |
| | `StrayCorrect`, `ApartCorrect`, `InvitesFitCorrect` | `NoStray`, `Apart`, `InvitesFit` always hold |
| `ConnectionProofs` | `InvCorrect` | `Spec => [](TypeOK /\ TriesInv /\ PlaceInv /\ CallInv)` |
| | `TypeCorrect` | `TypeOK` always holds |
| | `CallsRefined` | `Spec => CallsSpec` |
| `StartupProofs` | `StartupTypeCorrect`, `TxnOnceCorrect`, `MembersKeptCorrect`, `LoadsMigratedCorrect` | `TypeOK`, `TxnOnce`, `MembersKept`, `LoadsMigrated` always hold |

**Assumptions.** `LockAssumption` (the values of `lock` differ from users and
each other), `BoundAssumption` (numbers are numbers), `AccountsAssumption` and
`IdAssumption` (tomsg names and Matrix ids of people, puppets and registrations
do not coincide), `RoomsAssumption` (users, puppets and the bot are different, a
room made by users is no plumbed one), `ConnectionAssumption` and
`StartupAssumption` (bounds are numbers; there is at least one try; the lock's
value when nobody has it is no task). TLC evaluates each in every run of its
model. Nothing is assumed about how many users, rooms, messages, tasks or faults there are.

**`Relay`.** None of the three invariants is inductive by itself. `PostsBounded`
says nothing of a message that was copied but is not recorded and would be copied
again; what prevents that is that a copy being made is in nobody's record
(`MemoryInv`), that there is one holder of the lock who makes it (`LockInv`), and
that a copy without a record has been counted as lost or is the one being made
(`CopyInv`). `NoEcho` needs that a line that was sent is recorded, forgotten or
waited for (`OwnInv`), and that the one who waits has the lock. `DownInv` says
that the process that is down holds nothing, so that a restart begins from the
database. `JobInv` is there for the refinement: a record follows its copy.
`Inv` is their conjunction. The proof goes through
the actions one by one, with a lemma for each group of conjuncts, and `Panic`,
`Detach` and `Store` have lemmas of their own. The refinement maps `copies` to
`posts`, `done` to `db` and `own` to the bridge's lines that are not orphans:
`Post` is `Copy`, `Record` and `RecordReply` are `Record`, `NativeSend` is
`Hear`, `SendLine` is `Say`, whatever loses a reply is `Forget`, and all else
stutters.

`OrderProofs` adds `TxnInv` for the lines: everything before the line that is
next has been sent, in this delivery of the transaction or in an earlier one,
so that going back to its first event only repeats what is in the log. For what
is missed, `HistoryInv` says that a history is worked through by a session that
has the lock, and `CalmInv` that, as long as no session is lost, once the
history is fetched there is a session that gets every push, and that a message
without a record is in the history being worked through, being copied, waited
for, in the inbox of a session, or behind a batch that was handled before the
fetch. That the latter holds after the fetch is a fact about `Unhandled`, proved
from lemmas on division. `PostedInOrder` rests on the same: `OneInv` says that a
user alone has one session, `QueueInv` that what is left of the history is
newer than the message being copied, and that what is pushed is newer than both
or among them. So an older message that has no copy would have to be in a place
that `CalmInv` names, and is in none of them.

To count the copies of a line (`ResendInv`): that there is one more at most for
every fault needs that the handler's panics without a fault come
before the first line is sent: as long as it waits with the lock, a connection
that takes commands goes on to take them (`HealthyStay`), and a user has one
such connection (`SingleInv`). A line that a dropped handler left in a channel
(`Left`) counts as sent. `Spare` is the one time for which a line needs no
fault: its event is done, or is at hand and the connection over which the line
was sent still takes commands, with none left in its channel (`Healthy`).

**`History`.** `LoopInv` says where the loop is in terms of the division into
batches: before request `k + 1` the batches `0..k-1` were read, each had a message
that is not handled, `earliest` is the first message of the last of them, and
the result is what they have unhandled (`AskInv`); while a reply is read, the same
and the part of batch `k` up to `pos` (`ReadInv`). That each reply is one batch of
the room as it was at the first reply, and the last one may be shorter, are lemmas
on division (`LowFacts`, `BatchFacts`).

**`Accounts`.** `Inv` adds to the properties what the rows of `real_users` are
(`RowInv`: a name with its login, or one that was registered for that Matrix
id), that the first and the last row of a name exist (`HasEnds`, for `Loaded` and
`Winner`), what the holder of the lock has found out and nobody can
change meanwhile (`HolderInv`: the user who is being inserted has no row, the
puppet that is being made is not managed), who may be a member of the room
(`RosterInv`), that nothing is heard of a puppet before its account is made and
that no user has the Matrix id of a puppet that is or will be managed
(`PuppetInv`), that registered names without a row are at most as many as there
were faults (`LostInv`), that the participants whose invite was lost are finitely
many (`UninvitedInv`), and where participants are as long as nothing failed
(`CleanInv`). Without `HolderInv`, `PuppetOrReal` is not kept by `Made` and
`Insert`; without `RosterInv`, a puppet could be made of a name that was
registered for somebody; `LostInv` is what `RegisteredOnce` counts.
`RestartKeeps` rests on `KeptInv`, that every row which a restart
would load is of a Matrix id that is managed, and on `LoadedAppend`, which says
which row of a name counts after one was added.

**`Rooms`.** `HolderInv` and `KindInv` are what the holder of the lock
found out before it awaited a server. `Exist` says that a room that is managed or
that an event is from has members, so that a room which `create_room` could make
is neither; with it the pair that `Manage` adds is new on both sides, which is
`OneRoomPerName`. `HasLast` is for the rows of management rooms, of which the
last counts. `MemberInv` says that whoever is about to become a participant is
a member on tomsg, `PlacedInv` that puppets are in the Matrix room before they
are recorded. The refinement of `Directory` takes from `Recorded` that `Crash`
stutters, and from `HolderInv` that the pair being added is new and that the room
which somebody enters is known.

`PlacesProofs` is about the bot, which all else depends on: as long as it is not
put out of a room, it is invited there once at most (`BotInv`), it is in every
managed and every management room, and no event in the queue and no holder of
the lock is about to make one the other (`ApartInv`). `EventInv` ties the holder
of the lock to the first event, `FreshInv` says that nobody is in a
room that is made and not added yet. `StuckInv` is the reason why a room
that the command bridge takes has no puppet in it: the event of such a puppet is
the first in the queue, and the handler panics on it for ever. `StrayInv` counts
the rooms that were made and are not known, without the one at hand, against
the faults. `FitInv` follows a puppet over any faults: one that is in a
room is recorded, or is being invited by `invite_tomsg_members`, or is in an
event that is being handled, or its record was cut off (`unrecorded`). That the
event will end with a record needs
somebody who lends a connection, so that the invariant also says that the first
user in a room has a join event that comes before every invitation of a puppet.

**`Connection`.** `PlaceInv` says that a command is in one place: in one channel,
once, or in the hands of one task. `CallInv` says how often the server ran it
and what the caller heard, from that place. The refinement maps a caller whose
wait ended (`gone`) to one that failed. `TriesInv` says that only a
task that is connecting has failures to count; with it `TypeOK` bounds their number
by `CONNECT_MAX_TRIES`.

**`Startup`.** `Exclusive` (who sends has the lock), `Fresh` (an id that is taken
was not saved and one that is saved was not sent), `Drafted` (what each statement
of migration two leaves in the transaction) and `Pending` (migration two is only
over once the tables are new). That `TxnOnce` survives a failed save depends on
the poisoned mutex of the database, as the model does.

**Model-checked only.** Liveness (`EveryMessagePosted`, `EveryEventSent`,
`CallsEnd`), which needs fairness and is beyond the prover. The four runs
that end in a violation have nothing to prove.

## What the models leave out

- Formatting of bodies, replies and the Matrix ids of messages. A file event is
  sent like a text of one line. Names, passwords and timestamps are values that
  are compared and nothing else; a user has one password, which is right.
- The push channel between the tomsg library and the message loop is unbounded
  here. Its capacity, and what the connection does while it is full, is in the
  library. The ping loop only keeps the connection busy.
- `Relay` has one room and users who are admitted to it; `Accounts` and `Rooms`
  have the admission. The answer to a command is immediate or never there;
  `Connection` has the time between.
- `Accounts` does not follow connection tasks: any bound connection may set up
  or hear of a join at any time, which includes what the tasks do. The answer to
  `ListMembers` is the same for a whole set-up, and members are looked at in any
  order.
- `Rooms` begins with everybody managed and every puppet account made, and nobody
  logs in: that `take_over` takes a puppet out of its rooms (`Room::remove_user`,
  which deletes no row) is in `Accounts` only, where a restart brings it back. Only the
  bot is put out of a room, nobody else leaves. Rooms are for invited users
  only. Events come in order and singly, while pushes may come late or again.
- Reading the configuration and the HTTP listener: input and output alone.
- `State::remove_room` with `Database::remove_room`, which nothing calls.

Some consequences of the code are visible in the models and are not stated as
properties of their own:

- Two sessions may copy messages in another order than they were written.
- The history fetch stops at a batch that was handled altogether, and hides
  older messages (`tomsg.rs:133`; `MissedOnlyBehindBatch` has it as exception).
- A connection task that gives up leaves its channel in the shed, and every
  later command fails (`tomsg.rs:380`).
- A command may be sent before `Login` on the next connection, and is refused
  (`tomsg.rs:395`).
- After a second login the row of the first user remains, and a restart manages
  both (`command.rs:148`). Of two Matrix users who logged in as the same tomsg user,
  a restart manages one (`db.rs:184`). A puppet that was taken over is a participant again
  after a restart (`db.rs:250`).
- Whoever is invited is made to join, as the bridge may act as every user of
  the homeserver's namespace (`handler.rs:538`).
- To invite a puppet to a room that is not managed blocks the handler
  (`handler.rs:141`), like the user without a connection of run `poison`.
- A puppet that joins because of a push is not invited, and a private room does
  not let it in (`room.rs:178`).
- A set-up that panics in the list of members, be it because one of them cannot
  be made a puppet, makes every later one in that room panic (`matrix.rs:216`).
- A command whose caller is gone ends the connection task of its user when it is
  answered (`tomsg.rs:409`). A line that the next delivery sends again is in the
  room twice then.
- With several events per transaction the first is sent again for as long as a
  later one fails.
- On a database of version 0 both migrations run in the order of a `HashMap`.

## Not modelled

`message.rs` and `util.rs` are plain data and a random string, without
behaviour. The tomsg library and the homeserver are outside of the repository
and appear only as what the code sees of them.

## Plan

Done: all modules above, with the inductive invariants of every model proved.

Left: the bounded push channel, once the library says what a full one does, and
the leaving of users other than the bot in `Rooms`, which the code does not
handle yet.
