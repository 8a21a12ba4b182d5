------------------------------- MODULE Rooms -------------------------------
(***************************************************************************)
(* Which Matrix room belongs to which tomsg room, and who is in it.  A     *)
(* tomsg room that the bridge comes across without knowing it gets a new   *)
(* Matrix room (it is plumbed); the command bridge ties a room that exists *)
(* to a tomsg room.  State.rooms, Room.participants and the management     *)
(* rooms are kept in memory and in tables.                                 *)
(*                                                                         *)
(* Everybody is managed already: Users log in on tomsg under their own     *)
(* name, People have a puppet.  A user and a puppet are denoted by the     *)
(* name, on either side, and the room #tomsg_n of the homeserver by n.     *)
(* How they come to be managed, and how login takes a puppet out of its    *)
(* rooms again, is what Accounts is about; nobody logs in here.            *)
(*                                                                         *)
(* The State has one lock, and its holder is at one of the steps below.  A *)
(* step ends where the code awaits a server, so that a failed request or a *)
(* crash can come between any two.                                         *)
(***************************************************************************)
EXTENDS Integers, Sequences, FiniteSets

CONSTANTS
    Users,      \* Matrix users with a tomsg account of their own
    People,     \* tomsg users with a puppet
    Bot,        \* the user of the application service
    Names,      \* tomsg rooms
    Existing,   \* those that exist in the beginning
    Halls,      \* Matrix rooms made by users
    None, Bad,  \* no argument of bridge, and one that is no name of a room
    MaxJoins,   \* bound: joins on tomsg
    MaxTasks,   \* bound: set-ups of sessions and pushes
    MaxEvents,  \* bound: events made by users
    MaxFaults,  \* bound: faults
    FaultKinds  \* the faults that may happen

Members == Users \cup People
Everyone == Members \cup {Bot}
Places == Halls \cup Names      \* Matrix rooms

ASSUME RoomsAssumption ==
    /\ Users \cap People = {} /\ Bot \notin Members
    /\ Halls \cap Names = {} /\ Existing \subseteq Names
    /\ {None, Bad} \cap (Names \cup Halls) = {} /\ None # Bad
    /\ {MaxJoins, MaxTasks, MaxEvents, MaxFaults} \subseteq Nat
    /\ FaultKinds \subseteq {"panic", "crash"}

VARIABLES
    \* The servers.
    members,       \* members of the tomsg rooms
    present,       \* members of the Matrix rooms; a room with none does not exist
    invited,       \* invitations to them
    queue,         \* events for the bridge that it has not answered
    \* The disk: tables rooms, room_participants, management_rooms.
    roomRows, memberRows, managementRows,
    \* The State.
    rooms,         \* pairs of a tomsg room and its Matrix room
    participants,  \* pairs of a tomsg room and a participant
    management,    \* the management room of a user, or None
    \* The holder of the lock.
    job,
    \* Ghosts.
    born,          \* rooms made on tomsg for the command bridge
    foreign,       \* rooms bridged by somebody who is not in them
    uninvited,     \* puppets of Join pushes that the homeserver did not let in
    left,          \* Matrix rooms that the bot was put out of
    unrecorded,    \* puppets in or invited to a Matrix room whose record was cut off
    joins, tasks, events, faults

servers == <<members, present, invited>>
disk    == <<roomRows, memberRows, managementRows>>
memory  == <<rooms, participants, management>>
ghosts  == <<born, foreign, uninvited, left, unrecorded>>
bounds  == <<joins, tasks, events, faults>>
vars == <<servers, queue, disk, memory, job, ghosts, bounds>>

---------------------------------------------------------------------------
\* The State.

NameOf(r) == {n \in Names : <<n, r>> \in rooms}
PlaceOf(n) == {r \in Places : <<n, r>> \in rooms}
In(n, x) == <<n, x>> \in participants

\* Participants whose connection can be used to invite others.
Lenders(n) == {y \in Users : In(n, y)}

ManagementRooms == {management[u] : u \in Users} \ {None}

InsertRoom(n, r) == roomRows' = roomRows \cup {<<n, r>>}
InsertMembers(P) == memberRows' = memberRows \cup P
InsertManagementRoom(u, r) == managementRows' = Append(managementRows, <<u, r>>)

\* Mutants of Manage: into the database only, and with the pair swapped.
ManageOnDisk(n, r) == InsertRoom(n, r) /\ UNCHANGED rooms
ManageSwapped(n, r) ==
    /\ rooms' = rooms \cup {<<r, n>>}
    /\ roomRows' = roomRows \cup {<<r, n>>}

\* add_room, for a tomsg room that is not known.
Manage(n, r) == rooms' = rooms \cup {<<n, r>>} /\ InsertRoom(n, r)

\* Room::insert_user.
Insert(P) == participants' = participants \cup P /\ InsertMembers(P)

SetManagementRoom(u, r) ==
    /\ management' = [management EXCEPT ![u] = r]
    /\ InsertManagementRoom(u, r)

\* A mutant of LoadRooms: the rooms are read without their participants.
LoadRoomsAlone == rooms' = roomRows /\ participants' = {}

\* get_rooms: each with its participants.
LoadRooms == rooms' = roomRows /\ participants' = memberRows

\* get_management_rooms: of several rows of a user the last one counts.
RowsOf(u) == {i \in DOMAIN managementRows : managementRows[i][1] = u}
LastRow(I) == managementRows[CHOOSE i \in I : \A j \in I : j <= i][2]

LoadedManagement ==
    [u \in Users |->
        IF RowsOf(u) = {} THEN None ELSE LastRow(RowsOf(u))]

---------------------------------------------------------------------------
\* The holder of the lock.

NoJob == [step |-> "idle", kind |-> "none", n |-> None, r |-> None, u |-> None,
          x |-> None, by |-> None, new |-> FALSE, todo |-> {}, res |-> {}, rest |-> {}]
Idle == job.step = "idle"
At(st) == job.step = st
Go(st) == job' = [job EXCEPT !.step = st]

\* The lock is released: by a task that is done or that panics.  A panic of
\* the handler leaves the event in the queue, to be delivered again.
Release == job' = NoJob

\* Puppets that the job invited to the Matrix room or made join it, and that are
\* not on record yet.
Joined ==
    CASE At("members") -> job.res
      [] At("join") -> job.res \cup {job.x}
      [] At("invited") -> {job.x} \cap People
      [] OTHER -> {}

\* A panic, or the end of the process, comes before their record.
CutOff == unrecorded' = unrecorded \cup ({job.r} \X Joined)

Answer == Release /\ queue' = Tail(queue)

\* An event that somebody makes, delivered if the bridge is in the room.
Interested(r) == present[r] \cap (People \cup {Bot}) # {}
Event(kind, r, by, x, arg) == [kind |-> kind, r |-> r, by |-> by, x |-> x, arg |-> arg]
Deliver(e) == queue' = Append(queue, e)

\* The homeserver: who may join and who may be invited.  Rooms of the bridge
\* and of users are for invited users only.
CanJoin(x, r) == x \in present[r] \cup invited[r]
CanInvite(by, x, r) == by \in present[r] /\ x \notin present[r]

EnterPlace(x, r) ==
    /\ present' = [present EXCEPT ![r] = @ \cup {x}]
    /\ invited' = [invited EXCEPT ![r] = @ \ {x}]

InvitePlace(by, x, r) ==
    /\ invited' = [invited EXCEPT ![r] = @ \cup {x}]
    /\ Deliver(Event("invite", r, by, x, FALSE))

Fault(kind) == kind \in FaultKinds /\ faults < MaxFaults /\ faults' = faults + 1

Steps == {"idle", "room", "create", "add", "enter", "puppet", "list", "members",
          "join", "welcome", "invited", "send", "newroom", "bridge"}
Kinds == {"none", "setup", "invite", "join", "message", "bridge"}

JobType ==
    [step : Steps, kind : Kinds, n : Names \cup {None}, r : Places \cup {None},
     u : Users \cup {None}, x : Everyone \cup {None}, by : Everyone \cup {None}, new : BOOLEAN,
     todo : SUBSET People, res : SUBSET People, rest : SUBSET Names]

EventType ==
    [kind : {"invite"}, r : Places, by : Everyone, x : Everyone, arg : {FALSE}]
    \cup [kind : {"invite"}, r : Places, by : Users, x : Everyone, arg : {TRUE}]
    \cup [kind : {"join", "leave", "text", "bridge"}, r : Places, by : Users,
          x : Everyone \cup {None}, arg : Names \cup {None, Bad}]

ServerType ==
    /\ members \in [Names -> SUBSET Members]
    /\ present \in [Places -> SUBSET Everyone]
    /\ invited \in [Places -> SUBSET Everyone]

DiskType ==
    /\ roomRows \subseteq Names \X Places
    /\ memberRows \subseteq Names \X Members
    /\ managementRows \in Seq(Users \X Places)

MemoryType ==
    /\ rooms \subseteq Names \X Places
    /\ participants \subseteq Names \X Members
    /\ management \in [Users -> Places \cup {None}]

GhostType ==
    /\ born \subseteq Names /\ foreign \subseteq Names
    /\ uninvited \subseteq Names \X People /\ left \subseteq Places
    /\ unrecorded \subseteq Places \X People
    /\ {joins, tasks, events, faults} \subseteq Nat

TypeOK ==
    /\ ServerType /\ DiskType /\ MemoryType /\ GhostType
    /\ queue \in Seq(EventType)
    /\ job \in JobType

Init ==
    /\ members = [n \in Names |-> IF n \in Existing THEN People ELSE {}]
    /\ present = [r \in Places |-> IF r \in Halls THEN Users ELSE {}]
    /\ invited = [r \in Places |-> {}]
    /\ queue = <<>>
    /\ roomRows = {} /\ memberRows = {} /\ managementRows = <<>>
    /\ rooms = {} /\ participants = {} /\ management = [u \in Users |-> None]
    /\ job = NoJob
    /\ born = {} /\ foreign = {} /\ uninvited = {} /\ left = {} /\ unrecorded = {}
    /\ joins = 0 /\ tasks = 0 /\ events = 0 /\ faults = 0

---------------------------------------------------------------------------
\* Users of either side.

TomsgJoin(n, x) ==
    /\ joins < MaxJoins
    /\ members[n] # {} /\ x \notin members[n]
    /\ joins' = joins + 1
    /\ members' = [members EXCEPT ![n] = @ \cup {x}]
    /\ UNCHANGED <<present, invited, queue, disk, memory, job, ghosts, tasks, events, faults>>

MakesEvent == events < MaxEvents /\ events' = events + 1

\* The user invites somebody.  The bot may be invited to a direct chat.
UserInvites(u, r, x, direct) ==
    /\ MakesEvent
    /\ CanInvite(u, x, r) /\ x \notin invited[r]
    /\ direct => x = Bot
    /\ Interested(r) \/ x \notin Users
    /\ invited' = [invited EXCEPT ![r] = @ \cup {x}]
    /\ Deliver(Event("invite", r, u, x, direct))
    /\ UNCHANGED <<members, present, disk, memory, job, ghosts, joins, tasks, faults>>

\* The user accepts an invitation.
UserJoins(u, r) ==
    /\ MakesEvent
    /\ u \in invited[r] /\ Interested(r)
    /\ EnterPlace(u, r)
    /\ Deliver(Event("join", r, u, u, None))
    /\ UNCHANGED <<members, disk, memory, job, ghosts, joins, tasks, faults>>

\* The user puts the bot out of the room.
UserKicks(u, r) ==
    /\ MakesEvent
    /\ {u, Bot} \subseteq present[r]
    /\ present' = [present EXCEPT ![r] = @ \ {Bot}]
    /\ Deliver(Event("leave", r, u, Bot, None))
    /\ left' = left \cup {r}
    /\ UNCHANGED <<members, invited, disk, memory, job, born, foreign, uninvited, unrecorded,
                   joins, tasks, faults>>

\* The user writes something, or the command bridge.
UserWrites(u, r, kind, arg) ==
    /\ MakesEvent
    /\ u \in present[r] /\ Interested(r)
    /\ kind = "text" => arg = None
    /\ Deliver(Event(kind, r, u, None, arg))
    /\ UNCHANGED <<servers, disk, memory, job, ghosts, joins, tasks, faults>>

---------------------------------------------------------------------------
\* get_or_make_plumbed_room, create_plumbed_room.

Reach(n) ==
    \/ \E r \in PlaceOf(n) : job' = [job EXCEPT !.step = "enter", !.n = n, !.r = r,
                                                !.rest = @ \ {n}]
    \/ /\ PlaceOf(n) = {}
       /\ job' = [job EXCEPT !.step = "create", !.n = n, !.r = n, !.rest = @ \ {n}]

\* The homeserver refuses an alias that is taken.
CreateRoom ==
    /\ At("create")
    /\ \/ /\ present[job.n] = {}
          /\ present' = [present EXCEPT ![job.n] = {Bot}]
          /\ Go("add")
       \/ present[job.n] # {} /\ Release /\ UNCHANGED present
    /\ UNCHANGED <<members, invited, queue, disk, memory, ghosts, bounds>>

AddRoom ==
    /\ At("add")
    /\ Manage(job.n, job.r)
    /\ Go("enter")
    /\ UNCHANGED <<servers, queue, memberRows, managementRows, participants,
                   management, ghosts, bounds>>

---------------------------------------------------------------------------
\* Sessions: bind and handle_push.

BeginsTask == tasks < MaxTasks /\ tasks' = tasks + 1

\* The session of user u is set up, for the rooms S it listed.
BeginSetUp(u, S) ==
    /\ Idle /\ BeginsTask
    /\ S # {} /\ \A n \in S : u \in members[n]
    /\ job' = [NoJob EXCEPT !.step = "room", !.kind = "setup", !.u = u, !.rest = S]
    /\ UNCHANGED <<servers, queue, disk, memory, ghosts, joins, events, faults>>

NextRoom ==
    /\ At("room")
    /\ \/ job.rest = {} /\ Release
       \/ \E n \in job.rest : Reach(n)
    /\ UNCHANGED <<servers, queue, disk, memory, ghosts, bounds>>

\* The session of user u reads that x invited u, joined or wrote something.  A
\* message in a room that is known changes nothing here.
BeginPush(kind, u, n, x) ==
    /\ Idle /\ BeginsTask
    /\ {u, x} \subseteq members[n] /\ u # x
    /\ kind = "join" => x \in People
    /\ kind = "message" => PlaceOf(n) = {}
    /\ LET j == [NoJob EXCEPT !.kind = kind, !.n = n, !.u = u, !.x = x]
       IN  \/ \E r \in PlaceOf(n) : job' = [j EXCEPT !.step = "enter", !.r = r]
           \/ PlaceOf(n) = {} /\ job' = [j EXCEPT !.step = "create", !.r = n]
    /\ UNCHANGED <<servers, queue, disk, memory, ghosts, joins, events, faults>>

\* The room is known: what is done with it.  Who invites is looked up here: a
\* puppet does if it is a participant by now, and else the bot.
Enter ==
    /\ At("enter")
    /\ \/ /\ job.kind = "setup"
          /\ Insert({<<job.n, job.u>>})
          /\ job' = [job EXCEPT !.step = "list", !.new = ~In(job.n, job.u)]
       \/ /\ job.kind = "invite"
          /\ job' = [job EXCEPT !.step = "list", !.by = IF In(job.n, job.x) THEN job.x ELSE Bot]
          /\ UNCHANGED <<participants, memberRows>>
       \/ /\ job.kind = "join"
          /\ Insert({<<job.n, job.x>>})
          /\ IF In(job.n, job.x) THEN Release ELSE Go("puppet")
       \/ /\ job.kind = "message"
          /\ Release
          /\ UNCHANGED <<participants, memberRows>>
    /\ UNCHANGED <<servers, queue, roomRows, managementRows, rooms, management, ghosts, bounds>>

\* insert_and_invite: the puppet joins without being invited.
JoinUninvited ==
    /\ At("puppet")
    /\ Release
    /\ \/ CanJoin(job.x, job.r) /\ EnterPlace(job.x, job.r) /\ UNCHANGED uninvited
       \/ /\ ~CanJoin(job.x, job.r)
          /\ uninvited' = uninvited \cup {<<job.n, job.x>>}
          /\ UNCHANGED <<present, invited>>
    /\ UNCHANGED <<members, queue, disk, memory, born, foreign, left, unrecorded, bounds>>

\* invite_tomsg_members.  The answer is an error if the room does not exist,
\* and may be one if the user is not in it.
List ==
    /\ At("list")
    /\ \/ /\ members[job.n] # {}
          /\ job' = [job EXCEPT !.step = "members", !.res = {},
                                !.todo = {p \in members[job.n] \cap People : ~In(job.n, p)}]
       \/ job.u \notin members[job.n] /\ Release
    /\ UNCHANGED <<servers, queue, disk, memory, ghosts, bounds>>

InviteMember(p) ==
    /\ At("members") /\ p \in job.todo
    /\ \/ /\ CanInvite(Bot, p, job.r)
          /\ InvitePlace(Bot, p, job.r)
          /\ job' = [job EXCEPT !.step = "join", !.x = p, !.todo = @ \ {p}]
          /\ UNCHANGED unrecorded
       \/ ~CanInvite(Bot, p, job.r) /\ Release /\ CutOff /\ UNCHANGED <<invited, queue>>
    /\ UNCHANGED <<members, present, disk, memory, born, foreign, uninvited, left, bounds>>

\* The room may have a member besides People that is not managed and whose account
\* exists nevertheless (Accounts): ensure_puppet panics there, wherever in the list.
EnsureFails ==
    /\ At("members")
    /\ Release
    /\ CutOff
    /\ UNCHANGED <<servers, queue, disk, memory, born, foreign, uninvited, left, bounds>>

\* A mutant of JoinMember: the puppet is invited but does not join.
InviteOnly ==
    /\ At("join")
    /\ job' = [job EXCEPT !.step = "members", !.res = @ \cup {job.x}]
    /\ UNCHANGED <<servers, queue, disk, memory, ghosts, bounds>>

JoinMember ==
    /\ At("join")
    /\ EnterPlace(job.x, job.r)
    /\ job' = [job EXCEPT !.step = "members", !.res = @ \cup {job.x}]
    /\ UNCHANGED <<members, queue, disk, memory, ghosts, bounds>>

\* A mutant of RecordMembers: the members that joined are not recorded.
RecordNobody ==
    /\ At("members") /\ job.todo = {}
    /\ Go("welcome")
    /\ UNCHANGED <<servers, queue, disk, memory, ghosts, bounds>>

RecordMembers ==
    /\ At("members") /\ job.todo = {}
    /\ Insert({job.n} \X job.res)
    /\ Go("welcome")
    /\ UNCHANGED <<servers, queue, roomRows, managementRows, rooms, management, ghosts, bounds>>

\* The user is invited to the Matrix room, and the next room is looked at.
Welcome ==
    /\ At("welcome") /\ job.kind \in {"setup", "invite"}
    /\ LET by == IF job.kind = "invite" THEN job.by ELSE Bot
       IN  \/ /\ job.kind = "setup" /\ ~job.new
              /\ Go("room")
              /\ UNCHANGED <<invited, queue>>
           \/ /\ job.kind = "setup" => job.new
              /\ CanInvite(by, job.u, job.r)
              /\ InvitePlace(by, job.u, job.r)
              /\ IF job.kind = "setup" THEN Go("room") ELSE Release
           \/ /\ job.kind = "setup" => job.new
              /\ ~CanInvite(by, job.u, job.r)
              /\ Release
              /\ UNCHANGED <<invited, queue>>
    /\ UNCHANGED <<members, present, disk, memory, ghosts, bounds>>

---------------------------------------------------------------------------
\* Events: handle_state_event, handle_message_event, handle_command.

First(kind) == Idle /\ queue # <<>> /\ Head(queue).kind = kind
e == Head(queue)

\* Whoever is invited is made to join.
HandleInvite ==
    /\ First("invite")
    /\ CanJoin(e.x, e.r)
    /\ EnterPlace(e.x, e.r)
    /\ job' = [NoJob EXCEPT !.step = "invited", !.r = e.r, !.x = e.x]
    /\ IF e.x \in Users /\ e.x \notin present[e.r]
       THEN Deliver(Event("join", e.r, e.x, e.x, None))
       ELSE UNCHANGED queue
    /\ UNCHANGED <<members, disk, memory, ghosts, bounds>>

\* ensure_tomsg_user_in_room, with a connection that somebody lends.
Admit(n, x) ==
    /\ Insert({<<n, x>>})
    /\ \/ In(n, x) /\ Answer
       \/ /\ ~In(n, x)
          /\ \E y \in Lenders(n) :
                job' = [NoJob EXCEPT !.step = "send", !.n = n, !.u = y, !.x = x]
          /\ UNCHANGED queue

\* A mutant of SendInvite: the user is not invited on tomsg.
SendNothing ==
    /\ At("send")
    /\ Answer
    /\ UNCHANGED <<servers, disk, memory, ghosts, bounds>>

SendInvite ==
    /\ At("send")
    /\ members' = [members EXCEPT ![job.n] =
                        IF job.u \in @ THEN @ \cup {job.x} ELSE @]
    /\ Answer
    /\ UNCHANGED <<present, invited, disk, memory, ghosts, bounds>>

\* The bot gets a management room, a puppet becomes a participant.  In a room
\* that is not managed the latter panics.
Invited ==
    /\ At("invited")
    /\ \/ /\ job.x = Bot /\ e.arg = TRUE
          /\ SetManagementRoom(e.by, e.r)
          /\ Answer
          /\ UNCHANGED <<participants, memberRows>>
       \/ /\ job.x \in Users \/ (job.x = Bot /\ e.arg # TRUE)
          /\ Answer
          /\ UNCHANGED <<management, managementRows, participants, memberRows>>
       \/ /\ job.x \in People
          /\ \/ NameOf(e.r) = {} /\ Release /\ UNCHANGED <<queue, participants, memberRows>>
             \/ \E n \in NameOf(e.r) :
                  \/ Lenders(n) = {} /\ Answer /\ UNCHANGED <<participants, memberRows>>
                  \/ Lenders(n) # {} /\ Admit(n, job.x)
          /\ UNCHANGED <<management, managementRows>>
    /\ UNCHANGED <<servers, roomRows, rooms, ghosts, bounds>>

\* That the bot is put out of a room changes nothing.
HandleLeave ==
    /\ First("leave")
    /\ Answer
    /\ UNCHANGED <<servers, disk, memory, ghosts, bounds>>

\* A reply needs a room: this one if it is managed, else the management room.
Replies(u, r) ==
    LET to == IF NameOf(r) # {} THEN r ELSE management[u]
    IN  to # None /\ Bot \in present[to]

\* get_room_user.  Where nobody lends a connection, and where a room is
\* neither managed nor a management room, its caller panics.
HandleJoin ==
    /\ First("join")
    /\ \/ NameOf(e.r) = {} /\ Answer /\ UNCHANGED <<participants, memberRows>>
       \/ \E n \in NameOf(e.r) :
            /\ In(n, e.by) \/ Lenders(n) # {}
            /\ Admit(n, e.by)
    /\ UNCHANGED <<servers, roomRows, managementRows, rooms, management, ghosts, bounds>>

HandleText ==
    /\ First("text")
    /\ \/ /\ e.r \in ManagementRooms
          /\ Replies(e.by, e.r)
          /\ Answer
          /\ UNCHANGED <<participants, memberRows>>
       \/ /\ e.r \notin ManagementRooms
          /\ \E n \in NameOf(e.r) :
                /\ In(n, e.by) \/ Lenders(n) # {}
                /\ Admit(n, e.by)
    /\ UNCHANGED <<servers, roomRows, managementRows, rooms, management, ghosts, bounds>>

\* A mutant of MayBridge: management rooms are not looked for.
MayBridgeManagement(r) == NameOf(r) = {}
MayBridge(r) == r \notin ManagementRooms /\ NameOf(r) = {}

HandleBridge ==
    /\ First("bridge")
    /\ \/ /\ ~MayBridge(e.r) \/ e.arg = Bad
          /\ Replies(e.by, e.r)
          /\ Answer
       \/ /\ MayBridge(e.r) /\ e.arg # Bad
          /\ job' = [NoJob EXCEPT !.step = IF e.arg = None THEN "newroom" ELSE "bridge",
                                  !.kind = "bridge", !.n = e.arg, !.r = e.r, !.u = e.by]
          /\ UNCHANGED queue
    /\ UNCHANGED <<servers, disk, memory, ghosts, bounds>>

NewRoom ==
    /\ At("newroom")
    /\ \E n \in Names :
        /\ members[n] = {} /\ PlaceOf(n) = {}
        /\ members' = [members EXCEPT ![n] = {job.u}]
        /\ born' = born \cup {n}
        /\ job' = [job EXCEPT !.step = "bridge", !.n = n]
    /\ UNCHANGED <<present, invited, queue, disk, memory, foreign, uninvited, left, unrecorded,
                   bounds>>

Known(n) == PlaceOf(n) # {}

\* create_bridged_room panics for a tomsg room that is known.
Bridge ==
    /\ At("bridge")
    /\ \/ /\ Known(job.n)
          /\ Release
          /\ UNCHANGED <<rooms, roomRows, participants, memberRows, foreign>>
       \/ /\ ~Known(job.n)
          /\ Manage(job.n, job.r)
          /\ Insert({<<job.n, job.u>>})
          /\ foreign' = IF job.u \in members[job.n] THEN foreign ELSE foreign \cup {job.n}
          /\ Go("list")
    /\ UNCHANGED <<servers, queue, managementRows, management, born, uninvited, left, unrecorded,
                   bounds>>

Bridged ==
    /\ At("welcome") /\ job.kind = "bridge"
    /\ IF Replies(job.u, job.r) THEN Answer ELSE Release /\ UNCHANGED queue
    /\ UNCHANGED <<servers, disk, memory, ghosts, bounds>>

---------------------------------------------------------------------------

\* A request fails, or its answer is lost.
Panic ==
    /\ ~Idle
    /\ Fault("panic")
    /\ Release
    /\ CutOff
    /\ UNCHANGED <<servers, queue, disk, memory, born, foreign, uninvited, left, joins, tasks,
                   events>>

\* The process ends and is started again: State::from_db.
Crash ==
    /\ Fault("crash")
    /\ Release
    /\ CutOff
    /\ LoadRooms
    /\ management' = LoadedManagement
    /\ UNCHANGED <<servers, queue, disk, born, foreign, uninvited, left, joins, tasks, events>>

Session ==
    \/ \E u \in Users, S \in SUBSET Names : BeginSetUp(u, S)
    \/ \E kind \in {"invite", "join", "message"}, u \in Users, n \in Names, x \in Members :
            BeginPush(kind, u, n, x)

Work ==
    \/ NextRoom \/ CreateRoom \/ AddRoom \/ Enter \/ JoinUninvited \/ List
    \/ \E p \in People : InviteMember(p)
    \/ EnsureFails \/ JoinMember \/ RecordMembers \/ Welcome
    \/ HandleInvite \/ Invited \/ HandleJoin \/ HandleLeave \/ HandleText \/ SendInvite
    \/ HandleBridge \/ NewRoom \/ Bridge \/ Bridged

Environment ==
    \/ \E n \in Names, x \in Members : TomsgJoin(n, x)
    \/ \E u \in Users, r \in Places :
        \/ \E x \in Everyone, direct \in BOOLEAN : UserInvites(u, r, x, direct)
        \/ UserJoins(u, r) \/ UserKicks(u, r)
        \/ \E kind \in {"text", "bridge"}, arg \in Names \cup {None, Bad} :
                UserWrites(u, r, kind, arg)

Next == Session \/ Work \/ Environment \/ Panic \/ Crash

Spec == Init /\ [][Next]_vars

\* A task that can go on is polled, and an event that was not answered is
\* delivered again.
FairSpec == Spec /\ WF_vars(Work)

---------------------------------------------------------------------------

\* The mapping of tomsg rooms to Matrix rooms stays one to one, whatever is
\* plumbed and bridged, in memory and after a restart: add_room and the checks
\* of the command bridge.
OneRoomPerName == \A a, b \in rooms : a[1] = b[1] <=> a[2] = b[2]

\* What the process knows is what a restart would read: the rooms, the
\* participants and, of the rows of a user, the management room that counts.
Recorded ==
    /\ rooms = roomRows /\ participants = memberRows
    /\ management = LoadedManagement

\* As long as nothing fails, a participant of a room is a member of it on
\* tomsg, or is being invited: ensure_tomsg_user_in_room records the user
\* first.  The exception are rooms bridged by somebody who is not in them.
ParticipantsInvited ==
    faults = 0 =>
        \A n \in Names, x \in Members : In(n, x) =>
            x \in members[n] \/ n \in foreign \/ (At("send") /\ job.n = n /\ job.x = x)

\* As long as nothing fails, a puppet that is a participant is in the Matrix
\* room, or is about to join it.  The exception are the puppets that
\* insert_and_invite makes join without an invitation.
PuppetsPresent ==
    faults = 0 =>
        \A n \in Names, x \in Members : In(n, x) =>
            \/ x \in Users \/ <<n, x>> \in uninvited
            \/ At("puppet") /\ job.n = n /\ job.x = x
            \/ \A r \in PlaceOf(n) : x \in present[r]

\* Rooms the bridge made on either side and does not know of: none but those
\* that a fault, one for each, cut off between create_room or CreateRoom and
\* add_room.
Stray == {n \in Names : present[n] # {} /\ <<n, n>> \notin rooms}
         \cup {n \in born : PlaceOf(n) = {}}
NoStray == Cardinality(Stray) <= faults + (IF job.step \in {"add", "bridge"} THEN 1 ELSE 0)

\* A room is a managed one or a management room, and not both, unless the bot
\* was put out of it and invited again: the handler takes it for granted.
Apart == \A r \in ManagementRooms : NameOf(r) = {} \/ r \in left

\* invite_tomsg_members invites no puppet that is in the room, which the homeserver
\* would refuse, but one whose record was cut off: by a fault, or when a member
\* before or behind it in the list made the function panic.  Whatever else fails.
InvitesFit ==
    At("members") => {job.r} \X (job.todo \cap present[job.r]) \subseteq unrecorded

D == INSTANCE Directory

\* Through crashes, panics and requests that fail, State.rooms, the participants
\* and the management rooms are what Directory says: a tie is never changed or
\* shared, nobody is forgotten, and nobody takes part in a room that has no
\* Matrix room.
DirectorySpec == D!Spec

---------------------------------------------------------------------------
\* What makes the invariants above inductive, but for the last three (those of
\* the rooms that are made and of who is invited), which PlacesProofs is about.

\* What the holder of the lock found out before still holds.
HolderInv ==
    /\ At("create") \/ At("add") =>
            job.n \in Names /\ job.r = job.n /\ PlaceOf(job.n) = {}
    /\ At("add") => NameOf(job.r) = {} /\ present[job.r] # {}
    /\ At("newroom") \/ At("bridge") =>
            job.r \in Places /\ NameOf(job.r) = {} /\ present[job.r] # {}
    /\ At("bridge") => job.n \in Names
    /\ job.step \in {"enter", "puppet", "list", "members", "join", "welcome"} =>
            job.n \in Names /\ job.r \in Places /\ <<job.n, job.r>> \in rooms
    /\ job.step \in {"join", "puppet"} => job.x \in People
    /\ At("send") => job.n \in Names /\ job.x \in Members /\ job.u \in Users
    /\ At("invited") =>
            /\ job.r = e.r /\ job.x = e.x
            /\ job.x \in People => job.x \in present[job.r]

\* Which task is at which step.
KindInv ==
    /\ job.step \in {"create", "add", "enter"} =>
            job.kind \in {"setup", "invite", "join", "message"}
    /\ job.step \in {"list", "members", "join", "welcome"} =>
            job.kind \in {"setup", "invite", "bridge"}
    /\ At("room") => job.kind = "setup"
    /\ At("newroom") \/ At("bridge") => job.kind = "bridge"
    /\ job.kind \in {"setup", "invite", "bridge"} => job.u \in Users
    /\ job.kind = "join" => job.x \in People
    /\ At("send") \/ At("invited") \/ job.kind = "bridge" => queue # <<>>

\* A room that is managed or that an event is from exists, so that create_room
\* cannot be given its alias.
Exist ==
    /\ \A a \in rooms : present[a[2]] # {}
    /\ \A i \in DOMAIN queue : present[queue[i].r] # {}

\* Of the rows of a user one is the last.
HasLast == \A u \in Users : RowsOf(u) = {} \/ \E i \in RowsOf(u) : \A j \in RowsOf(u) : j <= i

\* Who is about to become a participant is a member on tomsg.
MemberInv ==
    faults = 0 =>
        /\ job.kind = "setup" => \A n \in job.rest : job.u \in members[n]
        /\ job.step \in {"create", "add", "enter"} =>
            /\ job.kind = "setup" => job.u \in members[job.n]
            /\ job.kind = "join" => job.x \in members[job.n]
        /\ At("members") \/ At("join") => job.todo \cup job.res \subseteq members[job.n]
        /\ At("join") => job.x \in members[job.n]
        /\ At("send") => In(job.n, job.u) /\ job.u # job.x

\* A room has a Matrix room before it has participants, and puppets are there
\* before they are recorded.
PlacedInv ==
    /\ \A p \in participants : PlaceOf(p[1]) # {}
    /\ At("members") \/ At("join") => job.res \subseteq present[job.r]

Inv ==
    /\ HolderInv /\ KindInv /\ Exist /\ HasLast /\ OneRoomPerName /\ Recorded
    /\ MemberInv /\ ParticipantsInvited /\ PlacedInv /\ PuppetsPresent

---------------------------------------------------------------------------

\* The handler gets done with every event it is sent.
EventsAnswered == []<>(queue = <<>>)

=============================================================================
