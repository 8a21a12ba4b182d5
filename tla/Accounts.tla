------------------------------ MODULE Accounts ------------------------------
(***************************************************************************)
(* Whom the bridge manages.  A Matrix user gets a tomsg account of their   *)
(* own, which the bridge registers or which they log in with; a tomsg user *)
(* gets a puppet, a Matrix account of the bridge, as soon as the bridge    *)
(* sees them in a room.  State.users, Room.participants and the shed are   *)
(* kept in memory, the tables real_users, puppet_users and                 *)
(* room_participants on disk, and the accounts and the members of the room *)
(* by the two servers.  There is one room, plumbed already.                *)
(*                                                                         *)
(* The State has one lock.  Its holder is at one of the steps below: every *)
(* step ends where the code awaits a server, so that a failed request or a *)
(* crash can come between any two.                                         *)
(***************************************************************************)
EXTENDS Integers, Sequences, FiniteSets

CONSTANTS
    Users,      \* Matrix users, puppets excluded
    Names,      \* tomsg accounts of people, who know their password
    Bridge,     \* tag of the Matrix ids in the namespace of the bridge
    None,       \* no user, no name, no event
    MaxAuto,    \* bound: accounts registered for one Matrix user
    MaxLogins,  \* bound: login commands
    MaxFaults,  \* bound: faults
    FaultKinds  \* the faults that may happen

ASSUME AccountsAssumption ==
    /\ None \notin Users \cup Names
    /\ {MaxAuto, MaxLogins, MaxFaults} \subseteq Nat
    /\ FaultKinds \subseteq {"panic", "crash"}

\* The i-th name that ensure_real_user tries for Matrix id m, and a mutant that
\* counts from 0.
AutoFromZero(m, i) == <<m, i - 1>>
AutoName(m, i) == <<m, i>>

Puppet(n) == <<Bridge, n>>     \* the Matrix id of the puppet of tomsg user n
Puppetable == Names \cup (Users \X (1..MaxAuto))
MatrixIds == Users \cup {Puppet(n) : n \in Puppetable}
TomsgNames == Names \cup (MatrixIds \X (1..MaxAuto))

\* Namespaces do not overlap: Matrix ids of people and of the bridge, names of
\* people and names the bridge registers, Matrix ids and names.
ASSUME IdAssumption ==
    /\ Users \cap {Puppet(n) : n \in Puppetable} = {}
    /\ Names \cap (MatrixIds \X (1..MaxAuto)) = {}
    /\ MatrixIds \cap TomsgNames = {}
    /\ None \notin MatrixIds \cup TomsgNames

VARIABLES
    \* The tomsg server and the homeserver.
    accounts,      \* registered tomsg names
    roster,        \* members of the tomsg room
    puppeted,      \* tomsg users whose puppet's Matrix account exists
    joined,        \* puppets in the Matrix room
    unseen,        \* puppets with an event the bridge has not been given yet
    txn,           \* the event in the transaction being delivered
    \* The disk.
    real,          \* table real_users, in the order of the inserts
    puppets,       \* table puppet_users
    rows,          \* table room_participants
    \* The bridge process.
    up,
    users,         \* State.users
    participants,  \* Room.participants
    bound,         \* ConnectionShed.map: who is connected as whom
    \* The holder of the lock.
    step,          \* where it is, "idle" if nobody holds the lock
    mx, name,      \* the user it is about
    push,          \* it handles a Join push
    todo, res,     \* invite_tomsg_members: names to look at, puppets joined
    \* Bounds, and a ghost.
    logins, faults,
    astray         \* participants invited by somebody the tomsg room did not have

servers == <<accounts, roster, puppeted, joined, unseen>>
disk    == <<real, puppets, rows>>
memory  == <<users, participants, bound>>
local   == <<step, mx, name, push, todo, res>>
bounds  == <<logins, faults, astray>>
vars == <<servers, txn, disk, up, memory, local, bounds>>

---------------------------------------------------------------------------
\* Managed users.

User(m, n, k) == [mx |-> m, name |-> n, kind |-> k]
PuppetUser(n) == User(Puppet(n), n, "puppet")
IsPuppet(x) == x.kind = "puppet"
Pair(x) == <<x.mx, x.name>>

\* The MappingDict of users may hold several with one key.  Which of them it
\* finds is left open.  (A mutant: puppets are not found.)
RealByMx(m) == {x \in users : x.mx = m /\ ~IsPuppet(x)}
ByMx(m) == {x \in users : x.mx = m}
ByName(n) == {x \in users : x.name = n}

InRoom(x) == Pair(x) \in participants

\* A user who can invite others: managed, with a connection, and in the room.
Lender(x) == ~IsPuppet(x) /\ InRoom(x)

InsertUser(P) == participants' = participants \cup P /\ rows' = rows \cup P

\* remove_room_member looks for the Matrix id in the column name.
RowsWithout(x) == {p \in rows : p[2] # x.mx}

\* The row get_users takes for a name: the last with credentials given by a
\* user, else the first.
Winner(n) ==
    LET R == {i \in DOMAIN real : real[i].name = n}
        G == {i \in R : real[i].kind = "given"}
    IN  IF G # {} THEN CHOOSE i \in G : \A j \in G : j <= i
                  ELSE CHOOSE i \in R : \A j \in R : i <= j

Loaded ==
    LET N == {real[i].name : i \in DOMAIN real}
    IN  {real[Winner(n)] : n \in N} \cup {PuppetUser(n) : n \in puppets \ N}

\* A mutant of Bind: a connection that exists is kept.
KeepBound(m, n) ==
    bound' = IF \E b \in bound : b[1] = m THEN bound ELSE bound \cup {<<m, n>>}

\* ConnectionShed::bind: the connection replaces an earlier one.
Bind(m, n) == bound' = {b \in bound : b[1] # m} \cup {<<m, n>>}

EnsureConnection(m, n) ==
    IF \E b \in bound : b[1] = m THEN UNCHANGED bound ELSE Bind(m, n)

Go(st, m, n) == step' = st /\ mx' = m /\ name' = n

\* The lock is released.
Release == Go("idle", None, None) /\ push' = FALSE /\ todo' = {} /\ res' = {}

\* shed.bind is done, and the user is going to be told.
ToReply == Go("reply", None, None) /\ UNCHANGED <<push, todo, res, txn>>

\* The handler is done with the event, and the transaction is answered.
Finish == Release /\ txn' = None

Fault(kind) == kind \in FaultKinds /\ faults < MaxFaults /\ faults' = faults + 1

Steps == {"idle", "takeover", "leave", "replace", "register", "insert",
          "reply", "invite", "send", "list", "create", "made", "join"}

UserType == [mx : MatrixIds, name : TomsgNames, kind : {"given", "auto"}]
PuppetType == {PuppetUser(n) : n \in Puppetable}
EventType == [kind : {"login"}, mx : Users, name : Names \cup {None}]
             \cup [kind : {"room"}, mx : MatrixIds, name : {None}]

TypeOK ==
    /\ accounts \subseteq TomsgNames /\ roster \subseteq TomsgNames
    /\ puppeted \subseteq Puppetable
    /\ joined \subseteq MatrixIds /\ unseen \subseteq MatrixIds
    /\ txn \in EventType \cup {None}
    /\ real \in Seq(UserType)
    /\ puppets \subseteq Puppetable
    /\ rows \subseteq MatrixIds \X TomsgNames
    /\ up \in BOOLEAN /\ users \subseteq UserType \cup PuppetType
    /\ participants \subseteq MatrixIds \X TomsgNames
    /\ bound \subseteq MatrixIds \X TomsgNames
    /\ step \in Steps /\ mx \in MatrixIds \cup {None}
    /\ name \in TomsgNames \cup {None} /\ push \in BOOLEAN
    /\ todo \subseteq TomsgNames /\ res \subseteq Puppetable
    /\ logins \in Nat /\ faults \in Nat
    /\ astray \subseteq MatrixIds \X TomsgNames

Init ==
    /\ accounts = Names /\ roster = {}
    /\ puppeted = {} /\ joined = {} /\ unseen = {} /\ txn = None
    /\ real = <<>> /\ puppets = {} /\ rows = {}
    /\ up = TRUE /\ users = {} /\ participants = {} /\ bound = {}
    /\ step = "idle" /\ mx = None /\ name = None /\ push = FALSE
    /\ todo = {} /\ res = {}
    /\ logins = 0 /\ faults = 0 /\ astray = {}

---------------------------------------------------------------------------
\* The servers.

\* A person on tomsg joins the room.
TomsgJoin(n) ==
    /\ n \notin roster
    /\ roster' = roster \cup {n}
    /\ UNCHANGED <<accounts, puppeted, joined, unseen, txn, disk, up, memory, local, bounds>>

\* A user sends the command login, with credentials or (None) without.
SendLogin(u, n) ==
    /\ txn = None
    /\ logins < MaxLogins
    /\ logins' = logins + 1
    /\ txn' = [kind |-> "login", mx |-> u, name |-> n]
    /\ UNCHANGED <<servers, disk, up, memory, local, faults, astray>>

\* Somebody writes in the Matrix room or joins it.
SendEvent(m) ==
    /\ txn = None
    /\ m \in Users \cup unseen
    /\ txn' = [kind |-> "room", mx |-> m, name |-> None]
    /\ unseen' = unseen \ {m}
    /\ UNCHANGED <<accounts, roster, puppeted, joined, disk, up, memory, local, bounds>>

\* The bridge copies a message of tomsg user n as their puppet.
CopyAsPuppet(n) ==
    /\ up /\ step = "idle"
    /\ PuppetUser(n) \in users /\ InRoom(PuppetUser(n)) /\ Puppet(n) \in joined
    /\ unseen' = unseen \cup {Puppet(n)}
    /\ UNCHANGED <<accounts, roster, puppeted, joined, txn, disk, up, memory, local, bounds>>

---------------------------------------------------------------------------
\* The command login: handle_command, take_over.

BeginLogin ==
    /\ up /\ step = "idle"
    /\ txn # None /\ txn.kind = "login"
    /\ LET m == txn.mx
           n == txn.name
           same(x) == ~IsPuppet(x) /\ (n # None => x.name = n /\ x.kind = "given")
       IN \/ \E x \in ByMx(m) : same(x) /\ Bind(m, x.name) /\ ToReply
          \/ /\ n # None
             /\ ByMx(m) = {} \/ \E x \in ByMx(m) : ~same(x)
             /\ Go("takeover", m, n)
             /\ UNCHANGED <<bound, push, todo, res, txn>>
          \/ /\ n = None
             /\ ByMx(m) = {}
             /\ Go("register", m, None)
             /\ UNCHANGED <<bound, push, todo, res, txn>>
    /\ UNCHANGED <<servers, disk, up, users, participants, bounds>>

\* A mutant of TakeOver: the puppet is not looked for.
NoTakeOver ==
    /\ step = "takeover"
    /\ step' = "replace"
    /\ UNCHANGED <<servers, txn, disk, up, memory, mx, name, push, todo, res, bounds>>

\* A mutant of TakeOver: the puppet stays a participant.
TakeOverName ==
    /\ step = "takeover"
    /\ users' = users \ {x \in ByName(name) : IsPuppet(x)}
    /\ puppets' = puppets \ {name}
    /\ step' = "replace"
    /\ UNCHANGED <<servers, txn, real, rows, up, participants, bound,
                   mx, name, push, todo, res, bounds>>

\* A mutant of TakeOver: the row of the puppet stays.
TakeOverInMemory ==
    /\ step = "takeover"
    /\ users' = users \ {x \in ByName(name) : IsPuppet(x)}
    /\ participants' = participants \ {<<Puppet(name), name>>}
    /\ step' = "replace"
    /\ UNCHANGED <<servers, txn, disk, up, bound, mx, name, push, todo, res, bounds>>

\* take_over, up to the request that makes the puppet leave the room.
TakeOver ==
    /\ step = "takeover"
    /\ \/ \E x \in ByName(name) :
            /\ IsPuppet(x)
            /\ users' = users \ {x}
            /\ puppets' = puppets \ {name}
            /\ participants' = participants \ {Pair(x)}
            /\ rows' = IF InRoom(x) THEN RowsWithout(x) ELSE rows
            /\ step' = IF InRoom(x) THEN "leave" ELSE "replace"
       \/ /\ ByName(name) = {} \/ \E x \in ByName(name) : ~IsPuppet(x)
          /\ step' = "replace"
          /\ UNCHANGED <<users, puppets, participants, rows>>
    /\ UNCHANGED <<servers, txn, real, up, bound, mx, name, push, todo, res, bounds>>

\* leave_room, as the puppet.
Leave ==
    /\ step = "leave"
    /\ joined' = joined \ {Puppet(name)}
    /\ step' = "replace"
    /\ UNCHANGED <<accounts, roster, puppeted, unseen, txn, disk, up, memory,
                   mx, name, push, todo, res, bounds>>

\* A mutant of Replace: the user of before is not removed.
ReplaceNobody ==
    /\ step = "replace"
    /\ real' = Append(real, User(mx, name, "given"))
    /\ users' = users \cup {User(mx, name, "given")}
    /\ Bind(mx, name)
    /\ ToReply
    /\ UNCHANGED <<servers, puppets, rows, up, participants, bounds>>

\* state.users.remove, ensure_real_user with credentials, and shed.bind.  The
\* row of the user that is removed stays in real_users.  Of several users with
\* one id, another may be found when one is removed.
Replace ==
    /\ step = "replace"
    /\ \E rest \in IF ByMx(mx) = {} THEN {users} ELSE {users \ {x} : x \in ByMx(mx)} :
        LET old == {y \in rest : y.mx = mx}
            new == User(mx, name, "given")
        IN  \/ \E y \in old :
                /\ users' = rest
                /\ Bind(mx, y.name)
                /\ UNCHANGED real
            \/ /\ old = {} \/ Cardinality(ByMx(mx)) > 1
               /\ real' = Append(real, new)
               /\ users' = rest \cup {new}
               /\ Bind(mx, name)
    /\ ToReply
    /\ UNCHANGED <<servers, puppets, rows, up, participants, bounds>>

\* "you're now logged in on tomsg".
Reply ==
    /\ step = "reply"
    /\ Finish
    /\ UNCHANGED <<servers, disk, up, memory, bounds>>

---------------------------------------------------------------------------
\* A Matrix user becomes a managed one: get_room_user, ensure_real_user.

\* Puppets are ignored; others get an account and a place in the tomsg room.
BeginEvent ==
    /\ up /\ step = "idle"
    /\ txn # None /\ txn.kind = "room"
    /\ LET m == txn.mx
       IN \/ /\ \E x \in ByMx(m) : IsPuppet(x)
             /\ Finish
             /\ UNCHANGED bound
          \/ \E x \in ByMx(m) :
                /\ ~IsPuppet(x)
                /\ EnsureConnection(m, x.name)
                /\ \/ InRoom(x) /\ Finish
                   \/ /\ ~InRoom(x)
                      /\ Go("invite", m, x.name)
                      /\ UNCHANGED <<push, todo, res, txn>>
          \/ /\ ByMx(m) = {}
             /\ Go("register", m, None)
             /\ UNCHANGED <<bound, push, todo, res, txn>>
    /\ UNCHANGED <<servers, disk, up, users, participants, bounds>>

\* The loop over names ends at the first that is not taken.
Register ==
    /\ step = "register"
    /\ \E i \in 1..MaxAuto :
        /\ AutoName(mx, i) \notin accounts
        /\ \A j \in 1 .. i - 1 : AutoName(mx, j) \in accounts
        /\ accounts' = accounts \cup {AutoName(mx, i)}
        /\ Go("insert", mx, AutoName(mx, i))
    /\ UNCHANGED <<roster, puppeted, joined, unseen, txn, disk, up, memory,
                   push, todo, res, bounds>>

\* Mutants of Record: the user is not put into the database; into memory.
RecordInMemory(x) == users' = users \cup {x} /\ UNCHANGED real
RecordOnDisk(x) == real' = Append(real, x) /\ UNCHANGED users

Record(x) == real' = Append(real, x) /\ users' = users \cup {x}

\* The registered account is recorded and connected.
Insert ==
    /\ step = "insert"
    /\ Record(User(mx, name, "auto"))
    /\ \/ txn.kind = "login" /\ Bind(mx, name) /\ ToReply
       \/ /\ txn.kind = "room"
          /\ EnsureConnection(mx, name)
          /\ step' = "invite"
          /\ UNCHANGED <<mx, name, push, todo, res, txn>>
    /\ UNCHANGED <<servers, puppets, rows, up, participants, bounds>>

\* invite_user: a managed user in the room lends their connection.
Invite ==
    /\ step = "invite"
    /\ \E y \in users : Lender(y) /\ EnsureConnection(y.mx, y.name)
    /\ InsertUser({<<mx, name>>})
    /\ step' = "send"
    /\ UNCHANGED <<servers, txn, real, puppets, up, users, mx, name, push, todo, res, bounds>>

\* None is found, as participants are looked up by their tomsg names, which may
\* find others: get_room_user returns None, and its caller panics.
NoInviter ==
    /\ step = "invite"
    /\ \A y \in users : Lender(y) => \E z \in ByName(y.name) : ~Lender(z)
    /\ Release
    /\ UNCHANGED <<servers, txn, disk, up, memory, bounds>>

\* A mutant of SendInvite: the invite goes missing.
SkipInvite == step = "send" /\ Finish /\ UNCHANGED <<servers, disk, up, memory, bounds>>

\* Of those who could have been asked one sends the invite, which the tomsg
\* server refuses to who is not in the room.  The refusal is not looked at.
SendInvite ==
    /\ step = "send"
    /\ \E y \in users :
        /\ Lender(y) /\ Pair(y) # <<mx, name>>
        /\ \/ /\ y.name \in roster
              /\ roster' = roster \cup {name}
              /\ UNCHANGED astray
           \/ /\ y.name \notin roster
              /\ astray' = astray \cup {<<mx, name>>}
              /\ UNCHANGED roster
    /\ Finish
    /\ UNCHANGED <<accounts, puppeted, joined, unseen, disk, up, memory, logins, faults>>

---------------------------------------------------------------------------
\* A tomsg user gets a puppet: bind, handle_push, invite_tomsg_members.

\* Connection b is set up, or its user is invited to the room.
BeginMembers(b) ==
    /\ up /\ step = "idle"
    /\ b[2] \in roster
    /\ InsertUser({b}) \/ UNCHANGED <<participants, rows>>
    /\ todo' = roster
    /\ Go("list", b[1], b[2])
    /\ UNCHANGED <<servers, txn, real, puppets, up, users, bound, push, res, bounds>>

\* A connection is told that n joined.
BeginJoinPush(n) ==
    /\ up /\ step = "idle"
    /\ bound # {}
    /\ n \in roster
    /\ \/ /\ \E x \in ByName(n) : IsPuppet(x) /\ ~InRoom(x)
          /\ InsertUser({<<Puppet(n), n>>})
          /\ Go("join", None, n)
       \/ /\ ByName(n) = {}
          /\ Go("create", None, n)
          /\ UNCHANGED <<participants, rows>>
    /\ push' = TRUE
    /\ UNCHANGED <<servers, txn, real, puppets, up, users, bound, todo, res, bounds>>

ListMember(n) ==
    /\ step = "list"
    /\ n \in todo
    /\ todo' = todo \ {n}
    /\ \/ /\ \E x \in ByName(n) : ~IsPuppet(x) \/ InRoom(x)
          /\ UNCHANGED <<step, name>>
       \/ /\ \E x \in ByName(n) : IsPuppet(x) /\ ~InRoom(x)
          /\ step' = "join" /\ name' = n
       \/ /\ ByName(n) = {}
          /\ step' = "create" /\ name' = n
    /\ UNCHANGED <<servers, txn, disk, up, memory, mx, push, res, bounds>>

\* create_puppet registers a Matrix account.
Create ==
    /\ step = "create"
    /\ name \notin puppeted
    /\ puppeted' = puppeted \cup {name}
    /\ step' = "made"
    /\ UNCHANGED <<accounts, roster, joined, unseen, txn, disk, up, memory,
                   mx, name, push, todo, res, bounds>>

\* The homeserver has the account already; `unwrap` panics.
CreateTaken ==
    /\ step = "create"
    /\ name \in puppeted
    /\ Release
    /\ UNCHANGED <<servers, txn, disk, up, memory, bounds>>

\* A mutant of Made: the puppet is not put into the database.
MadeInMemory ==
    /\ step = "made"
    /\ users' = users \cup {PuppetUser(name)}
    /\ InsertUser(IF push THEN {<<Puppet(name), name>>} ELSE {})
    /\ step' = "join"
    /\ UNCHANGED <<servers, txn, real, puppets, up, bound, mx, name, push, todo, res, bounds>>

\* ensure_puppet records the puppet, handle_push the participant.
Made ==
    /\ step = "made"
    /\ puppets' = puppets \cup {name}
    /\ users' = users \cup {PuppetUser(name)}
    /\ InsertUser(IF push THEN {<<Puppet(name), name>>} ELSE {})
    /\ step' = "join"
    /\ UNCHANGED <<servers, txn, real, up, bound, mx, name, push, todo, res, bounds>>

\* puppet_join_room.  Whoever sets up invites the puppet first.  A Join push
\* does not; the puppet gets in if it is in the room or was invited by others.
Join ==
    /\ step = "join"
    /\ push \/ Puppet(name) \notin joined
    /\ joined' = joined \cup {Puppet(name)}
    /\ unseen' = unseen \cup {Puppet(name)}
    /\ \/ push /\ Release
       \/ /\ ~push
          /\ res' = res \cup {name}
          /\ step' = "list" /\ name' = None
          /\ UNCHANGED <<mx, push, todo>>
    /\ UNCHANGED <<accounts, roster, puppeted, txn, disk, up, memory, bounds>>

\* The homeserver refuses to invite who is in the room, and to let in who is
\* neither in it nor invited; `unwrap` panics.
JoinRefused ==
    /\ step = "join"
    /\ push <=> Puppet(name) \notin joined
    /\ Release
    /\ UNCHANGED <<servers, txn, disk, up, memory, bounds>>

\* Puppets that joined become participants when all have.
EndList ==
    /\ step = "list"
    /\ todo = {}
    /\ InsertUser({<<Puppet(n), n>> : n \in res})
    /\ Release
    /\ UNCHANGED <<servers, txn, real, puppets, up, users, bound, bounds>>

---------------------------------------------------------------------------
\* Failures.

\* A request fails, or its answer is lost: the task panics and the lock is
\* released.  A transaction is delivered again.
Panic ==
    /\ step \in {"leave", "reply", "register", "insert", "send", "list", "create", "made", "join"}
    /\ Fault("panic")
    /\ Release
    /\ UNCHANGED <<servers, txn, disk, up, memory, logins, astray>>

Crash ==
    /\ up
    /\ Fault("crash")
    /\ up' = FALSE
    /\ users' = {} /\ participants' = {} /\ bound' = {}
    /\ Release
    /\ UNCHANGED <<servers, txn, disk, logins, astray>>

\* State::from_db, and main binds every real user, in any order.
Restart ==
    /\ ~up
    /\ up' = TRUE
    /\ users' = Loaded
    /\ participants' = rows
    /\ LET R == {x \in Loaded : ~IsPuppet(x)}
       IN  \E f \in [{x.mx : x \in R} -> R] :
            /\ \A m \in DOMAIN f : f[m].mx = m
            /\ bound' = {Pair(f[m]) : m \in DOMAIN f}
    /\ UNCHANGED <<servers, txn, disk, local, bounds>>

---------------------------------------------------------------------------

Environment ==
    \/ \E n \in Names : TomsgJoin(n)
    \/ \E u \in Users, n \in Names \cup {None} : SendLogin(u, n)
    \/ \E m \in MatrixIds : SendEvent(m)
    \/ \E n \in Puppetable : CopyAsPuppet(n)

HandlerStep ==
    \/ BeginLogin \/ TakeOver \/ Leave \/ Replace \/ Reply
    \/ BeginEvent \/ Register \/ Insert \/ Invite \/ NoInviter \/ SendInvite

Connection ==
    \/ \E b \in bound : BeginMembers(b)
    \/ \E n \in roster : BeginJoinPush(n)
    \/ \E n \in todo : ListMember(n)
    \/ Create \/ CreateTaken \/ Made \/ Join \/ JoinRefused \/ EndList

Next == Environment \/ HandlerStep \/ Connection \/ Panic \/ Crash \/ Restart

Spec == Init /\ [][Next]_vars

---------------------------------------------------------------------------
\* Properties.

Stored == {real[i] : i \in DOMAIN real}

\* No tomsg user has a puppet and is a Matrix user at the same time: login
\* takes the puppet over before it makes a real user, ensure_puppet makes no
\* puppet of a real user (take_over, State::ensure_puppet).
PuppetOrReal ==
    \A x, y \in users : x.name = y.name => (IsPuppet(x) <=> IsPuppet(y))

\* A connection belongs to a managed real user, which bind() asserts, and
\* there is one for each Matrix user (ConnectionShed::bind).
BoundToUser ==
    /\ \A b \in bound : \E x \in users : ~IsPuppet(x) /\ Pair(x) = b
    /\ \A b, c \in bound : b[1] = c[1] => b = c

\* What the bridge knows is on disk, where a restart finds the participants and
\* looks for the users (insert_user, insert_room_member).
Recorded ==
    /\ \A x \in users : IF IsPuppet(x) THEN x.name \in puppets ELSE x \in Stored
    /\ participants \subseteq rows

\* What a restart would change.  It loses a user or a puppet only to another
\* who has the same tomsg name, and it brings back a user only of a Matrix id
\* that has logged in as somebody else since.  It brings back no puppet that was
\* taken over (get_users, remove_user).
RestartKeeps ==
    up =>
        /\ \A x \in users \ Loaded : \E r \in Loaded : r.name = x.name /\ r.mx # x.mx
        /\ \A x \in Loaded \ users : ~IsPuppet(x) /\ \E y \in users : y.mx = x.mx

\* The Matrix id of a puppet never becomes that of a real user, whose messages
\* would be sent back to tomsg, while the puppet is managed: not when its events
\* arrive late, and not after a restart (handle_message_event, get_users).
PuppetsStayPuppets ==
    \A x \in users : IsPuppet(x) => \A r \in Stored : r.mx # x.mx

\* A Matrix user is registered once, and again for every fault at most
\* (State::ensure_real_user).
RegisteredOnce ==
    \A m \in MatrixIds :
        Cardinality({i \in 1..MaxAuto : AutoName(m, i) \in accounts}) <= 1 + faults

\* A participant on record whom the tomsg room does not have, and who is not
\* being invited, lost the invite to a fault of their own, or had it sent by one
\* who is not in the room either (ensure_tomsg_user_in_room).
Inviting == IF step = "send" THEN {<<mx, name>>} ELSE {}
Uninvited == {p \in rows \ astray : p[2] \notin roster} \ Inviting
InvitesLost == Cardinality(Uninvited) <= faults

\* As long as nothing fails, there is at most one user with a given Matrix id:
\* login removes the one of before (handle_command).  After a crash there may
\* be two, as the row of the other is still in real_users.
OneUserPerMatrixId == faults = 0 => \A x, y \in users : x.mx = y.mx => x = y

\* As long as nothing fails, a puppet that was taken over is in no room:
\* take_over.  A crash brings it back, as remove_room_member deletes no row.
KickedOut ==
    faults = 0 =>
        \A n \in Puppetable : <<Puppet(n), n>> \in participants => PuppetUser(n) \in users

\* As long as nothing fails, a Matrix account of the bridge is that of a puppet,
\* or somebody has logged in as its tomsg user, but for the one being made or
\* taken over.  So these are the only users for whom no puppet can be made
\* (ensure_puppet, take_over).
NoneStranded ==
    faults = 0 =>
        \A n \in puppeted \ puppets :
            \/ \E r \in Stored : r.name = n
            \/ step \in {"made", "leave", "replace"} /\ name = n

\* A puppet can be made when one is needed: "Returns the puppet for the given
\* tomsg name, creating one if necessary" (State::ensure_puppet).
PuppetCanBeMade == step = "create" => name \notin puppeted

=============================================================================
