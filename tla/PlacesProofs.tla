---------------------------- MODULE PlacesProofs ----------------------------
(***************************************************************************)
(* Proofs about the Matrix rooms in Rooms: the bridge makes none that it   *)
(* forgets, none becomes a management room beside, and nobody is invited   *)
(* who is there.  Each depends on the bot: it stays in a room unless it is *)
(* put out, and what it may do there is decided by the order of events.    *)
(***************************************************************************)
EXTENDS RoomsProofs, FiniteSetTheorems

\* Matrix rooms made and not added, and tomsg rooms made and not bridged, but
\* for the one that is at hand.
Unadded == {n \in Names : present[n] # {} /\ <<n, n>> \notin rooms}
              \ (IF At("add") THEN {job.n} ELSE {})
Unbridged == {n \in born : PlaceOf(n) = {}} \ (IF At("bridge") THEN {job.n} ELSE {})

StrayInv ==
    /\ IsFiniteSet(Unadded) /\ IsFiniteSet(Unbridged)
    /\ Cardinality(Unadded) + Cardinality(Unbridged) <= faults

\* The event at hand is of the kind that the holder of the lock handles.
EventInv ==
    /\ job.kind = "bridge" => e.kind = "bridge"
    /\ At("newroom") \/ At("bridge") => job.r = e.r
    /\ At("invited") => e.kind = "invite" /\ (job.x \in present[job.r] \/ job.r \in left)
    /\ At("send") => <<job.n, e.r>> \in rooms /\ job.u \in Users /\ In(job.n, job.u)

\* A room that was made and is not yet added has nobody in it but the bot.
FreshInv ==
    /\ \A r \in Places : present[r] = {} => invited[r] = {}
    /\ At("add") =>
        /\ present[job.r] \subseteq {Bot} /\ invited[job.r] = {}
        /\ \A i \in DOMAIN queue : queue[i].r # job.r

Invites(i, r, x) == queue[i].kind = "invite" /\ queue[i].r = r /\ queue[i].x = x

\* Where the bot was not put out of a room, it is invited there once at most; an
\* invitation that it follows is the first event.
BotInv ==
    \A r \in Places \ left :
        /\ Bot \in invited[r] => Bot \notin present[r]
        /\ \A i, j \in DOMAIN queue : Invites(i, r, Bot) /\ Invites(j, r, Bot) => i = j
        /\ \A i \in DOMAIN queue : Invites(i, r, Bot) =>
                Bot \in invited[r] \/ (Bot \in present[r] /\ i = 1)

\* The bot is in every room that is managed or a management room, and is not
\* about to turn the one into the other.
ApartInv ==
    /\ \A r \in Places \ left :
        /\ NameOf(r) # {} => /\ Bot \in present[r] /\ r \notin ManagementRooms
                             /\ \A i \in DOMAIN queue :
                                    Invites(i, r, Bot) => queue[i].arg # TRUE
        /\ r \in ManagementRooms => Bot \in present[r]
        /\ \A i \in DOMAIN queue : queue[i].kind = "bridge" /\ queue[i].r = r => Interested(r)
    /\ At("newroom") \/ At("bridge") \/ At("add") =>
        job.r \in left \/ (Bot \in present[job.r] /\ job.r \notin ManagementRooms)

\* The event of a puppet that was invited to a room nobody manages is the first,
\* and the handler does not get past it.
StuckInv ==
    \A r \in Places : NameOf(r) = {} /\ present[r] \cap People # {} =>
        queue # <<>> /\ e.kind = "invite" /\ e.x \in People /\ e.r = r

\* The puppet is being invited, joins, or has joined and will be recorded.
Joining(r, p) ==
    /\ job.r = r /\ job.step \in {"members", "join"}
    /\ p \in job.res \/ (At("join") /\ job.x = p)

Settled(n, r, p) ==
    In(n, p) \/ Joining(r, p) \/ (At("invited") /\ job.r = r /\ job.x = p)

JoinEvent(i, r) == queue[i].kind = "join" /\ queue[i].r = r

\* Somebody lends a connection to have the puppet of event i admitted, or will
\* before the event is handled, or else it is never handled.
Arranged(n, r, p, i) ==
    \/ In(n, p) \/ Joining(r, p) \/ Lenders(n) # {}
    \/ \E k \in DOMAIN queue : k < i /\ JoinEvent(k, r)

\* A puppet in a room is recorded, or will be when the lock is released, or its
\* record was cut off.
FitInv ==
    /\ At("puppet") => In(job.n, job.x)
    /\ \A n \in Names, r \in Places : <<n, r>> \in rooms =>
        /\ \A p \in People : p \in present[r] => Settled(n, r, p) \/ <<r, p>> \in unrecorded
        /\ Users \cap present[r] # {} =>
                Lenders(n) # {} \/ \E i \in DOMAIN queue : JoinEvent(i, r)
        /\ \A i \in DOMAIN queue, p \in People :
                Invites(i, r, p) => Arranged(n, r, p, i) \/ <<r, p>> \in unrecorded
    /\ job.step \in {"members", "join"} =>
        /\ {job.r} \X (job.todo \cap present[job.r]) \subseteq unrecorded
        /\ At("join") => job.x \notin job.todo

PlacesInv == StrayInv /\ EventInv /\ FreshInv /\ BotInv /\ ApartInv /\ StuckInv /\ FitInv

---------------------------------------------------------------------------
\* The queue.

LEMMA HeadAt ==
    ASSUME TypeOK, queue # <<>>
    PROVE  1 \in DOMAIN queue /\ e = queue[1] /\ e \in EventType /\ e.r \in Places
<1>1. Len(queue) \in Nat /\ Len(queue) # 0 /\ DOMAIN queue = 1..Len(queue) /\ e = queue[1]
  BY DEF TypeOK, e
<1>2. e \in EventType
  BY TailTyped DEF TypeOK, e
<1>3. e.r \in Places
  BY <1>2, EventTyped
<1> QED
  BY <1>1, <1>2, <1>3

LEMMA AppendAt ==
    ASSUME TypeOK, NEW v, Deliver(v)
    PROVE  /\ Len(queue) + 1 \notin DOMAIN queue /\ Len(queue) \in Nat
           /\ DOMAIN queue = 1..Len(queue)
           /\ DOMAIN queue' = DOMAIN queue \cup {Len(queue) + 1}
           /\ \A i \in DOMAIN queue : queue'[i] = queue[i]
           /\ queue'[Len(queue) + 1] = v
           /\ queue # <<>> => queue' # <<>> /\ e' = e
<1>1. queue \in Seq(EventType) /\ queue' = Append(queue, v) /\ Len(queue) \in Nat
      /\ DOMAIN queue = 1..Len(queue)
  BY DEF Deliver, TypeOK
<1>2. /\ DOMAIN queue' = DOMAIN queue \cup {Len(queue) + 1}
      /\ \A i \in DOMAIN queue : queue'[i] = queue[i]
      /\ queue'[Len(queue) + 1] = v
  BY <1>1
<1>3. queue # <<>> => queue' # <<>> /\ e' = e
  <2>1. queue # <<>> => Len(queue) # 0
    BY <1>1
  <2>2. Len(queue') = Len(queue) + 1 /\ queue' # <<>>
    BY <1>1
  <2> QED
    BY <1>1, <1>2, <2>1, <2>2 DEF e
<1> QED
  BY <1>1, <1>2, <1>3

LEMMA PopAt ==
    ASSUME TypeOK, queue # <<>>, queue' = Tail(queue)
    PROVE  \A i \in DOMAIN queue' :
                i \in Nat /\ i # 0 /\ i + 1 \in DOMAIN queue /\ queue'[i] = queue[i + 1]
<1>1. queue \in Seq(EventType) /\ queue' \in Seq(EventType)
  BY TailTyped DEF TypeOK
<1>2. DOMAIN queue' = 1..Len(queue') /\ Len(queue') \in Nat
  BY <1>1
<1> QED
  BY <1>1, <1>2, TailAt

LEMMA EventAt ==
    ASSUME TypeOK, NEW i \in DOMAIN queue
    PROVE  queue[i] \in EventType /\ queue[i].r \in Places /\ i \in Nat \ {0}
<1>1. queue[i] \in EventType /\ i \in Nat \ {0}
  BY DEF TypeOK
<1> QED
  BY <1>1, EventTyped

LEMMA Apartness ==
    /\ Bot \notin Users /\ Bot \notin People /\ Users \cap People = {}
    /\ Users \subseteq Everyone /\ People \subseteq Everyone /\ Bot \in Everyone
    /\ Users \subseteq Members /\ People \subseteq Members
    /\ Names \subseteq Places
  BY RoomsAssumption DEF Members, Everyone, Places

LEMMA Types ==
    ASSUME TypeOK
    PROVE  /\ present \in [Places -> SUBSET Everyone] /\ invited \in [Places -> SUBSET Everyone]
           /\ members \in [Names -> SUBSET Members]
           /\ job \in JobType /\ rooms \subseteq Names \X Places
           /\ participants \subseteq Names \X Members
           /\ management \in [Users -> Places \cup {None}]
           /\ left \subseteq Places /\ born \subseteq Names /\ faults \in Nat
  BY DEF TypeOK, ServerType, MemoryType, GhostType

LEMMA HolderFacts ==
    ASSUME TypeOK, StateInv
    PROVE  /\ job.step \in {"enter", "puppet", "list", "members", "join", "welcome"} =>
                /\ job.n \in Names /\ job.r \in Places /\ <<job.n, job.r>> \in rooms
                /\ NameOf(job.r) # {} /\ present[job.r] # {}
           /\ job.step \in {"join", "puppet"} => job.x \in People
           /\ job.step \in {"send", "invited"} \/ job.kind = "bridge" => queue # <<>>
           /\ job.step \in {"newroom", "bridge"} => job.kind = "bridge" /\ NameOf(job.r) = {}
           /\ job.step = "invited" => job.r = e.r /\ job.x = e.x /\ e.r \in Places
<1>1. /\ HolderInv /\ KindInv /\ Exist
  BY DEF StateInv
<1>2. ASSUME job.step \in {"enter", "puppet", "list", "members", "join", "welcome"}
      PROVE  /\ job.n \in Names /\ job.r \in Places /\ <<job.n, job.r>> \in rooms
             /\ NameOf(job.r) # {} /\ present[job.r] # {}
  <2>1. job.n \in Names /\ job.r \in Places /\ <<job.n, job.r>> \in rooms
    BY <1>1, <1>2 DEF HolderInv
  <2>2. present[<<job.n, job.r>>[2]] # {}
    BY <1>1, <2>1, Zenon DEF Exist
  <2> QED
    BY <2>1, <2>2 DEF NameOf
<1>3. job.step = "invited" => queue # <<>>
  BY <1>1 DEF KindInv, At
<1> QED
  BY <1>1, <1>2, <1>3, HeadAt DEF HolderInv, KindInv, At

---------------------------------------------------------------------------
\* What a step does to the Matrix rooms and the events, by kinds of steps.

Still == UNCHANGED <<present, invited, left>>
SameRooms == UNCHANGED <<rooms, management>>

Quiet == Still /\ SameRooms /\ UNCHANGED queue

\* The first event is done with.
Answered ==
    /\ Answer /\ queue # <<>> /\ Still /\ UNCHANGED rooms
    /\ \/ UNCHANGED management
       \/ /\ management' = [management EXCEPT ![e.by] = e.r]
          /\ At("invited") /\ e.kind = "invite" /\ e.x = Bot /\ e.arg = TRUE
    /\ e.kind = "invite" /\ e.x \in People => NameOf(e.r) # {}
    /\ e.kind = "join" => \A n \in NameOf(e.r) : Lenders(n) # {}

Managed ==
    /\ AddRoom \/ Bridge
    /\ rooms' = rooms \cup {<<job.n, job.r>>} /\ UNCHANGED <<queue, management>> /\ Still
    /\ job.n \in Names /\ job.r \in Places
    /\ PlaceOf(job.n) = {} /\ NameOf(job.r) = {} /\ present[job.r] # {}

\* An invitation.
Asked(by, x, r, arg) ==
    /\ CanInvite(by, x, r)
    /\ x = Bot => x \notin invited[r]
    /\ x \in People => by \in Users \/ (job'.step = "join" /\ job'.r = r /\ job'.x = x)
    /\ invited' = [invited EXCEPT ![r] = @ \cup {x}]
    /\ Event("invite", r, by, x, arg) \in EventType
    /\ Deliver(Event("invite", r, by, x, arg))
    /\ SameRooms /\ UNCHANGED <<present, left>>

\* Somebody enters.
Entered(x, r) ==
    /\ EnterPlace(x, r) /\ present[r] # {}
    /\ \/ UNCHANGED queue /\ (x \in Users => x \in present[r])
       \/ /\ x \in Users /\ Event("join", r, x, x, None) \in EventType
          /\ Deliver(Event("join", r, x, x, None))
    /\ (x \notin Users /\ NameOf(r) = {}) \/ x = Bot =>
            queue # <<>> /\ Invites(1, r, x)
    /\ SameRooms /\ UNCHANGED left

Created ==
    /\ At("create") /\ job.n \in Names /\ present[job.n] = {} /\ Go("add")
    /\ present' = [present EXCEPT ![job.n] = {Bot}]
    /\ SameRooms /\ UNCHANGED <<queue, invited, left>>

Kicked(u, r) ==
    /\ present' = [present EXCEPT ![r] = @ \ {Bot}] /\ left' = left \cup {r}
    /\ Event("leave", r, u, Bot, None) \in EventType
    /\ Deliver(Event("leave", r, u, Bot, None))
    /\ SameRooms /\ UNCHANGED invited

Wrote(u, r, kind, arg) ==
    /\ kind \in {"text", "bridge"} /\ Interested(r)
    /\ Event(kind, r, u, None, arg) \in EventType
    /\ Deliver(Event(kind, r, u, None, arg))
    /\ SameRooms /\ Still

Kinded ==
    \/ Quiet \/ Answered \/ Managed \/ Created
    \/ \E r \in Places, by, x \in Everyone, arg \in BOOLEAN : Asked(by, x, r, arg)
    \/ \E r \in Places, x \in Everyone : Entered(x, r)
    \/ \E r \in Places, u \in Users : Kicked(u, r)
    \/ \E r \in Places, u \in Users, kind \in {"text", "bridge"}, arg \in Names \cup {None, Bad} :
            Wrote(u, r, kind, arg)

LEMMA UserSteps ==
    ASSUME TypeOK, StateInv, Environment
    PROVE  Kinded
<1> USE Apartness, Types DEF Kinded
<1>1. ASSUME NEW n \in Names, NEW x \in Members, TomsgJoin(n, x) PROVE Quiet
  BY <1>1 DEF TomsgJoin, Quiet, Still, SameRooms, memory, ghosts
<1>2. ASSUME NEW u \in Users, NEW r \in Places, NEW x \in Everyone, NEW direct \in BOOLEAN,
             UserInvites(u, r, x, direct)
      PROVE  Asked(u, x, r, direct)
  <2>1. Event("invite", r, u, x, direct) \in EventType
    <3>1. CASE direct = TRUE
      BY <3>1, ChatEvent
    <3>2. CASE direct = FALSE
      BY <3>2, InviteEvent
    <3> QED
      BY <3>1, <3>2
  <2> QED
    BY <1>2, <2>1 DEF UserInvites, Asked, SameRooms, memory, ghosts
<1>3. ASSUME NEW u \in Users, NEW r \in Places, UserJoins(u, r) PROVE Entered(u, r)
  <2>1. Event("join", r, u, u, None) \in EventType
    BY UserEvent
  <2>2. present[r] # {}
    BY <1>3 DEF UserJoins, Interested
  <2> QED
    BY <1>3, <2>1, <2>2 DEF UserJoins, Entered, SameRooms, memory, ghosts
<1>4. ASSUME NEW u \in Users, NEW r \in Places, UserKicks(u, r) PROVE Kicked(u, r)
  <2>1. Event("leave", r, u, Bot, None) \in EventType
    BY UserEvent
  <2> QED
    BY <1>4, <2>1 DEF UserKicks, Kicked, SameRooms, memory
<1>5. ASSUME NEW u \in Users, NEW r \in Places, NEW kind \in {"text", "bridge"},
             NEW arg \in Names \cup {None, Bad}, UserWrites(u, r, kind, arg)
      PROVE  Wrote(u, r, kind, arg)
  <2>1. Event(kind, r, u, None, arg) \in EventType
    BY UserEvent
  <2> QED
    BY <1>5, <2>1 DEF UserWrites, Wrote, Still, SameRooms, servers, memory, ghosts
<1> QED
  BY <1>1, <1>2, <1>3, <1>4, <1>5 DEF Environment

LEMMA HandlerSteps ==
    ASSUME TypeOK, StateInv, EventInv,
           HandleInvite \/ Invited \/ HandleJoin \/ HandleLeave \/ HandleText \/ SendInvite
           \/ HandleBridge \/ Bridged
    PROVE  Kinded
<1> USE Apartness, Types DEF Kinded
<1>0. HolderInv /\ KindInv
  BY DEF StateInv
<1>1. ASSUME queue # <<>>, Answer, Still, SameRooms,
             e.kind # "invite" \/ e.x \notin People \/ NameOf(e.r) # {},
             e.kind # "join" \/ \A n \in NameOf(e.r) : Lenders(n) # {}
      PROVE  Answered
  BY <1>1 DEF Answered, SameRooms
<1>2. CASE HandleInvite
  <2>1. queue # <<>> /\ e.kind = "invite" /\ e.r \in Places /\ e.x \in Everyone
    BY <1>2, FirstEvent, EventTyped DEF HandleInvite
  <2>2. Invites(1, e.r, e.x) /\ present[e.r] # {}
    BY <2>1, HeadAt DEF Invites, StateInv, Exist
  <2>3. e.x \in Users => Event("join", e.r, e.x, e.x, None) \in EventType
    BY <2>1, UserEvent
  <2>4. Entered(e.x, e.r)
    BY <1>2, <2>1, <2>2, <2>3 DEF HandleInvite, Entered, SameRooms, memory, ghosts
  <2> QED
    BY <2>1, <2>4
<1>3. CASE Invited
  <2>1. /\ job.step = "invited" /\ queue # <<>> /\ job.x = e.x /\ e.kind = "invite"
        /\ Still /\ UNCHANGED rooms
    BY <1>0, <1>3 DEF Invited, HolderInv, KindInv, EventInv, At, Still, servers, ghosts
  <2>2. CASE job.x = Bot /\ e.arg = TRUE /\ SetManagementRoom(e.by, e.r) /\ Answer
    BY <2>1, <2>2 DEF Answered, SetManagementRoom, At
  <2>3. CASE (job.x \in Users \/ (job.x = Bot /\ e.arg # TRUE)) /\ Answer /\ UNCHANGED management
    BY <1>1, <2>1, <2>3 DEF SameRooms
  <2>4. CASE job.x \in People /\ UNCHANGED management
    <3>1. NameOf(e.r) = {} => Release /\ UNCHANGED queue
      BY <1>3, <2>1, <2>4 DEF Invited
    <3>2. UNCHANGED queue \/ Answer
      BY <1>3, <2>1, <2>4 DEF Invited, Admit
    <3>3. Answer /\ UNCHANGED queue => Quiet
      BY <2>1, <2>4 DEF Quiet, SameRooms
    <3> QED
      BY <1>1, <2>1, <2>4, <3>1, <3>2 DEF Quiet, SameRooms
  <2>5. \/ job.x = Bot /\ e.arg = TRUE /\ SetManagementRoom(e.by, e.r) /\ Answer
        \/ (job.x \in Users \/ (job.x = Bot /\ e.arg # TRUE)) /\ Answer /\ UNCHANGED management
        \/ job.x \in People /\ UNCHANGED management
    BY <1>3 DEF Invited
  <2> QED
    BY <2>2, <2>3, <2>4, <2>5
<1>7. ASSUME NEW n \in Names, <<n, e.r>> \in rooms, Lenders(n) # {}
      PROVE  \A k \in NameOf(e.r) : Lenders(k) # {}
  <2>1. \A k \in NameOf(e.r) : k = n
    BY <1>7 DEF NameOf, StateInv, OneRoomPerName
  <2> QED
    BY <1>7, <2>1
<1>8. CASE HandleJoin
  <2>1. queue # <<>> /\ e.kind = "join" /\ e.by \in Users /\ Still /\ SameRooms
    BY <1>8, FirstEvent, EventTyped DEF HandleJoin, Still, SameRooms, servers, memory, ghosts
  <2>2. CASE NameOf(e.r) = {} /\ Answer
    BY <1>1, <2>1, <2>2
  <2>3. ASSUME NEW n \in NameOf(e.r), Admit(n, e.by) PROVE Kinded
    <3>1. CASE Answer /\ In(n, e.by)
      <4>1. n \in Names /\ <<n, e.r>> \in rooms /\ Lenders(n) # {}
        BY <2>1, <2>3, <3>1 DEF NameOf, Lenders
      <4> QED
        BY <1>1, <1>7, <2>1, <3>1, <4>1
    <3> QED
      BY <2>1, <2>3, <3>1 DEF Admit, Quiet
  <2> QED
    BY <1>8, <2>2, <2>3 DEF HandleJoin
<1>4. CASE HandleText \/ HandleLeave \/ HandleBridge
  <2>1. queue # <<>> /\ e.kind \notin {"invite", "join"} /\ Still /\ SameRooms
    BY <1>4, FirstEvent DEF HandleText, HandleLeave, HandleBridge, Still, SameRooms,
       servers, memory, ghosts
  <2>2. UNCHANGED queue \/ Answer
    BY <1>4 DEF HandleText, HandleLeave, HandleBridge, Admit
  <2> QED
    BY <1>1, <2>1, <2>2 DEF Quiet
<1>5. CASE SendInvite
  <2>1. job.step = "send" /\ queue # <<>> /\ Still /\ SameRooms /\ Answer
    BY <1>0, <1>5 DEF SendInvite, At, KindInv, Still, SameRooms, memory, ghosts
  <2>2. job.n \in Names /\ <<job.n, e.r>> \in rooms /\ Lenders(job.n) # {}
    BY <1>0, <2>1 DEF EventInv, HolderInv, At, Lenders
  <2>3. NameOf(e.r) # {}
    BY <2>2 DEF NameOf
  <2> QED
    BY <1>1, <1>7, <2>1, <2>2, <2>3
<1>6. CASE Bridged
  <2>1. queue # <<>> /\ e.kind = "bridge" /\ Still /\ SameRooms
    BY <1>0, <1>6 DEF Bridged, KindInv, EventInv, Still, SameRooms, servers, memory, ghosts
  <2>2. UNCHANGED queue \/ Answer
    BY <1>6 DEF Bridged
  <2> QED
    BY <1>1, <2>1, <2>2 DEF Quiet
<1> QED
  BY <1>2, <1>3, <1>4, <1>5, <1>6, <1>8

LEMMA ServerSteps ==
    ASSUME TypeOK, StateInv, EventInv, [Next]_vars
    PROVE  Kinded
<1> USE Apartness, Types DEF Kinded
<1>0. HolderInv /\ KindInv
  BY DEF StateInv
<1>1. CASE Session
  BY <1>1, Begins DEF Quiet, Still, SameRooms, servers, memory, ghosts
<1>2. CASE Crash
  BY <1>2, CrashReloads DEF Crash, StateInv, Quiet, Still, SameRooms, servers, memory, ghosts
<1>3. CASE NextRoom \/ Enter \/ List \/ RecordMembers \/ NewRoom \/ EnsureFails \/ Panic
           \/ UNCHANGED vars
  BY <1>3 DEF NextRoom, Enter, List, RecordMembers, NewRoom, EnsureFails, Panic, vars, Quiet, Still,
     SameRooms, servers, memory, ghosts
<1>4. CASE CreateRoom
  <2>1. job.step = "create" /\ job.n \in Names
    BY <1>0, <1>4 DEF CreateRoom, HolderInv, At
  <2> QED
    BY <1>4, <2>1 DEF CreateRoom, Created, Quiet, Still, SameRooms, memory, ghosts
<1>5. CASE AddRoom \/ Bridge
  <2>1. Still /\ UNCHANGED <<queue, management>>
    BY <1>5 DEF AddRoom, Bridge, Still, servers, memory, ghosts
  <2>2. \/ UNCHANGED rooms
        \/ /\ Manage(job.n, job.r) /\ job.n \in Names /\ job.r \in Places
           /\ PlaceOf(job.n) = {} /\ NameOf(job.r) = {} /\ present[job.r] # {}
    BY RoomsGrow
  <2> QED
    BY <1>5, <2>1, <2>2 DEF Managed, Quiet, SameRooms, Manage
<1>6. CASE JoinUninvited \/ JoinMember
  <2>1. /\ job.step \in {"puppet", "join"} /\ job.x \in People /\ job.x \in Everyone
        /\ job.x # Bot /\ job.r \in Places
        /\ NameOf(job.r) # {} /\ present[job.r] # {}
    BY <1>6, HolderFacts DEF JoinUninvited, JoinMember, At
  <2>2. CASE EnterPlace(job.x, job.r) /\ UNCHANGED queue /\ SameRooms /\ UNCHANGED left
    BY <2>1, <2>2 DEF Entered
  <2> QED
    BY <1>6, <2>1, <2>2 DEF JoinUninvited, JoinMember, Quiet, Still, SameRooms, memory, ghosts
<1>7. ASSUME NEW p \in People, InviteMember(p) PROVE Kinded
  <2>1. job.r \in Places /\ p # Bot
    BY <1>7, HolderFacts DEF InviteMember, At
  <2>2. CASE CanInvite(Bot, p, job.r) /\ InvitePlace(Bot, p, job.r)
    <3>1. Event("invite", job.r, Bot, p, FALSE) \in EventType
      BY <2>1, InviteEvent
    <3>3. job'.step = "join" /\ job'.r = job.r /\ job'.x = p
      BY <1>7, <2>2 DEF InviteMember, JobType, CanInvite
    <3>2. Asked(Bot, p, job.r, FALSE)
      BY <1>7, <2>1, <2>2, <3>1, <3>3 DEF InviteMember, InvitePlace, Asked, SameRooms, memory, ghosts
    <3> QED
      BY <2>1, <3>2
  <2> QED
    BY <1>7, <2>2 DEF InviteMember, Quiet, Still, SameRooms, memory, ghosts
<1>8. CASE Welcome
  <2> DEFINE by == IF job.kind = "invite" THEN job.by ELSE Bot
  <2>1. job.r \in Places /\ job.u \in Users
    <3>1. job.step = "welcome" /\ job.kind \in {"setup", "invite"}
      BY <1>8 DEF Welcome, At
    <3> QED
      BY <1>0, <3>1, HolderFacts DEF KindInv
  <2>2. CASE CanInvite(by, job.u, job.r) /\ InvitePlace(by, job.u, job.r)
    <3>1. by \in Everyone
      BY <2>1, <2>2 DEF CanInvite
    <3>2. Event("invite", job.r, by, job.u, FALSE) \in EventType
      BY <2>1, <3>1, InviteEvent
    <3> HIDE DEF by
    <3>3. Asked(by, job.u, job.r, FALSE)
      BY <1>8, <2>1, <2>2, <3>2 DEF Welcome, InvitePlace, Asked, SameRooms, memory, ghosts
    <3> QED
      BY <2>1, <3>1, <3>3
  <2> QED
    BY <1>8, <2>2 DEF Welcome, Quiet, Still, SameRooms, memory, ghosts
<1>9. CASE HandleInvite \/ Invited \/ HandleJoin \/ HandleLeave \/ HandleText \/ SendInvite
           \/ HandleBridge \/ Bridged
  BY <1>9, HandlerSteps
<1>10. CASE Environment
  BY <1>10, UserSteps
<1> QED
  BY <1>1, <1>2, <1>3, <1>4, <1>5, <1>6, <1>7, <1>8, <1>9, <1>10 DEF Next, Work

---------------------------------------------------------------------------
\* The holder of the lock and the event at hand.

\* Users and the other servers leave the holder of the lock alone, and the first
\* event is the first until it is answered.
LEMMA HeadStays ==
    ASSUME TypeOK, StateInv, Environment
    PROVE  job' = job /\ (queue # <<>> => queue' # <<>> /\ e' = e)
<1>1. job' = job
  BY DEF Environment, TomsgJoin, UserInvites, UserJoins, UserKicks, UserWrites
<1>2. UNCHANGED queue \/ \E v : Deliver(v)
  BY DEF Environment, TomsgJoin, UserInvites, UserJoins, UserKicks, UserWrites
<1>3. queue # <<>> => queue' # <<>> /\ e' = e
  BY <1>2, AppendAt DEF e
<1> QED
  BY <1>1, <1>3

\* Who is in a room stays there, unless it is the bot.
LEMMA OthersStay ==
    ASSUME TypeOK, StateInv, EventInv, [Next]_vars, NEW r \in Places
    PROVE  /\ left \subseteq left'
           /\ present[r] \ {Bot} \subseteq present'[r]
           /\ r \notin left' => present[r] \subseteq present'[r]
<1> USE Types
<1>1. ASSUME NEW x, NEW q \in Places, Entered(x, q) PROVE present[r] \subseteq present'[r]
  BY <1>1 DEF Entered, EnterPlace
<1>2. ASSUME NEW u, NEW q \in Places, Kicked(u, q)
      PROVE  /\ present[r] \ {Bot} \subseteq present'[r] /\ left \subseteq left'
             /\ r \notin left' => present[r] \subseteq present'[r]
  BY <1>2 DEF Kicked
<1>3. CASE Created
  BY <1>3, Apartness DEF Created
<1>4. CASE Quiet \/ Answered \/ Managed
  BY <1>4 DEF Quiet, Answered, Managed, Still
<1>5. ASSUME NEW q \in Places, NEW by \in Everyone, NEW x \in Everyone, NEW arg \in BOOLEAN,
             Asked(by, x, q, arg)
      PROVE  UNCHANGED <<present, left>>
  BY <1>5 DEF Asked
<1>6. ASSUME NEW q \in Places, NEW u \in Users, NEW kind, NEW arg, Wrote(u, q, kind, arg)
      PROVE  UNCHANGED <<present, left>>
  BY <1>6 DEF Wrote, Still
<1>7. ASSUME NEW x, NEW q \in Places, Entered(x, q) PROVE UNCHANGED left
  BY <1>7 DEF Entered
<1>8. Created => UNCHANGED left
  BY DEF Created
<1> QED
  BY <1>1, <1>2, <1>3, <1>4, <1>5, <1>6, <1>7, <1>8, ServerSteps DEF Kinded

\* Participants and rooms only grow.
LEMMA OnlyGrow ==
    ASSUME TypeOK, StateInv, [Next]_vars
    PROVE  rooms \subseteq rooms' /\ participants \subseteq participants'
<1>1. rooms \subseteq rooms'
  BY RoomsGrow DEF Manage
<1>2. participants \subseteq participants'
  BY MembersGrow DEF Insert
<1> QED
  BY <1>1, <1>2

\* What the holder of the lock may be about to do next.
JobSteps ==
    \/ job'.kind = "none" /\ job'.step = "idle"
    \/ job' = job /\ (Environment \/ UNCHANGED vars)
    \/ Session /\ job'.kind # "bridge" /\ job'.step \in {"room", "enter", "create"}
    \/ HandleInvite /\ job'.step = "invited" /\ job'.kind = "none" /\ job'.r = e.r /\ job'.x = e.x
    \/ /\ Invited \/ HandleJoin \/ HandleText
       /\ job'.step = "send" /\ job'.kind = "none" /\ UNCHANGED <<queue, rooms>> /\ queue # <<>>
       /\ <<job'.n, e.r>> \in rooms /\ job'.u \in Lenders(job'.n) /\ job'.u \in Users
    \/ /\ HandleBridge /\ MayBridge(e.r)
       /\ job'.step \in {"newroom", "bridge"} /\ job'.kind = "bridge" /\ job'.r = e.r
    \/ /\ job'.kind = job.kind
       /\ job'.step \in {"room", "create", "enter", "puppet", "list", "members", "join", "welcome"}
    \/ NewRoom /\ job'.step = "bridge" /\ job'.r = job.r /\ job'.kind = job.kind
    \/ Created /\ job'.step = "add" /\ job'.r = job.n /\ job'.n = job.n /\ job'.kind = job.kind

LEMMA JobStep ==
    ASSUME TypeOK, StateInv, [Next]_vars
    PROVE  JobSteps
<1> USE Types DEF JobSteps
<1>0. HolderInv /\ KindInv
  BY DEF StateInv
<1>1. ASSUME Release PROVE JobSteps
  BY <1>1 DEF Release, NoJob
<1>2. ASSUME NEW st, Go(st) PROVE job'.step = st /\ job'.kind = job.kind /\ job'.r = job.r /\ job'.n = job.n
  BY <1>2 DEF Go, JobType
<1>3. ASSUME NEW n, NEW x, Admit(n, x), n \in NameOf(e.r), Invited \/ HandleJoin \/ HandleText,
             UNCHANGED rooms, queue # <<>>
      PROVE  JobSteps
  BY <1>1, <1>3 DEF Admit, Answer, NoJob, Lenders, NameOf
<1>4. CASE Session
  <2>1. ASSUME NEW u \in Users, NEW S \in SUBSET Names, BeginSetUp(u, S)
        PROVE  job'.kind # "bridge" /\ job'.step = "room"
    BY <2>1 DEF BeginSetUp, NoJob
  <2>2. ASSUME NEW kind \in {"invite", "join", "message"}, NEW u \in Users, NEW n \in Names,
               NEW x \in Members, BeginPush(kind, u, n, x)
        PROVE  job'.kind # "bridge" /\ job'.step \in {"enter", "create"}
    BY <2>2 DEF BeginPush, NoJob
  <2> QED
    BY <1>4, <2>1, <2>2 DEF Session
<1>5. CASE Environment
  BY <1>5, HeadStays
<1>6. CASE UNCHANGED vars
  BY <1>6 DEF vars
<1>7. CASE EnsureFails \/ Panic \/ Crash \/ JoinUninvited \/ HandleLeave \/ SendInvite \/ Bridged
  BY <1>1, <1>7 DEF EnsureFails, Panic, Crash, JoinUninvited, HandleLeave, SendInvite, Bridged,
     Answer
<1>8. CASE NextRoom
  <2>1. ASSUME NEW n \in job.rest, Reach(n)
        PROVE  job'.kind = job.kind /\ job'.step \in {"enter", "create"}
    BY <2>1 DEF Reach, JobType
  <2> QED
    BY <1>1, <1>8, <2>1 DEF NextRoom
<1>9. CASE CreateRoom
  <2>1. job.step = "create" /\ job.n \in Names /\ job.r = job.n
    BY <1>0, <1>9 DEF CreateRoom, HolderInv, At
  <2> QED
    BY <1>1, <1>2, <1>9, <2>1 DEF CreateRoom, Created, SameRooms, memory, ghosts, At
<1>10. CASE AddRoom \/ RecordMembers
  BY <1>2, <1>10 DEF AddRoom, RecordMembers
<1>11. CASE Enter \/ List \/ JoinMember
  <2>1. \/ Release
        \/ job'.kind = job.kind /\ job'.step \in {"list", "puppet", "members"}
    BY <1>2, <1>11 DEF Enter, List, JoinMember, JobType
  <2> QED
    BY <1>1, <2>1
<1>12. ASSUME NEW p \in People, InviteMember(p) PROVE JobSteps
  <2>1. Release \/ (job'.kind = job.kind /\ job'.step = "join")
    BY <1>12 DEF InviteMember, JobType
  <2> QED
    BY <1>1, <2>1
<1>13. CASE Welcome \/ Bridge
  <2>1. Release \/ Go("room") \/ Go("list")
    BY <1>13 DEF Welcome, Bridge
  <2> QED
    BY <1>1, <1>2, <2>1
<1>14. CASE HandleInvite
  BY <1>14 DEF HandleInvite, NoJob
<1>15. CASE Invited
  <2>1. queue # <<>> /\ UNCHANGED rooms
    BY <1>0, <1>15 DEF Invited, KindInv
  <2> QED
    BY <1>1, <1>3, <1>15, <2>1 DEF Invited, Answer
<1>16. CASE HandleJoin \/ HandleText
  <2>1. queue # <<>> /\ UNCHANGED rooms
    BY <1>16 DEF HandleJoin, HandleText, First
  <2> QED
    BY <1>1, <1>3, <1>16, <2>1 DEF HandleJoin, HandleText, Answer
<1>17. CASE HandleBridge
  BY <1>1, <1>17 DEF HandleBridge, Answer, NoJob
<1>18. CASE NewRoom
  <2>1. PICK n \in Names : job' = [job EXCEPT !.step = "bridge", !.n = n]
    BY <1>18 DEF NewRoom
  <2> QED
    BY <1>18, <2>1 DEF JobType
<1> QED
  BY <1>4, <1>5, <1>6, <1>7, <1>8, <1>9, <1>10, <1>11, <1>12, <1>13, <1>14, <1>15, <1>16,
     <1>17, <1>18 DEF Next, Work

LEMMA EventStep ==
    ASSUME TypeOK, StateInv, EventInv, [Next]_vars
    PROVE  EventInv'
<1> USE Types
<1>1. ASSUME UNCHANGED queue PROVE e' = e
  BY <1>1 DEF e
<1>2. CASE job' = job /\ (Environment \/ UNCHANGED vars)
  <2>1. job.kind = "bridge" \/ job.step \in {"newroom", "bridge", "invited", "send"} => e' = e
    BY <1>1, <1>2, HeadStays, HolderFacts DEF vars
  <2>2. ASSUME job.step = "invited", job.x \in present[job.r] \/ job.r \in left
        PROVE  job.x \in present'[job.r] \/ job.r \in left'
    <3>1. job.r \in Places
      BY <2>2, HolderFacts
    <3> QED
      BY <2>2, <3>1, OthersStay
  <2> QED
    BY <1>2, <2>1, <2>2, OnlyGrow DEF EventInv, At, In
<1>3. CASE HandleInvite /\ job'.step = "invited" /\ job'.kind = "none" /\ job'.r = e.r /\ job'.x = e.x
  <2>1. queue # <<>> /\ e.kind = "invite" /\ e.r \in Places
    BY <1>3, FirstEvent DEF HandleInvite
  <2>2. UNCHANGED queue \/ \E v : Deliver(v)
    BY <1>3 DEF HandleInvite
  <2>3. e' = e
    BY <1>1, <2>1, <2>2, AppendAt
  <2>4. e.x \in present'[e.r]
    BY <1>3, <2>1 DEF HandleInvite, EnterPlace
  <2> QED
    BY <1>3, <2>1, <2>3, <2>4 DEF EventInv, At
<1>4. CASE /\ job'.step = "send" /\ job'.kind = "none" /\ UNCHANGED <<queue, rooms>>
           /\ <<job'.n, e.r>> \in rooms /\ job'.u \in Lenders(job'.n) /\ job'.u \in Users
  <2>1. <<job'.n, job'.u>> \in participants'
    BY <1>4, OnlyGrow DEF Lenders, In
  <2> QED
    BY <1>1, <1>4, <2>1 DEF EventInv, At, In
<1>5. CASE HandleBridge /\ job'.step \in {"newroom", "bridge"} /\ job'.kind = "bridge" /\ job'.r = e.r
  <2>1. e.kind = "bridge"
    BY <1>5, FirstEvent DEF HandleBridge
  <2>2. UNCHANGED queue
    BY <1>5 DEF HandleBridge, Answer, Release, NoJob
  <2> QED
    BY <1>1, <1>5, <2>1, <2>2 DEF EventInv, At
<1>6. CASE NewRoom /\ job'.step = "bridge" /\ job'.r = job.r /\ job'.kind = job.kind
  BY <1>1, <1>6, HolderFacts DEF NewRoom, EventInv, At
<1>7. CASE job'.kind # "bridge" /\ job'.step \notin {"newroom", "bridge", "invited", "send"}
  BY <1>7 DEF EventInv, At
<1>8. CASE job'.kind = "bridge" /\ job.kind = "bridge" /\ job'.step \notin {"newroom", "bridge", "invited", "send"}
  <2>1. queue # <<>> /\ e.kind = "bridge"
    BY <1>8, HolderFacts DEF EventInv
  <2>2. ~Answer
    BY <1>8 DEF Answer, Release, NoJob
  <2>3. UNCHANGED queue \/ \E v : Deliver(v)
    BY <2>2, ServerSteps DEF Kinded, Quiet, Answered, Managed, Asked, Entered, Created, Kicked,
       Wrote
  <2>4. e' = e
    BY <1>1, <2>1, <2>3, AppendAt
  <2> QED
    BY <1>8, <2>1, <2>4 DEF EventInv, At
<1> QED
  BY <1>2, <1>3, <1>4, <1>5, <1>6, <1>7, <1>8, JobStep DEF JobSteps

---------------------------------------------------------------------------
\* The bot in its rooms.

\* Of the steps named in JobSteps, those that end where the holder of the lock is
\* about to make a room known.
LEMMA AboutTo ==
    ASSUME TypeOK, StateInv, [Next]_vars, job'.step \in {"add", "newroom", "bridge"}
    PROVE  \/ job' = job /\ (Environment \/ UNCHANGED vars)
           \/ HandleBridge /\ MayBridge(e.r) /\ job'.step # "add" /\ job'.r = e.r
           \/ NewRoom /\ job'.step = "bridge" /\ job'.r = job.r
           \/ Created /\ job'.step = "add" /\ job'.r = job.n /\ job'.n = job.n
  BY JobStep DEF JobSteps

LEMMA FreshStep ==
    ASSUME TypeOK, StateInv, EventInv, FreshInv, [Next]_vars
    PROVE  FreshInv'
<1> USE Types, Apartness
<1>0. KindInv /\ HolderInv /\ Exist
  BY DEF StateInv
<1>1. ASSUME NEW r \in Places, present'[r] = {} PROVE invited'[r] = {}
  <2>1. present[r] = {}
    BY <1>0, <1>1, Populated
  <2>2. invited[r] = {}
    BY <2>1 DEF FreshInv
  <2>3. ASSUME NEW by, NEW x, NEW q \in Places, NEW arg, Asked(by, x, q, arg)
        PROVE  invited'[r] = {}
    BY <2>1, <2>2, <2>3 DEF Asked, CanInvite
  <2>4. ASSUME NEW x, NEW q \in Places, Entered(x, q) PROVE invited'[r] = {}
    BY <2>2, <2>4 DEF Entered, EnterPlace
  <2>5. ASSUME UNCHANGED invited PROVE invited'[r] = {}
    BY <2>2, <2>5
  <2> QED
    BY <2>3, <2>4, <2>5, ServerSteps
       DEF Kinded, Quiet, Answered, Managed, Created, Kicked, Wrote, Still
<1>2. ASSUME job'.step = "add"
      PROVE  /\ present'[job'.r] \subseteq {Bot} /\ invited'[job'.r] = {}
             /\ \A i \in DOMAIN queue' : queue'[i].r # job'.r
  <2>1. CASE Created /\ job'.r = job.n
    <3>1. /\ job.n \in Places /\ present[job.n] = {} /\ UNCHANGED <<queue, invited>>
          /\ present'[job.n] = {Bot}
      BY <2>1 DEF Created
    <3>2. invited[job.n] = {}
      BY <3>1 DEF FreshInv
    <3>3. \A i \in DOMAIN queue : queue[i].r # job.n
      BY <1>0, <3>1 DEF Exist
    <3> QED
      BY <2>1, <3>1, <3>2, <3>3
  <2>2. CASE job' = job /\ UNCHANGED vars
    BY <1>2, <2>2 DEF vars, servers, FreshInv, At
  <2>3. CASE job' = job /\ Environment
    <3>1. /\ job.r \in Places /\ present[job.r] \subseteq {Bot} /\ invited[job.r] = {}
          /\ \A i \in DOMAIN queue : queue[i].r # job.r
      BY <1>0, <1>2, <2>3 DEF FreshInv, HolderInv, At
    <3>2. ASSUME NEW v, Deliver(v), v.r # job.r
          PROVE  \A i \in DOMAIN queue' : queue'[i].r # job.r
      BY <3>1, <3>2, AppendAt
    <3>3. ASSUME NEW n \in Names, NEW x \in Members, TomsgJoin(n, x)
          PROVE  UNCHANGED <<present, invited, queue>>
      BY <3>3 DEF TomsgJoin
    <3>4. ASSUME NEW u \in Users, NEW r \in Places, NEW x, NEW direct, UserInvites(u, r, x, direct)
          PROVE  /\ r # job.r /\ UNCHANGED present /\ invited'[job.r] = invited[job.r]
                 /\ Deliver(Event("invite", r, u, x, direct))
      BY <3>1, <3>4 DEF UserInvites, CanInvite
    <3>5. ASSUME NEW u \in Users, NEW r \in Places, UserJoins(u, r)
          PROVE  /\ r # job.r /\ present'[job.r] = present[job.r]
                 /\ invited'[job.r] = invited[job.r] /\ Deliver(Event("join", r, u, u, None))
      BY <3>1, <3>5 DEF UserJoins, EnterPlace
    <3>6. ASSUME NEW u \in Users, NEW r \in Places, UserKicks(u, r)
          PROVE  /\ r # job.r /\ present'[job.r] = present[job.r] /\ UNCHANGED invited
                 /\ Deliver(Event("leave", r, u, Bot, None))
      BY <3>1, <3>6 DEF UserKicks
    <3>7. ASSUME NEW u \in Users, NEW r \in Places, NEW kind, NEW arg, UserWrites(u, r, kind, arg)
          PROVE  /\ r # job.r /\ UNCHANGED <<present, invited>>
                 /\ Deliver(Event(kind, r, u, None, arg))
      BY <3>1, <3>7 DEF UserWrites, servers
    <3>8. \A kind, r, by, x, arg : Event(kind, r, by, x, arg).r = r
      BY DEF Event
    <3>9. /\ present'[job.r] = present[job.r] /\ invited'[job.r] = invited[job.r]
          /\ UNCHANGED queue \/ \E v : Deliver(v) /\ v.r # job.r
      BY <2>3, <3>3, <3>4, <3>5, <3>6, <3>7, <3>8 DEF Environment
    <3> QED
      BY <2>3, <3>1, <3>2, <3>9
  <2> QED
    BY <1>2, <2>1, <2>2, <2>3, AboutTo
<1> QED
  BY <1>1, <1>2 DEF FreshInv, At

\* The event of an invitation that others get, or of something else, does not
\* invite the bot.
LEMMA EventFields ==
    ASSUME NEW kind, NEW r, NEW by, NEW x, NEW arg
    PROVE  /\ Event(kind, r, by, x, arg).kind = kind /\ Event(kind, r, by, x, arg).r = r
           /\ Event(kind, r, by, x, arg).x = x /\ Event(kind, r, by, x, arg).arg = arg
           /\ Event(kind, r, by, x, arg).by = by
  BY DEF Event

LEMMA BotStep ==
    ASSUME TypeOK, StateInv, EventInv, FreshInv, BotInv, [Next]_vars
    PROVE  BotInv'
<1> USE Types, Apartness
<1> SUFFICES ASSUME NEW r \in Places, r \notin left'
             PROVE  /\ Bot \in invited'[r] => Bot \notin present'[r]
                    /\ \A i, j \in DOMAIN queue' :
                            Invites(i, r, Bot)' /\ Invites(j, r, Bot)' => i = j
                    /\ \A i \in DOMAIN queue' : Invites(i, r, Bot)' =>
                            Bot \in invited'[r] \/ (Bot \in present'[r] /\ i = 1)
  BY DEF BotInv
<1>0. /\ r \notin left
      /\ Bot \in invited[r] => Bot \notin present[r]
      /\ \A i, j \in DOMAIN queue : Invites(i, r, Bot) /\ Invites(j, r, Bot) => i = j
      /\ \A i \in DOMAIN queue : Invites(i, r, Bot) =>
            Bot \in invited[r] \/ (Bot \in present[r] /\ i = 1)
      /\ present[r] \subseteq present'[r]
  BY OthersStay DEF BotInv
<1>1. ASSUME NEW v, Deliver(v), v.kind # "invite" \/ v.r # r \/ v.x # Bot, NEW i \in DOMAIN queue',
             Invites(i, r, Bot)'
      PROVE  i \in DOMAIN queue /\ Invites(i, r, Bot)
  BY <1>1, AppendAt DEF Invites
<1>2. CASE Quiet \/ Managed
  BY <1>0, <1>2 DEF Quiet, Managed, Still, Invites
<1>3. CASE Answered
  <2>1. \A i \in DOMAIN queue' : i \in Nat /\ i # 0 /\ i + 1 \in DOMAIN queue /\ queue'[i] = queue[i + 1]
    BY <1>3, PopAt DEF Answered, Answer
  <2>2. \A i \in DOMAIN queue' : Invites(i, r, Bot)' => Invites(i + 1, r, Bot) /\ i + 1 # 1
    BY <2>1 DEF Invites
  <2> QED
    BY <1>0, <1>3, <2>1, <2>2 DEF Answered, Still
<1>4. ASSUME NEW q \in Places, NEW by \in Everyone, NEW x \in Everyone, NEW arg \in BOOLEAN,
             Asked(by, x, q, arg), x # Bot \/ q # r
      PROVE  /\ Bot \in invited'[r] <=> Bot \in invited[r]
             /\ UNCHANGED present
             /\ \A i \in DOMAIN queue' : Invites(i, r, Bot)' => i \in DOMAIN queue /\ Invites(i, r, Bot)
  BY <1>1, <1>4, EventFields DEF Asked
<1>5. ASSUME NEW by \in Everyone, NEW arg \in BOOLEAN, Asked(by, Bot, r, arg)
      PROVE  /\ Bot \in invited'[r] /\ UNCHANGED present /\ Bot \notin present[r]
             /\ \A i \in DOMAIN queue' : Invites(i, r, Bot)' => i = Len(queue) + 1
  <2>1. Bot \notin invited[r] /\ Bot \notin present[r]
    BY <1>5 DEF Asked, CanInvite
  <2>2. \A i \in DOMAIN queue : ~Invites(i, r, Bot)
    BY <1>0, <2>1
  <2>3. \A i \in DOMAIN queue' : i = Len(queue) + 1 \/ (i \in DOMAIN queue /\ queue'[i] = queue[i])
    BY <1>5, AppendAt DEF Asked
  <2> QED
    BY <1>5, <2>1, <2>2, <2>3 DEF Asked, Invites
<1>6. ASSUME NEW x \in Everyone, NEW q \in Places, Entered(x, q), x # Bot \/ q # r
      PROVE  /\ Bot \in invited'[r] <=> Bot \in invited[r]
             /\ Bot \in present'[r] <=> Bot \in present[r]
             /\ \A i \in DOMAIN queue' : Invites(i, r, Bot)' => i \in DOMAIN queue /\ Invites(i, r, Bot)
  <2>1. \A i \in DOMAIN queue' : Invites(i, r, Bot)' => i \in DOMAIN queue /\ Invites(i, r, Bot)
    BY <1>1, <1>6, EventFields DEF Entered, Invites
  <2> QED
    BY <1>6, <2>1 DEF Entered, EnterPlace
<1>7. ASSUME Entered(Bot, r)
      PROVE  /\ Bot \notin invited'[r] /\ Bot \in present'[r]
             /\ \A i \in DOMAIN queue' : Invites(i, r, Bot)' => i = 1
  <2>1. queue # <<>> /\ Invites(1, r, Bot) /\ UNCHANGED queue
    BY <1>7 DEF Entered
  <2>2. 1 \in DOMAIN queue
    BY <2>1, HeadAt
  <2>3. Bot \notin invited'[r] /\ Bot \in present'[r]
    BY <1>7 DEF Entered, EnterPlace
  <2> QED
    BY <1>0, <2>1, <2>2, <2>3 DEF Invites
<1>8. CASE Created
  <2>1. /\ job.n \in Places /\ present[job.n] = {} /\ UNCHANGED <<queue, invited>>
        /\ present' = [present EXCEPT ![job.n] = {Bot}]
    BY <1>8 DEF Created
  <2>2. invited[job.n] = {}
    BY <2>1 DEF FreshInv
  <2>3. UNCHANGED Invites(1, r, Bot) /\ \A i \in DOMAIN queue : Invites(i, r, Bot)' = Invites(i, r, Bot)
    BY <2>1 DEF Invites
  <2> QED
    BY <1>0, <2>1, <2>2, <2>3
<1>9. ASSUME NEW q \in Places, NEW u \in Users, Kicked(u, q)
      PROVE  /\ UNCHANGED invited
             /\ Bot \in present'[r] <=> Bot \in present[r]
             /\ \A i \in DOMAIN queue' : Invites(i, r, Bot)' => i \in DOMAIN queue /\ Invites(i, r, Bot)
  <2>1. q # r
    BY <1>9 DEF Kicked
  <2> QED
    BY <1>1, <1>9, <2>1, EventFields DEF Kicked
<1>10. ASSUME NEW q \in Places, NEW u \in Users, NEW kind, NEW arg, Wrote(u, q, kind, arg)
       PROVE  /\ UNCHANGED <<invited, present>>
              /\ \A i \in DOMAIN queue' : Invites(i, r, Bot)' => i \in DOMAIN queue /\ Invites(i, r, Bot)
  BY <1>1, <1>10, EventFields DEF Wrote, Still
<1>11. CASE \E q \in Places, by, x \in Everyone, arg \in BOOLEAN : Asked(by, x, q, arg)
  BY <1>0, <1>4, <1>5, <1>11
<1>12. CASE \E q \in Places, x \in Everyone : Entered(x, q)
  BY <1>0, <1>6, <1>7, <1>12
<1>13. CASE \E q \in Places, u \in Users : Kicked(u, q)
  BY <1>0, <1>9, <1>13
<1>14. CASE \E q \in Places, u \in Users, kind \in {"text", "bridge"},
               arg \in Names \cup {None, Bad} : Wrote(u, q, kind, arg)
  BY <1>0, <1>10, <1>14
<1> QED
  BY <1>2, <1>3, <1>8, <1>11, <1>12, <1>13, <1>14, ServerSteps DEF Kinded

\* The event of a puppet in a room that is not managed stays the first one.
LEMMA StuckStep ==
    ASSUME TypeOK, StateInv, EventInv, StuckInv, [Next]_vars
    PROVE  StuckInv'
<1> USE Types, Apartness
<1> SUFFICES ASSUME NEW r \in Places, NameOf(r)' = {}, present'[r] \cap People # {}
             PROVE  queue' # <<>> /\ e'.kind = "invite" /\ e'.x \in People /\ e'.r = r
  BY DEF StuckInv
<1>0. NameOf(r) = {}
  BY OnlyGrow DEF NameOf
<1>1. ASSUME present[r] \cap People # {}
      PROVE  queue # <<>> /\ e.kind = "invite" /\ e.x \in People /\ e.r = r
  BY <1>0, <1>1 DEF StuckInv
<1>2. ASSUME queue # <<>>, UNCHANGED queue \/ \E v : Deliver(v) PROVE queue' # <<>> /\ e' = e
  BY <1>2, AppendAt DEF e
<1>3. CASE Answered
  <2>1. present[r] \cap People # {} /\ NameOf(e.r) = NameOf(r) => FALSE
    BY <1>0, <1>1, <1>3 DEF Answered
  <2> QED
    BY <1>0, <1>1, <1>3, <2>1 DEF Answered, Still
<1>4. CASE Quiet \/ Managed
  BY <1>1, <1>2, <1>4 DEF Quiet, Managed, Still
<1>5. CASE Created
  <2>1. present'[r] \cap People \subseteq present[r] /\ UNCHANGED queue
    BY <1>5 DEF Created
  <2> QED
    BY <1>1, <1>2, <2>1
<1>6. ASSUME NEW q \in Places, NEW x \in Everyone, Entered(x, q)
      PROVE  queue' # <<>> /\ e'.kind = "invite" /\ e'.x \in People /\ e'.r = r
  <2>1. UNCHANGED queue \/ \E v : Deliver(v)
    BY <1>6 DEF Entered
  <2>2. CASE present[r] \cap People # {}
    BY <1>1, <1>2, <2>1, <2>2
  <2>3. CASE present[r] \cap People = {}
    <3>1. q = r /\ x \in People
      BY <1>6, <2>3 DEF Entered, EnterPlace
    <3>2. queue # <<>> /\ Invites(1, r, x)
      BY <1>0, <1>6, <3>1 DEF Entered
    <3> QED
      BY <1>2, <2>1, <3>1, <3>2, HeadAt DEF Invites
  <2> QED
    BY <2>2, <2>3
<1>7. CASE \E q \in Places, by, x \in Everyone, arg \in BOOLEAN : Asked(by, x, q, arg)
  BY <1>1, <1>2, <1>7 DEF Asked
<1>8. CASE \E q \in Places, u \in Users : Kicked(u, q)
  <2>1. present'[r] \subseteq present[r] /\ \E v : Deliver(v)
    BY <1>8 DEF Kicked
  <2> QED
    BY <1>1, <1>2, <2>1
<1>9. CASE \E q \in Places, u \in Users, kind \in {"text", "bridge"},
               arg \in Names \cup {None, Bad} : Wrote(u, q, kind, arg)
  BY <1>1, <1>2, <1>9 DEF Wrote, Still
<1> QED
  BY <1>3, <1>4, <1>5, <1>6, <1>7, <1>8, <1>9, ServerSteps DEF Kinded

\* A new event harms no room that is managed.
Harmless(v, r) ==
    v.r = r =>
        /\ v.kind = "bridge" => Interested(r)'
        /\ v.kind = "invite" /\ v.x = Bot => NameOf(r) = {}

\* A step that lets rooms and management rooms be keeps them apart.
LEMMA ApartFrame ==
    ASSUME TypeOK, StateInv, EventInv, ApartInv, [Next]_vars, SameRooms,
           NEW r \in Places, r \notin left',
           UNCHANGED queue \/ \E v : Deliver(v) /\ Harmless(v, r)
    PROVE  /\ NameOf(r)' # {} => /\ Bot \in present'[r] /\ r \notin ManagementRooms'
                                 /\ \A i \in DOMAIN queue' :
                                        Invites(i, r, Bot)' => queue'[i].arg # TRUE
           /\ r \in ManagementRooms' => Bot \in present'[r]
           /\ \A i \in DOMAIN queue' :
                queue'[i].kind = "bridge" /\ queue'[i].r = r => Interested(r)'
<1> USE Types, Apartness
<1>1. /\ r \notin left /\ present[r] \subseteq present'[r]
      /\ NameOf(r)' = NameOf(r) /\ ManagementRooms' = ManagementRooms
  BY OthersStay DEF SameRooms, NameOf, ManagementRooms
<1>2. Interested(r) => Interested(r)'
  BY <1>1 DEF Interested
<1>3. /\ NameOf(r)' # {} => Bot \in present'[r] /\ r \notin ManagementRooms'
      /\ r \in ManagementRooms' => Bot \in present'[r]
  BY <1>1 DEF ApartInv
<1>4. ASSUME NEW i \in DOMAIN queue
      PROVE  /\ Invites(i, r, Bot) /\ NameOf(r) # {} => queue[i].arg # TRUE
             /\ queue[i].kind = "bridge" /\ queue[i].r = r => Interested(r)'
  BY <1>1, <1>2 DEF ApartInv
<1>5. CASE UNCHANGED queue
  BY <1>1, <1>3, <1>4, <1>5 DEF Invites
<1>6. ASSUME NEW v, Deliver(v), Harmless(v, r)
      PROVE  \A i \in DOMAIN queue' :
                /\ Invites(i, r, Bot)' /\ NameOf(r) # {} => queue'[i].arg # TRUE
                /\ queue'[i].kind = "bridge" /\ queue'[i].r = r => Interested(r)'
  <2>1. \A i \in DOMAIN queue' : i = Len(queue) + 1 \/ (i \in DOMAIN queue /\ queue'[i] = queue[i])
    BY <1>6, AppendAt
  <2>2. queue'[Len(queue) + 1] = v
    BY <1>6, AppendAt
  <2> QED
    BY <1>4, <1>6, <2>1, <2>2 DEF Invites, Harmless
<1> QED
  BY <1>1, <1>3, <1>5, <1>6

LEMMA ApartStep ==
    ASSUME TypeOK, StateInv, EventInv, FreshInv, BotInv, StuckInv, ApartInv, [Next]_vars
    PROVE  ApartInv'
<1> USE Types, Apartness
<1> DEFINE Kept(r) ==
              /\ NameOf(r)' # {} => /\ Bot \in present'[r] /\ r \notin ManagementRooms'
                                    /\ \A i \in DOMAIN queue' :
                                            Invites(i, r, Bot)' => queue'[i].arg # TRUE
              /\ r \in ManagementRooms' => Bot \in present'[r]
              /\ \A i \in DOMAIN queue' :
                    queue'[i].kind = "bridge" /\ queue'[i].r = r => Interested(r)'
<1>1. ASSUME NEW r \in Places, r \notin left' PROVE Kept(r)
  <2>0. r \notin left
    BY <1>1, OthersStay
  <2>1. CASE Quiet
    BY <1>1, <2>1, ApartFrame DEF Quiet
  <2>2. CASE Created
    BY <1>1, <2>2, ApartFrame DEF Created
  <2>3. ASSUME NEW q \in Places, NEW by \in Everyone, NEW x \in Everyone, NEW arg \in BOOLEAN,
               Asked(by, x, q, arg)
        PROVE  Kept(r)
    <3>1. NameOf(r) # {} => Bot \in present[r]
      BY <2>0 DEF ApartInv
    <3>2. Harmless(Event("invite", q, by, x, arg), r)
      BY <2>3, <3>1, EventFields DEF Harmless, Asked, CanInvite
    <3> QED
      BY <1>1, <2>3, <3>2, ApartFrame DEF Asked
  <2>4. ASSUME NEW q \in Places, NEW x \in Everyone, Entered(x, q) PROVE Kept(r)
    <3>1. Harmless(Event("join", q, x, x, None), r)
      BY EventFields DEF Harmless
    <3> QED
      BY <1>1, <2>4, <3>1, ApartFrame DEF Entered
  <2>5. ASSUME NEW q \in Places, NEW u \in Users, Kicked(u, q) PROVE Kept(r)
    <3>1. Harmless(Event("leave", q, u, Bot, None), r)
      BY EventFields DEF Harmless
    <3> QED
      BY <1>1, <2>5, <3>1, ApartFrame DEF Kicked
  <2>6. ASSUME NEW q \in Places, NEW u \in Users, NEW kind, NEW arg, Wrote(u, q, kind, arg)
        PROVE  Kept(r)
    <3>1. Interested(q)'
      BY <2>6 DEF Wrote, Interested, Still
    <3>2. Harmless(Event(kind, q, u, None, arg), r)
      BY <2>6, <3>1, EventFields DEF Harmless, Wrote
    <3> QED
      BY <1>1, <2>6, <3>2, ApartFrame DEF Wrote
  <2>7. CASE Answered
    <3>1. /\ NameOf(r)' = NameOf(r) /\ present' = present /\ Interested(r)' = Interested(r)
          /\ queue # <<>>
      BY <2>7 DEF Answered, Still, NameOf, Interested
    <3>2. ASSUME NEW i \in DOMAIN queue'
          PROVE  /\ NameOf(r)' # {} /\ Invites(i, r, Bot)' => queue'[i].arg # TRUE
                 /\ queue'[i].kind = "bridge" /\ queue'[i].r = r => Interested(r)'
      <4>1. i + 1 \in DOMAIN queue /\ queue'[i] = queue[i + 1]
        BY <2>7, PopAt DEF Answered, Answer
      <4> QED
        BY <2>0, <3>1, <4>1 DEF ApartInv, Invites
    <3>3. r \in ManagementRooms' => r \in ManagementRooms \/
            (r = e.r /\ At("invited") /\ e.kind = "invite" /\ e.x = Bot /\ e.arg = TRUE)
      BY <2>7 DEF Answered, ManagementRooms
    <3>4. CASE r \in ManagementRooms' => r \in ManagementRooms
      BY <2>0, <3>1, <3>2, <3>4 DEF ApartInv
    <3>5. CASE r = e.r /\ At("invited") /\ e.kind = "invite" /\ e.x = Bot /\ e.arg = TRUE
      <4>1. Bot \in present[r]
        BY <2>0, <3>5, HolderFacts DEF EventInv, At
      <4>2. Invites(1, r, Bot) /\ queue[1].arg = TRUE /\ 1 \in DOMAIN queue
        BY <3>1, <3>5, HeadAt DEF Invites
      <4>3. NameOf(r) = {}
        BY <2>0, <4>2 DEF ApartInv
      <4> QED
        BY <3>1, <3>2, <4>1, <4>3
    <3> QED
      BY <3>3, <3>4, <3>5
  <2>8. CASE Managed
    <3>1. /\ present' = present /\ UNCHANGED <<queue, management>>
          /\ ManagementRooms' = ManagementRooms /\ Interested(r)' = Interested(r)
          /\ r # job.r => NameOf(r)' = NameOf(r)
      BY <2>8 DEF Managed, Still, NameOf, Interested, ManagementRooms
    <3>2. CASE r # job.r
      BY <2>0, <3>1, <3>2 DEF ApartInv, Invites
    <3>3. CASE r = job.r
      <4>1. job.step \in {"bridge", "add"}
        BY <2>8 DEF Managed, AddRoom, Bridge, At
      <4>2. Bot \in present[r] /\ r \notin ManagementRooms
        BY <2>0, <3>3, <4>1 DEF ApartInv, At
      <4>3. \A i \in DOMAIN queue : ~Invites(i, r, Bot)
        <5>1. CASE job.step = "add"
          BY <3>3, <5>1 DEF FreshInv, At, Invites
        <5>2. CASE job.step = "bridge"
          <6>1. queue # <<>> /\ e.kind = "bridge"
            BY <5>2, HolderFacts DEF EventInv
          <6>2. \A i \in DOMAIN queue : Invites(i, r, Bot) => i = 1
            BY <2>0, <4>2 DEF BotInv
          <6> QED
            BY <6>1, <6>2, HeadAt DEF Invites
        <5> QED
          BY <4>1, <5>1, <5>2
      <4> QED
        BY <2>0, <3>1, <4>2, <4>3 DEF ApartInv, Invites
    <3> QED
      BY <3>2, <3>3
  <2> HIDE DEF Kept
  <2> QED
    BY <2>1, <2>2, <2>3, <2>4, <2>5, <2>6, <2>7, <2>8, ServerSteps DEF Kinded
<1>2. ASSUME job'.step \in {"add", "newroom", "bridge"}
      PROVE  job'.r \in left' \/ (Bot \in present'[job'.r] /\ job'.r \notin ManagementRooms')
  <2>1. CASE job' = job /\ (Environment \/ UNCHANGED vars)
    <3>1. job.r \in Places
      BY <1>2, <2>1, Apartness DEF StateInv, HolderInv, At
    <3>2. job.r \in left \/ (Bot \in present[job.r] /\ job.r \notin ManagementRooms)
      BY <1>2, <2>1 DEF ApartInv, At
    <3>3. UNCHANGED management
      BY <2>1 DEF Environment, TomsgJoin, UserInvites, UserJoins, UserKicks, UserWrites, memory, vars
    <3>4. ManagementRooms' = ManagementRooms
      BY <3>3 DEF ManagementRooms
    <3> QED
      BY <2>1, <3>1, <3>2, <3>4, OthersStay
  <2>2. CASE HandleBridge /\ MayBridge(e.r) /\ job'.step # "add" /\ job'.r = e.r
    <3>1. /\ queue # <<>> /\ e.kind = "bridge" /\ e.r \in Places
          /\ UNCHANGED <<present, left, management>>
      BY <2>2, FirstEvent DEF HandleBridge, servers, ghosts, memory
    <3>2. NameOf(e.r) = {} /\ e.r \notin ManagementRooms
      BY <2>2 DEF MayBridge
    <3>3. present[e.r] \cap People = {}
      BY <3>1, <3>2 DEF StuckInv
    <3>4. e.r \notin left => Interested(e.r)
      BY <3>1, HeadAt DEF ApartInv
    <3>5. ManagementRooms' = ManagementRooms
      BY <3>1 DEF ManagementRooms
    <3> QED
      BY <2>2, <3>1, <3>2, <3>3, <3>4, <3>5 DEF Interested
  <2>3. CASE NewRoom /\ job'.r = job.r
    <3>1. UNCHANGED <<present, left, management>> /\ At("newroom")
      BY <2>3 DEF NewRoom, memory
    <3>2. ManagementRooms' = ManagementRooms
      BY <3>1 DEF ManagementRooms
    <3> QED
      BY <2>3, <3>1, <3>2 DEF ApartInv
  <2>4. CASE Created /\ job'.r = job.n
    <3>1. /\ job.n \in Places /\ present[job.n] = {} /\ UNCHANGED <<management, left>>
          /\ present'[job.n] = {Bot}
      BY <2>4 DEF Created, SameRooms
    <3>2. job.n \in left \/ job.n \notin ManagementRooms
      BY <3>1 DEF ApartInv
    <3>3. ManagementRooms' = ManagementRooms
      BY <3>1 DEF ManagementRooms
    <3> QED
      BY <2>4, <3>1, <3>2, <3>3
  <2> QED
    BY <1>2, <2>1, <2>2, <2>3, <2>4, AboutTo
<1> QED
  BY <1>1, <1>2 DEF ApartInv, At

---------------------------------------------------------------------------
\* Rooms that are made and forgotten.

\* Which steps the holder of the lock is at when an action is taken.
StepsAt ==
    \/ EnsureFails \/ Panic \/ Crash \/ Idle
    \/ job' = job /\ (Environment \/ UNCHANGED vars)
    \/ job.step = "add" /\ AddRoom
    \/ job.step = "bridge" /\ Bridge
    \/ job.step = "members" /\ (RecordMembers \/ \E p \in job.todo : InviteMember(p))
    \/ job.step = "join" /\ JoinMember
    \/ job.step = "puppet" /\ JoinUninvited
    \/ job.step = "invited" /\ Invited
    \/ job.step = "list" /\ List
    \/ job.step \in {"room", "create", "enter", "welcome", "newroom", "send"}

LEMMA StepAt ==
    ASSUME TypeOK, StateInv, [Next]_vars
    PROVE  StepsAt
<1> USE DEF StepsAt, At
<1>1. CASE Session
  BY <1>1, Begins
<1>2. CASE Environment
  BY <1>2, HeadStays
<1>3. CASE UNCHANGED vars
  BY <1>3 DEF vars
<1>4. CASE NextRoom \/ CreateRoom \/ Enter \/ Welcome \/ NewRoom \/ SendInvite \/ Bridged
  BY <1>4 DEF NextRoom, CreateRoom, Enter, Welcome, NewRoom, SendInvite, Bridged
<1>5. CASE HandleInvite \/ HandleJoin \/ HandleLeave \/ HandleText \/ HandleBridge
  BY <1>5 DEF HandleInvite, HandleJoin, HandleLeave, HandleText, HandleBridge, First
<1>6. CASE AddRoom \/ Bridge \/ RecordMembers \/ JoinMember \/ JoinUninvited \/ Invited \/ List
  <2>1. AddRoom => job.step = "add"
    BY DEF AddRoom
  <2>2. Bridge => job.step = "bridge"
    BY DEF Bridge
  <2>3. RecordMembers => job.step = "members"
    BY DEF RecordMembers
  <2>4. JoinMember => job.step = "join"
    BY DEF JoinMember
  <2>5. JoinUninvited => job.step = "puppet"
    BY DEF JoinUninvited
  <2>6. Invited => job.step = "invited"
    BY DEF Invited
  <2>7. List => job.step = "list"
    BY DEF List
  <2> QED
    BY <1>6, <2>1, <2>2, <2>3, <2>4, <2>5, <2>6, <2>7
<1>7. ASSUME NEW p \in People, InviteMember(p)
      PROVE  job.step = "members" /\ \E q \in job.todo : InviteMember(q)
  BY <1>7 DEF InviteMember
<1>8. CASE EnsureFails \/ Panic \/ Crash
  BY <1>8
<1> QED
  BY <1>1, <1>2, <1>3, <1>4, <1>5, <1>6, <1>7, <1>8 DEF Next, Work

\* create_room alone makes a room for its name.
LEMMA Founded ==
    ASSUME TypeOK, StateInv, EventInv, [Next]_vars, NEW r \in Places,
           present[r] = {}, present'[r] # {}
    PROVE  Created /\ r = job.n
<1> USE Types
<1>1. ASSUME NEW x, NEW q \in Places, Entered(x, q) PROVE present'[r] = {}
  BY <1>1 DEF Entered, EnterPlace
<1>2. ASSUME NEW u, NEW q \in Places, Kicked(u, q) PROVE present'[r] = {}
  BY <1>2 DEF Kicked
<1> QED
  BY <1>1, <1>2, ServerSteps DEF Kinded, Quiet, Answered, Managed, Created, Asked, Wrote, Still

\* The command bridge alone makes rooms on tomsg.
LEMMA BornStep ==
    ASSUME TypeOK, StateInv, [Next]_vars, NEW n \in born', n \notin born
    PROVE  NewRoom /\ job'.step = "bridge" /\ job'.n = n
<1> USE Types
<1>1. CASE NewRoom
  <2>1. PICK k \in Names : born' = born \cup {k} /\ job' = [job EXCEPT !.step = "bridge", !.n = k]
    BY <1>1 DEF NewRoom
  <2> QED
    BY <1>1, <2>1 DEF JobType
<1>2. CASE Session
  BY <1>2, Begins DEF ghosts
<1>3. CASE Environment
  BY <1>3 DEF Environment, TomsgJoin, UserInvites, UserJoins, UserKicks, UserWrites, ghosts
<1>4. CASE NextRoom \/ CreateRoom \/ AddRoom \/ Enter \/ JoinUninvited \/ List \/ JoinMember
           \/ RecordMembers \/ Welcome \/ HandleInvite \/ Invited \/ HandleJoin \/ HandleLeave
           \/ HandleText \/ SendInvite \/ HandleBridge \/ Bridge \/ Bridged
           \/ EnsureFails \/ Panic \/ Crash \/ UNCHANGED vars
  BY <1>4 DEF NextRoom, CreateRoom, AddRoom, Enter, JoinUninvited, List, JoinMember,
     RecordMembers, Welcome, HandleInvite, Invited, HandleJoin, HandleLeave, HandleText,
     SendInvite, HandleBridge, Bridge, Bridged, EnsureFails, Panic, Crash, vars, ghosts
<1>5. ASSUME NEW p \in People, InviteMember(p) PROVE born' = born
  BY <1>5 DEF InviteMember, ghosts
<1> QED
  BY <1>1, <1>2, <1>3, <1>4, <1>5 DEF Next, Work

LEMMA FaultsStep ==
    ASSUME TypeOK, StateInv, [Next]_vars
    PROVE  \/ faults' = faults /\ ~Panic /\ ~Crash
           \/ /\ Panic \/ Crash
              /\ faults' = faults + 1 /\ job' = NoJob /\ UNCHANGED <<present, born, rooms>>
<1>1. CASE Panic \/ Crash
  <2>1. Crash => UNCHANGED rooms
    BY CrashReloads DEF StateInv, memory
  <2> QED
    BY <1>1, <2>1 DEF Panic, Crash, Fault, Release, servers, ghosts, memory
<1>2. CASE ~Panic /\ ~Crash
  <2>1. CASE Session
    BY <1>2, <2>1, Begins
  <2>2. CASE Environment
    BY <1>2, <2>2 DEF Environment, TomsgJoin, UserInvites, UserJoins, UserKicks, UserWrites
  <2>3. CASE NextRoom \/ CreateRoom \/ AddRoom \/ Enter \/ JoinUninvited \/ List \/ JoinMember
             \/ RecordMembers \/ Welcome \/ HandleInvite \/ Invited \/ HandleJoin \/ HandleLeave
             \/ HandleText \/ SendInvite \/ HandleBridge \/ NewRoom \/ Bridge \/ Bridged
             \/ EnsureFails \/ UNCHANGED vars
    BY <1>2, <2>3 DEF EnsureFails, NextRoom, CreateRoom, AddRoom, Enter, JoinUninvited, List, JoinMember,
       RecordMembers, Welcome, HandleInvite, Invited, HandleJoin, HandleLeave, HandleText,
       SendInvite, HandleBridge, NewRoom, Bridge, Bridged, vars, bounds
  <2>4. ASSUME NEW p \in People, InviteMember(p) PROVE faults' = faults
    BY <2>4 DEF InviteMember, bounds
  <2> QED
    BY <1>2, <2>1, <2>2, <2>3, <2>4 DEF Next, Work
<1> QED
  BY <1>1, <1>2

\* Of finite sets that get no larger.
LEMMA Fewer ==
    ASSUME NEW S, NEW T, IsFiniteSet(S), T \subseteq S
    PROVE  IsFiniteSet(T) /\ Cardinality(T) <= Cardinality(S)
           /\ Cardinality(T) \in Nat /\ Cardinality(S) \in Nat
  BY FS_Subset, FS_CardinalityType

LEMMA OneMore ==
    ASSUME NEW S, NEW T, NEW x, IsFiniteSet(S), T \subseteq S \cup {x}
    PROVE  IsFiniteSet(T) /\ Cardinality(T) <= Cardinality(S) + 1
           /\ Cardinality(T) \in Nat /\ Cardinality(S) \in Nat
<1>1. IsFiniteSet(S \cup {x}) /\ Cardinality(S \cup {x}) =
            IF x \in S THEN Cardinality(S) ELSE Cardinality(S) + 1
  BY FS_AddElement
<1>2. Cardinality(S) \in Nat /\ Cardinality(S \cup {x}) \in Nat
  BY <1>1, FS_CardinalityType
<1>3. IsFiniteSet(T) /\ Cardinality(T) <= Cardinality(S \cup {x}) /\ Cardinality(T) \in Nat
  BY <1>1, Fewer
<1> QED
  BY <1>1, <1>2, <1>3

LEMMA StrayStep ==
    ASSUME TypeOK, StateInv, EventInv, StrayInv, [Next]_vars
    PROVE  StrayInv'
<1> USE Types
<1>0. /\ IsFiniteSet(Unadded) /\ IsFiniteSet(Unbridged)
      /\ Cardinality(Unadded) + Cardinality(Unbridged) <= faults
      /\ HolderInv /\ Names \subseteq Places
  BY Apartness DEF StrayInv, StateInv
<1>1. CASE faults' = faults /\ ~Panic /\ ~Crash
  <2>1. Unadded' \subseteq Unadded
    <3> SUFFICES ASSUME NEW n \in Names, present'[n] # {}, <<n, n>> \notin rooms',
                        ~(job'.step = "add" /\ n = job'.n)
                 PROVE  n \in Unadded
      BY DEF Unadded, At
    <3>1. <<n, n>> \notin rooms
      BY OnlyGrow
    <3>2. present[n] # {}
      <4>1. ASSUME Created, n = job.n PROVE FALSE
        BY <4>1 DEF Created, Go, JobType
      <4> QED
        BY <1>0, <4>1, Founded
    <3>3. ASSUME job.step = "add", n = job.n PROVE FALSE
      <4>1. AddRoom \/ job' = job
        BY <1>1, <3>3, StepAt DEF StepsAt, Idle, EnsureFails, At
      <4>2. AddRoom => <<job.n, job.n>> \in rooms'
        BY <1>0, <3>3 DEF AddRoom, Manage, HolderInv, At
      <4> QED
        BY <3>3, <4>1, <4>2
    <3> QED
      BY <3>1, <3>2, <3>3 DEF Unadded, At
  <2>2. Unbridged' \subseteq Unbridged
    <3> SUFFICES ASSUME NEW n \in born', PlaceOf(n)' = {}, ~(job'.step = "bridge" /\ n = job'.n)
                 PROVE  n \in Unbridged
      BY DEF Unbridged, At
    <3>1. PlaceOf(n) = {}
      BY OnlyGrow DEF PlaceOf
    <3>2. n \in born
      BY BornStep
    <3>3. ASSUME job.step = "bridge", n = job.n PROVE FALSE
      <4>1. Bridge \/ job' = job
        BY <1>1, <3>3, StepAt DEF StepsAt, Idle, EnsureFails, At
      <4>2. Bridge => <<job.n, job.r>> \in rooms'
        BY <3>1, <3>3 DEF Bridge, Known, Manage
      <4>3. job.r \in Places
        BY <1>0, <3>3 DEF HolderInv, At
      <4> QED
        BY <3>3, <4>1, <4>2, <4>3 DEF PlaceOf
    <3> QED
      BY <3>1, <3>2, <3>3 DEF Unbridged, At
  <2>3. IsFiniteSet(Unadded') /\ Cardinality(Unadded') <= Cardinality(Unadded)
        /\ Cardinality(Unadded') \in Nat /\ Cardinality(Unadded) \in Nat
    BY <1>0, <2>1, Fewer
  <2>4. IsFiniteSet(Unbridged') /\ Cardinality(Unbridged') <= Cardinality(Unbridged)
        /\ Cardinality(Unbridged') \in Nat /\ Cardinality(Unbridged) \in Nat
    BY <1>0, <2>2, Fewer
  <2> QED
    BY <1>0, <1>1, <2>3, <2>4 DEF StrayInv
<1>2. CASE faults' = faults + 1 /\ job' = NoJob /\ UNCHANGED <<present, born, rooms>>
  <2>0. job'.step = "idle"
    BY <1>2 DEF NoJob
  <2>1. CASE job.step = "add"
    <3>1. Unadded' \subseteq Unadded \cup {job.n} /\ Unbridged' \subseteq Unbridged
      BY <1>2, <2>0, <2>1 DEF Unadded, Unbridged, PlaceOf, At
    <3>2. IsFiniteSet(Unadded') /\ Cardinality(Unadded') <= Cardinality(Unadded) + 1
          /\ Cardinality(Unadded') \in Nat /\ Cardinality(Unadded) \in Nat
      BY <1>0, <3>1, OneMore
    <3>3. IsFiniteSet(Unbridged') /\ Cardinality(Unbridged') <= Cardinality(Unbridged)
          /\ Cardinality(Unbridged') \in Nat /\ Cardinality(Unbridged) \in Nat
      BY <1>0, <3>1, Fewer
    <3> QED
      BY <1>0, <1>2, <3>2, <3>3 DEF StrayInv
  <2>2. CASE job.step # "add"
    <3>1. Unadded' \subseteq Unadded /\ Unbridged' \subseteq Unbridged \cup {job.n}
      BY <1>2, <2>0, <2>2 DEF Unadded, Unbridged, PlaceOf, At
    <3>2. IsFiniteSet(Unadded') /\ Cardinality(Unadded') <= Cardinality(Unadded)
          /\ Cardinality(Unadded') \in Nat /\ Cardinality(Unadded) \in Nat
      BY <1>0, <3>1, Fewer
    <3>3. IsFiniteSet(Unbridged') /\ Cardinality(Unbridged') <= Cardinality(Unbridged) + 1
          /\ Cardinality(Unbridged') \in Nat /\ Cardinality(Unbridged) \in Nat
      BY <1>0, <3>1, OneMore
    <3> QED
      BY <1>0, <1>2, <3>2, <3>3 DEF StrayInv
  <2> QED
    BY <2>1, <2>2
<1> QED
  BY <1>1, <1>2, FaultsStep

LEMMA StrayBound == TypeOK /\ StrayInv => NoStray
<1> SUFFICES ASSUME TypeOK, StrayInv PROVE NoStray
  OBVIOUS
<1>1. /\ IsFiniteSet(Unadded) /\ IsFiniteSet(Unbridged) /\ faults \in Nat
      /\ Cardinality(Unadded) + Cardinality(Unbridged) <= faults
  BY Types DEF StrayInv
<1>2. /\ IsFiniteSet(Unadded \cup Unbridged)
      /\ Cardinality(Unadded \cup Unbridged) =
            Cardinality(Unadded) + Cardinality(Unbridged) - Cardinality(Unadded \cap Unbridged)
  BY <1>1, FS_Union
<1>3. Cardinality(Unadded \cap Unbridged) \in Nat
  BY <1>1, FS_Intersection, FS_CardinalityType
<1>4. Cardinality(Unadded) \in Nat /\ Cardinality(Unbridged) \in Nat
      /\ Cardinality(Unadded \cup Unbridged) \in Nat
  BY <1>1, <1>2, FS_CardinalityType
<1>5. CASE job.step \in {"add", "bridge"}
  <2>1. Stray \subseteq (Unadded \cup Unbridged) \cup {job.n}
    BY <1>5 DEF Stray, Unadded, Unbridged, At
  <2>2. Cardinality(Stray) \in Nat /\ Cardinality(Stray) <= Cardinality(Unadded \cup Unbridged) + 1
    BY <1>2, <2>1, OneMore
  <2> QED
    BY <1>1, <1>2, <1>3, <1>4, <1>5, <2>2 DEF NoStray
<1>6. CASE job.step \notin {"add", "bridge"}
  <2>1. Stray \subseteq Unadded \cup Unbridged
    BY <1>6 DEF Stray, Unadded, Unbridged, At
  <2>2. Cardinality(Stray) \in Nat /\ Cardinality(Stray) <= Cardinality(Unadded \cup Unbridged)
    BY <1>2, <2>1, Fewer
  <2> QED
    BY <1>1, <1>2, <1>3, <1>4, <1>6, <2>2 DEF NoStray
<1> QED
  BY <1>5, <1>6

---------------------------------------------------------------------------
\* Puppets that are in a room.

LEMMA OneName ==
    ASSUME StateInv, NEW n, NEW k, NEW r, <<n, r>> \in rooms, <<k, r>> \in rooms
    PROVE  n = k
<1>1. <<n, r>>[1] = <<k, r>>[1] <=> <<n, r>>[2] = <<k, r>>[2]
  BY Zenon DEF StateInv, OneRoomPerName
<1> QED
  BY <1>1

\* How a puppet gets into a room.
LEMMA PuppetEnters ==
    ASSUME TypeOK, StateInv, EventInv, [Next]_vars, NEW r \in Places, NEW p \in People,
           p \notin present[r], p \in present'[r]
    PROVE  \/ /\ HandleInvite /\ job'.step = "invited" /\ job'.r = r /\ job'.x = p
           \/ (JoinMember \/ JoinUninvited) /\ job.r = r /\ job.x = p
<1> USE Types, Apartness
<1>1. ASSUME NEW x, NEW q \in Places, EnterPlace(x, q) PROVE x = p /\ q = r
  BY <1>1 DEF EnterPlace
<1>2. CASE HandleInvite
  <2>1. e.r \in Places /\ EnterPlace(e.x, e.r)
    BY <1>2, FirstEvent DEF HandleInvite
  <2>2. e.x = p /\ e.r = r
    BY <1>1, <2>1
  <2> QED
    BY <1>2, <2>2 DEF HandleInvite, NoJob
<1>3. CASE JoinMember \/ JoinUninvited
  <2>1. job.r \in Places
    BY <1>3, HolderFacts DEF JoinMember, JoinUninvited, At
  <2>2. EnterPlace(job.x, job.r)
    BY <1>3 DEF JoinMember, JoinUninvited
  <2> QED
    BY <1>1, <1>3, <2>1, <2>2
<1>4. CASE CreateRoom
  <2>1. job.n \in Places
    BY <1>4 DEF CreateRoom, StateInv, HolderInv, At
  <2> QED
    BY <1>4, <2>1 DEF CreateRoom
<1>5. CASE Environment
  <2>1. ASSUME NEW u \in Users, NEW q \in Places, UserJoins(u, q) PROVE FALSE
    BY <1>1, <2>1 DEF UserJoins
  <2>2. ASSUME NEW u \in Users, NEW q \in Places, UserKicks(u, q) PROVE FALSE
    BY <2>2 DEF UserKicks
  <2> QED
    BY <1>5, <2>1, <2>2 DEF Environment, TomsgJoin, UserInvites, UserWrites, servers
<1>6. CASE Session
  BY <1>6, Begins DEF servers
<1>7. CASE NextRoom \/ AddRoom \/ Enter \/ List \/ RecordMembers \/ Welcome \/ Invited
           \/ HandleJoin \/ HandleLeave \/ HandleText \/ SendInvite \/ HandleBridge \/ NewRoom
           \/ Bridge \/ Bridged \/ EnsureFails \/ Panic \/ Crash \/ UNCHANGED vars
  BY <1>7 DEF NextRoom, AddRoom, Enter, List, RecordMembers, Welcome, Invited,
     HandleJoin, HandleLeave, HandleText, SendInvite, HandleBridge, NewRoom, Bridge,
     Bridged, EnsureFails, Panic, Crash, vars, servers
<1>8. ASSUME NEW x \in People, InviteMember(x) PROVE FALSE
  BY <1>8 DEF InviteMember
<1> QED
  BY <1>2, <1>3, <1>4, <1>5, <1>6, <1>7, <1>8 DEF Next, Work

\* How an event that invites a puppet, of somebody who is in the room.
LEMMA NewEvent ==
    ASSUME TypeOK, StateInv, EventInv, [Next]_vars, NEW v, Deliver(v)
    PROVE  \A r \in Places, p \in People :
              v.kind = "invite" /\ v.r = r /\ v.x = p =>
                \/ Users \cap present[r] # {}
                \/ job'.step = "join" /\ job'.r = r /\ job'.x = p
<1> USE Types, Apartness
<1>0. \A w : Deliver(w) => w = v
  BY AppendAt
<1>1. ASSUME NEW q \in Places, NEW by \in Everyone, NEW x \in Everyone, NEW arg \in BOOLEAN,
             Asked(by, x, q, arg), NEW p \in People, v.kind = "invite", v.x = p
      PROVE  \/ Users \cap present[v.r] # {}
             \/ job'.step = "join" /\ job'.r = v.r /\ job'.x = p
  <2>1. v = Event("invite", q, by, x, arg)
    BY <1>0, <1>1 DEF Asked
  <2>2. x = p /\ v.r = q
    BY <1>1, <2>1, EventFields
  <2> QED
    BY <1>1, <2>2 DEF Asked, CanInvite
<1>2. ASSUME NEW q \in Places, NEW x \in Everyone, Entered(x, q), v.kind = "invite" PROVE FALSE
  <2>1. ~UNCHANGED queue
    BY AppendAt
  <2>2. v = Event("join", q, x, x, None)
    BY <1>0, <1>2, <2>1 DEF Entered
  <2> QED
    BY <1>2, <2>2, EventFields
<1>3. ASSUME NEW q \in Places, NEW u \in Users, Kicked(u, q), v.kind = "invite" PROVE FALSE
  <2>1. v = Event("leave", q, u, Bot, None)
    BY <1>0, <1>3 DEF Kicked
  <2> QED
    BY <1>3, <2>1, EventFields
<1>4. ASSUME NEW q \in Places, NEW u \in Users, NEW kind, NEW arg, Wrote(u, q, kind, arg),
             v.kind = "invite"
      PROVE  FALSE
  <2>1. v = Event(kind, q, u, None, arg) /\ kind # "invite"
    BY <1>0, <1>4 DEF Wrote
  <2> QED
    BY <1>4, <2>1, EventFields
<1>5. CASE Answered
  <2>1. Len(queue') = Len(queue) + 1
    BY DEF Deliver, TypeOK
  <2>2. Len(queue') = Len(queue) - 1 /\ Len(queue) \in Nat
    BY <1>5, TailTyped DEF Answered, Answer, TypeOK
  <2> QED
    BY <2>1, <2>2
<1>6. CASE Quiet \/ Managed \/ Created
  <2>1. UNCHANGED queue
    BY <1>6 DEF Quiet, Managed, Created
  <2> QED
    BY <2>1, AppendAt
<1> QED
  BY <1>1, <1>2, <1>3, <1>4, <1>5, <1>6, ServerSteps DEF Kinded

\* Nothing that was cut off is forgotten.
LEMMA UnrecordedGrows ==
    ASSUME [Next]_vars
    PROVE  unrecorded \subseteq unrecorded'
<1> USE DEF ghosts
<1>1. CASE Session
  BY <1>1, Begins
<1>2. CASE Environment
  BY <1>2 DEF Environment, TomsgJoin, UserInvites, UserJoins, UserKicks, UserWrites
<1>3. CASE NextRoom \/ CreateRoom \/ AddRoom \/ Enter \/ JoinUninvited \/ List \/ JoinMember
           \/ RecordMembers \/ Welcome \/ HandleInvite \/ Invited \/ HandleJoin \/ HandleLeave
           \/ HandleText \/ SendInvite \/ HandleBridge \/ NewRoom \/ Bridge \/ Bridged
           \/ UNCHANGED vars
  BY <1>3 DEF NextRoom, CreateRoom, AddRoom, Enter, JoinUninvited, List, JoinMember,
     RecordMembers, Welcome, HandleInvite, Invited, HandleJoin, HandleLeave, HandleText,
     SendInvite, HandleBridge, NewRoom, Bridge, Bridged, vars
<1>4. CASE EnsureFails \/ Panic \/ Crash
  BY <1>4 DEF EnsureFails, Panic, Crash, CutOff
<1>5. ASSUME NEW p \in People, InviteMember(p) PROVE unrecorded \subseteq unrecorded'
  BY <1>5 DEF InviteMember, CutOff
<1> QED
  BY <1>1, <1>2, <1>3, <1>4, <1>5 DEF Next, Work

\* A step of a state with the invariant.
Fitting ==
    /\ TypeOK /\ StateInv /\ EventInv /\ FreshInv /\ ApartInv /\ StuckInv /\ FitInv
    /\ [Next]_vars

LEMMA FittingFacts ==
    ASSUME Fitting
    PROVE  /\ TypeOK /\ StateInv /\ EventInv /\ FreshInv /\ ApartInv /\ StuckInv /\ [Next]_vars
           /\ unrecorded \subseteq unrecorded'
           /\ At("puppet") => In(job.n, job.x)
           /\ \A n \in Names, r \in Places : <<n, r>> \in rooms =>
                /\ \A p \in People :
                        p \in present[r] => Settled(n, r, p) \/ <<r, p>> \in unrecorded
                /\ Users \cap present[r] # {} =>
                        Lenders(n) # {} \/ \E i \in DOMAIN queue : JoinEvent(i, r)
                /\ \A i \in DOMAIN queue, p \in People :
                        Invites(i, r, p) => Arranged(n, r, p, i) \/ <<r, p>> \in unrecorded
           /\ job.step \in {"members", "join"} =>
                /\ {job.r} \X (job.todo \cap present[job.r]) \subseteq unrecorded
                /\ At("join") => job.x \notin job.todo
<1>1. TypeOK /\ StateInv /\ EventInv /\ FreshInv /\ ApartInv /\ StuckInv /\ FitInv /\ [Next]_vars
  BY DEF Fitting
<1>2. unrecorded \subseteq unrecorded'
  BY <1>1, UnrecordedGrows
<1> QED
  BY <1>1, <1>2, Zenon DEF FitInv

LEMMA LendersStay ==
    ASSUME Fitting, NEW n
    PROVE  Lenders(n) \subseteq Lenders(n)'
  BY FittingFacts, OnlyGrow DEF Lenders, In

LEMMA JoiningStays ==
    ASSUME Fitting, NEW n \in Names, NEW r \in Places, NEW p \in People,
           <<n, r>> \in rooms, Joining(r, p)
    PROVE  In(n, p)' \/ Joining(r, p)' \/ <<r, p>> \in unrecorded'
<1> USE FittingFacts
<1>0. job \in JobType /\ job.r = r /\ job.step \in {"members", "join"}
      /\ <<job.n, r>> \in rooms /\ job.n = n
  <2>1. job \in JobType /\ job.r = r /\ job.step \in {"members", "join"}
    BY Types DEF Joining
  <2>2. <<job.n, r>> \in rooms
    BY <2>1, HolderFacts
  <2> QED
    BY <2>1, <2>2, OneName
<1>1. CASE job' = job
  BY <1>1 DEF Joining, At
<1>2. ASSUME CutOff PROVE <<r, p>> \in unrecorded'
  <2>1. p \in Joined
    BY <1>0 DEF Joining, Joined, At
  <2> QED
    BY <1>0, <1>2, <2>1 DEF CutOff
<1>3. ASSUME NEW q \in job.todo, InviteMember(q), job.step = "members"
      PROVE  Joining(r, p)' \/ <<r, p>> \in unrecorded'
  <2>1. CASE CutOff
    BY <1>2, <2>1
  <2>2. CASE job' = [job EXCEPT !.step = "join", !.x = q, !.todo = @ \ {q}]
    <3>1. job'.step = "join" /\ job'.r = r /\ job'.res = job.res /\ p \in job.res
      BY <1>0, <1>3, <2>2 DEF JobType, Joining, At
    <3> QED
      BY <3>1 DEF Joining
  <2> QED
    BY <1>3, <2>1, <2>2 DEF InviteMember
<1>4. CASE job.step = "members" /\ RecordMembers
  <2>1. p \in job.res
    BY <1>4 DEF Joining, At
  <2> QED
    BY <1>0, <1>4, <2>1 DEF RecordMembers, Insert, In
<1>5. CASE job.step = "join" /\ JoinMember
  <2>1. job'.step = "members" /\ job'.r = r /\ job'.res = job.res \cup {job.x}
    BY <1>0, <1>5 DEF JoinMember, JobType
  <2> QED
    BY <1>5, <2>1 DEF Joining
<1>6. CASE EnsureFails \/ Panic \/ Crash
  BY <1>2, <1>6 DEF EnsureFails, Panic, Crash
<1> QED
  BY <1>0, <1>1, <1>3, <1>4, <1>5, <1>6, StepAt DEF StepsAt, Idle

LEMMA SettledStays ==
    ASSUME Fitting, NEW n \in Names, NEW r \in Places, NEW p \in People,
           <<n, r>> \in rooms, Settled(n, r, p) \/ <<r, p>> \in unrecorded
    PROVE  Settled(n, r, p)' \/ <<r, p>> \in unrecorded'
<1> USE FittingFacts
<1>0. CASE <<r, p>> \in unrecorded
  BY <1>0
<1>1. CASE In(n, p)
  BY <1>1, OnlyGrow DEF Settled, In
<1>2. CASE Joining(r, p)
  BY <1>2, JoiningStays DEF Settled
<1>3. CASE job.step = "invited" /\ job.r = r /\ job.x = p
  <2>1. CASE job' = job
    BY <1>3, <2>1 DEF Settled, At
  <2>2. CASE Invited
    <3>1. queue # <<>> /\ e.r = r /\ e.x = p /\ e.kind = "invite" /\ p # Bot /\ p \notin Users
      BY <1>3, HolderFacts, Apartness DEF EventInv, At
    <3>2. n \in NameOf(e.r) /\ \A k \in NameOf(e.r) : k = n
      BY <3>1, OneName DEF NameOf
    <3>3. \/ Lenders(n) = {} /\ UNCHANGED participants
          \/ Admit(n, p)
      BY <1>3, <2>2, <3>1, <3>2 DEF Invited
    <3>4. CASE Lenders(n) = {} /\ UNCHANGED participants
      <4>1. Invites(1, r, p) /\ 1 \in DOMAIN queue /\ \A k \in DOMAIN queue : ~(k < 1)
        BY <3>1, HeadAt, EventAt DEF Invites
      <4>2. Arranged(n, r, p, 1) \/ <<r, p>> \in unrecorded
        BY <4>1
      <4>3. ~Joining(r, p)
        BY <1>3 DEF Joining
      <4>4. In(n, p) \/ <<r, p>> \in unrecorded
        BY <3>4, <4>1, <4>2, <4>3 DEF Arranged
      <4> QED
        BY <1>0, <1>1, <4>4
    <3>5. CASE Admit(n, p)
      BY <3>5 DEF Admit, Insert, Settled, In
    <3> QED
      BY <3>3, <3>4, <3>5
  <2>3. CASE EnsureFails \/ Panic \/ Crash
    <3>1. p \in Joined
      BY <1>3 DEF Joined, At
    <3>2. CutOff
      BY <2>3 DEF EnsureFails, Panic, Crash
    <3> QED
      BY <1>3, <3>1, <3>2 DEF CutOff
  <2> QED
    BY <1>3, <2>1, <2>2, <2>3, StepAt DEF StepsAt, Idle
<1> QED
  BY <1>0, <1>1, <1>2, <1>3 DEF Settled, At

\* A room that becomes known has no puppets in it.
LEMMA NewRoomEmpty ==
    ASSUME Fitting, NEW n \in Names, NEW r \in Places, <<n, r>> \in rooms', <<n, r>> \notin rooms
    PROVE  /\ UNCHANGED <<present, queue>> /\ n = job.n /\ r = job.r
           /\ present[r] \cap People = {}
           /\ \/ present[r] \subseteq {Bot} /\ \A i \in DOMAIN queue : queue[i].r # r
              \/ Lenders(n)' # {}
<1> USE FittingFacts
<1>1. Managed
  BY ServerSteps DEF Kinded, Quiet, Answered, Created, Asked, Entered, Kicked, Wrote, SameRooms
<1>2. /\ UNCHANGED <<present, queue>> /\ n = job.n /\ r = job.r
      /\ NameOf(r) = {} /\ (AddRoom \/ Bridge)
      /\ rooms' = rooms \cup {<<job.n, job.r>>}
  BY <1>1 DEF Managed, Still
<1>3. CASE AddRoom
  <2>1. present[r] \subseteq {Bot} /\ \A i \in DOMAIN queue : queue[i].r # r
    BY <1>2, <1>3 DEF AddRoom, FreshInv, At
  <2> QED
    BY <1>2, <2>1, Apartness
<1>4. CASE Bridge
  <2>1. job.step = "bridge" /\ job.kind = "bridge" /\ e.kind = "bridge" /\ job.u \in Users
    BY <1>4, HolderFacts DEF Bridge, At, EventInv, StateInv, KindInv
  <2>2. present[r] \cap People = {}
    BY <1>2, <2>1 DEF StuckInv
  <2>3. participants' = participants \cup {<<job.n, job.u>>}
    BY <1>2, <1>4 DEF Bridge, Insert
  <2>4. job.u \in Lenders(n)'
    BY <1>2, <2>1, <2>3 DEF Lenders, In
  <2> QED
    BY <1>2, <2>2, <2>4
<1> QED
  BY <1>2, <1>3, <1>4

LEMMA PuppetsSettle ==
    ASSUME Fitting, NEW n \in Names, NEW r \in Places, NEW p \in People,
           <<n, r>> \in rooms', p \in present'[r]
    PROVE  Settled(n, r, p)' \/ <<r, p>> \in unrecorded'
<1> USE FittingFacts
<1>1. CASE <<n, r>> \notin rooms
  BY <1>1, NewRoomEmpty
<1>2. CASE <<n, r>> \in rooms /\ p \in present[r]
  BY <1>2, SettledStays
<1>3. CASE <<n, r>> \in rooms /\ p \notin present[r]
  <2>1. CASE job'.step = "invited" /\ job'.r = r /\ job'.x = p
    BY <2>1 DEF Settled, At
  <2>2. CASE JoinMember /\ job.r = r /\ job.x = p
    <3>1. job'.step = "members" /\ job'.r = r /\ p \in job'.res
      BY <2>2, Types DEF JoinMember, JobType
    <3> QED
      BY <3>1 DEF Settled, Joining
  <2>3. CASE JoinUninvited /\ job.r = r /\ job.x = p
    <3>1. At("puppet") /\ <<job.n, r>> \in rooms
      BY <2>3, HolderFacts DEF JoinUninvited, At
    <3>2. In(n, p)
      BY <1>3, <2>3, <3>1, OneName
    <3> QED
      BY <3>2, OnlyGrow DEF Settled, In
  <2> QED
    BY <1>3, <2>1, <2>2, <2>3, PuppetEnters
<1> QED
  BY <1>1, <1>2, <1>3

---------------------------------------------------------------------------
\* Events that are to come.

LEMMA PopHas ==
    ASSUME TypeOK, queue # <<>>, queue' = Tail(queue)
    PROVE  \A k \in DOMAIN queue : k # 1 => k - 1 \in DOMAIN queue' /\ queue'[k - 1] = queue[k]
<1>1. queue \in Seq(EventType) /\ Len(queue) \in Nat /\ DOMAIN queue = 1..Len(queue)
  BY DEF TypeOK
<1>2. queue' \in Seq(EventType) /\ Len(queue') = Len(queue) - 1 /\ DOMAIN queue' = 1..Len(queue')
  BY <1>1, TailTyped
<1>3. ASSUME NEW k \in DOMAIN queue, k # 1 PROVE k - 1 \in DOMAIN queue'
  BY <1>1, <1>2, <1>3
<1>4. ASSUME NEW k \in DOMAIN queue, k # 1 PROVE queue'[k - 1] = queue[k]
  <2>1. queue'[k - 1] = queue[(k - 1) + 1]
    BY <1>1, <1>3, <1>4, TailAt
  <2>2. (k - 1) + 1 = k
    BY <1>1
  <2> QED
    BY <2>1, <2>2
<1> QED
  BY <1>3, <1>4

LEMMA Unanswered ==
    ASSUME TypeOK, Answered
    PROVE  queue' # queue /\ \A v : ~Deliver(v)
<1>1. queue \in Seq(EventType) /\ queue # <<>> /\ queue' = Tail(queue) /\ Len(queue) \in Nat
  BY DEF TypeOK, Answered, Answer
<1>2. Len(queue') = Len(queue) - 1
  BY <1>1, TailTyped
<1>3. Len(queue') # Len(queue) /\ Len(queue') # Len(queue) + 1
  <2>1. \A n \in Nat : n - 1 # n /\ n - 1 # n + 1
    OBVIOUS
  <2> QED
    BY <1>1, <1>2, <2>1, Zenon
<1>4. ASSUME NEW v, Deliver(v) PROVE Len(queue') = Len(queue) + 1
  BY <1>1, <1>4 DEF Deliver
<1>5. queue' # queue
  BY <1>3, Zenon
<1> QED
  BY <1>3, <1>4, <1>5, Zenon

Extended == \E v : Deliver(v)

LEMMA QueueGrows ==
    ASSUME TypeOK, StateInv, EventInv, [Next]_vars
    PROVE  UNCHANGED queue \/ Answered \/ Extended
<1>1. ASSUME NEW q \in Places, NEW x \in Everyone, Entered(x, q)
      PROVE  UNCHANGED queue \/ Extended
  BY <1>1 DEF Entered, Extended
<1>2. ASSUME NEW q \in Places, NEW by \in Everyone, NEW x \in Everyone, NEW arg \in BOOLEAN,
             Asked(by, x, q, arg)
      PROVE  Extended
  BY <1>2, Zenon DEF Asked, Extended
<1>3. ASSUME NEW q \in Places, NEW u \in Users, Kicked(u, q) PROVE Extended
  BY <1>3, Zenon DEF Kicked, Extended
<1>4. ASSUME NEW q \in Places, NEW u \in Users, NEW kind, NEW arg, Wrote(u, q, kind, arg)
      PROVE  Extended
  BY <1>4, Zenon DEF Wrote, Extended
<1>5. CASE Quiet \/ Managed \/ Created
  BY <1>5 DEF Quiet, Managed, Created
<1> QED
  BY <1>1, <1>2, <1>3, <1>4, <1>5, ServerSteps DEF Kinded

\* How a user gets into a room.
LEMMA UserEnters ==
    ASSUME TypeOK, StateInv, EventInv, [Next]_vars, NEW r \in Places, NEW u \in Users,
           u \notin present[r], u \in present'[r]
    PROVE  Deliver(Event("join", r, u, u, None))
<1> USE Types, Apartness
<1>1. ASSUME NEW q \in Places, NEW x \in Everyone, Entered(x, q)
      PROVE  Deliver(Event("join", r, u, u, None))
  <2>1. x = u /\ q = r
    BY <1>1 DEF Entered, EnterPlace
  <2> QED
    BY <1>1, <2>1 DEF Entered
<1>2. ASSUME NEW q \in Places, NEW w \in Users, Kicked(w, q) PROVE FALSE
  BY <1>2 DEF Kicked
<1>3. ~Created
  BY DEF Created
<1> QED
  BY <1>1, <1>2, <1>3, ServerSteps
     DEF Kinded, Quiet, Answered, Managed, Asked, Wrote, Still

\* A join event stays until it is answered, which takes somebody who lends a
\* connection.
LEMMA JoinStays ==
    ASSUME Fitting, NEW n \in Names, NEW r \in Places, <<n, r>> \in rooms,
           NEW k \in DOMAIN queue, JoinEvent(k, r)
    PROVE  \/ Lenders(n)' # {}
           \/ ~Answered /\ k \in DOMAIN queue' /\ JoinEvent(k, r)'
           \/ Answered /\ k - 1 \in DOMAIN queue' /\ JoinEvent(k - 1, r)'
<1> USE FittingFacts
<1>1. CASE UNCHANGED queue
  BY <1>1, Unanswered DEF JoinEvent
<1>2. CASE Extended
  <2>1. PICK v : Deliver(v)
    BY <1>2 DEF Extended
  <2> QED
    BY <2>1, AppendAt, Unanswered DEF JoinEvent
<1>3. CASE Answered /\ k = 1
  <2>1. e.kind = "join" /\ e.r = r
    BY <1>3, HeadAt DEF JoinEvent
  <2>2. n \in NameOf(e.r)
    BY <2>1 DEF NameOf
  <2> QED
    BY <1>3, <2>1, <2>2, LendersStay DEF Answered
<1>4. CASE Answered /\ k # 1
  <2>1. k - 1 \in DOMAIN queue' /\ queue'[k - 1] = queue[k]
    BY <1>4, PopHas DEF Answered, Answer
  <2> QED
    BY <1>4, <2>1 DEF JoinEvent
<1> QED
  BY <1>1, <1>2, <1>3, <1>4, QueueGrows

\* Somebody in the room lends a connection, or is about to be admitted.
LEMMA LentStep ==
    ASSUME Fitting, NEW n \in Names, NEW r \in Places,
           <<n, r>> \in rooms', Users \cap present'[r] # {}
    PROVE  Lenders(n)' # {} \/ \E i \in DOMAIN queue' : JoinEvent(i, r)'
<1> USE FittingFacts, Apartness
<1>1. CASE <<n, r>> \notin rooms
  BY <1>1, NewRoomEmpty
<1>2. CASE <<n, r>> \in rooms /\ Users \cap present[r] # {}
  <2>1. CASE Lenders(n) # {}
    BY <2>1, LendersStay
  <2>2. ASSUME NEW k \in DOMAIN queue, JoinEvent(k, r)
        PROVE  Lenders(n)' # {} \/ \E i \in DOMAIN queue' : JoinEvent(i, r)'
    BY <1>2, <2>2, JoinStays
  <2> QED
    BY <1>2, <2>1, <2>2
<1>3. CASE <<n, r>> \in rooms /\ Users \cap present[r] = {}
  <2>1. PICK u \in Users : u \in present'[r]
    OBVIOUS
  <2>2. Deliver(Event("join", r, u, u, None))
    BY <1>3, <2>1, UserEnters
  <2>3. /\ Len(queue) + 1 \in DOMAIN queue'
        /\ queue'[Len(queue) + 1] = Event("join", r, u, u, None)
    BY <2>2, AppendAt
  <2> QED
    BY <2>3, EventFields DEF JoinEvent
<1> QED
  BY <1>1, <1>2, <1>3

\* An event of a puppet that was delivered before.
LEMMA ArrangedStays ==
    ASSUME Fitting, NEW n \in Names, NEW r \in Places, NEW p \in People,
           <<n, r>> \in rooms, NEW i \in DOMAIN queue,
           Arranged(n, r, p, i) \/ <<r, p>> \in unrecorded
    PROVE  \/ <<r, p>> \in unrecorded'
           \/ IF Answered THEN i # 1 => Arranged(n, r, p, i - 1)' ELSE Arranged(n, r, p, i)'
<1> USE FittingFacts, Apartness
<1>1. CASE In(n, p)
  BY <1>1, OnlyGrow DEF Arranged, In
<1>2. CASE Joining(r, p)
  BY <1>2, JoiningStays DEF Arranged
<1>3. CASE Lenders(n) # {}
  BY <1>3, LendersStay DEF Arranged
<1>4. ASSUME NEW k \in DOMAIN queue, k < i, JoinEvent(k, r)
      PROVE  IF Answered THEN i # 1 => Arranged(n, r, p, i - 1)' ELSE Arranged(n, r, p, i)'
  <2>1. k \in Nat /\ i \in Nat /\ k - 1 < i - 1
    BY <1>4, EventAt
  <2> QED
    BY <1>4, <2>1, JoinStays DEF Arranged
<1> QED
  BY <1>1, <1>2, <1>3, <1>4 DEF Arranged

\* The event of a puppet has been arranged for.
LEMMA ArrangedStep ==
    ASSUME Fitting, NEW n \in Names, NEW r \in Places, NEW p \in People,
           <<n, r>> \in rooms', NEW i \in DOMAIN queue', Invites(i, r, p)'
    PROVE  Arranged(n, r, p, i)' \/ <<r, p>> \in unrecorded'
<1> USE FittingFacts, Apartness
<1>1. CASE <<n, r>> \notin rooms
  <2>1. UNCHANGED queue /\ queue[i].r = r
    BY <1>1, NewRoomEmpty DEF Invites
  <2>2. Lenders(n)' # {}
    BY <1>1, <2>1, NewRoomEmpty
  <2> QED
    BY <2>2 DEF Arranged
<1>2. CASE <<n, r>> \in rooms /\ UNCHANGED queue
  <2>1. i \in DOMAIN queue /\ Invites(i, r, p)
    BY <1>2 DEF Invites
  <2>2. ~Answered
    BY <1>2, Unanswered
  <2> QED
    BY <1>2, <2>1, <2>2, ArrangedStays
<1>3. CASE <<n, r>> \in rooms /\ Answered
  <2>1. i \in Nat /\ i # 0 /\ i + 1 \in DOMAIN queue /\ queue'[i] = queue[i + 1]
    BY <1>3, PopAt DEF Answered, Answer
  <2>2. Invites(i + 1, r, p)
    BY <2>1 DEF Invites
  <2>3. Arranged(n, r, p, i + 1) \/ <<r, p>> \in unrecorded
    BY <1>3, <2>1, <2>2
  <2>4. i + 1 # 1 /\ (i + 1) - 1 = i
    BY <2>1
  <2>5. Arranged(n, r, p, (i + 1) - 1)' \/ <<r, p>> \in unrecorded'
    BY <1>3, <2>1, <2>3, <2>4, ArrangedStays
  <2> QED
    BY <2>4, <2>5
<1>4. ASSUME NEW v, Deliver(v), <<n, r>> \in rooms
      PROVE  Arranged(n, r, p, i)' \/ <<r, p>> \in unrecorded'
  <2>1. CASE i \in DOMAIN queue
    <3>1. Invites(i, r, p)
      BY <1>4, <2>1, AppendAt DEF Invites
    <3>2. ~Answered
      BY <1>4, Unanswered
    <3> QED
      BY <1>4, <2>1, <3>1, <3>2, ArrangedStays
  <2>2. CASE i \notin DOMAIN queue
    <3>1. i = Len(queue) + 1 /\ queue'[i] = v
      BY <1>4, <2>2, AppendAt
    <3>2. v.kind = "invite" /\ v.r = r /\ v.x = p
      BY <3>1 DEF Invites
    <3>3. CASE job'.step = "join" /\ job'.r = r /\ job'.x = p
      BY <3>3 DEF Arranged, Joining, At
    <3>4. CASE Users \cap present[r] # {}
      <4>1. CASE Lenders(n) # {}
        BY <4>1, LendersStay DEF Arranged
      <4>2. ASSUME NEW k \in DOMAIN queue, JoinEvent(k, r)
            PROVE  Arranged(n, r, p, i)'
        <5>1. k \in DOMAIN queue' /\ queue'[k] = queue[k] /\ k < i
          BY <1>4, <3>1, AppendAt, EventAt
        <5> QED
          BY <4>2, <5>1 DEF JoinEvent, Arranged
      <4> QED
        BY <1>4, <3>4, <4>1, <4>2
    <3> QED
      BY <1>4, <3>2, <3>3, <3>4, NewEvent
  <2> QED
    BY <2>1, <2>2
<1> QED
  BY <1>1, <1>2, <1>3, <1>4, QueueGrows DEF Extended

---------------------------------------------------------------------------
\* Inviting the puppets of a room.

\* The steps after which the holder of the lock is about to make puppets join.
LEMMA AboutToJoin ==
    ASSUME TypeOK, StateInv, [Next]_vars, job'.step \in {"members", "join", "puppet"}
    PROVE  \/ job' = job /\ (Environment \/ UNCHANGED vars)
           \/ Enter /\ job.kind = "join" /\ ~In(job.n, job.x) /\ job' = [job EXCEPT !.step = "puppet"]
           \/ List \/ JoinMember \/ \E p \in job.todo : InviteMember(p)
<1> USE Types
<1>1. ASSUME Release PROVE FALSE
  BY <1>1 DEF Release, NoJob
<1>2. ASSUME NEW st, Go(st) PROVE job' = [job EXCEPT !.step = st] /\ job'.step = st
  BY <1>2 DEF Go, JobType
<1>3. ~Session
  <2>1. ASSUME NEW u \in Users, NEW S \in SUBSET Names, BeginSetUp(u, S) PROVE FALSE
    BY <2>1 DEF BeginSetUp, NoJob
  <2>2. ASSUME NEW kind, NEW u \in Users, NEW n \in Names, NEW x \in Members,
               BeginPush(kind, u, n, x)
        PROVE  FALSE
    BY <2>2 DEF BeginPush, NoJob
  <2> QED
    BY <2>1, <2>2 DEF Session
<1>4. CASE Environment
  BY <1>4, HeadStays
<1>5. CASE UNCHANGED vars
  BY <1>5 DEF vars
<1>6. ASSUME NEW n, NEW x, Admit(n, x) PROVE FALSE
  BY <1>1, <1>6 DEF Admit, Answer, NoJob
<1>7. ~EnsureFails /\ ~Panic /\ ~Crash /\ ~JoinUninvited /\ ~HandleLeave /\ ~SendInvite /\ ~Bridged
  BY <1>1 DEF EnsureFails, Panic, Crash, JoinUninvited, HandleLeave, SendInvite, Bridged, Answer
<1>8. ~NextRoom /\ ~CreateRoom /\ ~AddRoom /\ ~RecordMembers
  <2>1. ASSUME NEW n \in job.rest, Reach(n) PROVE FALSE
    BY <2>1 DEF Reach, JobType
  <2> QED
    BY <1>1, <1>2, <2>1 DEF NextRoom, CreateRoom, AddRoom, RecordMembers
<1>9. ~Welcome /\ ~Bridge /\ ~HandleInvite /\ ~HandleBridge /\ ~NewRoom
  <2>1. ~Welcome /\ ~Bridge
    BY <1>1, <1>2 DEF Welcome, Bridge
  <2>2. ~HandleInvite /\ ~HandleBridge
    BY <1>1 DEF HandleInvite, HandleBridge, NoJob, Answer
  <2>3. ~NewRoom
    BY DEF NewRoom, JobType
  <2> QED
    BY <2>1, <2>2, <2>3
<1>10. ~Invited /\ ~HandleJoin /\ ~HandleText
  BY <1>1, <1>6 DEF Invited, HandleJoin, HandleText, Answer
<1>11. CASE Enter
  <2>1. job.step = "enter"
    BY <1>11 DEF Enter, At
  <2>2. CASE job.kind = "join" /\ (IF In(job.n, job.x) THEN Release ELSE Go("puppet"))
    BY <1>1, <1>2, <1>11, <2>2
  <2>3. CASE job' = [job EXCEPT !.step = "list", !.new = ~In(job.n, job.u)]
    BY <2>3 DEF JobType
  <2>4. CASE job' = [job EXCEPT !.step = "list", !.by = IF In(job.n, job.x) THEN job.x ELSE Bot]
    BY <2>4 DEF JobType
  <2>5. CASE Release
    BY <1>1, <2>5
  <2> QED
    BY <1>11, <2>2, <2>3, <2>4, <2>5 DEF Enter
<1>12. ASSUME NEW p \in People, InviteMember(p) PROVE \E q \in job.todo : InviteMember(q)
  BY <1>12 DEF InviteMember
<1> QED
  BY <1>3, <1>4, <1>5, <1>7, <1>8, <1>9, <1>10, <1>11, <1>12 DEF Next, Work

\* A puppet that joins because of a push is recorded first.
LEMMA PuppetStep ==
    ASSUME Fitting, job'.step = "puppet"
    PROVE  <<job'.n, job'.x>> \in participants'
<1> USE FittingFacts, Types
<1>1. CASE job' = job
  BY <1>1, OnlyGrow DEF At, In
<1>2. CASE Enter /\ job.kind = "join" /\ job' = [job EXCEPT !.step = "puppet"]
  <2>1. participants' = participants \cup {<<job.n, job.x>>}
    BY <1>2 DEF Enter, Insert
  <2>2. job'.n = job.n /\ job'.x = job.x
    BY <1>2 DEF JobType
  <2> QED
    BY <2>1, <2>2
<1>3. ~List /\ ~JoinMember
  <2>1. job \in JobType /\ ~Release
    BY DEF Release, NoJob
  <2>2. ~List
    BY <2>1 DEF List, JobType
  <2>3. ~JoinMember
    BY <2>1 DEF JoinMember, JobType
  <2> QED
    BY <2>2, <2>3
<1>4. ASSUME NEW p \in job.todo, InviteMember(p) PROVE FALSE
  <2>1. job \in JobType /\ ~Release
    BY DEF Release, NoJob
  <2> QED
    BY <1>4, <2>1 DEF InviteMember, JobType
<1> QED
  BY <1>1, <1>2, <1>3, <1>4, AboutToJoin

\* The puppets that are to be invited are not in the room, but for those that were
\* cut off.
LEMMA TodoStep ==
    ASSUME Fitting, job'.step \in {"members", "join"}
    PROVE  /\ {job'.r} \X (job'.todo \cap present'[job'.r]) \subseteq unrecorded'
           /\ job'.step = "join" => job'.x \notin job'.todo
<1> USE FittingFacts, Types, Apartness
<1>1. CASE List
  <2>1. /\ job' = [job EXCEPT !.step = "members", !.res = {},
                              !.todo = {p \in members[job.n] \cap People : ~In(job.n, p)}]
        /\ UNCHANGED present
    BY <1>1 DEF List, Release, NoJob, servers, ghosts
  <2>2. /\ job'.r = job.r /\ job'.step = "members" /\ job.step = "list"
        /\ job'.todo = {p \in members[job.n] \cap People : ~In(job.n, p)}
    BY <1>1, <2>1 DEF JobType, List, At
  <2>3. job.n \in Names /\ job.r \in Places /\ <<job.n, job.r>> \in rooms
    BY <2>1, <2>2, HolderFacts
  <2>4. ASSUME NEW p \in People, p \in present[job.r] PROVE In(job.n, p) \/ <<job.r, p>> \in unrecorded
    <3>1. Settled(job.n, job.r, p) \/ <<job.r, p>> \in unrecorded
      BY <2>3, <2>4
    <3> QED
      BY <2>2, <3>1 DEF Settled, Joining, At
  <2> QED
    BY <2>1, <2>2, <2>4
<1>2. ASSUME NEW q \in job.todo, InviteMember(q)
      PROVE  /\ {job'.r} \X (job'.todo \cap present'[job'.r]) \subseteq unrecorded'
             /\ job'.step = "join" => job'.x \notin job'.todo
  <2>1. /\ job' = [job EXCEPT !.step = "join", !.x = q, !.todo = @ \ {q}]
        /\ UNCHANGED present /\ job.step = "members"
    BY <1>2 DEF InviteMember, Release, NoJob, ghosts, At
  <2>2. job'.r = job.r /\ job'.x = q /\ job'.todo = job.todo \ {q}
    BY <2>1 DEF JobType
  <2>3. {job.r} \X (job.todo \cap present[job.r]) \subseteq unrecorded
    BY <2>1, <2>2
  <2> QED
    BY <2>1, <2>2, <2>3
<1>3. CASE JoinMember
  <2>1. /\ job' = [job EXCEPT !.step = "members", !.res = @ \cup {job.x}]
        /\ EnterPlace(job.x, job.r) /\ job.step = "join"
    BY <1>3 DEF JoinMember, ghosts, At
  <2>2. job'.step = "members" /\ job'.r = job.r /\ job'.todo = job.todo
    BY <2>1 DEF JobType
  <2>3. job.r \in Places
    BY <2>1, HolderFacts
  <2>4. job.x \notin job.todo /\ {job.r} \X (job.todo \cap present[job.r]) \subseteq unrecorded
    BY <2>1, <2>2 DEF At
  <2>5. present'[job.r] = present[job.r] \cup {job.x}
    BY <2>1, <2>3 DEF EnterPlace
  <2> QED
    BY <2>2, <2>4, <2>5
<1>4. CASE job' = job /\ (Environment \/ UNCHANGED vars)
  <2>1. /\ job.step \in {"members", "join"} /\ job.r \in Places
        /\ job.n \in Names /\ <<job.n, job.r>> \in rooms
    BY <1>4, OthersStay, HolderFacts
  <2>2. /\ {job.r} \X (job.todo \cap present[job.r]) \subseteq unrecorded /\ job.todo \subseteq People
        /\ job.step = "join" => job.x \notin job.todo
    BY <2>1 DEF At, JobType
  <2>3. ASSUME NEW p \in People, p \in present'[job.r], p \notin present[job.r] PROVE FALSE
    <3>1. CASE HandleInvite
      BY <2>1, <3>1 DEF HandleInvite, First, Idle
    <3>2. CASE JoinMember \/ JoinUninvited
      <4>1. JoinMember => job'.step = "members" /\ job.step = "join"
        BY DEF JoinMember, JobType, At
      <4>2. JoinUninvited => job.step = "puppet"
        BY DEF JoinUninvited, At
      <4> QED
        BY <1>4, <2>1, <3>2, <4>1, <4>2
    <3> QED
      BY <2>1, <2>3, <3>1, <3>2, PuppetEnters
  <2> QED
    BY <1>4, <2>2, <2>3
<1>6. ASSUME job' = [job EXCEPT !.step = "puppet"] PROVE FALSE
  BY <1>6 DEF JobType
<1> QED
  BY <1>1, <1>2, <1>3, <1>4, <1>6, AboutToJoin

LEMMA FitStep ==
    ASSUME TypeOK, StateInv, EventInv, FreshInv, ApartInv, StuckInv, FitInv, [Next]_vars
    PROVE  FitInv'
<1>2. Fitting
  BY DEF Fitting
<1>3. job'.step = "puppet" => <<job'.n, job'.x>> \in participants'
  BY <1>2, PuppetStep
<1>4. ASSUME NEW n \in Names, NEW r \in Places, <<n, r>> \in rooms'
      PROVE  /\ \A p \in People : p \in present'[r] => Settled(n, r, p)' \/ <<r, p>> \in unrecorded'
             /\ Users \cap present'[r] # {} =>
                     Lenders(n)' # {} \/ \E i \in DOMAIN queue' : JoinEvent(i, r)'
             /\ \A i \in DOMAIN queue', p \in People :
                     Invites(i, r, p)' => Arranged(n, r, p, i)' \/ <<r, p>> \in unrecorded'
  BY <1>2, <1>4, PuppetsSettle, LentStep, ArrangedStep
<1>5. job'.step \in {"members", "join"} =>
        /\ {job'.r} \X (job'.todo \cap present'[job'.r]) \subseteq unrecorded'
        /\ job'.step = "join" => job'.x \notin job'.todo
  BY <1>2, TodoStep
<1> QED
  BY <1>3, <1>4, <1>5 DEF FitInv, At, In

---------------------------------------------------------------------------
\* The theorems.

LEMMA PlacesInit == Init => PlacesInv
<1> SUFFICES ASSUME Init PROVE PlacesInv
  OBVIOUS
<1> USE Apartness
<1>1. /\ \A r \in Places : invited[r] = {} /\ present[r] \subseteq Users
      /\ \A n \in Names : present[n] = {}
      /\ queue = <<>> /\ rooms = {} /\ job.step = "idle" /\ job.kind = "none" /\ faults = 0
      /\ born = {}
  BY RoomsAssumption DEF Init, NoJob, Places
<1>2. ManagementRooms = {} /\ \A r \in Places : NameOf(r) = {}
  BY <1>1 DEF Init, ManagementRooms, NameOf
<1>3. StrayInv
  <2>1. Unadded = {} /\ Unbridged = {}
    BY <1>1 DEF Unadded, Unbridged
  <2> QED
    BY <1>1, <2>1, FS_EmptySet DEF StrayInv
<1>4. DOMAIN queue = {}
  BY <1>1
<1>5. EventInv /\ FreshInv
  BY <1>1, <1>4 DEF EventInv, FreshInv, At
<1>6. BotInv /\ ApartInv
  BY <1>1, <1>2, <1>4 DEF BotInv, ApartInv, At
<1>7. StuckInv
  BY <1>1 DEF StuckInv
<1>8. FitInv
  BY <1>1 DEF FitInv, At
<1> QED
  BY <1>3, <1>5, <1>6, <1>7, <1>8 DEF PlacesInv

LEMMA PlacesStep ==
    ASSUME TypeOK, Inv, PlacesInv, [Next]_vars
    PROVE  PlacesInv'
<1>1. StateInv
  BY DEF Inv, StateInv
<1>2. StrayInv /\ EventInv /\ FreshInv /\ BotInv /\ ApartInv /\ StuckInv /\ FitInv
  BY DEF PlacesInv
<1>3. StrayInv' /\ EventInv' /\ FreshInv'
  BY <1>1, <1>2, StrayStep, EventStep, FreshStep
<1>4. BotInv' /\ ApartInv' /\ StuckInv'
  BY <1>1, <1>2, BotStep, ApartStep, StuckStep
<1>5. FitInv'
  BY <1>1, <1>2, FitStep
<1> QED
  BY <1>3, <1>4, <1>5 DEF PlacesInv

\* Where the bot and the puppets are, for any users, events and faults: the bot
\* leaves no room unless it is put out, and the handler never gets past the
\* event of a puppet in a room that is not managed.
THEOREM PlacesCorrect == Spec => [](TypeOK /\ Inv /\ PlacesInv)
<1>1. Init => TypeOK /\ Inv /\ PlacesInv
  BY InitTyped, InitInv, PlacesInit
<1>2. TypeOK /\ Inv /\ PlacesInv /\ [Next]_vars => (TypeOK /\ Inv /\ PlacesInv)'
  <2> SUFFICES ASSUME TypeOK, Inv, PlacesInv, [Next]_vars PROVE (TypeOK /\ Inv /\ PlacesInv)'
    OBVIOUS
  <2>1. TypeOK' /\ Inv'
    BY TypeStep, InvStep DEF Inv, StateInv
  <2> QED
    BY <2>1, PlacesStep
<1> QED
  BY <1>1, <1>2, PTL DEF Spec

\* create_plumbed_room and create_bridged_room make at most one room for every
\* fault that the bridge then forgets.
THEOREM StrayCorrect == Spec => []NoStray
<1>1. TypeOK /\ PlacesInv => NoStray
  BY StrayBound DEF PlacesInv
<1> QED
  BY <1>1, PlacesCorrect, PTL

\* A management room is managed for no tomsg room, as long as the bot is in it:
\* handle_state_event and the checks of the bridge command.
THEOREM ApartCorrect == Spec => []Apart
<1>1. TypeOK /\ PlacesInv => Apart
  <2> SUFFICES ASSUME TypeOK, ApartInv, NEW r \in ManagementRooms, r \notin left
               PROVE  NameOf(r) = {}
    BY DEF PlacesInv, Apart
  <2>1. r \in Places
    BY Types DEF ManagementRooms
  <2> QED
    BY <2>1 DEF ApartInv
<1> QED
  BY <1>1, PlacesCorrect, PTL

\* invite_tomsg_members invites no puppet that is in the room, which the homeserver
\* would refuse, but one whose record was cut off.  Any faults, and a bot that is
\* put out of its rooms, included.
THEOREM InvitesFitCorrect == Spec => []InvitesFit
<1>1. TypeOK /\ PlacesInv => InvitesFit
  BY Types DEF PlacesInv, FitInv, InvitesFit, At
<1> QED
  BY <1>1, PlacesCorrect, PTL
=============================================================================
