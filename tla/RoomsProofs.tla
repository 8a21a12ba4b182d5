---------------------------- MODULE RoomsProofs ----------------------------
(***************************************************************************)
(* Proofs about Rooms: the mapping of rooms is one to one and what is in   *)
(* memory is what a restart reads, for any users, rooms and faults.        *)
(***************************************************************************)
EXTENDS Rooms, TLAPS

\* The part of the invariant that does not depend on who is where.
StateInv == HolderInv /\ KindInv /\ Exist /\ HasLast /\ OneRoomPerName /\ Recorded

---------------------------------------------------------------------------
\* The queue.

LEMMA AppendTyped ==
    ASSUME NEW S, NEW q \in Seq(S), NEW x \in S
    PROVE  Append(q, x) \in Seq(S)
  BY SMT

LEMMA TailTyped ==
    ASSUME NEW S, NEW q \in Seq(S), q # <<>>
    PROVE  Tail(q) \in Seq(S) /\ Head(q) \in S
  BY SMT

LEMMA TailAt ==
    ASSUME NEW S, NEW q \in Seq(S), q # <<>>, NEW i \in DOMAIN Tail(q)
    PROVE  i + 1 \in DOMAIN q /\ Tail(q)[i] = q[i + 1]
<1>1. Len(q) \in Nat /\ DOMAIN q = 1..Len(q) /\ Len(q) # 0
  OBVIOUS
<1>2. Len(Tail(q)) = Len(q) - 1 /\ DOMAIN Tail(q) = 1..Len(Tail(q))
  BY <1>1, TailTyped
<1> QED
  BY <1>1, <1>2

LEMMA InviteEvent ==
    ASSUME NEW r \in Places, NEW by \in Everyone, NEW x \in Everyone
    PROVE  Event("invite", r, by, x, FALSE) \in EventType
  BY DEF Event, EventType

LEMMA ChatEvent ==
    ASSUME NEW r \in Places, NEW u \in Users, NEW x \in Everyone
    PROVE  Event("invite", r, u, x, TRUE) \in EventType
  BY DEF Event, EventType

LEMMA UserEvent ==
    ASSUME NEW kind \in {"join", "leave", "text", "bridge"}, NEW r \in Places,
           NEW u \in Users, NEW x \in Everyone \cup {None},
           NEW arg \in Names \cup {None, Bad}
    PROVE  Event(kind, r, u, x, arg) \in EventType
  BY DEF Event, EventType

LEMMA EventTyped ==
    ASSUME NEW v \in EventType
    PROVE  /\ v.r \in Places /\ v.by \in Everyone
           /\ v.kind \in {"join", "leave", "text", "bridge"} =>
                /\ v.by \in Users /\ v.x \in Everyone \cup {None}
                /\ v.arg \in Names \cup {None, Bad}
           /\ v.kind = "invite" => v.x \in Everyone
           /\ v.kind = "invite" /\ v.arg = TRUE => v.by \in Users
<1>1. CASE v \in [kind : {"invite"}, r : Places, by : Everyone, x : Everyone, arg : {FALSE}]
  <2>1. v.arg = FALSE
    BY <1>1
  <2>2. v.arg # TRUE
    BY <2>1, Zenon
  <2> QED
    BY <1>1, <2>2
<1>2. CASE v \in [kind : {"invite"}, r : Places, by : Users, x : Everyone, arg : {TRUE}]
  BY <1>2 DEF Everyone, Members
<1>3. CASE v \in [kind : {"join", "leave", "text", "bridge"}, r : Places, by : Users,
                  x : Everyone \cup {None}, arg : Names \cup {None, Bad}]
  BY <1>3 DEF Everyone, Members
<1> QED
  BY <1>1, <1>2, <1>3 DEF EventType

LEMMA NoJobTyped == NoJob \in JobType
  BY DEF NoJob, JobType, Steps, Kinds

---------------------------------------------------------------------------
\* Types.

LEMMA InitTyped == Init => TypeOK
<1> SUFFICES ASSUME Init PROVE TypeOK
  OBVIOUS
<1>1. ServerType
  BY RoomsAssumption DEF Init, ServerType, Members, Everyone, Places
<1>2. DiskType /\ MemoryType /\ GhostType
  BY DEF Init, DiskType, MemoryType, GhostType
<1>3. queue \in Seq(EventType)
  BY DEF Init
<1> QED
  BY <1>1, <1>2, <1>3, NoJobTyped DEF Init, TypeOK

LEMMA FirstEvent ==
    ASSUME TypeOK, NEW kind, First(kind)
    PROVE  queue # <<>> /\ e \in EventType /\ e.r \in Places /\ e.by \in Everyone /\ e.kind = kind
<1>1. queue # <<>> /\ queue \in Seq(EventType) /\ e = Head(queue)
  BY DEF First, TypeOK, e
<1>2. e \in EventType /\ e.kind = kind
  BY <1>1, TailTyped DEF First
<1> QED
  BY <1>1, <1>2, EventTyped

\* A session only takes the lock.
LEMMA Begins == Session => Idle /\ UNCHANGED <<servers, queue, disk, memory, ghosts, faults>>
<1>1. ASSUME NEW u \in Users, NEW S \in SUBSET Names, BeginSetUp(u, S)
      PROVE  Idle /\ UNCHANGED <<servers, queue, disk, memory, ghosts, faults>>
  BY <1>1, Zenon DEF BeginSetUp
<1>2. ASSUME NEW kind, NEW u \in Users, NEW n \in Names, NEW x \in Members,
             BeginPush(kind, u, n, x)
      PROVE  Idle /\ UNCHANGED <<servers, queue, disk, memory, ghosts, faults>>
  BY <1>2, Zenon DEF BeginPush
<1> QED
  BY <1>1, <1>2 DEF Session

\* What a step does to the queue: nothing, or the first event is done with, or
\* one is added, of a room that exists.
QueueStep ==
    \/ UNCHANGED queue
    \/ Answer /\ queue # <<>>
    \/ \E v \in EventType : Deliver(v) /\ present'[v.r] # {}

LEMMA QueueSteps ==
    ASSUME TypeOK, KindInv, HolderInv, [Next]_vars
    PROVE  QueueStep
<1> USE DEF QueueStep
<1>0. present \in [Places -> SUBSET Everyone]
  BY DEF TypeOK, ServerType
<1>1. ASSUME NEW kind \in {"invite", "join", "leave", "text", "bridge"}, NEW r, NEW by, NEW x,
             NEW arg, Event(kind, r, by, x, arg) \in EventType,
             Deliver(Event(kind, r, by, x, arg)), present'[r] # {}
      PROVE  QueueStep
  <2>1. Event(kind, r, by, x, arg).r = r
    BY DEF Event
  <2> QED
    BY <1>1, <2>1
<1>2. ASSUME NEW r \in Places, NEW by \in Everyone, NEW x \in Everyone,
             CanInvite(by, x, r), InvitePlace(by, x, r), UNCHANGED present
      PROVE  QueueStep
  BY <1>1, <1>2, InviteEvent DEF InvitePlace, CanInvite
<1>3. ASSUME Answer, queue # <<>> PROVE QueueStep
  BY <1>3
<1>5. CASE Session
  BY <1>5, Begins
<1>6. CASE NextRoom \/ CreateRoom \/ AddRoom \/ Enter \/ JoinUninvited \/ List
           \/ JoinMember \/ RecordMembers \/ NewRoom \/ Bridge
  BY <1>6 DEF NextRoom, CreateRoom, AddRoom, Enter, JoinUninvited, List,
     JoinMember, RecordMembers, NewRoom, Bridge
<1>7. ASSUME NEW p \in People, InviteMember(p) PROVE QueueStep
  <2>1. job.r \in Places
    BY <1>7 DEF InviteMember, At, HolderInv
  <2> QED
    BY <1>2, <1>7, <2>1 DEF InviteMember, Everyone, Members
<1>8. CASE Welcome
  <2>1. job.r \in Places /\ job.u \in Everyone
    BY <1>8 DEF Welcome, At, HolderInv, KindInv, Everyone, Members
  <2>2. \A by : CanInvite(by, job.u, job.r) => by \in Everyone
    BY <2>1 DEF CanInvite, TypeOK, ServerType
  <2>3. UNCHANGED present
    BY <1>8 DEF Welcome
  <2>4. \/ UNCHANGED queue
        \/ \E by \in Everyone : CanInvite(by, job.u, job.r) /\ InvitePlace(by, job.u, job.r)
    BY <1>8, <2>2 DEF Welcome
  <2> QED
    BY <1>2, <2>1, <2>3, <2>4
<1>9. CASE HandleInvite
  <2>1. e.r \in Places
    BY <1>9, FirstEvent DEF HandleInvite
  <2>2. present'[e.r] # {}
    BY <1>0, <1>9, <2>1 DEF HandleInvite, EnterPlace
  <2> QED
    BY <1>1, <1>9, <2>1, <2>2, UserEvent DEF HandleInvite, Everyone, Members
<1>10. CASE Invited
  <2>1. queue # <<>>
    BY <1>10 DEF Invited, At, KindInv
  <2> QED
    BY <1>3, <1>10, <2>1 DEF Invited, Admit
<1>11. CASE HandleJoin
  BY <1>3, <1>11, FirstEvent DEF HandleJoin, Admit
<1>12. CASE HandleLeave
  BY <1>3, <1>12, FirstEvent DEF HandleLeave
<1>13. CASE HandleText
  BY <1>3, <1>13, FirstEvent DEF HandleText, Admit
<1>14. CASE SendInvite
  BY <1>3, <1>14 DEF SendInvite, At, KindInv
<1>15. CASE HandleBridge
  BY <1>3, <1>15, FirstEvent DEF HandleBridge
<1>16. CASE Bridged
  <2>1. queue # <<>>
    BY <1>16 DEF Bridged, At, KindInv
  <2> QED
    BY <1>3, <1>16, <2>1 DEF Bridged
<1>17. CASE Environment
  <2>1. ASSUME NEW n \in Names, NEW x \in Members, TomsgJoin(n, x) PROVE QueueStep
    BY <2>1 DEF TomsgJoin
  <2>2. ASSUME NEW u \in Users, NEW r \in Places, NEW x \in Everyone, NEW d \in BOOLEAN,
               UserInvites(u, r, x, d)
        PROVE  QueueStep
    <3>1. present'[r] # {}
      BY <2>2 DEF UserInvites, CanInvite
    <3> QED
      BY <1>1, <2>2, <3>1, InviteEvent, ChatEvent DEF UserInvites, Everyone, Members
  <2>3. ASSUME NEW u \in Users, NEW r \in Places, UserJoins(u, r) PROVE QueueStep
    <3>1. present'[r] # {}
      BY <1>0, <2>3 DEF UserJoins, EnterPlace
    <3> QED
      BY <1>1, <2>3, <3>1, UserEvent DEF UserJoins, Everyone, Members
  <2>4. ASSUME NEW u \in Users, NEW r \in Places, UserKicks(u, r) PROVE QueueStep
    <3>1. u \in present'[r]
      BY <1>0, <2>4, RoomsAssumption DEF UserKicks, Members
    <3> QED
      BY <1>1, <2>4, <3>1, UserEvent DEF UserKicks, Everyone
  <2>5. ASSUME NEW u \in Users, NEW r \in Places, NEW kind \in {"text", "bridge"},
               NEW arg \in Names \cup {None, Bad}, UserWrites(u, r, kind, arg)
        PROVE  QueueStep
    <3>1. present'[r] # {}
      BY <2>5 DEF UserWrites, servers
    <3> QED
      BY <1>1, <2>5, <3>1, UserEvent DEF UserWrites
  <2> QED
    BY <1>17, <2>1, <2>2, <2>3, <2>4, <2>5 DEF Environment
<1>18. CASE EnsureFails \/ Panic \/ Crash \/ UNCHANGED vars
  BY <1>18 DEF EnsureFails, Panic, Crash, vars
<1> QED
  BY <1>5, <1>6, <1>7, <1>8, <1>9, <1>10, <1>11, <1>12, <1>13, <1>14, <1>15, <1>16, <1>17,
     <1>18 DEF Next, Work

LEMMA QueueTyped == TypeOK /\ KindInv /\ HolderInv /\ [Next]_vars => queue' \in Seq(EventType)
  BY QueueSteps, AppendTyped, TailTyped DEF QueueStep, TypeOK, Deliver, Answer

LEMMA ServerTyped == TypeOK /\ KindInv /\ HolderInv /\ [Next]_vars => ServerType'
<1> SUFFICES ASSUME TypeOK, KindInv, HolderInv, [Next]_vars PROVE ServerType'
  OBVIOUS
<1> USE DEF ServerType, servers
<1>0. ServerType
  BY DEF TypeOK
<1>1. ASSUME UNCHANGED servers PROVE ServerType'
  BY <1>0, <1>1
<1>2. ASSUME NEW r \in Places, NEW x \in Everyone, EnterPlace(x, r), UNCHANGED members
      PROVE  ServerType'
  BY <1>0, <1>2 DEF EnterPlace
<1>3. ASSUME NEW r \in Places, NEW x \in Everyone, NEW by, InvitePlace(by, x, r),
             UNCHANGED <<members, present>>
      PROVE  ServerType'
  BY <1>0, <1>3 DEF InvitePlace
<1>5. CASE Session
  BY <1>1, <1>5, Begins
<1>6. CASE NextRoom \/ AddRoom \/ Enter \/ List \/ RecordMembers \/ Bridge \/ Invited
           \/ HandleJoin \/ HandleLeave \/ HandleText \/ HandleBridge \/ Bridged
           \/ EnsureFails \/ Panic \/ Crash \/ UNCHANGED vars
  BY <1>1, <1>6 DEF NextRoom, AddRoom, Enter, List, RecordMembers, Bridge, Invited, HandleJoin,
     HandleLeave, HandleText, HandleBridge, Bridged, EnsureFails, Panic, Crash, vars
<1>7. ASSUME NEW p \in People, InviteMember(p) PROVE ServerType'
  <2>1. job.r \in Places
    BY <1>7 DEF InviteMember, At, HolderInv
  <2> QED
    BY <1>1, <1>3, <1>7, <2>1 DEF InviteMember, Everyone, Members
<1>8. CASE Welcome
  <2>1. job.r \in Places /\ job.u \in Everyone
    BY <1>8 DEF Welcome, At, HolderInv, KindInv, Everyone, Members
  <2> QED
    BY <1>1, <1>3, <1>8, <2>1 DEF Welcome
<1>9. CASE HandleInvite
  <2>1. e \in EventType /\ e.r \in Places /\ e.kind = "invite"
    BY <1>9, FirstEvent DEF HandleInvite
  <2> QED
    BY <1>2, <1>9, <2>1, EventTyped DEF HandleInvite
<1>10. CASE JoinMember \/ JoinUninvited
  <2>1. job.r \in Places /\ job.x \in Everyone
    BY <1>10 DEF JoinMember, JoinUninvited, At, HolderInv, Everyone, Members
  <2> QED
    BY <1>1, <1>2, <1>10, <2>1 DEF JoinMember, JoinUninvited
<1>11. CASE CreateRoom
  <2>1. job.n \in Names
    BY <1>11 DEF CreateRoom, At, HolderInv
  <2> QED
    BY <1>0, <1>1, <1>11, <2>1 DEF CreateRoom, Everyone
<1>12. CASE SendInvite
  <2>1. job.n \in Names /\ job.x \in Members
    BY <1>12 DEF SendInvite, At, HolderInv
  <2> QED
    BY <1>0, <1>12, <2>1 DEF SendInvite
<1>13. CASE NewRoom
  <2>1. job.u \in Members
    BY <1>13 DEF NewRoom, At, KindInv, Members
  <2> QED
    BY <1>0, <1>13, <2>1 DEF NewRoom
<1>14. CASE Environment
  <2>1. ASSUME NEW n \in Names, NEW x \in Members, TomsgJoin(n, x) PROVE ServerType'
    BY <1>0, <2>1 DEF TomsgJoin
  <2>2. ASSUME NEW u \in Users, NEW r \in Places, NEW x \in Everyone, NEW d \in BOOLEAN,
               UserInvites(u, r, x, d)
        PROVE  ServerType'
    BY <1>0, <2>2 DEF UserInvites
  <2>3. ASSUME NEW u \in Users, NEW r \in Places, UserJoins(u, r) \/ UserKicks(u, r)
        PROVE  ServerType'
    BY <1>0, <1>2, <2>3 DEF UserJoins, UserKicks, Everyone, Members
  <2>4. ASSUME NEW u \in Users, NEW r \in Places, NEW kind \in {"text", "bridge"},
               NEW arg \in Names \cup {None, Bad}, UserWrites(u, r, kind, arg)
        PROVE  ServerType'
    BY <1>1, <2>4 DEF UserWrites
  <2> QED
    BY <1>14, <2>1, <2>2, <2>3, <2>4 DEF Environment
<1> QED
  BY <1>5, <1>6, <1>7, <1>8, <1>9, <1>10, <1>11, <1>12, <1>13, <1>14 DEF Next, Work

\* A restart reads what was in memory.
LEMMA CrashReloads == Recorded /\ Crash => UNCHANGED memory
  BY DEF Recorded, Crash, LoadRooms, memory

\* Rows and what they are read into.
LEMMA StoreTyped ==
    TypeOK /\ KindInv /\ HolderInv /\ Recorded /\ [Next]_vars => DiskType' /\ MemoryType'
<1> SUFFICES ASSUME TypeOK, KindInv, HolderInv, Recorded, [Next]_vars PROVE DiskType' /\ MemoryType'
  OBVIOUS
<1> USE DEF DiskType, MemoryType, disk, memory
<1>0. DiskType /\ MemoryType
  BY DEF TypeOK
<1>1. ASSUME UNCHANGED <<disk, memory>> PROVE DiskType' /\ MemoryType'
  BY <1>0, <1>1
<1>2. ASSUME NEW P \in SUBSET (Names \X Members), Insert(P),
             UNCHANGED <<roomRows, managementRows, rooms, management>>
      PROVE  DiskType' /\ MemoryType'
  BY <1>0, <1>2 DEF Insert, InsertMembers
<1>3. ASSUME NEW n \in Names, NEW x \in Members, Admit(n, x),
             UNCHANGED <<roomRows, managementRows, rooms, management>>
      PROVE  DiskType' /\ MemoryType'
  <2>1. {<<n, x>>} \in SUBSET (Names \X Members)
    OBVIOUS
  <2> QED
    BY <1>2, <1>3, <2>1 DEF Admit
<1>5. CASE Session
  BY <1>1, <1>5, Begins
<1>6. CASE NextRoom \/ CreateRoom \/ JoinUninvited \/ List \/ JoinMember \/ Welcome
           \/ HandleInvite \/ HandleLeave \/ SendInvite \/ HandleBridge \/ NewRoom \/ Bridged
           \/ EnsureFails \/ Panic \/ UNCHANGED vars
  BY <1>1, <1>6 DEF NextRoom, CreateRoom, JoinUninvited, List, JoinMember, Welcome, HandleInvite,
     HandleLeave, SendInvite, HandleBridge, NewRoom, Bridged, EnsureFails, Panic, vars
<1>7. ASSUME NEW p \in People, InviteMember(p) PROVE DiskType' /\ MemoryType'
  BY <1>1, <1>7 DEF InviteMember
<1>8. CASE Environment
  BY <1>1, <1>8 DEF Environment, TomsgJoin, UserInvites, UserJoins, UserKicks, UserWrites
<1>9. CASE AddRoom
  <2>1. job.n \in Names /\ job.r \in Places
    BY <1>9 DEF AddRoom, At, HolderInv, Places
  <2> QED
    BY <1>0, <1>9, <2>1 DEF AddRoom, Manage, InsertRoom
<1>10. CASE Enter
  <2>1. job.n \in Names
    BY <1>10 DEF Enter, At, HolderInv
  <2>2. job.kind = "setup" => job.u \in Members
    BY DEF KindInv, Members
  <2>3. job.kind = "join" => job.x \in Members
    BY DEF KindInv, Members
  <2> QED
    BY <1>1, <1>2, <1>10, <2>1, <2>2, <2>3 DEF Enter
<1>11. CASE RecordMembers
  <2>1. {job.n} \X job.res \subseteq Names \X Members
    BY <1>11 DEF RecordMembers, At, HolderInv, TypeOK, JobType, Members
  <2> QED
    BY <1>2, <1>11, <2>1 DEF RecordMembers
<1>12. CASE Invited
  <2>1. e \in EventType /\ job.r = e.r /\ job.x = e.x
    BY <1>12, TailTyped DEF Invited, At, HolderInv, KindInv, TypeOK, e
  <2>2. e.r \in Places
    BY <2>1, EventTyped
  <2>3. CASE UNCHANGED <<participants, memberRows, management, managementRows>>
    BY <1>1, <1>12, <2>3 DEF Invited
  <2>4. CASE SetManagementRoom(e.by, e.r) /\ job.x = Bot /\ e.arg = TRUE
             /\ UNCHANGED <<participants, memberRows>>
    <3>1. e.by \in Users
      BY <2>1, <2>4, EventTyped DEF EventType, Everyone
    <3>2. managementRows' \in Seq(Users \X Places)
      BY <1>0, <2>2, <2>4, <3>1, AppendTyped DEF SetManagementRoom, InsertManagementRoom
    <3>3. management' \in [Users -> Places \cup {None}]
      BY <1>0, <2>2, <2>4, <3>1 DEF SetManagementRoom
    <3> QED
      BY <1>0, <1>12, <2>4, <3>2, <3>3 DEF Invited
  <2>5. ASSUME NEW n \in NameOf(e.r), Admit(n, job.x), job.x \in People,
               UNCHANGED <<management, managementRows>>
        PROVE  DiskType' /\ MemoryType'
    BY <1>3, <1>12, <2>5 DEF Invited, NameOf, Members
  <2> QED
    BY <1>12, <2>3, <2>4, <2>5 DEF Invited
<1>13. CASE HandleJoin \/ HandleText
  <2>1. e \in EventType /\ e.kind \in {"join", "text"}
    BY <1>13, FirstEvent DEF HandleJoin, HandleText
  <2>2. e.by \in Members
    BY <2>1, EventTyped DEF Members
  <2> QED
    BY <1>1, <1>3, <1>13, <2>2 DEF HandleJoin, HandleText, NameOf
<1>14. CASE Bridge
  <2>1. job.n \in Names /\ job.r \in Places /\ job.u \in Members
    BY <1>14 DEF Bridge, At, HolderInv, KindInv, Members
  <2>2. CASE UNCHANGED <<rooms, roomRows, participants, memberRows>>
    BY <1>1, <1>14, <2>2 DEF Bridge
  <2>3. CASE Manage(job.n, job.r) /\ Insert({<<job.n, job.u>>})
    BY <1>0, <1>14, <2>1, <2>3 DEF Bridge, Manage, InsertRoom, Insert, InsertMembers
  <2> QED
    BY <1>14, <2>2, <2>3 DEF Bridge
<1>15. CASE Crash
  BY <1>1, <1>15, CrashReloads DEF Crash
<1> QED
  BY <1>5, <1>6, <1>7, <1>8, <1>9, <1>10, <1>11, <1>12, <1>13, <1>14, <1>15 DEF Next, Work

LEMMA JobTyped == TypeOK /\ KindInv /\ HolderInv /\ [Next]_vars => job' \in JobType
<1> SUFFICES ASSUME TypeOK, KindInv, HolderInv, [Next]_vars PROVE job' \in JobType
  OBVIOUS
<1>0. job \in JobType
  BY DEF TypeOK
<1>1. ASSUME Release \/ job' = job PROVE job' \in JobType
  BY <1>0, <1>1, NoJobTyped DEF Release
<1>2. ASSUME NEW st \in Steps, Go(st) PROVE job' \in JobType
  BY <1>0, <1>2 DEF Go, JobType
<1>3. ASSUME NEW n \in Names, NEW x \in Members, Admit(n, x) PROVE job' \in JobType
  <2>1. \A u \in Users : [NoJob EXCEPT !.step = "send", !.n = n, !.u = u, !.x = x] \in JobType
    BY NoJobTyped DEF JobType, Steps, Everyone
  <2> QED
    BY <1>1, <1>3, <2>1 DEF Admit, Answer, Lenders
<1>4. ASSUME NEW u \in Users, NEW S \in SUBSET Names, BeginSetUp(u, S) PROVE job' \in JobType
  BY <1>4, NoJobTyped DEF BeginSetUp, JobType, Steps, Kinds
<1>5. ASSUME NEW kind \in {"invite", "join", "message"}, NEW u \in Users, NEW n \in Names,
             NEW x \in Members, BeginPush(kind, u, n, x)
      PROVE  job' \in JobType
  <2>1. [NoJob EXCEPT !.kind = kind, !.n = n, !.u = u, !.x = x] \in JobType
    BY NoJobTyped DEF JobType, Kinds, Everyone
  <2>2. \A r \in Places : [[NoJob EXCEPT !.kind = kind, !.n = n, !.u = u, !.x = x]
                              EXCEPT !.step = "enter", !.r = r] \in JobType
    BY <2>1 DEF JobType, Steps
  <2>3. [[NoJob EXCEPT !.kind = kind, !.n = n, !.u = u, !.x = x]
            EXCEPT !.step = "create", !.r = n] \in JobType
    BY <2>1 DEF JobType, Steps, Places
  <2> QED
    BY <1>5, <2>2, <2>3 DEF BeginPush, PlaceOf
<1>6. CASE NextRoom
  <2>1. ASSUME NEW n \in job.rest, Reach(n) PROVE job' \in JobType
    <3>1. n \in Names /\ job.rest \ {n} \in SUBSET Names
      BY <1>0, <2>1 DEF JobType
    <3>2. \A r \in Places, st \in {"enter", "create"} :
            [job EXCEPT !.step = st, !.n = n, !.r = r, !.rest = @ \ {n}] \in JobType
      BY <1>0, <3>1 DEF JobType, Steps
    <3> QED
      BY <2>1, <3>1, <3>2 DEF Reach, PlaceOf, Places
  <2> QED
    BY <1>1, <1>6, <2>1 DEF NextRoom
<1>7. CASE CreateRoom \/ AddRoom \/ JoinUninvited
  BY <1>1, <1>2, <1>7 DEF CreateRoom, AddRoom, JoinUninvited, Steps
<1>8. CASE Enter
  <2>1. CASE job' = [job EXCEPT !.step = "list", !.new = ~In(job.n, job.u)]
    <3>1. (~In(job.n, job.u)) \in BOOLEAN
      BY SMT DEF In
    <3> QED
      BY <1>0, <2>1, <3>1 DEF JobType, Steps
  <2>2. CASE job' = [job EXCEPT !.step = "list", !.by = IF In(job.n, job.x) THEN job.x ELSE Bot]
    <3>1. (IF In(job.n, job.x) THEN job.x ELSE Bot) \in Everyone \cup {None}
      BY <1>0 DEF JobType, Everyone
    <3> QED
      BY <1>0, <2>2, <3>1 DEF JobType, Steps
  <2> QED
    BY <1>1, <1>2, <1>8, <2>1, <2>2 DEF Enter, Steps
<1>9. CASE List
  <2>1. {p \in members[job.n] \cap People : ~In(job.n, p)} \subseteq People
    OBVIOUS
  <2> QED
    BY <1>0, <1>1, <1>9, <2>1 DEF List, JobType, Steps
<1>10. ASSUME NEW p \in People, InviteMember(p) PROVE job' \in JobType
  BY <1>0, <1>1, <1>10 DEF InviteMember, JobType, Steps, Everyone, Members
<1>11. CASE JoinMember
  <2>1. job.x \in People
    BY <1>11 DEF JoinMember, At, HolderInv
  <2> QED
    BY <1>0, <1>11, <2>1 DEF JoinMember, JobType, Steps
<1>12. CASE RecordMembers \/ Welcome
  BY <1>1, <1>2, <1>12 DEF RecordMembers, Welcome, Steps
<1>13. CASE HandleInvite
  <2>1. e.r \in Places /\ e.x \in Everyone
    BY <1>13, FirstEvent, EventTyped DEF HandleInvite
  <2> QED
    BY <1>13, <2>1, NoJobTyped DEF HandleInvite, JobType, Steps
<1>14. CASE Invited
  BY <1>1, <1>3, <1>14 DEF Invited, Answer, NameOf, Members
<1>15. CASE HandleJoin \/ HandleText
  <2>1. e.by \in Members
    BY <1>15, FirstEvent, EventTyped DEF HandleJoin, HandleText, Members
  <2> QED
    BY <1>1, <1>3, <1>15, <2>1 DEF HandleJoin, HandleText, Answer, NameOf
<1>16. CASE HandleLeave \/ SendInvite \/ Bridged
  BY <1>1, <1>16 DEF HandleLeave, SendInvite, Bridged, Answer
<1>17. CASE HandleBridge
  <2>1. e.r \in Places /\ e.by \in Users /\ e.arg \in Names \cup {None, Bad}
    BY <1>17, FirstEvent, EventTyped DEF HandleBridge
  <2>2. ASSUME NEW st \in {"newroom", "bridge"}, e.arg # Bad,
               job' = [NoJob EXCEPT !.step = st, !.kind = "bridge", !.n = e.arg, !.r = e.r,
                                    !.u = e.by]
        PROVE  job' \in JobType
    BY <2>1, <2>2, NoJobTyped DEF JobType, Steps, Kinds
  <2> QED
    BY <1>1, <1>17, <2>2 DEF HandleBridge, Answer
<1>18. CASE NewRoom
  BY <1>0, <1>18 DEF NewRoom, JobType, Steps
<1>19. CASE Bridge
  BY <1>1, <1>2, <1>19 DEF Bridge, Steps
<1>20. CASE Environment
  BY <1>1, <1>20 DEF Environment, TomsgJoin, UserInvites, UserJoins, UserKicks, UserWrites
<1>21. CASE EnsureFails \/ Panic \/ Crash \/ UNCHANGED vars
  BY <1>1, <1>21 DEF EnsureFails, Panic, Crash, vars
<1> QED
  BY <1>4, <1>5, <1>6, <1>7, <1>8, <1>9, <1>10, <1>11, <1>12, <1>13, <1>14, <1>15, <1>16,
     <1>17, <1>18, <1>19, <1>20, <1>21 DEF Next, Work, Session

LEMMA GhostTyped == TypeOK /\ KindInv /\ HolderInv /\ [Next]_vars => GhostType'
<1> SUFFICES ASSUME TypeOK, KindInv, HolderInv, [Next]_vars PROVE GhostType'
  OBVIOUS
<1> USE DEF GhostType, ghosts, bounds
<1>0. GhostType
  BY DEF TypeOK
<1>1. ASSUME UNCHANGED <<ghosts, bounds>> PROVE GhostType'
  BY <1>0, <1>1
<1>2. CASE Session
  <2>1. UNCHANGED <<ghosts, joins, events, faults>> /\ BeginsTask
    BY <1>2, Zenon DEF Session, BeginSetUp, BeginPush
  <2> QED
    BY <1>0, <2>1 DEF BeginsTask
<1>3. CASE NextRoom \/ CreateRoom \/ AddRoom \/ Enter \/ List \/ JoinMember \/ RecordMembers
           \/ Welcome \/ HandleInvite \/ Invited \/ HandleJoin \/ HandleLeave \/ HandleText
           \/ SendInvite \/ HandleBridge \/ Bridged \/ UNCHANGED vars
  BY <1>1, <1>3 DEF NextRoom, CreateRoom, AddRoom, Enter, List, JoinMember, RecordMembers,
     Welcome, HandleInvite, Invited, HandleJoin, HandleLeave, HandleText, SendInvite,
     HandleBridge, Bridged, vars
<1>4. CutOff => unrecorded' \subseteq Places \X People
  <2>1. Joined \subseteq People
    BY DEF TypeOK, JobType, HolderInv, Joined, At
  <2>2. Joined # {} => job.r \in Places
    <3>1. At("invited") => job.r \in Places
      <4>1. At("invited") => e \in EventType /\ job.r = e.r
        BY TailTyped DEF At, HolderInv, KindInv, TypeOK, e
      <4> QED
        BY <4>1, EventTyped
    <3> QED
      BY <3>1 DEF Joined, HolderInv, At
  <2> QED
    BY <1>0, <2>1, <2>2 DEF CutOff
<1>5. ASSUME NEW p \in People, InviteMember(p) PROVE GhostType'
  BY <1>0, <1>4, <1>5 DEF InviteMember
<1>6. CASE JoinUninvited
  BY <1>0, <1>6 DEF JoinUninvited, At, HolderInv
<1>7. CASE NewRoom
  BY <1>0, <1>7 DEF NewRoom
<1>8. CASE Bridge
  BY <1>0, <1>8 DEF Bridge, At, HolderInv
<1>9. CASE EnsureFails \/ Panic \/ Crash
  BY <1>0, <1>9, <1>4 DEF EnsureFails, Panic, Crash, Fault
<1>10. CASE Environment
  BY <1>0, <1>10 DEF Environment, TomsgJoin, UserInvites, UserJoins, UserKicks, UserWrites,
     MakesEvent
<1> QED
  BY <1>2, <1>3, <1>5, <1>6, <1>7, <1>8, <1>9, <1>10 DEF Next, Work

LEMMA TypeStep == TypeOK /\ StateInv /\ [Next]_vars => TypeOK'
<1> SUFFICES ASSUME TypeOK, StateInv, [Next]_vars PROVE TypeOK'
  OBVIOUS
<1>1. KindInv /\ HolderInv /\ Recorded
  BY DEF StateInv
<1>2. ServerType' /\ DiskType' /\ MemoryType' /\ GhostType'
  BY <1>1, ServerTyped, StoreTyped, GhostTyped
<1>3. queue' \in Seq(EventType) /\ job' \in JobType
  BY <1>1, QueueTyped, JobTyped
<1> QED
  BY <1>2, <1>3 DEF TypeOK

---------------------------------------------------------------------------
\* The invariant.

LEMMA InitState == Init => StateInv
<1> SUFFICES ASSUME Init PROVE StateInv
  OBVIOUS
<1>1. HolderInv /\ KindInv
  BY DEF Init, HolderInv, KindInv, NoJob, At
<1>2. Exist /\ HasLast /\ OneRoomPerName
  BY DEF Init, Exist, HasLast, OneRoomPerName, RowsOf
<1>3. Recorded
  BY DEF Init, Recorded, LoadedManagement, RowsOf
<1> QED
  BY <1>1, <1>2, <1>3 DEF StateInv

\* Nobody but the bot leaves a room, and it leaves others behind.
LEMMA Populated ==
    ASSUME TypeOK, KindInv, HolderInv, [Next]_vars, NEW r \in Places, present[r] # {}
    PROVE  present'[r] # {}
<1>0. present \in [Places -> SUBSET Everyone]
  BY DEF TypeOK, ServerType
<1>1. ASSUME UNCHANGED present PROVE present'[r] # {}
  BY <1>1
<1>2. ASSUME NEW x, NEW q, EnterPlace(x, q) PROVE present'[r] # {}
  BY <1>0, <1>2 DEF EnterPlace
<1>3. CASE Session
  BY <1>1, <1>3, Begins DEF servers
<1>4. CASE NextRoom \/ AddRoom \/ Enter \/ List \/ RecordMembers \/ Welcome \/ Invited
           \/ HandleJoin \/ HandleLeave \/ HandleText \/ SendInvite \/ HandleBridge \/ NewRoom
           \/ Bridge \/ Bridged \/ EnsureFails \/ Panic \/ Crash \/ UNCHANGED vars
  BY <1>1, <1>4 DEF NextRoom, AddRoom, Enter, List, RecordMembers, Welcome, Invited,
     HandleJoin, HandleLeave, HandleText, SendInvite, HandleBridge, NewRoom, Bridge,
     Bridged, EnsureFails, Panic, Crash, vars, servers
<1>5. CASE CreateRoom
  BY <1>0, <1>5 DEF CreateRoom
<1>6. CASE JoinUninvited \/ JoinMember \/ HandleInvite
  BY <1>1, <1>2, <1>6 DEF JoinUninvited, JoinMember, HandleInvite
<1>7. ASSUME NEW p \in People, InviteMember(p) PROVE present'[r] # {}
  BY <1>1, <1>7 DEF InviteMember
<1>8. ASSUME NEW u \in Users, NEW q \in Places, UserKicks(u, q) PROVE present'[r] # {}
  <2>1. u # Bot
    BY RoomsAssumption DEF Members
  <2>2. q = r => u \in present'[r]
    BY <1>0, <1>8, <2>1 DEF UserKicks
  <2>3. q # r => present'[r] = present[r]
    BY <1>0, <1>8 DEF UserKicks
  <2> QED
    BY <2>2, <2>3
<1>9. CASE Environment
  BY <1>1, <1>2, <1>8, <1>9 DEF Environment, TomsgJoin, UserInvites, UserJoins, UserWrites,
     servers
<1> QED
  BY <1>3, <1>4, <1>5, <1>6, <1>7, <1>9 DEF Next, Work

\* The rooms only change in AddRoom and Bridge, where neither was known.
LEMMA RoomsGrow ==
    ASSUME TypeOK, StateInv, [Next]_vars
    PROVE  \/ UNCHANGED <<rooms, roomRows>>
           \/ /\ AddRoom \/ Bridge
              /\ Manage(job.n, job.r)
              /\ job.n \in Names /\ job.r \in Places
              /\ PlaceOf(job.n) = {} /\ NameOf(job.r) = {}
              /\ present[job.r] # {} /\ UNCHANGED present
<1> USE DEF disk, memory
<1>1. CASE Session
  BY <1>1, Begins
<1>2. CASE AddRoom
  BY <1>2 DEF AddRoom, At, StateInv, HolderInv, Places, servers
<1>3. CASE Bridge
  BY <1>3 DEF Bridge, At, StateInv, HolderInv, Known, servers
<1>4. CASE Crash
  BY <1>4, CrashReloads DEF StateInv, Crash
<1>5. CASE NextRoom \/ CreateRoom \/ Enter \/ JoinUninvited \/ List \/ JoinMember
           \/ RecordMembers \/ Welcome \/ HandleInvite \/ Invited \/ HandleJoin \/ HandleLeave
           \/ HandleText \/ SendInvite \/ HandleBridge \/ NewRoom \/ Bridged
           \/ EnsureFails \/ Panic \/ UNCHANGED vars
  BY <1>5 DEF NextRoom, CreateRoom, Enter, JoinUninvited, List, JoinMember, RecordMembers,
     Welcome, HandleInvite, Invited, HandleJoin, HandleLeave, HandleText, SendInvite,
     HandleBridge, NewRoom, Bridged, EnsureFails, Panic, vars
<1>6. ASSUME NEW p \in People, InviteMember(p) PROVE UNCHANGED <<rooms, roomRows>>
  BY <1>6 DEF InviteMember
<1>7. CASE Environment
  BY <1>7 DEF Environment, TomsgJoin, UserInvites, UserJoins, UserKicks, UserWrites
<1> QED
  BY <1>1, <1>2, <1>3, <1>4, <1>5, <1>6, <1>7 DEF Next, Work

LEMMA OneRoomStep == TypeOK /\ StateInv /\ [Next]_vars => OneRoomPerName'
<1> SUFFICES ASSUME TypeOK, StateInv, [Next]_vars PROVE OneRoomPerName'
  OBVIOUS
<1>0. OneRoomPerName /\ rooms \subseteq Names \X Places
  BY DEF StateInv, TypeOK, MemoryType
<1>1. CASE UNCHANGED rooms
  BY <1>0, <1>1 DEF OneRoomPerName
<1>2. CASE /\ rooms' = rooms \cup {<<job.n, job.r>>}
           /\ job.n \in Names /\ job.r \in Places
           /\ PlaceOf(job.n) = {} /\ NameOf(job.r) = {}
  <2>1. \A a \in rooms : a[1] # job.n /\ a[2] # job.r
    BY <1>0, <1>2 DEF PlaceOf, NameOf
  <2> QED
    BY <1>0, <1>2, <2>1 DEF OneRoomPerName
<1> QED
  BY <1>1, <1>2, RoomsGrow DEF Manage

LEMMA ExistStep == TypeOK /\ StateInv /\ [Next]_vars => Exist'
<1> SUFFICES ASSUME TypeOK, StateInv, [Next]_vars PROVE Exist'
  OBVIOUS
<1>0. Exist /\ KindInv /\ HolderInv /\ rooms \subseteq Names \X Places /\ queue \in Seq(EventType)
  BY DEF StateInv, TypeOK, MemoryType
<1>1. \A r \in Places : present[r] # {} => present'[r] # {}
  BY <1>0, Populated
<1>2. \A a \in rooms' : present'[a[2]] # {}
  <2>1. \A a \in rooms : present'[a[2]] # {}
    BY <1>0, <1>1 DEF Exist
  <2> QED
    BY <2>1, RoomsGrow DEF Manage
<1>3. \A i \in DOMAIN queue : present'[queue[i].r] # {}
  <2> TAKE i \in DOMAIN queue
  <2>1. queue[i] \in EventType
    BY <1>0
  <2>2. queue[i].r \in Places
    BY <2>1, EventTyped
  <2> QED
    BY <1>0, <1>1, <2>2 DEF Exist
<1>4. \A i \in DOMAIN queue' : present'[queue'[i].r] # {}
  <2>1. CASE UNCHANGED queue
    BY <1>3, <2>1
  <2>2. CASE queue' = Tail(queue) /\ queue # <<>>
    BY <1>0, <1>3, <2>2, TailAt
  <2>3. ASSUME NEW v \in EventType, queue' = Append(queue, v), present'[v.r] # {}
        PROVE  \A i \in DOMAIN queue' : present'[queue'[i].r] # {}
    BY <1>0, <1>3, <2>3
  <2> QED
    BY <1>0, <2>1, <2>2, <2>3, QueueSteps DEF QueueStep, Answer, Deliver
<1> QED
  BY <1>2, <1>4 DEF Exist

\* The participants only grow, together with their rows.
LEMMA MembersGrow ==
    ASSUME TypeOK, StateInv, [Next]_vars
    PROVE  UNCHANGED <<participants, memberRows>> \/ \E P : Insert(P)
<1> USE DEF disk, memory
<1>1. CASE Session
  BY <1>1, Begins
<1>2. CASE Enter \/ RecordMembers \/ Bridge
  BY <1>2 DEF Enter, RecordMembers, Bridge
<1>3. CASE Invited \/ HandleJoin \/ HandleText
  BY <1>3 DEF Invited, HandleJoin, HandleText, Admit
<1>4. CASE Crash
  BY <1>4, CrashReloads DEF StateInv, Crash
<1>5. CASE NextRoom \/ CreateRoom \/ AddRoom \/ JoinUninvited \/ List \/ JoinMember
           \/ Welcome \/ HandleInvite \/ HandleLeave \/ SendInvite \/ HandleBridge \/ NewRoom
           \/ Bridged \/ EnsureFails \/ Panic \/ UNCHANGED vars
  BY <1>5 DEF NextRoom, CreateRoom, AddRoom, JoinUninvited, List, JoinMember, Welcome,
     HandleInvite, HandleLeave, SendInvite, HandleBridge, NewRoom, Bridged, EnsureFails, Panic, vars
<1>6. ASSUME NEW p \in People, InviteMember(p) PROVE UNCHANGED <<participants, memberRows>>
  BY <1>6 DEF InviteMember
<1>7. CASE Environment
  BY <1>7 DEF Environment, TomsgJoin, UserInvites, UserJoins, UserKicks, UserWrites
<1> QED
  BY <1>1, <1>2, <1>3, <1>4, <1>5, <1>6, <1>7 DEF Next, Work

\* The rows of management rooms only grow, together with what is in memory.
LEMMA ManagementGrows ==
    ASSUME TypeOK, StateInv, [Next]_vars
    PROVE  \/ UNCHANGED <<management, managementRows>>
           \/ \E u \in Users, r \in Places : SetManagementRoom(u, r)
<1> USE DEF disk, memory
<1>1. CASE Session
  BY <1>1, Begins
<1>2. CASE Invited
  <2>1. queue # <<>>
    BY <1>2 DEF Invited, At, StateInv, KindInv
  <2>2. e \in EventType
    BY <2>1, TailTyped DEF TypeOK, e
  <2>3. CASE SetManagementRoom(e.by, e.r) /\ job.x = Bot /\ e.arg = TRUE
    <3>1. job.x = e.x
      BY <1>2 DEF Invited, At, StateInv, HolderInv
    <3>2. e.by \in Users /\ e.r \in Places
      BY <2>2, <2>3, <3>1 DEF EventType
    <3> QED
      BY <2>3, <3>2
  <2> QED
    BY <1>2, <2>3 DEF Invited
<1>3. CASE Crash
  BY <1>3, CrashReloads DEF StateInv, Crash
<1>4. CASE NextRoom \/ CreateRoom \/ AddRoom \/ Enter \/ JoinUninvited \/ List \/ JoinMember
           \/ RecordMembers \/ Welcome \/ HandleInvite \/ HandleJoin \/ HandleLeave
           \/ HandleText \/ SendInvite \/ HandleBridge \/ NewRoom \/ Bridge \/ Bridged
           \/ EnsureFails \/ Panic \/ UNCHANGED vars
  BY <1>4 DEF NextRoom, CreateRoom, AddRoom, Enter, JoinUninvited, List, JoinMember,
     RecordMembers, Welcome, HandleInvite, HandleJoin, HandleLeave, HandleText,
     SendInvite, HandleBridge, NewRoom, Bridge, Bridged, EnsureFails, Panic, vars
<1>5. ASSUME NEW p \in People, InviteMember(p) PROVE UNCHANGED <<management, managementRows>>
  BY <1>5 DEF InviteMember
<1>6. CASE Environment
  BY <1>6 DEF Environment, TomsgJoin, UserInvites, UserJoins, UserKicks, UserWrites
<1> QED
  BY <1>1, <1>2, <1>3, <1>4, <1>5, <1>6 DEF Next, Work

\* The row that is added is the last of its user and of no other.
LEMMA SetManagementStep ==
    ASSUME TypeOK, HasLast, management = LoadedManagement,
           NEW u \in Users, NEW r \in Places, SetManagementRoom(u, r)
    PROVE  HasLast' /\ management' = LoadedManagement'
<1> DEFINE n == Len(managementRows) + 1
<1>1. managementRows \in Seq(Users \X Places) /\ n \in Nat
  BY DEF TypeOK, DiskType
<1>2. /\ managementRows' = Append(managementRows, <<u, r>>)
      /\ DOMAIN managementRows = 1..(n - 1) /\ DOMAIN managementRows' = 1..n
      /\ managementRows'[n] = <<u, r>>
      /\ \A i \in 1..(n - 1) : managementRows'[i] = managementRows[i]
  BY <1>1 DEF SetManagementRoom, InsertManagementRoom
<1>3. RowsOf(u)' = RowsOf(u) \cup {n}
  BY <1>1, <1>2 DEF RowsOf
<1>4. \A v \in Users \ {u} : RowsOf(v)' = RowsOf(v)
  BY <1>1, <1>2 DEF RowsOf
<1>5. \A j \in RowsOf(u)' : j <= n
  BY <1>1, <1>2 DEF RowsOf
<1>6. HasLast'
  <2>1. n \in RowsOf(u)'
    BY <1>3
  <2> QED
    BY <1>4, <1>5, <2>1 DEF HasLast
<1>7. LastRow(RowsOf(u))' = r
  <2>1. \A i \in RowsOf(u)' : (\A j \in RowsOf(u)' : j <= i) => i = n
    BY <1>1, <1>2, <1>3, <1>5 DEF RowsOf
  <2>2. (CHOOSE i \in RowsOf(u)' : \A j \in RowsOf(u)' : j <= i) = n
    BY <1>3, <1>5, <2>1
  <2>3. managementRows'[n][2] = r
    BY <1>2
  <2>4. LastRow(RowsOf(u))'
            = managementRows'[CHOOSE i \in RowsOf(u)' : \A j \in RowsOf(u)' : j <= i][2]
    BY DEF LastRow
  <2> QED
    BY <2>2, <2>3, <2>4, Zenon
<1>8. ASSUME NEW v \in Users \ {u}, RowsOf(v) # {}
      PROVE  LastRow(RowsOf(v))' = LastRow(RowsOf(v))
  <2> DEFINE k == CHOOSE i \in RowsOf(v) : \A j \in RowsOf(v) : j <= i
  <2>1. k \in RowsOf(v)
    BY <1>8 DEF HasLast
  <2>2. k \in 1..(n - 1)
    BY <1>2, <2>1 DEF RowsOf
  <2> QED
    BY <1>2, <1>4, <2>2 DEF LastRow
<1>9. management' = [management EXCEPT ![u] = r]
  BY DEF SetManagementRoom
<1>10. LoadedManagement' = [LoadedManagement EXCEPT ![u] = r]
  BY <1>3, <1>4, <1>7, <1>8 DEF LoadedManagement
<1> QED
  BY <1>6, <1>9, <1>10

LEMMA RecordedStep == TypeOK /\ StateInv /\ [Next]_vars => HasLast' /\ Recorded'
<1> SUFFICES ASSUME TypeOK, StateInv, [Next]_vars PROVE HasLast' /\ Recorded'
  OBVIOUS
<1>1. rooms' = roomRows'
  BY RoomsGrow DEF StateInv, Recorded, Manage, InsertRoom
<1>2. participants' = memberRows'
  BY MembersGrow DEF StateInv, Recorded, Insert, InsertMembers
<1>3. HasLast' /\ management' = LoadedManagement'
  <2>1. CASE UNCHANGED <<management, managementRows>>
    BY <2>1 DEF StateInv, HasLast, Recorded, LoadedManagement, RowsOf, LastRow
  <2> QED
    BY <2>1, ManagementGrows, SetManagementStep DEF StateInv, Recorded
<1> QED
  BY <1>1, <1>2, <1>3 DEF Recorded

LEMMA FreeLock == Release => HolderInv' /\ KindInv'
  BY DEF Release, NoJob, HolderInv, KindInv, At

\* Meanwhile the environment only adds events and lets the bot be put out.
LEMMA EnvironmentKeeps ==
    ASSUME TypeOK, StateInv, Environment
    PROVE  HolderInv' /\ KindInv'
<1>1. job' = job /\ rooms' = rooms
  BY DEF Environment, TomsgJoin, UserInvites, UserJoins, UserKicks, UserWrites, memory
<1>2. HolderInv /\ KindInv /\ queue \in Seq(EventType) /\ present \in [Places -> SUBSET Everyone]
  BY DEF StateInv, TypeOK, ServerType
<1>3. UNCHANGED queue \/ \E v : queue' = Append(queue, v)
  BY DEF Environment, TomsgJoin, UserInvites, UserJoins, UserKicks, UserWrites, Deliver
<1>4. queue # <<>> => queue' # <<>> /\ e' = e
  <2>1. ASSUME NEW v, queue' = Append(queue, v), queue # <<>>
        PROVE  queue' # <<>> /\ e' = e
    <3>1. Len(queue) \in Nat /\ Len(queue) # 0
      BY <1>2, <2>1
    <3> QED
      BY <1>2, <2>1, <3>1 DEF e
  <2> QED
    BY <1>3, <2>1 DEF e
<1>5. \A r \in Places : present[r] # {} => present'[r] # {}
  BY <1>2, Populated DEF Next
<1>6. \A r \in Places, p \in People : p \in present[r] => p \in present'[r]
  <2>1. Bot \notin People
    BY RoomsAssumption DEF Members
  <2> QED
    BY <1>2, <2>1 DEF Environment, TomsgJoin, UserInvites, UserJoins, UserKicks, UserWrites,
       EnterPlace, servers
<1>7. HolderInv'
  <2>1. At("invited") => queue # <<>> /\ job.r \in Places
    <3>1. At("invited") => queue # <<>> /\ job.r = e.r
      BY <1>2 DEF KindInv, HolderInv
    <3> QED
      BY <1>2, <3>1, TailTyped, EventTyped DEF e
  <2>2. At("add") => job.r \in Places
    BY <1>2 DEF HolderInv, At, Places
  <2> QED
    BY <1>1, <1>2, <1>4, <1>5, <1>6, <2>1, <2>2 DEF HolderInv, At, PlaceOf, NameOf
<1>8. KindInv'
  BY <1>1, <1>2, <1>4 DEF KindInv, At
<1> QED
  BY <1>7, <1>8

LEMMA SessionHolds == TypeOK /\ StateInv /\ Session => HolderInv' /\ KindInv'
<1> SUFFICES ASSUME TypeOK, StateInv, Session PROVE HolderInv' /\ KindInv'
  OBVIOUS
<1>1. UNCHANGED <<rooms, roomRows>>
  BY Begins DEF disk, memory
<1>2. ASSUME NEW u \in Users, NEW S \in SUBSET Names, BeginSetUp(u, S)
      PROVE  HolderInv' /\ KindInv'
  BY <1>2 DEF BeginSetUp, NoJob, HolderInv, KindInv, At
<1>3. ASSUME NEW kind \in {"invite", "join", "message"}, NEW u \in Users, NEW n \in Names,
             NEW x \in Members, BeginPush(kind, u, n, x)
      PROVE  HolderInv' /\ KindInv'
  <2>1. kind = "join" => x \in People
    BY <1>3 DEF BeginPush
  <2>2. /\ job'.kind = kind /\ job'.n = n /\ job'.u = u /\ job'.x = x
        /\ \/ job'.step = "enter" /\ job'.r \in PlaceOf(n)
           \/ job'.step = "create" /\ job'.r = n /\ PlaceOf(n) = {}
    BY <1>3 DEF BeginPush, NoJob
  <2> QED
    BY <1>1, <2>1, <2>2 DEF HolderInv, KindInv, At, PlaceOf, NameOf
<1> QED
  BY <1>2, <1>3 DEF Session

LEMMA HolderStep == TypeOK /\ StateInv /\ [Next]_vars => HolderInv' /\ KindInv'
<1> SUFFICES ASSUME TypeOK, StateInv, [Next]_vars PROVE HolderInv' /\ KindInv'
  OBVIOUS
<1> USE DEF At
<1>0. HolderInv /\ KindInv /\ job \in JobType /\ present \in [Places -> SUBSET Everyone]
  BY DEF StateInv, TypeOK, ServerType
<1>1. ASSUME NEW n \in Names, NEW x \in Members, Admit(n, x), queue # <<>>
      PROVE  HolderInv' /\ KindInv'
  <2>1. CASE Release
    BY <2>1, FreeLock
  <2>2. ASSUME NEW y \in Lenders(n), queue' = queue,
               job' = [NoJob EXCEPT !.step = "send", !.n = n, !.u = y, !.x = x]
        PROVE  HolderInv' /\ KindInv'
    BY <1>1, <2>2 DEF NoJob, HolderInv, KindInv, Lenders
  <2> QED
    BY <1>1, <2>1, <2>2 DEF Admit, Answer
<1>2. ASSUME NEW st, Go(st)
      PROVE  /\ job'.step = st /\ job'.kind = job.kind /\ job'.n = job.n /\ job'.r = job.r
             /\ job'.u = job.u /\ job'.x = job.x
  BY <1>0, <1>2 DEF Go, JobType
<1>3. CASE Session
  BY <1>3, SessionHolds
<1>4. CASE Environment
  BY <1>4, EnvironmentKeeps
<1>5. CASE EnsureFails \/ Panic \/ Crash \/ JoinUninvited \/ HandleLeave \/ SendInvite \/ Bridged
  BY <1>5, FreeLock DEF EnsureFails, Panic, Crash, JoinUninvited, HandleLeave, SendInvite,
     Bridged, Answer
<1>6. CASE NextRoom
  <2>1. ASSUME NEW n \in job.rest, Reach(n) PROVE HolderInv' /\ KindInv'
    <3>1. n \in Names
      BY <1>0, <2>1 DEF JobType
    <3>2. /\ job'.kind = job.kind /\ job'.n = n /\ job'.u = job.u /\ job'.x = job.x
          /\ \/ job'.step = "enter" /\ job'.r \in PlaceOf(n)
             \/ job'.step = "create" /\ job'.r = n /\ PlaceOf(n) = {}
      BY <1>0, <2>1 DEF Reach, JobType
    <3>3. job.kind = "setup" /\ rooms' = rooms
      BY <1>0, <1>6 DEF NextRoom, KindInv, memory
    <3> QED
      BY <1>0, <3>1, <3>2, <3>3 DEF HolderInv, KindInv, PlaceOf, NameOf
  <2> QED
    BY <1>6, <2>1, FreeLock DEF NextRoom
<1>7. CASE CreateRoom
  <2>1. present[job.n] = {} => NameOf(job.n) = {}
    BY <1>7 DEF CreateRoom, HolderInv, StateInv, Exist, NameOf
  <2>2. CASE Go("add") /\ present[job.n] = {} /\ present' = [present EXCEPT ![job.n] = {Bot}]
    BY <1>0, <1>7, <2>1, <2>2 DEF CreateRoom, Go, JobType, HolderInv, KindInv, PlaceOf, NameOf,
       memory, Places
  <2> QED
    BY <1>7, <2>2, FreeLock DEF CreateRoom
<1>8. CASE AddRoom
  BY <1>0, <1>8 DEF AddRoom, Manage, Go, JobType, HolderInv, KindInv, Places
<1>9. CASE Enter
  <2>1. /\ job'.kind = job.kind /\ job'.n = job.n /\ job'.r = job.r
        /\ job'.u = job.u /\ job'.x = job.x
        /\ \/ job'.step = "list" /\ job.kind \in {"setup", "invite"}
           \/ job'.step = "puppet" /\ job.kind = "join"
        \/ Release
    BY <1>0, <1>9 DEF Enter, Go, JobType
  <2>2. rooms' = rooms /\ job.step = "enter"
    BY <1>9 DEF Enter
  <2> QED
    BY <1>0, <2>1, <2>2, FreeLock DEF HolderInv, KindInv
<1>10. CASE List
  <2>1. \/ /\ job'.kind = job.kind /\ job'.n = job.n /\ job'.r = job.r
           /\ job'.u = job.u /\ job'.x = job.x /\ job'.step = "members"
        \/ Release
    BY <1>0, <1>10 DEF List, JobType
  <2>2. rooms' = rooms /\ queue' = queue /\ job.step = "list"
    BY <1>10 DEF List, memory
  <2> QED
    BY <1>0, <2>1, <2>2, FreeLock DEF HolderInv, KindInv
<1>11. ASSUME NEW p \in People, InviteMember(p) PROVE HolderInv' /\ KindInv'
  <2>1. \/ /\ job'.kind = job.kind /\ job'.n = job.n /\ job'.r = job.r
           /\ job'.u = job.u /\ job'.x = p /\ job'.step = "join"
           /\ \E v : queue' = Append(queue, v)
        \/ Release
    BY <1>0, <1>11 DEF InviteMember, InvitePlace, Deliver, JobType
  <2>2. rooms' = rooms /\ job.step = "members"
    BY <1>11 DEF InviteMember, memory
  <2>3. ASSUME NEW v, queue' = Append(queue, v), queue # <<>> PROVE queue' # <<>>
    BY <2>3 DEF TypeOK
  <2> QED
    BY <1>0, <2>1, <2>2, <2>3, FreeLock DEF HolderInv, KindInv
<1>12. CASE JoinMember
  <2>1. /\ job'.kind = job.kind /\ job'.n = job.n /\ job'.r = job.r
        /\ job'.u = job.u /\ job'.x = job.x /\ job'.step = "members"
    BY <1>0, <1>12 DEF JoinMember, JobType
  <2>2. rooms' = rooms /\ queue' = queue /\ job.step = "join"
    BY <1>12 DEF JoinMember, memory
  <2> QED
    BY <1>0, <2>1, <2>2 DEF HolderInv, KindInv
<1>13. CASE RecordMembers
  <2>1. rooms' = rooms /\ queue' = queue /\ job.step = "members" /\ Go("welcome")
    BY <1>13 DEF RecordMembers
  <2> QED
    BY <1>0, <1>2, <2>1 DEF HolderInv, KindInv
<1>14. CASE Welcome
  <2>1. rooms' = rooms /\ job.step = "welcome"
    BY <1>14 DEF Welcome, memory
  <2>2. Release \/ (Go("room") /\ job.kind = "setup")
    BY <1>14 DEF Welcome
  <2> QED
    BY <1>0, <1>2, <2>1, <2>2, FreeLock DEF HolderInv, KindInv
<1>15. CASE HandleInvite
  <2>1. queue # <<>> /\ e \in EventType /\ e.r \in Places /\ e.x \in Everyone
    BY <1>15, FirstEvent, EventTyped DEF HandleInvite
  <2>2. job'.step = "invited" /\ job'.kind = "none" /\ job'.r = e.r /\ job'.x = e.x
    BY <1>15 DEF HandleInvite, NoJob
  <2>3. e.x \in present'[e.r]
    BY <1>0, <1>15, <2>1 DEF HandleInvite, EnterPlace
  <2>4. queue' # <<>> /\ e' = e
    <3>1. Len(queue) \in Nat /\ Len(queue) # 0 /\ queue \in Seq(EventType)
      BY <2>1 DEF TypeOK
    <3> QED
      BY <1>15, <2>1, <3>1 DEF HandleInvite, Deliver, e
  <2> QED
    BY <2>2, <2>3, <2>4 DEF HolderInv, KindInv
<1>16. CASE Invited
  <2>1. queue # <<>>
    BY <1>0, <1>16 DEF Invited, KindInv
  <2>2. Release \/ \E n \in Names : Admit(n, job.x) /\ job.x \in Members
    BY <1>16 DEF Invited, Answer, NameOf, Members
  <2> QED
    BY <1>1, <2>1, <2>2, FreeLock
<1>17. CASE HandleJoin \/ HandleText
  <2>1. queue # <<>> /\ e.by \in Members
    BY <1>17, FirstEvent, EventTyped DEF HandleJoin, HandleText, Members
  <2> QED
    BY <1>1, <1>17, <2>1, FreeLock DEF HandleJoin, HandleText, Answer, NameOf
<1>18. CASE HandleBridge
  <2>1. /\ queue # <<>> /\ e.r \in Places /\ e.by \in Users /\ present[e.r] # {}
        /\ e.arg \in Names \cup {None, Bad}
    <3>1. queue # <<>> /\ e.r \in Places /\ e.by \in Users /\ e.arg \in Names \cup {None, Bad}
      BY <1>18, FirstEvent, EventTyped DEF HandleBridge
    <3>2. Len(queue) \in Nat /\ Len(queue) # 0 /\ e = queue[1] /\ DOMAIN queue = 1..Len(queue)
      BY <3>1 DEF TypeOK, e
    <3> QED
      BY <3>1, <3>2 DEF StateInv, Exist
  <2>2. CASE /\ MayBridge(e.r) /\ e.arg # Bad /\ queue' = queue
             /\ job' = [NoJob EXCEPT !.step = IF e.arg = None THEN "newroom" ELSE "bridge",
                                     !.kind = "bridge", !.n = e.arg, !.r = e.r, !.u = e.by]
    <3>1. /\ job'.step = (IF e.arg = None THEN "newroom" ELSE "bridge")
          /\ job'.kind = "bridge" /\ job'.n = e.arg /\ job'.r = e.r /\ job'.u = e.by
      BY <2>2 DEF NoJob
    <3>2. rooms' = rooms /\ present' = present /\ NameOf(e.r) = {}
      BY <1>18, <2>2 DEF HandleBridge, MayBridge, memory, servers
    <3> QED
      BY <2>1, <2>2, <3>1, <3>2 DEF HolderInv, KindInv, NameOf
  <2> QED
    BY <1>18, <2>2, FreeLock DEF HandleBridge, Answer
<1>19. CASE NewRoom
  <2>1. \E n \in Names : job' = [job EXCEPT !.step = "bridge", !.n = n]
    BY <1>19 DEF NewRoom
  <2>2. /\ job'.kind = job.kind /\ job'.n \in Names /\ job'.r = job.r
        /\ job'.u = job.u /\ job'.x = job.x /\ job'.step = "bridge"
    BY <1>0, <2>1 DEF JobType
  <2>3. rooms' = rooms /\ present' = present /\ queue' = queue /\ job.step = "newroom"
    BY <1>19 DEF NewRoom, memory
  <2> QED
    BY <1>0, <2>2, <2>3 DEF HolderInv, KindInv, NameOf
<1>20. CASE Bridge
  <2>1. CASE Manage(job.n, job.r) /\ Go("list")
    <3>1. queue' = queue /\ job.step = "bridge" /\ <<job.n, job.r>> \in rooms'
      BY <1>20, <2>1 DEF Bridge, Manage
    <3> QED
      BY <1>0, <1>2, <2>1, <3>1 DEF HolderInv, KindInv
  <2> QED
    BY <1>20, <2>1, FreeLock DEF Bridge
<1>21. CASE UNCHANGED vars
  BY <1>0, <1>21 DEF vars, servers, memory, HolderInv, KindInv, NameOf, PlaceOf, e
<1> QED
  BY <1>3, <1>4, <1>5, <1>6, <1>7, <1>8, <1>9, <1>10, <1>11, <1>12, <1>13, <1>14, <1>15,
     <1>16, <1>17, <1>18, <1>19, <1>20, <1>21 DEF Next, Work

---------------------------------------------------------------------------
\* Who is where.

LEMMA MembersStay ==
    ASSUME TypeOK, StateInv, [Next]_vars, NEW n \in Names
    PROVE  members[n] \subseteq members'[n]
<1> USE DEF servers
<1>0. members \in [Names -> SUBSET Members] /\ HolderInv /\ KindInv
  BY DEF TypeOK, ServerType, StateInv
<1>1. CASE Session
  BY <1>1, Begins
<1>2. CASE NextRoom \/ CreateRoom \/ AddRoom \/ Enter \/ JoinUninvited \/ List \/ JoinMember
           \/ RecordMembers \/ Welcome \/ HandleInvite \/ Invited \/ HandleJoin \/ HandleLeave
           \/ HandleText \/ HandleBridge \/ Bridge \/ Bridged \/ EnsureFails \/ Panic \/ Crash
           \/ UNCHANGED vars
  BY <1>2 DEF NextRoom, CreateRoom, AddRoom, Enter, JoinUninvited, List, JoinMember,
     RecordMembers, Welcome, HandleInvite, Invited, HandleJoin, HandleLeave, HandleText,
     HandleBridge, Bridge, Bridged, EnsureFails, Panic, Crash, vars
<1>3. ASSUME NEW p \in People, InviteMember(p) PROVE UNCHANGED members
  BY <1>3 DEF InviteMember
<1>4. CASE SendInvite
  BY <1>0, <1>4 DEF SendInvite
<1>5. CASE NewRoom
  BY <1>0, <1>5 DEF NewRoom
<1>6. CASE Environment
  BY <1>0, <1>6 DEF Environment, TomsgJoin, UserInvites, UserJoins, UserKicks, UserWrites
<1> QED
  BY <1>1, <1>2, <1>3, <1>4, <1>5, <1>6 DEF Next, Work

\* Nobody puts a puppet out of a room.
LEMMA PeopleStay ==
    ASSUME TypeOK, StateInv, [Next]_vars, NEW r \in Places, NEW p \in People, p \in present[r]
    PROVE  p \in present'[r]
<1> USE DEF servers
<1>0. present \in [Places -> SUBSET Everyone]
  BY DEF TypeOK, ServerType
<1>1. ASSUME UNCHANGED present PROVE p \in present'[r]
  BY <1>1
<1>2. ASSUME NEW x, NEW q, EnterPlace(x, q) PROVE p \in present'[r]
  BY <1>0, <1>2 DEF EnterPlace
<1>3. CASE Session
  BY <1>1, <1>3, Begins
<1>4. CASE NextRoom \/ AddRoom \/ Enter \/ List \/ RecordMembers \/ Welcome \/ Invited
           \/ HandleJoin \/ HandleLeave \/ HandleText \/ SendInvite \/ HandleBridge \/ NewRoom
           \/ Bridge \/ Bridged \/ EnsureFails \/ Panic \/ Crash \/ UNCHANGED vars
  BY <1>1, <1>4 DEF NextRoom, AddRoom, Enter, List, RecordMembers, Welcome, Invited,
     HandleJoin, HandleLeave, HandleText, SendInvite, HandleBridge, NewRoom, Bridge,
     Bridged, EnsureFails, Panic, Crash, vars
<1>5. CASE CreateRoom
  BY <1>0, <1>5 DEF CreateRoom
<1>6. CASE JoinUninvited \/ JoinMember \/ HandleInvite
  BY <1>1, <1>2, <1>6 DEF JoinUninvited, JoinMember, HandleInvite
<1>7. ASSUME NEW q \in People, InviteMember(q) PROVE p \in present'[r]
  BY <1>1, <1>7 DEF InviteMember
<1>8. CASE Environment
  <2>1. p # Bot
    BY RoomsAssumption DEF Members
  <2> QED
    BY <1>0, <1>1, <1>2, <1>8, <2>1 DEF Environment, TomsgJoin, UserInvites, UserJoins,
       UserKicks, UserWrites
<1> QED
  BY <1>3, <1>4, <1>5, <1>6, <1>7, <1>8 DEF Next, Work

\* Faults are not undone, nor are the ghosts forgotten.
LEMMA GhostsStay ==
    ASSUME TypeOK, [Next]_vars
    PROVE  /\ faults' = 0 => faults = 0 /\ ~Panic /\ ~Crash
           /\ foreign \subseteq foreign' /\ uninvited \subseteq uninvited'
<1> USE DEF ghosts, bounds
<1>0. faults \in Nat
  BY DEF TypeOK, GhostType
<1>1. ASSUME UNCHANGED faults PROVE ~Panic /\ ~Crash
  BY <1>0, <1>1 DEF Panic, Crash, Fault
<1>2. CASE Session
  BY <1>1, <1>2, Begins
<1>3. CASE Panic \/ Crash
  BY <1>0, <1>3 DEF Panic, Crash, Fault
<1>4. CASE NextRoom \/ CreateRoom \/ AddRoom \/ Enter \/ JoinUninvited \/ List \/ JoinMember
           \/ RecordMembers \/ Welcome \/ HandleInvite \/ Invited \/ HandleJoin \/ HandleLeave
           \/ HandleText \/ SendInvite \/ HandleBridge \/ NewRoom \/ Bridge \/ Bridged
           \/ EnsureFails \/ UNCHANGED vars
  <2>1. UNCHANGED faults /\ foreign \subseteq foreign' /\ uninvited \subseteq uninvited'
    BY <1>4 DEF NextRoom, CreateRoom, AddRoom, Enter, JoinUninvited, List, JoinMember,
       RecordMembers, Welcome, HandleInvite, Invited, HandleJoin, HandleLeave, HandleText,
       SendInvite, HandleBridge, NewRoom, Bridge, Bridged, EnsureFails, vars
  <2> QED
    BY <1>1, <2>1
<1>5. ASSUME NEW p \in People, InviteMember(p) PROVE UNCHANGED <<faults, foreign, uninvited>>
  BY <1>5 DEF InviteMember
<1>6. CASE Environment
  <2>1. UNCHANGED <<faults, foreign, uninvited>>
    BY <1>6 DEF Environment, TomsgJoin, UserInvites, UserJoins, UserKicks, UserWrites
  <2> QED
    BY <1>1, <2>1
<1> QED
  BY <1>1, <1>2, <1>3, <1>4, <1>5, <1>6 DEF Next, Work

\* A participant that is added is a member on tomsg, or the holder of the lock
\* goes on to invite it.
LEMMA InvitedStep ==
    ASSUME TypeOK, StateInv, MemberInv, ParticipantsInvited, [Next]_vars
    PROVE  MemberInv' /\ ParticipantsInvited'
<1> SUFFICES ASSUME faults' = 0 PROVE MemberInv' /\ ParticipantsInvited'
  BY DEF MemberInv, ParticipantsInvited
<1> USE DEF At
<1> DEFINE Fine(n, x) == x \in members[n] \/ n \in foreign
<1>0. /\ HolderInv /\ KindInv /\ job \in JobType /\ participants \subseteq Names \X Members
      /\ members \in [Names -> SUBSET Members]
  BY DEF StateInv, TypeOK, MemoryType, ServerType
<1>1. faults = 0 /\ ~Panic /\ ~Crash
  BY GhostsStay
<1>2. \A n \in Names : members[n] \subseteq members'[n]
  BY MembersStay
<1>3. \A n \in Names, x \in Members : Fine(n, x) => Fine(n, x)'
  BY <1>2, GhostsStay
<1>4. ASSUME job.step # "send", NEW P \in SUBSET (Names \X Members),
             participants' = participants \cup P,
             \A n \in Names, x \in Members : <<n, x>> \in P => Fine(n, x)'
      PROVE  ParticipantsInvited'
  BY <1>1, <1>3, <1>4 DEF ParticipantsInvited, In
<1>5. ASSUME job.step # "send", UNCHANGED participants PROVE ParticipantsInvited'
  BY <1>1, <1>3, <1>5 DEF ParticipantsInvited, In
<1>6. ASSUME Release PROVE MemberInv'
  BY <1>6 DEF Release, NoJob, MemberInv
<1>7. ASSUME NEW n \in Names, NEW x \in Members, Admit(n, x), job.step # "send"
      PROVE  MemberInv' /\ ParticipantsInvited'
  <2>1. participants' = participants \cup {<<n, x>>}
    BY <1>7 DEF Admit, Insert
  <2>2. CASE In(n, x) /\ Release
    <3>1. UNCHANGED participants
      BY <2>1, <2>2 DEF In
    <3> QED
      BY <1>5, <1>6, <1>7, <2>2, <3>1
  <2>3. ASSUME ~In(n, x), NEW y \in Lenders(n),
               job' = [NoJob EXCEPT !.step = "send", !.n = n, !.u = y, !.x = x]
        PROVE  MemberInv' /\ ParticipantsInvited'
    <3>1. /\ job'.step = "send" /\ job'.kind = "none" /\ job'.n = n /\ job'.u = y /\ job'.x = x
      BY <2>3 DEF NoJob
    <3>2. In(n, y) /\ y # x
      BY <2>3 DEF Lenders
    <3>3. MemberInv'
      BY <2>1, <3>1, <3>2 DEF MemberInv, In
    <3>4. ParticipantsInvited'
      BY <1>1, <1>3, <1>7, <2>1, <3>1 DEF ParticipantsInvited, In
    <3> QED
      BY <3>3, <3>4
  <2> QED
    BY <1>7, <2>2, <2>3 DEF Admit, Answer
<1>8. CASE Session
  <2>1. job.step # "send" /\ UNCHANGED participants /\ UNCHANGED members
    BY <1>8, Begins DEF Idle, memory, servers
  <2>2. ASSUME NEW u \in Users, NEW S \in SUBSET Names, BeginSetUp(u, S) PROVE MemberInv'
    BY <2>1, <2>2 DEF BeginSetUp, NoJob, MemberInv
  <2>3. ASSUME NEW kind \in {"invite", "join", "message"}, NEW u \in Users, NEW n \in Names,
               NEW x \in Members, BeginPush(kind, u, n, x)
        PROVE  MemberInv'
    <3>1. /\ job'.kind = kind /\ job'.n = n /\ job'.u = u /\ job'.x = x
          /\ job'.step \in {"enter", "create"} /\ {u, x} \subseteq members[n]
      BY <2>3 DEF BeginPush, NoJob
    <3> QED
      BY <2>1, <3>1 DEF MemberInv
  <2> QED
    BY <1>5, <1>8, <2>1, <2>2, <2>3 DEF Session
<1>9. CASE Environment
  <2>1. job' = job /\ UNCHANGED participants
    BY <1>9 DEF Environment, TomsgJoin, UserInvites, UserJoins, UserKicks, UserWrites, memory
  <2>2. job.rest \subseteq Names
    BY <1>0 DEF JobType
  <2>3. MemberInv'
    BY <1>0, <1>1, <1>2, <2>1, <2>2 DEF MemberInv, HolderInv, In
  <2>4. ParticipantsInvited'
    BY <1>1, <1>3, <2>1 DEF ParticipantsInvited, In
  <2> QED
    BY <2>3, <2>4
<1>10. CASE NextRoom
  <2>1. job.step = "room" /\ UNCHANGED participants /\ UNCHANGED members
    BY <1>10 DEF NextRoom, memory, servers
  <2>2. ASSUME NEW n \in job.rest, Reach(n) PROVE MemberInv'
    <3>1. job.kind = "setup" /\ job.u \in members[n]
      BY <1>0, <1>1, <2>1 DEF KindInv, MemberInv
    <3>2. /\ job'.kind = job.kind /\ job'.n = n /\ job'.u = job.u
          /\ job'.step \in {"enter", "create"} /\ job'.rest \subseteq job.rest
      BY <1>0, <2>2 DEF Reach, JobType
    <3> QED
      BY <1>1, <2>1, <3>1, <3>2 DEF MemberInv
  <2> QED
    BY <1>5, <1>6, <1>10, <2>1, <2>2 DEF NextRoom
<1>11. CASE CreateRoom \/ AddRoom
  <2>1. job.step \in {"create", "add"} /\ UNCHANGED participants /\ UNCHANGED members
    BY <1>11 DEF CreateRoom, AddRoom, memory, servers
  <2>2. \/ /\ job'.kind = job.kind /\ job'.n = job.n /\ job'.u = job.u /\ job'.x = job.x
           /\ job'.step \in {"add", "enter"} /\ job'.rest = job.rest
        \/ Release
    BY <1>0, <1>11 DEF CreateRoom, AddRoom, Go, JobType
  <2>3. MemberInv'
    BY <1>1, <1>6, <2>1, <2>2 DEF MemberInv
  <2> QED
    BY <1>5, <2>1, <2>3
<1>12. CASE JoinUninvited \/ HandleLeave \/ Bridged \/ EnsureFails
  <2>1. job.step # "send" /\ UNCHANGED participants /\ Release
    BY <1>12 DEF JoinUninvited, HandleLeave, Bridged, EnsureFails, First, Idle, Answer, memory
  <2> QED
    BY <1>5, <1>6, <2>1
<1>13. CASE HandleInvite \/ HandleBridge
  <2>1. job.step # "send" /\ UNCHANGED participants
    BY <1>13 DEF HandleInvite, HandleBridge, First, Idle, memory
  <2>2. \/ Release
        \/ job'.kind \in {"none", "bridge"} /\ job'.step \in {"invited", "newroom", "bridge"}
    BY <1>13 DEF HandleInvite, HandleBridge, Answer, NoJob
  <2>3. MemberInv'
    BY <1>6, <2>2 DEF MemberInv
  <2> QED
    BY <1>5, <2>1, <2>3
<1>14. CASE Enter
  <2>1. /\ job.step = "enter" /\ job.n \in Names /\ UNCHANGED members
        /\ job.kind = "setup" => job.u \in Members
        /\ job.kind = "join" => job.x \in Members
    BY <1>0, <1>14 DEF Enter, servers, HolderInv, KindInv, Members
  <2>2. /\ job.kind = "setup" => job.u \in members[job.n]
        /\ job.kind = "join" => job.x \in members[job.n]
    BY <1>1, <2>1 DEF MemberInv
  <2>3. ParticipantsInvited'
    <3>1. CASE job.kind = "setup" /\ Insert({<<job.n, job.u>>})
      BY <1>4, <2>1, <2>2, <3>1 DEF Insert
    <3>2. CASE job.kind = "join" /\ Insert({<<job.n, job.x>>})
      BY <1>4, <2>1, <2>2, <3>2 DEF Insert
    <3> QED
      BY <1>5, <1>14, <2>1, <3>1, <3>2 DEF Enter
  <2>4. \/ /\ job'.kind = job.kind /\ job'.u = job.u
           /\ job'.step \in {"list", "puppet"} /\ job'.rest = job.rest
        \/ Release
    BY <1>0, <1>14 DEF Enter, Go, JobType
  <2>5. MemberInv'
    BY <1>1, <1>6, <2>1, <2>4 DEF MemberInv
  <2> QED
    BY <2>3, <2>5
<1>15. CASE List
  <2>1. job.step = "list" /\ UNCHANGED participants /\ UNCHANGED members
    BY <1>15 DEF List, memory, servers
  <2>2. \/ /\ job'.kind = job.kind /\ job'.n = job.n /\ job'.u = job.u
           /\ job'.step = "members" /\ job'.rest = job.rest
           /\ job'.todo \cup job'.res \subseteq members[job.n]
        \/ Release
    <3> DEFINE T == {p \in members[job.n] \cap People : ~In(job.n, p)}
    <3>1. T \subseteq members[job.n]
      OBVIOUS
    <3>2. job' = [job EXCEPT !.step = "members", !.res = {}, !.todo = T] \/ Release
      BY <1>15 DEF List
    <3> HIDE DEF T
    <3> QED
      BY <1>0, <3>1, <3>2 DEF JobType
  <2>3. MemberInv'
    BY <1>1, <1>6, <2>1, <2>2 DEF MemberInv
  <2> QED
    BY <1>5, <2>1, <2>3
<1>16. ASSUME NEW p \in People, InviteMember(p) PROVE MemberInv' /\ ParticipantsInvited'
  <2>1. job.step = "members" /\ p \in job.todo /\ UNCHANGED participants /\ UNCHANGED members
    BY <1>16 DEF InviteMember, memory
  <2>2. \/ /\ job'.kind = job.kind /\ job'.n = job.n /\ job'.u = job.u /\ job'.x = p
           /\ job'.step = "join" /\ job'.rest = job.rest
           /\ job'.todo = job.todo \ {p} /\ job'.res = job.res
        \/ Release
    <3>1. job' = [job EXCEPT !.step = "join", !.x = p, !.todo = @ \ {p}] \/ Release
      BY <1>16 DEF InviteMember
    <3> QED
      BY <1>0, <3>1 DEF JobType
  <2>3. MemberInv'
    BY <1>1, <1>6, <2>1, <2>2 DEF MemberInv
  <2> QED
    BY <1>5, <2>1, <2>3
<1>17. CASE JoinMember
  <2>1. job.step = "join" /\ UNCHANGED participants /\ UNCHANGED members
    BY <1>17 DEF JoinMember, memory
  <2>2. /\ job'.kind = job.kind /\ job'.n = job.n /\ job'.u = job.u
        /\ job'.step = "members" /\ job'.rest = job.rest
        /\ job'.todo = job.todo /\ job'.res = job.res \cup {job.x}
    BY <1>0, <1>17 DEF JoinMember, JobType
  <2>3. MemberInv'
    BY <1>1, <2>1, <2>2 DEF MemberInv
  <2> QED
    BY <1>5, <2>1, <2>3
<1>18. CASE RecordMembers
  <2>1. job.step = "members" /\ UNCHANGED members /\ job.n \in Names
    BY <1>0, <1>18 DEF RecordMembers, servers, HolderInv
  <2>2. job.res \subseteq members[job.n] /\ job.res \subseteq Members
    BY <1>0, <1>1, <2>1 DEF MemberInv, JobType, Members
  <2>3. ParticipantsInvited'
    BY <1>4, <1>18, <2>1, <2>2 DEF RecordMembers, Insert
  <2>4. job'.kind = job.kind /\ job'.u = job.u /\ job'.step = "welcome" /\ job'.rest = job.rest
    BY <1>0, <1>18 DEF RecordMembers, Go, JobType
  <2>5. MemberInv'
    BY <1>1, <2>1, <2>4 DEF MemberInv
  <2> QED
    BY <2>3, <2>5
<1>19. CASE Welcome
  <2>1. job.step = "welcome" /\ UNCHANGED participants /\ UNCHANGED members
    BY <1>19 DEF Welcome, memory
  <2>2. \/ job'.kind = job.kind /\ job'.u = job.u /\ job'.step = "room" /\ job'.rest = job.rest
        \/ Release
    BY <1>0, <1>19 DEF Welcome, Go, JobType
  <2>3. MemberInv'
    BY <1>1, <1>6, <2>1, <2>2 DEF MemberInv
  <2> QED
    BY <1>5, <2>1, <2>3
<1>20. CASE Invited
  <2>1. \/ \E n \in Names : Admit(n, job.x) /\ job.x \in Members
        \/ Release /\ UNCHANGED participants
    BY <1>20 DEF Invited, Answer, NameOf, Members
  <2>2. job.step # "send"
    BY <1>20 DEF Invited
  <2> QED
    BY <1>5, <1>6, <1>7, <2>1, <2>2
<1>21. CASE HandleJoin \/ HandleText
  <2>1. e.by \in Members
    BY <1>21, FirstEvent, EventTyped DEF HandleJoin, HandleText, Members
  <2>2. job.step # "send"
    BY <1>21 DEF HandleJoin, HandleText, First, Idle
  <2>3. \/ \E n \in Names : Admit(n, e.by)
        \/ Release /\ UNCHANGED participants
    BY <1>21 DEF HandleJoin, HandleText, Answer, NameOf
  <2> QED
    BY <1>5, <1>6, <1>7, <2>1, <2>2, <2>3
<1>22. CASE SendInvite
  <2>1. job.step = "send" /\ UNCHANGED participants /\ Release
    BY <1>22 DEF SendInvite, Answer, memory
  <2>2. job.n \in Names /\ job.x \in Members /\ job.u \in Members
    BY <1>0, <2>1 DEF HolderInv, Members
  <2>3. Fine(job.n, job.u)
    BY <1>1, <2>1, <2>2 DEF MemberInv, ParticipantsInvited
  <2>4. job.x \in members'[job.n] \/ job.n \in foreign'
    <3>1. CASE job.u \in members[job.n]
      BY <1>0, <1>22, <2>2, <3>1 DEF SendInvite
    <3>2. CASE job.n \in foreign
      BY <3>2, GhostsStay
    <3> QED
      BY <2>3, <3>1, <3>2
  <2>5. ParticipantsInvited'
    BY <1>1, <1>3, <2>1, <2>2, <2>4 DEF ParticipantsInvited, In
  <2> QED
    BY <1>6, <2>1, <2>5
<1>23. CASE NewRoom
  <2>1. job.step = "newroom" /\ UNCHANGED participants
    BY <1>23 DEF NewRoom, memory
  <2>2. job'.step = "bridge" /\ job'.kind = "bridge"
    BY <1>0, <1>23, <2>1 DEF NewRoom, JobType, KindInv
  <2>3. MemberInv'
    BY <2>2 DEF MemberInv
  <2> QED
    BY <1>5, <2>1, <2>3
<1>24. CASE Bridge
  <2>1. job.step = "bridge" /\ job.kind = "bridge" /\ job.n \in Names /\ job.u \in Members
    BY <1>0, <1>24 DEF Bridge, HolderInv, KindInv, Members
  <2>2. CASE Release /\ UNCHANGED participants
    BY <1>5, <1>6, <2>1, <2>2
  <2>3. CASE /\ Insert({<<job.n, job.u>>}) /\ Go("list")
             /\ foreign' = IF job.u \in members[job.n] THEN foreign ELSE foreign \cup {job.n}
    <3>1. job.u \in members'[job.n] \/ job.n \in foreign'
      BY <1>2, <2>1, <2>3
    <3>2. ParticipantsInvited'
      BY <1>4, <2>1, <2>3, <3>1 DEF Insert
    <3>3. job'.step = "list" /\ job'.kind = "bridge"
      BY <1>0, <2>1, <2>3 DEF Go, JobType
    <3>4. MemberInv'
      BY <3>3 DEF MemberInv
    <3> QED
      BY <3>2, <3>4
  <2> QED
    BY <1>24, <2>2, <2>3 DEF Bridge
<1>25. CASE UNCHANGED vars
  BY <1>25 DEF vars, servers, memory, ghosts, bounds, MemberInv, ParticipantsInvited, In
<1> QED
  BY <1>1, <1>8, <1>9, <1>10, <1>11, <1>12, <1>13, <1>14, <1>15, <1>16, <1>17, <1>18, <1>19,
     <1>20, <1>21, <1>22, <1>23, <1>24, <1>25 DEF Next, Work

\* A participant that is added is of a room that is managed.
LEMMA PlacedStep ==
    ASSUME TypeOK, StateInv, PlacedInv, [Next]_vars
    PROVE  \A p \in participants' : PlaceOf(p[1])' # {}
<1> USE DEF At
<1>0. HolderInv /\ KindInv
  BY DEF StateInv
<1>1. rooms \subseteq rooms'
  BY RoomsGrow DEF Manage
<1>2. \A n : PlaceOf(n) # {} => PlaceOf(n)' # {}
  BY <1>1 DEF PlaceOf
<1>3. ASSUME UNCHANGED participants PROVE \A p \in participants' : PlaceOf(p[1])' # {}
  BY <1>2, <1>3 DEF PlacedInv
<1>4. ASSUME NEW n, NEW X, PlaceOf(n) # {} \/ PlaceOf(n)' # {}, Insert({n} \X X)
      PROVE  \A p \in participants' : PlaceOf(p[1])' # {}
  BY <1>2, <1>4 DEF Insert, PlacedInv
<1>5. ASSUME NEW n, NEW x, PlaceOf(n) # {} \/ PlaceOf(n)' # {}, Insert({<<n, x>>})
      PROVE  \A p \in participants' : PlaceOf(p[1])' # {}
  BY <1>2, <1>5 DEF Insert, PlacedInv
<1>6. ASSUME NEW r \in Places, NEW n \in NameOf(r) PROVE PlaceOf(n) # {}
  BY <1>6 DEF NameOf, PlaceOf
<1>7. CASE Session
  BY <1>3, <1>7, Begins DEF memory
<1>8. CASE Enter \/ RecordMembers
  <2>1. PlaceOf(job.n) # {}
    BY <1>0, <1>8 DEF Enter, RecordMembers, HolderInv, PlaceOf
  <2> QED
    BY <1>3, <1>4, <1>5, <1>8, <2>1 DEF Enter, RecordMembers
<1>9. CASE Bridge
  <2>1. CASE Manage(job.n, job.r) /\ Insert({<<job.n, job.u>>})
    <3>1. <<job.n, job.r>> \in rooms' /\ job.r \in Places
      BY <1>0, <1>9, <2>1 DEF Manage, Bridge, HolderInv
    <3>2. \E r \in Places : <<job.n, r>> \in rooms'
      BY <3>1
    <3>3. ASSUME NEW n, n = job.n PROVE PlaceOf(n)' # {}
      BY <3>2, <3>3 DEF PlaceOf
    <3> QED
      BY <1>5, <2>1, <3>3
  <2> QED
    BY <1>3, <1>9, <2>1 DEF Bridge
<1>10. CASE Invited
  <2>1. job.r = e.r /\ (job.x \in People => e.r \in Places)
    <3>1. queue # <<>> /\ job.r = e.r
      BY <1>0, <1>10 DEF Invited, HolderInv, KindInv
    <3> QED
      BY <3>1, TailTyped, EventTyped DEF e, TypeOK
  <2> QED
    BY <1>3, <1>5, <1>6, <1>10, <2>1 DEF Invited, Admit
<1>11. CASE HandleJoin \/ HandleText
  <2>1. e.r \in Places
    BY <1>11, FirstEvent DEF HandleJoin, HandleText
  <2> QED
    BY <1>3, <1>5, <1>6, <1>11, <2>1 DEF HandleJoin, HandleText, Admit
<1>12. CASE Crash
  BY <1>3, <1>12, CrashReloads DEF StateInv, memory
<1>13. CASE NextRoom \/ CreateRoom \/ AddRoom \/ JoinUninvited \/ List \/ JoinMember
           \/ Welcome \/ HandleInvite \/ HandleLeave \/ SendInvite \/ HandleBridge \/ NewRoom
           \/ Bridged \/ EnsureFails \/ Panic \/ UNCHANGED vars
  BY <1>3, <1>13 DEF NextRoom, CreateRoom, AddRoom, JoinUninvited, List, JoinMember, Welcome,
     HandleInvite, HandleLeave, SendInvite, HandleBridge, NewRoom, Bridged, EnsureFails, Panic,
     vars, memory
<1>14. ASSUME NEW p \in People, InviteMember(p) PROVE UNCHANGED participants
  BY <1>14 DEF InviteMember, memory
<1>15. CASE Environment
  BY <1>3, <1>15 DEF Environment, TomsgJoin, UserInvites, UserJoins, UserKicks, UserWrites,
     memory
<1> QED
  BY <1>3, <1>7, <1>8, <1>9, <1>10, <1>11, <1>12, <1>13, <1>14, <1>15 DEF Next, Work

\* Of the puppets of a list those that joined are still there.
LEMMA JoinedStep ==
    ASSUME TypeOK, StateInv, PlacedInv, [Next]_vars, job'.step \in {"members", "join"}
    PROVE  job'.res \subseteq present'[job'.r]
<1> USE DEF At
<1>0. HolderInv /\ job \in JobType /\ present \in [Places -> SUBSET Everyone]
  BY DEF StateInv, TypeOK, ServerType
<1>1. ASSUME job.step \in {"members", "join"}, job'.res = job.res, job'.r = job.r
      PROVE  job'.res \subseteq present'[job'.r]
  <2>1. job.r \in Places /\ job.res \subseteq People
    BY <1>0, <1>1 DEF HolderInv, JobType
  <2>2. job.res \subseteq present[job.r]
    BY <1>1 DEF PlacedInv
  <2> QED
    BY <1>1, <2>1, <2>2, PeopleStay
<1>2. ASSUME job'.res = {} PROVE job'.res \subseteq present'[job'.r]
  BY <1>2
<1>4. ASSUME Release PROVE FALSE
  BY <1>4 DEF Release, NoJob
<1>5. ASSUME NEW st, Go(st) PROVE job'.step = st
  BY <1>0, <1>5 DEF Go, JobType
<1>6. CASE Session
  <2>1. ASSUME NEW u \in Users, NEW S \in SUBSET Names, BeginSetUp(u, S) PROVE FALSE
    BY <2>1 DEF BeginSetUp, NoJob
  <2>2. ASSUME NEW kind, NEW u \in Users, NEW n \in Names, NEW x \in Members,
               BeginPush(kind, u, n, x)
        PROVE  FALSE
    BY <2>2 DEF BeginPush, NoJob
  <2> QED
    BY <1>6, <2>1, <2>2 DEF Session
<1>7. CASE NextRoom
  <2>1. ASSUME NEW n, Reach(n) PROVE FALSE
    BY <1>0, <2>1 DEF Reach, JobType
  <2> QED
    BY <1>4, <1>7, <2>1 DEF NextRoom
<1>8. CASE CreateRoom \/ AddRoom \/ RecordMembers \/ Welcome \/ Bridge
  <2>1. Release \/ \E st \in {"add", "enter", "welcome", "room", "list"} : Go(st)
    BY <1>8 DEF CreateRoom, AddRoom, RecordMembers, Welcome, Bridge
  <2> QED
    BY <1>4, <1>5, <2>1
<1>9. CASE Enter
  <2>1. Release \/ job'.step \in {"list", "puppet"}
    BY <1>0, <1>9 DEF Enter, Go, JobType
  <2> QED
    BY <1>4, <2>1
<1>10. CASE List
  <2> DEFINE T == {p \in members[job.n] \cap People : ~In(job.n, p)}
  <2>1. job' = [job EXCEPT !.step = "members", !.res = {}, !.todo = T] \/ Release
    BY <1>10 DEF List
  <2> HIDE DEF T
  <2> QED
    BY <1>0, <1>2, <1>4, <2>1 DEF JobType
<1>11. ASSUME NEW p \in People, InviteMember(p) PROVE job'.res \subseteq present'[job'.r]
  <2>1. job' = [job EXCEPT !.step = "join", !.x = p, !.todo = @ \ {p}] \/ Release
    BY <1>11 DEF InviteMember
  <2>2. job.step = "members" /\ ((job'.res = job.res /\ job'.r = job.r) \/ Release)
    BY <1>0, <1>11, <2>1 DEF JobType, InviteMember
  <2> QED
    BY <1>1, <1>4, <2>2
<1>12. CASE JoinMember
  <2>1. job.step = "join" /\ job.r \in Places /\ job.x \in People /\ job.res \subseteq People
    BY <1>0, <1>12 DEF JoinMember, HolderInv, JobType
  <2>2. job'.res = job.res \cup {job.x} /\ job'.r = job.r
    BY <1>0, <1>12 DEF JoinMember, JobType
  <2>3. job.x \in present'[job.r]
    BY <1>0, <1>12, <2>1 DEF JoinMember, EnterPlace
  <2>4. job.res \subseteq present'[job.r]
    BY <2>1, PeopleStay DEF PlacedInv
  <2> QED
    BY <2>2, <2>3, <2>4
<1>13. CASE JoinUninvited \/ HandleLeave \/ SendInvite \/ Bridged \/ EnsureFails \/ Panic \/ Crash
  BY <1>4, <1>13 DEF JoinUninvited, HandleLeave, SendInvite, Bridged, EnsureFails, Panic,
     Crash, Answer
<1>14. CASE HandleInvite \/ Invited \/ HandleJoin \/ HandleText \/ HandleBridge
  <2>1. Release \/ job'.step \in {"invited", "send", "newroom", "bridge"}
    BY <1>14 DEF HandleInvite, Invited, HandleJoin, HandleText, HandleBridge, Admit, Answer,
       NoJob
  <2> QED
    BY <1>4, <2>1
<1>15. CASE NewRoom
  <2>1. job'.step = "bridge"
    BY <1>0, <1>15 DEF NewRoom, JobType
  <2> QED
    BY <2>1
<1>16. CASE Environment \/ UNCHANGED vars
  <2>1. job' = job
    BY <1>16 DEF Environment, TomsgJoin, UserInvites, UserJoins, UserKicks, UserWrites, vars
  <2> QED
    BY <1>1, <2>1
<1> QED
  BY <1>6, <1>7, <1>8, <1>9, <1>10, <1>11, <1>12, <1>13, <1>14, <1>15, <1>16 DEF Next, Work

\* A participant that is a puppet is in the one Matrix room of its room.
LEMMA PuppetsStep ==
    ASSUME TypeOK, StateInv, PlacedInv, PuppetsPresent, [Next]_vars
    PROVE  PuppetsPresent'
<1> SUFFICES ASSUME faults' = 0 PROVE PuppetsPresent'
  BY DEF PuppetsPresent
<1> USE DEF At
<1> DEFINE There(n, x) ==
        x \in Users \/ <<n, x>> \in uninvited \/ \A r \in PlaceOf(n) : x \in present[r]
<1>0. /\ HolderInv /\ KindInv /\ OneRoomPerName /\ job \in JobType
      /\ participants \subseteq Names \X Members /\ rooms \subseteq Names \X Places
      /\ present \in [Places -> SUBSET Everyone]
  BY DEF StateInv, TypeOK, MemoryType, ServerType
<1>1. faults = 0 /\ ~Panic /\ ~Crash /\ uninvited \subseteq uninvited'
  BY GhostsStay
<1>2. ASSUME NEW n \in Names, NEW x \in Members, In(n, x), There(n, x) PROVE There(n, x)'
  <2>1. PlaceOf(n) # {}
    BY <1>2 DEF In, PlacedInv
  <2>2. PlaceOf(n)' = PlaceOf(n)
    BY <2>1, RoomsGrow DEF PlaceOf, Manage
  <2>3. \A r \in Places : x \in People /\ x \in present[r] => x \in present'[r]
    BY PeopleStay
  <2> QED
    BY <1>1, <1>2, <2>2, <2>3 DEF PlaceOf, Members
<1>3. ASSUME NEW n \in Names, NEW r \in Places, <<n, r>> \in rooms PROVE PlaceOf(n) = {r}
  BY <1>0, <1>3 DEF OneRoomPerName, PlaceOf
<1>4. ASSUME job.step # "puppet", NEW P \in SUBSET (Names \X Members),
             participants' = participants \cup P,
             \A n \in Names, x \in Members : <<n, x>> \in P => There(n, x)'
      PROVE  PuppetsPresent'
  BY <1>1, <1>2, <1>4 DEF PuppetsPresent, In
<1>5. ASSUME job.step # "puppet", UNCHANGED participants PROVE PuppetsPresent'
  BY <1>1, <1>2, <1>5 DEF PuppetsPresent, In
<1>6. ASSUME job.step # "puppet", NEW n \in Names, NEW x \in Members,
             participants' = participants \cup {<<n, x>>},
             \A m \in Names, y \in Members : <<m, y>> \in {<<n, x>>} => There(m, y)'
      PROVE  PuppetsPresent'
  <2>1. {<<n, x>>} \in SUBSET (Names \X Members)
    OBVIOUS
  <2> QED
    BY <1>4, <1>6, <2>1
<1>7. CASE Session
  BY <1>5, <1>7, Begins DEF Idle, memory
<1>8. CASE Environment
  <2>1. job' = job /\ UNCHANGED participants
    BY <1>8 DEF Environment, TomsgJoin, UserInvites, UserJoins, UserKicks, UserWrites, memory
  <2> QED
    BY <1>1, <1>2, <2>1 DEF PuppetsPresent, In
<1>9. CASE JoinUninvited
  <2>1. job.step = "puppet" /\ UNCHANGED <<participants, rooms>>
        /\ job.n \in Names /\ job.r \in Places /\ job.x \in Members /\ <<job.n, job.r>> \in rooms
    BY <1>0, <1>9 DEF JoinUninvited, memory, HolderInv, Members
  <2>2. PlaceOf(job.n) = {job.r}
    BY <1>3, <2>1
  <2>3. ASSUME NEW n \in Names, NEW x \in Members, n = job.n, x = job.x PROVE There(n, x)'
    <3>1. PlaceOf(n)' = {job.r}
      BY <2>1, <2>2, <2>3 DEF PlaceOf
    <3> QED
      BY <1>0, <1>9, <2>1, <2>3, <3>1 DEF JoinUninvited, EnterPlace
  <2> QED
    BY <1>1, <1>2, <2>1, <2>3 DEF PuppetsPresent, In
<1>10. CASE Enter
  <2>1. /\ job.step = "enter" /\ job.n \in Names
        /\ job.kind = "setup" => job.u \in Members /\ job.u \in Users
        /\ job.kind = "join" => job.x \in Members
    BY <1>0, <1>10 DEF Enter, HolderInv, KindInv, Members
  <2>2. CASE job.kind = "setup" /\ Insert({<<job.n, job.u>>})
    <3>1. ASSUME NEW n \in Names, NEW x \in Members, n = job.n, x = job.u PROVE There(n, x)'
      BY <2>1, <2>2, <3>1
    <3>2. \A n \in Names, x \in Members : <<n, x>> \in {<<job.n, job.u>>} => There(n, x)'
      BY <3>1
    <3>3. participants' = participants \cup {<<job.n, job.u>>}
      BY <2>2 DEF Insert
    <3> QED
      BY <1>6, <2>1, <2>2, <3>2, <3>3
  <2>3. CASE /\ job.kind = "join" /\ Insert({<<job.n, job.x>>})
             /\ IF In(job.n, job.x) THEN Release ELSE Go("puppet")
    <3>1. participants' = participants \cup {<<job.n, job.x>>}
      BY <2>3 DEF Insert
    <3>2. CASE In(job.n, job.x)
      BY <1>5, <2>1, <3>1, <3>2 DEF In
    <3>3. CASE job'.step = "puppet" /\ job'.n = job.n /\ job'.x = job.x
      BY <1>1, <1>2, <2>1, <3>1, <3>3 DEF PuppetsPresent, In
    <3> QED
      BY <1>0, <2>3, <3>2, <3>3 DEF Go, JobType
  <2> QED
    BY <1>5, <1>10, <2>1, <2>2, <2>3 DEF Enter
<1>11. CASE RecordMembers
  <2>1. /\ job.step = "members" /\ UNCHANGED <<rooms, present>>
        /\ job.n \in Names /\ job.r \in Places /\ <<job.n, job.r>> \in rooms
        /\ job.res \subseteq Members
    BY <1>0, <1>11 DEF RecordMembers, servers, HolderInv, JobType, Members
  <2>2. PlaceOf(job.n) = {job.r} /\ job.res \subseteq present[job.r]
    BY <1>3, <2>1 DEF PlacedInv
  <2>3. ASSUME NEW n \in Names, NEW x \in Members, n = job.n, x \in job.res PROVE There(n, x)'
    <3>1. PlaceOf(n)' = {job.r}
      BY <2>1, <2>2, <2>3 DEF PlaceOf
    <3> QED
      BY <2>1, <2>2, <2>3, <3>1
  <2>4. \A n \in Names, x \in Members : <<n, x>> \in {job.n} \X job.res => There(n, x)'
    BY <2>3
  <2>5. participants' = participants \cup ({job.n} \X job.res)
    BY <1>11 DEF RecordMembers, Insert
  <2> QED
    BY <1>4, <2>1, <2>4, <2>5
<1>12. CASE Bridge
  <2>1. job.step = "bridge" /\ job.n \in Names /\ job.u \in Users /\ job.u \in Members
    BY <1>0, <1>12 DEF Bridge, HolderInv, KindInv, Members
  <2>2. CASE participants' = participants \cup {<<job.n, job.u>>}
    <3>1. \A n \in Names, x \in Members : <<n, x>> \in {<<job.n, job.u>>} => There(n, x)'
      BY <2>1
    <3> QED
      BY <1>6, <2>1, <2>2, <3>1
  <2> QED
    BY <1>5, <1>12, <2>1, <2>2 DEF Bridge, Insert
<1>13. CASE Invited
  <2>1. job.step = "invited" /\ job.r = e.r /\ UNCHANGED <<rooms, present>>
    BY <1>0, <1>13 DEF Invited, HolderInv, servers
  <2>2. queue # <<>>
    BY <1>0, <2>1 DEF KindInv
  <2>3. e.r \in Places
    BY <2>2, TailTyped, EventTyped DEF e, TypeOK
  <2>4. ASSUME NEW n \in NameOf(e.r), Insert({<<n, job.x>>}), job.x \in People
        PROVE  PuppetsPresent'
    <3>1. n \in Names /\ PlaceOf(n) = {e.r} /\ job.x \in present[e.r] /\ job.x \in Members
      BY <1>0, <1>3, <2>1, <2>3, <2>4 DEF NameOf, HolderInv, Members
    <3>2. ASSUME NEW x \in Members, x = job.x PROVE There(n, x)'
      <4>1. PlaceOf(n)' = PlaceOf(n)
        BY <2>1 DEF PlaceOf
      <4> QED
        BY <2>1, <3>1, <3>2, <4>1
    <3>3. participants' = participants \cup {<<n, job.x>>}
      BY <2>4 DEF Insert
    <3>4. \A m \in Names, x \in Members : <<m, x>> \in {<<n, job.x>>} => There(m, x)'
      BY <3>2
    <3> QED
      BY <1>6, <2>1, <3>1, <3>3, <3>4
  <2> QED
    BY <1>5, <1>13, <2>1, <2>4 DEF Invited, Admit
<1>14. CASE HandleJoin \/ HandleText
  <2>1. job.step # "puppet" /\ e.by \in Users /\ e.by \in Members
    BY <1>14, FirstEvent, EventTyped DEF HandleJoin, HandleText, First, Idle, Members
  <2>2. ASSUME NEW n \in Names, Insert({<<n, e.by>>}) PROVE PuppetsPresent'
    <3>1. \A m \in Names, x \in Members : <<m, x>> \in {<<n, e.by>>} => There(m, x)'
      BY <2>1
    <3>2. participants' = participants \cup {<<n, e.by>>}
      BY <2>2 DEF Insert
    <3> QED
      BY <1>6, <2>1, <3>1, <3>2
  <2> QED
    BY <1>5, <1>14, <2>1, <2>2 DEF HandleJoin, HandleText, Admit, NameOf
<1>15. CASE NextRoom \/ CreateRoom \/ AddRoom \/ List \/ JoinMember \/ Welcome \/ HandleInvite
           \/ HandleLeave \/ SendInvite \/ HandleBridge \/ NewRoom \/ Bridged \/ EnsureFails
  <2>1. job.step # "puppet" /\ UNCHANGED participants
    BY <1>15 DEF NextRoom, CreateRoom, AddRoom, List, JoinMember, Welcome, HandleInvite,
       HandleLeave, SendInvite, HandleBridge, NewRoom, Bridged, EnsureFails, First, Idle, memory
  <2> QED
    BY <1>5, <2>1
<1>16. ASSUME NEW p \in People, InviteMember(p) PROVE PuppetsPresent'
  BY <1>5, <1>16 DEF InviteMember, memory
<1>17. CASE UNCHANGED vars
  BY <1>17 DEF vars, servers, memory, ghosts, bounds, PuppetsPresent, In, PlaceOf
<1> QED
  BY <1>1, <1>7, <1>8, <1>9, <1>10, <1>11, <1>12, <1>13, <1>14, <1>15, <1>16, <1>17
     DEF Next, Work

---------------------------------------------------------------------------
\* Theorems.

LEMMA InitInv == Init => Inv
<1> SUFFICES ASSUME Init PROVE Inv
  OBVIOUS
<1>1. MemberInv /\ PlacedInv
  BY DEF Init, NoJob, At, MemberInv, PlacedInv
<1>2. ParticipantsInvited /\ PuppetsPresent
  BY DEF Init, ParticipantsInvited, PuppetsPresent, In
<1> QED
  BY <1>1, <1>2, InitState DEF StateInv, Inv

LEMMA InvStep == TypeOK /\ Inv /\ [Next]_vars => Inv'
<1> SUFFICES ASSUME TypeOK, Inv, [Next]_vars PROVE Inv'
  OBVIOUS
<1>1. StateInv /\ MemberInv /\ ParticipantsInvited /\ PlacedInv /\ PuppetsPresent
  BY DEF Inv, StateInv
<1>2. HolderInv' /\ KindInv' /\ Exist' /\ HasLast' /\ Recorded' /\ OneRoomPerName'
  BY <1>1, HolderStep, ExistStep, RecordedStep, OneRoomStep
<1>3. MemberInv' /\ ParticipantsInvited'
  BY <1>1, InvitedStep
<1>4. PlacedInv' /\ PuppetsPresent'
  BY <1>1, PlacedStep, JoinedStep, PuppetsStep DEF PlacedInv, At
<1> QED
  BY <1>2, <1>3, <1>4 DEF Inv

\* The invariant holds in every state: what the holder of the lock found out
\* stays true while it awaits the servers, whatever users and faults do.
THEOREM InvCorrect == Spec => [](TypeOK /\ Inv)
<1>1. Init => TypeOK /\ Inv
  BY InitTyped, InitInv
<1>2. TypeOK /\ Inv /\ [Next]_vars => (TypeOK /\ Inv)'
  BY TypeStep, InvStep DEF Inv, StateInv
<1> QED
  BY <1>1, <1>2, PTL DEF Spec

\* Type correctness of the rooms, their tables and the queue.
THEOREM TypeCorrect == Spec => []TypeOK
  BY InvCorrect, PTL

\* add_room and the checks of the bridge command keep the rooms one to one.
THEOREM OneRoomCorrect == Spec => []OneRoomPerName
<1>1. Inv => OneRoomPerName
  BY DEF Inv
<1> QED
  BY <1>1, InvCorrect, PTL

\* Without faults ensure_tomsg_user_in_room invites whom it records.
THEOREM ParticipantsCorrect == Spec => []ParticipantsInvited
<1>1. Inv => ParticipantsInvited
  BY DEF Inv
<1> QED
  BY <1>1, InvCorrect, PTL

\* Without faults puppets that are recorded have joined the Matrix room, but
\* for those that insert_and_invite did not invite.
THEOREM PuppetsCorrect == Spec => []PuppetsPresent
<1>1. Inv => PuppetsPresent
  BY DEF Inv
<1> QED
  BY <1>1, InvCorrect, PTL
---------------------------------------------------------------------------
\* The refinement of Directory.

LEMMA DirectoryInit == Init => D!Init
  BY DEF Init, D!Init

\* The room of the holder of the lock is tied to its name.
LEMMA HolderTied ==
    ASSUME HolderInv, job.step \in {"enter", "puppet", "list", "members", "join", "welcome"}
    PROVE  job.n \in Names /\ D!Tied(job.n)
  BY DEF HolderInv, D!Tied

LEMMA EnterStep == TypeOK /\ StateInv /\ Enter => [D!Next]_D!vars
<1> SUFFICES ASSUME TypeOK, StateInv, Enter PROVE [D!Next]_D!vars
  OBVIOUS
<1>1. job.n \in Names /\ D!Tied(job.n)
  BY HolderTied DEF Enter, At, StateInv
<1>2. job.kind = "setup" => job.u \in Users
  BY DEF StateInv, KindInv
<1>3. job.kind = "join" => job.x \in People
  BY DEF StateInv, KindInv
<1>4. ASSUME NEW x \in Users \cup People, Insert({<<job.n, x>>}) PROVE D!Next
  <2>1. D!Admit(job.n, x)
    BY <1>1, <1>4 DEF Enter, D!Admit, Insert
  <2> QED
    BY <1>1, <2>1 DEF D!Next
<1>5. CASE UNCHANGED participants
  BY <1>5 DEF Enter, D!vars
<1> QED
  BY <1>2, <1>3, <1>4, <1>5 DEF Enter

LEMMA RecordMembersStep == TypeOK /\ StateInv /\ RecordMembers => D!Next
<1> SUFFICES ASSUME TypeOK, StateInv, RecordMembers PROVE D!Next
  OBVIOUS
<1>1. job.n \in Names /\ D!Tied(job.n)
  BY HolderTied DEF RecordMembers, At, StateInv
<1>2. job.res \in SUBSET People
  BY DEF TypeOK, JobType
<1>3. D!Gather(job.n, job.res)
  BY <1>1 DEF RecordMembers, Insert, D!Gather
<1> QED
  BY <1>1, <1>2, <1>3 DEF D!Next

\* A user or puppet of a managed room is admitted to it.
LEMMA AdmitStep ==
    ASSUME NEW n, NEW x \in Members, NEW r, n \in NameOf(r), Admit(n, x),
           UNCHANGED <<rooms, management>>
    PROVE  D!Next
<1>1. n \in Names /\ D!Tied(n)
  BY DEF NameOf, D!Tied
<1>2. D!Admit(n, x)
  BY <1>1 DEF Admit, Insert, D!Admit
<1> QED
  BY <1>1, <1>2 DEF D!Next, Members

LEMMA InvitedRefines == TypeOK /\ StateInv /\ Invited => [D!Next]_D!vars
<1> SUFFICES ASSUME TypeOK, StateInv, Invited PROVE [D!Next]_D!vars
  OBVIOUS
<1>1. queue # <<>> /\ job.x = e.x
  BY DEF Invited, At, StateInv, KindInv, HolderInv
<1>2. e \in EventType
  BY <1>1, TailTyped DEF TypeOK, e
<1>3. CASE job.x = Bot /\ e.arg = TRUE /\ SetManagementRoom(e.by, e.r) /\ UNCHANGED participants
  <2>1. e.by \in Users /\ e.r \in Places
    BY <1>1, <1>2, <1>3 DEF EventType
  <2>2. D!Appoint(e.by, e.r)
    BY <1>3 DEF Invited, SetManagementRoom, D!Appoint
  <2> QED
    BY <2>1, <2>2 DEF D!Next
<1>4. CASE UNCHANGED <<participants, management>>
  BY <1>4 DEF Invited, D!vars
<1>5. ASSUME NEW n \in NameOf(e.r), job.x \in People, Admit(n, job.x), UNCHANGED management
      PROVE  [D!Next]_D!vars
  <2>1. UNCHANGED rooms
    BY DEF Invited
  <2> QED
    BY <1>5, <2>1, AdmitStep DEF Members
<1> QED
  BY <1>3, <1>4, <1>5 DEF Invited

LEMMA ChatStep == TypeOK /\ (HandleJoin \/ HandleText) => [D!Next]_D!vars
<1> SUFFICES ASSUME TypeOK, HandleJoin \/ HandleText PROVE [D!Next]_D!vars
  OBVIOUS
<1>1. UNCHANGED <<rooms, management>>
  BY DEF HandleJoin, HandleText
<1>2. queue # <<>> /\ e.kind \in {"join", "text"}
  BY DEF HandleJoin, HandleText, First, e
<1>3. e \in EventType
  BY <1>2, TailTyped DEF TypeOK, e
<1>4. e.by \in Members
  BY <1>2, <1>3, EventTyped DEF Members
<1>5. CASE UNCHANGED participants
  BY <1>1, <1>5 DEF D!vars
<1>6. ASSUME NEW n \in NameOf(e.r), Admit(n, e.by) PROVE D!Next
  BY <1>1, <1>4, <1>6, AdmitStep
<1> QED
  BY <1>5, <1>6 DEF HandleJoin, HandleText

\* A room that is made or bridged is tied to a name that was not, and was itself not.
LEMMA TieStep ==
    ASSUME TypeOK, StateInv, [Next]_vars, AddRoom \/ (Bridge /\ ~Known(job.n))
    PROVE  D!Next
<1>1. PlaceOf(job.n) = {} /\ NameOf(job.r) = {} /\ job.n \in Names /\ job.r \in Places
  BY DEF AddRoom, Bridge, Known, At, StateInv, HolderInv, Places
<1>2. rooms \subseteq Names \X Places
  BY DEF TypeOK, MemoryType
<1>3. \A a \in rooms : a[1] # job.n /\ a[2] # job.r
  BY <1>1, <1>2 DEF PlaceOf, NameOf
<1>4. D!Tie(job.n, job.r)
  BY <1>3 DEF AddRoom, Bridge, Manage, D!Tie
<1>5. CASE AddRoom
  <2>1. D!Plumb(job.n, job.r)
    BY <1>4, <1>5 DEF AddRoom, D!Plumb
  <2> QED
    BY <1>1, <2>1 DEF D!Next
<1>6. CASE Bridge /\ ~Known(job.n)
  <2>1. job.u \in Users
    BY <1>6 DEF Bridge, At, StateInv, KindInv
  <2>2. D!Bridge(job.n, job.r, job.u)
    BY <1>4, <1>6 DEF Bridge, Insert, D!Bridge
  <2> QED
    BY <1>1, <2>1, <2>2 DEF D!Next
<1> QED
  BY <1>5, <1>6

LEMMA DirectoryStep == TypeOK /\ Inv /\ [Next]_vars => [D!Next]_D!vars
<1> SUFFICES ASSUME TypeOK, Inv, [Next]_vars PROVE [D!Next]_D!vars
  OBVIOUS
<1>0. StateInv
  BY DEF Inv, StateInv
<1>1. UNCHANGED memory => UNCHANGED D!vars
  BY DEF memory, D!vars
<1>2. CASE Session
  BY <1>1, <1>2, Begins
<1>3. CASE AddRoom \/ (Bridge /\ ~Known(job.n))
  BY <1>0, <1>3, TieStep
<1>4. CASE Bridge /\ Known(job.n)
  BY <1>4 DEF Bridge, D!vars
<1>5. CASE Enter \/ RecordMembers
  BY <1>0, <1>5, EnterStep, RecordMembersStep
<1>6. CASE Invited \/ HandleJoin \/ HandleText
  BY <1>0, <1>6, InvitedRefines, ChatStep
<1>7. CASE Crash
  BY <1>0, <1>1, <1>7, CrashReloads DEF StateInv
<1>8. CASE NextRoom \/ CreateRoom \/ JoinUninvited \/ List \/ JoinMember
           \/ Welcome \/ HandleInvite \/ HandleLeave \/ SendInvite \/ HandleBridge \/ NewRoom
           \/ Bridged \/ EnsureFails \/ Panic \/ UNCHANGED vars
  BY <1>1, <1>8 DEF NextRoom, CreateRoom, JoinUninvited, List, JoinMember, Welcome,
     HandleInvite, HandleLeave, SendInvite, HandleBridge, NewRoom, Bridged, EnsureFails, Panic, vars
<1>9. ASSUME NEW p \in People, InviteMember(p) PROVE UNCHANGED D!vars
  BY <1>1, <1>9 DEF InviteMember
<1>10. CASE Environment
  BY <1>1, <1>10 DEF Environment, TomsgJoin, UserInvites, UserJoins, UserKicks, UserWrites
<1> QED
  BY <1>2, <1>3, <1>4, <1>5, <1>6, <1>7, <1>8, <1>9, <1>10 DEF Next, Work

\* The rooms, participants and management rooms of State do what Directory
\* promises, over crashes and failing requests.
THEOREM DirectoryRefined == Spec => DirectorySpec
<1>1. TypeOK /\ Inv /\ [Next]_vars => [D!Next]_D!vars
  BY DirectoryStep
<1> QED
  BY DirectoryInit, <1>1, InvCorrect, PTL DEF Spec, DirectorySpec, D!Spec

=============================================================================
