---------------------------- MODULE RelayProofs ----------------------------
(***************************************************************************)
(* Proofs about Relay, for every number of users, sessions, messages and   *)
(* faults.                                                                 *)
(***************************************************************************)
EXTENDS Relay, TLAPS

LEMMA SeqMono ==
    ASSUME NEW S, NEW T, S \subseteq T, NEW q \in Seq(S)
    PROVE  q \in Seq(T)
  BY SMT

LEMMA AppendFacts ==
    ASSUME NEW S, NEW q \in Seq(S), NEW x \in S
    PROVE  /\ Append(q, x) \in Seq(S)
           /\ Len(Append(q, x)) = Len(q) + 1
           /\ Append(q, x)[Len(q) + 1] = x
           /\ \A i \in 1..Len(q) : Append(q, x)[i] = q[i]
  BY SMT

LEMMA StoreType ==
    ASSUME TypeOK, NEW origin \in Nat \X Nat, NEW S, Store(origin, S)
    PROVE  /\ log' \in Seq(Nat \X Nat)
           /\ posts' \in Seq(Nat) /\ lost' \in Seq(Nat)
           /\ Len(posts') = Len(log') /\ Len(lost') = Len(log')
           /\ Ids \subseteq Ids' /\ Len(log) + 1 \in Ids'
           /\ inbox' \in [Sessions -> Seq(Ids')]
  <1> USE DEF TypeOK
  <1>1. /\ log' \in Seq(Nat \X Nat) /\ Len(log') = Len(log) + 1
        /\ posts' \in Seq(Nat) /\ Len(posts') = Len(posts) + 1
        /\ lost' \in Seq(Nat) /\ Len(lost') = Len(lost) + 1
    BY AppendFacts DEF Store, ServerType, GhostType
  <1>2. Ids \subseteq Ids' /\ Len(log) + 1 \in Ids'
    <2>1. Len(log) \in Nat
      BY DEF ServerType
    <2> QED  BY <1>1, <2>1 DEF Ids
  <1>3. ASSUME NEW s \in Sessions
        PROVE  inbox[s] \in Seq(Ids') /\ Append(inbox[s], Len(log) + 1) \in Seq(Ids')
    <2>1. inbox[s] \in Seq(Ids')
      BY <1>2, SeqMono DEF SessionType
    <2> QED  BY <2>1, <1>2, AppendFacts
  <1>4. inbox' \in [Sessions -> Seq(Ids')]
    BY <1>3 DEF Store, Push
  <1> QED  BY <1>1, <1>2, <1>4 DEF ServerType, GhostType

LEMMA EndSessionType ==
    ASSUME SessionType, Ids' = Ids, NEW s \in Sessions, EndSession(s)
    PROVE  SessionType'
  <1>1. <<>> \in Seq(Ids)
    BY SMT
  <1> QED  BY <1>1 DEF SessionType, EndSession, Phases

LEMMA DetachType ==
    ASSUME SessionType, Ids' = Ids, NEW S, Detach(S)
    PROVE  SessionType'
  <1>1. <<>> \in Seq(Ids)
    BY SMT
  <1> QED  BY <1>1 DEF SessionType, Detach, After, Phases

LEMMA CountType ==
    ASSUME NEW q \in Seq(Nat), NEW i \in 1..Len(q)
    PROVE  /\ [q EXCEPT ![i] = @ + 1] \in Seq(Nat)
           /\ Len([q EXCEPT ![i] = @ + 1]) = Len(q)
  BY SMT

LEMMA UnhandledType ==
    ASSUME NEW n, NEW h
    PROVE  Unhandled(n, h) \subseteq 1..n
  BY DEF Unhandled

\* The commands left in the channels are lines, or stand for nothing to write.
LEMMA ChannelType ==
    ASSUME ProcessType, NEW u \in Users, NEW left \in Seq(Nat \X Nat),
           stale' = [stale EXCEPT ![u] = left]
    PROVE  stale' \in [Users -> Seq(Nat \X Nat)]
  BY DEF ProcessType

LEMMA ChannelEmpty == <<>> \in Seq(Nat \X Nat)
  BY SMT

LEMMA TaskEndsType ==
    ASSUME ProcessType, NEW u \in Users, TaskEnds(u)
    PROVE  stale' \in [Users -> Seq(Nat \X Nat)] /\ dead' \subseteq Users
  <1>1. stale' \in [Users -> Seq(Nat \X Nat)]
    BY ChannelType, ChannelEmpty DEF TaskEnds
  <1> QED  BY <1>1 DEF TaskEnds, ProcessType

LEMMA LeaveType ==
    ASSUME ProcessType, NEW u, NEW command \in Nat \X Nat, Leave(u, command)
    PROVE  stale' \in [Users -> Seq(Nat \X Nat)]
  <1>1. \A w \in Users : Append(stale[w], command) \in Seq(Nat \X Nat)
    BY AppendFacts DEF ProcessType
  <1>2. stale' = [w \in Users |-> IF w = u THEN Append(stale[w], command) ELSE stale[w]]
    BY DEF Leave, ProcessType
  <1> QED  BY <1>1, <1>2 DEF ProcessType

LEMMA TailType ==
    ASSUME NEW S, NEW q \in Seq(S), q # <<>>
    PROVE  Head(q) \in S /\ Tail(q) \in Seq(S)
  BY SMT

LEMMA ConcatType ==
    ASSUME NEW S, NEW q \in Seq(S), NEW r \in Seq(S)
    PROVE  q \o r \in Seq(S)
  BY SMT

LEMMA PairType == ASSUME NEW S, NEW x \in S PROVE <<x>> \in Seq(S)
  BY SMT

LEMMA NativeType == Native \in Nat \X Nat /\ <<Native>> \in Seq(Nat \X Nat)
  <1>1. Native \in Nat \X Nat
    BY DEF Native
  <1> QED  BY <1>1, PairType

\* Every step keeps the types.  A step that stores no message changes only
\* the parts named first.
LEMMA TypeStep == TypeOK /\ LockInv /\ [Next]_vars => TypeOK'
  <1> SUFFICES ASSUME TypeOK, LockInv, [Next]_vars
               PROVE  TypeOK'
    OBVIOUS
  <1> USE DEF TypeOK, servers, process, room, session, copying, sending, bounds,
              ghosts
  <1>1. CASE NativeSend
    <2>1. PICK S : Store(Native, S)
      BY <1>1 DEF NativeSend
    <2>2. Native \in Nat \X Nat
      BY DEF Native
    <2>3. /\ log' \in Seq(Nat \X Nat)
          /\ posts' \in Seq(Nat) /\ lost' \in Seq(Nat)
          /\ Len(posts') = Len(log') /\ Len(lost') = Len(log')
          /\ Ids \subseteq Ids' /\ Len(log) + 1 \in Ids'
          /\ inbox' \in [Sessions -> Seq(Ids')]
      BY <2>1, <2>2, StoreType
    <2>4. ServerType' /\ GhostType'
      BY <1>1, <2>3 DEF NativeSend, ServerType, GhostType
    <2>5. ProcessType' /\ LocalType'
      BY <1>1, <2>3 DEF NativeSend, ProcessType, LocalType
    <2>6. SessionType'
      BY <1>1, <2>3 DEF NativeSend, SessionType
    <2> QED  BY <2>4, <2>5, <2>6
  <1>2. ASSUME NEW u \in Users, Submit(u)
        PROVE  TypeOK'
    <2>1. Ids' = Ids
      BY <1>2 DEF Submit, Ids
    <2>2. ServerType'
      BY AppendFacts, <1>2, <2>1 DEF Submit, ServerType
    <2>3. ProcessType' /\ SessionType' /\ LocalType' /\ GhostType'
      BY <1>2, <2>1 DEF Submit, ProcessType, SessionType, LocalType,
         GhostType
    <2> QED  BY <2>2, <2>3
  <1>3. CASE BeginTxn
    <2>1. Ids' = Ids
      BY <1>3 DEF BeginTxn, Ids
    <2>2. ServerType'
      BY <1>3, <2>1 DEF BeginTxn, ServerType
    <2>3. ProcessType' /\ SessionType' /\ LocalType' /\ GhostType'
      BY <1>3, <2>1 DEF BeginTxn, ProcessType, SessionType, LocalType,
         GhostType
    <2> QED  BY <2>2, <2>3
  <1>4. ASSUME NEW u \in Users, Connect(u)
        PROVE  TypeOK'
    <2>1. Ids' = Ids
      BY <1>4 DEF Connect, Ids
    <2>2. SessionType'
      BY <1>4, <2>1 DEF Connect, SessionType, Phases, Sessions
    <2>3. ServerType' /\ ProcessType' /\ LocalType' /\ GhostType'
      BY <1>4, <2>1 DEF Connect, ServerType, ProcessType, LocalType,
         GhostType
    <2> QED  BY <2>2, <2>3
  <1>5. ASSUME NEW u \in Users, GiveUp(u)
        PROVE  TypeOK'
    <2>1. Ids' = Ids
      BY <1>5 DEF GiveUp, Ids
    <2>2. ProcessType'
      BY <1>5, <2>1, TaskEndsType DEF GiveUp, ProcessType
    <2>3. GhostType'
      BY AppendFacts, <1>5, <2>1 DEF GiveUp, GhostType, Fault
    <2>4. ServerType' /\ SessionType' /\ LocalType'
      BY <1>5, <2>1 DEF GiveUp, ServerType, SessionType, LocalType
    <2> QED  BY <2>2, <2>3, <2>4
  <1>6. ASSUME NEW s \in Sessions, BindAssert(s)
        PROVE  TypeOK'
    <2>1. Ids' = Ids
      BY <1>6 DEF BindAssert, Ids
    <2>2. SessionType'
      BY <1>6, <2>1 DEF BindAssert, SessionType, Phases
    <2>3. ServerType' /\ ProcessType' /\ LocalType' /\ GhostType'
      BY <1>6, <2>1 DEF BindAssert, ServerType, ProcessType, LocalType,
         GhostType
    <2> QED  BY <2>2, <2>3
  <1>7. ASSUME NEW s \in Sessions, Login(s)
        PROVE  TypeOK'
    <2>1. Ids' = Ids
      BY <1>7 DEF Login, Ids
    <2>2. SessionType'
      BY EndSessionType, <1>7, <2>1 DEF Login, SessionType, Phases
    <2>3. ServerType' /\ ProcessType' /\ LocalType' /\ GhostType'
      BY <1>7, <2>1 DEF Login, ServerType, ProcessType, LocalType,
         GhostType
    <2> QED  BY <2>2, <2>3
  <1>8. ASSUME NEW s \in Sessions, BeginSetup(s)
        PROVE  TypeOK'
    <2>1. Ids' = Ids
      BY <1>8 DEF BeginSetup, Ids
    <2>2. ProcessType'
      BY <1>8, <2>1 DEF BeginSetup, ProcessType
    <2>3. SessionType'
      BY EndSessionType, <1>8, <2>1 DEF BeginSetup, SessionType, Phases
    <2>4. LocalType'
      <3>1. Len(log) \in Nat /\ Ids = 1..Len(log)
        BY DEF ServerType, Ids
      <3>2. top' \in Nat /\ todo' \subseteq Ids
        BY <1>8, <3>1, UnhandledType DEF BeginSetup, LocalType
      <3> QED  BY <1>8, <2>1, <3>2 DEF BeginSetup, LocalType
    <2>5. GhostType'
      BY <1>8, <2>1 DEF BeginSetup, GhostType, ProcessType
    <2>6. ServerType'
      BY <1>8, <2>1 DEF BeginSetup, ServerType
    <2> QED  BY <2>2, <2>3, <2>4, <2>5, <2>6
  <1>9. ASSUME NEW s \in Sessions, TakeHistory(s)
        PROVE  TypeOK'
    <2>1. Ids' = Ids
      BY <1>9 DEF TakeHistory, Ids
    <2>2. LocalType'
      BY <1>9, <2>1 DEF TakeHistory, LocalType, Wanted
    <2>3. ServerType' /\ ProcessType' /\ SessionType' /\ GhostType'
      BY <1>9, <2>1 DEF TakeHistory, ServerType, ProcessType,
         SessionType, GhostType
    <2> QED  BY <2>2, <2>3
  <1>10. ASSUME NEW s \in Sessions, EndSetup(s)
        PROVE  TypeOK'
    <2>1. Ids' = Ids
      BY <1>10 DEF EndSetup, Ids
    <2>2. ProcessType'
      BY <1>10, <2>1 DEF EndSetup, ProcessType
    <2>3. SessionType'
      BY <1>10, <2>1 DEF EndSetup, SessionType, Phases
    <2>4. LocalType'
      BY <1>10, <2>1 DEF EndSetup, LocalType
    <2>5. ServerType' /\ GhostType'
      BY <1>10, <2>1 DEF EndSetup, ServerType, GhostType
    <2> QED  BY <2>2, <2>3, <2>4, <2>5
  <1>11. ASSUME NEW s \in Sessions, LoopEnds(s)
        PROVE  TypeOK'
    <2>1. Ids' = Ids
      BY <1>11 DEF LoopEnds, Ids
    <2>2. SessionType'
      BY EndSessionType, <1>11, <2>1 DEF LoopEnds, SessionType
    <2>3. ServerType' /\ ProcessType' /\ LocalType' /\ GhostType'
      BY <1>11, <2>1 DEF LoopEnds, ServerType, ProcessType, LocalType,
         GhostType
    <2> QED  BY <2>2, <2>3
  <1>12. ASSUME NEW s \in Sessions, Abandon(s)
        PROVE  TypeOK'
    <2>1. Ids' = Ids
      BY <1>12 DEF Abandon, Ids
    <2>2. SessionType'
      BY DetachType, <1>12, <2>1 DEF Abandon, SessionType
    <2>3. ServerType' /\ ProcessType' /\ LocalType' /\ GhostType'
      BY <1>12, <2>1 DEF Abandon, ServerType, ProcessType, LocalType,
         GhostType
    <2> QED  BY <2>2, <2>3
  <1>13. ASSUME NEW s \in Sessions, Drop(s)
        PROVE  TypeOK'
    <2>1. Ids' = Ids
      BY <1>13 DEF Drop, Ids
    <2>2. SessionType'
      BY <1>13, <2>1 DEF Drop, SessionType
    <2>3. GhostType'
      BY AppendFacts, <1>13, <2>1 DEF Drop, GhostType, Fault
    <2>4. ServerType' /\ ProcessType' /\ LocalType'
      BY <1>13, <2>1 DEF Drop, ServerType, ProcessType, LocalType
    <2> QED  BY <2>2, <2>3, <2>4
  <1>14. ASSUME NEW u \in Users, Rebind(u)
        PROVE  TypeOK'
    <2>1. Ids' = Ids
      BY <1>14 DEF Rebind, Ids
    <2>2. ProcessType'
      BY <1>14, <2>1, ChannelType, ChannelEmpty DEF Rebind, ProcessType
    <2>3. SessionType'
      BY DetachType, <1>14, <2>1 DEF Rebind, SessionType
    <2>4. GhostType'
      BY <1>14, <2>1 DEF Rebind, GhostType
    <2>5. ServerType' /\ LocalType'
      BY <1>14, <2>1 DEF Rebind, ServerType, LocalType
    <2> QED  BY <2>2, <2>3, <2>4, <2>5
  <1>15. ASSUME NEW s \in Sessions, TakePush(s)
        PROVE  TypeOK'
    <2>1. Ids' = Ids
      BY <1>15 DEF TakePush, Ids
    <2>2. ProcessType'
      BY <1>15, <2>1 DEF TakePush, ProcessType
    <2>3. SessionType'
      BY <1>15, <2>1 DEF TakePush, SessionType
    <2>4. LocalType'
      BY <1>15, <2>1 DEF TakePush, LocalType, Wanted, SessionType
    <2>5. ServerType' /\ GhostType'
      BY <1>15, <2>1 DEF TakePush, ServerType, GhostType
    <2> QED  BY <2>2, <2>3, <2>4, <2>5
  <1>16. ASSUME NEW s \in Sessions, Post(s)
        PROVE  TypeOK'
    <2>1. Ids' = Ids
      BY <1>16 DEF Post, Ids
    <2>2. ServerType'
      BY CountType, <1>16, <2>1 DEF Post, ServerType, LocalType, Ids
    <2>3. LocalType'
      BY <1>16, <2>1 DEF Post, LocalType
    <2>4. ProcessType' /\ SessionType' /\ GhostType'
      BY <1>16, <2>1 DEF Post, ProcessType, SessionType, GhostType
    <2> QED  BY <2>2, <2>3, <2>4
  <1>17. ASSUME NEW s \in Sessions, Record(s)
        PROVE  TypeOK'
    <2>1. Ids' = Ids
      BY <1>17 DEF Record, Ids
    <2>2. ServerType'
      BY <1>17, <2>1 DEF Record, ServerType, LocalType, LockInv,
         Remember
    <2>3. ProcessType'
      BY <1>17, <2>1 DEF Record, ProcessType, LocalType, LockInv,
         Remember
    <2>4. LocalType'
      BY <1>17, <2>1 DEF Record, LocalType
    <2>5. SessionType' /\ GhostType'
      BY <1>17, <2>1 DEF Record, SessionType, GhostType
    <2> QED  BY <2>2, <2>3, <2>4, <2>5
  <1>18. ASSUME NEW s \in Sessions, MatrixFails(s)
        PROVE  TypeOK'
    <2>1. Ids' = Ids
      BY <1>18 DEF MatrixFails, Ids
    <2>2. ProcessType'
      <3>1. s[1] \in Users
        BY DEF Sessions
      <3>2. stale' \in [Users -> Seq(Nat \X Nat)] /\ dead' \subseteq Users
        BY <1>18, <3>1, TaskEndsType DEF MatrixFails, ProcessType
      <3> QED  BY <1>18, <2>1, <3>2 DEF MatrixFails, ProcessType
    <2>3. SessionType'
      BY EndSessionType, <1>18, <2>1 DEF MatrixFails, SessionType
    <2>4. LocalType'
      BY <1>18, <2>1 DEF MatrixFails, LocalType
    <2>5. GhostType'
      BY AppendFacts, CountType, <1>18, <2>1 DEF MatrixFails, GhostType,
         Fault, LoseCopy, LocalType, LockInv, Ids
    <2>6. ServerType'
      BY <1>18, <2>1 DEF MatrixFails, ServerType
    <2> QED  BY <2>2, <2>3, <2>4, <2>5, <2>6
  <1>19. CASE TakeEvent
    <2>1. Ids' = Ids
      BY <1>19 DEF TakeEvent, Ids
    <2>2. ProcessType'
      BY <1>19, <2>1 DEF TakeEvent, ProcessType
    <2>3. LocalType'
      BY BoundAssumption, <1>19, <2>1 DEF TakeEvent, LocalType
    <2>4. ServerType' /\ SessionType' /\ GhostType'
      BY <1>19, <2>1 DEF TakeEvent, ServerType, SessionType, GhostType
    <2> QED  BY <2>2, <2>3, <2>4
  <1>20. CASE SendDisconnected
    <2>1. Ids' = Ids
      BY <1>20 DEF SendDisconnected, Ids
    <2>2. ProcessType'
      BY <1>20, <2>1 DEF SendDisconnected, ProcessType, Panic,
         ServerType
    <2>3. LocalType'
      BY BoundAssumption, <1>20, <2>1 DEF SendDisconnected, LocalType,
         Panic
    <2>4. ServerType' /\ SessionType' /\ GhostType'
      BY <1>20, <2>1 DEF SendDisconnected, ServerType, SessionType,
         GhostType
    <2> QED  BY <2>2, <2>3, <2>4
  <1>21. CASE RecordReply
    <2>1. Ids' = Ids
      BY <1>21 DEF RecordReply, Ids
    <2>2. ServerType'
      BY <1>21, <2>1 DEF RecordReply, ServerType, LocalType, Remember
    <2>3. ProcessType'
      BY <1>21, <2>1 DEF RecordReply, ProcessType, LocalType, Remember,
         FinishEvent
    <2>4. LocalType'
      BY BoundAssumption, <1>21, <2>1 DEF RecordReply, LocalType,
         FinishEvent
    <2>5. SessionType' /\ GhostType'
      BY <1>21, <2>1 DEF RecordReply, SessionType, GhostType
    <2> QED  BY <2>2, <2>3, <2>4, <2>5
  <1>22. CASE AckTxn
    <2>1. Ids' = Ids
      BY <1>22 DEF AckTxn, Ids
    <2>2. ServerType'
      BY <1>22, <2>1 DEF AckTxn, ServerType
    <2>3. ProcessType' /\ SessionType' /\ LocalType' /\ GhostType'
      BY <1>22, <2>1 DEF AckTxn, ProcessType, SessionType, LocalType,
         GhostType
    <2> QED  BY <2>2, <2>3
  <1>23. CASE AckLost
    <2>1. Ids' = Ids
      BY <1>23 DEF AckLost, Ids
    <2>2. ProcessType'
      BY <1>23, <2>1 DEF AckLost, ProcessType, ServerType
    <2>3. GhostType'
      BY AppendFacts, <1>23, <2>1 DEF AckLost, GhostType, Fault
    <2>4. ServerType' /\ SessionType' /\ LocalType'
      BY <1>23, <2>1 DEF AckLost, ServerType, SessionType, LocalType
    <2> QED  BY <2>2, <2>3, <2>4
  <1>24. ASSUME NEW s \in Sessions, SendLine(s)
        PROVE  TypeOK'
    <2>1. PICK S : Store(<<next, line>>, S)
      BY <1>24 DEF SendLine
    <2>2. <<next, line>> \in Nat \X Nat
      BY BoundAssumption DEF ProcessType, LocalType
    <2>3. /\ log' \in Seq(Nat \X Nat)
          /\ posts' \in Seq(Nat) /\ lost' \in Seq(Nat)
          /\ Len(posts') = Len(log') /\ Len(lost') = Len(log')
          /\ Ids \subseteq Ids' /\ Len(log) + 1 \in Ids'
          /\ inbox' \in [Sessions -> Seq(Ids')]
      BY <2>1, <2>2, StoreType
    <2>4. ServerType' /\ GhostType'
      BY <1>24, <2>3 DEF SendLine, ServerType, GhostType
    <2>5. ProcessType' /\ LocalType'
      BY <1>24, <2>3 DEF SendLine, ProcessType, LocalType
    <2>6. SessionType'
      BY <1>24, <2>3 DEF SendLine, SessionType
    <2> QED  BY <2>4, <2>5, <2>6
  <1>25. ASSUME NEW s \in Sessions, SendRefused(s)
        PROVE  TypeOK'
    <2>1. Ids' = Ids
      BY <1>25 DEF SendRefused, Ids
    <2>2. ProcessType'
      BY <1>25, <2>1 DEF SendRefused, ProcessType, Panic, ServerType
    <2>3. LocalType'
      BY BoundAssumption, <1>25, <2>1 DEF SendRefused, LocalType, Panic
    <2>4. ServerType' /\ SessionType' /\ GhostType'
      BY <1>25, <2>1 DEF SendRefused, ServerType, SessionType, GhostType
    <2> QED  BY <2>2, <2>3, <2>4
  <1>26. ASSUME NEW s \in Sessions, SendFails(s)
        PROVE  TypeOK'
    <2>1. Ids' = Ids
      BY <1>26 DEF SendFails, Ids
    <2>2. ProcessType'
      <3>2. stale' \in [Users -> Seq(Nat \X Nat)]
        BY <1>26, LeaveType, NativeType DEF SendFails, ProcessType
      <3> QED  BY <1>26, <2>1, <3>2 DEF SendFails, ProcessType, Panic, ServerType
    <2>3. SessionType'
      BY DetachType, <1>26, <2>1 DEF SendFails, SessionType
    <2>4. LocalType'
      BY BoundAssumption, <1>26, <2>1 DEF SendFails, LocalType, Panic
    <2>5. GhostType'
      BY <1>26, <2>1 DEF SendFails, GhostType, LoseReply, LocalType
    <2>6. ServerType'
      BY <1>26, <2>1 DEF SendFails, ServerType
    <2> QED  BY <2>2, <2>3, <2>4, <2>5, <2>6
  <1>27. CASE Cancel
    <2>1. Ids' = Ids
      BY <1>27 DEF Cancel, Ids
    <2>2. ProcessType'
      <3>2. <<next, line>> \in Nat \X Nat
        BY BoundAssumption DEF ProcessType, LocalType
      <3>3. stale' \in [Users -> Seq(Nat \X Nat)]
        BY <1>27, <3>2, LeaveType, NativeType DEF Cancel, ProcessType
      <3> QED  BY <1>27, <2>1, <3>3 DEF Cancel, ProcessType, Panic, ServerType
    <2>3. LocalType'
      BY BoundAssumption, <1>27, <2>1 DEF Cancel, LocalType, Panic
    <2>4. GhostType'
      BY AppendFacts, <1>27, <2>1 DEF Cancel, GhostType, Fault,
         LoseReply, LocalType
    <2>5. ServerType' /\ SessionType'
      BY <1>27, <2>1 DEF Cancel, ServerType, SessionType
    <2> QED  BY <2>2, <2>3, <2>4, <2>5
  <1>28. CASE Crash
    <2>1. Ids' = Ids
      BY <1>28 DEF Crash, Ids
    <2>2. ProcessType'
      <3>1. /\ up' = FALSE /\ dead' = {} /\ handled' = {} /\ fetched' = FALSE
            /\ lock' = Free /\ next' = acked + 1
        BY <1>28 DEF Crash, Panic
      <3>2. up' \in BOOLEAN /\ fetched' \in BOOLEAN
        BY <3>1, Zenon
      <3>3. stale' \in [Users -> Seq(Nat \X Nat)]
        BY <1>28, ChannelEmpty DEF Crash
      <3> QED  BY <2>1, <3>1, <3>2, <3>3 DEF ProcessType, ServerType
    <2>3. SessionType'
      BY <1>28, <2>1 DEF Crash, SessionType, Phases
    <2>4. LocalType'
      <3>1. /\ todo' = {} /\ top' = 0 /\ job' = 0 /\ posted' = FALSE
            /\ line' = 0 /\ await' = 0
        BY <1>28 DEF Crash, Panic
      <3>2. posted' \in BOOLEAN
        BY <3>1, Zenon
      <3> QED  BY <2>1, <3>1, <3>2, BoundAssumption DEF LocalType
    <2>5. GhostType'
      BY AppendFacts, CountType, <1>28, <2>1 DEF Crash, GhostType,
         Fault, LoseCopy, LoseReply, LocalType, LockInv, Ids
    <2>6. ServerType'
      BY <1>28, <2>1 DEF Crash, ServerType
    <2> QED  BY <2>2, <2>3, <2>4, <2>5, <2>6
  <1>29. CASE Restart
    <2>1. Ids' = Ids
      BY <1>29 DEF Restart, Ids
    <2>2. ProcessType'
      BY <1>29, <2>1 DEF Restart, ProcessType, ServerType
    <2>3. ServerType' /\ SessionType' /\ LocalType' /\ GhostType'
      BY <1>29, <2>1 DEF Restart, ServerType, SessionType, LocalType,
         GhostType
    <2> QED  BY <2>2, <2>3
  <1>30. ASSUME NEW s \in Sessions, SendStale(s)
        PROVE  TypeOK'
    <2>1. PICK S : Store(Head(stale[s[1]]), S)
      BY <1>30 DEF SendStale
    <2>2. s[1] \in Users /\ stale[s[1]] \in Seq(Nat \X Nat) /\ stale[s[1]] # <<>>
      BY <1>30 DEF SendStale, Sessions, ProcessType
    <2>3. Head(stale[s[1]]) \in Nat \X Nat /\ Tail(stale[s[1]]) \in Seq(Nat \X Nat)
      BY <2>2, TailType
    <2>4. /\ log' \in Seq(Nat \X Nat)
          /\ posts' \in Seq(Nat) /\ lost' \in Seq(Nat)
          /\ Len(posts') = Len(log') /\ Len(lost') = Len(log')
          /\ Ids \subseteq Ids' /\ Len(log) + 1 \in Ids'
          /\ inbox' \in [Sessions -> Seq(Ids')]
      BY <2>1, <2>3, StoreType
    <2>5. ServerType' /\ GhostType'
      BY <1>30, <2>4 DEF SendStale, ServerType, GhostType
    <2>6. ProcessType'
      <3>1. <<Native>> \o Tail(stale[s[1]]) \in Seq(Nat \X Nat)
        BY <2>3, NativeType, ConcatType
      <3>2. stale' \in [Users -> Seq(Nat \X Nat)]
        BY <1>30, <2>2, <3>1, ChannelType DEF SendStale
      <3> QED  BY <1>30, <2>4, <3>2 DEF SendStale, ProcessType
    <2>7. SessionType' /\ LocalType'
      BY <1>30, <2>4 DEF SendStale, SessionType, LocalType
    <2> QED  BY <2>5, <2>6, <2>7
  <1>31. ASSUME NEW s \in Sessions, StaleAnswered(s)
        PROVE  TypeOK'
    <2>1. Ids' = Ids
      BY <1>31 DEF StaleAnswered, Ids
    <2>2. ProcessType'
      <3>1. s[1] \in Users
        BY DEF Sessions
      <3> QED  BY <1>31, <2>1, <3>1, TaskEndsType DEF StaleAnswered, ProcessType
    <2>3. SessionType'
      BY DetachType, <1>31, <2>1 DEF StaleAnswered
    <2>4. ServerType' /\ LocalType' /\ GhostType'
      BY <1>31, <2>1 DEF StaleAnswered, ServerType, LocalType, GhostType
    <2> QED  BY <2>2, <2>3, <2>4
  <1>32. ASSUME NEW s \in Sessions, StaleFails(s)
        PROVE  TypeOK'
    <2>1. Ids' = Ids
      BY <1>32 DEF StaleFails, Ids
    <2>2. ProcessType'
      <3>1. s[1] \in Users /\ stale[s[1]] \in Seq(Nat \X Nat) /\ stale[s[1]] # <<>>
        BY <1>32 DEF StaleFails, Sessions, ProcessType
      <3>2. Tail(stale[s[1]]) \in Seq(Nat \X Nat)
        BY <3>1, TailType
      <3>3. PICK left \in {<<>>, <<Native>>} :
              stale' = [stale EXCEPT ![s[1]] = Tail(@) \o left]
        BY <1>32 DEF StaleFails
      <3>4. Tail(stale[s[1]]) \o left \in Seq(Nat \X Nat)
        BY <3>2, ChannelEmpty, NativeType, ConcatType
      <3>5. stale' \in [Users -> Seq(Nat \X Nat)]
        BY <3>1, <3>3, <3>4, ChannelType
      <3> QED  BY <1>32, <2>1, <3>5 DEF StaleFails, ProcessType
    <2>3. SessionType'
      BY DetachType, <1>32, <2>1 DEF StaleFails
    <2>4. ServerType' /\ LocalType' /\ GhostType'
      BY <1>32, <2>1 DEF StaleFails, ServerType, LocalType, GhostType
    <2> QED  BY <2>2, <2>3, <2>4
  <1>33. CASE UNCHANGED vars
    BY <1>33 DEF vars, ServerType, ProcessType, SessionType, LocalType,
       GhostType, Ids
  <1> QED
    BY <1>1, <1>2, <1>3, <1>4, <1>5, <1>6, <1>7, <1>8, <1>9, <1>10, <1>11,
       <1>12, <1>13, <1>14, <1>15, <1>16, <1>17, <1>18, <1>19, <1>20,
       <1>21, <1>22, <1>23, <1>24, <1>25, <1>26, <1>27, <1>28, <1>29,
       <1>30, <1>31, <1>32, <1>33 DEF Next, Environment, ConnectionTask,
       Copying, Transaction, LeftBehind

\* What the safety properties are about.
core == <<log, posts, db, lock, job, posted, line, await, lost, orphan>>

CoreStep ==
    \/ NativeSend \/ TakeEvent \/ SendDisconnected \/ RecordReply \/ Cancel \/ Crash
    \/ \E s \in Sessions :
        \/ BeginSetup(s) \/ TakeHistory(s) \/ EndSetup(s) \/ TakePush(s)
        \/ Post(s) \/ Record(s) \/ MatrixFails(s)
        \/ SendLine(s) \/ SendRefused(s) \/ SendFails(s) \/ SendStale(s)

LEMMA CoreSteps == [Next]_vars => CoreStep \/ UNCHANGED core
  <1> SUFFICES ASSUME [Next]_vars
               PROVE  CoreStep \/ UNCHANGED core
    OBVIOUS
  <1> USE DEF core, servers, process, room, session, copying, sending,
     bounds, ghosts
  <1>1. ASSUME NEW u \in Users, Submit(u)
        PROVE  UNCHANGED core
    BY <1>1 DEF Submit
  <1>2. ASSUME BeginTxn
        PROVE  UNCHANGED core
    BY <1>2 DEF BeginTxn
  <1>3. ASSUME NEW u \in Users, Connect(u)
        PROVE  UNCHANGED core
    BY <1>3 DEF Connect
  <1>4. ASSUME NEW u \in Users, GiveUp(u)
        PROVE  UNCHANGED core
    BY <1>4 DEF GiveUp
  <1>5. ASSUME NEW s \in Sessions, BindAssert(s)
        PROVE  UNCHANGED core
    BY <1>5 DEF BindAssert
  <1>6. ASSUME NEW s \in Sessions, Login(s)
        PROVE  UNCHANGED core
    BY <1>6 DEF Login
  <1>7. ASSUME NEW s \in Sessions, LoopEnds(s)
        PROVE  UNCHANGED core
    BY <1>7 DEF LoopEnds
  <1>8. ASSUME NEW s \in Sessions, Abandon(s)
        PROVE  UNCHANGED core
    BY <1>8 DEF Abandon
  <1>9. ASSUME NEW s \in Sessions, Drop(s)
        PROVE  UNCHANGED core
    BY <1>9 DEF Drop
  <1>10. ASSUME NEW u \in Users, Rebind(u)
        PROVE  UNCHANGED core
    BY <1>10 DEF Rebind
  <1>11. ASSUME AckTxn
        PROVE  UNCHANGED core
    BY <1>11 DEF AckTxn
  <1>12. ASSUME AckLost
        PROVE  UNCHANGED core
    BY <1>12 DEF AckLost
  <1>13. ASSUME Restart
        PROVE  UNCHANGED core
    BY <1>13 DEF Restart
  <1>14. ASSUME UNCHANGED vars
        PROVE  UNCHANGED core
    BY <1>14 DEF vars
  <1>15. ASSUME NEW s \in Sessions, StaleAnswered(s) \/ StaleFails(s)
        PROVE  UNCHANGED core
    BY <1>15 DEF StaleAnswered, StaleFails
  <1> QED
    BY <1>1, <1>2, <1>3, <1>4, <1>5, <1>6, <1>7, <1>8, <1>9, <1>10, <1>11,
       <1>12, <1>13, <1>14, <1>15 DEF Next, Environment, ConnectionTask, Copying,
       Transaction, LeftBehind, CoreStep

\* The locals go with the lock.
LEMMA LockStep ==
    TypeOK /\ LockInv /\ [Next]_vars => LockInv'
  <1> SUFFICES ASSUME TypeOK, LockInv, [Next]_vars
               PROVE  LockInv'
    OBVIOUS
  <1> USE LockAssumption, BoundAssumption DEF servers, process, room,
     session, copying, sending, bounds, ghosts, LockInv, TypeOK,
     ProcessType, LocalType
  <1>1. CASE NativeSend
    BY <1>1 DEF NativeSend
  <1>2. ASSUME NEW s \in Sessions, BeginSetup(s)
        PROVE  LockInv'
    BY <1>2 DEF BeginSetup
  <1>3. ASSUME NEW s \in Sessions, TakeHistory(s)
        PROVE  LockInv'
    BY <1>3 DEF TakeHistory, Wanted
  <1>4. ASSUME NEW s \in Sessions, EndSetup(s)
        PROVE  LockInv'
    BY <1>4 DEF EndSetup
  <1>5. ASSUME NEW s \in Sessions, TakePush(s)
        PROVE  LockInv'
    BY <1>5 DEF TakePush, Wanted
  <1>6. ASSUME NEW s \in Sessions, Post(s)
        PROVE  LockInv'
    BY <1>6 DEF Post
  <1>7. ASSUME NEW s \in Sessions, Record(s)
        PROVE  LockInv'
    BY <1>7 DEF Record
  <1>8. ASSUME NEW s \in Sessions, MatrixFails(s)
        PROVE  LockInv'
    BY <1>8 DEF MatrixFails
  <1>9. CASE TakeEvent
    BY <1>9 DEF TakeEvent
  <1>10. CASE SendDisconnected
    BY <1>10 DEF SendDisconnected, Panic
  <1>11. CASE RecordReply
    BY <1>11 DEF RecordReply, FinishEvent
  <1>12. ASSUME NEW s \in Sessions, SendLine(s)
        PROVE  LockInv'
    BY <1>12 DEF SendLine
  <1>13. ASSUME NEW s \in Sessions, SendRefused(s)
        PROVE  LockInv'
    BY <1>13 DEF SendRefused, Panic
  <1>14. ASSUME NEW s \in Sessions, SendFails(s)
        PROVE  LockInv'
    BY <1>14 DEF SendFails, Panic
  <1>15. CASE Cancel
    BY <1>15 DEF Cancel, Panic
  <1>16. CASE Crash
    BY <1>16 DEF Crash, Panic
  <1>17. CASE UNCHANGED core
    BY <1>17 DEF core
  <1>18. ASSUME NEW s \in Sessions, SendStale(s)
        PROVE  LockInv'
    BY <1>18 DEF SendStale
  <1> QED
    BY CoreSteps, <1>1, <1>2, <1>3, <1>4, <1>5, <1>6, <1>7, <1>8, <1>9,
       <1>10, <1>11, <1>12, <1>13, <1>14, <1>15, <1>16, <1>17, <1>18
       DEF CoreStep

\* While the process is down, nothing starts.
LEMMA DownStep ==
    TypeOK /\ LockInv /\ DownInv /\ [Next]_vars => DownInv'
  <1> SUFFICES ASSUME TypeOK, LockInv, DownInv, [Next]_vars
               PROVE  DownInv'
    OBVIOUS
  <1> USE LockAssumption DEF servers, process, room, session, copying,
     sending, bounds, ghosts, LockInv, DownInv, TypeOK, ProcessType,
     SessionType
  <1>1. CASE NativeSend
    BY <1>1 DEF NativeSend
  <1>2. ASSUME NEW u \in Users, Submit(u)
        PROVE  DownInv'
    BY <1>2 DEF Submit
  <1>3. CASE BeginTxn
    BY <1>3 DEF BeginTxn
  <1>4. ASSUME NEW u \in Users, Connect(u)
        PROVE  DownInv'
    BY <1>4 DEF Connect
  <1>5. ASSUME NEW u \in Users, GiveUp(u)
        PROVE  DownInv'
    BY <1>5 DEF GiveUp, Fault
  <1>6. ASSUME NEW s \in Sessions, BindAssert(s)
        PROVE  DownInv'
    BY <1>6 DEF BindAssert
  <1>7. ASSUME NEW s \in Sessions, Login(s)
        PROVE  DownInv'
    BY <1>7 DEF Login, EndSession
  <1>8. ASSUME NEW s \in Sessions, BeginSetup(s)
        PROVE  DownInv'
    BY <1>8 DEF BeginSetup, EndSession
  <1>9. ASSUME NEW s \in Sessions, TakeHistory(s)
        PROVE  DownInv'
    BY <1>9 DEF TakeHistory
  <1>10. ASSUME NEW s \in Sessions, EndSetup(s)
        PROVE  DownInv'
    BY <1>10 DEF EndSetup
  <1>11. ASSUME NEW s \in Sessions, LoopEnds(s)
        PROVE  DownInv'
    BY <1>11 DEF LoopEnds, EndSession
  <1>12. ASSUME NEW s \in Sessions, Abandon(s)
        PROVE  DownInv'
    BY <1>12 DEF Abandon, Detach, After
  <1>13. ASSUME NEW s \in Sessions, Drop(s)
        PROVE  DownInv'
    BY <1>13 DEF Drop, Fault
  <1>14. ASSUME NEW u \in Users, Rebind(u)
        PROVE  DownInv'
    BY <1>14 DEF Rebind, Detach, After
  <1>15. ASSUME NEW s \in Sessions, TakePush(s)
        PROVE  DownInv'
    BY <1>15 DEF TakePush, Wanted
  <1>16. ASSUME NEW s \in Sessions, Post(s)
        PROVE  DownInv'
    BY <1>16 DEF Post
  <1>17. ASSUME NEW s \in Sessions, Record(s)
        PROVE  DownInv'
    BY <1>17 DEF Record
  <1>18. ASSUME NEW s \in Sessions, MatrixFails(s)
        PROVE  DownInv'
    BY <1>18 DEF MatrixFails, EndSession, Fault
  <1>19. CASE TakeEvent
    BY <1>19 DEF TakeEvent
  <1>20. CASE SendDisconnected
    BY <1>20 DEF SendDisconnected, Panic
  <1>21. CASE RecordReply
    BY <1>21 DEF RecordReply, FinishEvent, Remember
  <1>22. CASE AckTxn
    BY <1>22 DEF AckTxn
  <1>23. CASE AckLost
    BY <1>23 DEF AckLost, Fault
  <1>24. ASSUME NEW s \in Sessions, SendLine(s)
        PROVE  DownInv'
    BY <1>24 DEF SendLine
  <1>25. ASSUME NEW s \in Sessions, SendRefused(s)
        PROVE  DownInv'
    BY <1>25 DEF SendRefused, Panic
  <1>26. ASSUME NEW s \in Sessions, SendFails(s)
        PROVE  DownInv'
    BY <1>26 DEF SendFails, Panic, Detach, After
  <1>27. CASE Cancel
    BY <1>27 DEF Cancel, Panic, Fault
  <1>28. CASE Crash
    BY <1>28 DEF Crash, Panic
  <1>29. CASE Restart
    BY <1>29 DEF Restart
  <1>30. CASE UNCHANGED vars
    BY <1>30 DEF vars
  <1>31. ASSUME NEW s \in Sessions, SendStale(s)
        PROVE  DownInv'
    BY <1>31 DEF SendStale
  <1>32. ASSUME NEW s \in Sessions, StaleAnswered(s) \/ StaleFails(s)
        PROVE  DownInv'
    BY <1>32 DEF StaleAnswered, StaleFails, TaskEnds, Detach, After
  <1> QED
    BY <1>1, <1>2, <1>3, <1>4, <1>5, <1>6, <1>7, <1>8, <1>9, <1>10, <1>11,
       <1>12, <1>13, <1>14, <1>15, <1>16, <1>17, <1>18, <1>19, <1>20,
       <1>21, <1>22, <1>23, <1>24, <1>25, <1>26, <1>27, <1>28, <1>29,
       <1>30, <1>31, <1>32
       DEF Next, Environment, ConnectionTask, Copying, Transaction, LeftBehind

\* Memory and disk agree, and what is at work is in neither.
LEMMA MemoryStep ==
    TypeOK /\ LockInv /\ DownInv /\ MemoryInv /\ [Next]_vars => MemoryInv'
  <1> SUFFICES ASSUME TypeOK, LockInv, DownInv, MemoryInv, [Next]_vars
               PROVE  MemoryInv'
    OBVIOUS
  <1> USE LockAssumption DEF servers, process, room, session, copying,
     sending, bounds, ghosts, LockInv, DownInv, MemoryInv, TypeOK,
     ProcessType, ServerType, LocalType
  <1>1. CASE NativeSend
    BY <1>1 DEF NativeSend, Store
  <1>2. ASSUME NEW u \in Users, Submit(u)
        PROVE  MemoryInv'
    BY <1>2 DEF Submit
  <1>3. CASE BeginTxn
    BY <1>3 DEF BeginTxn
  <1>4. ASSUME NEW u \in Users, Connect(u)
        PROVE  MemoryInv'
    BY <1>4 DEF Connect
  <1>5. ASSUME NEW u \in Users, GiveUp(u)
        PROVE  MemoryInv'
    BY <1>5 DEF GiveUp
  <1>6. ASSUME NEW s \in Sessions, BindAssert(s)
        PROVE  MemoryInv'
    BY <1>6 DEF BindAssert
  <1>7. ASSUME NEW s \in Sessions, Login(s)
        PROVE  MemoryInv'
    BY <1>7 DEF Login
  <1>8. ASSUME NEW s \in Sessions, BeginSetup(s)
        PROVE  MemoryInv'
    BY <1>8 DEF BeginSetup
  <1>9. ASSUME NEW s \in Sessions, TakeHistory(s)
        PROVE  MemoryInv'
    BY <1>9 DEF TakeHistory, Wanted
  <1>10. ASSUME NEW s \in Sessions, EndSetup(s)
        PROVE  MemoryInv'
    BY <1>10 DEF EndSetup
  <1>11. ASSUME NEW s \in Sessions, LoopEnds(s)
        PROVE  MemoryInv'
    BY <1>11 DEF LoopEnds
  <1>12. ASSUME NEW s \in Sessions, Abandon(s)
        PROVE  MemoryInv'
    BY <1>12 DEF Abandon
  <1>13. ASSUME NEW s \in Sessions, Drop(s)
        PROVE  MemoryInv'
    BY <1>13 DEF Drop
  <1>14. ASSUME NEW u \in Users, Rebind(u)
        PROVE  MemoryInv'
    BY <1>14 DEF Rebind
  <1>15. ASSUME NEW s \in Sessions, TakePush(s)
        PROVE  MemoryInv'
    BY <1>15 DEF TakePush, Wanted
  <1>16. ASSUME NEW s \in Sessions, Post(s)
        PROVE  MemoryInv'
    BY <1>16 DEF Post
  <1>17. ASSUME NEW s \in Sessions, Record(s)
        PROVE  MemoryInv'
    BY <1>17 DEF Record, Remember
  <1>18. ASSUME NEW s \in Sessions, MatrixFails(s)
        PROVE  MemoryInv'
    BY <1>18 DEF MatrixFails
  <1>19. CASE TakeEvent
    BY <1>19 DEF TakeEvent
  <1>20. CASE SendDisconnected
    BY <1>20 DEF SendDisconnected, Panic
  <1>21. CASE RecordReply
    BY <1>21 DEF RecordReply, Remember, FinishEvent
  <1>22. CASE AckTxn
    BY <1>22 DEF AckTxn
  <1>23. CASE AckLost
    BY <1>23 DEF AckLost
  <1>24. ASSUME NEW s \in Sessions, SendLine(s)
        PROVE  MemoryInv'
    BY <1>24 DEF SendLine, Store, ServerType, Ids
  <1>25. ASSUME NEW s \in Sessions, SendRefused(s)
        PROVE  MemoryInv'
    BY <1>25 DEF SendRefused, Panic
  <1>26. ASSUME NEW s \in Sessions, SendFails(s)
        PROVE  MemoryInv'
    BY <1>26 DEF SendFails, Panic
  <1>27. CASE Cancel
    BY <1>27 DEF Cancel, Panic
  <1>28. CASE Crash
    BY <1>28 DEF Crash, Panic
  <1>29. CASE Restart
    BY <1>29 DEF Restart
  <1>30. CASE UNCHANGED vars
    BY <1>30 DEF vars
  <1>31. ASSUME NEW s \in Sessions, SendStale(s)
        PROVE  MemoryInv'
    BY <1>31 DEF SendStale, Store, Ids
  <1>32. ASSUME NEW s \in Sessions, StaleAnswered(s) \/ StaleFails(s)
        PROVE  MemoryInv'
    BY <1>32 DEF StaleAnswered, StaleFails, TaskEnds
  <1> QED
    BY <1>1, <1>2, <1>3, <1>4, <1>5, <1>6, <1>7, <1>8, <1>9, <1>10, <1>11,
       <1>12, <1>13, <1>14, <1>15, <1>16, <1>17, <1>18, <1>19, <1>20,
       <1>21, <1>22, <1>23, <1>24, <1>25, <1>26, <1>27, <1>28, <1>29,
       <1>30, <1>31, <1>32
       DEF Next, Environment, ConnectionTask, Copying, Transaction, LeftBehind

LEMMA CountFacts ==
    ASSUME NEW q \in Seq(Nat), NEW i \in 1..Len(q), NEW j \in 1..Len(q)
    PROVE  /\ [q EXCEPT ![i] = @ + 1][i] = q[i] + 1
           /\ j # i => [q EXCEPT ![i] = @ + 1][j] = q[j]
  BY SMT

LEMMA StoreFacts ==
    ASSUME TypeOK, NEW origin, NEW S, Store(origin, S)
    PROVE  /\ Len(log) \in Nat /\ Len(log) + 1 \notin Ids
           /\ Ids' = Ids \cup {Len(log) + 1}
           /\ log'[Len(log) + 1] = origin
           /\ posts'[Len(log) + 1] = 0 /\ lost'[Len(log) + 1] = 0
           /\ \A i \in Ids : log'[i] = log[i] /\ posts'[i] = posts[i] /\ lost'[i] = lost[i]
  <1> USE DEF TypeOK, ServerType, GhostType
  <1>1. /\ Len(log) \in Nat
        /\ Len(posts) = Len(log) /\ Len(lost) = Len(log)
    OBVIOUS
  <1>2. log' = Append(log, origin) /\ posts' = Append(posts, 0) /\ lost' = Append(lost, 0)
    BY DEF Store
  <1>3. Len(log') = Len(log) + 1 /\ log'[Len(log) + 1] = origin
    BY <1>2
  <1>4. \A i \in Ids : log'[i] = log[i]
    BY <1>1, <1>2 DEF Ids
  <1>5. posts'[Len(log) + 1] = 0 /\ \A i \in Ids : posts'[i] = posts[i]
    BY <1>1, <1>2, AppendFacts DEF Ids
  <1>6. lost'[Len(log) + 1] = 0 /\ \A i \in Ids : lost'[i] = lost[i]
    BY <1>1, <1>2, AppendFacts DEF Ids
  <1>7. Ids' = Ids \cup {Len(log) + 1} /\ Len(log) + 1 \notin Ids
    BY <1>1, <1>3 DEF Ids
  <1> QED  BY <1>1, <1>3, <1>4, <1>5, <1>6, <1>7

LEMMA CountInc ==
    ASSUME TypeOK, NEW q \in Seq(Nat), Len(q) = Len(log), NEW i \in Ids
    PROVE  /\ [q EXCEPT ![i] = @ + 1][i] = q[i] + 1
           /\ \A j \in Ids : j # i => [q EXCEPT ![i] = @ + 1][j] = q[j]
  BY CountFacts DEF Ids

LEMMA CountNat ==
    ASSUME TypeOK, NEW i \in Ids
    PROVE  posts[i] \in Nat /\ lost[i] \in Nat
  <1>1. ASSUME NEW q \in Seq(Nat), i \in 1..Len(q)
        PROVE  q[i] \in Nat
    BY <1>1
  <1>2. /\ posts \in Seq(Nat) /\ i \in 1..Len(posts)
        /\ lost \in Seq(Nat) /\ i \in 1..Len(lost)
    BY DEF TypeOK, ServerType, GhostType, Ids
  <1> QED  BY <1>1, <1>2

LEMMA LoseCopyStep ==
    ASSUME TypeOK, LockInv, MemoryInv, CopyInv, LoseCopy,
           Ids' = Ids, posts' = posts, db' = db, ~posted'
    PROVE  CopyInv'
  <1>1. SUFFICES ASSUME NEW i \in Ids
                 PROVE  posts[i] <= lost'[i] + IF i \in db THEN 1 ELSE 0
    BY DEF CopyInv
  <1>2. posts[i] \in Nat /\ lost[i] \in Nat
    BY CountNat
  <1>3. CASE posted /\ i = job
    <2>1. lost'[i] = lost[i] + 1
      BY <1>3, CountInc DEF LoseCopy, TypeOK, GhostType
    <2>2. posts[i] <= lost[i] + 1 /\ i \notin db
      BY <1>3 DEF CopyInv, MemoryInv
    <2> QED  BY <1>2, <2>1, <2>2
  <1>4. CASE ~(posted /\ i = job)
    <2>1. lost'[i] = lost[i]
      <3>1. CASE posted
        <4>1. job \in Ids
          BY <3>1 DEF LockInv, TypeOK, LocalType
        <4> QED  BY <1>4, <3>1, <4>1, CountInc DEF LoseCopy, TypeOK, GhostType
      <3>2. CASE ~posted
        BY <3>2 DEF LoseCopy
      <3> QED  BY <3>1, <3>2
    <2> QED  BY <1>4, <2>1 DEF CopyInv
  <1> QED  BY <1>3, <1>4

\* Copies are counted.
LEMMA CopyStep ==
    TypeOK /\ LockInv /\ MemoryInv /\ CopyInv /\ JobInv /\ [Next]_vars => (CopyInv /\ JobInv)'
  <1> SUFFICES ASSUME TypeOK, LockInv, MemoryInv, CopyInv, JobInv, [Next]_vars
               PROVE  (CopyInv /\ JobInv)'
    OBVIOUS
  <1> USE LockAssumption DEF servers, process, room, session, copying,
     sending, bounds, ghosts, LockInv, MemoryInv, CopyInv, JobInv, TypeOK,
     ServerType, ProcessType, LocalType, GhostType
  <1>1. CASE NativeSend
    <2>1. PICK S : Store(Native, S)
      BY <1>1 DEF NativeSend
    <2>2. /\ Len(log) + 1 \notin Ids /\ Ids' = Ids \cup {Len(log) + 1}
          /\ posts'[Len(log) + 1] = 0 /\ lost'[Len(log) + 1] = 0
          /\ \A i \in Ids : posts'[i] = posts[i] /\ lost'[i] = lost[i]
      BY <2>1, StoreFacts
    <2>3. UNCHANGED <<db, posted, job>> /\ job \in Ids \cup {0}
      BY <1>1 DEF NativeSend
    <2>4. JobInv'
      BY <2>2, <2>3
    <2>5. CopyInv'
      <3>1. 0 <= 0 + IF Len(log) + 1 \in db' \/ (posted' /\ Len(log) + 1 = job') THEN 1 ELSE 0
        OBVIOUS
      <3>2. \A i \in Ids : posts'[i] <= lost'[i] + IF i \in db' \/ (posted' /\ i = job') THEN 1 ELSE 0
        BY <2>2, <2>3
      <3> QED  BY <2>2, <3>1, <3>2
    <2> QED  BY <2>4, <2>5
  <1>2. ASSUME NEW s \in Sessions, BeginSetup(s)
        PROVE  (CopyInv /\ JobInv)'
    BY <1>2 DEF BeginSetup, Ids
  <1>3. ASSUME NEW s \in Sessions, TakeHistory(s)
        PROVE  (CopyInv /\ JobInv)'
    BY <1>3 DEF TakeHistory, Wanted, Ids
  <1>4. ASSUME NEW s \in Sessions, EndSetup(s)
        PROVE  (CopyInv /\ JobInv)'
    BY <1>4 DEF EndSetup, Ids
  <1>5. ASSUME NEW s \in Sessions, TakePush(s)
        PROVE  (CopyInv /\ JobInv)'
    BY <1>5 DEF TakePush, Wanted, Ids
  <1>6. ASSUME NEW s \in Sessions, Post(s)
        PROVE  (CopyInv /\ JobInv)'
    <2>1. Ids' = Ids /\ job \in Ids /\ ~posted
      BY <1>6 DEF Post, Ids
    <2>2. /\ posts'[job] = posts[job] + 1
          /\ \A j \in Ids : j # job => posts'[j] = posts[j]
      BY <1>6, <2>1, CountInc DEF Post
    <2>3. posts[job] <= lost[job]
      BY <2>1, CountNat
    <2>4. \A i \in Ids :
            posts'[i] <= lost[i] + IF i \in db \/ i = job THEN 1 ELSE 0
      <3>1. ASSUME NEW i \in Ids
            PROVE  posts'[i] <= lost[i] + IF i \in db \/ i = job THEN 1 ELSE 0
        <4>1. CASE i = job
          BY <2>1, <2>2, <2>3, <4>1, CountNat
        <4>2. CASE i # job
          BY <2>1, <2>2, <4>2, CountNat
        <4> QED  BY <4>1, <4>2
      <3> QED  BY <3>1
    <2>5. posts'[job] > 0
      BY <2>1, <2>2, CountNat
    <2> QED  BY <1>6, <2>1, <2>4, <2>5 DEF Post
  <1>7. ASSUME NEW s \in Sessions, Record(s)
        PROVE  (CopyInv /\ JobInv)'
    BY <1>7, CountNat DEF Record, Remember, Ids
  <1>8. ASSUME NEW s \in Sessions, MatrixFails(s)
        PROVE  (CopyInv /\ JobInv)'
    <2>1. /\ Ids' = Ids /\ posts' = posts /\ db' = db
          /\ LoseCopy /\ ~posted'
      BY <1>8 DEF MatrixFails, Ids
    <2> QED  BY <2>1, LoseCopyStep
  <1>9. CASE TakeEvent
    BY <1>9 DEF TakeEvent, Ids
  <1>10. CASE SendDisconnected
    BY <1>10 DEF SendDisconnected, Panic, Ids
  <1>11. CASE RecordReply
    <2>1. Ids' = Ids /\ posts' = posts /\ lost' = lost /\ db' = db \cup {await}
      BY <1>11 DEF RecordReply, Ids, Remember
    <2>2. posted' = posted /\ job' = job
      BY <1>11 DEF RecordReply
    <2> QED  BY <2>1, <2>2, CountNat
  <1>12. ASSUME NEW s \in Sessions, SendLine(s)
        PROVE  (CopyInv /\ JobInv)'
    <2>1. PICK S : Store(<<next, line>>, S)
      BY <1>12 DEF SendLine
    <2>2. /\ Len(log) + 1 \notin Ids /\ Ids' = Ids \cup {Len(log) + 1}
          /\ posts'[Len(log) + 1] = 0 /\ lost'[Len(log) + 1] = 0
          /\ \A i \in Ids : posts'[i] = posts[i] /\ lost'[i] = lost[i]
      BY <2>1, StoreFacts
    <2> QED  BY <1>12, <2>2 DEF SendLine
  <1>13. ASSUME NEW s \in Sessions, SendRefused(s)
        PROVE  (CopyInv /\ JobInv)'
    BY <1>13 DEF SendRefused, Panic, Ids
  <1>14. ASSUME NEW s \in Sessions, SendFails(s)
        PROVE  (CopyInv /\ JobInv)'
    BY <1>14 DEF SendFails, Panic, Ids
  <1>15. CASE Cancel
    BY <1>15 DEF Cancel, Panic, Ids
  <1>16. CASE Crash
    <2>1. /\ Ids' = Ids /\ posts' = posts /\ db' = db
          /\ LoseCopy /\ ~posted'
      BY <1>16 DEF Crash, Ids
    <2> QED  BY <2>1, LoseCopyStep
  <1>17. CASE UNCHANGED core
    BY <1>17 DEF core, Ids
  <1>18. ASSUME NEW s \in Sessions, SendStale(s)
        PROVE  (CopyInv /\ JobInv)'
    <2>1. PICK S : Store(Head(stale[s[1]]), S)
      BY <1>18 DEF SendStale
    <2>2. /\ Len(log) + 1 \notin Ids /\ Ids' = Ids \cup {Len(log) + 1}
          /\ posts'[Len(log) + 1] = 0 /\ lost'[Len(log) + 1] = 0
          /\ \A i \in Ids : posts'[i] = posts[i] /\ lost'[i] = lost[i]
      BY <2>1, StoreFacts
    <2>3. UNCHANGED <<db, posted, job>> /\ job \in Ids \cup {0}
      BY <1>18 DEF SendStale
    <2>4. JobInv'
      BY <2>2, <2>3
    <2>5. CopyInv'
      <3>1. 0 <= 0 + IF Len(log) + 1 \in db' \/ (posted' /\ Len(log) + 1 = job') THEN 1 ELSE 0
        OBVIOUS
      <3>2. \A i \in Ids : posts'[i] <= lost'[i] + IF i \in db' \/ (posted' /\ i = job') THEN 1 ELSE 0
        BY <2>2, <2>3
      <3> QED  BY <2>2, <3>1, <3>2
    <2> QED  BY <2>4, <2>5
  <1> QED
    BY CoreSteps, <1>1, <1>2, <1>3, <1>4, <1>5, <1>6, <1>7, <1>8, <1>9,
       <1>10, <1>11, <1>12, <1>13, <1>14, <1>15, <1>16, <1>17, <1>18
       DEF CoreStep

\* The bridge keeps track of the lines it sent.
LEMMA OwnStep ==
    TypeOK /\ LockInv /\ MemoryInv /\ OwnInv /\ [Next]_vars => OwnInv'
  <1> SUFFICES ASSUME TypeOK, LockInv, MemoryInv, OwnInv, [Next]_vars
               PROVE  OwnInv'
    OBVIOUS
  <1> USE LockAssumption DEF servers, process, room, session, copying,
     sending, bounds, ghosts, LockInv, MemoryInv, OwnInv, FromMatrix,
     TypeOK, ServerType, ProcessType, LocalType, GhostType
  <1>1. CASE NativeSend
    <2>1. PICK S : Store(Native, S)
      BY <1>1 DEF NativeSend
    <2>2. /\ Len(log) + 1 \notin Ids /\ Ids' = Ids \cup {Len(log) + 1}
          /\ log'[Len(log) + 1] = Native /\ posts'[Len(log) + 1] = 0
          /\ \A i \in Ids : log'[i] = log[i] /\ posts'[i] = posts[i]
      BY <2>1, StoreFacts
    <2> QED  BY <1>1, <2>2 DEF NativeSend
  <1>2. ASSUME NEW s \in Sessions, BeginSetup(s)
        PROVE  OwnInv'
    <2>1. Ids' = Ids /\ log' = log
      BY <1>2 DEF BeginSetup, Ids
    <2> QED  BY <1>2, <2>1 DEF BeginSetup
  <1>3. ASSUME NEW s \in Sessions, TakeHistory(s)
        PROVE  OwnInv'
    <2>1. Ids' = Ids /\ log' = log
      BY <1>3 DEF TakeHistory, Ids
    <2> QED  BY <1>3, <2>1 DEF TakeHistory
  <1>4. ASSUME NEW s \in Sessions, EndSetup(s)
        PROVE  OwnInv'
    <2>1. Ids' = Ids /\ log' = log
      BY <1>4 DEF EndSetup, Ids
    <2> QED  BY <1>4, <2>1 DEF EndSetup
  <1>5. ASSUME NEW s \in Sessions, TakePush(s)
        PROVE  OwnInv'
    <2>1. Ids' = Ids /\ log' = log
      BY <1>5 DEF TakePush, Ids
    <2> QED  BY <1>5, <2>1 DEF TakePush
  <1>6. ASSUME NEW s \in Sessions, Post(s)
        PROVE  OwnInv'
    <2>1. Ids' = Ids /\ log' = log /\ job \in Ids
      BY <1>6 DEF Post, Ids
    <2>2. FromMatrix(job) => job \in orphan
      BY <1>6, <2>1 DEF Post
    <2>3. \A j \in Ids : j # job => posts'[j] = posts[j]
      BY <1>6, <2>1, CountInc DEF Post
    <2> QED  BY <1>6, <2>1, <2>2, <2>3 DEF Post
  <1>7. ASSUME NEW s \in Sessions, Record(s)
        PROVE  OwnInv'
    <2>1. Ids' = Ids /\ log' = log
      BY <1>7 DEF Record, Ids
    <2> QED  BY <1>7, <2>1 DEF Record, Remember
  <1>8. ASSUME NEW s \in Sessions, MatrixFails(s)
        PROVE  OwnInv'
    <2>1. Ids' = Ids /\ log' = log
      BY <1>8 DEF MatrixFails, Ids
    <2> QED  BY <1>8, <2>1 DEF MatrixFails
  <1>9. CASE TakeEvent
    <2>1. Ids' = Ids /\ log' = log
      BY <1>9 DEF TakeEvent, Ids
    <2> QED  BY <1>9, <2>1 DEF TakeEvent
  <1>10. CASE SendDisconnected
    <2>1. Ids' = Ids /\ log' = log
      BY <1>10 DEF SendDisconnected, Ids
    <2> QED  BY <1>10, <2>1 DEF SendDisconnected, Panic
  <1>11. CASE RecordReply
    <2>1. Ids' = Ids /\ log' = log
      BY <1>11 DEF RecordReply, Ids
    <2> QED  BY <1>11, <2>1 DEF RecordReply, Remember
  <1>12. ASSUME NEW s \in Sessions, SendLine(s)
        PROVE  OwnInv'
    <2>1. PICK S : Store(<<next, line>>, S)
      BY <1>12 DEF SendLine
    <2>2. /\ Len(log) + 1 \notin Ids /\ Ids' = Ids \cup {Len(log) + 1}
          /\ log'[Len(log) + 1] = <<next, line>> /\ posts'[Len(log) + 1] = 0
          /\ \A i \in Ids : log'[i] = log[i] /\ posts'[i] = posts[i]
      BY <2>1, StoreFacts
    <2>3. <<next, line>> # Native /\ Len(log) + 1 \notin orphan
      BY <1>12, <2>2 DEF SendLine, Native
    <2>4. Len(log) + 1 # 0
      BY DEF TypeOK, ServerType
    <2>5. /\ await = 0 /\ await' = Len(log) + 1
          /\ db' = db /\ orphan' = orphan /\ Len(log) + 1 \in Ids'
      BY <1>12, <2>2 DEF SendLine
    <2>6. \A i \in Ids : i # 0
      BY DEF Ids
    <2>7. \A i \in Ids' : FromMatrix(i)' => i \in db' \/ i \in orphan' \/ i = await'
      BY <2>2, <2>5, <2>6
    <2>8. ASSUME NEW i \in Ids', FromMatrix(i)', posts'[i] > 0
          PROVE  i \in orphan'
      <3>1. i # Len(log) + 1
        BY <2>2, <2>8
      <3>2. i \in Ids /\ FromMatrix(i) /\ posts[i] > 0
        BY <2>2, <2>8, <3>1
      <3> QED  BY <2>5, <3>2
    <2>9. FromMatrix(await)' /\ await' \notin orphan'
      BY <2>2, <2>3, <2>5
    <2> QED  BY <2>7, <2>8, <2>9
  <1>13. ASSUME NEW s \in Sessions, SendRefused(s)
        PROVE  OwnInv'
    <2>1. Ids' = Ids /\ log' = log
      BY <1>13 DEF SendRefused, Ids
    <2> QED  BY <1>13, <2>1 DEF SendRefused, Panic
  <1>14. ASSUME NEW s \in Sessions, SendFails(s)
        PROVE  OwnInv'
    <2>1. Ids' = Ids /\ log' = log
      BY <1>14 DEF SendFails, Ids
    <2> QED  BY <1>14, <2>1 DEF SendFails, Panic, LoseReply
  <1>15. CASE Cancel
    <2>1. Ids' = Ids /\ log' = log
      BY <1>15 DEF Cancel, Ids
    <2> QED  BY <1>15, <2>1 DEF Cancel, Panic, LoseReply
  <1>16. CASE Crash
    <2>1. Ids' = Ids /\ log' = log
      BY <1>16 DEF Crash, Ids
    <2> QED  BY <1>16, <2>1 DEF Crash, Panic, LoseReply
  <1>17. CASE UNCHANGED core
    BY <1>17 DEF core, Ids
  <1>18. ASSUME NEW s \in Sessions, SendStale(s)
        PROVE  OwnInv'
    <2>1. PICK S : Store(Head(stale[s[1]]), S)
      BY <1>18 DEF SendStale
    <2>2. /\ Len(log) + 1 \notin Ids /\ Ids' = Ids \cup {Len(log) + 1}
          /\ posts'[Len(log) + 1] = 0
          /\ \A i \in Ids : log'[i] = log[i] /\ posts'[i] = posts[i]
      BY <2>1, StoreFacts
    <2>3. /\ orphan' = orphan \cup {Len(log) + 1}
          /\ UNCHANGED <<db, await>>
      BY <1>18 DEF SendStale
    <2>4. await # Len(log) + 1
      BY <2>2
    <2> QED  BY <2>2, <2>3, <2>4
  <1> QED
    BY CoreSteps, <1>1, <1>2, <1>3, <1>4, <1>5, <1>6, <1>7, <1>8, <1>9,
       <1>10, <1>11, <1>12, <1>13, <1>14, <1>15, <1>16, <1>17, <1>18
       DEF CoreStep

LEMMA InitInv == Init => TypeOK /\ Inv
  <1> SUFFICES ASSUME Init
               PROVE  TypeOK /\ Inv
    OBVIOUS
  <1> USE DEF Init, Ids
  <1>1. \A S : <<>> \in Seq(S)
    BY SMT
  <1>2. Len(<<>>) = 0 /\ 1..0 = {}
    BY SMT
  <1>3. ServerType /\ GhostType
    BY <1>1, <1>2 DEF ServerType, GhostType
  <1>4. ProcessType
    BY ChannelEmpty DEF ProcessType
  <1>5. LocalType
    <2>1. posted \in BOOLEAN
      BY Zenon
    <2>2. line \in 0..Lines
      BY BoundAssumption
    <2> QED  BY <2>1, <2>2 DEF LocalType
  <1>6. SessionType
    BY <1>1 DEF SessionType, Phases
  <1>7. LockInv /\ DownInv /\ MemoryInv
    BY LockAssumption DEF LockInv, DownInv, MemoryInv
  <1>8. CopyInv /\ JobInv /\ OwnInv
    BY <1>2 DEF CopyInv, JobInv, OwnInv
  <1> QED  BY <1>3, <1>4, <1>5, <1>6, <1>7, <1>8 DEF TypeOK, Inv

LEMMA InvStep == TypeOK /\ Inv /\ [Next]_vars => TypeOK' /\ Inv'
  BY TypeStep, LockStep, DownStep, MemoryStep, CopyStep, OwnStep DEF Inv

\* The inductive invariant.  Its parts need each other: that a message is
\* copied once rests on memory agreeing with the disk, and that on the lock.
THEOREM InvCorrect == Spec => [](TypeOK /\ Inv)
  <1>1. TypeOK /\ Inv /\ UNCHANGED vars => TypeOK' /\ Inv'
    BY InvStep
  <1> QED  BY InitInv, InvStep, <1>1, PTL DEF Spec

\* The state of the relay is well formed, whatever the servers do.
THEOREM TypeCorrect == Spec => []TypeOK
  BY InvCorrect, PTL

\* Room::handle_message: the set in memory and the table are the same.
THEOREM MemoryCorrect == Spec => []HandledPersisted
  <1>1. TypeOK /\ Inv => HandledPersisted
    BY DEF Inv, MemoryInv, HandledPersisted
  <1> QED  BY InvCorrect, <1>1, PTL

\* handle_tomsg_message: a message has more than one copy in Matrix only if
\* a panic or a crash came between a copy and its record.
THEOREM CopiesCorrect == Spec => []PostsBounded
  <1>1. TypeOK /\ Inv => PostsBounded
    <2> SUFFICES ASSUME TypeOK, CopyInv, NEW i \in Ids
                 PROVE  posts[i] <= 1 + lost[i]
      BY DEF Inv, PostsBounded
    <2>1. posts[i] \in Nat /\ lost[i] \in Nat
      BY CountNat DEF Ids
    <2> QED  BY <2>1 DEF CopyInv
  <1> QED  BY InvCorrect, <1>1, PTL

\* send_message_tomsg: what the bridge sent to tomsg does not come back, as
\* long as it got to know the id of what it sent.
THEOREM NoEchoCorrect == Spec => []NoEcho
  <1>1. TypeOK /\ Inv => NoEcho
    BY DEF Inv, OwnInv, NoEcho
  <1> QED  BY InvCorrect, <1>1, PTL

LEMMA LedgerInit == Init => L!Init
  <1> SUFFICES ASSUME Init
               PROVE  L!Init
    OBVIOUS
  <1>1. Ids = {}
    BY SMT DEF Init, Ids
  <1> QED  BY <1>1 DEF Init, Own, L!Init

\* A line that is waited for is forgotten with its reply.
LEMMA LedgerForget ==
    ASSUME TypeOK, LockInv, MemoryInv, OwnInv, LoseReply,
           log' = log, posts' = posts, db' = db
    PROVE  [L!Next]_L!vars
  <1>1. Ids' = Ids
    BY DEF Ids
  <1>2. CASE await = 0
    BY <1>1, <1>2 DEF LoseReply, Own, FromMatrix, L!vars
  <1>3. CASE await # 0
    <2>1. await \in Ids
      BY <1>3 DEF TypeOK, LocalType
    <2>2. L!Ids = Ids
      BY DEF L!Ids, Ids, TypeOK, ServerType
    <2>3. await \in Own \ db
      BY <1>3, <2>1 DEF Own, OwnInv, MemoryInv
    <2>4. Own' = Own \ {await}
      BY <1>1, <1>3 DEF LoseReply, Own, FromMatrix
    <2>5. L!Forget(await)
      BY <2>3, <2>4 DEF L!Forget
    <2> QED  BY <2>1, <2>2, <2>5 DEF L!Next
  <1> QED  BY <1>2, <1>3

LEMMA LedgerStep == TypeOK /\ Inv /\ [Next]_vars => [L!Next]_L!vars
  <1> SUFFICES ASSUME TypeOK, Inv, [Next]_vars
               PROVE  [L!Next]_L!vars
    OBVIOUS
  <1> USE DEF Inv
  <1>a. L!Ids = Ids
    BY DEF L!Ids, Ids, TypeOK, ServerType
  <1>b. ASSUME log' = log, posts' = posts, db' = db, orphan' = orphan
        PROVE  [L!Next]_L!vars
    BY <1>b DEF Own, Ids, FromMatrix, L!vars
  <1>1. CASE NativeSend
    <2>1. PICK S : Store(Native, S)
      BY <1>1 DEF NativeSend
    <2>2. Own' = Own
      BY <1>1, <2>1, StoreFacts DEF NativeSend, Own, FromMatrix
    <2>3. Len(posts) = Len(log) /\ posts' = Append(posts, 0) /\ db' = db
      BY <1>1, <2>1 DEF NativeSend, Store, TypeOK, ServerType
    <2> QED  BY <2>2, <2>3 DEF L!Hear, L!Next
  <1>2. ASSUME NEW s \in Sessions, BeginSetup(s)
        PROVE  [L!Next]_L!vars
    BY <1>b, <1>2 DEF BeginSetup, servers, ghosts
  <1>3. ASSUME NEW s \in Sessions, TakeHistory(s)
        PROVE  [L!Next]_L!vars
    BY <1>b, <1>3 DEF TakeHistory, servers, ghosts
  <1>4. ASSUME NEW s \in Sessions, EndSetup(s)
        PROVE  [L!Next]_L!vars
    BY <1>b, <1>4 DEF EndSetup, servers, ghosts
  <1>5. ASSUME NEW s \in Sessions, TakePush(s)
        PROVE  [L!Next]_L!vars
    BY <1>b, <1>5 DEF TakePush, servers, ghosts
  <1>6. ASSUME NEW s \in Sessions, Post(s)
        PROVE  [L!Next]_L!vars
    <2>1. job \in Ids /\ job \notin db
      BY <1>6 DEF Post, TypeOK, LocalType, MemoryInv
    <2>2. job # await
      BY <1>6, LockAssumption DEF Post, LockInv
    <2>3. job \notin Own
      BY <2>1, <2>2 DEF OwnInv, Own
    <2>4. log' = log /\ Ids' = Ids /\ db' = db /\ orphan' = orphan
      BY <1>6 DEF Post, Ids, room, session, ghosts
    <2>5. Own' = Own
      BY <2>4 DEF Own, FromMatrix
    <2>6. L!Copy(job)
      BY <1>6, <2>1, <2>3, <2>4, <2>5 DEF Post, L!Copy
    <2> QED  BY <1>a, <2>1, <2>6 DEF L!Next
  <1>7. ASSUME NEW s \in Sessions, Record(s)
        PROVE  [L!Next]_L!vars
    <2>1. job \in Ids /\ job \notin db /\ posts[job] > 0
      BY <1>7 DEF Record, TypeOK, LocalType, LockInv, MemoryInv, JobInv
    <2>2. /\ log' = log /\ posts' = posts /\ orphan' = orphan
          /\ db' = db \cup {job}
      BY <1>7 DEF Record, Remember, servers, ghosts
    <2>3. Own' = Own
      BY <2>2 DEF Own, Ids, FromMatrix
    <2>4. L!Record(job)
      BY <2>1, <2>2, <2>3 DEF L!Record
    <2> QED  BY <1>a, <2>1, <2>4 DEF L!Next
  <1>8. ASSUME NEW s \in Sessions, MatrixFails(s)
        PROVE  [L!Next]_L!vars
    BY <1>b, <1>8 DEF MatrixFails, servers, ghosts
  <1>9. CASE TakeEvent
    BY <1>b, <1>9 DEF TakeEvent, servers, ghosts
  <1>10. CASE SendDisconnected
    BY <1>b, <1>10 DEF SendDisconnected, Panic, servers, ghosts
  <1>11. CASE RecordReply
    <2>1. await \in Ids /\ await \notin db /\ await \in Own
      BY <1>11 DEF RecordReply, TypeOK, LocalType, MemoryInv, OwnInv, Own
    <2>2. /\ log' = log /\ posts' = posts /\ orphan' = orphan
          /\ db' = db \cup {await}
      BY <1>11 DEF RecordReply, Remember, servers, ghosts
    <2>3. Own' = Own
      BY <2>2 DEF Own, Ids, FromMatrix
    <2>4. L!Record(await)
      BY <2>1, <2>2, <2>3 DEF L!Record
    <2> QED  BY <1>a, <2>1, <2>4 DEF L!Next
  <1>12. ASSUME NEW s \in Sessions, SendLine(s)
        PROVE  [L!Next]_L!vars
    <2>1. PICK S : Store(<<next, line>>, S)
      BY <1>12 DEF SendLine
    <2>2. /\ Len(posts) = Len(log) /\ posts' = Append(posts, 0)
          /\ db' = db /\ orphan' = orphan
      BY <1>12, <2>1 DEF SendLine, Store, TypeOK, ServerType
    <2>3. <<next, line>> # Native /\ Len(log) + 1 \notin orphan
      BY <1>12, StoreFacts, <2>1 DEF SendLine, Native, TypeOK, GhostType
    <2>4. Own' = Own \cup {Len(posts) + 1}
      BY <2>1, <2>2, <2>3, StoreFacts DEF Own, FromMatrix
    <2> QED  BY <2>2, <2>4 DEF L!Say, L!Next
  <1>13. ASSUME NEW s \in Sessions, SendRefused(s)
        PROVE  [L!Next]_L!vars
    BY <1>b, <1>13 DEF SendRefused, Panic, servers, ghosts
  <1>14. ASSUME NEW s \in Sessions, SendFails(s)
        PROVE  [L!Next]_L!vars
    BY <1>14, LedgerForget DEF SendFails, servers
  <1>15. CASE Cancel
    BY <1>15, LedgerForget DEF Cancel, servers
  <1>16. CASE Crash
    BY <1>16, LedgerForget DEF Crash, servers
  <1>17. CASE UNCHANGED core
    BY <1>b, <1>17 DEF core
  <1>18. ASSUME NEW s \in Sessions, SendStale(s)
        PROVE  [L!Next]_L!vars
    <2>1. PICK S : Store(Head(stale[s[1]]), S)
      BY <1>18 DEF SendStale
    <2>2. Own' = Own
      BY <1>18, <2>1, StoreFacts DEF SendStale, Own, FromMatrix
    <2>3. Len(posts) = Len(log) /\ posts' = Append(posts, 0) /\ db' = db
      BY <1>18, <2>1 DEF SendStale, Store, TypeOK, ServerType
    <2> QED  BY <2>2, <2>3 DEF L!Hear, L!Next
  <1> QED
    BY CoreSteps, <1>1, <1>2, <1>3, <1>4, <1>5, <1>6, <1>7, <1>8, <1>9,
       <1>10, <1>11, <1>12, <1>13, <1>14, <1>15, <1>16, <1>17, <1>18
       DEF CoreStep

\* The relay implements the ledger: whatever is lost and crashes, a message
\* is copied only while it has no record and is not known to be the bridge's
\* own, and recorded only after a copy.
THEOREM LedgerRefined == Spec => LedgerSpec
  <1>1. TypeOK /\ Inv /\ [Next]_vars => [L!Next]_L!vars
    BY LedgerStep
  <1> QED  BY LedgerInit, <1>1, InvCorrect, PTL DEF Spec, LedgerSpec, L!Spec

=============================================================================
