---------------------------- MODULE OrderProofs ----------------------------
(***************************************************************************)
(* Proofs about the order of things in Relay: of the lines that the        *)
(* handler sends, however often a transaction is delivered, of the fetch   *)
(* of the history among the pushes of later messages, and of the copies;   *)
(* and about how often a line is sent.                                     *)
(***************************************************************************)
EXTENDS RelayProofs, FiniteSetTheorems, SequenceTheorems

Sent(e, l) == \E j \in Ids : log[j] = <<e, l>>

\* How far the transaction is: what comes before the line that is next has been
\* sent, in this delivery or in an earlier one.
TxnInv ==
    /\ acked < next
    /\ line # 0 => next <= upto
    /\ \A e \in 1 .. next - 1, l \in 1..Lines : Sent(e, l)
    /\ \A l \in 1 .. line - 1 : Sent(next, l)
    /\ await # 0 => log[await] = <<next, line>>

txnvars == <<log, acked, upto, next, line, await>>

\* Everything that comes before the line a command writes has been sent.
Due(command) ==
    command # Native =>
        \A e \in 1..command[1], l \in 1..Lines :
            e < command[1] \/ l < command[2] => Sent(e, l)

StaleInv == \A u \in Users : \A k \in DOMAIN stale[u] : Due(stale[u][k])

---------------------------------------------------------------------------
\* Lines of events.

\* What a step does to the transaction.
LEMMA TxnFrame ==
    [Next]_vars =>
        \/ UNCHANGED txnvars
        \/ NativeSend \/ BeginTxn \/ TakeEvent \/ RecordReply \/ AckTxn
        \/ \E s \in Sessions : SendLine(s) \/ SendStale(s)
        \/ UNCHANGED <<log, acked, upto, line, await>> /\ line = 0 /\ next' = acked + 1
        \/ UNCHANGED <<log, acked, upto>> /\ Panic
<1> SUFFICES ASSUME [Next]_vars
             PROVE  \/ UNCHANGED txnvars
                    \/ NativeSend \/ BeginTxn \/ TakeEvent \/ RecordReply \/ AckTxn
                    \/ \E s \in Sessions : SendLine(s) \/ SendStale(s)
                    \/ /\ UNCHANGED <<log, acked, upto, line, await>>
                       /\ line = 0 /\ next' = acked + 1
                    \/ UNCHANGED <<log, acked, upto>> /\ Panic
  OBVIOUS
<1> USE DEF txnvars, servers, process, sending, vars
<1>1. CASE Environment
  BY <1>1 DEF Environment, Submit
<1>2. CASE ConnectionTask
  <2>1. ASSUME NEW u \in Users, Connect(u) \/ GiveUp(u) \/ Rebind(u) PROVE UNCHANGED txnvars
    BY <2>1 DEF Connect, GiveUp, Rebind
  <2>2. ASSUME NEW s \in Sessions,
               \/ BindAssert(s) \/ Login(s) \/ BeginSetup(s) \/ TakeHistory(s)
               \/ EndSetup(s) \/ LoopEnds(s) \/ Abandon(s) \/ Drop(s)
        PROVE  UNCHANGED txnvars
    BY <2>2 DEF BindAssert, Login, BeginSetup, TakeHistory, EndSetup, LoopEnds, Abandon, Drop
  <2> QED
    BY <1>2, <2>1, <2>2 DEF ConnectionTask
<1>3. CASE Copying
  BY <1>3 DEF Copying, TakePush, Post, Record, MatrixFails
<1>4. CASE Transaction
  <2>1. ASSUME NEW s \in Sessions, SendRefused(s) \/ SendFails(s)
        PROVE  UNCHANGED <<log, acked, upto>> /\ Panic
    BY <2>1 DEF SendRefused, SendFails
  <2>2. SendDisconnected \/ Cancel => UNCHANGED <<log, acked, upto>> /\ Panic
    BY DEF SendDisconnected, Cancel
  <2>3. AckLost => /\ UNCHANGED <<log, acked, upto, line, await>>
                   /\ line = 0 /\ next' = acked + 1
    BY DEF AckLost
  <2> QED
    BY <1>4, <2>1, <2>2, <2>3 DEF Transaction
<1>5. CASE Crash \/ Restart
  BY <1>5 DEF Crash, Restart
<1>6. ASSUME NEW s \in Sessions, StaleAnswered(s) \/ StaleFails(s) PROVE UNCHANGED txnvars
  BY <1>6 DEF StaleAnswered, StaleFails
<1> QED
  BY <1>1, <1>2, <1>3, <1>4, <1>5, <1>6 DEF Next, LeftBehind

\* A message stays where it is when another is stored.
LEMMA SentStep ==
    ASSUME TypeOK, NEW origin, NEW S, Store(origin, S)
    PROVE  /\ \A i \in Ids : log'[i] = log[i]
           /\ Len(log) \in Nat /\ Ids' = Ids \cup {Len(log) + 1} /\ Len(log) + 1 \notin Ids
           /\ log'[Len(log) + 1] = origin
           /\ \A e, l : Sent(e, l) => Sent(e, l)'
<1>1. /\ \A i \in Ids : log'[i] = log[i]
      /\ Len(log) \in Nat /\ Ids' = Ids \cup {Len(log) + 1} /\ Len(log) + 1 \notin Ids
      /\ log'[Len(log) + 1] = origin
  BY StoreFacts
<1> QED
  BY <1>1 DEF Sent

LEMMA TxnStep == TypeOK /\ LockInv /\ TxnInv /\ [Next]_vars => TxnInv'
<1> SUFFICES ASSUME TypeOK, LockInv, TxnInv, [Next]_vars PROVE TxnInv'
  OBVIOUS
<1>0. /\ acked \in Nat /\ upto \in Nat /\ next \in Nat /\ line \in 0..Lines /\ Lines \in Nat \ {0}
      /\ await \in Ids \cup {0}
  BY BoundAssumption DEF TypeOK, ServerType, ProcessType, LocalType
<1>1. CASE UNCHANGED txnvars
  BY <1>1 DEF txnvars, TxnInv, Sent, Ids
<1>2. CASE NativeSend
  <2>1. UNCHANGED <<acked, upto, next, line, await>>
    BY <1>2 DEF NativeSend, process, sending
  <2>2. PICK S : Store(Native, S)
    BY <1>2 DEF NativeSend
  <2>3. /\ \A i \in Ids : log'[i] = log[i]
        /\ \A e, l : Sent(e, l) => Sent(e, l)'
    BY <2>2, SentStep
  <2> HIDE DEF Sent
  <2> QED
    BY <1>0, <2>1, <2>3 DEF TxnInv
<1>3. ASSUME NEW s \in Sessions, SendLine(s) PROVE TxnInv'
  <2>1. UNCHANGED <<acked, upto, next, line>> /\ await' = Len(log) + 1
    BY <1>3 DEF SendLine, process
  <2>2. PICK S : Store(<<next, line>>, S)
    BY <1>3 DEF SendLine
  <2>3. /\ log'[Len(log) + 1] = <<next, line>>
        /\ \A e, l : Sent(e, l) => Sent(e, l)'
    BY <2>2, SentStep
  <2> HIDE DEF Sent
  <2> QED
    BY <1>0, <2>1, <2>3 DEF TxnInv
<1>4. CASE BeginTxn
  <2>1. UNCHANGED <<log, acked, next, line, await>> /\ upto <= upto'
    BY <1>0, <1>4, BoundAssumption DEF BeginTxn, process, sending
  <2>2. \A e, l : Sent(e, l) => Sent(e, l)'
    BY <2>1 DEF Sent, Ids
  <2>3. upto' \in Nat
    BY <1>0, <1>4, BoundAssumption DEF BeginTxn
  <2> HIDE DEF Sent
  <2> QED
    BY <1>0, <2>1, <2>2, <2>3 DEF TxnInv
<1>5. CASE TakeEvent
  <2>1. UNCHANGED <<log, acked, upto, next, await>> /\ next <= upto /\ line' = 1
    BY <1>5 DEF TakeEvent, process, servers
  <2>2. await = 0
    BY <1>5, LockAssumption DEF TakeEvent, LockInv
  <2>3. \A e, l : Sent(e, l) => Sent(e, l)'
    BY <2>1 DEF Sent, Ids
  <2> HIDE DEF Sent
  <2> QED
    BY <1>0, <2>1, <2>2, <2>3 DEF TxnInv
<1>6. CASE RecordReply
  <2>1. /\ UNCHANGED <<log, acked, upto>> /\ await' = 0 /\ await # 0 /\ line # 0
        /\ \/ line < Lines /\ line' = line + 1 /\ next' = next
           \/ line = Lines /\ line' = 0 /\ next' = next + 1
    BY <1>6 DEF RecordReply, FinishEvent, servers, LockInv
  <2>2. \A e, l : Sent(e, l) => Sent(e, l)'
    BY <2>1 DEF Sent, Ids
  <2>3. Sent(next, line)
    BY <1>0, <2>1 DEF TxnInv, Sent
  <2> HIDE DEF Sent
  <2>4. CASE line < Lines /\ line' = line + 1 /\ next' = next
    BY <1>0, <2>1, <2>2, <2>3, <2>4 DEF TxnInv
  <2>5. CASE line = Lines /\ line' = 0 /\ next' = next + 1
    <3>1. \A l \in 1..Lines : Sent(next, l)
      BY <1>0, <2>3, <2>5 DEF TxnInv
    <3>2. \A e \in 1 .. next' - 1, l \in 1..Lines : Sent(e, l)'
      BY <1>0, <2>2, <2>5, <3>1 DEF TxnInv
    <3> QED
      BY <1>0, <2>1, <2>5, <3>2 DEF TxnInv
  <2> QED
    BY <2>1, <2>4, <2>5
<1>7. CASE AckTxn
  <2>1. UNCHANGED <<log, upto, next, line, await>> /\ acked' = upto /\ next = upto + 1
    BY <1>7 DEF AckTxn, process, sending
  <2>2. \A e, l : Sent(e, l) => Sent(e, l)'
    BY <2>1 DEF Sent, Ids
  <2>3. line # 0 => next <= upto'
    BY <2>1 DEF TxnInv
  <2>4. acked' < next'
    BY <1>0, <2>1
  <2> HIDE DEF Sent
  <2> QED
    BY <1>0, <2>1, <2>2, <2>3, <2>4 DEF TxnInv
<1>8. CASE /\ UNCHANGED <<log, acked, upto, line, await>>
           /\ line = 0 /\ next' = acked + 1
  <2>1. line = 0 /\ await = 0
    BY <1>0, <1>8 DEF LockInv
  <2>2. \A e, l : Sent(e, l) => Sent(e, l)'
    BY <1>8 DEF Sent, Ids
  <2> HIDE DEF Sent
  <2> QED
    BY <1>0, <1>8, <2>1, <2>2 DEF TxnInv
<1>9. CASE UNCHANGED <<log, acked, upto>> /\ Panic
  <2>1. line' = 0 /\ await' = 0 /\ next' = acked + 1
    BY <1>9 DEF Panic
  <2>2. \A e, l : Sent(e, l) => Sent(e, l)'
    BY <1>9 DEF Sent, Ids
  <2> HIDE DEF Sent
  <2> QED
    BY <1>0, <1>9, <2>1, <2>2 DEF TxnInv
<1>10. ASSUME NEW s \in Sessions, SendStale(s) PROVE TxnInv'
  <2>1. UNCHANGED <<acked, upto, next, line, await>>
    BY <1>10 DEF SendStale, sending
  <2>2. PICK S : Store(Head(stale[s[1]]), S)
    BY <1>10 DEF SendStale
  <2>3. /\ \A i \in Ids : log'[i] = log[i]
        /\ \A e, l : Sent(e, l) => Sent(e, l)'
    BY <2>2, SentStep
  <2> HIDE DEF Sent
  <2> QED
    BY <1>0, <2>1, <2>3 DEF TxnInv
<1> QED
  BY <1>1, <1>2, <1>3, <1>4, <1>5, <1>6, <1>7, <1>8, <1>9, <1>10, TxnFrame

\* The command at the head of a channel is replaced.
LEMMA HeadFacts ==
    ASSUME NEW q \in Seq(Nat \X Nat), q # <<>>
    PROVE  /\ DOMAIN (<<Native>> \o Tail(q)) = DOMAIN q /\ 1 \in DOMAIN q
           /\ DOMAIN q \subseteq Nat /\ Head(q) = q[1]
           /\ (<<Native>> \o Tail(q))[1] = Native
           /\ \A k \in DOMAIN q : k # 1 => (<<Native>> \o Tail(q))[k] = q[k]
<1>1. /\ Len(q) \in Nat \ {0} /\ DOMAIN q = 1..Len(q) /\ Head(q) = q[1]
      /\ Tail(q) \in Seq(Nat \X Nat) /\ Len(Tail(q)) = Len(q) - 1
      /\ \A m \in 1..(Len(q) - 1) : Tail(q)[m] = q[m + 1]
  OBVIOUS
<1>2. ASSUME NEW r \in Seq(Nat \X Nat)
      PROVE  /\ DOMAIN (<<Native>> \o r) = 1..(1 + Len(r)) /\ (<<Native>> \o r)[1] = Native
             /\ \A k \in 2..(1 + Len(r)) : (<<Native>> \o r)[k] = r[k - 1]
  <2>1. <<Native>> \in Seq(Nat \X Nat) /\ Len(<<Native>>) = 1 /\ <<Native>>[1] = Native
    BY NativeType
  <2> DEFINE p == <<Native>>
  <2>2. p \in Seq(Nat \X Nat) /\ Len(p) = 1 /\ p[1] = Native
    BY <2>1
  <2> HIDE DEF p
  <2>3. /\ p \o r \in Seq(Nat \X Nat) /\ Len(p \o r) = Len(p) + Len(r) /\ Len(r) \in Nat
        /\ \A i \in 1..Len(p) + Len(r) :
                (p \o r)[i] = IF i <= Len(p) THEN p[i] ELSE r[i - Len(p)]
    <3>1. Len(r) \in Nat
      OBVIOUS
    <3> QED
      BY <2>2, <3>1, ConcatProperties, Zenon
  <2>4. DOMAIN (p \o r) = 1..(1 + Len(r)) /\ (p \o r)[1] = Native
    <3> DEFINE c == p \o r
    <3>1. c \in Seq(Nat \X Nat) /\ Len(c) = 1 + Len(r) /\ Len(r) \in Nat
      BY <2>2, <2>3
    <3>2. c[1] = Native
      <4>1. 1 \in 1..Len(p) + Len(r) /\ 1 <= Len(p)
        BY <2>2, <3>1
      <4> QED
        BY <2>2, <2>3, <4>1, Zenon
    <3> HIDE DEF c
    <3>3. DOMAIN c = 1..(1 + Len(r))
      BY <3>1
    <3> QED
      BY <3>2, <3>3 DEF c
  <2>5. ASSUME NEW k \in 2..(1 + Len(r)) PROVE (p \o r)[k] = r[k - 1]
    <3>1. k \in 1..Len(p) + Len(r) /\ ~(k <= Len(p)) /\ k - Len(p) = k - 1
      BY <2>2, <2>3
    <3> QED
      BY <2>3, <3>1, Zenon
  <2> QED
    BY <2>4, <2>5 DEF p
<1>3. ASSUME NEW k \in DOMAIN q, k # 1 PROVE (<<Native>> \o Tail(q))[k] = q[k]
  <2>1. k \in 2..(1 + Len(Tail(q))) /\ k - 1 \in 1..(Len(q) - 1) /\ (k - 1) + 1 = k
    BY <1>1, <1>3
  <2>2. (<<Native>> \o Tail(q))[k] = Tail(q)[k - 1]
    BY <1>1, <1>2, <2>1
  <2> QED
    BY <1>1, <2>1, <2>2
<1>4. 1 + Len(Tail(q)) = Len(q) /\ 1 \in 1..Len(q) /\ 1..Len(q) \subseteq Nat
  BY <1>1
<1> QED
  BY <1>1, <1>2, <1>3, <1>4

\* The commands in a channel stay where they are, or move up by d places.
Moves(u, d) ==
    \A k \in DOMAIN stale'[u] : stale'[u][k] # Native =>
        k + d \in DOMAIN stale[u] /\ stale[u][k + d] = stale'[u][k]

\* Of the commands in the channels only the line that is being sent is new.
LEMMA ChannelFrame ==
    ASSUME TypeOK, [Next]_vars, NEW u \in Users
    PROVE  \/ Moves(u, 0) \/ Moves(u, 1)
           \/ Cancel /\ await = 0 /\ u = Author /\ Leave(u, <<next, line>>)
<1> DEFINE Old == \/ Moves(u, 0) \/ Moves(u, 1)
                  \/ Cancel /\ await = 0 /\ u = Author /\ Leave(u, <<next, line>>)
<1> SUFFICES Old
  OBVIOUS
<1> USE DEF vars, process
<1>0. /\ stale \in [Users -> Seq(Nat \X Nat)] /\ stale[u] \in Seq(Nat \X Nat)
      /\ DOMAIN stale[u] = 1..Len(stale[u]) /\ Len(stale[u]) \in Nat
  BY DEF TypeOK, ProcessType
<1>1. ASSUME stale'[u] = stale[u] PROVE Old
  <2>1. \A k \in DOMAIN stale[u] : k + 0 = k
    BY <1>0
  <2> QED
    BY <1>1, <2>1 DEF Moves
<1>2. ASSUME stale'[u] = <<>> PROVE Old
  BY <1>2 DEF Moves
<1>3. ASSUME NEW w, TaskEnds(w) PROVE Old
  BY <1>0, <1>1, <1>2, <1>3 DEF TaskEnds
<1>4. ASSUME NEW w, Leave(w, Native) PROVE Old
  <2>1. CASE w = u
    <3>1. stale'[u] = Append(stale[u], Native)
      BY <1>0, <1>4, <2>1 DEF Leave
    <3>2. /\ DOMAIN stale'[u] = 1..(Len(stale[u]) + 1)
          /\ stale'[u][Len(stale[u]) + 1] = Native
          /\ \A m \in 1..Len(stale[u]) : stale'[u][m] = stale[u][m] /\ m + 0 = m
      BY <1>0, <3>1, NativeType
    <3>3. Moves(u, 0)
      <4> SUFFICES ASSUME NEW k \in DOMAIN stale'[u], stale'[u][k] # Native
                   PROVE  k + 0 \in DOMAIN stale[u] /\ stale[u][k + 0] = stale'[u][k]
        BY DEF Moves
      <4>1. k \in 1..Len(stale[u])
        BY <1>0, <3>2
      <4> QED
        BY <1>0, <3>2, <4>1
    <3> QED
      BY <3>3
  <2>2. CASE w # u
    BY <1>0, <1>1, <1>4, <2>2 DEF Leave
  <2> QED
    BY <2>1, <2>2
<1>5. ASSUME NEW q \in Seq(Nat \X Nat), q # <<>>
      PROVE  /\ Len(q) \in Nat \ {0} /\ DOMAIN q = 1..Len(q)
             /\ Tail(q) \in Seq(Nat \X Nat) /\ Len(Tail(q)) = Len(q) - 1
             /\ \A m \in 1..(Len(q) - 1) : Tail(q)[m] = q[m + 1]
  BY <1>5
<1>6. ASSUME NEW s \in Sessions, SendStale(s) PROVE Old
  <2> DEFINE w == s[1]
             q == stale[w]
  <2>1. w \in Users /\ q \in Seq(Nat \X Nat) /\ q # <<>>
    BY <1>0, <1>6 DEF SendStale, Sessions
  <2>2. stale' = [stale EXCEPT ![w] = <<Native>> \o Tail(q)]
    BY <1>6 DEF SendStale
  <2>3. CASE w = u
    <3>1. stale'[u] = <<Native>> \o Tail(q)
      BY <1>0, <2>1, <2>2, <2>3
    <3> SUFFICES ASSUME NEW k \in DOMAIN stale'[u], stale'[u][k] # Native
                 PROVE  k + 0 \in DOMAIN stale[u] /\ stale[u][k + 0] = stale'[u][k]
      BY DEF Moves
    <3>2. k \in DOMAIN q /\ k # 1 /\ stale'[u][k] = q[k] /\ k \in Nat
      BY <2>1, <3>1, HeadFacts
    <3>3. k + 0 = k
      BY <3>2
    <3> QED
      BY <2>3, <3>2, <3>3
  <2>4. CASE w # u
    BY <1>0, <1>1, <2>2, <2>4
  <2> QED
    BY <2>3, <2>4
<1>7. ASSUME NEW s \in Sessions, StaleFails(s) PROVE Old
  <2> DEFINE w == s[1]
             q == stale[w]
  <2>1. w \in Users /\ q \in Seq(Nat \X Nat) /\ q # <<>>
    BY <1>0, <1>7 DEF StaleFails, Sessions
  <2>2. PICK left \in {<<>>, <<Native>>} : stale' = [stale EXCEPT ![w] = Tail(q) \o left]
    BY <1>7 DEF StaleFails
  <2>3. CASE w = u
    <3>1. stale'[u] = Tail(q) \o left
      BY <1>0, <2>1, <2>2, <2>3
    <3> SUFFICES ASSUME NEW k \in DOMAIN stale'[u], stale'[u][k] # Native
                 PROVE  k + 1 \in DOMAIN stale[u] /\ stale[u][k + 1] = stale'[u][k]
      BY DEF Moves
    <3>2. k \in 1..(Len(q) - 1) /\ stale'[u][k] = Tail(q)[k]
      <4> HIDE DEF q
      <4>1. CASE left = <<>>
        BY <1>5, <2>1, <3>1, <4>1
      <4>2. CASE left = <<Native>>
        BY <1>5, <2>1, <3>1, <4>2, NativeType
      <4> QED
        BY <4>1, <4>2
    <3>3. k + 1 \in DOMAIN stale[u] /\ stale[u][k + 1] = stale'[u][k]
      <4>1. k + 1 \in DOMAIN q
        BY <1>5, <2>1, <3>2
      <4> QED
        BY <1>5, <2>1, <2>3, <3>2, <4>1
    <3> QED
      BY <3>3
  <2>4. CASE w # u
    BY <1>0, <1>1, <2>2, <2>4
  <2> QED
    BY <2>3, <2>4
<1>8. ASSUME NEW s \in Sessions, StaleAnswered(s) PROVE Old
  BY <1>3, <1>8 DEF StaleAnswered
<1>9. CASE Environment \/ Restart \/ UNCHANGED vars
  BY <1>1, <1>9 DEF Environment, NativeSend, BeginTxn, Submit, Restart
<1>10. CASE Crash
  BY <1>2, <1>10 DEF Crash
<1>11. CASE ConnectionTask
  <2>1. ASSUME NEW w \in Users, Connect(w) \/ GiveUp(w) PROVE Old
    BY <1>1, <1>3, <2>1 DEF Connect, GiveUp
  <2>2. ASSUME NEW w \in Users, Rebind(w) PROVE Old
    BY <1>0, <1>1, <1>2, <2>2 DEF Rebind
  <2>3. ASSUME NEW s \in Sessions,
               \/ BindAssert(s) \/ Login(s) \/ BeginSetup(s) \/ TakeHistory(s)
               \/ EndSetup(s) \/ LoopEnds(s) \/ Abandon(s) \/ Drop(s)
        PROVE  Old
    BY <1>1, <2>3
       DEF BindAssert, Login, BeginSetup, TakeHistory, EndSetup, LoopEnds, Abandon, Drop
  <2> QED
    BY <1>11, <2>1, <2>2, <2>3 DEF ConnectionTask
<1>12. CASE Copying
  <2>1. ASSUME NEW s \in Sessions, TakePush(s) \/ Post(s) \/ Record(s) PROVE Old
    BY <1>1, <2>1 DEF TakePush, Post, Record
  <2>2. ASSUME NEW s \in Sessions, MatrixFails(s) PROVE Old
    BY <1>1, <1>3, <2>2 DEF MatrixFails
  <2> QED
    BY <1>12, <2>1, <2>2 DEF Copying
<1>13. CASE Transaction
  <2>1. CASE TakeEvent \/ SendDisconnected \/ RecordReply \/ AckTxn \/ AckLost
    BY <1>1, <2>1 DEF TakeEvent, SendDisconnected, RecordReply, AckTxn, AckLost
  <2>2. CASE Cancel
    <3>1. stale' = stale \/ Leave(Author, IF await = 0 THEN <<next, line>> ELSE Native)
      BY <2>2 DEF Cancel
    <3>2. CASE await = 0 /\ u = Author
      BY <1>1, <2>2, <3>1, <3>2
    <3>3. CASE await # 0
      BY <1>1, <1>4, <3>1, <3>3
    <3>4. CASE u # Author
      BY <1>0, <1>1, <3>1, <3>4 DEF Leave
    <3> QED
      BY <3>2, <3>3, <3>4
  <2>3. ASSUME NEW s \in Sessions, SendLine(s) \/ SendRefused(s) PROVE Old
    BY <1>1, <2>3 DEF SendLine, SendRefused
  <2>4. ASSUME NEW s \in Sessions, SendFails(s) PROVE Old
    BY <1>1, <1>4, <2>4 DEF SendFails
  <2> QED
    BY <1>13, <2>1, <2>2, <2>3, <2>4 DEF Transaction
<1> QED
  BY <1>6, <1>7, <1>8, <1>9, <1>10, <1>11, <1>12, <1>13 DEF Next, LeftBehind

LEMMA StaleFrame ==
    ASSUME TypeOK, [Next]_vars,
           NEW u \in Users, NEW k \in DOMAIN stale'[u], stale'[u][k] # Native
    PROVE  \/ \E m \in DOMAIN stale[u] : stale[u][m] = stale'[u][k]
           \/ line # 0 /\ stale'[u][k] = <<next, line>>
<1>1. CASE Moves(u, 0) \/ Moves(u, 1)
  BY <1>1 DEF Moves
<1>2. CASE line # 0 /\ Leave(u, <<next, line>>)
  <2>1. stale \in [Users -> Seq(Nat \X Nat)] /\ stale[u] \in Seq(Nat \X Nat)
    BY DEF TypeOK, ProcessType
  <2>2. stale'[u] = Append(stale[u], <<next, line>>)
    BY <1>2, <2>1 DEF Leave
  <2>3. /\ k \in 1..(Len(stale[u]) + 1) /\ DOMAIN stale[u] = 1..Len(stale[u])
        /\ stale'[u][Len(stale[u]) + 1] = <<next, line>>
        /\ \A m \in 1..Len(stale[u]) : stale'[u][m] = stale[u][m]
    BY <2>1, <2>2
  <2> QED
    BY <1>2, <2>1, <2>3
<1> QED
  BY <1>1, <1>2, ChannelFrame DEF Cancel

\* The line that is next is due.
LEMMA NextDue == TypeOK /\ TxnInv /\ line # 0 => Due(<<next, line>>)
<1> SUFFICES ASSUME TypeOK, TxnInv, line # 0,
                    NEW e \in 1..next, NEW l \in 1..Lines, e < next \/ l < line
             PROVE  Sent(e, l)
  BY DEF Due
<1>1. next \in Nat /\ line \in 1..Lines /\ Lines \in Nat
  BY BoundAssumption DEF TypeOK, ProcessType, LocalType
<1>2. CASE e < next
  BY <1>1, <1>2 DEF TxnInv
<1>3. CASE e = next /\ l < line
  BY <1>1, <1>3 DEF TxnInv
<1> QED
  BY <1>1, <1>2, <1>3

\* What was due stays so.
LEMMA DueStays ==
    ASSUME TypeOK, [Next]_vars, NEW command, Due(command)
    PROVE  Due(command)'
<1>1. CASE log' = log
  BY <1>1 DEF Due, Sent, Ids
<1>2. CASE \E origin, S : Store(origin, S)
  <2>1. \A e, l : Sent(e, l) => Sent(e, l)'
    BY <1>2, SentStep
  <2> HIDE DEF Sent
  <2> QED
    BY <2>1 DEF Due
<1> QED
  BY <1>1, <1>2, TxnFrame
     DEF txnvars, NativeSend, SendLine, SendStale, BeginTxn, TakeEvent, RecordReply, AckTxn, servers

LEMMA StaleStep ==
    TypeOK /\ LockInv /\ TxnInv /\ StaleInv /\ [Next]_vars => StaleInv'
<1> SUFFICES ASSUME TypeOK, LockInv, TxnInv, StaleInv, [Next]_vars,
                    NEW u \in Users, NEW k \in DOMAIN stale'[u],
                    NEW command, command = stale'[u][k]
             PROVE  Due(command)'
  BY DEF StaleInv, Due
<1>1. CASE command = Native
  BY <1>1 DEF Due
<1>2. ASSUME NEW m \in DOMAIN stale[u], stale[u][m] = command PROVE Due(command)
  BY <1>2 DEF StaleInv
<1>3. ASSUME line # 0, command = <<next, line>> PROVE Due(command)
  BY <1>3, NextDue
<1>4. CASE Due(command)
  BY <1>4, DueStays
<1> QED
  BY <1>1, <1>2, <1>3, <1>4, StaleFrame

LEMMA LinesStep ==
    TypeOK /\ LockInv /\ TxnInv /\ StaleInv /\ LinesInOrder /\ [Next]_vars => LinesInOrder'
<1> SUFFICES ASSUME TypeOK, LockInv, TxnInv, StaleInv, LinesInOrder, [Next]_vars
             PROVE  LinesInOrder'
  OBVIOUS
<1>1. CASE UNCHANGED log
  <2>1. Ids' = Ids /\ log' = log
    BY <1>1 DEF Ids
  <2> QED
    BY <2>1 DEF LinesInOrder, FromMatrix
<1>2. ASSUME NEW origin, NEW S, Store(origin, S), Due(origin)
      PROVE  LinesInOrder'
  <2>1. /\ \A i \in Ids : log'[i] = log[i]
        /\ Len(log) \in Nat /\ Ids' = Ids \cup {Len(log) + 1}
        /\ log'[Len(log) + 1] = origin
    BY <1>2, SentStep
  <2> SUFFICES ASSUME NEW i \in Ids', log'[i] # Native,
                      NEW e \in 1..log'[i][1], NEW l \in 1..Lines,
                      e < log'[i][1] \/ l < log'[i][2]
               PROVE  \E j \in 1..(i - 1) : log'[j] = <<e, l>>
    BY DEF LinesInOrder, FromMatrix
  <2>2. CASE i \in Ids
    <3>1. log'[i] = log[i]
      BY <2>1, <2>2
    <3>2. PICK j \in 1..(i - 1) : log[j] = <<e, l>>
      BY <2>2, <3>1 DEF LinesInOrder, FromMatrix
    <3>3. j \in Ids
      BY <2>1, <2>2, <3>2 DEF Ids
    <3> QED
      BY <2>1, <3>2, <3>3
  <2>3. CASE i = Len(log) + 1
    <3>1. Sent(e, l)
      BY <1>2, <2>1, <2>3 DEF Due
    <3>2. PICK j \in Ids : log[j] = <<e, l>>
      BY <3>1 DEF Sent
    <3>3. j \in 1..(i - 1)
      BY <2>1, <2>3, <3>2 DEF Ids
    <3> QED
      BY <2>1, <3>2, <3>3
  <2> QED
    BY <2>1, <2>2, <2>3
<1>3. CASE NativeSend
  <2>1. Due(Native)
    BY DEF Due
  <2> QED
    BY <1>2, <1>3, <2>1 DEF NativeSend
<1>4. ASSUME NEW s \in Sessions, SendLine(s) PROVE LinesInOrder'
  <2>1. Due(<<next, line>>)
    BY <1>4, NextDue DEF SendLine
  <2> QED
    BY <1>2, <1>4, <2>1 DEF SendLine
<1>5. ASSUME NEW s \in Sessions, SendStale(s) PROVE LinesInOrder'
  <2>1. s[1] \in Users /\ stale[s[1]] \in Seq(Nat \X Nat) /\ stale[s[1]] # <<>>
    BY <1>5 DEF SendStale, Sessions, TypeOK, ProcessType
  <2>2. 1 \in DOMAIN stale[s[1]] /\ Head(stale[s[1]]) = stale[s[1]][1]
    BY <2>1
  <2>3. Due(Head(stale[s[1]]))
    BY <2>1, <2>2 DEF StaleInv
  <2> QED
    BY <1>2, <1>5, <2>3 DEF SendStale
<1> QED
  BY <1>1, <1>3, <1>4, <1>5, TxnFrame
     DEF txnvars, BeginTxn, TakeEvent, RecordReply, AckTxn, servers

\* Lines are sent in their order, and no event before all lines of the one before
\* were sent once, by a redelivered transaction or after their handler was dropped.
THEOREM LinesCorrect == Spec => []LinesInOrder
<1>1. Init => TxnInv /\ StaleInv /\ LinesInOrder
  BY DEF Init, TxnInv, StaleInv, LinesInOrder, Sent, Ids
<1>2. TypeOK /\ Inv /\ TxnInv /\ StaleInv /\ LinesInOrder /\ [Next]_vars
      => (TxnInv /\ StaleInv /\ LinesInOrder)'
  BY TxnStep, StaleStep, LinesStep DEF Inv
<1> QED
  BY <1>1, <1>2, InvCorrect, PTL DEF Spec

---------------------------------------------------------------------------
\* The fetch of the history.

LEMMA DivFacts ==
    ASSUME NEW a \in Nat, NEW b \in Nat \ {0}
    PROVE  a \div b \in Nat /\ (a \div b) * b <= a /\ a < (a \div b) * b + b
<1>1. a = b * (a \div b) + (a % b) /\ a \div b \in Int /\ a % b \in 0 .. b - 1
  BY SMT
<1> QED
  BY <1>1

LEMMA DivUnique ==
    ASSUME NEW a \in Nat, NEW b \in Nat \ {0}, NEW k \in Nat, k * b <= a, a < k * b + b
    PROVE  a \div b = k
<1> DEFINE q == a \div b
<1>1. q \in Nat /\ q * b <= a /\ a < q * b + b
  BY DivFacts
<1> HIDE DEF q
<1>2. k * b \in Nat /\ q * b \in Nat
  BY <1>1
<1>3. ASSUME q < k PROVE FALSE
  <2>1. (q + 1) * b <= k * b
    BY <1>1, <1>3
  <2> QED
    BY <1>1, <1>2, <2>1
<1>4. ASSUME k < q PROVE FALSE
  <2>1. (k + 1) * b <= q * b
    BY <1>1, <1>4
  <2> QED
    BY <1>1, <1>2, <2>1
<1> QED
  BY <1>1, <1>3, <1>4 DEF q

\* get_unhandled_history returns what is not handled, but for what is older than
\* a batch of which everything is.
LEMMA UnhandledFacts ==
    ASSUME NEW n \in Nat, NEW h, NEW i \in 1..n, i \notin h, i \notin Unhandled(n, h)
    PROVE  \E j \in i + 1 .. n : j .. j + Batch - 1 \subseteq h
<1>0. Batch \in Nat \ {0}
  BY BoundAssumption
<1> DEFINE q == (n - i) \div Batch
<1>1. q \in Nat /\ q * Batch <= n - i
  BY <1>0, DivFacts
<1>2. PICK k \in 0..q : BatchOf(k, n) \subseteq h
  BY DEF Unhandled
<1>3. i \in BatchOf(q, n)
  BY DEF BatchOf
<1> HIDE DEF q
<1>4. k \in Nat /\ k + 1 <= q
  BY <1>1, <1>2, <1>3
<1>5. k * Batch \in Nat /\ k * Batch + Batch <= q * Batch
  BY <1>0, <1>1, <1>4
<1> DEFINE j == n - k * Batch - Batch + 1
<1>6. j \in i + 1 .. n
  BY <1>0, <1>1, <1>5
<1>7. ASSUME NEW m \in j .. j + Batch - 1 PROVE m \in h
  <2>1. m \in 1..n /\ n - m \in Nat /\ k * Batch <= n - m /\ n - m < k * Batch + Batch
    BY <1>0, <1>5, <1>6
  <2>2. (n - m) \div Batch = k
    BY <1>0, <1>4, <2>1, DivUnique
  <2> QED
    BY <1>2, <2>1, <2>2 DEF BatchOf
<1> QED
  BY <1>6, <1>7

\* A history is handled by a session that has the lock.
HistoryInv ==
    /\ \A s \in Sessions : phase[s] = "history" => lock = s /\ stale[s[1]] = <<>>
    /\ todo # {} => lock \in Sessions /\ phase[lock] = "history"
    /\ ~up => ~fetched

Calm == OnlyFaults({"crash", "ack"})

\* The message loop of s reads, or will read, what is pushed to s.
Fed(s) == phase[s] \in {"history", "live", "drain"} /\ alive[s]
Reading(i) == \E s \in Sessions : Fed(s) /\ \E k \in DOMAIN inbox[s] : inbox[s][k] = i
Behind(i) == \E j \in i + 1 .. Len(log) : j .. j + Batch - 1 \subseteq before
Followed(i) == i \in todo \/ i = job \/ i = await \/ Behind(i) \/ Reading(i)

\* As long as no session is lost: once the history is fetched some session is
\* there, and what is not handled is on its way.
CalmInv ==
    Calm =>
        /\ dead = {}
        /\ \A s \in Sessions : phase[s] # "none" => alive[s]
        /\ up /\ fetched =>
            /\ \E s \in Sessions : Fed(s)
            /\ \A i \in Ids \ handled : Followed(i)

\* Nobody is dropped while a command of his is in a channel.
IdleInv == Calm => \A u \in Users : stale[u] = <<>>

LEMMA HistoryStep ==
    TypeOK /\ LockInv /\ DownInv /\ HistoryInv /\ [Next]_vars => HistoryInv'
<1> SUFFICES ASSUME TypeOK, LockInv, DownInv, HistoryInv, [Next]_vars PROVE HistoryInv'
  OBVIOUS
<1> USE LockAssumption DEF servers, process, room, session, copying, sending, bounds, ghosts, vars
<1>0. phase \in [Sessions -> Phases]
  BY DEF TypeOK, SessionType
<1>a. stale \in [Users -> Seq(Nat \X Nat)] /\ \A s \in Sessions : s[1] \in Users
  BY DEF TypeOK, ProcessType, Sessions
<1>1. ASSUME UNCHANGED <<phase, lock, todo, up, fetched>>,
             \A u \in Users : stale[u] = <<>> => stale'[u] = <<>>
      PROVE  HistoryInv'
  BY <1>a, <1>1 DEF HistoryInv
<1>2. CASE Environment
  BY <1>1, <1>2 DEF Environment, NativeSend, BeginTxn, Submit
<1>3. ASSUME NEW u \in Users, Connect(u) \/ GiveUp(u) \/ Rebind(u) PROVE HistoryInv'
  <2>1. CASE Connect(u)
    BY <1>0, <2>1 DEF Connect, HistoryInv
  <2>2. CASE GiveUp(u)
    BY <1>a, <1>1, <2>2 DEF GiveUp, TaskEnds
  <2>3. CASE Rebind(u)
    BY <1>0, <1>a, <2>3 DEF Rebind, Detach, After, HistoryInv
  <2> QED
    BY <1>3, <2>1, <2>2, <2>3
<1>4. ASSUME NEW s \in Sessions,
             \/ BindAssert(s) \/ Login(s) \/ BeginSetup(s) \/ TakeHistory(s)
             \/ EndSetup(s) \/ LoopEnds(s) \/ Abandon(s) \/ Drop(s)
      PROVE  HistoryInv'
  <2>1. CASE BindAssert(s) \/ Login(s)
    BY <1>0, <2>1 DEF BindAssert, Login, EndSession, HistoryInv
  <2>2. CASE BeginSetup(s)
    BY <1>0, <2>2 DEF BeginSetup, EndSession, HistoryInv, DownInv
  <2>3. CASE TakeHistory(s) \/ EndSetup(s)
    BY <1>0, <2>3 DEF TakeHistory, EndSetup, HistoryInv
  <2>4. CASE LoopEnds(s) \/ Abandon(s)
    BY <1>0, <2>4 DEF LoopEnds, Abandon, EndSession, Detach, After, HistoryInv
  <2>5. CASE Drop(s)
    BY <1>1, <2>5 DEF Drop
  <2> QED
    BY <1>4, <2>1, <2>2, <2>3, <2>4, <2>5
<1>5. ASSUME NEW s \in Sessions, TakePush(s) \/ Post(s) \/ Record(s) \/ MatrixFails(s)
      PROVE  HistoryInv'
  <2>1. CASE TakePush(s)
    BY <1>0, <2>1 DEF TakePush, HistoryInv
  <2>2. CASE Post(s)
    BY <1>1, <2>2 DEF Post
  <2>3. CASE Record(s)
    BY <1>0, <2>3 DEF Record, HistoryInv
  <2>4. CASE MatrixFails(s)
    BY <1>0, <1>a, <2>4 DEF MatrixFails, TaskEnds, EndSession, HistoryInv
  <2> QED
    BY <1>5, <2>1, <2>2, <2>3, <2>4
<1>6. ASSUME line # 0, Panic, UNCHANGED <<up, todo, fetched>>,
             UNCHANGED phase \/ \E S : Detach(S)
      PROVE  HistoryInv'
  <2>1. lock = Handler /\ todo = {} /\ \A s \in Sessions : phase[s] # "history"
    BY <1>6 DEF LockInv, HistoryInv
  <2>2. \A s \in Sessions : phase'[s] # "history"
    BY <1>0, <1>6, <2>1 DEF Detach, After
  <2> QED
    BY <1>6, <2>1, <2>2 DEF Panic, HistoryInv
<1>7. CASE Transaction
  <2>1. CASE TakeEvent
    BY <2>1 DEF TakeEvent, HistoryInv
  <2>2. CASE AckTxn \/ AckLost
    BY <1>1, <2>2 DEF AckTxn, AckLost
  <2>3. CASE SendDisconnected
    BY <1>6, <2>3 DEF SendDisconnected
  <2>4. CASE RecordReply
    <3>1. lock = Handler
      BY <2>4 DEF RecordReply, LockInv
    <3> QED
      BY <2>4, <3>1 DEF RecordReply, FinishEvent, HistoryInv
  <2>5. ASSUME NEW s \in Sessions, SendLine(s) PROVE HistoryInv'
    BY <1>1, <2>5 DEF SendLine
  <2>6. ASSUME NEW s \in Sessions, SendRefused(s) \/ SendFails(s) PROVE HistoryInv'
    <3>1. line # 0
      BY <2>6 DEF SendRefused, SendFails
    <3> QED
      BY <1>6, <2>6, <3>1 DEF SendRefused, SendFails
  <2>7. CASE Cancel
    BY <1>6, <2>7 DEF Cancel
  <2> QED
    BY <1>7, <2>1, <2>2, <2>3, <2>4, <2>5, <2>6, <2>7 DEF Transaction
<1>8. CASE Crash
  BY <1>8 DEF Crash, HistoryInv, Panic
<1>9. CASE Restart
  BY <1>9 DEF Restart, HistoryInv
<1>10. CASE UNCHANGED vars
  BY <1>1, <1>10
<1>11. ASSUME NEW s \in Sessions, SendStale(s) PROVE HistoryInv'
  BY <1>a, <1>1, <1>11 DEF SendStale
<1>12. ASSUME NEW s \in Sessions, StaleAnswered(s) \/ StaleFails(s) PROVE HistoryInv'
  <2>1. phase[s] # "history"
    BY <1>12 DEF StaleAnswered, StaleFails, HistoryInv
  <2>2. \A r \in Sessions : phase'[r] = "history" => phase[r] = "history"
    BY <1>0, <1>12 DEF StaleAnswered, StaleFails, Detach, After
  <2>3. \A u \in Users : stale[u] = <<>> => stale'[u] = <<>>
    BY <1>a, <1>12 DEF StaleAnswered, StaleFails, TaskEnds
  <2>4. todo # {} => phase'[lock] = "history"
    BY <1>0, <1>12, <2>1 DEF StaleAnswered, StaleFails, Detach, After, HistoryInv
  <2> QED
    BY <1>a, <1>12, <2>2, <2>3, <2>4 DEF StaleAnswered, StaleFails, HistoryInv
<1> QED
  BY <1>2, <1>3, <1>4, <1>5, <1>7, <1>8, <1>9, <1>10, <1>11, <1>12
     DEF Next, ConnectionTask, Copying, LeftBehind

\* As long as no session is lost, these steps are all there are.
LEMMA CalmFrame ==
    ASSUME TypeOK, CalmInv, IdleInv, [Next]_vars, Calm'
    PROVE  /\ Calm
           /\ \/ UNCHANGED <<up, dead, fetched, phase, alive, inbox, log, before, todo, job, await,
                            handled, stale>>
              \/ NativeSend \/ TakeEvent \/ RecordReply \/ Crash \/ Restart
              \/ \E u \in Users : Connect(u) \/ Rebind(u)
              \/ \E s \in Sessions :
                    \/ BindAssert(s) \/ Login(s) \/ BeginSetup(s) \/ TakeHistory(s)
                    \/ EndSetup(s) \/ TakePush(s) \/ Record(s) \/ SendLine(s)
                    \/ line # 0 /\ await = 0 /\ SendRefused(s)
<1> USE DEF servers, process, room, session, copying, sending, bounds, ghosts, vars
<1>1. ASSUME NEW kind, Fault(kind) PROVE kind \in {"crash", "ack"} /\ Calm
  <2>1. faults \in Seq(FaultKinds) /\ faults' = Append(faults, kind) /\ kind \in FaultKinds
    BY <1>1 DEF Fault, TypeOK, GhostType
  <2>2. /\ Len(faults) \in Nat /\ DOMAIN faults = 1..Len(faults)
        /\ DOMAIN faults' = 1..(Len(faults) + 1) /\ faults'[Len(faults) + 1] = kind
        /\ \A n \in 1..Len(faults) : faults'[n] = faults[n]
    BY <2>1
  <2> QED
    BY <2>2 DEF Calm, OnlyFaults
<1>2. Calm
  <2>1. faults' = faults \/ \E kind : Fault(kind)
    <3>1. CASE Environment
      BY <3>1 DEF Environment, NativeSend, BeginTxn, Submit
    <3>2. CASE ConnectionTask
      BY <3>2 DEF ConnectionTask, Connect, GiveUp, Rebind, BindAssert, Login, BeginSetup,
         TakeHistory, EndSetup, LoopEnds, Abandon, Drop
    <3>3. CASE Copying
      BY <3>3 DEF Copying, TakePush, Post, Record, MatrixFails
    <3>4. CASE Transaction
      BY <3>4 DEF Transaction, TakeEvent, SendDisconnected, RecordReply, AckTxn, AckLost,
         SendLine, SendRefused, SendFails, Cancel
    <3>5. CASE LeftBehind
      BY <3>5 DEF LeftBehind, SendStale, StaleAnswered, StaleFails
    <3> QED
      BY <3>1, <3>2, <3>3, <3>4, <3>5 DEF Next, Crash, Restart
  <2>2. faults' = faults => Calm
    BY DEF Calm, OnlyFaults
  <2> QED
    BY <1>1, <2>1, <2>2
<1>3. dead = {} /\ \A s \in Sessions : phase[s] # "none" => alive[s]
  BY <1>2 DEF CalmInv
<1>4. \A kind : Fault(kind) => kind \in {"crash", "ack"}
  BY <1>1
<1>5. ~Cancel /\ \A s \in Sessions : ~Drop(s) /\ ~MatrixFails(s)
  BY <1>4 DEF Drop, MatrixFails, Cancel
<1>6. \A u \in Users : ~GiveUp(u)
  BY <1>4 DEF GiveUp
<1>7. \A s \in Sessions : ~LoopEnds(s) /\ ~Abandon(s)
  BY <1>3 DEF LoopEnds, Abandon
<1>8. \A s \in Sessions : ~SendFails(s)
  BY <1>3 DEF SendFails, CurrentSession, Current
<1>9. ~SendDisconnected
  BY <1>3 DEF SendDisconnected
<1>10. \A s \in Sessions : SendRefused(s) => line # 0 /\ await = 0
  BY DEF SendRefused
<1>11. BeginTxn \/ (\E u \in Users : Submit(u)) \/ AckTxn \/ AckLost \/ (\E s \in Sessions : Post(s))
       \/ UNCHANGED vars
       => UNCHANGED <<up, dead, fetched, phase, alive, inbox, log, before, todo, job, await,
                      handled, stale>>
  BY DEF BeginTxn, Submit, AckTxn, AckLost, Post
<1>12. \A s \in Sessions : ~SendStale(s) /\ ~StaleAnswered(s) /\ ~StaleFails(s)
  BY <1>2 DEF IdleInv, SendStale, StaleAnswered, StaleFails, Sessions
<1> QED
  BY <1>2, <1>5, <1>6, <1>7, <1>8, <1>9, <1>10, <1>11, <1>12
     DEF Next, Environment, ConnectionTask, Copying, Transaction, LeftBehind

LEMMA IdleStep == TypeOK /\ CalmInv /\ IdleInv /\ [Next]_vars => IdleInv'
<1> SUFFICES ASSUME TypeOK, CalmInv, IdleInv, [Next]_vars, Calm', NEW u \in Users
             PROVE  stale'[u] = <<>>
  BY DEF IdleInv
<1>1. stale[u] = <<>> /\ stale \in [Users -> Seq(Nat \X Nat)]
  BY CalmFrame DEF IdleInv, TypeOK, ProcessType
<1>2. \/ UNCHANGED stale \/ Crash \/ \E w \in Users : Rebind(w)
  BY CalmFrame
     DEF process, NativeSend, TakeEvent, RecordReply, Restart, Connect, BindAssert, Login,
         BeginSetup, TakeHistory, EndSetup, TakePush, Record, SendLine, SendRefused
<1> QED
  BY <1>1, <1>2 DEF Crash, Rebind

\* Nothing that is on its way is lost when sessions go on and messages come in.
LEMMA FollowedStays ==
    ASSUME NEW i, Followed(i), i = job => i = job', i = await => i = await',
           before' = before, todo \subseteq todo', Len(log) \in Nat, Len(log') \in Nat,
           Len(log) <= Len(log'),
           \A s \in Sessions : Fed(s) => Fed(s)' /\ \A k \in DOMAIN inbox[s] :
                k \in DOMAIN inbox'[s] /\ inbox'[s][k] = inbox[s][k]
    PROVE  Followed(i)'
<1>1. Reading(i) => Reading(i)'
  BY DEF Reading
<1>2. Behind(i) => Behind(i)'
  <2> SUFFICES ASSUME NEW j \in i + 1 .. Len(log), j .. j + Batch - 1 \subseteq before
               PROVE  j \in i + 1 .. Len(log')
    BY DEF Behind
  <2> QED
    OBVIOUS
<1> QED
  BY <1>1, <1>2 DEF Followed

LEMMA CalmKept ==
    ASSUME CalmInv, Calm, dead' = {}, \A s \in Sessions : phase'[s] # "none" => alive'[s],
           up' /\ fetched' =>
                /\ up /\ fetched
                /\ \A s \in Sessions : Fed(s) => Fed(s)'
                /\ \A i \in Ids' \ handled' : Followed(i)'
    PROVE  CalmInv'
  BY DEF CalmInv

\* A message is stored, and pushed to all sessions that are there, but for the
\* one that sent it perhaps.
LEMMA CalmStore ==
    ASSUME TypeOK, CalmInv, Calm, NEW origin, NEW S \in SUBSET Sessions, Store(origin, S),
           UNCHANGED <<up, dead, fetched, handled, phase, alive, todo, job, before>>,
           (Online \subseteq S /\ UNCHANGED await) \/ (await = 0 /\ await' = Len(log) + 1)
    PROVE  CalmInv'
<1>1. /\ Len(log) \in Nat /\ Ids' = Ids \cup {Len(log) + 1} /\ Len(log') = Len(log) + 1
      /\ 0 \notin Ids
  <2>1. Len(log) \in Nat /\ Ids' = Ids \cup {Len(log) + 1}
    BY StoreFacts
  <2>2. Len(log') = Len(log) + 1
    BY DEF Store, TypeOK, ServerType
  <2> QED
    BY <2>1, <2>2 DEF Ids
<1>2. ASSUME NEW s \in Sessions
      PROVE  /\ \A k \in DOMAIN inbox[s] : k \in DOMAIN inbox'[s] /\ inbox'[s][k] = inbox[s][k]
             /\ s \in S => \E k \in DOMAIN inbox'[s] : inbox'[s][k] = Len(log) + 1
  <2>1. inbox[s] \in Seq(Ids)
    BY DEF TypeOK, SessionType
  <2>2. inbox'[s] = IF s \in S THEN Append(inbox[s], Len(log) + 1) ELSE inbox[s]
    BY DEF Store, Push
  <2>3. CASE s \in S
    <3>1. /\ Len(inbox[s]) \in Nat /\ DOMAIN inbox[s] = 1..Len(inbox[s])
          /\ DOMAIN inbox'[s] = 1..(Len(inbox[s]) + 1)
          /\ inbox'[s][Len(inbox[s]) + 1] = Len(log) + 1
          /\ \A k \in 1..Len(inbox[s]) : inbox'[s][k] = inbox[s][k]
      BY <2>1, <2>2, <2>3
    <3> QED
      BY <3>1
  <2> QED
    BY <2>2, <2>3
<1>3. \A s \in Sessions : Fed(s) => Fed(s)' /\ s \in Online
  BY DEF Fed, Online, LoggedIn
<1>4. ASSUME up, fetched, NEW i \in Ids \ handled PROVE Followed(i)'
  <2>1. Followed(i)
    BY <1>4 DEF CalmInv
  <2> QED
    BY <1>1, <1>2, <1>3, <2>1, FollowedStays
<1>5. ASSUME up, fetched, NEW i, i = Len(log) + 1 PROVE Followed(i)'
  <2>1. PICK s \in Sessions : Fed(s)
    BY <1>5 DEF CalmInv
  <2>2. CASE Online \subseteq S
    <3>1. Fed(s)' /\ \E k \in DOMAIN inbox'[s] : inbox'[s][k] = i
      BY <1>2, <1>3, <1>5, <2>1, <2>2
    <3> QED
      BY <3>1 DEF Followed, Reading
  <2>3. CASE await' = Len(log) + 1
    BY <1>5, <2>3 DEF Followed
  <2> QED
    BY <2>2, <2>3
<1>6. dead' = {} /\ \A s \in Sessions : phase'[s] # "none" => alive'[s]
  BY DEF CalmInv
<1>7. up' /\ fetched' => up /\ fetched /\ \A i \in Ids' \ handled' : Followed(i)'
  BY <1>1, <1>4, <1>5
<1> QED
  BY <1>3, <1>6, <1>7, CalmKept

LEMMA CalmSessions ==
    ASSUME TypeOK, LockInv, HistoryInv, CalmInv, Calm, NEW u \in Users, Connect(u) \/ Rebind(u)
    PROVE  CalmInv'
<1> USE DEF process, room, copying, sending, bounds, ghosts, servers
<1>0. /\ phase \in [Sessions -> Phases] /\ alive \in [Sessions -> BOOLEAN]
      /\ dead = {} /\ \A s \in Sessions : phase[s] # "none" => alive[s]
      /\ Len(log) \in Nat
  BY DEF TypeOK, SessionType, ServerType, CalmInv
<1>1. /\ UNCHANGED <<up, fetched, handled, log, before, todo, job, await>> /\ dead' = {}
  BY <1>0 DEF Connect, Rebind
<1>2. CASE Connect(u)
  <2>1. PICK k \in Slots :
            /\ phase[<<u, k>>] = "none"
            /\ phase' = [phase EXCEPT ![<<u, k>>] = "open"]
            /\ alive' = [alive EXCEPT ![<<u, k>>] = TRUE]
    BY <1>2 DEF Connect
  <2>2. \A s \in Sessions : phase'[s] # "none" => alive'[s]
    BY <1>0, <2>1
  <2>3. \A s \in Sessions : Fed(s) => Fed(s)' /\ inbox' = inbox
    BY <1>0, <1>2, <2>1 DEF Fed, Connect
  <2>4. ASSUME up, fetched, NEW i \in Ids \ handled PROVE Followed(i)'
    <3>1. Followed(i)
      BY <2>4 DEF CalmInv
    <3> QED
      BY <1>0, <1>1, <2>3, <3>1, FollowedStays
  <2> QED
    BY <1>1, <2>2, <2>3, <2>4, CalmKept DEF Ids
<1>3. CASE Rebind(u)
  <2>1. \A s \in Sessions : phase[s] # "history"
    BY <1>3, LockAssumption DEF Rebind, HistoryInv
  <2>2. \A s \in Sessions : phase'[s] # "none" => alive'[s]
    BY <1>0, <1>3 DEF Rebind, Detach, After
  <2>3. \A s \in Sessions : Fed(s) => Fed(s)' /\ inbox'[s] = inbox[s]
    BY <1>0, <1>3, <2>1 DEF Fed, Rebind, Detach, After, CurrentSession, Current
  <2>4. ASSUME up, fetched, NEW i \in Ids \ handled PROVE Followed(i)'
    <3>1. Followed(i)
      BY <2>4 DEF CalmInv
    <3> QED
      BY <1>0, <1>1, <2>3, <3>1, FollowedStays
  <2> QED
    BY <1>1, <2>2, <2>3, <2>4, CalmKept DEF Ids
<1> QED
  BY <1>2, <1>3

\* A session gets as far as the history, fetches it or finds that it was.
LEMMA CalmSetUp ==
    ASSUME TypeOK, LockInv, HistoryInv, CalmInv, Calm, NEW s \in Sessions,
           BindAssert(s) \/ Login(s) \/ BeginSetup(s) \/ EndSetup(s)
    PROVE  CalmInv'
<1> USE DEF process, room, copying, sending, bounds, ghosts, servers
<1>0. /\ phase \in [Sessions -> Phases] /\ alive \in [Sessions -> BOOLEAN]
      /\ dead = {} /\ \A r \in Sessions : phase[r] # "none" => alive[r]
      /\ Len(log) \in Nat
  BY DEF TypeOK, SessionType, ServerType, CalmInv
<1>1. /\ alive[s] /\ UNCHANGED <<up, dead, handled, log, alive, inbox, job, await>>
      /\ phase' = [phase EXCEPT ![s] = IF BindAssert(s) THEN "checked" ELSE phase'[s]]
      /\ phase'[s] \in {"checked", "ready", "history", "live"}
      /\ phase[s] \in {"open", "checked", "ready", "history"}
      /\ phase[s] = "history" => phase'[s] = "live"
  BY <1>0 DEF BindAssert, Login, BeginSetup, EndSetup
<1>2. /\ \A r \in Sessions : phase'[r] # "none" => alive'[r]
      /\ \A r \in Sessions : Fed(r) => Fed(r)'
  BY <1>0, <1>1 DEF Fed
<1>3. CASE UNCHANGED <<fetched, before>> /\ todo \subseteq todo'
  <2>1. ASSUME up, fetched, NEW i \in Ids \ handled PROVE Followed(i)'
    <3>1. Followed(i)
      BY <2>1 DEF CalmInv
    <3> QED
      BY <1>0, <1>1, <1>2, <1>3, <3>1, FollowedStays
  <2> QED
    BY <1>0, <1>1, <1>2, <1>3, <2>1, CalmKept DEF Ids
<1>4. CASE BeginSetup(s) /\ ~fetched
  <2>1. /\ todo' = Unhandled(Len(log), handled) /\ before' = handled /\ phase'[s] = "history"
    BY <1>0, <1>1, <1>4 DEF BeginSetup
  <2>2. Fed(s)'
    BY <1>1, <2>1 DEF Fed
  <2>3. ASSUME NEW i \in Ids \ handled PROVE Followed(i)'
    <3>1. CASE i \in Unhandled(Len(log), handled)
      BY <2>1, <3>1 DEF Followed
    <3>2. CASE i \notin Unhandled(Len(log), handled)
      <4>1. \E j \in i + 1 .. Len(log) : j .. j + Batch - 1 \subseteq handled
        BY <1>0, <2>3, <3>2, UnhandledFacts DEF Ids
      <4> QED
        BY <1>1, <2>1, <4>1 DEF Followed, Behind
    <3> QED
      BY <3>1, <3>2
  <2> QED
    BY <1>0, <1>1, <1>2, <2>2, <2>3 DEF CalmInv, Ids
<1>5. BindAssert(s) \/ Login(s) \/ EndSetup(s) => UNCHANGED <<fetched, before, todo>>
  BY DEF BindAssert, Login, EndSetup
<1>6. BeginSetup(s) /\ fetched => UNCHANGED <<fetched, before>> /\ todo \subseteq todo'
  BY <1>1, LockAssumption DEF BeginSetup, HistoryInv
<1> QED
  BY <1>3, <1>4, <1>5, <1>6

\* A message is taken from the history or from an inbox, and recorded.
LEMMA CalmCopy ==
    ASSUME TypeOK, LockInv, HistoryInv, CalmInv, Calm, NEW s \in Sessions,
           TakeHistory(s) \/ TakePush(s) \/ Record(s)
    PROVE  CalmInv'
<1> USE DEF process, room, copying, sending, bounds, ghosts, servers, session
<1>0. /\ Len(log) \in Nat /\ inbox \in [Sessions -> Seq(Ids)] /\ 0 \notin Ids
      /\ dead = {} /\ \A r \in Sessions : phase[r] # "none" => alive[r]
  BY DEF TypeOK, SessionType, ServerType, CalmInv, Ids
<1>1. UNCHANGED <<up, dead, fetched, phase, alive, log, before, await>>
  BY DEF TakeHistory, TakePush, Record
<1>2. \A r \in Sessions : Fed(r) => Fed(r)'
  BY <1>1 DEF Fed
<1>3. ASSUME up, fetched, NEW i \in Ids \ handled', i \in Ids PROVE Followed(i)'
  <2>0. handled \subseteq handled'
    BY DEF TakeHistory, TakePush, Record, Remember
  <2>1. Followed(i)
    BY <1>3, <2>0 DEF CalmInv
  <2>2. Behind(i) => Behind(i)'
    BY <1>1 DEF Behind
  <2>3. CASE TakeHistory(s)
    <3>1. inbox' = inbox /\ job = 0 /\ i \notin handled /\ (i \in todo => i \in todo' \/ i = job')
      BY <1>3, <2>0, <2>3 DEF TakeHistory, Wanted
    <3>2. Reading(i) => Reading(i)'
      BY <1>2, <3>1 DEF Reading
    <3> QED
      BY <1>0, <1>1, <1>3, <2>1, <2>2, <3>1, <3>2 DEF Followed
  <2>4. CASE TakePush(s)
    <3>1. job = 0 /\ todo' = todo /\ i \notin handled /\ inbox[s] # <<>>
      BY <1>3, <2>0, <2>4, LockAssumption DEF TakePush, LockInv
    <3>2. /\ job' = Wanted(Head(inbox[s])) /\ inbox' = [inbox EXCEPT ![s] = Tail(@)]
      BY <2>4 DEF TakePush
    <3>3. ASSUME NEW r \in Sessions, Fed(r), NEW k \in DOMAIN inbox[r], inbox[r][k] = i
          PROVE  i = job' \/ \E l \in DOMAIN inbox'[r] : inbox'[r][l] = i
      <4>1. CASE r # s
        BY <1>0, <3>2, <3>3, <4>1
      <4>2. CASE r = s /\ k = 1
        BY <1>0, <3>1, <3>2, <3>3, <4>2 DEF Wanted
      <4>3. CASE r = s /\ k # 1
        <5>1. inbox[s] \in Seq(Ids) /\ inbox'[s] = Tail(inbox[s])
          BY <1>0, <3>2
        <5>2. k - 1 \in DOMAIN inbox'[s] /\ inbox'[s][k - 1] = i
          BY <3>1, <3>3, <4>3, <5>1
        <5> QED
          BY <4>3, <5>2
      <4> QED
        BY <4>1, <4>2, <4>3
    <3>4. Reading(i) => i = job' \/ Reading(i)'
      BY <1>2, <3>3 DEF Reading
    <3> QED
      BY <1>0, <1>1, <1>3, <2>1, <2>2, <3>1, <3>4 DEF Followed
  <2>5. CASE Record(s)
    <3>1. inbox' = inbox /\ todo' = todo /\ i # job
      BY <1>3, <2>5 DEF Record, Remember
    <3>2. Reading(i) => Reading(i)'
      BY <1>2, <3>1 DEF Reading
    <3> QED
      BY <1>1, <2>1, <2>2, <3>1, <3>2 DEF Followed
  <2> QED
    BY <2>3, <2>4, <2>5
<1>4. Ids' = Ids
  BY <1>1 DEF Ids
<1> QED
  BY <1>0, <1>1, <1>2, <1>3, <1>4, CalmKept

LEMMA CalmStep ==
    TypeOK /\ LockInv /\ DownInv /\ HistoryInv /\ CalmInv /\ IdleInv /\ [Next]_vars => CalmInv'
<1> SUFFICES ASSUME TypeOK, LockInv, DownInv, HistoryInv, CalmInv, IdleInv, [Next]_vars, Calm'
             PROVE  CalmInv'
  BY DEF CalmInv
<1> USE DEF process, room, copying, sending, bounds, ghosts, servers, session
<1>0. Calm /\ 0 \notin Ids
  BY CalmFrame DEF Ids
<1>1. CASE UNCHANGED <<up, dead, fetched, phase, alive, inbox, log, before, todo, job, await, handled>>
  BY <1>0, <1>1 DEF CalmInv, Fed, Reading, Behind, Followed, Ids
<1>2. CASE NativeSend
  <2>1. Store(Native, Online) /\ Online \in SUBSET Sessions
    BY <1>2 DEF NativeSend, Online
  <2>2. UNCHANGED <<up, dead, fetched, handled, phase, alive, todo, job, before, await>>
    BY <1>2 DEF NativeSend
  <2> QED
    BY <1>0, <2>1, <2>2, CalmStore
<1>3. ASSUME NEW s \in Sessions, SendLine(s) PROVE CalmInv'
  <2>1. PICK S \in SUBSET Sessions : Store(<<next, line>>, S)
    BY <1>3 DEF SendLine, Online
  <2> QED
    BY <1>0, <1>3, <2>1, CalmStore DEF SendLine
<1>4. CASE TakeEvent \/ \E s \in Sessions : line # 0 /\ await = 0 /\ SendRefused(s)
  <2>1. /\ UNCHANGED <<up, dead, fetched, phase, alive, inbox, log, before, todo, job, handled, await>>
    BY <1>4 DEF TakeEvent, SendRefused, Panic
  <2> QED
    BY <1>1, <2>1
<1>5. CASE RecordReply
  <2>1. /\ UNCHANGED <<up, dead, fetched, phase, alive, inbox, log, before, todo, job>>
        /\ handled' = handled \cup {await}
    BY <1>5 DEF RecordReply, Remember
  <2>2. \A i : i # await /\ Followed(i) => Followed(i)'
    BY <2>1 DEF Followed, Behind, Reading, Fed
  <2>3. Ids' = Ids /\ \A s \in Sessions : Fed(s) => Fed(s)'
    BY <2>1 DEF Ids, Fed
  <2> QED
    BY <1>0, <2>1, <2>2, <2>3 DEF CalmInv
<1>6. CASE Crash \/ Restart
  <2>1. ~fetched'
    BY <1>6 DEF Crash, Restart, HistoryInv
  <2>2. dead' = {} /\ \A s \in Sessions : phase'[s] # "none" => alive'[s]
    BY <1>0, <1>6 DEF Crash, Restart, CalmInv
  <2> QED
    BY <2>1, <2>2 DEF CalmInv
<1> QED
  BY <1>0, <1>1, <1>2, <1>3, <1>4, <1>5, <1>6, CalmFrame, CalmSessions, CalmSetUp, CalmCopy

\* get_unhandled_history and the pushes after it leave out no message, but for
\* those behind a batch that was handled altogether, until a session is lost.
THEOREM MissedCorrect == Spec => []MissedOnlyBehindBatch
<1>1. Init => HistoryInv /\ CalmInv /\ IdleInv
  BY DEF Init, HistoryInv, CalmInv, IdleInv
<1>2. TypeOK /\ Inv /\ HistoryInv /\ CalmInv /\ IdleInv /\ [Next]_vars
      => (HistoryInv /\ CalmInv /\ IdleInv)'
  BY HistoryStep, CalmStep, IdleStep DEF Inv
<1>3. TypeOK /\ Inv /\ HistoryInv /\ CalmInv => MissedOnlyBehindBatch
  <2> SUFFICES ASSUME TypeOK, LockInv, HistoryInv, CalmInv, up, fetched, lock = Free, Calm,
                      NEW i \in Ids \ handled
               PROVE  Waiting(i) \/ Behind(i)
    BY DEF Inv, MissedOnlyBehindBatch, Calm, Behind
  <2>1. todo = {} /\ job = 0 /\ await = 0 /\ 0 \notin Ids
    BY LockAssumption DEF LockInv, HistoryInv, Ids
  <2>2. Followed(i)
    BY DEF CalmInv
  <2> QED
    BY <2>1, <2>2 DEF Followed, Reading, Waiting
<1> QED
  BY <1>1, <1>2, <1>3, InvCorrect, PTL DEF Spec

---------------------------------------------------------------------------
\* The order of copies.

Lone == Alone /\ Len(log) <= Batch

\* What is recorded was sent by the bridge or has a copy.
DoneInv == \A i \in db : FromMatrix(i) \/ posts[i] > 0

\* What is fetched was there at the time of the fetch.
TopInv == todo \subseteq 1..top /\ top <= Len(log)

\* A user alone has one session, which copies nothing before the fetch.
OneInv ==
    Lone =>
        /\ \A s, t \in Sessions : phase[s] # "none" /\ phase[t] # "none" => s = t
        /\ \A s \in Sessions :
            /\ phase[s] # "drain"
            /\ phase[s] = "none" => inbox[s] = <<>>
            /\ phase[s] \in {"history", "live"} => fetched
        /\ job # 0 => fetched

\* The messages that may still be pushed: they are recorded or fetched as well, or
\* newer than what is left of the history.
InTurn == handled \cup todo \cup {job} \cup {i \in Nat : job < i /\ \A j \in todo : j < i}

\* History comes oldest first, and pushes come after it.
QueueInv ==
    Lone =>
        /\ job # 0 => \A i \in todo : job < i
        /\ \A s \in Sessions : \A k \in DOMAIN inbox[s] :
            /\ inbox[s][k] \in InTurn
            /\ \A l \in DOMAIN inbox[s] : k < l => inbox[s][k] < inbox[s][l]

\* What a step does to the messages.
LEMMA CopyFrame ==
    ASSUME TypeOK, [Next]_vars
    PROVE  /\ Len(log) \in Nat /\ Len(log') \in Nat /\ Len(log) <= Len(log')
           /\ \A i \in Ids :
                /\ log'[i] = log[i]
                /\ posts'[i] = posts[i] \/ \E s \in Sessions : Post(s) /\ i = job
                /\ posts[i] \in Nat /\ posts'[i] \in Nat /\ posts[i] <= posts'[i]
<1> USE DEF servers, process, room, session, copying, sending, bounds, ghosts, vars
<1>0. Len(log) \in Nat /\ Len(posts) = Len(log) /\ posts \in Seq(Nat)
  BY DEF TypeOK, ServerType
<1>1. \A i \in Ids : posts[i] \in Nat
  BY CountNat
<1>2. ASSUME UNCHANGED <<log, posts>>
      PROVE  /\ Len(log') \in Nat /\ Len(log) <= Len(log')
             /\ \A i \in Ids : log'[i] = log[i] /\ posts'[i] = posts[i]
  BY <1>0, <1>2
<1>3. ASSUME NEW origin, NEW S, Store(origin, S)
      PROVE  /\ Len(log') \in Nat /\ Len(log) <= Len(log')
             /\ \A i \in Ids : log'[i] = log[i] /\ posts'[i] = posts[i]
  <2>1. Len(log') = Len(log) + 1
    BY <1>3, <1>0 DEF Store, TypeOK, ServerType
  <2> QED
    BY <1>0, <1>3, <2>1, StoreFacts
<1>4. ASSUME NEW s \in Sessions, Post(s)
      PROVE  /\ log' = log
             /\ \A i \in Ids : posts'[i] = posts[i] \/ (i = job /\ posts'[i] = posts[i] + 1)
  <2>1. job \in Ids /\ posts' = [posts EXCEPT ![job] = @ + 1] /\ log' = log
    BY <1>4 DEF Post, TypeOK, LocalType
  <2> QED
    BY <1>0, <2>1, CountInc
<1>5. \/ UNCHANGED <<log, posts>> \/ (\E origin, S : Store(origin, S))
      \/ \E s \in Sessions : Post(s)
  <2>1. ASSUME CoreStep
        PROVE  \/ UNCHANGED <<log, posts>> \/ (\E origin, S : Store(origin, S))
               \/ \E s \in Sessions : Post(s)
    BY <2>1 DEF CoreStep, NativeSend, TakeEvent, SendDisconnected, RecordReply, Crash, BeginSetup,
       TakeHistory, EndSetup, TakePush, Record, MatrixFails, SendLine, SendRefused, SendFails, Cancel,
       SendStale
  <2> QED
    BY <2>1, CoreSteps DEF core
<1> QED
  BY <1>0, <1>1, <1>2, <1>3, <1>4, <1>5

LEMMA DoneStep ==
    ASSUME TypeOK, LockInv, JobInv, OwnInv, DoneInv, [Next]_vars
    PROVE  DoneInv'
<1> USE DEF servers, process, room, session, copying, sending, bounds, ghosts, vars
<1>1. \A i \in Ids : /\ FromMatrix(i) => FromMatrix(i)'
                     /\ posts[i] > 0 => posts'[i] > 0
  <2>1. \A i \in Ids : log'[i] = log[i]
    BY CopyFrame
  <2>2. \A i \in Ids : posts[i] \in Nat /\ posts'[i] \in Nat /\ posts[i] <= posts'[i]
    BY CopyFrame
  <2> QED
    BY <2>1, <2>2 DEF FromMatrix, Native
<1>2. db \subseteq Ids
  BY DEF TypeOK, ServerType
<1>3. ASSUME NEW j \in Ids, db' = db \cup {j}, FromMatrix(j) \/ posts[j] > 0 PROVE DoneInv'
  BY <1>1, <1>2, <1>3 DEF DoneInv
<1>4. CASE db' = db
  BY <1>1, <1>2, <1>4 DEF DoneInv
<1>5. ASSUME NEW s \in Sessions, Record(s) PROVE DoneInv'
  <2>1. db' = db \cup {job} /\ posted /\ job \in Ids
    BY <1>5 DEF Record, Remember, LockInv, TypeOK, LocalType
  <2> QED
    BY <1>3, <2>1 DEF JobInv
<1>6. CASE RecordReply
  <2>1. db' = db \cup {await} /\ await # 0 /\ await \in Ids
    BY <1>6 DEF RecordReply, Remember, TypeOK, LocalType
  <2> QED
    BY <1>3, <2>1 DEF OwnInv
<1>7. db' = db \/ RecordReply \/ \E s \in Sessions : Record(s)
  <2>1. CoreStep => db' = db \/ RecordReply \/ \E s \in Sessions : Record(s)
    BY DEF CoreStep, NativeSend, TakeEvent, SendDisconnected, Crash, BeginSetup,
       TakeHistory, EndSetup, TakePush, Post, MatrixFails, SendLine, SendRefused, SendFails, Cancel,
       SendStale
  <2> QED
    BY <2>1, CoreSteps DEF core
<1> QED
  BY <1>4, <1>5, <1>6, <1>7

LEMMA TopStep ==
    ASSUME TypeOK, TopInv, [Next]_vars
    PROVE  TopInv'
<1> USE DEF servers, process, room, session, copying, sending, bounds, ghosts, vars
<1>1. Len(log) \in Nat /\ Len(log') \in Nat /\ Len(log) <= Len(log') /\ top \in Nat
  BY CopyFrame DEF TypeOK, LocalType
<1>2. CASE UNCHANGED <<todo, top>>
  BY <1>1, <1>2 DEF TopInv
<1>3. ASSUME NEW s \in Sessions, BeginSetup(s), alive[s] PROVE TopInv'
  <2>1. top' = Len(log) /\ (todo' = {} \/ todo' = Unhandled(Len(log), handled))
    BY <1>3 DEF BeginSetup
  <2> QED
    BY <1>1, <2>1, UnhandledType DEF TopInv
<1>4. CASE todo' \subseteq todo /\ top' = top
  BY <1>1, <1>4 DEF TopInv
<1>5. CASE todo' = {} /\ top' = 0
  BY <1>1, <1>5 DEF TopInv
<1>6. \/ UNCHANGED <<todo, top>> \/ (todo' \subseteq todo /\ top' = top)
      \/ (todo' = {} /\ top' = 0) \/ \E s \in Sessions : BeginSetup(s) /\ alive[s]
  <2>1. CASE Environment
    BY <2>1 DEF Environment, NativeSend, BeginTxn, Submit
  <2>2. CASE ConnectionTask
    BY <2>2 DEF ConnectionTask, Connect, GiveUp, Rebind, BindAssert, Login, BeginSetup,
       TakeHistory, EndSetup, LoopEnds, Abandon, Drop
  <2>3. CASE Copying
    BY <2>3 DEF Copying, TakePush, Post, Record, MatrixFails
  <2>4. CASE Transaction
    BY <2>4 DEF Transaction, TakeEvent, SendDisconnected, RecordReply, AckTxn, AckLost,
       SendLine, SendRefused, SendFails, Cancel
  <2>5. CASE LeftBehind
    BY <2>5 DEF LeftBehind, SendStale, StaleAnswered, StaleFails
  <2> QED
    BY <2>1, <2>2, <2>3, <2>4, <2>5 DEF Next, Crash, Restart
<1> QED
  BY <1>2, <1>3, <1>4, <1>5, <1>6

\* A user alone stays alone backwards.
LEMMA LoneFrame ==
    ASSUME TypeOK, LockInv, CalmInv, IdleInv, [Next]_vars, Lone'
    PROVE  /\ Lone /\ \A s \in Sessions : phase[s] # "none" => alive[s]
           /\ \/ UNCHANGED <<fetched, phase, inbox, log, todo, job, handled>>
              \/ RecordReply \/ Crash \/ Restart
              \/ \E origin : \E S \in SUBSET Online : Store(origin, S) /\ UNCHANGED <<fetched, phase, todo, job, handled>>
              \/ \E u \in Users : Connect(u)
              \/ \E s \in Sessions :
                    \/ BindAssert(s) \/ Login(s) \/ BeginSetup(s) \/ TakeHistory(s)
                    \/ EndSetup(s) \/ TakePush(s) \/ Record(s)
<1> USE DEF servers, process, room, session, copying, sending, bounds, ghosts, vars
<1>1. Calm'
  BY DEF Lone, Alone, Calm
<1>2. logins \in Nat /\ logins' = 0
  BY DEF TypeOK, GhostType, Lone, Alone
<1>3. \A u \in Users : ~Rebind(u)
  BY <1>2 DEF Rebind
<1>4. logins' = logins
  <2>1. CASE Environment
    BY <2>1 DEF Environment, NativeSend, BeginTxn, Submit
  <2>2. CASE ConnectionTask
    BY <1>3, <2>2 DEF ConnectionTask, Connect, GiveUp, BindAssert, Login, BeginSetup,
       TakeHistory, EndSetup, LoopEnds, Abandon, Drop
  <2>3. CASE Copying
    BY <2>3 DEF Copying, TakePush, Post, Record, MatrixFails
  <2>4. CASE Transaction
    BY <2>4 DEF Transaction, TakeEvent, SendDisconnected, RecordReply, AckTxn, AckLost,
       SendLine, SendRefused, SendFails, Cancel
  <2>5. CASE LeftBehind
    BY <2>5 DEF LeftBehind, SendStale, StaleAnswered, StaleFails
  <2> QED
    BY <2>1, <2>2, <2>3, <2>4, <2>5 DEF Next, Crash, Restart
<1>5. Calm
  BY <1>1, CalmFrame
<1>6. Len(log) <= Batch
  BY CopyFrame, BoundAssumption DEF Lone
<1>7. Lone
  BY <1>2, <1>4, <1>5, <1>6 DEF Lone, Alone, Calm
<1>8. \A s \in Sessions : phase[s] # "none" => alive[s]
  BY <1>5 DEF CalmInv
<1>9. ASSUME NativeSend \/ \E s \in Sessions : SendLine(s)
      PROVE  \E origin : \E S \in SUBSET Online : Store(origin, S) /\ UNCHANGED <<fetched, phase, todo, job, handled>>
  BY <1>9 DEF NativeSend, SendLine
<1>10. ASSUME TakeEvent \/ \E s \in Sessions : SendRefused(s)
       PROVE  UNCHANGED <<fetched, phase, inbox, log, todo, job, handled>>
  BY <1>10 DEF TakeEvent, SendRefused
<1> QED
  BY <1>1, <1>3, <1>7, <1>8, <1>9, <1>10, CalmFrame

\* The fetch leaves nothing out: one batch holds it all.
LEMMA OneBatch ==
    ASSUME NEW n \in Nat, n <= Batch, NEW h
    PROVE  /\ Unhandled(n, h) = (1..n) \ h
           /\ \A i \in 1..n : (n - i) \div Batch = 0
<1>0. Batch \in Nat \ {0}
  BY BoundAssumption
<1>1. ASSUME NEW i \in 1..n PROVE (n - i) \div Batch = 0
  <2>1. n - i \in Nat /\ 0 * Batch <= n - i /\ n - i < 0 * Batch + Batch
    BY <1>0
  <2> HIDE <1>1
  <2> DEFINE a == n - i
  <2>2. a \in Nat /\ 0 * Batch <= a /\ a < 0 * Batch + Batch
    BY <2>1
  <2> HIDE DEF a
  <2>3. a \div Batch = 0
    BY <1>0, <2>2, DivUnique
  <2> QED
    BY <2>3 DEF a
<1>2. BatchOf(0, n) = 1..n
  BY <1>1 DEF BatchOf
<1>3. ASSUME NEW i \in (1..n) \ h PROVE i \in Unhandled(n, h)
  <2>1. \A k \in 0 .. ((n - i) \div Batch) : k = 0
    BY <1>1, <1>3
  <2> QED
    BY <1>2, <1>3, <2>1 DEF Unhandled
<1> QED
  BY <1>1, <1>3 DEF Unhandled

LEMMA OneStep ==
    ASSUME TypeOK, LockInv, DownInv, HistoryInv, CalmInv, IdleInv, OneInv, [Next]_vars
    PROVE  OneInv'
<1> SUFFICES ASSUME Lone' PROVE OneInv'
  BY DEF OneInv
<1> USE DEF servers, process, room, session, copying, sending, bounds, ghosts
<1>0. /\ phase \in [Sessions -> Phases] /\ inbox \in [Sessions -> Seq(Ids)]
      /\ \A s \in Sessions : phase[s] # "none" => alive[s]
  BY LoneFrame DEF TypeOK, SessionType
<1>1. /\ \A s, t \in Sessions : phase[s] # "none" /\ phase[t] # "none" => s = t
      /\ \A s \in Sessions :
            /\ phase[s] # "drain"
            /\ phase[s] = "none" => inbox[s] = <<>>
            /\ phase[s] \in {"history", "live"} => fetched
      /\ job # 0 => fetched
  BY LoneFrame DEF OneInv
<1>2. CASE UNCHANGED <<fetched, phase, inbox, log, todo, job, handled>>
  BY <1>1, <1>2 DEF OneInv
<1>3. CASE RecordReply
  BY <1>1, <1>3 DEF RecordReply, OneInv
<1>4. CASE Crash
  BY <1>4 DEF Crash, OneInv
<1>5. CASE Restart
  BY <1>1, <1>5 DEF Restart, OneInv
<1>6. ASSUME NEW origin, NEW S \in SUBSET Online, Store(origin, S), UNCHANGED <<fetched, phase, todo, job, handled>>
      PROVE  OneInv'
  <2>1. \A s \in Sessions : phase[s] = "none" => s \notin S
    BY DEF Online, LoggedIn
  <2> QED
    BY <1>1, <1>6, <2>1 DEF Store, Push, OneInv
<1>7. ASSUME NEW u \in Users, Connect(u) PROVE OneInv'
  <2>1. \A s \in Sessions : s[1] = u
    BY LoneFrame DEF Lone, Alone, Sessions
  <2>2. \A s \in Sessions : phase[s] = "none"
    BY <1>0, <1>1, <1>7, <2>1 DEF Connect, CurrentSession, Current
  <2>3. PICK k \in Slots : phase' = [phase EXCEPT ![<<u, k>>] = "open"]
    BY <1>7 DEF Connect
  <2>4. <<u, k>> \in Sessions
    BY DEF Sessions
  <2>5. UNCHANGED <<fetched, inbox, job>>
    BY <1>7 DEF Connect
  <2> QED
    BY <1>0, <1>1, <2>2, <2>3, <2>4, <2>5 DEF OneInv
<1>8. ASSUME NEW s \in Sessions, NEW p, p \notin {"none", "drain"}, phase[s] # "none",
             phase' = [phase EXCEPT ![s] = p], inbox' = inbox, job' = job,
             fetched => fetched', p \in {"history", "live"} => fetched'
      PROVE  OneInv'
  <2>1. \A t \in Sessions : phase'[t] = IF t = s THEN p ELSE phase[t]
    BY <1>0, <1>8
  <2> QED
    BY <1>1, <1>8, <2>1 DEF OneInv
<1>9. ASSUME NEW s \in Sessions, BindAssert(s) \/ Login(s) \/ BeginSetup(s) \/ EndSetup(s)
      PROVE  OneInv'
  <2>1. CASE BindAssert(s)
    BY <1>8, <2>1 DEF BindAssert
  <2>2. CASE Login(s)
    BY <1>0, <1>8, <2>2 DEF Login
  <2>3. CASE BeginSetup(s)
    <3>1. /\ alive[s] /\ phase' = [phase EXCEPT ![s] = "history"] /\ fetched' = TRUE
          /\ inbox' = inbox /\ job' = job /\ phase[s] = "ready"
      BY <1>0, <2>3 DEF BeginSetup
    <3> QED
      BY <1>8, <3>1
  <2>4. CASE EndSetup(s)
    <3>1. fetched
      BY <1>1, <2>4 DEF EndSetup
    <3> QED
      BY <1>8, <2>4, <3>1 DEF EndSetup
  <2> QED
    BY <1>9, <2>1, <2>2, <2>3, <2>4
<1>10. ASSUME NEW s \in Sessions, TakeHistory(s) \/ Record(s) PROVE OneInv'
  BY <1>1, <1>10 DEF TakeHistory, Record, OneInv
<1>11. ASSUME NEW s \in Sessions, TakePush(s) PROVE OneInv'
  <2>1. phase[s] = "live" /\ fetched
    BY <1>1, <1>11 DEF TakePush
  <2>2. UNCHANGED <<phase, fetched>> /\ \A t \in Sessions : t # s => inbox'[t] = inbox[t]
    BY <1>0, <1>11 DEF TakePush
  <2> QED
    BY <1>1, <2>1, <2>2 DEF OneInv
<1> QED
  BY <1>2, <1>3, <1>4, <1>5, <1>6, <1>7, <1>9, <1>10, <1>11, LoneFrame

LEMMA TailFacts ==
    ASSUME NEW S, NEW q \in Seq(S), q # <<>>
    PROVE  /\ Len(q) \in Nat \ {0} /\ DOMAIN q = 1..Len(q)
           /\ Head(q) = q[1]
           /\ DOMAIN Tail(q) = 1 .. Len(q) - 1
           /\ \A k \in DOMAIN Tail(q) : Tail(q)[k] = q[k + 1]
<1>1. Len(q) \in Nat \ {0} /\ DOMAIN q = 1..Len(q) /\ Head(q) = q[1]
  OBVIOUS
<1>2. Len(Tail(q)) = Len(q) - 1 /\ Tail(q) \in Seq(S)
  BY SMT
<1>3. DOMAIN Tail(q) = 1 .. Len(q) - 1
  BY <1>2
<1>4. \A k \in 1 .. Len(q) - 1 : Tail(q)[k] = q[k + 1]
  BY SMT
<1> QED
  BY <1>1, <1>3, <1>4

LEMMA QueueStep ==
    ASSUME TypeOK, LockInv, DownInv, HistoryInv, CalmInv, IdleInv, TopInv, OneInv, QueueInv,
           [Next]_vars
    PROVE  QueueInv'
<1> SUFFICES ASSUME Lone' PROVE QueueInv'
  BY DEF QueueInv
<1> USE DEF servers, process, room, session, copying, sending, bounds, ghosts
<1>0. /\ inbox \in [Sessions -> Seq(Ids)] /\ Len(log) \in Nat /\ Ids = 1..Len(log) /\ Ids \subseteq Nat
      /\ todo \subseteq Ids /\ job \in Ids \cup {0} /\ top \in Nat
      /\ \A s \in Sessions : phase[s] # "none" => alive[s]
  <2>1. inbox \in [Sessions -> Seq(Ids)]
    BY DEF TypeOK, SessionType
  <2>2. Len(log) \in Nat /\ Ids = 1..Len(log) /\ Ids \subseteq Nat
    BY DEF TypeOK, ServerType, Ids
  <2>3. todo \subseteq Ids /\ job \in Ids \cup {0} /\ top \in Nat
    BY DEF TypeOK, LocalType
  <2> QED
    BY <2>1, <2>2, <2>3, LoneFrame
<1>1. Lone /\ \A s \in Sessions : phase[s] = "none" => inbox[s] = <<>>
  BY LoneFrame DEF OneInv
<1>2. /\ job # 0 => \A i \in todo : job < i
      /\ \A s \in Sessions : \A k \in DOMAIN inbox[s] :
            /\ inbox[s][k] \in Ids /\ inbox[s][k] \in InTurn
            /\ \A l \in DOMAIN inbox[s] : k < l => inbox[s][k] < inbox[s][l]
  BY <1>0, <1>1 DEF QueueInv
\* The inboxes stay as they are.
<1>3. ASSUME inbox' = inbox, job' # 0 => \A i \in todo' : job' < i,
             Ids \cap InTurn \subseteq InTurn'
      PROVE  QueueInv'
  BY <1>2, <1>3 DEF QueueInv
<1>4. CASE UNCHANGED <<inbox, todo, job, handled>>
  BY <1>2, <1>3, <1>4 DEF InTurn
<1>5. CASE RecordReply
  <2>1. UNCHANGED <<inbox, todo, job>> /\ handled \subseteq handled'
    BY <1>5 DEF RecordReply, Remember
  <2> QED
    BY <1>2, <1>3, <2>1 DEF InTurn
<1>6. ASSUME job' = 0, \A s \in Sessions : inbox'[s] = <<>> PROVE QueueInv'
  BY <1>6 DEF QueueInv
<1>7. CASE Crash
  BY <1>6, <1>7 DEF Crash
<1>8. CASE Restart
  <2>1. job = 0 /\ \A s \in Sessions : inbox[s] = <<>>
    BY <1>1, <1>8, LockAssumption DEF Restart, DownInv, LockInv
  <2> QED
    BY <1>6, <1>8, <2>1 DEF Restart
<1>9. ASSUME NEW origin, NEW S, Store(origin, S), UNCHANGED <<todo, job, handled>>
      PROVE  QueueInv'
  <2> DEFINE x == Len(log) + 1
  <2>1. x \in Nat /\ \A i \in Ids \cup {0} : i < x
    BY <1>0
  <2>2. x \in InTurn' /\ Ids \cap InTurn \subseteq InTurn'
    BY <1>0, <1>9, <2>1 DEF InTurn
  <2> HIDE DEF x
  <2>3. SUFFICES ASSUME NEW s \in Sessions, NEW k \in DOMAIN inbox'[s]
                 PROVE  /\ inbox'[s][k] \in InTurn'
                        /\ \A l \in DOMAIN inbox'[s] : k < l => inbox'[s][k] < inbox'[s][l]
    BY <1>2, <1>9, <2>3 DEF QueueInv
  <2>4. inbox[s] \in Seq(Ids) /\ (inbox'[s] = Append(inbox[s], x) \/ inbox'[s] = inbox[s])
    BY <1>0, <1>9 DEF Store, Push, x
  <2>5. CASE inbox'[s] = inbox[s]
    BY <1>2, <2>2, <2>3, <2>5
  <2>6. CASE inbox'[s] = Append(inbox[s], x)
    <3>1. /\ Len(inbox[s]) \in Nat /\ DOMAIN inbox[s] = 1..Len(inbox[s])
          /\ DOMAIN inbox'[s] = 1 .. Len(inbox[s]) + 1 /\ inbox'[s][Len(inbox[s]) + 1] = x
          /\ \A l \in 1..Len(inbox[s]) : inbox'[s][l] = inbox[s][l]
      BY <2>4, <2>6
    <3>2. CASE k = Len(inbox[s]) + 1
      BY <2>2, <2>3, <3>1, <3>2
    <3>3. CASE k \in 1..Len(inbox[s])
      <4>1. inbox'[s][k] = inbox[s][k] /\ inbox[s][k] \in Ids \cap InTurn
        BY <1>2, <3>1, <3>3
      <4>2. ASSUME NEW l \in DOMAIN inbox'[s], k < l PROVE inbox'[s][k] < inbox'[s][l]
        BY <1>2, <2>1, <3>1, <3>3, <4>1, <4>2
      <4> QED
        BY <2>2, <4>1, <4>2
    <3> QED
      BY <2>3, <3>1, <3>2, <3>3
  <2> QED
    BY <2>4, <2>5, <2>6
<1>10. ASSUME NEW s \in Sessions, BeginSetup(s) PROVE QueueInv'
  <2>1. /\ inbox' = inbox /\ handled' = handled /\ job' = job /\ job = 0
        /\ todo' = {} \/ todo' = Unhandled(Len(log), handled)
    BY <1>0, <1>10, LockAssumption DEF BeginSetup, LockInv
  <2>2. Unhandled(Len(log), handled) = Ids \ handled
    BY <1>0, <1>1, OneBatch DEF Lone
  <2>3. Ids \subseteq InTurn'
    BY <1>0, <2>1, <2>2 DEF InTurn
  <2> QED
    BY <1>3, <2>1, <2>3
<1>11. ASSUME NEW s \in Sessions, TakeHistory(s) PROVE QueueInv'
  <2>1. PICK i \in todo : /\ \A j \in todo \ {i} : ~Earlier(j, i)
                          /\ todo' = todo \ {i} /\ job' = Wanted(i)
    BY <1>11 DEF TakeHistory
  <2>2. UNCHANGED <<inbox, handled>>
    BY <1>11 DEF TakeHistory
  <2>3. top <= Batch /\ todo \subseteq 1..top
    <3>1. Batch \in Nat
      BY BoundAssumption
    <3> QED
      BY <1>0, <1>1, <3>1 DEF TopInv, Lone
  <2>4. \A j \in 1..top : (top - j) \div Batch = 0
    BY <1>0, <2>3, OneBatch
  <2>5. \A j \in todo \ {i} : i < j
    <3>1. \A j \in todo \ {i} : ~(j < i)
      BY <2>1, <2>3, <2>4 DEF Earlier, BatchOrder
    <3> QED
      BY <1>0, <3>1
  <2>6. job' = 0 \/ job' = i
    BY <2>1 DEF Wanted
  <2>7. i \in handled \/ job' = i
    BY <2>1 DEF Wanted
  <2>8. ASSUME NEW x \in Ids \cap InTurn PROVE x \in InTurn'
    <3>1. CASE x \in handled \/ x \in todo
      BY <2>1, <2>2, <2>7, <3>1 DEF InTurn
    <3>2. CASE x = job
      BY <1>0, <1>11, <2>8, <3>2 DEF TakeHistory
    <3>3. CASE \A j \in todo : j < x
      <4>1. job' < x
        BY <1>0, <2>6, <2>8, <3>3
      <4> QED
        BY <1>0, <2>1, <2>8, <3>3, <4>1 DEF InTurn
    <3> QED
      BY <2>8, <3>1, <3>2, <3>3 DEF InTurn
  <2> QED
    BY <1>3, <2>1, <2>2, <2>5, <2>6, <2>8
<1>12. ASSUME NEW s \in Sessions, TakePush(s) PROVE QueueInv'
  <2>1. /\ todo = {} /\ todo' = todo /\ handled' = handled /\ inbox[s] # <<>>
        /\ inbox' = [inbox EXCEPT ![s] = Tail(@)] /\ job' = Wanted(Head(inbox[s]))
    BY <1>12, LockAssumption DEF TakePush, HistoryInv
  <2> DEFINE h == Head(inbox[s])
  <2>2. /\ inbox[s] \in Seq(Ids) /\ inbox'[s] = Tail(inbox[s])
        /\ \A t \in Sessions : t # s => inbox'[t] = inbox[t]
    BY <1>0, <2>1
  <2>3. /\ Len(inbox[s]) \in Nat \ {0} /\ DOMAIN inbox[s] = 1..Len(inbox[s])
        /\ DOMAIN inbox'[s] = 1 .. Len(inbox[s]) - 1 /\ h = inbox[s][1]
        /\ \A k \in DOMAIN inbox'[s] : inbox'[s][k] = inbox[s][k + 1]
    <3>1. \A q \in Seq(Ids) : q # <<>> =>
            /\ Len(q) \in Nat \ {0} /\ DOMAIN q = 1..Len(q) /\ Head(q) = q[1]
            /\ DOMAIN Tail(q) = 1 .. Len(q) - 1
            /\ \A k \in DOMAIN Tail(q) : Tail(q)[k] = q[k + 1]
      BY TailFacts
    <3> QED
      BY <2>1, <2>2, <3>1, Zenon
  <2>4. h \in Ids /\ job' \in {0, h}
    BY <1>2, <2>1, <2>3 DEF Wanted
  <2> HIDE DEF h
  <2>5. \A k \in DOMAIN inbox'[s] : k + 1 \in DOMAIN inbox[s] /\ h < inbox[s][k + 1]
    <3>1. ASSUME NEW k \in DOMAIN inbox'[s]
          PROVE  k + 1 \in DOMAIN inbox[s] /\ 1 \in DOMAIN inbox[s] /\ 1 < k + 1
      BY <2>3
    <3> QED
      BY <1>2, <2>3, <3>1
  <2>7. \A i \in Ids : h < i => i \in InTurn'
    BY <1>0, <2>1, <2>4 DEF InTurn
  <2>8. ASSUME NEW t \in Sessions, t # s, NEW k \in DOMAIN inbox'[t] PROVE FALSE
    <3>1. k \in DOMAIN inbox[t] /\ phase[s] # "none"
      BY <1>12, <2>2, <2>8 DEF TakePush
    <3>2. inbox[t] = <<>>
      BY <1>1, <1>12, <2>8, <3>1 DEF OneInv
    <3> QED
      BY <3>1, <3>2
  <2>9. ASSUME NEW k \in DOMAIN inbox'[s]
        PROVE  /\ inbox'[s][k] \in InTurn'
               /\ \A l \in DOMAIN inbox'[s] : k < l => inbox'[s][k] < inbox'[s][l]
    <3>1. inbox'[s][k] = inbox[s][k + 1] /\ k + 1 \in DOMAIN inbox[s] /\ h < inbox[s][k + 1]
      BY <2>3, <2>5, <2>9
    <3>2. inbox[s][k + 1] \in Ids
      BY <1>2, <3>1
    <3>3. inbox'[s][k] \in InTurn'
      BY <2>7, <3>1, <3>2
    <3>4. ASSUME NEW l \in DOMAIN inbox'[s], k < l PROVE inbox'[s][k] < inbox'[s][l]
      <4>1. inbox'[s][l] = inbox[s][l + 1] /\ l + 1 \in DOMAIN inbox[s]
        BY <2>3, <2>5
      <4>2. k + 1 < l + 1
        BY <2>3, <3>4
      <4> QED
        BY <1>2, <3>1, <4>1, <4>2
    <3> QED
      BY <3>3, <3>4
  <2> QED
    BY <2>1, <2>8, <2>9 DEF QueueInv
<1>13. ASSUME NEW s \in Sessions, Record(s) PROVE QueueInv'
  <2>1. UNCHANGED <<inbox, todo>> /\ job' = 0 /\ handled' = handled \cup {job}
    BY <1>13 DEF Record, Remember
  <2>2. Ids \cap InTurn \subseteq InTurn'
    BY <1>0, <2>1 DEF InTurn
  <2> QED
    BY <1>3, <2>1, <2>2
<1>14. ASSUME NEW u \in Users, Connect(u) PROVE QueueInv'
  BY <1>4, <1>14 DEF Connect
<1>15. ASSUME NEW s \in Sessions, BindAssert(s) \/ Login(s) \/ EndSetup(s) PROVE QueueInv'
  BY <1>0, <1>4, <1>15 DEF BindAssert, Login, EndSetup
<1> QED
  BY <1>4, <1>5, <1>7, <1>8, <1>9, <1>10, <1>11, <1>12, <1>13, <1>14, <1>15, LoneFrame

\* A user alone has messages copied in their order, in a history of one batch.
THEOREM PostedCorrect == Spec => PostedInOrder
<1> DEFINE Parts == HistoryInv /\ CalmInv /\ IdleInv /\ DoneInv /\ TopInv /\ OneInv /\ QueueInv
           All == TypeOK /\ Inv /\ Parts
<1>1. Init => Parts
  BY DEF Init, HistoryInv, CalmInv, IdleInv, DoneInv, TopInv, OneInv, QueueInv
<1>2. All /\ [Next]_vars => Parts'
  BY HistoryStep, CalmStep, IdleStep, DoneStep, TopStep, OneStep, QueueStep DEF Inv
<1>3. ASSUME All, [Next]_vars PROVE Lone => OldestFirst
  <2> SUFFICES ASSUME Lone, NEW i \in Ids, posts'[i] > posts[i],
                      NEW j \in 1 .. i - 1, ~FromMatrix(j), ~(posts[j] > 0)
               PROVE  FALSE
    BY DEF OldestFirst
  <2>0. Len(log) \in Nat /\ i \in Nat /\ i <= Len(log) /\ j \in Ids /\ j < i /\ Batch \in Nat \ {0}
    <3>1. Len(log) \in Nat /\ Batch \in Nat \ {0}
      BY <1>3, CopyFrame, BoundAssumption
    <3> QED
      BY <3>1 DEF Ids
  <2>1. PICK s \in Sessions : Post(s) /\ i = job
    <3>1. posts[i] \in Nat /\ posts'[i] # posts[i]
      BY <1>3, CountNat
    <3> QED
      BY <1>3, <3>1, CopyFrame
  <2>2. job # 0 /\ lock \in Sessions
    BY <2>1 DEF Post
  <2>3. up /\ fetched
    BY <1>3, <2>2, LockAssumption DEF Inv, DownInv, OneInv
  <2>4. j \notin handled
    BY <1>3, <2>3 DEF Inv, MemoryInv, DoneInv
  <2>5. Followed(j)
    BY <1>3, <2>0, <2>3, <2>4 DEF CalmInv, Lone, Alone, Calm
  <2>6. j \notin todo
    BY <1>3, <2>0, <2>1, <2>2 DEF QueueInv, TypeOK, LocalType, Ids
  <2>7. j # await
    BY <1>3, <2>0 DEF Inv, OwnInv, Ids
  <2>8. ~Behind(j)
    <3> SUFFICES ASSUME NEW k \in j + 1 .. Len(log), k .. k + Batch - 1 \subseteq before
                 PROVE  FALSE
      BY DEF Behind
    <3>1. k + Batch - 1 \in k .. k + Batch - 1 /\ k + Batch - 1 > Len(log)
      BY <2>0 DEF Lone, Ids
    <3>2. before \subseteq Ids
      BY <1>3 DEF TypeOK, GhostType
    <3> QED
      BY <3>1, <3>2, <2>0 DEF Ids
  <2>9. ~Reading(j)
    <3>1. j \notin InTurn
      BY <2>0, <2>1, <2>4, <2>6 DEF InTurn
    <3> QED
      BY <1>3, <3>1 DEF Reading, QueueInv
  <2> QED
    BY <2>0, <2>1, <2>5, <2>6, <2>7, <2>8, <2>9 DEF Followed
<1>4. All /\ [Next]_vars => [Alone /\ Len(log) <= Batch => OldestFirst]_vars
  BY <1>3 DEF Lone
<1> QED
  BY <1>1, <1>2, <1>4, InvCorrect, PTL DEF Spec, PostedInOrder

---------------------------------------------------------------------------
(* How often a line is sent to tomsg.  The handler panics at every command *)
(* that fails and the homeserver then delivers the transaction again, but  *)
(* a line that was sent is sent again only if a fault happened in between. *)
(* A handler that is dropped may leave its line in the channel, where it   *)
(* counts as sent.                                                         *)

Copies(e, l) == {j \in Ids : log[j] = <<e, l>>}

\* Where a line is left in the channels.
Left(e, l) ==
    {p \in Users \X Nat : p[2] \in DOMAIN stale[p[1]] /\ stale[p[1]][p[2]] = <<e, l>>}

\* The author's connection takes commands, and is not busy with others.
Healthy ==
    /\ stale[Author] = <<>>
    /\ \E s \in CurrentSession(Author) : alive[s] /\ phase[s] \in LoggedIn

\* Line l of the event at hand was sent since the event was taken.
Begun(l) == line # 0 /\ (l < line \/ (l = line /\ await # 0))

\* A user has one session at most besides the loops left behind.
SingleInv ==
    /\ \A s, t \in Sessions :
        s[1] = t[1] /\ phase[s] \in Current /\ phase[t] \in Current => s = t
    /\ \A s \in Sessions : s[1] \in dead => phase[s] \notin Current
    /\ upto <= Len(events)

\* The line may have been sent once without a fault.
Counted(e, l) == e < next \/ (e = next /\ Begun(l) /\ Healthy)
Spare(e, l) == IF Counted(e, l) THEN 1 ELSE 0

ResendInv ==
    /\ acked <= upto /\ upto <= acked + 1 /\ next <= upto + 1
    /\ \A e, l \in Nat : <<e, l>> # Native =>
        /\ IsFiniteSet(Left(e, l))
        /\ Cardinality(Copies(e, l)) + Cardinality(Left(e, l)) <= Len(faults) + Spare(e, l)

\* One event in every transaction.
OnceInv == MaxTxn = 1 => ResendInv

---------------------------------------------------------------------------
\* Sessions.

LEMMA Typed ==
    ASSUME TypeOK
    PROVE  /\ phase \in [Sessions -> Phases] /\ alive \in [Sessions -> BOOLEAN]
           /\ events \in Seq(Users) /\ Len(events) \in Nat
           /\ acked \in Nat /\ upto \in Nat /\ next \in Nat
           /\ line \in Nat /\ await \in Nat /\ line <= Lines
           /\ faults \in Seq(FaultKinds) /\ Len(faults) \in Nat /\ dead \subseteq Users
           /\ log \in Seq(Nat \X Nat) /\ Len(log) \in Nat
           /\ stale \in [Users -> Seq(Nat \X Nat)]
<1>1. /\ Lines \in Nat /\ line \in 0..Lines /\ await \in Ids \cup {0}
      /\ log \in Seq(Nat \X Nat) /\ faults \in Seq(FaultKinds)
  BY BoundAssumption DEF TypeOK, ServerType, LocalType, GhostType
<1>2. Len(log) \in Nat /\ Len(faults) \in Nat
  BY <1>1
<1>3. line \in Nat /\ line <= Lines /\ await \in Nat
  BY <1>1, <1>2 DEF Ids
<1>4. phase \in [Sessions -> Phases] /\ alive \in [Sessions -> BOOLEAN]
  BY DEF TypeOK, SessionType
<1>5. /\ events \in Seq(Users) /\ acked \in Nat /\ upto \in Nat /\ next \in Nat
      /\ dead \subseteq Users /\ stale \in [Users -> Seq(Nat \X Nat)]
  BY DEF TypeOK, ServerType, ProcessType
<1> QED
  BY <1>1, <1>2, <1>3, <1>4, <1>5

LEMMA SingleStep ==
    ASSUME TypeOK, LockInv, SingleInv, [Next]_vars
    PROVE  SingleInv'
<1> USE Typed DEF servers, process, session, sending, vars
<1>1. ASSUME UNCHANGED <<phase, dead, upto, events>> PROVE SingleInv'
  BY <1>1 DEF SingleInv
<1>2. ASSUME UNCHANGED <<upto, events>>, dead' \subseteq dead,
             \A s \in Sessions : phase'[s] \in Current => phase[s] \in Current
      PROVE  SingleInv'
  BY <1>2 DEF SingleInv
<1>3. ASSUME NEW S \in SUBSET Sessions, Detach(S)
      PROVE  \A s \in Sessions : phase'[s] \in Current => phase[s] \in Current /\ s \notin S
  BY <1>3 DEF Detach, After, Current
<1>4. ASSUME NEW s \in Sessions, EndSession(s)
      PROVE  \A t \in Sessions : phase'[t] \in Current => phase[t] \in Current /\ t # s
  BY <1>4 DEF EndSession, Current
<1>5. CASE Environment
  <2>1. CASE NativeSend
    BY <1>1, <2>1 DEF NativeSend
  <2>2. CASE BeginTxn
    <3>1. UNCHANGED <<phase, dead, events>> /\ upto' <= Len(events)
      BY <2>2 DEF BeginTxn
    <3> QED
      BY <3>1 DEF SingleInv
  <2>3. ASSUME NEW u \in Users, Submit(u) PROVE SingleInv'
    <3>1. UNCHANGED <<phase, dead, upto>> /\ Len(events') = Len(events) + 1
      BY <2>3 DEF Submit
    <3> QED
      BY <3>1 DEF SingleInv
  <2> QED
    BY <1>5, <2>1, <2>2, <2>3 DEF Environment
<1>6. ASSUME NEW u \in Users, Connect(u) PROVE SingleInv'
  <2>1. u \notin dead /\ UNCHANGED <<dead, upto, events>>
    BY <1>6 DEF Connect
  <2>2. \A s \in Sessions : s[1] = u => phase[s] \notin Current
    BY <1>6 DEF Connect, CurrentSession
  <2>3. PICK k \in Slots : phase' = [phase EXCEPT ![<<u, k>>] = "open"]
    BY <1>6 DEF Connect
  <2>4. <<u, k>> \in Sessions /\ <<u, k>>[1] = u
    BY DEF Sessions
  <2>5. \A s \in Sessions : s # <<u, k>> => phase'[s] = phase[s]
    BY <2>3
  <2> QED
    BY <2>1, <2>2, <2>4, <2>5 DEF SingleInv
<1>7. ASSUME NEW u \in Users, GiveUp(u) PROVE SingleInv'
  <2>1. /\ UNCHANGED <<phase, upto, events>> /\ dead' = dead \cup {u}
        /\ \A s \in Sessions : s[1] = u => phase[s] \notin Current
    BY <1>7 DEF GiveUp, TaskEnds, CurrentSession
  <2> QED
    BY <2>1 DEF SingleInv
<1>8. ASSUME NEW u \in Users, Rebind(u) PROVE SingleInv'
  <2>1. UNCHANGED <<upto, events>> /\ dead' \subseteq dead
    BY <1>8 DEF Rebind
  <2>2. CurrentSession(u) \in SUBSET Sessions /\ Detach(CurrentSession(u))
    BY <1>8 DEF Rebind, CurrentSession
  <2> QED
    BY <1>2, <1>3, <2>1, <2>2
<1>9. ASSUME NEW s \in Sessions, BindAssert(s) \/ Login(s) \/ BeginSetup(s) \/ EndSetup(s)
      PROVE  SingleInv'
  <2>1. UNCHANGED <<upto, events, dead>>
    BY <1>9 DEF BindAssert, Login, BeginSetup, EndSetup
  <2>2. CASE EndSession(s)
    BY <1>2, <1>4, <2>1, <2>2
  <2>3. ASSUME NEW p, phase[s] \in Current, phase' = [phase EXCEPT ![s] = p] PROVE SingleInv'
    BY <1>2, <2>1, <2>3
  <2>4. BindAssert(s) \/ EndSetup(s) => phase[s] \in Current
    BY DEF BindAssert, EndSetup, Current, Phases
  <2>5. Login(s) \/ BeginSetup(s) => phase[s] \in Current
    BY DEF Login, BeginSetup, Current, Phases
  <2>6. EndSession(s) \/ \E p : phase' = [phase EXCEPT ![s] = p]
    BY <1>9 DEF BindAssert, Login, BeginSetup, EndSetup
  <2> QED
    BY <1>9, <2>2, <2>3, <2>4, <2>5, <2>6
<1>10. ASSUME NEW s \in Sessions, TakeHistory(s) \/ Drop(s) \/ TakePush(s) \/ Post(s) \/ Record(s)
       PROVE  SingleInv'
  BY <1>1, <1>10 DEF TakeHistory, Drop, TakePush, Post, Record
<1>11. ASSUME NEW s \in Sessions, LoopEnds(s) \/ Abandon(s) PROVE SingleInv'
  <2>1. UNCHANGED <<upto, events, dead>>
    BY <1>11 DEF LoopEnds, Abandon
  <2>2. EndSession(s) \/ Detach({s})
    BY <1>11 DEF LoopEnds, Abandon
  <2> QED
    BY <1>2, <1>3, <1>4, <2>1, <2>2
<1>12. ASSUME NEW s \in Sessions, MatrixFails(s) PROVE SingleInv'
  <2>1. /\ UNCHANGED <<upto, events>> /\ EndSession(s)
        /\ dead' = IF phase[s] = "history" THEN dead \cup {s[1]} ELSE dead
    BY <1>12 DEF MatrixFails, TaskEnds
  <2>2. \A t \in Sessions : phase'[t] \in Current => phase[t] \in Current /\ t # s
    BY <1>4, <2>1
  <2>3. "history" \in Current
    BY DEF Current, Phases
  <2> QED
    BY <2>1, <2>2, <2>3 DEF SingleInv
<1>13. CASE TakeEvent \/ SendDisconnected \/ RecordReply \/ Cancel \/ AckTxn \/ AckLost
  <2>1. TakeEvent \/ SendDisconnected \/ Cancel \/ AckTxn \/ AckLost
        => UNCHANGED <<phase, dead, upto, events>>
    BY DEF TakeEvent, SendDisconnected, Cancel, AckTxn, AckLost
  <2>2. RecordReply => UNCHANGED <<phase, dead, upto, events>>
    BY DEF RecordReply
  <2> QED
    BY <1>1, <1>13, <2>1, <2>2
<1>14. ASSUME NEW s \in Sessions, SendLine(s) \/ SendRefused(s) PROVE SingleInv'
  BY <1>1, <1>14 DEF SendLine, SendRefused
<1>15. ASSUME NEW s \in Sessions, SendFails(s) PROVE SingleInv'
  <2>1. UNCHANGED <<upto, events, dead>> /\ Detach({s})
    BY <1>15 DEF SendFails
  <2> QED
    BY <1>2, <1>3, <2>1
<1>16. CASE LeftBehind
  <2>1. ASSUME NEW s \in Sessions, SendStale(s) PROVE SingleInv'
    BY <1>1, <2>1 DEF SendStale
  <2>2. ASSUME NEW s \in Sessions, StaleAnswered(s) PROVE SingleInv'
    <3>1. /\ UNCHANGED <<upto, events>> /\ Detach({s}) /\ dead' = dead \cup {s[1]}
          /\ phase[s] \in Current /\ {s} \in SUBSET Sessions
      BY <2>2 DEF StaleAnswered, TaskEnds
    <3>2. \A t \in Sessions : phase'[t] \in Current => phase[t] \in Current /\ t # s
      BY <1>3, <3>1
    <3> QED
      BY <3>1, <3>2 DEF SingleInv
  <2>3. ASSUME NEW s \in Sessions, StaleFails(s) PROVE SingleInv'
    <3>1. UNCHANGED <<upto, events, dead>> /\ Detach({s}) /\ {s} \in SUBSET Sessions
      BY <2>3 DEF StaleFails
    <3> QED
      BY <1>2, <1>3, <3>1
  <2> QED
    BY <1>16, <2>1, <2>2, <2>3 DEF LeftBehind
<1>17. CASE Crash
  <2>1. UNCHANGED <<upto, events>> /\ \A s \in Sessions : phase'[s] = "none"
    BY <1>17 DEF Crash
  <2> QED
    BY <2>1 DEF SingleInv, Current
<1>18. CASE Restart \/ UNCHANGED vars
  BY <1>1, <1>18 DEF Restart
<1> QED
  BY <1>5, <1>6, <1>7, <1>8, <1>9, <1>10, <1>11, <1>12, <1>13, <1>14, <1>15, <1>16, <1>17, <1>18
     DEF Next, ConnectionTask, Copying, Transaction

---------------------------------------------------------------------------
\* The connection of the author.

\* A connection that takes commands goes on to do so while the handler waits for
\* it, unless a fault happens.
LEMMA HealthyStay ==
    ASSUME TypeOK, LockInv, TxnInv, SingleInv, [Next]_vars, line # 0, line' # 0,
           faults' = faults, next' = next, Healthy
    PROVE  Healthy'
<1> USE Typed DEF servers, process, session, sending, bounds, vars
<1>1. PICK r \in Sessions :
        /\ r[1] = Author /\ phase[r] \in Current /\ alive[r] /\ phase[r] \in LoggedIn
        /\ stale[r[1]] = <<>>
  BY DEF Healthy, CurrentSession
<1>2. lock = Handler /\ lock # Free /\ next \in 1..Len(events)
  BY LockAssumption DEF LockInv, TxnInv, SingleInv
<1>3. SUFFICES /\ phase'[r] = phase[r] /\ alive'[r] /\ events'[next] = events[next]
               /\ stale'[r[1]] = <<>>
  BY <1>1, <1>3 DEF Healthy, CurrentSession, Author
<1>4. \A k : ~Fault(k)
  <2>1. \A k \in FaultKinds : Len(Append(faults, k)) = Len(faults) + 1
    OBVIOUS
  <2> QED
    BY <2>1 DEF Fault
<1> DEFINE Stays == /\ phase'[r] = phase[r] /\ alive'[r] /\ events'[next] = events[next]
                    /\ stale'[r[1]] = <<>>
<1>5. ASSUME UNCHANGED <<phase, alive, events, stale>> PROVE Stays
  BY <1>1, <1>5
<1>6. CASE Environment
  <2>1. NativeSend \/ BeginTxn => UNCHANGED <<phase, alive, events, stale>>
    BY DEF NativeSend, BeginTxn
  <2>2. ASSUME NEW u \in Users, Submit(u) PROVE UNCHANGED <<phase, alive, stale>> /\ events'[next] = events[next]
    BY <1>2, <2>2 DEF Submit
  <2> QED
    BY <1>1, <1>5, <1>6, <2>1, <2>2 DEF Environment
<1>7. CASE ConnectionTask
  <2>1. ASSUME NEW u \in Users, Connect(u)
        PROVE  Stays
    <3>1. PICK k \in Slots : /\ phase[<<u, k>>] = "none"
                             /\ phase' = [phase EXCEPT ![<<u, k>>] = "open"]
                             /\ alive' = [alive EXCEPT ![<<u, k>>] = TRUE]
                             /\ events' = events /\ stale' = stale
      BY <2>1 DEF Connect
    <3>2. r # <<u, k>>
      BY <1>1, <3>1 DEF Current
    <3> QED
      BY <1>1, <3>1, <3>2
  <2>2. ASSUME NEW u \in Users, GiveUp(u) \/ Rebind(u) PROVE FALSE
    BY <1>2, <1>4, <2>2 DEF GiveUp, Rebind
  <2>3. ASSUME NEW s \in Sessions,
               BindAssert(s) \/ Login(s) \/ BeginSetup(s) \/ TakeHistory(s) \/ EndSetup(s)
        PROVE  Stays
    <3>1. ~BindAssert(s) /\ ~BeginSetup(s) /\ ~TakeHistory(s) /\ ~EndSetup(s)
      BY <1>2, LockAssumption DEF BindAssert, BeginSetup, TakeHistory, EndSetup
    <3>2. /\ r # s /\ UNCHANGED <<events, stale>>
          /\ EndSession(s) \/ (phase' = [phase EXCEPT ![s] = "ready"] /\ alive' = alive)
      BY <1>1, <2>3, <3>1 DEF Login, LoggedIn
    <3> QED
      BY <1>1, <3>2 DEF EndSession
  <2>4. ASSUME NEW s \in Sessions, LoopEnds(s) \/ Abandon(s)
        PROVE  Stays
    <3>1. r # s /\ UNCHANGED <<events, stale>> /\ (EndSession(s) \/ Detach({s}))
      BY <1>1, <2>4 DEF LoopEnds, Abandon
    <3> QED
      BY <1>1, <3>1 DEF EndSession, Detach
  <2>5. ASSUME NEW s \in Sessions, Drop(s) PROVE FALSE
    BY <1>4, <2>5 DEF Drop
  <2> QED
    BY <1>7, <2>1, <2>2, <2>3, <2>4, <2>5 DEF ConnectionTask
<1>8. CASE Copying
  BY <1>2, <1>4, <1>8, LockAssumption DEF Copying, TakePush, Post, Record, MatrixFails
<1>9. CASE Transaction
  <2>1. ASSUME NEW s \in Sessions, SendLine(s) PROVE UNCHANGED <<phase, alive, events, stale>>
    BY <2>1 DEF SendLine
  <2>2. RecordReply => UNCHANGED <<phase, alive, events, stale>>
    BY DEF RecordReply
  <2>3. ~TakeEvent /\ ~AckLost /\ (AckTxn => UNCHANGED <<phase, alive, events, stale>>)
    BY <1>2, <1>4 DEF TakeEvent, AckTxn, AckLost
  <2>4. ~SendDisconnected /\ ~Cancel /\ \A s \in Sessions : ~SendRefused(s) /\ ~SendFails(s)
    BY DEF SendDisconnected, SendRefused, SendFails, Cancel, Panic
  <2> QED
    BY <1>5, <1>9, <2>1, <2>2, <2>3, <2>4 DEF Transaction
<1>10. CASE Crash \/ Restart \/ UNCHANGED vars
  BY <1>4, <1>5, <1>10 DEF Crash, Restart
\* Commands whose callers are gone are those of other users.
<1>11. ASSUME NEW s \in Sessions, SendStale(s) \/ StaleAnswered(s) \/ StaleFails(s) PROVE Stays
  <2>1. s[1] # r[1] /\ r # s /\ events' = events
    BY <1>1, <1>11 DEF SendStale, StaleAnswered, StaleFails
  <2>2. stale'[r[1]] = <<>>
    BY <1>1, <1>11, <2>1 DEF SendStale, StaleAnswered, StaleFails, TaskEnds, Sessions
  <2>3. UNCHANGED <<phase, alive>> \/ Detach({s})
    BY <1>11 DEF SendStale, StaleAnswered, StaleFails
  <2>4. phase'[r] = phase[r] /\ alive'[r]
    BY <1>1, <2>1, <2>3 DEF Detach
  <2> QED
    BY <2>1, <2>2, <2>4
<1> QED
  BY <1>6, <1>7, <1>8, <1>9, <1>10, <1>11 DEF Next, LeftBehind

---------------------------------------------------------------------------
\* How a step may change what is allowed.

\* A fault may cost one copy more.  Any other step changes only the transaction,
\* and stops it only if the author's connection takes no commands.
LEMMA ResendFrame ==
    ASSUME TypeOK, LockInv, SingleInv, [Next]_vars
    PROVE  \/ UNCHANGED <<txnvars, faults>>
           \/ /\ UNCHANGED <<log, acked, upto>> /\ next' \in {next, acked + 1}
              /\ Len(faults') = Len(faults) + 1
           \/ /\ UNCHANGED faults
              /\ \/ NativeSend \/ BeginTxn \/ TakeEvent \/ RecordReply \/ AckTxn
                 \/ \E s \in Sessions : SendLine(s) \/ SendStale(s)
                 \/ UNCHANGED <<log, acked, upto>> /\ line # 0 /\ Panic /\ ~Healthy
<1> USE Typed DEF servers, process, session, sending, bounds, vars, txnvars
<1>1. \A k : Fault(k) => Len(faults') = Len(faults) + 1
  BY DEF Fault
<1>2. CASE Environment
  <2>1. \A u \in Users : Submit(u) => UNCHANGED <<txnvars, faults>>
    BY DEF Submit
  <2>2. NativeSend \/ BeginTxn => UNCHANGED faults
    BY DEF NativeSend, BeginTxn
  <2> QED
    BY <1>2, <2>1, <2>2 DEF Environment
<1>3. CASE ConnectionTask
  <2>1. ASSUME NEW u \in Users, Connect(u) \/ Rebind(u) PROVE UNCHANGED <<txnvars, faults>>
    BY <2>1 DEF Connect, Rebind
  <2>2. ASSUME NEW u \in Users, GiveUp(u)
        PROVE  UNCHANGED txnvars /\ Len(faults') = Len(faults) + 1
    BY <1>1, <2>2 DEF GiveUp
  <2>3. ASSUME NEW s \in Sessions,
               \/ BindAssert(s) \/ Login(s) \/ BeginSetup(s) \/ TakeHistory(s)
               \/ EndSetup(s) \/ LoopEnds(s) \/ Abandon(s)
        PROVE  UNCHANGED <<txnvars, faults>>
    BY <2>3 DEF BindAssert, Login, BeginSetup, TakeHistory, EndSetup, LoopEnds, Abandon
  <2>4. ASSUME NEW s \in Sessions, Drop(s)
        PROVE  UNCHANGED txnvars /\ Len(faults') = Len(faults) + 1
    BY <1>1, <2>4 DEF Drop
  <2> QED
    BY <1>3, <2>1, <2>2, <2>3, <2>4 DEF ConnectionTask
<1>4. CASE Copying
  <2>1. ASSUME NEW s \in Sessions, TakePush(s) \/ Post(s) \/ Record(s) PROVE UNCHANGED <<txnvars, faults>>
    BY <2>1 DEF TakePush, Post, Record
  <2>2. ASSUME NEW s \in Sessions, MatrixFails(s)
        PROVE  UNCHANGED txnvars /\ Len(faults') = Len(faults) + 1
    BY <1>1, <2>2 DEF MatrixFails
  <2> QED
    BY <1>4, <2>1, <2>2 DEF Copying
<1>5. CASE Transaction
  <2>1. ASSUME NEW s \in Sessions, SendRefused(s)
        PROVE  UNCHANGED <<log, acked, upto, faults>> /\ line # 0 /\ Panic /\ ~Healthy
    <3>1. \A t \in CurrentSession(Author) : t = s
      BY <2>1 DEF SendRefused, CurrentSession, SingleInv
    <3> QED
      BY <2>1, <3>1 DEF SendRefused, Healthy
  <2>2. ASSUME NEW s \in Sessions, SendFails(s)
        PROVE  UNCHANGED <<log, acked, upto, faults>> /\ line # 0 /\ Panic /\ ~Healthy
    <3>1. \A t \in CurrentSession(Author) : t = s
      BY <2>2 DEF SendFails, CurrentSession, SingleInv
    <3> QED
      BY <2>2, <3>1 DEF SendFails, Healthy
  <2>3. ASSUME SendDisconnected
        PROVE  UNCHANGED <<log, acked, upto, faults>> /\ line # 0 /\ Panic /\ ~Healthy
    BY <2>3 DEF SendDisconnected, Healthy, CurrentSession, SingleInv
  <2>4. ASSUME Cancel
        PROVE  UNCHANGED <<log, acked, upto>> /\ next' = acked + 1 /\ Len(faults') = Len(faults) + 1
    BY <1>1, <2>4 DEF Cancel, Panic
  <2>5. AckLost => UNCHANGED <<log, acked, upto>> /\ next' = acked + 1 /\ Len(faults') = Len(faults) + 1
    BY <1>1 DEF AckLost
  <2>6. TakeEvent \/ RecordReply \/ AckTxn => UNCHANGED faults
    BY DEF TakeEvent, RecordReply, AckTxn
  <2>7. \A s \in Sessions : SendLine(s) => UNCHANGED faults
    BY DEF SendLine
  <2> QED
    BY <1>5, <2>1, <2>2, <2>3, <2>4, <2>5, <2>6, <2>7 DEF Transaction
<1>6. CASE Crash
  <2>1. UNCHANGED <<log, acked, upto>> /\ next' = acked + 1 /\ Len(faults') = Len(faults) + 1
    BY <1>1, <1>6 DEF Crash, Panic
  <2> QED
    BY <2>1
<1>7. CASE Restart \/ UNCHANGED vars
  BY <1>7 DEF Restart
<1>8. ASSUME NEW s \in Sessions, SendStale(s) \/ StaleAnswered(s) \/ StaleFails(s)
      PROVE  UNCHANGED faults /\ (SendStale(s) \/ UNCHANGED txnvars)
  BY <1>8 DEF SendStale, StaleAnswered, StaleFails
<1> QED
  BY <1>2, <1>3, <1>4, <1>5, <1>6, <1>7, <1>8 DEF Next, LeftBehind

\* The copies of a line are finitely many; a new message is one more, or none.
LEMMA CopiesFacts ==
    ASSUME TypeOK, NEW e, NEW l
    PROVE  /\ IsFiniteSet(Copies(e, l)) /\ Cardinality(Copies(e, l)) \in Nat
           /\ log' = log => Copies(e, l)' = Copies(e, l)
           /\ \A origin, S : Store(origin, S) =>
                IF origin = <<e, l>>
                THEN Cardinality(Copies(e, l)') = Cardinality(Copies(e, l)) + 1
                ELSE Copies(e, l)' = Copies(e, l)
<1>1. Len(log) \in Nat
  BY Typed
<1>2. IsFiniteSet(Copies(e, l)) /\ Cardinality(Copies(e, l)) \in Nat
  <2>1. IsFiniteSet(Ids)
    BY <1>1, FS_Interval DEF Ids
  <2>2. Copies(e, l) \in SUBSET Ids
    BY DEF Copies
  <2>3. IsFiniteSet(Copies(e, l))
    BY <2>1, <2>2, FS_Subset
  <2> QED
    BY <2>3, FS_CardinalityType
<1>3. log' = log => Copies(e, l)' = Copies(e, l)
  BY DEF Copies, Ids
<1>4. ASSUME NEW origin, NEW S, Store(origin, S)
      PROVE  IF origin = <<e, l>>
             THEN Cardinality(Copies(e, l)') = Cardinality(Copies(e, l)) + 1
             ELSE Copies(e, l)' = Copies(e, l)
  <2>1. /\ \A i \in Ids : log'[i] = log[i]
        /\ Ids' = Ids \cup {Len(log) + 1} /\ Len(log) + 1 \notin Ids
        /\ log'[Len(log) + 1] = origin
    BY <1>4, SentStep
  <2>2. Copies(e, l)' = IF origin = <<e, l>> THEN Copies(e, l) \cup {Len(log) + 1} ELSE Copies(e, l)
    BY <2>1 DEF Copies
  <2>3. Len(log) + 1 \notin Copies(e, l)
    BY <2>1 DEF Copies
  <2>4. Cardinality(Copies(e, l) \cup {Len(log) + 1}) = Cardinality(Copies(e, l)) + 1
    BY <1>2, <2>3, FS_AddElement
  <2> QED
    BY <2>2, <2>4
<1> QED
  BY <1>2, <1>3, <1>4

LEMMA CopiesNat ==
    ASSUME TypeOK, LockInv, [Next]_vars, NEW e, NEW l
    PROVE  Cardinality(Copies(e, l)) \in Nat /\ Cardinality(Copies(e, l)') \in Nat
<1>1. Len(log) \in Nat /\ Len(log') \in Nat
  <2>1. TypeOK'
    BY TypeStep
  <2> QED
    BY <2>1 DEF TypeOK, ServerType
<1>2. IsFiniteSet(Ids) /\ IsFiniteSet(Ids')
  BY <1>1, FS_Interval DEF Ids
<1>3. Copies(e, l) \in SUBSET Ids /\ Copies(e, l)' \in SUBSET Ids'
  BY DEF Copies
<1> QED
  BY <1>2, <1>3, FS_Subset, FS_CardinalityType

\* A step adds no line to the channels but the one of a handler that is dropped.
LEMMA LeftStep ==
    ASSUME TypeOK, [Next]_vars, NEW e \in Nat, NEW l \in Nat, <<e, l>> # Native,
           IsFiniteSet(Left(e, l))
    PROVE  /\ IsFiniteSet(Left(e, l)')
           /\ \/ Cardinality(Left(e, l)') <= Cardinality(Left(e, l))
              \/ /\ Cardinality(Left(e, l)') = Cardinality(Left(e, l)) + 1
                 /\ Cancel /\ await = 0 /\ e = next /\ l = line
<1>0. stale \in [Users -> Seq(Nat \X Nat)]
  BY Typed
<1>1. CASE \A u \in Users : Moves(u, 0) \/ Moves(u, 1)
  <2> DEFINE d == [u \in Users |-> IF Moves(u, 0) THEN 0 ELSE 1]
             f == [p \in Left(e, l)' |-> <<p[1], p[2] + d[p[1]]>>]
  <2>1. d \in [Users -> {0, 1}] /\ \A u \in Users : Moves(u, d[u])
    BY <1>1
  <2> HIDE DEF d
  <2>2. ASSUME NEW p \in Left(e, l)' PROVE f[p] \in Left(e, l)
    <3>1. /\ p = <<p[1], p[2]>> /\ p[1] \in Users /\ p[2] \in Nat
          /\ p[2] \in DOMAIN stale'[p[1]] /\ stale'[p[1]][p[2]] = <<e, l>>
      BY DEF Left
    <3>2. /\ p[2] + d[p[1]] \in DOMAIN stale[p[1]]
          /\ stale[p[1]][p[2] + d[p[1]]] = <<e, l>>
      BY <2>1, <3>1 DEF Moves
    <3>3. p[2] + d[p[1]] \in Nat /\ f[p] = <<p[1], p[2] + d[p[1]]>>
      BY <2>1, <3>1
    <3> HIDE DEF f
    <3> QED
      BY <3>1, <3>2, <3>3 DEF Left
  <2>3. ASSUME NEW p \in Left(e, l)', NEW q \in Left(e, l)', f[p] = f[q] PROVE p = q
    <3>1. /\ p = <<p[1], p[2]>> /\ p[1] \in Users /\ p[2] \in Nat
          /\ q = <<q[1], q[2]>> /\ q[1] \in Users /\ q[2] \in Nat
      BY DEF Left
    <3>2. p[1] = q[1] /\ p[2] + d[p[1]] = q[2] + d[q[1]]
      BY <2>3
    <3>3. d[p[1]] \in {0, 1}
      BY <2>1, <3>1
    <3>4. p[2] = q[2]
      BY <3>1, <3>2, <3>3
    <3> QED
      BY <3>1, <3>2, <3>4
  <2>4. f \in [Left(e, l)' -> Left(e, l)] /\ DOMAIN f = Left(e, l)'
    BY <2>2
  <2>5. f \in Injection(Left(e, l)', Left(e, l))
    <3> HIDE DEF f
    <3> QED
      BY <2>3, <2>4 DEF Injection, IsInjective
  <2> QED
    BY <2>5, FS_Injection
<1>2. CASE Cancel /\ await = 0 /\ Author \in Users /\ Leave(Author, <<next, line>>)
  <2> DEFINE n == Len(stale[Author]) + 1
  <2>1. /\ stale[Author] \in Seq(Nat \X Nat) /\ Len(stale[Author]) \in Nat
        /\ DOMAIN stale[Author] = 1..Len(stale[Author])
    BY <1>0, <1>2
  <2>2. /\ stale'[Author] = Append(stale[Author], <<next, line>>)
        /\ \A u \in Users : u # Author => stale'[u] = stale[u]
    BY <1>0, <1>2 DEF Leave
  <2>3. /\ DOMAIN stale'[Author] = DOMAIN stale[Author] \cup {n} /\ n \notin DOMAIN stale[Author]
        /\ stale'[Author][n] = <<next, line>> /\ n \in Nat
        /\ \A k \in DOMAIN stale[Author] : stale'[Author][k] = stale[Author][k]
    <3>1. <<next, line>> \in Nat \X Nat
      BY Typed
    <3>2. ASSUME NEW q \in Seq(Nat \X Nat), NEW c \in Nat \X Nat
          PROVE  /\ DOMAIN Append(q, c) = DOMAIN q \cup {Len(q) + 1} /\ Append(q, c)[Len(q) + 1] = c
                 /\ \A k \in DOMAIN q : Append(q, c)[k] = q[k]
      BY <3>2
    <3>3. n \notin DOMAIN stale[Author] /\ n \in Nat
      BY <2>1
    <3> QED
      BY <2>1, <2>2, <3>1, <3>2, <3>3
  <2> HIDE DEF n
  <2>4. Left(e, l)' = IF e = next /\ l = line THEN Left(e, l) \cup {<<Author, n>>} ELSE Left(e, l)
    <3>1. ASSUME NEW w \in Users, NEW k \in Nat
          PROVE  (k \in DOMAIN stale'[w] /\ stale'[w][k] = <<e, l>>)
                  <=> \/ k \in DOMAIN stale[w] /\ stale[w][k] = <<e, l>>
                      \/ w = Author /\ k = n /\ e = next /\ l = line
      <4>1. CASE w # Author
        BY <2>2, <4>1
      <4>2. CASE w = Author /\ k = n
        BY <2>3, <4>2
      <4>3. CASE w = Author /\ k # n
        BY <2>3, <4>3
      <4> QED
        BY <4>1, <4>2, <4>3
    <3>2. /\ Left(e, l)' \subseteq Users \X Nat /\ Left(e, l) \subseteq Users \X Nat
          /\ \A p \in Users \X Nat :
              /\ p \in Left(e, l)' <=> p[2] \in DOMAIN stale'[p[1]] /\ stale'[p[1]][p[2]] = <<e, l>>
              /\ p \in Left(e, l) <=> p[2] \in DOMAIN stale[p[1]] /\ stale[p[1]][p[2]] = <<e, l>>
      BY DEF Left
    <3>3. ASSUME NEW p \in Users \X Nat
          PROVE  p \in Left(e, l)' <=> p \in Left(e, l) \/ (p = <<Author, n>> /\ e = next /\ l = line)
      <4>1. p[1] \in Users /\ p[2] \in Nat /\ (p = <<Author, n>> <=> p[1] = Author /\ p[2] = n)
        OBVIOUS
      <4> QED
        BY <3>1, <3>2, <4>1
    <3>4. <<Author, n>> \in Users \X Nat
      BY <1>2, <2>3
    <3> QED
      BY <3>2, <3>3, <3>4
  <2>5. <<Author, n>> \notin Left(e, l)
    BY <2>3 DEF Left
  <2>6. /\ IsFiniteSet(Left(e, l) \cup {<<Author, n>>})
        /\ Cardinality(Left(e, l) \cup {<<Author, n>>}) = Cardinality(Left(e, l)) + 1
    BY <2>5, FS_AddElement
  <2>7. Cardinality(Left(e, l)) \in Nat
    BY FS_CardinalityType
  <2> QED
    BY <1>2, <2>4, <2>6, <2>7
<1> QED
  BY <1>1, <1>2, ChannelFrame

\* A line that is sent from a channel is no longer in it.
LEMMA SendStaleStep ==
    ASSUME TypeOK, NEW s \in Sessions, SendStale(s), NEW e \in Nat, NEW l \in Nat,
           <<e, l>> # Native, IsFiniteSet(Left(e, l))
    PROVE  Cardinality(Copies(e, l)') + Cardinality(Left(e, l)')
                = Cardinality(Copies(e, l)) + Cardinality(Left(e, l))
<1> DEFINE u == s[1]
<1>1. stale \in [Users -> Seq(Nat \X Nat)] /\ u \in Users
  BY Typed DEF Sessions
<1>2. stale' = [stale EXCEPT ![u] = <<Native>> \o Tail(@)] /\ stale[u] # <<>>
  BY DEF SendStale
<1>3. stale[u] \in Seq(Nat \X Nat)
  BY <1>1
<1>4. /\ stale'[u] = <<Native>> \o Tail(stale[u])
      /\ \A w \in Users : w # u => stale'[w] = stale[w]
  BY <1>1, <1>2
<1>5. /\ DOMAIN stale'[u] = DOMAIN stale[u] /\ 1 \in DOMAIN stale[u]
      /\ stale'[u][1] = Native /\ Head(stale[u]) = stale[u][1]
      /\ \A k \in DOMAIN stale[u] : k # 1 => stale'[u][k] = stale[u][k]
  <2> DEFINE q == stale[u]
  <2>1. q \in Seq(Nat \X Nat) /\ q # <<>> /\ stale'[u] = <<Native>> \o Tail(q)
    BY <1>2, <1>3, <1>4
  <2> HIDE DEF q
  <2>2. /\ DOMAIN stale'[u] = DOMAIN q /\ 1 \in DOMAIN q
        /\ stale'[u][1] = Native /\ Head(q) = q[1]
        /\ \A k \in DOMAIN q : k # 1 => stale'[u][k] = q[k]
    BY <2>1, HeadFacts
  <2> QED
    BY <2>2 DEF q
<1>6. Left(e, l)' = Left(e, l) \ {<<u, 1>>}
  <2>1. ASSUME NEW w \in Users, NEW k \in Nat
        PROVE  (k \in DOMAIN stale'[w] /\ stale'[w][k] = <<e, l>>)
                <=> (k \in DOMAIN stale[w] /\ stale[w][k] = <<e, l>> /\ ~(w = u /\ k = 1))
    <3>1. CASE w # u
      BY <1>4, <3>1
    <3>2. CASE w = u /\ k = 1
      BY <1>5, <3>2
    <3>3. CASE w = u /\ k # 1
      BY <1>5, <3>3
    <3> QED
      BY <3>1, <3>2, <3>3
  <2>2. /\ Left(e, l)' \subseteq Users \X Nat /\ Left(e, l) \subseteq Users \X Nat
        /\ \A p \in Users \X Nat :
            /\ p \in Left(e, l)' <=> p[2] \in DOMAIN stale'[p[1]] /\ stale'[p[1]][p[2]] = <<e, l>>
            /\ p \in Left(e, l) <=> p[2] \in DOMAIN stale[p[1]] /\ stale[p[1]][p[2]] = <<e, l>>
    BY DEF Left
  <2>3. ASSUME NEW p \in Users \X Nat
        PROVE  p \in Left(e, l)' <=> p \in Left(e, l) /\ p # <<u, 1>>
    <3>1. p[1] \in Users /\ p[2] \in Nat /\ (p = <<u, 1>> <=> p[1] = u /\ p[2] = 1)
      OBVIOUS
    <3> QED
      BY <2>1, <2>2, <3>1
  <2> QED
    BY <2>2, <2>3
<1>7. <<u, 1>> \in Left(e, l) <=> Head(stale[u]) = <<e, l>>
  BY <1>1, <1>5 DEF Left
<1>8. /\ Cardinality(Left(e, l)) \in Nat
      /\ Cardinality(Left(e, l)') = IF Head(stale[u]) = <<e, l>> THEN Cardinality(Left(e, l)) - 1
                                    ELSE Cardinality(Left(e, l))
  <2>1. Cardinality(Left(e, l)) \in Nat
    BY FS_CardinalityType
  <2>2. Cardinality(Left(e, l) \ {<<u, 1>>}) = IF <<u, 1>> \in Left(e, l) THEN Cardinality(Left(e, l)) - 1
                                                ELSE Cardinality(Left(e, l))
    BY FS_RemoveElement
  <2> QED
    BY <1>6, <1>7, <2>1, <2>2
<1>9. PICK S : Store(Head(stale[u]), S)
  BY DEF SendStale
<1>10. /\ Cardinality(Copies(e, l)) \in Nat
       /\ Cardinality(Copies(e, l)') = IF Head(stale[u]) = <<e, l>> THEN Cardinality(Copies(e, l)) + 1
                                       ELSE Cardinality(Copies(e, l))
  BY <1>9, CopiesFacts
<1> QED
  BY <1>8, <1>10

---------------------------------------------------------------------------
\* The bound.

LEMMA SpareFacts ==
    ASSUME NEW e, NEW l
    PROVE  /\ Spare(e, l) \in {0, 1} /\ Spare(e, l)' \in {0, 1}
           /\ (Counted(e, l) => Counted(e, l)') => Spare(e, l) <= Spare(e, l)'
           /\ ~Counted(e, l) /\ Counted(e, l)' => Spare(e, l)' = 1 /\ Spare(e, l) = 0
<1>1. CASE Counted(e, l)
  BY <1>1 DEF Spare
<1>2. CASE ~Counted(e, l)
  BY <1>2 DEF Spare
<1> QED
  BY <1>1, <1>2

LEMMA SumFacts ==
    ASSUME NEW a \in Nat, NEW b \in {0, 1}, NEW c \in Nat, NEW d \in {0, 1}, a <= c,
           a < c \/ b <= d
    PROVE  a + b \in Nat /\ c + d \in Nat /\ a + b <= c + d
  OBVIOUS

LEMMA PlusFacts ==
    ASSUME NEW a \in Nat, NEW b \in Nat, NEW c \in Nat, c <= b
    PROVE  a + c <= a + b /\ (a + 1) + c <= (a + b) + 1
  OBVIOUS

LEMMA ResendStep ==
    ASSUME MaxTxn = 1, TypeOK, LockInv, TxnInv, SingleInv, ResendInv, [Next]_vars
    PROVE  ResendInv'
<1> USE Typed DEF servers, process, session, sending, bounds, vars
<1> DEFINE Num(e, l) == Cardinality(Copies(e, l)) + Cardinality(Left(e, l))
           Most(e, l) == Len(faults) + Spare(e, l)
           OneDelivery == acked <= upto /\ upto <= acked + 1 /\ next <= upto + 1
<1>1. ASSUME NEW e \in Nat, NEW l \in Nat, <<e, l>> # Native
      PROVE  /\ Num(e, l) \in Nat /\ Num(e, l)' \in Nat /\ IsFiniteSet(Left(e, l)')
             /\ log' = log => \/ Num(e, l)' <= Num(e, l)
                              \/ Num(e, l)' = Num(e, l) + 1 /\ Spare(e, l) = 0 /\ faults' # faults
             /\ faults' = faults => Cardinality(Left(e, l)') <= Cardinality(Left(e, l))
             /\ Cardinality(Copies(e, l)) \in Nat /\ Cardinality(Copies(e, l)') \in Nat
             /\ Cardinality(Left(e, l)) \in Nat /\ Cardinality(Left(e, l)') \in Nat
  <2>1. IsFiniteSet(Left(e, l))
    BY <1>1 DEF ResendInv
  <2>2. IsFiniteSet(Left(e, l)') /\ Cardinality(Left(e, l)) \in Nat /\ Cardinality(Left(e, l)') \in Nat
    BY <1>1, <2>1, LeftStep, FS_CardinalityType
  <2>3. /\ Cardinality(Copies(e, l)) \in Nat /\ Cardinality(Copies(e, l)') \in Nat
        /\ log' = log => Copies(e, l)' = Copies(e, l)
    BY CopiesNat, CopiesFacts
  <2>4. Cancel => faults' # faults
    <3>1. \A kind : Fault(kind) => Len(faults') = Len(faults) + 1
      BY DEF Fault
    <3> QED
      BY <3>1 DEF Cancel
  <2>5. Cancel /\ await = 0 /\ e = next /\ l = line => Spare(e, l) = 0
    BY DEF Spare, Counted, Begun
  <2>6. \/ Cardinality(Left(e, l)') <= Cardinality(Left(e, l))
        \/ /\ Cardinality(Left(e, l)') = Cardinality(Left(e, l)) + 1
           /\ Spare(e, l) = 0 /\ faults' # faults
    BY <1>1, <2>1, <2>4, <2>5, LeftStep
  <2>7. ASSUME NEW a \in Nat, NEW b \in Nat, NEW c \in Nat, NEW d \in Nat
        PROVE  /\ a + b \in Nat /\ c + d \in Nat
               /\ c = a /\ d <= b => c + d <= a + b
               /\ c = a /\ d = b + 1 => c + d = (a + b) + 1
    BY <2>7
  <2>8. Num(e, l) \in Nat /\ Num(e, l)' \in Nat
    BY <2>2, <2>3, <2>7
  <2>9. ASSUME log' = log
        PROVE  \/ Num(e, l)' <= Num(e, l)
               \/ Num(e, l)' = Num(e, l) + 1 /\ Spare(e, l) = 0 /\ faults' # faults
    <3>1. Cardinality(Copies(e, l)') = Cardinality(Copies(e, l))
      BY <2>3, <2>9
    <3> QED
      BY <2>2, <2>3, <2>6, <2>7, <3>1
  <2> HIDE DEF Num
  <2> QED
    BY <2>2, <2>3, <2>6, <2>8, <2>9
<1>2. \A e, l \in Nat : <<e, l>> # Native => Num(e, l) <= Len(faults) + Spare(e, l)
  BY DEF ResendInv
<1>3. OneDelivery /\ acked < next /\ (line # 0 => next <= upto /\ next = acked + 1)
  BY DEF ResendInv, TxnInv
\* Steps that send no line of an event.
<1>4. ASSUME OneDelivery', faults' = faults,
             \A e, l \in Nat : <<e, l>> # Native => Num(e, l)' <= Num(e, l) /\ (Counted(e, l) => Counted(e, l)')
      PROVE  ResendInv'
  <2> SUFFICES ASSUME NEW e \in Nat, NEW l \in Nat, <<e, l>> # Native
               PROVE  Num(e, l)' <= Most(e, l)'
    BY <1>1, <1>4 DEF ResendInv
  <2>1. Num(e, l)' <= Num(e, l) /\ (Counted(e, l) => Counted(e, l)') /\ Num(e, l) <= Most(e, l)
    BY <1>2, <1>4
  <2>2. /\ Most(e, l) <= Most(e, l)' /\ Most(e, l) \in Nat /\ Most(e, l)' \in Nat
        /\ Num(e, l) \in Nat /\ Num(e, l)' \in Nat
    <3>1. Spare(e, l) \in {0, 1} /\ Spare(e, l)' \in {0, 1} /\ Spare(e, l) <= Spare(e, l)'
      BY <2>1, SpareFacts
    <3>2. Len(faults') \in Nat /\ Len(faults) <= Len(faults')
      BY <1>4
    <3> QED
      BY <1>1, <3>1, <3>2, SumFacts
  <2> HIDE DEF Num, Most
  <2> QED
    BY <2>1, <2>2
<1>5. ASSUME line' # 0, line # 0, faults' = faults, next' = next PROVE Healthy => Healthy'
  BY <1>5, HealthyStay
\* The transaction stays where it is.
<1>6. ASSUME UNCHANGED <<next, line, await, faults>> PROVE \A e, l : Counted(e, l) => Counted(e, l)'
  BY <1>5, <1>6 DEF Counted, Begun
<1>7. CASE UNCHANGED <<txnvars, faults>>
  <2>1. OneDelivery' /\ log' = log
    BY <1>3, <1>7 DEF txnvars
  <2>2. \A e, l : Counted(e, l) => Counted(e, l)'
    BY <1>6, <1>7 DEF txnvars
  <2> QED
    BY <1>1, <1>4, <1>7, <2>1, <2>2
<1>8. ASSUME UNCHANGED <<log, acked, upto>>, next' \in {next, acked + 1},
             Len(faults') = Len(faults) + 1
      PROVE  ResendInv'
  <2>1. OneDelivery'
    BY <1>3, <1>8
  <2> SUFFICES ASSUME NEW e \in Nat, NEW l \in Nat, <<e, l>> # Native
               PROVE  Num(e, l)' <= Most(e, l)'
    BY <1>1, <2>1 DEF ResendInv
  <2>2. /\ Num(e, l) <= Len(faults) + Spare(e, l) /\ Num(e, l) \in Nat /\ Num(e, l)' \in Nat
        /\ Num(e, l)' <= Num(e, l) \/ (Num(e, l)' = Num(e, l) + 1 /\ Spare(e, l) = 0)
    <3>1. Num(e, l) <= Len(faults) + Spare(e, l)
      BY <1>2
    <3>2. log' = log
      BY <1>8
    <3>3. Num(e, l) \in Nat /\ Num(e, l)' \in Nat
      BY <1>1
    <3>4. log' = log => \/ Num(e, l)' <= Num(e, l)
                        \/ Num(e, l)' = Num(e, l) + 1 /\ Spare(e, l) = 0 /\ faults' # faults
      BY <1>1
    <3> QED
      BY <3>1, <3>2, <3>3, <3>4
  <2>3. Spare(e, l) \in {0, 1} /\ Spare(e, l)' \in {0, 1} /\ Len(faults) \in Nat
    BY SpareFacts
  <2>4. Len(faults') = Len(faults) + 1 /\ Most(e, l)' = Len(faults') + Spare(e, l)'
    BY <1>8
  <2>5. ASSUME NEW a \in Nat, NEW b \in Nat, NEW c \in Nat, NEW d \in {0, 1}, NEW g \in {0, 1},
               a <= c + d, b <= a \/ (b = a + 1 /\ d = 0)
        PROVE  b <= (c + 1) + g
    BY <2>5
  <2> QED
    BY <2>2, <2>3, <2>4, <2>5
<1>9. ASSUME NativeSend, faults' = faults PROVE ResendInv'
  <2>1. UNCHANGED <<acked, upto, next, line, await>>
    BY <1>9 DEF NativeSend
  <2>2. PICK S : Store(Native, S)
    BY <1>9 DEF NativeSend
  <2>3. ASSUME NEW e \in Nat, NEW l \in Nat, <<e, l>> # Native PROVE Num(e, l)' <= Num(e, l)
    <3>1. Copies(e, l)' = Copies(e, l)
      BY <2>2, <2>3, CopiesFacts
    <3>2. /\ Cardinality(Left(e, l)') <= Cardinality(Left(e, l)) /\ Cardinality(Copies(e, l)) \in Nat
          /\ Cardinality(Left(e, l)) \in Nat /\ Cardinality(Left(e, l)') \in Nat
      BY <1>1, <1>9, <2>3
    <3>3. Cardinality(Copies(e, l)') = Cardinality(Copies(e, l))
      BY <3>1
    <3> QED
      BY <3>2, <3>3, PlusFacts
  <2>4. \A e, l : Counted(e, l) => Counted(e, l)'
    BY <1>6, <1>9, <2>1
  <2> QED
    BY <1>3, <1>4, <1>9, <2>1, <2>3, <2>4
<1>10. ASSUME BeginTxn, faults' = faults PROVE ResendInv'
  <2>1. UNCHANGED <<log, acked, next, line, await>> /\ upto = acked /\ upto' = acked + 1
    BY <1>10 DEF BeginTxn
  <2>2. \A e, l : Counted(e, l) => Counted(e, l)'
    BY <1>6, <1>10, <2>1
  <2> QED
    BY <1>1, <1>3, <1>4, <1>10, <2>1, <2>2
<1>11. ASSUME TakeEvent, faults' = faults PROVE ResendInv'
  <2>1. UNCHANGED <<log, acked, upto, next, await>> /\ line = 0
    BY <1>11, LockAssumption DEF TakeEvent, LockInv
  <2>2. \A e, l : Counted(e, l) => Counted(e, l)'
    BY <2>1 DEF Counted, Begun
  <2> QED
    BY <1>1, <1>3, <1>4, <1>11, <2>1, <2>2
<1>12. ASSUME RecordReply, faults' = faults PROVE ResendInv'
  <2>1. /\ UNCHANGED <<log, acked, upto>> /\ line # 0 /\ await # 0 /\ await' = 0
        /\ \/ line' = line + 1 /\ next' = next
           \/ line' = 0 /\ next' = next + 1
    BY <1>12 DEF RecordReply, FinishEvent, LockInv
  <2>2. CASE line' = line + 1 /\ next' = next
    <3>1. \A l \in Nat : Begun(l) => Begun(l)'
      BY <2>1, <2>2 DEF Begun
    <3>2. Healthy => Healthy'
      BY <1>5, <1>12, <2>1, <2>2
    <3>3. \A e, l \in Nat : Counted(e, l) => Counted(e, l)'
      BY <2>2, <3>1, <3>2 DEF Counted
    <3> QED
      BY <1>1, <1>3, <1>4, <1>12, <2>1, <2>2, <3>3
  <2>3. CASE line' = 0 /\ next' = next + 1
    <3>1. \A e, l \in Nat : Counted(e, l) => Counted(e, l)'
      BY <2>3 DEF Counted
    <3> QED
      BY <1>1, <1>3, <1>4, <1>12, <2>1, <2>3, <3>1
  <2> QED
    BY <2>1, <2>2, <2>3
<1>13. ASSUME AckTxn, faults' = faults PROVE ResendInv'
  <2>1. UNCHANGED <<log, upto, next, line, await>> /\ acked' = upto
    BY <1>13 DEF AckTxn
  <2>2. \A e, l : Counted(e, l) => Counted(e, l)'
    BY <1>6, <1>13, <2>1
  <2> QED
    BY <1>1, <1>3, <1>4, <1>13, <2>1, <2>2
\* The first line that is sent after a fault, or after none, becomes due.
<1>14. ASSUME NEW s \in Sessions, SendLine(s), faults' = faults PROVE ResendInv'
  <2>1. /\ UNCHANGED <<events, acked, upto, next, line, phase, alive, stale>> /\ line # 0 /\ await = 0
        /\ stale[Author] = <<>>
        /\ await' = Len(log) + 1
        /\ s \in CurrentSession(Author) /\ alive[s] /\ phase[s] \in LoggedIn
    BY <1>14 DEF SendLine
  <2>2. PICK S : Store(<<next, line>>, S)
    BY <1>14 DEF SendLine
  <2>3. Healthy /\ Healthy'
    BY <2>1 DEF Healthy, CurrentSession, Author
  <2>4. ASSUME NEW e, NEW l, e = next, l = line PROVE Counted(e, l)' /\ ~Counted(e, l)
    <3>1. Begun(l)' /\ ~Begun(l)
      BY <2>1, <2>4 DEF Begun
    <3>2. e = next' /\ ~(e < next)
      BY <2>1, <2>4
    <3> QED
      BY <2>3, <2>4, <3>1, <3>2 DEF Counted
  <2>5. \A e, l \in Nat : Counted(e, l) => Counted(e, l)'
    BY <2>1, <2>3 DEF Counted, Begun
  <2>6. ASSUME NEW e \in Nat, NEW l \in Nat, <<e, l>> # Native
        PROVE  IF e = next /\ l = line THEN Num(e, l)' <= Num(e, l) + 1 ELSE Num(e, l)' <= Num(e, l)
    <3>1. IF e = next /\ l = line THEN Cardinality(Copies(e, l)') = Cardinality(Copies(e, l)) + 1
          ELSE Cardinality(Copies(e, l)') = Cardinality(Copies(e, l))
      BY <2>2, CopiesFacts
    <3>2. /\ Cardinality(Left(e, l)') <= Cardinality(Left(e, l)) /\ Cardinality(Copies(e, l)) \in Nat
          /\ Cardinality(Left(e, l)) \in Nat /\ Cardinality(Left(e, l)') \in Nat
      BY <1>1, <1>14, <2>6
    <3> QED
      BY <3>1, <3>2, PlusFacts
  <2>7. OneDelivery'
    BY <1>3, <2>1
  <2> SUFFICES ASSUME NEW e \in Nat, NEW l \in Nat, <<e, l>> # Native
               PROVE  Num(e, l)' <= Most(e, l)'
    BY <1>1, <2>7 DEF ResendInv
  <2>8. /\ Num(e, l) <= Most(e, l) /\ Num(e, l) \in Nat /\ Num(e, l)' \in Nat
        /\ IF e = next /\ l = line THEN Num(e, l)' <= Num(e, l) + 1 ELSE Num(e, l)' <= Num(e, l)
    BY <1>1, <1>2, <2>6
  <2>9. /\ Most(e, l) <= Most(e, l)' /\ Most(e, l) \in Nat /\ Most(e, l)' \in Nat
        /\ e = next /\ l = line => Most(e, l)' = Most(e, l) + 1
    <3>1. Spare(e, l) \in {0, 1} /\ Spare(e, l)' \in {0, 1} /\ Spare(e, l) <= Spare(e, l)'
      BY <2>5, SpareFacts
    <3>2. e = next /\ l = line => Spare(e, l)' = 1 /\ Spare(e, l) = 0
      BY <2>4, SpareFacts
    <3>3. Len(faults') \in Nat /\ Len(faults) <= Len(faults') /\ Len(faults') = Len(faults)
      BY <1>14
    <3>4. Most(e, l) <= Most(e, l)' /\ Most(e, l) \in Nat /\ Most(e, l)' \in Nat
      BY <3>1, <3>3, SumFacts
    <3>5. e = next /\ l = line => Most(e, l)' = Most(e, l) + 1
      BY <3>2, <3>3
    <3> QED
      BY <3>4, <3>5
  <2> HIDE DEF Num, Most
  <2> QED
    BY <2>8, <2>9
<1>15. ASSUME UNCHANGED <<log, acked, upto>>, line # 0, Panic, ~Healthy, faults' = faults
       PROVE  ResendInv'
  <2>1. next' = next /\ \A e, l : Counted(e, l) => Counted(e, l)'
    BY <1>3, <1>15 DEF Panic, Counted
  <2> QED
    BY <1>1, <1>3, <1>4, <1>15, <2>1
\* A line that is sent from a channel has been counted.
<1>16. ASSUME NEW s \in Sessions, SendStale(s), faults' = faults PROVE ResendInv'
  <2>1. UNCHANGED <<acked, upto, next, line, await>>
    BY <1>16 DEF SendStale
  <2>2. ASSUME NEW e \in Nat, NEW l \in Nat, <<e, l>> # Native PROVE Num(e, l)' <= Num(e, l)
    <3>1. IsFiniteSet(Left(e, l))
      BY <2>2 DEF ResendInv
    <3>2. Num(e, l)' = Num(e, l)
      BY <1>16, <2>2, <3>1, SendStaleStep
    <3> HIDE DEF Num
    <3> QED
      BY <1>1, <2>2, <3>2
  <2>3. \A e, l : Counted(e, l) => Counted(e, l)'
    BY <1>6, <1>16, <2>1
  <2> QED
    BY <1>3, <1>4, <1>16, <2>1, <2>2, <2>3
<1> QED
  BY <1>7, <1>8, <1>9, <1>10, <1>11, <1>12, <1>13, <1>14, <1>15, <1>16, ResendFrame

\* handle_message_event: the handler's panics alone make no line go out twice.
THEOREM ResendsCorrect == Spec => []ResendsBounded
<1>1. Init => SingleInv /\ TxnInv /\ OnceInv
  <2> SUFFICES ASSUME Init PROVE SingleInv /\ TxnInv /\ OnceInv
    OBVIOUS
  <2>1. SingleInv /\ TxnInv
    BY DEF Init, SingleInv, Current, TxnInv, Sent, Ids
  <2>2. \A e, l : Copies(e, l) = {} /\ Left(e, l) = {}
    BY DEF Init, Copies, Left, Ids
  <2>3. \A e, l : /\ Cardinality(Copies(e, l)) = 0 /\ Len(faults) = 0
                  /\ IsFiniteSet(Left(e, l)) /\ Cardinality(Left(e, l)) = 0
    BY <2>2, FS_EmptySet DEF Init
  <2> QED
    BY <2>1, <2>3 DEF Init, ResendInv, OnceInv, Spare
<1>2. TypeOK /\ Inv /\ SingleInv /\ TxnInv /\ [Next]_vars => SingleInv' /\ TxnInv'
  BY SingleStep, TxnStep DEF Inv
<1>3. TypeOK /\ Inv /\ SingleInv /\ TxnInv /\ OnceInv /\ [Next]_vars => OnceInv'
  BY ResendStep DEF Inv, OnceInv
<1>4. TypeOK /\ OnceInv => ResendsBounded
  <2> SUFFICES ASSUME TypeOK, MaxTxn = 1, ResendInv, NEW i \in Ids, FromMatrix(i)
               PROVE  Cardinality({j \in Ids : log[j] = log[i]}) <= 1 + Len(faults)
    BY DEF ResendsBounded, OnceInv
  <2>1. log[i] \in Nat \X Nat
    BY Typed DEF Ids
  <2>2. PICK e \in Nat, l \in Nat : log[i] = <<e, l>>
    BY <2>1
  <2>5. Spare(e, l) \in {0, 1}
    BY SpareFacts
  <2>3. /\ Cardinality(Copies(e, l)) <= Len(faults) + Spare(e, l)
        /\ Cardinality(Copies(e, l)) \in Nat /\ Len(faults) \in Nat
    <3>1. /\ Cardinality(Copies(e, l)) + Cardinality(Left(e, l)) <= Len(faults) + Spare(e, l)
          /\ IsFiniteSet(Left(e, l))
      BY <2>2 DEF FromMatrix, ResendInv
    <3>2. Cardinality(Copies(e, l)) \in Nat /\ Cardinality(Left(e, l)) \in Nat /\ Len(faults) \in Nat
      BY <3>1, Typed, CopiesFacts, FS_CardinalityType
    <3> QED
      BY <2>5, <3>1, <3>2
  <2>4. {j \in Ids : log[j] = log[i]} = Copies(e, l)
    BY <2>2 DEF Copies
  <2> QED
    <3>1. Cardinality({j \in Ids : log[j] = log[i]}) <= Len(faults) + Spare(e, l)
      BY <2>3, <2>4
    <3>2. Cardinality({j \in Ids : log[j] = log[i]}) \in Nat
      BY <2>3, <2>4
    <3> HIDE <2>4
    <3> QED
      BY <2>3, <2>5, <3>1, <3>2, SumFacts
<1> QED
  BY <1>1, <1>2, <1>3, <1>4, InvCorrect, PTL DEF Spec

=============================================================================
