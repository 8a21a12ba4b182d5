-------------------------- MODULE ConnectionProofs --------------------------
(***************************************************************************)
(* Proofs about Connection: it implements Calls, for any commands, number  *)
(* of tries, tasks and lost connections.                                   *)
(***************************************************************************)
EXTENDS Connection, TLAPS

\* A command is in one place.
PlaceInv ==
    /\ \A t \in Tasks : \A i \in DOMAIN queue[t] : place[queue[t][i]] = "queue"
    /\ \A t \in Tasks : \A i, j \in DOMAIN queue[t] : queue[t][i] = queue[t][j] => i = j
    /\ \A t, s \in Tasks : \A i \in DOMAIN queue[t], j \in DOMAIN queue[s] :
            queue[t][i] = queue[s][j] => t = s
    /\ \A t \in Tasks : taken[t] # None => place[taken[t]] \in {"server", "done"}
    /\ \A t, s \in Tasks : taken[t] = taken[s] /\ taken[t] # None => t = s

\* A task that connects has tries left; one that does not counts from 0.
TriesInv ==
    \A t \in Tasks :
        /\ t > bound => task[t] = "none"
        /\ task[t] \in {"none", "open"} => tries[t] = 0
        /\ task[t] = "connecting" => tries[t] < MaxTries

\* What that tells about its caller and the server.
CallInv ==
    \A c \in Commands :
        /\ runs[c] = IF place[c] = "done" THEN 1 ELSE 0
        /\ status[c] = "idle" => place[c] = "caller"
        /\ status[c] = "answered" => place[c] = "done"

---------------------------------------------------------------------------

LEMMA InitType == Init => TypeOK
<1> SUFFICES ASSUME Init PROVE TypeOK
  OBVIOUS
<1>1. bound \in Tasks
  BY ConnectionAssumption DEF Init, Tasks
<1>2. tries \in [Tasks -> 0..MaxTries]
  BY ConnectionAssumption DEF Init
<1>3. queue \in [Tasks -> Seq(Commands)]
  BY DEF Init
<1> QED
  BY <1>1, <1>2, <1>3 DEF Init, TypeOK

LEMMA EndType ==
    ASSUME TypeOK, NEW t \in Tasks, End(t)
    PROVE  /\ task' \in [Tasks -> {"none", "connecting", "open", "aborted", "ended"}]
           /\ queue' \in [Tasks -> Seq(Commands)]
           /\ taken' \in [Tasks -> Commands \cup {None}]
           /\ place' \in [Commands -> {"caller", "queue", "server", "done", "lost"}]
           /\ status' \in [Commands -> {"idle", "waiting", "answered", "failed", "gone"}]
<1>1. <<>> \in Seq(Commands)
  OBVIOUS
<1> QED
  BY <1>1 DEF TypeOK, End, Drop, Discard

LEMMA TypeStep == TypeOK /\ TriesInv /\ [Next]_vars => TypeOK'
<1> SUFFICES ASSUME TypeOK, TriesInv, [Next]_vars PROVE TypeOK'
  OBVIOUS
<1>1. CASE Bind
  <2>1. bound + 1 \in Tasks
    BY <1>1, ConnectionAssumption DEF TypeOK, Bind, Tasks
  <2>2. task' \in [Tasks -> {"none", "connecting", "open", "aborted", "ended"}]
    BY <1>1 DEF TypeOK, Bind
  <2> QED
    BY <1>1, <2>1, <2>2 DEF TypeOK, Bind
<1>2. ASSUME NEW c \in Commands, GiveUpWaiting(c) \/ Run(c) PROVE TypeOK'
  <2>1. status' \in [Commands -> {"idle", "waiting", "answered", "failed", "gone"}]
    BY <1>2 DEF TypeOK, GiveUpWaiting, Run
  <2>2. place' \in [Commands -> {"caller", "queue", "server", "done", "lost"}]
    BY <1>2 DEF TypeOK, GiveUpWaiting, Run
  <2>3. runs' \in [Commands -> Nat]
    <3>1. runs \in [Commands -> Nat] /\ runs[c] + 1 \in Nat
      BY DEF TypeOK
    <3>2. runs' = runs \/ runs' = [runs EXCEPT ![c] = runs[c] + 1]
      BY <1>2 DEF GiveUpWaiting, Run
    <3> QED
      BY <3>1, <3>2
  <2> QED
    BY <1>2, <2>1, <2>2, <2>3 DEF TypeOK, GiveUpWaiting, Run
<1>3. ASSUME NEW c \in Commands, NEW t \in Tasks, Send(c, t) PROVE TypeOK'
  <2>1. Append(queue[t], c) \in Seq(Commands)
    BY DEF TypeOK
  <2>2. queue' \in [Tasks -> Seq(Commands)]
    BY <1>3, <2>1 DEF TypeOK, Send
  <2>3. place' \in [Commands -> {"caller", "queue", "server", "done", "lost"}]
    BY <1>3 DEF TypeOK, Send
  <2>4. status' \in [Commands -> {"idle", "waiting", "answered", "failed", "gone"}]
    BY <1>3 DEF TypeOK, Send
  <2> QED
    BY <1>3, <2>2, <2>3, <2>4 DEF TypeOK, Send
<1>4. ASSUME NEW t \in Tasks, Reap(t) \/ ReplyToNobody(t) \/ SetUpPanics(t) PROVE TypeOK'
  BY <1>4, EndType DEF TypeOK, Reap, ReplyToNobody, SetUpPanics
<1>5. ASSUME NEW t \in Tasks, Connect(t) PROVE TypeOK'
  BY <1>5, ConnectionAssumption DEF TypeOK, Connect
<1>6. ASSUME NEW t \in Tasks, ConnectFails(t) PROVE TypeOK'
  <2>1. tries[t] < MaxTries /\ MaxTries \in Nat
    BY <1>6, ConnectionAssumption DEF TypeOK, ConnectFails, TriesInv
  <2>2. tries' \in [Tasks -> 0..MaxTries]
    BY <1>6, <2>1 DEF TypeOK, ConnectFails
  <2> QED
    BY <1>6, <2>2, EndType DEF TypeOK, ConnectFails
<1>7. ASSUME NEW t \in Tasks, Take(t) PROVE TypeOK'
  <2>1. Head(queue[t]) \in Commands /\ Tail(queue[t]) \in Seq(Commands)
    BY <1>7 DEF TypeOK, Take
  <2> QED
    BY <1>7, <2>1 DEF TypeOK, Take
<1>8. ASSUME NEW t \in Tasks, Reply(t) PROVE TypeOK'
  BY <1>8 DEF TypeOK, Reply
<1>9. ASSUME NEW t \in Tasks, Lose(t) PROVE TypeOK'
  <2>1. place' \in [Commands -> {"caller", "queue", "server", "done", "lost"}]
    BY <1>9 DEF TypeOK, Lose, Forget
  <2>2. status' \in [Commands -> {"idle", "waiting", "answered", "failed", "gone"}]
    BY <1>9 DEF TypeOK, Lose, Forget, Drop
  <2> QED
    BY <1>9, <2>1, <2>2 DEF TypeOK, Lose, Forget
<1>10. CASE UNCHANGED vars
  BY <1>10 DEF TypeOK, vars
<1> QED
  BY <1>1, <1>2, <1>3, <1>4, <1>5, <1>6, <1>7, <1>8, <1>9, <1>10 DEF Next

LEMMA TriesStep == TypeOK /\ TriesInv /\ [Next]_vars => TriesInv'
<1> SUFFICES ASSUME TypeOK, TriesInv, [Next]_vars PROVE TriesInv'
  OBVIOUS
<1> USE DEF TriesInv
<1>0. /\ task \in [Tasks -> {"none", "connecting", "open", "aborted", "ended"}]
      /\ tries \in [Tasks -> 0..MaxTries]
      /\ bound \in Tasks /\ MaxTries \in Nat \ {0} /\ Tasks \subseteq Nat
  BY ConnectionAssumption DEF TypeOK, Tasks
<1>1. CASE Bind
  <2>1. bound + 1 \in Tasks
    BY <1>1, ConnectionAssumption DEF TypeOK, Bind, Tasks
  <2> QED
    BY <1>0, <1>1, <2>1 DEF Bind
<1>2. CASE UNCHANGED <<bound, task, tries>>
  BY <1>2
<1>3. ASSUME NEW t \in Tasks, End(t), UNCHANGED <<bound, tries>>, task[t] # "none"
      PROVE  TriesInv'
  BY <1>0, <1>3 DEF End
<1>4. ASSUME NEW t \in Tasks, Connect(t) PROVE TriesInv'
  BY <1>0, <1>4 DEF Connect
<1>5. ASSUME NEW t \in Tasks, ConnectFails(t) PROVE TriesInv'
  <2>1. tries[t] < MaxTries
    BY <1>5 DEF ConnectFails
  <2> QED
    BY <1>0, <1>5, <2>1 DEF ConnectFails, End
<1>6. ASSUME NEW t \in Tasks, Lose(t) PROVE TriesInv'
  BY <1>0, <1>6 DEF Lose
<1>7. ASSUME NEW t \in Tasks, Reap(t) \/ ReplyToNobody(t) \/ SetUpPanics(t) PROVE TriesInv'
  BY <1>3, <1>7 DEF Reap, ReplyToNobody, SetUpPanics
<1>8. ASSUME NEW t \in Tasks, Take(t) \/ Reply(t) PROVE TriesInv'
  BY <1>2, <1>8 DEF Take, Reply
<1>9. ASSUME NEW c \in Commands, GiveUpWaiting(c) \/ Run(c) \/ \E t \in Tasks : Send(c, t)
      PROVE  TriesInv'
  BY <1>2, <1>9 DEF GiveUpWaiting, Run, Send
<1>10. CASE UNCHANGED vars
  BY <1>2, <1>10 DEF vars
<1> QED
  BY <1>1, <1>4, <1>5, <1>6, <1>7, <1>8, <1>9, <1>10 DEF Next

LEMMA InitInv == Init => TriesInv /\ PlaceInv /\ CallInv
<1> SUFFICES ASSUME Init PROVE TriesInv /\ PlaceInv /\ CallInv
  OBVIOUS
<1>1. TriesInv
  BY ConnectionAssumption DEF Init, TriesInv, Tasks
<1>2. PlaceInv
  BY DEF Init, PlaceInv
<1>3. CallInv
  BY DEF Init, CallInv
<1> QED
  BY <1>1, <1>2, <1>3

---------------------------------------------------------------------------
\* Where commands are.

LEMMA TailAt ==
    ASSUME NEW S, NEW q \in Seq(S), q # <<>>, NEW i \in DOMAIN Tail(q)
    PROVE  i + 1 \in DOMAIN q /\ Tail(q)[i] = q[i + 1]
<1>1. Len(q) \in Nat /\ DOMAIN q = 1..Len(q) /\ Len(q) # 0
  OBVIOUS
<1>2. Len(Tail(q)) = Len(q) - 1 /\ DOMAIN Tail(q) = 1..Len(Tail(q))
  BY <1>1
<1> QED
  BY <1>1, <1>2

LEMMA AppendAt ==
    ASSUME NEW S, NEW q \in Seq(S), NEW x \in S, NEW i \in DOMAIN Append(q, x)
    PROVE  \/ i \in DOMAIN q /\ Append(q, x)[i] = q[i]
           \/ i = Len(q) + 1 /\ Append(q, x)[i] = x
  OBVIOUS

LEMMA PlaceStep == TypeOK /\ PlaceInv /\ CallInv /\ [Next]_vars => PlaceInv'
<1> SUFFICES ASSUME TypeOK, PlaceInv, CallInv, [Next]_vars PROVE PlaceInv'
  OBVIOUS
<1>0. /\ queue \in [Tasks -> Seq(Commands)] /\ taken \in [Tasks -> Commands \cup {None}]
      /\ place \in [Commands -> {"caller", "queue", "server", "done", "lost"}]
      /\ \A t \in Tasks : \A i \in DOMAIN queue[t] : queue[t][i] \in Commands
  BY DEF TypeOK
<1>1. ASSUME UNCHANGED <<queue, taken, place>> PROVE PlaceInv'
  BY <1>1 DEF PlaceInv
<1>2. ASSUME NEW t \in Tasks, End(t) PROVE PlaceInv'
  <2>1. queue' = [queue EXCEPT ![t] = <<>>] /\ taken' = [taken EXCEPT ![t] = None]
    BY <1>2 DEF End
  <2>2. \A c \in Commands : c \notin InQueue(t) \/ place[c] # "queue" => place'[c] = place[c]
    BY <1>2 DEF End, Discard
  <2>3. \A s \in Tasks \ {t} : \A i \in DOMAIN queue[s] : queue[s][i] \notin InQueue(t)
    BY DEF PlaceInv, InQueue
  <2>4. \A s \in Tasks : \A i \in DOMAIN queue'[s] :
            s # t /\ i \in DOMAIN queue[s] /\ queue'[s][i] = queue[s][i]
    BY <1>0, <2>1
  <2>5. \A s \in Tasks : taken'[s] # None => s # t /\ taken'[s] = taken[s]
    BY <1>0, <2>1
  <2>6. \A s \in Tasks : \A i \in DOMAIN queue'[s] : place'[queue'[s][i]] = "queue"
    BY <1>0, <2>2, <2>3, <2>4 DEF PlaceInv
  <2>7. \A s \in Tasks : \A i, j \in DOMAIN queue'[s] : queue'[s][i] = queue'[s][j] => i = j
    BY <2>4 DEF PlaceInv
  <2>8. \A s, r \in Tasks : \A i \in DOMAIN queue'[s], j \in DOMAIN queue'[r] :
            queue'[s][i] = queue'[r][j] => s = r
    BY <2>4 DEF PlaceInv
  <2>9. \A s \in Tasks : taken'[s] # None => place'[taken'[s]] \in {"server", "done"}
    BY <1>0, <2>2, <2>5 DEF PlaceInv
  <2>10. \A s, r \in Tasks : taken'[s] = taken'[r] /\ taken'[s] # None => s = r
    BY <2>5 DEF PlaceInv
  <2> QED
    BY <2>6, <2>7, <2>8, <2>9, <2>10 DEF PlaceInv
<1>3. CASE Bind
  BY <1>1, <1>3 DEF Bind
<1>4. ASSUME NEW c \in Commands, GiveUpWaiting(c) PROVE PlaceInv'
  BY <1>1, <1>4 DEF GiveUpWaiting
<1>5. ASSUME NEW c \in Commands, Run(c) PROVE PlaceInv'
  BY <1>0, <1>5 DEF Run, PlaceInv
<1>6. ASSUME NEW c \in Commands, NEW t \in Tasks, Send(c, t) PROVE PlaceInv'
  <2>1. CASE UNCHANGED <<queue, place>>
    BY <1>1, <1>6, <2>1 DEF Send
  <2>2. CASE /\ queue' = [queue EXCEPT ![t] = Append(@, c)]
             /\ place' = [place EXCEPT ![c] = "queue"]
    <3>1. place[c] = "caller" /\ taken' = taken
      BY <1>6 DEF Send, CallInv
    <3>2. \A s \in Tasks : \A i \in DOMAIN queue'[s] :
            \/ i \in DOMAIN queue[s] /\ queue'[s][i] = queue[s][i] /\ queue[s][i] # c
            \/ s = t /\ i = Len(queue[t]) + 1 /\ queue'[s][i] = c
      <4> TAKE s \in Tasks
      <4>1. \A i \in DOMAIN queue[s] : queue[s][i] # c
        BY <3>1 DEF PlaceInv
      <4> QED
        BY <1>0, <2>2, <4>1, AppendAt
    <3>3. \A s \in Tasks : \A i \in DOMAIN queue'[s] : place'[queue'[s][i]] = "queue"
      BY <1>0, <2>2, <3>2 DEF PlaceInv
    <3>4. \A s \in Tasks : \A i, j \in DOMAIN queue'[s] : queue'[s][i] = queue'[s][j] => i = j
      BY <3>2 DEF PlaceInv
    <3>5. \A s, r \in Tasks : \A i \in DOMAIN queue'[s], j \in DOMAIN queue'[r] :
              queue'[s][i] = queue'[r][j] => s = r
      BY <3>2 DEF PlaceInv
    <3>6. \A s \in Tasks : taken'[s] # None => place'[taken'[s]] \in {"server", "done"}
      BY <1>0, <2>2, <3>1 DEF PlaceInv
    <3>7. \A s, r \in Tasks : taken'[s] = taken'[r] /\ taken'[s] # None => s = r
      BY <3>1 DEF PlaceInv
    <3> QED
      BY <3>3, <3>4, <3>5, <3>6, <3>7 DEF PlaceInv
  <2> QED
    BY <1>6, <2>1, <2>2 DEF Send
<1>7. ASSUME NEW t \in Tasks, Reap(t) \/ ReplyToNobody(t) \/ SetUpPanics(t) PROVE PlaceInv'
  BY <1>2, <1>7 DEF Reap, ReplyToNobody, SetUpPanics
<1>8. ASSUME NEW t \in Tasks, Connect(t) \/ ConnectFails(t) PROVE PlaceInv'
  BY <1>1, <1>2, <1>8 DEF Connect, ConnectFails
<1>9. ASSUME NEW t \in Tasks, Take(t) PROVE PlaceInv'
  <2> DEFINE c == queue[t][1]
  <2>1. /\ queue[t] # <<>> /\ c \in Commands /\ 1 \in DOMAIN queue[t] /\ taken[t] = None
        /\ taken' = [taken EXCEPT ![t] = c]
        /\ queue' = [queue EXCEPT ![t] = Tail(queue[t])]
        /\ place' = [place EXCEPT ![c] = "server"]
    BY <1>0, <1>9 DEF Take
  <2>2. place[c] = "queue"
    BY <2>1 DEF PlaceInv
  <2>3. \A s \in Tasks : \A i \in DOMAIN queue'[s] :
            \/ s # t /\ i \in DOMAIN queue[s] /\ queue'[s][i] = queue[s][i]
            \/ s = t /\ i + 1 \in DOMAIN queue[t] /\ i \in Nat \ {0}
               /\ queue'[s][i] = queue[t][i + 1]
    BY <1>0, <2>1, TailAt
  <2>4. \A s \in Tasks : \A i \in DOMAIN queue'[s] : queue'[s][i] # c
    BY <2>1, <2>3 DEF PlaceInv
  <2>5. \A s \in Tasks : taken[s] # None => taken[s] # c
    BY <2>1, <2>2 DEF PlaceInv
  <2> HIDE DEF c
  <2>6. \A s \in Tasks : \A i \in DOMAIN queue'[s] : place'[queue'[s][i]] = "queue"
    BY <1>0, <2>1, <2>3, <2>4 DEF PlaceInv
  <2>7. \A s \in Tasks : \A i, j \in DOMAIN queue'[s] : queue'[s][i] = queue'[s][j] => i = j
    BY <2>3 DEF PlaceInv
  <2>8. \A s, r \in Tasks : \A i \in DOMAIN queue'[s], j \in DOMAIN queue'[r] :
            queue'[s][i] = queue'[r][j] => s = r
    BY <2>3 DEF PlaceInv
  <2>9. \A s \in Tasks : taken'[s] # None => place'[taken'[s]] \in {"server", "done"}
    BY <1>0, <2>1 DEF PlaceInv
  <2>10. \A s, r \in Tasks : taken'[s] = taken'[r] /\ taken'[s] # None => s = r
    BY <1>0, <2>1, <2>5 DEF PlaceInv
  <2> QED
    BY <2>6, <2>7, <2>8, <2>9, <2>10 DEF PlaceInv
<1>10. ASSUME NEW t \in Tasks, Reply(t) PROVE PlaceInv'
  BY <1>0, <1>10 DEF Reply, PlaceInv
<1>11. ASSUME NEW t \in Tasks, Lose(t) PROVE PlaceInv'
  <2>1. queue' = queue /\ taken' = [taken EXCEPT ![t] = None]
    BY <1>11 DEF Lose, Forget
  <2>2. \A c \in Commands : c # taken[t] \/ place[c] # "server" => place'[c] = place[c]
    BY <1>0, <1>11 DEF Lose, Forget, InHand
  <2>3. \A s \in Tasks : \A i \in DOMAIN queue'[s] : place'[queue'[s][i]] = "queue"
    BY <1>0, <2>1, <2>2 DEF PlaceInv
  <2>4. \A s \in Tasks : taken'[s] # None => /\ taken'[s] = taken[s]
                                           /\ place'[taken'[s]] = place[taken[s]]
    BY <1>0, <2>1, <2>2 DEF PlaceInv
  <2> QED
    BY <2>1, <2>3, <2>4 DEF PlaceInv
<1>12. CASE UNCHANGED vars
  BY <1>1, <1>12 DEF vars
<1> QED
  BY <1>3, <1>4, <1>5, <1>6, <1>7, <1>8, <1>9, <1>10, <1>11, <1>12 DEF Next

LEMMA CallStep == TypeOK /\ PlaceInv /\ CallInv /\ [Next]_vars => CallInv'
<1> SUFFICES ASSUME TypeOK, PlaceInv, CallInv, [Next]_vars PROVE CallInv'
  OBVIOUS
<1>0. /\ taken \in [Tasks -> Commands \cup {None}]
      /\ place \in [Commands -> {"caller", "queue", "server", "done", "lost"}]
      /\ status \in [Commands -> {"idle", "waiting", "answered", "failed", "gone"}]
      /\ runs \in [Commands -> Nat]
  BY DEF TypeOK
<1>1. ASSUME UNCHANGED <<place, status, runs>> PROVE CallInv'
  BY <1>1 DEF CallInv
<1>2. ASSUME NEW C, Drop(C), UNCHANGED runs,
             \A c \in Commands : place'[c] = place[c] \/ {place[c], place'[c]} \subseteq
                {"queue", "server", "lost"}
      PROVE  CallInv'
  BY <1>0, <1>2 DEF Drop, CallInv
<1>3. ASSUME NEW t \in Tasks, End(t), UNCHANGED runs PROVE CallInv'
  <2>1. \A c \in Commands : place'[c] = place[c] \/ {place[c], place'[c]} \subseteq
            {"queue", "server", "lost"}
    BY <1>0, <1>3 DEF End, Discard
  <2> QED
    BY <1>2, <1>3, <2>1 DEF End
<1>4. CASE Bind
  BY <1>1, <1>4 DEF Bind
<1>5. ASSUME NEW c \in Commands, GiveUpWaiting(c) PROVE CallInv'
  BY <1>0, <1>5 DEF GiveUpWaiting, CallInv
<1>6. ASSUME NEW c \in Commands, Run(c) PROVE CallInv'
  <2>1. runs[c] = 0 /\ status[c] # "idle" /\ place'[c] = "done" /\ runs'[c] = 1
    BY <1>0, <1>6 DEF Run, CallInv
  <2> QED
    BY <1>0, <1>6, <2>1 DEF Run, CallInv
<1>7. ASSUME NEW c \in Commands, NEW t \in Tasks, Send(c, t) PROVE CallInv'
  <2>1. place[c] = "caller"
    BY <1>7 DEF Send, CallInv
  <2> QED
    BY <1>0, <1>7, <2>1 DEF Send, CallInv
<1>8. ASSUME NEW t \in Tasks, Reap(t) \/ ReplyToNobody(t) \/ SetUpPanics(t) PROVE CallInv'
  BY <1>3, <1>8 DEF Reap, ReplyToNobody, SetUpPanics
<1>9. ASSUME NEW t \in Tasks, Connect(t) \/ ConnectFails(t) PROVE CallInv'
  BY <1>1, <1>3, <1>9 DEF Connect, ConnectFails
<1>10. ASSUME NEW t \in Tasks, Take(t) PROVE CallInv'
  <2>1. /\ queue[t] # <<>> /\ queue[t][1] \in Commands /\ 1 \in DOMAIN queue[t]
        /\ place' = [place EXCEPT ![queue[t][1]] = "server"] /\ UNCHANGED <<status, runs>>
    BY <1>10 DEF Take, TypeOK
  <2>2. place[queue[t][1]] = "queue"
    BY <2>1 DEF PlaceInv
  <2> QED
    BY <1>0, <2>1, <2>2 DEF CallInv
<1>11. ASSUME NEW t \in Tasks, Reply(t) PROVE CallInv'
  BY <1>0, <1>11 DEF Reply, CallInv
<1>12. ASSUME NEW t \in Tasks, Lose(t) PROVE CallInv'
  <2>1. \A c \in Commands : place'[c] = place[c] \/ {place[c], place'[c]} \subseteq
            {"queue", "server", "lost"}
    BY <1>0, <1>12 DEF Lose, Forget
  <2> QED
    BY <1>2, <1>12, <2>1 DEF Lose, Forget
<1>13. CASE UNCHANGED vars
  BY <1>1, <1>13 DEF vars
<1> QED
  BY <1>4, <1>5, <1>6, <1>7, <1>8, <1>9, <1>10, <1>11, <1>12, <1>13 DEF Next

---------------------------------------------------------------------------
\* The refinement.

LEMMA CallsInit == Init => Abstract!Init
  BY DEF Init, Abstract!Init

LEMMA CallsStep == TypeOK /\ PlaceInv /\ CallInv /\ [Next]_vars => [Abstract!Next]_(Abstract!vars)
<1> SUFFICES ASSUME TypeOK, PlaceInv, CallInv, [Next]_vars
             PROVE  [Abstract!Next]_(Abstract!vars)
  OBVIOUS
<1>0. /\ taken \in [Tasks -> Commands \cup {None}]
      /\ place \in [Commands -> {"caller", "queue", "server", "done", "lost"}]
      /\ status \in [Commands -> {"idle", "waiting", "answered", "failed", "gone"}]
      /\ runs \in [Commands -> Nat]
  BY DEF TypeOK
<1>1. ASSUME UNCHANGED <<status, runs>> PROVE UNCHANGED Abstract!vars
  BY <1>1 DEF Abstract!vars
<1>2. ASSUME NEW C, Drop(C), UNCHANGED runs PROVE Abstract!Next
  <2>1. PICK D \in SUBSET Commands : D = {c \in Commands : c \in C /\ status[c] = "waiting"}
    OBVIOUS
  <2>2. Abstract!Fail(D)
    BY <1>0, <1>2, <2>1 DEF Abstract!Fail, Drop
  <2> QED
    BY <2>2 DEF Abstract!Next
<1>3. ASSUME NEW c \in Commands, GiveUpWaiting(c) PROVE Abstract!Next
  <2>1. Abstract!Fail({c})
    BY <1>0, <1>3 DEF Abstract!Fail, GiveUpWaiting
  <2>2. {c} \in SUBSET Commands
    OBVIOUS
  <2> QED
    BY <2>1, <2>2 DEF Abstract!Next
<1>4. ASSUME NEW c \in Commands, Run(c) PROVE Abstract!Next
  <2>0. status[c] \in {"waiting", "failed", "gone"} /\ runs[c] = 0
    BY <1>0, <1>4 DEF Run, CallInv
  <2>2. runs' = [runs EXCEPT ![c] = 1] /\ UNCHANGED status
    BY <1>4, <2>0 DEF Run
  <2>1. Abstract!Run(c)
    BY <2>0, <2>2 DEF Abstract!Run
  <2> QED
    BY <2>1 DEF Abstract!Next
<1>5. ASSUME NEW c \in Commands, NEW t \in Tasks, Send(c, t) PROVE Abstract!Next
  <2>1. Abstract!Call(c) \/ Abstract!Refuse(c)
    BY <1>0, <1>5 DEF Abstract!Call, Abstract!Refuse, Abstract!Step, Send
  <2> QED
    BY <2>1 DEF Abstract!Next
<1>6. ASSUME NEW t \in Tasks, Reply(t) PROVE Abstract!Next
  <2>1. PICK c \in Commands : c = taken[t]
    BY <1>0, <1>6 DEF Reply
  <2>2. runs[c] = 1 /\ status[c] = "waiting" /\ status' = [status EXCEPT ![c] = "answered"]
        /\ UNCHANGED runs
    BY <1>6, <2>1 DEF Reply, CallInv
  <2>3. Abstract!Answer(c)
    BY <1>0, <2>2 DEF Abstract!Answer, Abstract!Step
  <2> QED
    BY <2>3 DEF Abstract!Next
<1>7. ASSUME NEW t \in Tasks,
             Reap(t) \/ ReplyToNobody(t) \/ SetUpPanics(t) \/ Connect(t) \/ ConnectFails(t)
             \/ Take(t) \/ Lose(t)
      PROVE  Abstract!Next \/ UNCHANGED Abstract!vars
  BY <1>1, <1>2, <1>7 DEF Reap, ReplyToNobody, SetUpPanics, Connect, ConnectFails, Take, Lose,
     End, Forget
<1>8. CASE Bind \/ UNCHANGED vars
  BY <1>1, <1>8 DEF Bind, vars
<1> QED
  BY <1>3, <1>4, <1>5, <1>6, <1>7, <1>8 DEF Next

---------------------------------------------------------------------------
\* Theorems.

\* A command is in one place at a time, in the channel of one task or in the
\* hand of one; the server ran it once when it is done, and never before; and
\* a task that connects has not used up its tries.
THEOREM InvCorrect == Spec => [](TypeOK /\ TriesInv /\ PlaceInv /\ CallInv)
<1>1. Init => TypeOK /\ TriesInv /\ PlaceInv /\ CallInv
  BY InitType, InitInv
<1>2. TypeOK /\ TriesInv /\ PlaceInv /\ CallInv /\ [Next]_vars
        => (TypeOK /\ TriesInv /\ PlaceInv /\ CallInv)'
  BY TypeStep, TriesStep, PlaceStep, CallStep
<1> QED
  BY <1>1, <1>2, PTL DEF Spec

\* Each variable has its type; tries in particular never passes
\* CONNECT_MAX_TRIES, whatever the number of tasks and commands.
THEOREM TypeCorrect == Spec => []TypeOK
  BY InvCorrect, PTL

\* Channel::send implements Calls: a command is run at most once, and a caller
\* is answered only when it was.
THEOREM CallsRefined == Spec => CallsSpec
<1>1. TypeOK /\ PlaceInv /\ CallInv /\ [Next]_vars => [Abstract!Next]_(Abstract!vars)
  BY CallsStep
<1> QED
  BY <1>1, CallsInit, InvCorrect, PTL DEF Spec, CallsSpec, Abstract!Spec

=============================================================================
