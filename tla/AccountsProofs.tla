--------------------------- MODULE AccountsProofs ---------------------------
(***************************************************************************)
(* Proofs about Accounts: who is managed as what, for any users, names and *)
(* logins, and for a failed request or a crash between any two steps.      *)
(***************************************************************************)
EXTENDS Accounts, FiniteSetTheorems, TLAPS

Rows == DOMAIN real
HasRow(n) == \E i \in Rows : real[i].name = n
Named(n) == {i \in Rows : real[i].name = n}
Given(n) == {i \in Named(n) : real[i].kind = "given"}

\* Rows of real_users: what a login gave, and what was registered.
RowInv ==
    \A i \in Rows :
        /\ real[i].name \in accounts
        /\ real[i].kind = "given" => real[i].mx \in Users /\ real[i].name \in Names
        /\ real[i].kind = "auto" => \E j \in 1..MaxAuto : real[i].name = AutoName(real[i].mx, j)

\* Of the rows of a name one is the first, and of those of logins one the last.
HasEnds ==
    \A n \in TomsgNames :
        /\ Named(n) = {} \/ \E i \in Named(n) : \A j \in Named(n) : i <= j
        /\ Given(n) = {} \/ \E i \in Given(n) : \A j \in Given(n) : j <= i

\* A process that is down has nothing in memory, and something made it end.
DownInv ==
    ~up => step = "idle" /\ users = {} /\ participants = {} /\ bound = {} /\ faults # 0

\* The holder of the lock, and the transaction it works on.
HolderInv ==
    /\ step = "idle" => todo = {} /\ res = {}
    /\ step \in {"takeover", "leave", "replace"} =>
            mx \in Users /\ name \in Names /\ res = {}
    /\ step \in {"register", "insert", "invite", "send"} =>
            mx \in MatrixIds /\ txn # None /\ res = {}
    /\ step \in {"register", "insert"} => ByMx(mx) = {}
    /\ step = "insert" =>
            /\ \E j \in 1..MaxAuto : name = AutoName(mx, j)
            /\ name \in accounts \ roster /\ ~HasRow(name) /\ ByName(name) = {}
    /\ step \in {"invite", "send"} => \E x \in users : ~IsPuppet(x) /\ Pair(x) = <<mx, name>>
    /\ step \in {"create", "made"} => ByName(name) = {}
    /\ step \in {"create", "made", "join"} => name \in roster \cap Puppetable
    /\ step = "join" => PuppetUser(name) \in users
    /\ step \in {"leave", "replace"} =>
            /\ \A x \in ByName(name) : ~IsPuppet(x)
            /\ <<Puppet(name), name>> \notin participants \/ faults # 0
    /\ todo \subseteq roster
    /\ res \subseteq roster \cap Puppetable
    /\ \A n \in res : PuppetUser(n) \in users

\* Members of the room.  A name that has no puppet's id, as it was registered
\* for the id of a puppet, belongs to a user for good.
RosterInv ==
    /\ Names \subseteq accounts /\ roster \subseteq accounts /\ puppets \subseteq accounts
    /\ \A n \in roster \ Puppetable : HasRow(n)
    /\ up => \A i \in Rows : real[i].name \notin Puppetable =>
                \E x \in users : x.name = real[i].name /\ ~IsPuppet(x)

\* Nothing is heard of a puppet before its account is made, and no user has the
\* id of a puppet that is managed or will be after a restart.
PuppetInv ==
    /\ \A n \in Puppetable :
        /\ Puppet(n) \in joined \cup unseen => n \in puppeted
        /\ txn # None /\ txn.mx = Puppet(n) => n \in puppeted
        /\ step \in {"register", "insert"} /\ mx = Puppet(n) => n \in puppeted
        /\ PuppetUser(n) \in users => n \in puppeted
        /\ \A i \in Rows : real[i].mx = Puppet(n) =>
                /\ n \in puppeted /\ PuppetUser(n) \notin users
                /\ n \in puppets => HasRow(n)
        /\ up /\ n \in puppets => HasRow(n) \/ PuppetUser(n) \in users
    /\ puppets \subseteq puppeted
    /\ step = "made" =>
            /\ name \in puppeted /\ name \notin puppets
            /\ \A i \in Rows : real[i].mx # Puppet(name)

\* Accounts that were registered for m: those with a row, the one that is about
\* to get one, and those that a fault cut off from it.
AutoRow(m, j) == \E i \in Rows : real[i].name = AutoName(m, j)
InFlight(m, j) == step = "insert" /\ name = AutoName(m, j)
Lost(m) == {j \in 1..MaxAuto : AutoName(m, j) \in accounts /\ ~AutoRow(m, j) /\ ~InFlight(m, j)}

LostInv ==
    /\ \A i, j \in Rows : real[i].kind = "auto" /\ real[j].kind = "auto"
                          /\ real[i].mx = real[j].mx => i = j
    /\ up => \A i \in Rows : real[i].kind = "auto" => ByMx(real[i].mx) # {}
    /\ \A m \in MatrixIds : Cardinality(Lost(m)) <= faults

\* Participants whose invite went missing, of whom there are finitely many.
UninvitedInv == IsFiniteSet(Uninvited) /\ InvitesLost

\* A restart finds users of those Matrix ids only that are managed already.
KeptInv == up => \A x \in Loaded : IsPuppet(x) \/ ByMx(x.mx) # {}

Inv ==
    /\ TypeOK /\ RowInv /\ HasEnds /\ DownInv /\ HolderInv /\ RosterInv /\ PuppetInv
    /\ LostInv /\ UninvitedInv
    /\ Recorded /\ PuppetOrReal /\ BoundToUser /\ OneUserPerMatrixId /\ KickedOut
    /\ KeptInv /\ NoneStranded

---------------------------------------------------------------------------
\* Ids and names.

LEMMA IdFacts ==
    /\ \A n, k : Puppet(n) = Puppet(k) => n = k
    /\ \A m, k, i, j : AutoName(m, i) = AutoName(k, j) => m = k /\ i = j
    /\ Users \subseteq MatrixIds /\ Names \subseteq Puppetable /\ Puppetable \subseteq TomsgNames
    /\ \A n \in Puppetable : Puppet(n) \in MatrixIds \ Users
    /\ \A m \in MatrixIds \ Users : \E n \in Puppetable : m = Puppet(n)
    /\ \A m \in MatrixIds, j \in 1..MaxAuto : AutoName(m, j) \in TomsgNames \ Names
    /\ \A m \in Users, j \in 1..MaxAuto : AutoName(m, j) \in Puppetable
    /\ \A n \in Puppetable, j \in 1..MaxAuto : AutoName(Puppet(n), j) # n
    /\ \A n \in TomsgNames : n \notin MatrixIds
    /\ None \notin MatrixIds /\ None \notin TomsgNames
<1>1. \A n, k : Puppet(n) = Puppet(k) => n = k
  BY DEF Puppet
<1>2. \A m, k, i, j : AutoName(m, i) = AutoName(k, j) => m = k /\ i = j
  BY DEF AutoName
<1>3. Users \subseteq MatrixIds /\ Names \subseteq Puppetable
  BY DEF MatrixIds, Puppetable
<1>4. Puppetable \subseteq TomsgNames
  BY DEF MatrixIds, Puppetable, TomsgNames
<1>5. \A n \in Puppetable : Puppet(n) \in MatrixIds \ Users
  BY IdAssumption DEF MatrixIds
<1>6. \A m \in MatrixIds \ Users : \E n \in Puppetable : m = Puppet(n)
  BY DEF MatrixIds
<1>7. \A m \in MatrixIds, j \in 1..MaxAuto : AutoName(m, j) \in TomsgNames \ Names
  BY IdAssumption DEF TomsgNames, AutoName
<1>8. \A m \in Users, j \in 1..MaxAuto : AutoName(m, j) \in Puppetable
  BY DEF Puppetable, AutoName
<1>9. \A n \in Puppetable, j \in 1..MaxAuto : AutoName(Puppet(n), j) # n
  <2> SUFFICES ASSUME NEW n \in Puppetable, NEW j \in 1..MaxAuto, AutoName(Puppet(n), j) = n
               PROVE  FALSE
    OBVIOUS
  <2>1. n \notin Names
    BY <1>5, <1>7
  <2>2. PICK u \in Users, i \in 1..MaxAuto : n = AutoName(u, i)
    BY <2>1 DEF Puppetable, AutoName
  <2> QED
    BY <1>2, <1>5, <2>2
<1> QED
  BY <1>1, <1>2, <1>3, <1>4, <1>5, <1>6, <1>7, <1>8, <1>9, IdAssumption

LEMMA UserFacts ==
    ASSUME TypeOK, NEW x \in users
    PROVE  /\ x.mx \in MatrixIds /\ x.name \in TomsgNames
           /\ IsPuppet(x) => /\ x.name \in Puppetable /\ x = PuppetUser(x.name)
                             /\ x.mx = Puppet(x.name)
           /\ ~IsPuppet(x) => x \in UserType
<1>1. CASE x \in UserType
  BY <1>1 DEF UserType, IsPuppet
<1>2. CASE x \in PuppetType
  BY <1>2, IdFacts DEF PuppetType, PuppetUser, User, IsPuppet
<1> QED
  BY <1>1, <1>2 DEF TypeOK

LEMMA MadeFacts ==
    /\ \A n : /\ PuppetUser(n).name = n /\ PuppetUser(n).mx = Puppet(n)
              /\ IsPuppet(PuppetUser(n)) /\ Pair(PuppetUser(n)) = <<Puppet(n), n>>
    /\ \A m \in MatrixIds, n \in TomsgNames, k \in {"given", "auto"} :
        /\ User(m, n, k) \in UserType /\ ~IsPuppet(User(m, n, k))
        /\ User(m, n, k).mx = m /\ User(m, n, k).name = n /\ User(m, n, k).kind = k
        /\ Pair(User(m, n, k)) = <<m, n>>
  BY DEF PuppetUser, User, IsPuppet, Pair, UserType

LEMMA IsRow ==
    \A r \in UserType : /\ r.mx \in MatrixIds /\ r.name \in TomsgNames
                        /\ r.kind \in {"given", "auto"} /\ ~IsPuppet(r)
  BY DEF UserType, IsPuppet

LEMMA RowFacts ==
    ASSUME TypeOK
    PROVE  /\ Rows \subseteq Nat
           /\ \A i \in Rows : /\ real[i] \in UserType /\ ~IsPuppet(real[i])
                              /\ real[i].mx \in MatrixIds /\ real[i].name \in TomsgNames
                              /\ real[i].kind \in {"given", "auto"}
<1>1. Rows \subseteq Nat /\ \A i \in Rows : real[i] \in UserType
  BY DEF TypeOK, Rows
<1> QED
  BY <1>1, IsRow

LEMMA AppendFacts ==
    ASSUME TypeOK, NEW r \in UserType, real' = Append(real, r)
    PROVE  /\ real' \in Seq(UserType)
           /\ Len(real) + 1 \in Nat /\ Rows' = Rows \cup {Len(real) + 1}
           /\ \A i \in Rows : real'[i] = real[i] /\ i <= Len(real) /\ i \in Nat
           /\ real'[Len(real) + 1] = r
  BY DEF TypeOK, Rows

\* A user of the process is in a row, and has no id of a puppet with their name.
LEMMA PairFacts ==
    ASSUME TypeOK, RowInv, Recorded, NEW x \in users, ~IsPuppet(x)
    PROVE  /\ \E i \in Rows : real[i] = x
           /\ \A n \in Puppetable : Pair(x) # <<Puppet(n), n>>
<1>1. PICK i \in Rows : real[i] = x
  BY DEF Recorded, Stored, Rows
<1>2. x.kind \in {"given", "auto"}
  BY <1>1, RowFacts
<1>3. CASE x.kind = "given"
  BY <1>1, <1>3, IdFacts DEF RowInv, Pair
<1>4. CASE x.kind = "auto"
  <2>1. PICK j \in 1..MaxAuto : x.name = AutoName(x.mx, j)
    BY <1>1, <1>4 DEF RowInv
  <2> QED
    BY <1>1, <2>1, IdFacts DEF Pair
<1> QED
  BY <1>1, <1>2, <1>3, <1>4

---------------------------------------------------------------------------
\* Which actions change what.

LEMMA Frame ==
    Next =>
        /\ UNCHANGED accounts \/ Register
        /\ UNCHANGED roster \/ SendInvite \/ \E n \in Names : TomsgJoin(n)
        /\ UNCHANGED puppeted \/ Create
        /\ UNCHANGED real \/ Replace \/ Insert
        /\ UNCHANGED puppets \/ TakeOver \/ Made
        /\ UNCHANGED users \/ TakeOver \/ Replace \/ Insert \/ Made \/ Crash \/ Restart
        /\ UNCHANGED up \/ Crash \/ Restart
        /\ UNCHANGED <<rows, participants>> \/ TakeOver \/ Invite \/ Made \/ EndList \/ Crash
                \/ Restart \/ (\E b \in bound : BeginMembers(b))
                \/ (\E n \in roster : BeginJoinPush(n))
        /\ UNCHANGED bound \/ BeginLogin \/ Replace \/ BeginEvent \/ Insert \/ Invite
                \/ Crash \/ Restart
        /\ UNCHANGED faults \/ Panic \/ Crash
<1> SUFFICES ASSUME Next PROVE
        /\ UNCHANGED accounts \/ Register
        /\ UNCHANGED roster \/ SendInvite \/ \E n \in Names : TomsgJoin(n)
        /\ UNCHANGED puppeted \/ Create
        /\ UNCHANGED real \/ Replace \/ Insert
        /\ UNCHANGED puppets \/ TakeOver \/ Made
        /\ UNCHANGED users \/ TakeOver \/ Replace \/ Insert \/ Made \/ Crash \/ Restart
        /\ UNCHANGED up \/ Crash \/ Restart
        /\ UNCHANGED <<rows, participants>> \/ TakeOver \/ Invite \/ Made \/ EndList \/ Crash
                \/ Restart \/ (\E b \in bound : BeginMembers(b))
                \/ (\E n \in roster : BeginJoinPush(n))
        /\ UNCHANGED bound \/ BeginLogin \/ Replace \/ BeginEvent \/ Insert \/ Invite
                \/ Crash \/ Restart
        /\ UNCHANGED faults \/ Panic \/ Crash
  OBVIOUS
<1> USE DEF servers, disk, memory, bounds
<1>1. CASE Environment
  BY <1>1 DEF Environment, TomsgJoin, SendLogin, SendEvent, CopyAsPuppet
<1>2. CASE BeginLogin \/ TakeOver \/ Leave \/ Replace \/ Reply
  BY <1>2 DEF BeginLogin, TakeOver, Leave, Replace, Reply
<1>3. CASE BeginEvent \/ Register \/ Insert
  BY <1>3 DEF BeginEvent, Register, Insert
<1>4. CASE Invite \/ NoInviter \/ SendInvite
  BY <1>4 DEF Invite, NoInviter, SendInvite
<1>5. CASE \/ \E b \in bound : BeginMembers(b)
           \/ \E n \in roster : BeginJoinPush(n)
           \/ \E n \in todo : ListMember(n)
  BY <1>5 DEF BeginMembers, BeginJoinPush, ListMember
<1>6. CASE Create \/ CreateTaken \/ Made \/ Join \/ JoinRefused \/ EndList
  BY <1>6 DEF Create, CreateTaken, Made, Join, JoinRefused, EndList
<1>7. CASE Panic \/ Crash \/ Restart
  BY <1>7 DEF Panic, Crash, Restart
<1> QED
  BY <1>1, <1>2, <1>3, <1>4, <1>5, <1>6, <1>7 DEF Next, HandlerStep, Connection

---------------------------------------------------------------------------
\* Start of the process.

LEMMA WinnerFacts ==
    ASSUME TypeOK, HasEnds, NEW i \in Rows
    PROVE  Winner(real[i].name) \in Rows /\ real[Winner(real[i].name)].name = real[i].name
<1> DEFINE n == real[i].name
<1>1. n \in TomsgNames /\ i \in Named(n)
  BY RowFacts DEF Named
<1>2. Winner(n) = IF Given(n) # {} THEN CHOOSE j \in Given(n) : \A k \in Given(n) : k <= j
                                   ELSE CHOOSE j \in Named(n) : \A k \in Named(n) : j <= k
  BY DEF Winner, Given, Named, Rows
<1> HIDE DEF n
<1>3. CASE Given(n) # {}
  <2>1. \E j \in Given(n) : \A k \in Given(n) : k <= j
    BY <1>1, <1>3 DEF HasEnds
  <2>2. Winner(n) \in Given(n)
    BY <1>2, <1>3, <2>1
  <2> QED
    BY <2>2 DEF Given, Named, n
<1>4. CASE Given(n) = {}
  <2>1. \E j \in Named(n) : \A k \in Named(n) : j <= k
    BY <1>1 DEF HasEnds
  <2>2. Winner(n) \in Named(n)
    BY <1>2, <1>4, <2>1
  <2> QED
    BY <2>2 DEF Named, n
<1> QED
  BY <1>3, <1>4

LEMMA LoadedFacts ==
    ASSUME TypeOK, HasEnds
    PROVE  /\ \A i \in Rows : \E j \in Rows : real[j].name = real[i].name /\ real[j] \in Loaded
           /\ \A x \in Loaded : \/ \E j \in Rows : x = real[j]
                                \/ \E n \in puppets : x = PuppetUser(n) /\ ~HasRow(n)
           /\ \A n \in puppets : HasRow(n) \/ PuppetUser(n) \in Loaded
<1> DEFINE N == {real[i].name : i \in Rows}
<1>1. Loaded = {real[Winner(n)] : n \in N} \cup {PuppetUser(n) : n \in puppets \ N}
  BY DEF Loaded, Rows
<1>2. \A n : n \in N <=> HasRow(n)
  BY DEF HasRow
<1> QED
  BY <1>1, <1>2, WinnerFacts

---------------------------------------------------------------------------
\* Types.

LEMMA Booleans == up \in BOOLEAN /\ push \in BOOLEAN /\ [Next]_vars => up' \in BOOLEAN /\ push' \in BOOLEAN
<1> SUFFICES ASSUME up \in BOOLEAN, push \in BOOLEAN, [Next]_vars
             PROVE  up' \in BOOLEAN /\ push' \in BOOLEAN
  OBVIOUS
<1>1. up' = up \/ up' = TRUE \/ up' = FALSE
  BY Frame DEF Crash, Restart, vars
<1>2. push' = push \/ push' = TRUE \/ push' = FALSE
  <2> USE DEF local, Release, Go, Finish, ToReply
  <2>1. CASE Environment
    BY <2>1 DEF Environment, TomsgJoin, SendLogin, SendEvent, CopyAsPuppet
  <2>2. CASE HandlerStep
    BY <2>2 DEF HandlerStep, BeginLogin, TakeOver, Leave, Replace, Reply, BeginEvent, Register, Insert,
       Invite, NoInviter, SendInvite
  <2>3. CASE Connection
    BY <2>3 DEF Connection, BeginMembers, BeginJoinPush, ListMember, Create, CreateTaken, Made,
       Join, JoinRefused, EndList
  <2>4. CASE Panic \/ Crash \/ Restart \/ UNCHANGED vars
    BY <2>4 DEF Panic, Crash, Restart, vars
  <2> QED
    BY <2>1, <2>2, <2>3, <2>4 DEF Next
<1> QED
  BY <1>1, <1>2

\* TypeOK without the booleans.
ServerType ==
    /\ accounts \subseteq TomsgNames /\ roster \subseteq TomsgNames
    /\ puppeted \subseteq Puppetable
    /\ joined \subseteq MatrixIds /\ unseen \subseteq MatrixIds
    /\ txn \in EventType \cup {None}

DataType ==
    /\ real \in Seq(UserType)
    /\ puppets \subseteq Puppetable
    /\ rows \subseteq MatrixIds \X TomsgNames
    /\ users \subseteq UserType \cup PuppetType
    /\ participants \subseteq MatrixIds \X TomsgNames
    /\ bound \subseteq MatrixIds \X TomsgNames

HolderType ==
    /\ step \in Steps /\ mx \in MatrixIds \cup {None}
    /\ name \in TomsgNames \cup {None}
    /\ todo \subseteq TomsgNames /\ res \subseteq Puppetable
    /\ logins \in Nat /\ faults \in Nat
    /\ astray \subseteq MatrixIds \X TomsgNames

LEMMA TypeParts ==
    TypeOK <=> ServerType /\ DataType /\ HolderType /\ up \in BOOLEAN /\ push \in BOOLEAN
  BY DEF TypeOK, ServerType, DataType, HolderType

LEMMA TxnFacts ==
    ASSUME TypeOK, txn # None
    PROVE  /\ txn.kind \in {"login", "room"}
           /\ txn.kind = "login" => txn.mx \in Users /\ txn.name \in Names \cup {None}
           /\ txn.mx \in MatrixIds
<1>1. \A ev \in EventType :
        /\ ev.kind \in {"login", "room"}
        /\ ev.kind = "login" => ev.mx \in Users /\ ev.name \in Names \cup {None}
        /\ ev.mx \in MatrixIds
  BY IdFacts DEF EventType
<1> QED
  BY <1>1 DEF TypeOK

LEMMA ServerStep == TypeOK /\ HolderInv /\ Next => ServerType'
<1> SUFFICES ASSUME TypeOK, HolderInv, Next PROVE ServerType'
  OBVIOUS
<1>1. accounts' \subseteq TomsgNames
  BY Frame, IdFacts DEF Register, TypeOK, HolderInv
<1>2. roster' \subseteq TomsgNames
  <2>1. ASSUME SendInvite PROVE roster' \subseteq TomsgNames
    <3>1. name \in TomsgNames
      BY <2>1, UserFacts DEF SendInvite, HolderInv, Pair
    <3> QED
      BY <2>1, <3>1 DEF SendInvite, TypeOK
  <2> QED
    BY Frame, IdFacts, <2>1 DEF TomsgJoin, TypeOK
<1>3. puppeted' \subseteq Puppetable
  BY Frame DEF Create, TypeOK, HolderInv
<1>4. joined' \subseteq MatrixIds /\ unseen' \subseteq MatrixIds /\ txn' \in EventType \cup {None}
  <2> USE DEF TypeOK, servers, Release, Go, Finish, ToReply
  <2>1. CASE \E n \in Names : TomsgJoin(n)
    BY <2>1 DEF TomsgJoin
  <2>2. ASSUME NEW u \in Users, NEW n \in Names \cup {None}, SendLogin(u, n)
        PROVE  joined' \subseteq MatrixIds /\ unseen' \subseteq MatrixIds
               /\ txn' \in EventType \cup {None}
    BY <2>2 DEF SendLogin, EventType
  <2>3. ASSUME NEW m \in MatrixIds, SendEvent(m)
        PROVE  joined' \subseteq MatrixIds /\ unseen' \subseteq MatrixIds
               /\ txn' \in EventType \cup {None}
    BY <2>3 DEF SendEvent, EventType
  <2>4. ASSUME NEW n \in Puppetable, CopyAsPuppet(n)
        PROVE  joined' \subseteq MatrixIds /\ unseen' \subseteq MatrixIds
               /\ txn' \in EventType \cup {None}
    BY <2>4, IdFacts DEF CopyAsPuppet
  <2>5. CASE HandlerStep
    BY <2>5 DEF HandlerStep, BeginLogin, TakeOver, Leave, Replace, Reply, BeginEvent, Register, Insert,
       Invite, NoInviter, SendInvite
  <2>6. CASE Join
    BY <2>6, IdFacts DEF Join, HolderInv
  <2>7. CASE \/ \E b \in bound : BeginMembers(b)
             \/ \E n \in roster : BeginJoinPush(n)
             \/ \E n \in todo : ListMember(n)
             \/ Create \/ CreateTaken \/ Made \/ JoinRefused \/ EndList
    BY <2>7 DEF BeginMembers, BeginJoinPush, ListMember, Create, CreateTaken, Made, JoinRefused,
       EndList
  <2>8. CASE Panic \/ Crash \/ Restart
    BY <2>8 DEF Panic, Crash, Restart
  <2> QED
    BY <2>1, <2>2, <2>3, <2>4, <2>5, <2>6, <2>7, <2>8 DEF Next, Environment, Connection
<1> QED
  BY <1>1, <1>2, <1>3, <1>4 DEF ServerType

\* What login does to the users: the one of before goes, the new one comes.
LEMMA ReplaceFacts ==
    ASSUME TypeOK, HolderInv, Replace
    PROVE  /\ mx \in Users /\ name \in Names /\ User(mx, name, "given") \in UserType
           /\ users' \subseteq users \cup {User(mx, name, "given")}
           /\ \A x \in users : x.mx # mx => x \in users'
           /\ \/ UNCHANGED real /\ users' \subseteq users
                 /\ \E y \in users' : y.mx = mx /\ Bind(mx, y.name)
              \/ /\ real' = Append(real, User(mx, name, "given"))
                 /\ User(mx, name, "given") \in users'
                 /\ Bind(mx, name)
<1> DEFINE new == User(mx, name, "given")
<1>1. mx \in Users /\ name \in Names /\ new \in UserType
  BY IdFacts, MadeFacts DEF Replace, HolderInv
<1>2. PICK rest \in SUBSET users :
        /\ \A x \in users : x.mx # mx => x \in rest
        /\ \/ \E y \in rest : /\ y.mx = mx /\ users' = rest
                              /\ Bind(mx, y.name) /\ UNCHANGED real
           \/ /\ real' = Append(real, new) /\ users' = rest \cup {new}
              /\ Bind(mx, name)
  <2>1. PICK rest \in IF ByMx(mx) = {} THEN {users} ELSE {users \ {x} : x \in ByMx(mx)} :
          \/ \E y \in {y \in rest : y.mx = mx} : /\ users' = rest
                                                 /\ Bind(mx, y.name) /\ UNCHANGED real
          \/ /\ real' = Append(real, new) /\ users' = rest \cup {new}
             /\ Bind(mx, name)
    BY Zenon DEF Replace
  <2>2. rest \in SUBSET users /\ \A x \in users : x.mx # mx => x \in rest
    BY <2>1 DEF ByMx
  <2> QED
    BY <2>1, <2>2
<1> QED
  BY <1>1, <1>2

LEMMA DataStep == TypeOK /\ HasEnds /\ HolderInv /\ BoundToUser /\ Next => DataType'
<1> SUFFICES ASSUME TypeOK, HasEnds, HolderInv, BoundToUser, Next PROVE DataType'
  OBVIOUS
<1>1. step \in {"create", "made", "join"} =>
        name \in Puppetable /\ name \in TomsgNames /\ Puppet(name) \in MatrixIds
        /\ PuppetUser(name) \in PuppetType
  BY IdFacts DEF HolderInv, PuppetType
<1>2. step = "insert" => name \in TomsgNames /\ mx \in MatrixIds /\ User(mx, name, "auto") \in UserType
  BY IdFacts, MadeFacts DEF HolderInv
<1>3. step = "invite" => name \in TomsgNames /\ mx \in MatrixIds
  BY UserFacts DEF HolderInv, Pair
<1>4. real' \in Seq(UserType)
  BY <1>2, Frame, ReplaceFacts, AppendFacts DEF Insert, Record, TypeOK
<1>5. puppets' \subseteq Puppetable
  BY <1>1, Frame DEF TakeOver, Made, TypeOK
<1>6. users' \subseteq UserType \cup PuppetType
  <2> USE DEF TypeOK
  <2>1. CASE TakeOver
    BY <2>1 DEF TakeOver
  <2>2. CASE Replace
    BY <2>2, ReplaceFacts
  <2>3. CASE Insert
    BY <1>2, <2>3 DEF Insert, Record
  <2>4. CASE Made
    BY <1>1, <2>4 DEF Made
  <2>5. CASE Crash
    BY <2>5 DEF Crash
  <2>6. CASE Restart
    <3>1. Loaded \subseteq UserType \cup PuppetType
      BY LoadedFacts, RowFacts DEF PuppetType
    <3> QED
      BY <2>6, <3>1 DEF Restart
  <2> QED
    BY <2>1, <2>2, <2>3, <2>4, <2>5, <2>6, Frame
<1>7. rows' \subseteq MatrixIds \X TomsgNames /\ participants' \subseteq MatrixIds \X TomsgNames
  <2> USE DEF TypeOK
  <2>1. CASE TakeOver
    BY <2>1 DEF TakeOver, RowsWithout
  <2>2. CASE Invite
    BY <1>3, <2>2 DEF Invite, InsertUser
  <2>3. CASE Made
    BY <1>1, <2>3 DEF Made, InsertUser
  <2>4. CASE EndList
    <3>1. {<<Puppet(n), n>> : n \in res} \subseteq MatrixIds \X TomsgNames
      BY IdFacts DEF HolderInv
    <3> QED
      BY <2>4, <3>1 DEF EndList, InsertUser
  <2>5. CASE Crash \/ Restart
    BY <2>5 DEF Crash, Restart, disk
  <2>6. CASE \E b \in bound : BeginMembers(b)
    BY <2>6 DEF BeginMembers, InsertUser
  <2>7. ASSUME NEW n \in roster, BeginJoinPush(n)
        PROVE  rows' \subseteq MatrixIds \X TomsgNames /\ participants' \subseteq MatrixIds \X TomsgNames
    <3>1. (\E x \in ByName(n) : IsPuppet(x)) => Puppet(n) \in MatrixIds /\ n \in TomsgNames
      BY UserFacts, IdFacts DEF ByName
    <3> QED
      BY <2>7, <3>1 DEF BeginJoinPush, InsertUser
  <2> QED
    BY <2>1, <2>2, <2>3, <2>4, <2>5, <2>6, <2>7, Frame
<1>8. bound' \subseteq MatrixIds \X TomsgNames
  <2> USE DEF TypeOK
  <2>0. \A m \in MatrixIds, n \in TomsgNames : EnsureConnection(m, n) \/ Bind(m, n) =>
            bound' \subseteq MatrixIds \X TomsgNames
    BY DEF EnsureConnection, Bind
  <2>1. CASE BeginLogin
    BY <2>0, <2>1, UserFacts DEF BeginLogin, ByMx
  <2>2. CASE Replace
    BY <2>0, <2>2, ReplaceFacts, UserFacts, IdFacts
  <2>3. CASE BeginEvent
    BY <2>0, <2>3, UserFacts DEF BeginEvent, ByMx
  <2>4. CASE Insert
    BY <1>2, <2>0, <2>4 DEF Insert
  <2>5. CASE Invite
    BY <2>0, <2>5, UserFacts DEF Invite
  <2>6. CASE Crash
    BY <2>6 DEF Crash
  <2>7. CASE Restart
    <3>1. \A x \in Loaded : Pair(x) \in MatrixIds \X TomsgNames \/ IsPuppet(x)
      BY LoadedFacts, RowFacts, MadeFacts DEF Pair
    <3> QED
      BY <2>7, <3>1 DEF Restart
  <2> QED
    BY <2>1, <2>2, <2>3, <2>4, <2>5, <2>6, <2>7, Frame
<1> QED
  BY <1>4, <1>5, <1>6, <1>7, <1>8 DEF DataType

LEMMA HolderTypeStep == TypeOK /\ HolderInv /\ Next => HolderType'
<1> SUFFICES ASSUME TypeOK, HolderInv, Next PROVE HolderType'
  OBVIOUS
<1> USE DEF TypeOK, HolderType, Steps, local, bounds, Release, Go, Finish, ToReply
<1>1. faults' \in Nat /\ logins' \in Nat /\ astray' \subseteq MatrixIds \X TomsgNames
  <2>0. step = "send" => <<mx, name>> \in MatrixIds \X TomsgNames
    BY UserFacts DEF HolderInv, Pair
  <2>1. faults' \in Nat
    BY Frame DEF Panic, Crash, Fault
  <2>2. CASE Environment
    BY <2>2 DEF Environment, TomsgJoin, SendLogin, SendEvent, CopyAsPuppet
  <2>3. CASE HandlerStep
    BY <2>0, <2>1, <2>3 DEF HandlerStep, BeginLogin, TakeOver, Leave, Replace, Reply, BeginEvent,
       Register, Insert, Invite, NoInviter, SendInvite
  <2>4. CASE Connection
    BY <2>1, <2>4 DEF Connection, BeginMembers, BeginJoinPush, ListMember, Create, CreateTaken,
       Made, Join, JoinRefused, EndList
  <2>5. CASE Panic \/ Crash \/ Restart
    BY <2>1, <2>5 DEF Panic, Crash, Restart
  <2> QED
    BY <2>1, <2>2, <2>3, <2>4, <2>5 DEF Next
<1>2. CASE Environment
  BY <1>1, <1>2 DEF Environment, TomsgJoin, SendLogin, SendEvent, CopyAsPuppet
<1>3. CASE BeginLogin
  BY <1>1, <1>3, TxnFacts, IdFacts DEF BeginLogin
<1>4. CASE TakeOver \/ Leave \/ Replace \/ Reply
  BY <1>1, <1>4 DEF TakeOver, Leave, Replace, Reply
<1>5. CASE BeginEvent
  BY <1>1, <1>5, TxnFacts, UserFacts DEF BeginEvent, ByMx
<1>6. CASE Register
  BY <1>1, <1>6, IdFacts DEF Register, HolderInv
<1>7. CASE Insert \/ Invite \/ NoInviter \/ SendInvite
  BY <1>1, <1>7 DEF Insert, Invite, NoInviter, SendInvite
<1>8. CASE \E b \in bound : BeginMembers(b)
  BY <1>1, <1>8 DEF BeginMembers
<1>9. CASE (\E n \in roster : BeginJoinPush(n)) \/ (\E n \in todo : ListMember(n))
  BY <1>1, <1>9 DEF BeginJoinPush, ListMember
<1>10. CASE Create \/ CreateTaken \/ Made \/ JoinRefused \/ EndList
  BY <1>1, <1>10 DEF Create, CreateTaken, Made, JoinRefused, EndList
<1>11. CASE Join
  BY <1>1, <1>11 DEF Join, HolderInv
<1>12. CASE Panic \/ Crash \/ Restart
  BY <1>1, <1>12 DEF Panic, Crash, Restart
<1> QED
  BY <1>2, <1>3, <1>4, <1>5, <1>6, <1>7, <1>8, <1>9, <1>10, <1>11, <1>12
     DEF Next, HandlerStep, Connection

LEMMA TypeStep == TypeOK /\ HasEnds /\ HolderInv /\ BoundToUser /\ [Next]_vars => TypeOK'
<1> SUFFICES ASSUME TypeOK, HasEnds, HolderInv, BoundToUser, [Next]_vars PROVE TypeOK'
  OBVIOUS
<1>1. up' \in BOOLEAN /\ push' \in BOOLEAN
  BY TypeParts, Booleans
<1>2. CASE UNCHANGED vars
  BY <1>2 DEF vars, TypeOK, servers, disk, memory, local, bounds
<1>3. CASE Next
  <2>1. ServerType' /\ DataType' /\ HolderType'
    BY <1>3, ServerStep, DataStep, HolderTypeStep
  <2> QED
    BY <1>1, <2>1, Zenon DEF TypeOK, ServerType, DataType, HolderType
<1> QED
  BY <1>2, <1>3

---------------------------------------------------------------------------
\* Rows of real_users.

LEMMA RealStep ==
    ASSUME TypeOK, HolderInv, Next
    PROVE  \/ UNCHANGED real /\ ~Insert /\ (Replace => users' \subseteq users)
           \/ \E r \in UserType :
                /\ real' = Append(real, r) /\ r.mx = mx /\ r.name = name
                /\ r \in users' /\ users' \subseteq users \cup {r}
                /\ \/ Replace /\ step = "replace" /\ r.kind = "given"
                   \/ Insert /\ step = "insert" /\ r.kind = "auto" /\ users' = users \cup {r}
<1>1. CASE Replace
  <2> DEFINE r == User(mx, name, "given")
  <2>1. /\ r \in UserType /\ r.mx = mx /\ r.name = name /\ r.kind = "given"
        /\ step = "replace"
    <3>1. mx \in MatrixIds /\ name \in TomsgNames
      BY <1>1, ReplaceFacts, IdFacts
    <3>2. step = "replace"
      BY <1>1 DEF Replace
    <3> QED
      BY <3>1, <3>2, MadeFacts
  <2>2. \/ UNCHANGED real /\ users' \subseteq users
        \/ real' = Append(real, r) /\ r \in users' /\ users' \subseteq users \cup {r}
    BY <1>1, ReplaceFacts
  <2>3. ~Insert
    BY <2>1 DEF Insert
  <2> HIDE DEF r
  <2> QED
    BY <1>1, <2>1, <2>2, <2>3
<1>2. CASE Insert
  <2> DEFINE r == User(mx, name, "auto")
  <2>1. name \in TomsgNames /\ mx \in MatrixIds
    BY <1>2, IdFacts DEF Insert, HolderInv
  <2>2. real' = Append(real, r) /\ users' = users \cup {r} /\ step = "insert"
    BY <1>2 DEF Insert, Record
  <2>3. r \in UserType /\ r.mx = mx /\ r.name = name /\ r.kind = "auto"
    BY <2>1, MadeFacts
  <2> HIDE DEF r
  <2> QED
    BY <1>2, <2>2, <2>3
<1> QED
  BY <1>1, <1>2, Frame

LEMMA RowStep == TypeOK /\ RowInv /\ HolderInv /\ RosterInv /\ Next => RowInv'
<1> SUFFICES ASSUME TypeOK, RowInv, HolderInv, RosterInv, Next PROVE RowInv'
  OBVIOUS
<1>1. accounts \subseteq accounts'
  BY Frame DEF Register
<1>2. CASE UNCHANGED real
  BY <1>1, <1>2 DEF RowInv, Rows
<1>3. ASSUME NEW r \in UserType, real' = Append(real, r), r.mx = mx, r.name = name,
             \/ Replace /\ step = "replace" /\ r.kind = "given"
             \/ Insert /\ step = "insert" /\ r.kind = "auto"
      PROVE  RowInv'
  <2>1. /\ r.name \in accounts
        /\ r.kind = "given" => r.mx \in Users /\ r.name \in Names
        /\ r.kind = "auto" => \E j \in 1..MaxAuto : r.name = AutoName(r.mx, j)
    BY <1>3 DEF HolderInv, RosterInv
  <2>2. \A i \in Rows' : real'[i] = r \/ (i \in Rows /\ real'[i] = real[i])
    BY <1>3, AppendFacts
  <2> QED
    BY <1>1, <2>1, <2>2 DEF RowInv
<1> QED
  BY <1>2, <1>3, RealStep

LEMMA EndsStep == TypeOK /\ HolderInv /\ HasEnds /\ Next => HasEnds'
<1> SUFFICES ASSUME TypeOK, HolderInv, HasEnds, Next PROVE HasEnds'
  OBVIOUS
<1>1. CASE UNCHANGED real
  BY <1>1 DEF HasEnds, Named, Given, Rows
<1>2. ASSUME NEW r \in UserType, real' = Append(real, r) PROVE HasEnds'
  <2> DEFINE k == Len(real) + 1
  <2>1. /\ Rows' = Rows \cup {k} /\ real'[k] = r
        /\ k \in Nat /\ \A i \in Rows : real'[i] = real[i] /\ i \in Nat /\ i < k
    <3>1. Len(real) \in Nat
      BY DEF TypeOK
    <3>2. k \in Nat /\ Rows' = Rows \cup {k} /\ real'[k] = r
      BY <1>2, AppendFacts
    <3>3. \A i \in Rows : real'[i] = real[i] /\ i \in Nat /\ i <= Len(real)
      BY <1>2, AppendFacts
    <3> QED
      BY <3>1, <3>2, <3>3
  <2> HIDE DEF k
  <2> SUFFICES ASSUME NEW n \in TomsgNames
               PROVE  /\ Named(n)' = {} \/ \E i \in Named(n)' : \A j \in Named(n)' : i <= j
                      /\ Given(n)' = {} \/ \E i \in Given(n)' : \A j \in Given(n)' : j <= i
    BY DEF HasEnds
  <2>2. Named(n)' = IF r.name = n THEN Named(n) \cup {k} ELSE Named(n)
    BY <2>1 DEF Named
  <2>3. Given(n)' = IF r.name = n /\ r.kind = "given" THEN Given(n) \cup {k} ELSE Given(n)
    BY <2>1, <2>2 DEF Named, Given
  <2>4. Named(n) \subseteq Rows /\ Given(n) \subseteq Rows
    BY DEF Named, Given
  <2>5. Named(n)' = {} \/ \E i \in Named(n)' : \A j \in Named(n)' : i <= j
    <3>1. CASE Named(n)' = Named(n)
      BY <3>1 DEF HasEnds
    <3>2. CASE Named(n)' = Named(n) \cup {k} /\ Named(n) = {}
      BY <2>1, <3>2
    <3>3. CASE Named(n)' = Named(n) \cup {k} /\ Named(n) # {}
      BY <2>1, <2>4, <3>3 DEF HasEnds
    <3> QED
      BY <2>2, <3>1, <3>2, <3>3
  <2>6. Given(n)' = {} \/ \E i \in Given(n)' : \A j \in Given(n)' : j <= i
    <3>1. CASE Given(n)' = Given(n)
      BY <3>1 DEF HasEnds
    <3>2. CASE Given(n)' = Given(n) \cup {k}
      BY <2>1, <2>4, <3>2
    <3> QED
      BY <2>3, <3>1, <3>2
  <2> QED
    BY <2>5, <2>6
<1> QED
  BY <1>1, <1>2, RealStep

---------------------------------------------------------------------------
\* Memory, disk and connections.

LEMMA DownStep == TypeOK /\ DownInv /\ HolderInv /\ Next => DownInv'
<1> SUFFICES ASSUME TypeOK, DownInv, HolderInv, Next, ~up' PROVE DownInv'
  BY DEF DownInv
<1>1. CASE Crash
  BY <1>1 DEF Crash, Release, Go, Fault, DownInv, TypeOK
<1>2. CASE ~up
  <2> USE DEF DownInv, TypeOK
  <2>1. CASE Environment
    BY <1>2, <2>1 DEF Environment, TomsgJoin, SendLogin, SendEvent, CopyAsPuppet, memory, local, bounds
  <2>2. CASE HandlerStep
    BY <1>2, <2>2 DEF HandlerStep, BeginLogin, TakeOver, Leave, Replace, Reply, BeginEvent, Register,
       Insert, Invite, NoInviter, SendInvite
  <2>3. CASE Connection
    BY <1>2, <2>3 DEF Connection, BeginMembers, BeginJoinPush, ListMember, Create, CreateTaken,
       Made, Join, JoinRefused, EndList, HolderInv
  <2>4. CASE Panic
    BY <1>2, <2>4 DEF Panic
  <2> QED
    BY <1>1, <2>1, <2>2, <2>3, <2>4 DEF Next, Restart
<1> QED
  BY <1>1, <1>2, Frame DEF Restart

LEMMA RecordedStep ==
    TypeOK /\ HasEnds /\ HolderInv /\ PuppetOrReal /\ Recorded /\ Next => Recorded'
<1> SUFFICES ASSUME TypeOK, HasEnds, HolderInv, Recorded, Next PROVE Recorded'
  OBVIOUS
<1>0. /\ \A x \in users : IsPuppet(x) => x.name \in puppets
      /\ \A x \in users : ~IsPuppet(x) => x \in Stored
      /\ participants \subseteq rows
      /\ Stored \subseteq Stored'
  <2>1. Stored \subseteq Stored'
    <3>1. CASE UNCHANGED real
      BY <3>1 DEF Stored
    <3>2. ASSUME NEW r \in UserType, real' = Append(real, r) PROVE Stored \subseteq Stored'
      BY <3>2, AppendFacts DEF Stored, Rows
    <3> QED
      BY <3>1, <3>2, RealStep
  <2> QED
    BY <2>1 DEF Recorded
<1>1. \A x \in users' : IF IsPuppet(x) THEN x.name \in puppets' ELSE x \in Stored'
  <2>1. CASE UNCHANGED users /\ UNCHANGED puppets
    BY <1>0, <2>1
  <2>2. CASE TakeOver
    <3>1. \A x \in users : x.name = name /\ IsPuppet(x) => x = PuppetUser(name)
      BY UserFacts
    <3> QED
      BY <1>0, <2>2, <3>1 DEF TakeOver, ByName
  <2>3. CASE Replace \/ Insert
    <3>1. UNCHANGED puppets
      BY <2>3 DEF Replace, Insert
    <3>2. \A x \in users' : x \in users \/ (~IsPuppet(x) /\ x \in Stored')
      <4>1. CASE UNCHANGED real /\ users' \subseteq users
        BY <4>1
      <4>2. ASSUME NEW r \in UserType, real' = Append(real, r), users' \subseteq users \cup {r}
            PROVE  \A x \in users' : x \in users \/ (~IsPuppet(x) /\ x \in Stored')
        BY <4>2, AppendFacts DEF Stored, Rows, UserType, IsPuppet
      <4> QED
        BY <2>3, <4>1, <4>2, RealStep
    <3> QED
      BY <1>0, <3>1, <3>2
  <2>4. CASE Made
    BY <1>0, <2>4, MadeFacts DEF Made
  <2>5. CASE Crash
    BY <2>5 DEF Crash
  <2>6. CASE Restart
    <3>1. \A x \in Loaded : IF IsPuppet(x) THEN x.name \in puppets ELSE x \in Stored
      BY LoadedFacts, RowFacts, MadeFacts DEF Stored, Rows
    <3> QED
      BY <1>0, <2>6, <3>1 DEF Restart, disk
  <2> QED
    BY <2>1, <2>2, <2>3, <2>4, <2>5, <2>6, Frame
<1>2. participants' \subseteq rows'
  <2>1. CASE TakeOver
    <3>1. \A p \in rows, x \in users : p[2] # x.mx
      BY UserFacts, IdFacts DEF TypeOK
    <3>2. \A x \in users : RowsWithout(x) = rows
      BY <3>1 DEF RowsWithout
    <3> QED
      BY <1>0, <2>1, <3>2 DEF TakeOver, ByName
  <2>2. CASE Invite \/ Made \/ EndList
    BY <1>0, <2>2 DEF Invite, Made, EndList, InsertUser
  <2>3. CASE Crash \/ Restart
    BY <2>3 DEF Crash, Restart, disk
  <2>4. CASE (\E b \in bound : BeginMembers(b)) \/ (\E n \in roster : BeginJoinPush(n))
    BY <1>0, <2>4 DEF BeginMembers, BeginJoinPush, InsertUser
  <2> QED
    BY <1>0, <2>1, <2>2, <2>3, <2>4, Frame
<1> QED
  BY <1>1, <1>2 DEF Recorded

LEMMA PuppetOrRealStep ==
    TypeOK /\ HasEnds /\ HolderInv /\ PuppetOrReal /\ Next => PuppetOrReal'
<1> SUFFICES ASSUME TypeOK, HasEnds, HolderInv, PuppetOrReal, Next PROVE PuppetOrReal'
  OBVIOUS
<1>1. CASE users' \subseteq users
  BY <1>1 DEF PuppetOrReal
<1>2. ASSUME NEW r \in UserType, users' \subseteq users \cup {r}, r.name = name,
             \A x \in ByName(name) : ~IsPuppet(x)
      PROVE  PuppetOrReal'
  BY <1>2, IsRow DEF PuppetOrReal, ByName
<1>3. CASE Replace \/ Insert
  <2>1. step \in {"replace", "insert"} => \A x \in ByName(name) : ~IsPuppet(x)
    BY DEF HolderInv
  <2> QED
    BY <1>1, <1>2, <1>3, <2>1, RealStep
<1>4. CASE Made
  BY <1>4, MadeFacts DEF Made, HolderInv, PuppetOrReal, ByName
<1>5. CASE Restart
  <2>1. \A x, y \in Loaded : x.name = y.name => (IsPuppet(x) <=> IsPuppet(y))
    BY LoadedFacts, RowFacts, MadeFacts DEF HasRow
  <2> QED
    BY <1>5, <2>1 DEF Restart, PuppetOrReal
<1> QED
  BY <1>1, <1>3, <1>4, <1>5, Frame DEF TakeOver, Crash

LEMMA BoundStep ==
    TypeOK /\ HasEnds /\ HolderInv /\ BoundToUser /\ Next => BoundToUser'
<1> SUFFICES ASSUME TypeOK, HasEnds, HolderInv, BoundToUser, Next PROVE BoundToUser'
  OBVIOUS
<1> DEFINE RealPair(b) == \E x \in users' : ~IsPuppet(x) /\ Pair(x) = b
<1>1. /\ \A b \in bound : \E x \in users : ~IsPuppet(x) /\ Pair(x) = b
      /\ \A b, c \in bound : b[1] = c[1] => b = c
      /\ bound \subseteq MatrixIds \X TomsgNames
  BY DEF BoundToUser, TypeOK
<1>2. ASSUME users \subseteq users', NEW m, NEW n, RealPair(<<m, n>>),
             Bind(m, n) \/ EnsureConnection(m, n)
      PROVE  BoundToUser'
  <2>1. CASE Bind(m, n)
    BY <1>1, <1>2, <2>1 DEF Bind, BoundToUser
  <2>2. CASE UNCHANGED bound
    BY <1>1, <1>2, <2>2 DEF BoundToUser
  <2> QED
    BY <1>2, <2>1, <2>2 DEF EnsureConnection
<1>3. CASE UNCHANGED bound /\ \A x \in users : IsPuppet(x) \/ x \in users'
  BY <1>1, <1>3 DEF BoundToUser
<1>4. CASE BeginLogin
  BY <1>2, <1>3, <1>4 DEF BeginLogin, ByMx, Pair
<1>5. CASE BeginEvent
  BY <1>2, <1>3, <1>5 DEF BeginEvent, ByMx, Pair
<1>6. CASE Insert
  <2>1. mx \in MatrixIds /\ name \in TomsgNames
    BY <1>6, IdFacts DEF Insert, HolderInv
  <2>2. users' = users \cup {User(mx, name, "auto")}
    BY <1>6 DEF Insert, Record
  <2>3. RealPair(<<mx, name>>)
    BY <2>1, <2>2, MadeFacts
  <2> QED
    BY <1>2, <1>6, <2>2, <2>3 DEF Insert
<1>7. CASE Invite
  BY <1>2, <1>7 DEF Invite, Lender, Pair
<1>8. CASE Replace
  <2>1. PICK n : Bind(mx, n) /\ RealPair(<<mx, n>>)
    <3>1. CASE \E y \in users' : y.mx = mx /\ Bind(mx, y.name) /\ users' \subseteq users
      <4>1. PICK y \in users' : y.mx = mx /\ Bind(mx, y.name) /\ users' \subseteq users
        BY <3>1
      <4>2. ~IsPuppet(y)
        BY <1>8, <4>1, ReplaceFacts, UserFacts, IdFacts
      <4> QED
        BY <4>1, <4>2 DEF Pair
    <3>2. CASE User(mx, name, "given") \in users' /\ Bind(mx, name)
      <4>1. mx \in MatrixIds /\ name \in TomsgNames
        BY <1>8, ReplaceFacts, IdFacts
      <4> QED
        BY <3>2, <4>1, MadeFacts
    <3> QED
      BY <1>8, <3>1, <3>2, ReplaceFacts
  <2>2. \A b \in bound : b[1] # mx => RealPair(b)
    BY <1>1, <1>8, ReplaceFacts DEF Pair
  <2> QED
    BY <1>1, <2>1, <2>2 DEF Bind, BoundToUser
<1>9. CASE TakeOver
  BY <1>3, <1>9 DEF TakeOver
<1>10. CASE Made
  BY <1>3, <1>10 DEF Made
<1>11. CASE Crash
  BY <1>11 DEF Crash, BoundToUser
<1>12. CASE Restart
  <2> DEFINE R == {x \in Loaded : ~IsPuppet(x)}
  <2>1. users' = Loaded
    BY <1>12 DEF Restart
  <2>2. PICK f \in [{x.mx : x \in R} -> R] :
            /\ \A m \in DOMAIN f : f[m].mx = m
            /\ bound' = {Pair(f[m]) : m \in DOMAIN f}
    BY <1>12 DEF Restart
  <2> HIDE DEF R
  <2>3. \A m \in DOMAIN f : f[m] \in R /\ Pair(f[m])[1] = m
    BY <2>2 DEF Pair
  <2>4. \A b \in bound' : \E m \in DOMAIN f : b = Pair(f[m])
    BY <2>2
  <2>5. \A b \in bound' : RealPair(b)
    BY <2>1, <2>3, <2>4 DEF R
  <2>6. \A b, c \in bound' : b[1] = c[1] => b = c
    BY <2>3, <2>4
  <2> QED
    BY <2>5, <2>6 DEF BoundToUser
<1>13. CASE UNCHANGED bound /\ UNCHANGED users
  BY <1>3, <1>13
<1> QED
  BY <1>4, <1>5, <1>6, <1>7, <1>8, <1>9, <1>10, <1>11, <1>12, <1>13, Frame

---------------------------------------------------------------------------
\* Members of the room.

LEMMA HasRowStep ==
    ASSUME TypeOK, HolderInv, Next, NEW n, HasRow(n)
    PROVE  HasRow(n)'
<1>1. PICK i \in Rows : real[i].name = n
  BY DEF HasRow
<1>2. i \in Rows' /\ real'[i] = real[i]
  BY RealStep, AppendFacts DEF Rows
<1> QED
  BY <1>1, <1>2 DEF HasRow

LEMMA RosterStep ==
    TypeOK /\ RowInv /\ HasEnds /\ DownInv /\ HolderInv /\ Recorded /\ RosterInv /\ Next
        => RosterInv'
<1> SUFFICES ASSUME TypeOK, RowInv, HasEnds, DownInv, HolderInv, Recorded, RosterInv, Next
             PROVE  RosterInv'
  OBVIOUS
<1>1. accounts \subseteq accounts'
  BY Frame DEF Register
<1>2. SendInvite => HasRow(name) /\ name \in accounts
  <2> SUFFICES ASSUME SendInvite PROVE HasRow(name) /\ name \in accounts
    OBVIOUS
  <2>1. PICK x \in users : ~IsPuppet(x) /\ x.name = name
    BY DEF SendInvite, HolderInv, Pair
  <2> QED
    BY <2>1, PairFacts DEF HasRow, RowInv
<1>3. roster' \subseteq accounts' /\ \A n \in roster' \ Puppetable : HasRow(n)'
  <2>1. \A n \in roster' : n \in roster \/ n \in Names \/ (SendInvite /\ n = name)
    BY Frame DEF TomsgJoin, SendInvite
  <2> QED
    BY <1>1, <1>2, <2>1, HasRowStep, IdFacts DEF RosterInv
<1>4. puppets' \subseteq accounts'
  BY <1>1, Frame DEF TakeOver, Made, HolderInv, RosterInv
<1>5. ASSUME up', NEW i \in Rows', real'[i].name \notin Puppetable
      PROVE  \E x \in users' : x.name = real'[i].name /\ ~IsPuppet(x)
  <2>1. CASE Restart
    <3>1. i \in Rows /\ real' = real /\ users' = Loaded
      BY <2>1 DEF Restart, disk, Rows
    <3> QED
      BY <3>1, LoadedFacts, RowFacts
  <2>2. CASE i \in Rows /\ real'[i] = real[i] /\ ~Restart
    <3>1. up
      BY <1>5, <2>2, Frame DEF Crash
    <3>2. PICK x \in users : x.name = real[i].name /\ ~IsPuppet(x)
      BY <1>5, <2>2, <3>1 DEF RosterInv
    <3>3. x.mx \notin Users
      <4>1. PICK k \in Rows : real[k] = x
        BY <3>2, PairFacts
      <4>2. x.name \notin Puppetable /\ x.kind \in {"given", "auto"}
        BY <1>5, <2>2, <3>2, <4>1, RowFacts
      <4> QED
        BY <4>1, <4>2, IdFacts DEF RowInv
    <3>4. x \in users'
      <4>1. CASE Replace
        BY <3>3, <4>1, ReplaceFacts
      <4> QED
        BY <1>5, <2>2, <3>2, <4>1, Frame DEF TakeOver, Insert, Record, Made, Crash
    <3> QED
      BY <2>2, <3>2, <3>4
  <2>3. ASSUME NEW r \in UserType, r \in users', real'[i] = r
        PROVE  \E x \in users' : x.name = real'[i].name /\ ~IsPuppet(x)
    BY <2>3, IsRow
  <2>4. (i \in Rows /\ real'[i] = real[i]) \/ \E r \in UserType : r \in users' /\ real'[i] = r
    BY RealStep, AppendFacts DEF Rows
  <2> QED
    BY <2>1, <2>2, <2>3, <2>4
<1> QED
  BY <1>1, <1>3, <1>4, <1>5 DEF RosterInv

---------------------------------------------------------------------------
\* The holder of the lock.

LEMMA HolderIdle ==
    ASSUME step' = "idle", todo' = {}, res' = {} PROVE HolderInv'
  BY DEF HolderInv

LEMMA HolderReply ==
    ASSUME step' = "reply", todo' \subseteq roster', res' = {} PROVE HolderInv'
  BY DEF HolderInv

\* What the conjuncts for each step say, for the actions that take a step.
LEMMA HolderLogin ==
    ASSUME TypeOK, HolderInv, KickedOut, PuppetOrReal,
           BeginLogin \/ TakeOver \/ Leave \/ Replace \/ Reply
    PROVE  HolderInv'
<1>1. CASE BeginLogin
  <2>1. /\ txn.mx \in Users /\ txn.name \in Names \cup {None}
        /\ Users \subseteq MatrixIds /\ todo = {} /\ res = {} /\ txn # None /\ txn \in EventType
    BY <1>1, TxnFacts, IdFacts DEF BeginLogin, HolderInv, TypeOK
  <2>2. CASE ToReply
    BY <2>1, <2>2, HolderReply DEF ToReply, Go
  <2>3. CASE /\ txn.name # None
             /\ Go("takeover", txn.mx, txn.name)
             /\ UNCHANGED <<users, todo, res, roster>>
    BY <2>1, <2>3 DEF Go, HolderInv
  <2>4. CASE /\ ByMx(txn.mx) = {}
             /\ Go("register", txn.mx, None)
             /\ UNCHANGED <<users, todo, res, roster, txn>>
    BY <2>1, <2>4 DEF Go, HolderInv, ByMx
  <2> QED
    BY <1>1, <2>2, <2>3, <2>4 DEF BeginLogin, servers
<1>2. CASE TakeOver
  <2>1. mx \in Users /\ name \in Names /\ name \in Puppetable /\ res = {} /\ todo \subseteq roster
    BY <1>2, IdFacts DEF TakeOver, HolderInv
  <2>2. \A x \in users : x.name = name /\ IsPuppet(x) => x = PuppetUser(name)
    BY UserFacts
  <2>3. (\A x \in users' : x.name = name => ~IsPuppet(x))
        /\ (<<Puppet(name), name>> \notin participants' \/ faults' # 0)
    <3>1. ASSUME NEW x \in users, x.name = name, IsPuppet(x), users' = users \ {x},
                 participants' = participants \ {Pair(x)}
          PROVE  (\A y \in users' : y.name = name => ~IsPuppet(y))
                 /\ <<Puppet(name), name>> \notin participants'
      BY <2>2, <3>1, MadeFacts
    <3>2. ASSUME ByName(name) = {} \/ \E x \in ByName(name) : ~IsPuppet(x)
          PROVE  (\A y \in users : y.name = name => ~IsPuppet(y))
                 /\ (<<Puppet(name), name>> \notin participants \/ faults # 0)
      <4>1. \A y \in users : y.name = name => ~IsPuppet(y)
        BY <3>2 DEF ByName, PuppetOrReal
      <4>2. PuppetUser(name) \notin users
        BY <4>1, MadeFacts
      <4> QED
        BY <2>1, <4>1, <4>2 DEF KickedOut
    <3> QED
      BY <1>2, <3>1, <3>2 DEF TakeOver, ByName, bounds
  <2>4. step' \in {"leave", "replace"} /\ UNCHANGED <<mx, name, todo, res, roster>>
    BY <1>2 DEF TakeOver, servers
  <2> QED
    BY <2>1, <2>3, <2>4 DEF HolderInv, ByName
<1>3. CASE Leave
  BY <1>3 DEF Leave, HolderInv, memory, bounds, ByName
<1>4. CASE Replace
  BY <1>4, HolderReply DEF Replace, ToReply, Go, HolderInv, servers
<1>5. CASE Reply
  BY <1>5, HolderIdle DEF Reply, Finish, Release, Go
<1> QED
  BY <1>1, <1>2, <1>3, <1>4, <1>5

LEMMA HolderEvent ==
    ASSUME TypeOK, RowInv, HolderInv, RosterInv, Recorded,
           BeginEvent \/ Register \/ Insert \/ Invite \/ NoInviter \/ SendInvite
    PROVE  HolderInv'
<1>1. CASE BeginEvent
  <2>1. txn.mx \in MatrixIds /\ todo = {} /\ res = {} /\ txn # None
    BY <1>1, TxnFacts DEF BeginEvent, HolderInv
  <2>2. CASE Finish
    BY <2>2, HolderIdle DEF Finish, Release, Go
  <2>3. ASSUME NEW x \in users, x.mx = txn.mx, ~IsPuppet(x), Go("invite", txn.mx, x.name),
               UNCHANGED <<users, todo, res, roster, txn>>
        PROVE  HolderInv'
    BY <2>1, <2>3 DEF Go, HolderInv, Pair
  <2>4. CASE /\ ByMx(txn.mx) = {}
             /\ Go("register", txn.mx, None)
             /\ UNCHANGED <<users, todo, res, roster, txn>>
    BY <2>1, <2>4 DEF Go, HolderInv, ByMx
  <2> QED
    BY <1>1, <2>2, <2>3, <2>4 DEF BeginEvent, servers, ByMx
<1>2. CASE Register
  <2>1. PICK i \in 1..MaxAuto :
            /\ AutoName(mx, i) \notin accounts
            /\ accounts' = accounts \cup {AutoName(mx, i)}
            /\ Go("insert", mx, AutoName(mx, i))
    BY <1>2 DEF Register
  <2>2. /\ mx \in MatrixIds /\ txn # None /\ res = {} /\ ByMx(mx) = {} /\ todo \subseteq roster
        /\ UNCHANGED <<users, todo, res, roster, txn, real>>
    BY <1>2 DEF Register, HolderInv, memory, disk
  <2>3. AutoName(mx, i) \in accounts' \ roster'
    BY <2>1, <2>2 DEF RosterInv
  <2>4. ~HasRow(AutoName(mx, i)) /\ \A x \in users : x.name # AutoName(mx, i)
    <3>1. ~HasRow(AutoName(mx, i))
      BY <2>1 DEF HasRow, RowInv
    <3>2. ASSUME NEW x \in users PROVE x.name \in accounts
      <4>1. CASE IsPuppet(x)
        BY <4>1 DEF Recorded, RosterInv
      <4>2. CASE ~IsPuppet(x)
        BY <4>2, PairFacts DEF RowInv
      <4> QED
        BY <4>1, <4>2
    <3> QED
      BY <2>1, <3>1, <3>2
  <2> HIDE DEF AutoName
  <2> QED
    BY <2>1, <2>2, <2>3, <2>4 DEF Go, HolderInv, ByMx, ByName, HasRow, Rows
<1>3. CASE Insert
  <2>1. CASE ToReply
    BY <1>3, <2>1, HolderReply DEF Insert, ToReply, Go, HolderInv, servers
  <2>2. CASE step' = "invite" /\ UNCHANGED <<mx, name, todo, res, txn>>
    <3>1. mx \in MatrixIds /\ name \in TomsgNames /\ step = "insert"
      BY <1>3, IdFacts DEF Insert, HolderInv
    <3>2. users' = users \cup {User(mx, name, "auto")} /\ UNCHANGED roster
      BY <1>3 DEF Insert, Record, servers
    <3>3. \E x \in users' : ~IsPuppet(x) /\ Pair(x) = <<mx, name>>
      BY <3>1, <3>2, MadeFacts
    <3> QED
      BY <2>2, <3>1, <3>2, <3>3 DEF HolderInv
  <2> QED
    BY <1>3, <2>1, <2>2 DEF Insert
<1>4. CASE Invite
  BY <1>4 DEF Invite, HolderInv, servers
<1>5. CASE NoInviter \/ SendInvite
  BY <1>5, HolderIdle DEF NoInviter, SendInvite, Finish, Release, Go
<1> QED
  BY <1>1, <1>2, <1>3, <1>4, <1>5

LEMMA HolderMembers ==
    ASSUME TypeOK, DownInv, HolderInv, RosterInv, Connection
    PROVE  HolderInv'
<1>0. up => \A n \in roster : ByName(n) = {} => n \in Puppetable
  BY DEF RosterInv, HasRow, ByName
<1>1. ASSUME NEW b \in bound, BeginMembers(b) PROVE HolderInv'
  BY <1>1 DEF BeginMembers, HolderInv, Go, servers
<1>2. ASSUME NEW n \in roster, BeginJoinPush(n) PROVE HolderInv'
  <2>1. todo = {} /\ res = {} /\ up /\ UNCHANGED <<users, todo, res, roster>>
    BY <1>2 DEF BeginJoinPush, HolderInv, servers
  <2>2. CASE (\E x \in ByName(n) : IsPuppet(x)) /\ Go("join", None, n)
    <3>1. n \in Puppetable /\ PuppetUser(n) \in users
      BY <2>2, UserFacts DEF ByName
    <3> QED
      BY <2>1, <2>2, <3>1 DEF HolderInv, Go
  <2>3. CASE ByName(n) = {} /\ Go("create", None, n)
    BY <1>0, <2>1, <2>3 DEF HolderInv, Go, ByName
  <2> QED
    BY <1>2, <2>2, <2>3 DEF BeginJoinPush
<1>3. ASSUME NEW n \in todo, ListMember(n) PROVE HolderInv'
  <2>1. /\ step = "list" /\ up /\ n \in roster /\ todo' \subseteq roster'
        /\ UNCHANGED <<users, res, roster>>
    BY <1>3 DEF ListMember, HolderInv, DownInv, servers, memory
  <2>2. CASE UNCHANGED <<step, name>>
    BY <2>1, <2>2 DEF HolderInv
  <2>3. CASE (\E x \in ByName(n) : IsPuppet(x)) /\ step' = "join" /\ name' = n
    <3>1. n \in Puppetable /\ PuppetUser(n) \in users
      BY <2>3, UserFacts DEF ByName
    <3> QED
      BY <2>1, <2>3, <3>1 DEF HolderInv
  <2>4. CASE ByName(n) = {} /\ step' = "create" /\ name' = n
    BY <1>0, <2>1, <2>4 DEF HolderInv, ByName
  <2> QED
    BY <1>3, <2>2, <2>3, <2>4 DEF ListMember
<1>4. CASE Create
  BY <1>4 DEF Create, HolderInv, memory, ByName
<1>5. CASE CreateTaken \/ JoinRefused \/ EndList
  BY <1>5, HolderIdle DEF CreateTaken, JoinRefused, EndList, Release, Go
<1>6. CASE Made
  BY <1>6 DEF Made, HolderInv, servers
<1>7. CASE Join
  <2>1. CASE Release
    BY <2>1, HolderIdle DEF Release, Go
  <2>2. CASE res' = res \cup {name} /\ step' = "list" /\ UNCHANGED todo
    BY <1>7, <2>2 DEF Join, HolderInv, memory
  <2> QED
    BY <1>7, <2>1, <2>2 DEF Join
<1> QED
  BY <1>1, <1>2, <1>3, <1>4, <1>5, <1>6, <1>7 DEF Connection

LEMMA HolderStep ==
    TypeOK /\ RowInv /\ DownInv /\ HolderInv /\ RosterInv /\ Recorded /\ PuppetOrReal /\ KickedOut
        /\ Next => HolderInv'
<1> SUFFICES ASSUME TypeOK, RowInv, DownInv, HolderInv, RosterInv, Recorded, PuppetOrReal,
                    KickedOut, Next
             PROVE  HolderInv'
  OBVIOUS
<1>1. ASSUME NEW n \in Names, TomsgJoin(n) PROVE HolderInv'
  <2>1. step = "insert" => name \notin Names
    BY IdFacts DEF HolderInv
  <2> QED
    BY <1>1, <2>1 DEF TomsgJoin, HolderInv, memory, local, bounds, disk, ByName, ByMx, HasRow, Rows
<1>2. ASSUME NEW u \in Users, NEW n \in Names \cup {None}, SendLogin(u, n) PROVE HolderInv'
  BY <1>2 DEF SendLogin, HolderInv, servers, memory, local, disk, ByName, ByMx, HasRow, Rows
<1>3. ASSUME NEW m \in MatrixIds, SendEvent(m) PROVE HolderInv'
  BY <1>3 DEF SendEvent, HolderInv, memory, local, disk, bounds, ByName, ByMx, HasRow, Rows
<1>4. ASSUME NEW n \in Puppetable, CopyAsPuppet(n) PROVE HolderInv'
  BY <1>4 DEF CopyAsPuppet, HolderInv, memory, local, disk, bounds, ByName, ByMx, HasRow, Rows
<1>5. CASE HandlerStep
  BY <1>5, HolderLogin, HolderEvent DEF HandlerStep
<1>6. CASE Connection
  BY <1>6, HolderMembers
<1>7. CASE Panic \/ Crash
  BY <1>7, HolderIdle DEF Panic, Crash, Release, Go
<1>8. CASE Restart
  BY <1>8, HolderIdle DEF Restart, DownInv, HolderInv, local
<1> QED
  BY <1>1, <1>2, <1>3, <1>4, <1>5, <1>6, <1>7, <1>8 DEF Next, Environment

---------------------------------------------------------------------------
\* Puppets.

LEMMA StepFrame ==
    ASSUME DownInv, Next
    PROVE  /\ step' = "made" => Environment \/ Create
           /\ step' = "register" => Environment \/ BeginLogin \/ BeginEvent
           /\ step' = "insert" => Environment \/ Register
           /\ step' = "send" => Environment \/ Invite
<1> USE DEF Release, Go, Finish, ToReply
<1>1. CASE HandlerStep
  BY <1>1 DEF HandlerStep, BeginLogin, TakeOver, Leave, Replace, Reply, BeginEvent, Register, Insert,
     Invite, NoInviter, SendInvite
<1>2. CASE Connection
  BY <1>2 DEF Connection, BeginMembers, BeginJoinPush, ListMember, Create, CreateTaken, Made,
     Join, JoinRefused, EndList
<1>3. CASE Panic \/ Crash \/ Restart
  BY <1>3 DEF Panic, Crash, Restart, DownInv, local
<1> QED
  BY <1>1, <1>2, <1>3 DEF Next

LEMMA Outside ==
    ASSUME Environment
    PROVE  /\ UNCHANGED <<accounts, puppeted, joined, disk, up, memory, local, faults>>
           /\ roster \subseteq roster'
           /\ \A m \in unseen' : m \in unseen \/ \E n \in Puppetable : m = Puppet(n) /\ m \in joined
           /\ txn' # None => UNCHANGED txn \/ txn'.mx \in Users \cup unseen
<1> USE DEF bounds
<1>1. ASSUME NEW n \in Names, TomsgJoin(n) PROVE UNCHANGED <<unseen, txn>> /\ roster \subseteq roster'
  BY <1>1 DEF TomsgJoin
<1>2. ASSUME NEW u \in Users, NEW n \in Names \cup {None}, SendLogin(u, n)
      PROVE  UNCHANGED <<unseen, roster>> /\ txn'.mx \in Users
  BY <1>2 DEF SendLogin, servers
<1>3. ASSUME NEW m \in MatrixIds, SendEvent(m)
      PROVE  unseen' \subseteq unseen /\ UNCHANGED roster /\ txn'.mx \in Users \cup unseen
  BY <1>3 DEF SendEvent
<1>4. ASSUME NEW n \in Puppetable, CopyAsPuppet(n)
      PROVE  UNCHANGED <<txn, roster>> /\ Puppet(n) \in joined /\ unseen' = unseen \cup {Puppet(n)}
  BY <1>4 DEF CopyAsPuppet
<1>5. UNCHANGED <<accounts, puppeted, joined, disk, up, memory, local, faults>>
  BY DEF Environment, TomsgJoin, SendLogin, SendEvent, CopyAsPuppet, servers
<1> QED
  BY <1>1, <1>2, <1>3, <1>4, <1>5 DEF Environment

LEMMA Inside ==
    ASSUME DownInv, Next, ~Environment
    PROVE  /\ UNCHANGED txn \/ txn' = None
           /\ UNCHANGED <<joined, unseen>> \/ Join \/ (Leave /\ joined' \subseteq joined /\ UNCHANGED unseen)
<1> USE DEF Release, Go, Finish, ToReply, servers
<1>1. CASE HandlerStep
  BY <1>1 DEF HandlerStep, BeginLogin, TakeOver, Leave, Replace, Reply, BeginEvent, Register, Insert,
     Invite, NoInviter, SendInvite
<1>2. CASE Connection
  BY <1>2 DEF Connection, BeginMembers, BeginJoinPush, ListMember, Create, CreateTaken, Made,
     Join, JoinRefused, EndList
<1>3. CASE Panic \/ Crash \/ Restart
  BY <1>3 DEF Panic, Crash, Restart
<1> QED
  BY <1>1, <1>2, <1>3 DEF Next

LEMMA PuppetStep ==
    TypeOK /\ HasEnds /\ DownInv /\ HolderInv /\ PuppetInv /\ Next => PuppetInv'
<1> SUFFICES ASSUME TypeOK, HasEnds, DownInv, HolderInv, PuppetInv, Next PROVE PuppetInv'
  OBVIOUS
<1>0. puppeted \subseteq puppeted' /\ puppets' \subseteq puppeted' /\ puppets' \subseteq puppets \cup {name}
  BY Frame DEF Create, TakeOver, Made, PuppetInv, servers
<1>1. ASSUME NEW n \in Puppetable
      PROVE  /\ Puppet(n) \in joined' \cup unseen' => n \in puppeted
             /\ txn' # None /\ txn'.mx = Puppet(n) => n \in puppeted
  <2>0. Puppet(n) \notin Users
    BY IdFacts
  <2>1. CASE Environment
    BY <2>0, <2>1, Outside, IdFacts DEF PuppetInv
  <2>2. CASE ~Environment
    <3>1. Join => \A m \in joined' \cup unseen' : m \in joined \cup unseen
                    \/ (m = Puppet(name) /\ name \in puppeted)
      BY DEF Join, HolderInv, PuppetInv
    <3> QED
      BY <2>2, <3>1, Inside, IdFacts DEF PuppetInv
  <2> QED
    BY <2>1, <2>2
<1>2. ASSUME NEW n \in Puppetable, step' \in {"register", "insert"}, mx' = Puppet(n)
      PROVE  n \in puppeted
  <2>1. CASE Environment
    BY <1>2, <2>1, Outside DEF local, PuppetInv
  <2>2. CASE BeginLogin \/ BeginEvent
    <3>1. txn # None /\ mx' = txn.mx
      BY <1>2, <2>2 DEF BeginLogin, BeginEvent, Go, ToReply, Finish, Release
    <3> QED
      BY <1>2, <3>1 DEF PuppetInv
  <2>3. CASE Register
    BY <1>2, <2>3 DEF Register, Go, PuppetInv
  <2> QED
    BY <1>2, <2>1, <2>2, <2>3, StepFrame
<1>3. ASSUME NEW n \in Puppetable, PuppetUser(n) \in users'
      PROVE  /\ PuppetUser(n) \in users
                \/ (Made /\ n = name)
                \/ (Restart /\ n \in puppets /\ ~HasRow(n))
             /\ n \in puppeted
  <2>1. CASE PuppetUser(n) \in users
    BY <2>1 DEF PuppetInv
  <2>2. CASE Replace \/ Insert
    <3>1. \A r \in UserType : PuppetUser(n) # r
      BY IsRow, MadeFacts
    <3> QED
      BY <1>3, <2>1, <2>2, <3>1, RealStep
  <2>3. CASE Made
    BY <1>3, <2>1, <2>3, MadeFacts DEF Made, PuppetInv
  <2>4. CASE Restart
    <3>1. PuppetUser(n) \in Loaded
      BY <1>3, <2>4 DEF Restart
    <3>2. \A j \in Rows : PuppetUser(n) # real[j]
      BY RowFacts, MadeFacts
    <3>3. n \in puppets /\ ~HasRow(n)
      BY <3>1, <3>2, LoadedFacts, MadeFacts
    <3> QED
      BY <2>4, <3>3 DEF PuppetInv
  <2> QED
    BY <1>3, <2>1, <2>2, <2>3, <2>4, Frame DEF TakeOver, Crash
<1>4. ASSUME NEW n \in Puppetable, NEW i \in Rows', real'[i].mx = Puppet(n)
      PROVE  n \in puppeted /\ PuppetUser(n) \notin users' /\ (n \in puppets' => HasRow(n)')
  <2>1. CASE i \in Rows /\ real'[i] = real[i]
    <3>1. n \in puppeted /\ PuppetUser(n) \notin users /\ (n \in puppets => HasRow(n))
      BY <1>4, <2>1 DEF PuppetInv
    <3>2. ~(Made /\ n = name)
      BY <1>4, <2>1 DEF Made, PuppetInv
    <3>3. n \in puppets' => n \in puppets
      BY <3>2, Frame DEF TakeOver, Made
    <3> QED
      BY <1>3, <3>1, <3>2, <3>3, HasRowStep
  <2>2. ASSUME NEW r \in UserType, real'[i] = r, r.mx = mx, Insert, step = "insert",
               users' = users \cup {r}
        PROVE  n \in puppeted /\ PuppetUser(n) \notin users' /\ (n \in puppets' => HasRow(n)')
    <3>1. n \in puppeted
      BY <1>4, <2>2 DEF PuppetInv
    <3>2. PuppetUser(n) \notin users
      BY <1>4, <2>2, MadeFacts DEF HolderInv, ByMx
    <3>3. puppets' = puppets /\ up
      BY <2>2 DEF Insert, DownInv
    <3>4. PuppetUser(n) # r
      BY IsRow, MadeFacts
    <3> QED
      BY <2>2, <3>1, <3>2, <3>3, <3>4, HasRowStep DEF PuppetInv
  <2>3. CASE i \notin Rows \/ real'[i] # real[i]
    <3>1. PICK r \in UserType :
            /\ real' = Append(real, r) /\ r.mx = mx
            /\ \/ Replace /\ step = "replace"
               \/ Insert /\ step = "insert" /\ users' = users \cup {r}
      BY <2>3, RealStep DEF Rows
    <3>2. real'[i] = r
      BY <2>3, <3>1, AppendFacts
    <3>3. ~(step = "replace")
      BY <1>4, <3>1, <3>2, IdFacts DEF HolderInv
    <3> QED
      BY <2>2, <3>1, <3>2, <3>3
  <2> QED
    BY <2>1, <2>3
<1>5. ASSUME NEW n \in Puppetable, up', n \in puppets' PROVE HasRow(n)' \/ PuppetUser(n) \in users'
  <2>1. CASE Restart
    <3>1. HasRow(n) \/ PuppetUser(n) \in Loaded
      BY <1>5, <2>1, LoadedFacts DEF Restart, disk
    <3> QED
      BY <2>1, <3>1, HasRowStep DEF Restart
  <2>2. CASE Made
    BY <1>5, <2>2, HasRowStep DEF Made, PuppetInv, DownInv
  <2>3. CASE ~Restart /\ ~Made
    <3>1. up /\ n \in puppets
      BY <1>5, <2>3, Frame DEF TakeOver, Crash
    <3>2. HasRow(n) \/ PuppetUser(n) \in users
      BY <3>1 DEF PuppetInv
    <3>3. ASSUME PuppetUser(n) \in users PROVE PuppetUser(n) \in users'
      <4>1. CASE Replace
        BY <3>3, <4>1, ReplaceFacts, IdFacts, MadeFacts
      <4>2. CASE TakeOver
        <5>1. CASE UNCHANGED users
          BY <3>3, <5>1
        <5>2. ASSUME NEW x \in users, x.name = name, users' = users \ {x}, puppets' = puppets \ {name}
              PROVE  PuppetUser(n) \in users'
          BY <1>5, <3>3, <5>2, MadeFacts
        <5> QED
          BY <4>2, <5>1, <5>2 DEF TakeOver, ByName
      <4>3. CASE Insert
        BY <3>3, <4>3 DEF Insert, Record
      <4> QED
        BY <1>5, <2>3, <3>3, <4>1, <4>2, <4>3, Frame DEF Crash
    <3> QED
      BY <3>2, <3>3, HasRowStep
  <2> QED
    BY <2>1, <2>2, <2>3
<1>6. ASSUME step' = "made"
      PROVE  /\ name' \in puppeted' /\ name' \notin puppets'
             /\ \A i \in Rows' : real'[i].mx # Puppet(name')
  <2>1. CASE Environment
    BY <1>6, <2>1, Outside DEF local, disk, PuppetInv, Rows
  <2>2. CASE Create
    <3>1. name \in Puppetable /\ name \notin puppeted /\ UNCHANGED <<name, real, puppets>>
          /\ puppeted' = puppeted \cup {name}
      BY <2>2 DEF Create, HolderInv, disk
    <3> QED
      BY <3>1 DEF PuppetInv, Rows
  <2> QED
    BY <1>6, <2>1, <2>2, StepFrame
<1> QED
  BY <1>0, <1>1, <1>2, <1>3, <1>4, <1>5, <1>6 DEF PuppetInv

---------------------------------------------------------------------------
\* Registrations.

LEMMA LeaveFrame ==
    ASSUME DownInv, Next
    PROVE  /\ step = "insert" => Environment \/ Insert \/ Panic \/ Crash
           /\ step = "send" => Environment \/ SendInvite \/ Panic \/ Crash
<1>1. BeginLogin \/ TakeOver \/ Leave \/ Replace \/ BeginEvent \/ Register
        => step \in {"idle", "takeover", "leave", "replace", "register"}
  BY DEF BeginLogin, TakeOver, Leave, Replace, Reply, BeginEvent, Register
<1>2. /\ Invite \/ NoInviter => step = "invite"
      /\ Insert => step = "insert"
      /\ SendInvite => step = "send"
      /\ Reply => step = "reply"
      /\ Join \/ JoinRefused => step = "join"
  BY DEF Invite, NoInviter, Insert, SendInvite, Reply, Join, JoinRefused
<1>3. /\ \A b : BeginMembers(b) => step = "idle"
      /\ \A n : BeginJoinPush(n) => step = "idle"
      /\ \A n : ListMember(n) => step = "list"
  BY DEF BeginMembers, BeginJoinPush, ListMember
<1>4. Create \/ CreateTaken \/ Made \/ EndList => step \in {"create", "made", "list"}
  BY DEF Create, CreateTaken, Made, EndList
<1>5. Restart => step = "idle"
  BY DEF Restart, DownInv
<1> QED
  BY <1>1, <1>2, <1>3, <1>4, <1>5 DEF Next, HandlerStep, Connection

LEMMA LostFinite ==
    ASSUME NEW m
    PROVE  IsFiniteSet(Lost(m)) /\ Lost(m) \subseteq 1..MaxAuto /\ Cardinality(Lost(m)) \in Nat
<1>1. Lost(m) \subseteq 1..MaxAuto
  BY DEF Lost
<1>2. IsFiniteSet(1..MaxAuto)
  BY AccountsAssumption, FS_Interval
<1> QED
  BY <1>1, <1>2, FS_Subset, FS_CardinalityType

LEMMA LostStep ==
    TypeOK /\ RowInv /\ HasEnds /\ DownInv /\ HolderInv /\ RosterInv /\ PuppetInv /\ LostInv /\ Next
        => LostInv'
<1> SUFFICES ASSUME TypeOK, RowInv, HasEnds, DownInv, HolderInv, RosterInv, PuppetInv, LostInv, Next
             PROVE  LostInv'
  OBVIOUS
<1>1. \/ Rows' = Rows /\ UNCHANGED real
      \/ \E r \in UserType :
            /\ Rows' = Rows \cup {Len(real) + 1} /\ real'[Len(real) + 1] = r
            /\ r.mx = mx /\ r \in users'
            /\ r.kind = "auto" => \A i \in Rows : real[i].kind = "auto" => real[i].mx # mx
            /\ \A i \in Rows : real'[i] = real[i]
  <2>1. CASE UNCHANGED real
    BY <2>1 DEF Rows
  <2>2. ASSUME NEW r \in UserType, real' = Append(real, r), r.mx = mx, r \in users',
               \/ Replace /\ step = "replace" /\ r.kind = "given"
               \/ Insert /\ step = "insert" /\ r.kind = "auto"
        PROVE  /\ Rows' = Rows \cup {Len(real) + 1} /\ real'[Len(real) + 1] = r
               /\ r.kind = "auto" => \A i \in Rows : real[i].kind = "auto" => real[i].mx # mx
               /\ \A i \in Rows : real'[i] = real[i]
    <3>1. step = "insert" => up /\ ByMx(mx) = {}
      BY DEF DownInv, HolderInv
    <3> QED
      BY <2>2, <3>1, AppendFacts DEF LostInv
  <2> QED
    BY <2>1, <2>2, RealStep
<1>2. \A i, j \in Rows' : real'[i].kind = "auto" /\ real'[j].kind = "auto"
                            /\ real'[i].mx = real'[j].mx => i = j
  BY <1>1 DEF LostInv
<1>3. ASSUME up', NEW i \in Rows', real'[i].kind = "auto"
      PROVE  \E x \in users' : x.mx = real'[i].mx
  <2>1. CASE Restart
    <3>1. i \in Rows /\ real' = real /\ users' = Loaded
      BY <2>1 DEF Restart, disk, Rows
    <3>2. PICK j \in Rows : real[j].name = real[i].name /\ real[j] \in Loaded
      BY <3>1, LoadedFacts
    <3>3. PICK k \in 1..MaxAuto : real[i].name = AutoName(real[i].mx, k)
      BY <1>3, <3>1 DEF RowInv
    <3>4. real[j].kind = "auto"
      BY <3>1, <3>2, <3>3, RowFacts, IdFacts DEF RowInv
    <3>5. PICK l \in 1..MaxAuto : real[j].name = AutoName(real[j].mx, l)
      BY <3>4 DEF RowInv
    <3>6. real[j].mx = real[i].mx
      BY <3>2, <3>3, <3>5, IdFacts
    <3> QED
      BY <3>1, <3>2, <3>6
  <2>2. CASE i \in Rows /\ real'[i] = real[i] /\ ~Restart
    <3>1. PICK x \in users : x.mx = real[i].mx
      BY <1>3, <2>2, Frame DEF Crash, LostInv, ByMx
    <3>2. CASE Replace
      <4>1. \E y \in users' : y.mx = mx
        BY <3>2, ReplaceFacts, MadeFacts, IdFacts
      <4> QED
        BY <2>2, <3>1, <3>2, <4>1, ReplaceFacts
    <3>3. CASE TakeOver
      <4>1. ~IsPuppet(x)
        <5> SUFFICES ASSUME IsPuppet(x) PROVE FALSE
          OBVIOUS
        <5>1. x.name \in Puppetable /\ x = PuppetUser(x.name) /\ x.mx = Puppet(x.name)
          BY UserFacts
        <5> QED
          BY <2>2, <3>1, <5>1 DEF PuppetInv
      <4> QED
        BY <2>2, <3>1, <3>3, <4>1 DEF TakeOver
    <3>4. CASE users \subseteq users'
      BY <2>2, <3>1, <3>4
    <3> QED
      BY <1>3, <2>2, <3>2, <3>3, <3>4, Frame DEF Insert, Record, Made, Crash
  <2>3. CASE real'[i] \in users'
    BY <2>3
  <2> QED
    BY <1>1, <2>1, <2>2, <2>3
<1>4. ASSUME NEW m \in MatrixIds PROVE Cardinality(Lost(m)') <= faults'
  <2>1. \A j \in 1..MaxAuto : AutoRow(m, j) => AutoRow(m, j)'
    <3>1. \A j : AutoRow(m, j) <=> HasRow(AutoName(m, j))
      BY DEF AutoRow, HasRow
    <3>2. \A j : AutoRow(m, j)' <=> HasRow(AutoName(m, j))'
      BY DEF AutoRow, HasRow
    <3> QED
      BY <3>1, <3>2, HasRowStep
  <2>2. \A j \in 1..MaxAuto : AutoName(m, j) \in accounts' => AutoName(m, j) \in accounts \/ InFlight(m, j)'
    BY Frame DEF Register, Go, InFlight
  <2>3. \A j \in Lost(m)' : j \in Lost(m) \/ (InFlight(m, j) /\ ~AutoRow(m, j)' /\ ~InFlight(m, j)')
    BY <2>1, <2>2 DEF Lost
  <2>4. IsFiniteSet(Lost(m)) /\ IsFiniteSet(Lost(m)') /\ Cardinality(Lost(m)) \in Nat
        /\ Cardinality(Lost(m)') \in Nat /\ Cardinality(Lost(m)) <= faults
        /\ faults \in Nat /\ faults' \in Nat
    <3>1. IsFiniteSet(Lost(m)')
      <4>1. Lost(m)' \subseteq 1..MaxAuto
        BY DEF Lost
      <4>2. IsFiniteSet(1..MaxAuto)
        BY AccountsAssumption, FS_Interval
      <4> HIDE DEF Lost
      <4> QED
        BY <4>1, <4>2, FS_Subset
    <3>2. faults' \in Nat
      BY Frame DEF TypeOK, Panic, Crash, Fault
    <3> QED
      BY <3>1, <3>2, LostFinite, FS_CardinalityType DEF LostInv, TypeOK
  <2>5. CASE Panic \/ Crash
    <3>1. faults' = faults + 1
      BY <2>5 DEF Panic, Crash, Fault
    <3>2. PICK k : Lost(m)' \subseteq Lost(m) \cup {k}
      <4>1. \A j, l : InFlight(m, j) /\ InFlight(m, l) => j = l
        BY IdFacts DEF InFlight
      <4> QED
        BY <2>3, <4>1
    <3>3. /\ IsFiniteSet(Lost(m) \cup {k})
          /\ Cardinality(Lost(m) \cup {k}) =
               IF k \in Lost(m) THEN Cardinality(Lost(m)) ELSE Cardinality(Lost(m)) + 1
      BY <2>4, FS_AddElement
    <3>4. Cardinality(Lost(m)') <= Cardinality(Lost(m) \cup {k})
      BY <3>2, <3>3, FS_Subset
    <3>5. Cardinality(Lost(m) \cup {k}) \in Nat
      BY <3>3, FS_CardinalityType
    <3> QED
      BY <2>4, <3>1, <3>3, <3>4, <3>5
  <2>6. CASE ~Panic /\ ~Crash
    <3>1. faults' = faults
      BY <2>6, Frame
    <3>2. \A j \in 1..MaxAuto : InFlight(m, j) => InFlight(m, j)' \/ AutoRow(m, j)'
      <4> SUFFICES ASSUME NEW j \in 1..MaxAuto, step = "insert", name = AutoName(m, j)
                   PROVE  InFlight(m, j)' \/ AutoRow(m, j)'
        BY DEF InFlight
      <4>1. CASE Environment
        BY <4>1, Outside DEF local, InFlight
      <4>2. CASE Insert
        <5>1. PICK r \in UserType : real' = Append(real, r) /\ r.name = name
          BY <4>2, RealStep
        <5> QED
          BY <5>1, AppendFacts DEF AutoRow
      <4> QED
        BY <2>6, <4>1, <4>2, LeaveFrame
    <3>3. Lost(m)' \subseteq Lost(m)
      <4>1. Lost(m)' \subseteq 1..MaxAuto
        BY DEF Lost
      <4> QED
        BY <2>3, <3>2, <4>1
    <3>4. Cardinality(Lost(m)') <= Cardinality(Lost(m))
      BY <2>4, <3>3, FS_Subset
    <3> QED
      BY <2>4, <3>1, <3>4
  <2> QED
    BY <2>5, <2>6
<1> QED
  BY <1>2, <1>3, <1>4 DEF LostInv, ByMx

LEMMA Once == TypeOK /\ RowInv /\ DownInv /\ HolderInv /\ LostInv => RegisteredOnce
<1> SUFFICES ASSUME TypeOK, RowInv, DownInv, HolderInv, LostInv, NEW m \in MatrixIds
             PROVE  Cardinality({i \in 1..MaxAuto : AutoName(m, i) \in accounts}) <= 1 + faults
  BY DEF RegisteredOnce
<1> DEFINE S == {i \in 1..MaxAuto : AutoName(m, i) \in accounts}
<1> DEFINE Kept(j) == AutoRow(m, j) \/ InFlight(m, j)
<1>1. ASSUME NEW j \in 1..MaxAuto, AutoRow(m, j)
      PROVE  \E i \in Rows : real[i].name = AutoName(m, j) /\ real[i].kind = "auto" /\ real[i].mx = m
  <2>1. PICK i \in Rows : real[i].name = AutoName(m, j)
    BY <1>1 DEF AutoRow
  <2>2. real[i].kind = "auto"
    BY <2>1, RowFacts, IdFacts DEF RowInv
  <2> QED
    BY <2>1, <2>2, IdFacts DEF RowInv
<1>2. ASSUME NEW j \in 1..MaxAuto, InFlight(m, j)
      PROVE  step = "insert" /\ up /\ mx = m /\ ByMx(m) = {}
  <2>1. PICK k \in 1..MaxAuto : name = AutoName(mx, k)
    BY <1>2 DEF InFlight, HolderInv
  <2>2. mx = m
    BY <1>2, <2>1, IdFacts DEF InFlight
  <2> QED
    BY <1>2, <2>2 DEF InFlight, DownInv, HolderInv
<1>3. ASSUME NEW j \in 1..MaxAuto, NEW k \in 1..MaxAuto, Kept(j), Kept(k) PROVE j = k
  <2>1. CASE AutoRow(m, j) /\ AutoRow(m, k)
    <3>1. PICK i \in Rows : real[i].name = AutoName(m, j) /\ real[i].kind = "auto" /\ real[i].mx = m
      BY <1>1, <2>1
    <3>2. PICK l \in Rows : real[l].name = AutoName(m, k) /\ real[l].kind = "auto" /\ real[l].mx = m
      BY <1>1, <2>1
    <3>3. i = l
      BY <3>1, <3>2 DEF LostInv
    <3> QED
      BY <3>1, <3>2, <3>3, IdFacts
  <2>2. CASE InFlight(m, j) /\ InFlight(m, k)
    <3>1. AutoName(m, j) = AutoName(m, k)
      BY <2>2 DEF InFlight
    <3> QED
      BY <3>1, IdFacts
  <2>3. CASE (AutoRow(m, j) /\ InFlight(m, k)) \/ (AutoRow(m, k) /\ InFlight(m, j))
    BY <1>1, <1>2, <2>3 DEF LostInv
  <2> QED
    BY <1>3, <2>1, <2>2, <2>3
<1>4. \A j \in S : j \in Lost(m) \/ Kept(j)
  BY DEF Lost
<1>5. PICK k : S \subseteq Lost(m) \cup {k}
  <2>1. \A j \in S : j \in 1..MaxAuto
    OBVIOUS
  <2> HIDE DEF S, Kept
  <2> QED
    BY <1>3, <1>4, <2>1
<1> HIDE DEF S
<1>6. IsFiniteSet(Lost(m) \cup {k}) /\ Cardinality(Lost(m) \cup {k}) <= Cardinality(Lost(m)) + 1
  <2>1. IsFiniteSet(Lost(m)) /\ Cardinality(Lost(m)) \in Nat
    BY LostFinite
  <2>2. /\ IsFiniteSet(Lost(m) \cup {k})
        /\ Cardinality(Lost(m) \cup {k}) =
             IF k \in Lost(m) THEN Cardinality(Lost(m)) ELSE Cardinality(Lost(m)) + 1
    BY <2>1, FS_AddElement
  <2> QED
    BY <2>1, <2>2
<1>7. Cardinality(S) <= Cardinality(Lost(m) \cup {k}) /\ IsFiniteSet(S)
  BY <1>5, <1>6, FS_Subset
<1>8. /\ Cardinality(S) \in Nat /\ Cardinality(Lost(m) \cup {k}) \in Nat /\ Cardinality(Lost(m)) \in Nat
      /\ Cardinality(Lost(m)) <= faults /\ faults \in Nat
  BY <1>6, <1>7, LostFinite, FS_CardinalityType DEF LostInv, TypeOK
<1>9. Cardinality(S) <= 1 + faults
  BY <1>6, <1>7, <1>8
<1> QED
  BY <1>9 DEF S


---------------------------------------------------------------------------
\* As long as nothing fails.

LEMMA Faultless ==
    ASSUME TypeOK, DownInv, Next, faults' = 0
    PROVE  faults = 0 /\ up /\ ~Panic /\ ~Crash /\ ~Restart
<1>1. ~Panic /\ ~Crash /\ faults = 0
  BY Frame DEF Panic, Crash, Fault, TypeOK
<1> QED
  BY <1>1 DEF DownInv, Restart

\* A participant is added as a real user, or as a puppet that is managed.
LEMMA AddedFacts ==
    ASSUME TypeOK, RowInv, DownInv, HolderInv, Recorded, BoundToUser, Next, faults' = 0,
           NEW p \in participants', p \notin participants
    PROVE  \/ /\ Invite /\ p = <<mx, name>>
              /\ \A n \in Puppetable : p # <<Puppet(n), n>>
           \/ /\ p[2] \in roster
              /\ \E b \in bound : BeginMembers(b)
              /\ \A n \in Puppetable : p # <<Puppet(n), n>>
           \/ /\ p[2] \in roster /\ p = <<Puppet(p[2]), p[2]>>
              /\ PuppetUser(p[2]) \in users'
              /\ \/ step' = "join" /\ push' /\ name' = p[2]
                 \/ EndList /\ p[2] \in res
<1>1. CASE Invite
  <2>1. p = <<mx, name>> /\ step = "invite"
    BY <1>1 DEF Invite, InsertUser
  <2>2. PICK x \in users : ~IsPuppet(x) /\ Pair(x) = <<mx, name>>
    BY <2>1 DEF HolderInv
  <2> QED
    BY <1>1, <2>1, <2>2, PairFacts
<1>2. ASSUME NEW b \in bound, BeginMembers(b)
      PROVE  p[2] \in roster /\ \A n \in Puppetable : p # <<Puppet(n), n>>
  <2>1. p = b /\ p[2] \in roster
    BY <1>2 DEF BeginMembers, InsertUser
  <2>2. PICK x \in users : ~IsPuppet(x) /\ Pair(x) = p
    BY <1>2, <2>1 DEF BoundToUser
  <2> QED
    BY <2>1, <2>2, PairFacts
<1>3. CASE Made
  <2>1. push /\ p = <<Puppet(name), name>> /\ step' = "join" /\ push' /\ name' = name
    BY <1>3 DEF Made, InsertUser
  <2>2. PuppetUser(name) \in users' /\ name \in roster
    BY <1>3 DEF Made, HolderInv
  <2> QED
    BY <2>1, <2>2
<1>4. CASE EndList
  <2>1. PICK n \in res : p = <<Puppet(n), n>>
    BY <1>4 DEF EndList, InsertUser
  <2>2. n \in roster /\ PuppetUser(n) \in users'
    BY <1>4 DEF EndList, HolderInv
  <2> QED
    BY <1>4, <2>1, <2>2
<1>5. ASSUME NEW n \in roster, BeginJoinPush(n)
      PROVE  /\ p = <<Puppet(n), n>> /\ PuppetUser(n) \in users'
             /\ step' = "join" /\ push' /\ name' = n
  <2>1. PICK x \in users : x.name = n /\ IsPuppet(x) /\ p = <<Puppet(n), n>>
    BY <1>5 DEF BeginJoinPush, InsertUser, ByName
  <2>2. Go("join", None, n) /\ push' = TRUE /\ users' = users
    BY <1>5 DEF BeginJoinPush, InsertUser
  <2> QED
    BY <2>1, <2>2, UserFacts DEF Go
<1>6. \/ Invite \/ Made \/ EndList
      \/ \E b \in bound : BeginMembers(b)
      \/ \E n \in roster : BeginJoinPush(n)
  <2>1. ~TakeOver
    BY DEF TakeOver
  <2> QED
    BY <2>1, Faultless, Frame
<1>7. CASE \E n \in roster : BeginJoinPush(n)
  <2>1. PICK n \in roster : BeginJoinPush(n)
    BY <1>7
  <2>2. p = <<Puppet(n), n>> /\ p[2] = n
    BY <1>5, <2>1
  <2> QED
    BY <1>5, <2>1, <2>2
<1> QED
  BY <1>1, <1>2, <1>3, <1>4, <1>6, <1>7

LEMMA KickedStep ==
    TypeOK /\ RowInv /\ DownInv /\ HolderInv /\ Recorded /\ BoundToUser /\ KickedOut /\ Next
        => KickedOut'
<1> SUFFICES ASSUME TypeOK, RowInv, DownInv, HolderInv, Recorded, BoundToUser, KickedOut, Next,
                    faults' = 0, NEW n \in Puppetable, <<Puppet(n), n>> \in participants'
             PROVE  PuppetUser(n) \in users'
  BY DEF KickedOut
<1>1. CASE <<Puppet(n), n>> \notin participants
  BY <1>1, AddedFacts
<1>2. CASE <<Puppet(n), n>> \in participants
  <2>1. PuppetUser(n) \in users
    BY <1>2, Faultless DEF KickedOut
  <2>2. CASE TakeOver
    <3>1. CASE UNCHANGED users
      BY <2>1, <3>1
    <3>2. ASSUME NEW x \in users, users' = users \ {x}, participants' = participants \ {Pair(x)}
          PROVE  PuppetUser(n) \in users'
      BY <2>1, <3>2, MadeFacts
    <3> QED
      BY <2>2, <3>1, <3>2 DEF TakeOver, ByName
  <2>3. CASE Replace
    BY <2>1, <2>3, ReplaceFacts, IdFacts, MadeFacts
  <2>4. CASE Insert \/ Made
    BY <2>1, <2>4 DEF Insert, Record, Made
  <2> QED
    BY <2>1, <2>2, <2>3, <2>4, Faultless, Frame
<1> QED
  BY <1>1, <1>2

LEMMA OneUserStep ==
    TypeOK /\ RowInv /\ DownInv /\ HolderInv /\ PuppetInv /\ Recorded /\ OneUserPerMatrixId /\ Next
        => OneUserPerMatrixId'
<1> SUFFICES ASSUME TypeOK, RowInv, DownInv, HolderInv, PuppetInv, Recorded, OneUserPerMatrixId,
                    Next, faults' = 0
             PROVE  \A x, y \in users' : x.mx = y.mx => x = y
  BY DEF OneUserPerMatrixId
<1>1. \A x, y \in users : x.mx = y.mx => x = y
  BY Faultless DEF OneUserPerMatrixId
<1>2. CASE users' \subseteq users
  BY <1>1, <1>2
<1>3. ASSUME NEW S \in SUBSET users, NEW r, users' = S \cup {r}, \A x \in S : x.mx # r.mx
      PROVE  \A x, y \in users' : x.mx = y.mx => x = y
  BY <1>1, <1>3
<1>4. CASE Insert
  <2>1. mx \in MatrixIds /\ name \in TomsgNames /\ ByMx(mx) = {}
    BY <1>4, IdFacts DEF Insert, HolderInv
  <2>2. users' = users \cup {User(mx, name, "auto")}
    BY <1>4 DEF Insert, Record
  <2>3. users \in SUBSET users /\ \A x \in users : x.mx # User(mx, name, "auto").mx
    BY <2>1, MadeFacts DEF ByMx
  <2> QED
    BY <1>3, <2>2, <2>3
<1>5. CASE Made
  <2>1. name \in Puppetable /\ ByName(name) = {} /\ \A i \in Rows : real[i].mx # Puppet(name)
    BY <1>5 DEF Made, HolderInv, PuppetInv
  <2>2. ASSUME NEW x \in users PROVE x.mx # Puppet(name)
    <3>1. CASE IsPuppet(x)
      BY <2>1, <3>1, UserFacts, IdFacts DEF ByName
    <3>2. CASE ~IsPuppet(x)
      BY <2>1, <3>2, PairFacts
    <3> QED
      BY <3>1, <3>2
  <2>3. users' = users \cup {PuppetUser(name)}
    BY <1>5 DEF Made
  <2>4. users \in SUBSET users /\ \A x \in users : x.mx # PuppetUser(name).mx
    BY <2>2, MadeFacts
  <2> QED
    BY <1>3, <2>3, <2>4
<1>6. CASE Replace
  <2> DEFINE r == User(mx, name, "given")
  <2>1. r.mx = mx
    BY DEF User
  <2>2. PICK S \in SUBSET users :
            /\ \A x \in S : x.mx # mx
            /\ users' \subseteq users \/ users' = S \cup {r}
    <3>1. PICK rest \in IF ByMx(mx) = {} THEN {users} ELSE {users \ {x} : x \in ByMx(mx)} :
              users' = rest \/ users' = rest \cup {r}
      BY <1>6 DEF Replace
    <3>2. rest \in SUBSET users /\ \A x \in rest : x.mx # mx
      BY <1>1, <3>1 DEF ByMx
    <3> QED
      BY <3>1, <3>2
  <2> HIDE DEF r
  <2> QED
    BY <1>2, <1>3, <2>1, <2>2
<1> QED
  BY <1>2, <1>4, <1>5, <1>6, Faultless, Frame DEF TakeOver

---------------------------------------------------------------------------
\* Participants who lost their invite.

LEMMA RowsFacts ==
    ASSUME TypeOK, HolderInv, Next, NEW p \in rows', p \notin rows
    PROVE  p[2] \in roster \/ (Invite /\ p = <<mx, name>>)
<1>1. CASE Invite
  BY <1>1 DEF Invite, InsertUser
<1>2. ASSUME NEW b \in bound, BeginMembers(b) PROVE p[2] \in roster
  BY <1>2 DEF BeginMembers, InsertUser
<1>3. ASSUME NEW n \in roster, BeginJoinPush(n) PROVE p[2] \in roster
  BY <1>3 DEF BeginJoinPush, InsertUser
<1>4. CASE Made
  BY <1>4 DEF Made, InsertUser, HolderInv
<1>5. CASE EndList
  BY <1>5 DEF EndList, InsertUser, HolderInv
<1>6. ~TakeOver /\ ~Crash /\ ~Restart
  BY DEF TakeOver, RowsWithout, Crash, Restart, disk
<1> QED
  BY <1>1, <1>2, <1>3, <1>4, <1>5, <1>6, Frame

LEMMA AstrayGrows == Next => astray \subseteq astray'
<1> SUFFICES ASSUME Next PROVE astray \subseteq astray'
  OBVIOUS
<1> USE DEF bounds
<1>1. CASE Environment
  BY <1>1 DEF Environment, TomsgJoin, SendLogin, SendEvent, CopyAsPuppet
<1>2. CASE HandlerStep
  BY <1>2 DEF HandlerStep, BeginLogin, TakeOver, Leave, Replace, Reply, BeginEvent, Register, Insert,
     Invite, NoInviter, SendInvite
<1>3. CASE Connection
  BY <1>3 DEF Connection, BeginMembers, BeginJoinPush, ListMember, Create, CreateTaken, Made,
     Join, JoinRefused, EndList
<1>4. CASE Panic \/ Crash \/ Restart
  BY <1>4 DEF Panic, Crash, Restart
<1> QED
  BY <1>1, <1>2, <1>3, <1>4 DEF Next

LEMMA UninvitedStep == TypeOK /\ DownInv /\ HolderInv /\ UninvitedInv /\ Next => UninvitedInv'
<1> SUFFICES ASSUME TypeOK, DownInv, HolderInv, UninvitedInv, Next PROVE UninvitedInv'
  OBVIOUS
<1>1. ASSUME NEW p \in Uninvited', p \notin Uninvited
      PROVE  (Panic \/ Crash) /\ p = <<mx, name>>
  <2>1. p \in rows' /\ p \notin astray' /\ p[2] \notin roster' /\ p \notin Inviting'
    BY DEF Uninvited
  <2>2. p \notin astray /\ p[2] \notin roster
    BY <2>1, AstrayGrows, Frame DEF SendInvite, TomsgJoin
  <2>3. ~(Invite /\ p = <<mx, name>>)
    BY <2>1 DEF Invite, Inviting
  <2>4. p \in rows
    BY <2>1, <2>2, <2>3, RowsFacts
  <2>5. step = "send" /\ p = <<mx, name>>
    BY <1>1, <2>2, <2>4 DEF Uninvited, Inviting
  <2>6. ~Environment
    BY <2>1, <2>5, Outside DEF local, Inviting
  <2>7. ~SendInvite
    BY <2>1, <2>5 DEF SendInvite
  <2> QED
    BY <2>5, <2>6, <2>7, LeaveFrame
<1>2. IsFiniteSet(Uninvited) /\ Cardinality(Uninvited) <= faults /\ faults \in Nat
  BY DEF UninvitedInv, InvitesLost, TypeOK
<1> HIDE DEF Uninvited
<1>3. Cardinality(Uninvited) \in Nat
  BY <1>2, FS_CardinalityType
<1>4. CASE ~Panic /\ ~Crash
  <2>1. Uninvited' \subseteq Uninvited
    BY <1>1, <1>4
  <2>2. IsFiniteSet(Uninvited') /\ Cardinality(Uninvited') <= Cardinality(Uninvited)
    BY <1>2, <2>1, FS_Subset
  <2>3. Cardinality(Uninvited') \in Nat /\ faults' = faults
    BY <1>4, <2>2, FS_CardinalityType, Frame
  <2>4. Cardinality(Uninvited') <= faults'
    BY <1>2, <1>3, <2>2, <2>3
  <2> QED
    BY <2>2, <2>4 DEF UninvitedInv, InvitesLost
<1>5. CASE Panic \/ Crash
  <2> DEFINE S == Uninvited \cup {<<mx, name>>}
  <2>1. Uninvited' \subseteq S /\ faults' = faults + 1
    BY <1>1, <1>5 DEF Panic, Crash, Fault
  <2>2. /\ IsFiniteSet(S)
        /\ Cardinality(S) = IF <<mx, name>> \in Uninvited THEN Cardinality(Uninvited)
                                                         ELSE Cardinality(Uninvited) + 1
    BY <1>2, FS_AddElement
  <2> HIDE DEF S
  <2>3. IsFiniteSet(Uninvited') /\ Cardinality(Uninvited') <= Cardinality(S)
    BY <2>1, <2>2, FS_Subset
  <2>4. Cardinality(Uninvited') \in Nat
    BY <2>3, FS_CardinalityType
  <2>5. Cardinality(Uninvited') <= faults'
    BY <1>2, <1>3, <2>1, <2>2, <2>3, <2>4
  <2> QED
    BY <2>3, <2>5 DEF UninvitedInv, InvitesLost
<1> QED
  BY <1>4, <1>5

---------------------------------------------------------------------------
\* What a restart would load.

LEMMA LoadedSame ==
    ASSUME UNCHANGED real
    PROVE  \A x \in Loaded' : IsPuppet(x) \/ x \in Loaded
<1> DEFINE N == {real[i].name : i \in DOMAIN real}
<1>1. Loaded = {real[Winner(n)] : n \in N} \cup {PuppetUser(n) : n \in puppets \ N}
  BY DEF Loaded
<1>2. Loaded' = {real[Winner(n)] : n \in N} \cup {PuppetUser(n) : n \in puppets' \ N}
  BY DEF Loaded, Winner
<1> QED
  BY <1>1, <1>2, MadeFacts

\* A row of a login, and the first row of a name, is the one that counts; the
\* rows that count for other names stay.
LEMMA LoadedAppend ==
    ASSUME TypeOK, HasEnds, NEW r \in UserType, real' = Append(real, r),
           r.kind = "given" \/ ~HasRow(r.name)
    PROVE  \A x \in Loaded' : IsPuppet(x) \/ x = r \/ x \in Loaded
<1> DEFINE k == Len(real) + 1
           N == {real[i].name : i \in Rows}
<1>1. /\ Rows' = Rows \cup {k} /\ real'[k] = r
      /\ k \in Nat /\ \A i \in Rows : real'[i] = real[i] /\ i \in Nat /\ i < k
  <2>1. Len(real) \in Nat
    BY DEF TypeOK
  <2>2. k \in Nat /\ Rows' = Rows \cup {k} /\ real'[k] = r
    BY AppendFacts
  <2>3. \A i \in Rows : real'[i] = real[i] /\ i \in Nat /\ i <= Len(real)
    BY AppendFacts
  <2>4. \A i \in Rows : i < k
    BY <2>1, <2>3
  <2> HIDE DEF k, N
  <2> QED
    BY <2>2, <2>3, <2>4
<1> HIDE DEF k
<1>2. ASSUME NEW n
      PROVE  /\ Named(n)' = IF r.name = n THEN Named(n) \cup {k} ELSE Named(n)
             /\ Given(n)' = IF r.name = n /\ r.kind = "given" THEN Given(n) \cup {k} ELSE Given(n)
             /\ Named(n) \subseteq Rows /\ Given(n) \subseteq Rows
  <2>1. Named(n)' = IF r.name = n THEN Named(n) \cup {k} ELSE Named(n)
    BY <1>1 DEF Named
  <2>2. Given(n)' = IF r.name = n /\ r.kind = "given" THEN Given(n) \cup {k} ELSE Given(n)
    BY <1>1, <2>1 DEF Named, Given
  <2> QED
    BY <2>1, <2>2 DEF Named, Given
<1>3. ASSUME NEW n
      PROVE  /\ Winner(n) = IF Given(n) # {}
                            THEN CHOOSE j \in Given(n) : \A i \in Given(n) : i <= j
                            ELSE CHOOSE j \in Named(n) : \A i \in Named(n) : j <= i
             /\ Winner(n)' = IF Given(n)' # {}
                             THEN CHOOSE j \in Given(n)' : \A i \in Given(n)' : i <= j
                             ELSE CHOOSE j \in Named(n)' : \A i \in Named(n)' : j <= i
  BY DEF Winner, Given, Named, Rows
<1>4. ASSUME NEW n, n # r.name PROVE Winner(n)' = Winner(n)
  <2>1. Named(n)' = Named(n) /\ Given(n)' = Given(n)
    BY <1>2, <1>4
  <2> QED
    BY <1>3, <2>1
<1>5. Winner(r.name)' = k
  <2> DEFINE n == r.name
  <2>1. CASE r.kind = "given"
    <3>1. Given(n)' = Given(n) \cup {k} /\ \A i \in Given(n) : i \in Nat /\ i < k
      BY <1>1, <1>2, <2>1
    <3>2. \A j \in Given(n)' : (\A i \in Given(n)' : i <= j) <=> j = k
      BY <1>1, <3>1
    <3>3. (CHOOSE j \in Given(n)' : \A i \in Given(n)' : i <= j) = k
      BY <3>1, <3>2
    <3> QED
      BY <1>3, <3>1, <3>3
  <2>2. CASE r.kind # "given"
    <3>1. Named(n) = {} /\ Given(n) = {}
      BY <2>2 DEF HasRow, Named, Given
    <3>2. Named(n)' = {k} /\ Given(n)' = {}
      BY <1>2, <2>2, <3>1
    <3>3. (CHOOSE j \in {k} : \A i \in {k} : j <= i) = k
      BY <1>1
    <3> QED
      BY <1>3, <3>2, <3>3
  <2> QED
    BY <2>1, <2>2
<1>6. Loaded = {real[Winner(n)] : n \in N} \cup {PuppetUser(n) : n \in puppets \ N}
  BY DEF Loaded, Rows
<1>7. Loaded' = {real'[Winner(n)'] : n \in N'} \cup {PuppetUser(n) : n \in puppets' \ N'}
  BY DEF Loaded, Rows
<1>8. N' = N \cup {r.name}
  BY <1>1
<1>9. ASSUME NEW n \in N' PROVE real'[Winner(n)'] = r \/ real'[Winner(n)'] \in Loaded
  <2>1. CASE n = r.name
    BY <1>1, <1>5, <2>1
  <2>2. CASE n # r.name
    <3>1. n \in N /\ Winner(n)' = Winner(n)
      BY <1>4, <1>8, <2>2
    <3>2. Winner(n) \in Rows
      BY <3>1, WinnerFacts
    <3> QED
      BY <1>1, <1>6, <3>1, <3>2
  <2> QED
    BY <2>1, <2>2
<1> HIDE DEF N
<1>10. \A n \in puppets' \ N' : IsPuppet(PuppetUser(n))
  BY MadeFacts
<1> QED
  BY <1>7, <1>9, <1>10

LEMMA KeptStep ==
    TypeOK /\ HasEnds /\ HolderInv /\ PuppetInv /\ KeptInv /\ Next => KeptInv'
<1> SUFFICES ASSUME TypeOK, HasEnds, HolderInv, PuppetInv, KeptInv, Next, up',
                    NEW x \in Loaded', ~IsPuppet(x)
             PROVE  \E y \in users' : y.mx = x.mx
  BY DEF KeptInv, ByMx
<1>1. CASE Restart
  <2>1. x \in Loaded
    BY <1>1, LoadedSame DEF Restart, disk
  <2> QED
    BY <1>1, <2>1 DEF Restart
<1>2. ~Crash
  BY DEF Crash
<1>3. CASE ~Restart
  <2>1. up
    BY <1>2, <1>3, Frame
  <2>2. ASSUME x \in Loaded PROVE \E y \in users : y.mx = x.mx
    BY <2>1, <2>2 DEF KeptInv, ByMx
  <2>3. CASE UNCHANGED <<users, real>> \/ Made
    <3>1. users \subseteq users' /\ UNCHANGED real
      BY <2>3 DEF Made
    <3> QED
      BY <2>2, <3>1, LoadedSame
  <2>4. CASE TakeOver
    <3>1. x \in Loaded /\ UNCHANGED real
      BY <2>4, LoadedSame DEF TakeOver
    <3>2. PICK y \in users : y.mx = x.mx
      BY <2>2, <3>1
    <3>3. PICK i \in Rows : x = real[i]
      BY <3>1, LoadedFacts, MadeFacts
    <3>4. CASE ~IsPuppet(y)
      BY <2>4, <3>2, <3>4 DEF TakeOver
    <3>5. CASE IsPuppet(y)
      BY <3>2, <3>3, <3>5, UserFacts DEF PuppetInv
    <3> QED
      BY <3>4, <3>5
  <2>5. CASE Replace \/ Insert
    <3>1. \A y \in users : y.mx # mx => y \in users'
      BY <2>5, ReplaceFacts DEF Insert, Record
    <3>2. CASE UNCHANGED real
      <4>1. Replace
        BY <2>5, <3>2, RealStep
      <4>2. \E y \in users' : y.mx = mx
        BY <3>2, <4>1, ReplaceFacts, MadeFacts, IdFacts
      <4> QED
        BY <2>2, <3>1, <3>2, <4>2, LoadedSame
    <3>3. ASSUME NEW r \in UserType, real' = Append(real, r), r.mx = mx, r.name = name, r \in users',
                 \/ r.kind = "given"
                 \/ step = "insert" /\ r.kind = "auto"
          PROVE  \E y \in users' : y.mx = x.mx
      <4>1. r.kind = "given" \/ ~HasRow(r.name)
        BY <3>3 DEF HolderInv
      <4>2. x = r \/ x \in Loaded
        BY <3>3, <4>1, LoadedAppend
      <4> QED
        BY <2>2, <3>1, <3>3, <4>2
    <3> QED
      BY <3>2, <3>3, RealStep
  <2> QED
    BY <1>2, <1>3, <2>3, <2>4, <2>5, Frame
<1> QED
  BY <1>1, <1>3

\* A user in memory without a row that counts has lost their name to somebody.
LEMMA Keeps ==
    TypeOK /\ RowInv /\ HasEnds /\ PuppetInv /\ Recorded /\ KeptInv => RestartKeeps
<1> SUFFICES ASSUME TypeOK, RowInv, HasEnds, PuppetInv, Recorded, KeptInv, up PROVE
        /\ \A x \in users \ Loaded : \E r \in Loaded : r.name = x.name /\ r.mx # x.mx
        /\ \A x \in Loaded \ users : ~IsPuppet(x) /\ \E y \in users : y.mx = x.mx
  BY DEF RestartKeeps
<1>1. ASSUME NEW x \in users \ Loaded, IsPuppet(x)
      PROVE  \E r \in Loaded : r.name = x.name /\ r.mx # x.mx
  <2>1. x = PuppetUser(x.name) /\ x.name \in puppets /\ x.name \in Puppetable /\ x.mx = Puppet(x.name)
    BY <1>1, UserFacts DEF Recorded
  <2>2. HasRow(x.name)
    BY <1>1, <2>1, LoadedFacts
  <2>3. PICK i \in Rows : real[i].name = x.name /\ real[i] \in Loaded
    BY <2>2, LoadedFacts DEF HasRow
  <2>4. real[i].mx # x.mx
    BY <1>1, <2>1 DEF PuppetInv
  <2> QED
    BY <2>3, <2>4
<1>2. ASSUME NEW x \in users \ Loaded, ~IsPuppet(x)
      PROVE  \E r \in Loaded : r.name = x.name /\ r.mx # x.mx
  <2>1. PICK i \in Rows : x = real[i]
    BY <1>2, PairFacts
  <2>2. PICK j \in Rows : real[j].name = x.name /\ real[j] \in Loaded
    BY <2>1, LoadedFacts
  <2>3. ASSUME real[j].mx = x.mx PROVE FALSE
    <3>1. real[j].kind = x.kind
      <4>1. \A k \in Rows : real[k].kind = "given" => real[k].name \in Names
        BY DEF RowInv
      <4>2. \A k \in Rows : real[k].kind = "auto" => real[k].name \notin Names
        <5> SUFFICES ASSUME NEW k \in Rows, real[k].kind = "auto" PROVE real[k].name \notin Names
          OBVIOUS
        <5>1. PICK l \in 1..MaxAuto : real[k].name = AutoName(real[k].mx, l)
          BY DEF RowInv
        <5> QED
          BY <5>1, RowFacts, IdFacts
      <4> QED
        BY <2>1, <2>2, <4>1, <4>2, RowFacts
    <3>2. real[j] \in UserType /\ x \in UserType
      BY <2>1, RowFacts
    <3>3. real[j] = x
      BY <2>2, <2>3, <3>1, <3>2 DEF UserType
    <3> QED
      BY <1>2, <2>2, <3>3
  <2> QED
    BY <2>2, <2>3
<1>3. ASSUME NEW x \in Loaded \ users, IsPuppet(x) PROVE FALSE
  <2>1. PICK n \in puppets : x = PuppetUser(n) /\ ~HasRow(n)
    BY <1>3, LoadedFacts, RowFacts
  <2>2. n \in Puppetable
    BY DEF TypeOK
  <2> QED
    BY <1>3, <2>1, <2>2 DEF PuppetInv
<1>4. ASSUME NEW x \in Loaded, ~IsPuppet(x) PROVE \E y \in users : y.mx = x.mx
  BY <1>4 DEF KeptInv, ByMx
<1> QED
  BY <1>1, <1>2, <1>3, <1>4

---------------------------------------------------------------------------
\* Accounts of puppets.

LEMMA PuppetFrame ==
    ASSUME DownInv, Next
    PROVE  \/ step \notin {"made", "leave", "replace"}
           \/ UNCHANGED <<step, name>>
           \/ Made \/ Leave \/ Replace \/ Panic \/ Crash
<1>1. Environment => UNCHANGED <<step, name>>
  BY Outside DEF local
<1>2. BeginLogin \/ TakeOver \/ Reply \/ BeginEvent \/ Register \/ Insert \/ Invite \/ NoInviter
            \/ SendInvite
        => step \notin {"made", "leave", "replace"}
  BY DEF BeginLogin, TakeOver, Reply, BeginEvent, Register, Insert, Invite, NoInviter, SendInvite
<1>3. /\ \A b : BeginMembers(b) => step = "idle"
      /\ \A n : BeginJoinPush(n) => step = "idle"
      /\ \A n : ListMember(n) => step = "list"
  BY DEF BeginMembers, BeginJoinPush, ListMember
<1>4. Create \/ CreateTaken \/ Join \/ JoinRefused \/ EndList => step \in {"create", "join", "list"}
  BY DEF Create, CreateTaken, Join, JoinRefused, EndList
<1>5. Restart => step = "idle"
  BY DEF Restart, DownInv
<1> QED
  BY <1>1, <1>2, <1>3, <1>4, <1>5 DEF Next, HandlerStep, Connection

LEMMA StrandedStep ==
    TypeOK /\ DownInv /\ HolderInv /\ OneUserPerMatrixId /\ NoneStranded /\ Next => NoneStranded'
<1> SUFFICES ASSUME TypeOK, DownInv, HolderInv, OneUserPerMatrixId, NoneStranded, Next, faults' = 0,
                    NEW n \in puppeted', n \notin puppets', \A r \in Stored' : r.name # n
             PROVE  step' \in {"made", "leave", "replace"} /\ name' = n
  BY DEF NoneStranded
<1>0. faults = 0 /\ ~Panic /\ ~Crash
  BY Faultless
<1>1. Stored \subseteq Stored'
  <2>1. CASE UNCHANGED real
    BY <2>1 DEF Stored
  <2>2. ASSUME NEW r \in UserType, real' = Append(real, r) PROVE Stored \subseteq Stored'
    BY <2>2, AppendFacts DEF Stored, Rows
  <2> QED
    BY <2>1, <2>2, RealStep
<1>2. CASE Create
  <2>1. step' = "made" /\ name' = name /\ UNCHANGED puppets
    BY <1>2 DEF Create, disk
  <2>2. puppeted' = puppeted \cup {name} /\ step = "create"
    BY <1>2 DEF Create
  <2> QED
    BY <1>0, <1>1, <2>1, <2>2 DEF NoneStranded
<1>3. CASE TakeOver
  <2>1. step = "takeover" /\ puppeted' = puppeted /\ name' = name
        /\ step' \in {"leave", "replace"} /\ puppets \subseteq puppets' \cup {name}
    BY <1>3 DEF TakeOver, servers
  <2> QED
    BY <1>0, <1>1, <2>1 DEF NoneStranded
<1>4. CASE ~Create /\ ~TakeOver
  <2>1. n \in puppeted \ puppets
    BY <1>4, Frame DEF Made
  <2>2. step \in {"made", "leave", "replace"} /\ name = n
    BY <1>0, <1>1, <2>1 DEF NoneStranded
  <2>3. CASE UNCHANGED <<step, name>>
    BY <2>2, <2>3
  <2>4. ~Made
    BY <2>2 DEF Made
  <2>5. CASE Leave
    BY <2>2, <2>5 DEF Leave
  <2>6. ASSUME Replace PROVE FALSE
    <3>1. \A x, y \in users : x.mx = y.mx => x = y
      BY <1>0 DEF OneUserPerMatrixId
    <3>2. PICK rest \in IF ByMx(mx) = {} THEN {users} ELSE {users \ {x} : x \in ByMx(mx)} :
              \/ \E y \in rest : y.mx = mx
              \/ real' = Append(real, User(mx, name, "given"))
      BY <2>6 DEF Replace
    <3>3. \A y \in rest : y.mx # mx
      BY <3>1, <3>2 DEF ByMx
    <3>4. mx \in MatrixIds /\ name \in TomsgNames
      BY <2>6, ReplaceFacts, IdFacts
    <3>5. User(mx, name, "given") \in UserType /\ User(mx, name, "given").name = name
      BY <3>4, MadeFacts
    <3>6. User(mx, name, "given") \in Stored'
      BY <3>2, <3>3, <3>5, AppendFacts DEF Stored, Rows
    <3> QED
      BY <2>2, <3>5, <3>6
  <2> QED
    BY <1>0, <2>2, <2>3, <2>4, <2>5, <2>6, PuppetFrame
<1> QED
  BY <1>2, <1>3, <1>4

---------------------------------------------------------------------------
\* The invariant.

LEMMA InitInv == Init => Inv
<1> SUFFICES ASSUME Init PROVE Inv
  OBVIOUS
<1>1. TypeOK
  <2>1. up \in BOOLEAN /\ push \in BOOLEAN
    BY DEF Init
  <2>3. real \in Seq(UserType)
    BY DEF Init
  <2>2. accounts \subseteq TomsgNames
    BY IdFacts DEF Init
  <2> QED
    BY <2>1, <2>2, <2>3 DEF Init, TypeOK, Steps
<1>2. Rows = {} /\ users = {} /\ participants = {} /\ faults = 0 /\ Stored = {}
  BY DEF Init, Rows, Stored
<1>3. RowInv /\ HasEnds /\ DownInv
  BY <1>2 DEF Init, RowInv, HasEnds, Named, Given, DownInv
<1>4. HolderInv /\ RosterInv /\ PuppetInv
  BY <1>2 DEF Init, HolderInv, RosterInv, PuppetInv
<1>5. LostInv
  <2>1. ASSUME NEW m \in MatrixIds PROVE Lost(m) = {}
    BY IdFacts DEF Init, Lost
  <2>2. \A m \in MatrixIds : Cardinality(Lost(m)) <= faults
    BY <1>2, <2>1, FS_EmptySet
  <2> QED
    BY <1>2, <2>2 DEF LostInv
<1>6. UninvitedInv /\ Recorded /\ PuppetOrReal /\ BoundToUser /\ OneUserPerMatrixId /\ KickedOut
  <2>1. Uninvited = {}
    BY DEF Init, Uninvited
  <2>2. UninvitedInv
    BY <1>2, <2>1, FS_EmptySet DEF UninvitedInv, InvitesLost
  <2> QED
    BY <1>2, <2>2 DEF Init, Recorded, PuppetOrReal, BoundToUser, OneUserPerMatrixId, KickedOut
<1>7. NoneStranded /\ KeptInv
  <2>1. Loaded = {}
    BY DEF Init, Loaded
  <2> QED
    BY <2>1 DEF Init, NoneStranded, KeptInv
<1> QED
  BY <1>1, <1>3, <1>4, <1>5, <1>6, <1>7 DEF Inv

LEMMA StutterInv == Inv /\ UNCHANGED vars => Inv'
<1> SUFFICES ASSUME Inv, UNCHANGED vars PROVE Inv'
  OBVIOUS
<1> USE DEF vars, servers, disk, memory, local, bounds
<1>1. TypeOK' /\ DownInv'
  BY DEF Inv, TypeOK, DownInv
<1>2. RowInv' /\ HasEnds'
  BY DEF Inv, RowInv, HasEnds, Named, Given, Rows
<1>3. HolderInv'
  BY DEF Inv, HolderInv, ByMx, ByName, HasRow, Rows
<1>4. RosterInv' /\ PuppetInv'
  BY DEF Inv, RosterInv, PuppetInv, HasRow, Rows
<1>5. LostInv'
  BY DEF Inv, LostInv, Lost, AutoRow, InFlight, ByMx, Rows
<1>6. UninvitedInv' /\ Recorded' /\ PuppetOrReal'
  <2>1. Uninvited' = Uninvited
    BY DEF Uninvited, Inviting
  <2> QED
    BY <2>1 DEF Inv, UninvitedInv, InvitesLost, Recorded, Stored, PuppetOrReal
<1>7. BoundToUser' /\ OneUserPerMatrixId' /\ KickedOut'
  BY DEF Inv, BoundToUser, OneUserPerMatrixId, KickedOut
<1>8. KeptInv' /\ NoneStranded'
  <2>1. KeptInv'
    <3>1. Loaded' = Loaded
      BY DEF Loaded, Winner
    <3> QED
      BY <3>1 DEF Inv, KeptInv, ByMx
  <2>2. NoneStranded'
    BY DEF Inv, NoneStranded, Stored
  <2> QED
    BY <2>1, <2>2
<1> QED
  BY <1>1, <1>2, <1>3, <1>4, <1>5, <1>6, <1>7, <1>8 DEF Inv

LEMMA StepInv == Inv /\ [Next]_vars => Inv'
<1> SUFFICES ASSUME Inv, Next PROVE Inv'
  BY StutterInv
<1>1. /\ TypeOK /\ RowInv /\ HasEnds /\ DownInv /\ HolderInv /\ RosterInv /\ PuppetInv /\ LostInv
      /\ UninvitedInv /\ Recorded /\ PuppetOrReal /\ BoundToUser /\ OneUserPerMatrixId /\ KickedOut
      /\ KeptInv /\ NoneStranded
  BY DEF Inv
<1>2. TypeOK' /\ RowInv' /\ HasEnds' /\ DownInv'
  BY <1>1, TypeStep, RowStep, EndsStep, DownStep
<1>3. HolderInv' /\ RosterInv' /\ PuppetInv'
  BY <1>1, HolderStep, RosterStep, PuppetStep
<1>4. LostInv' /\ UninvitedInv'
  BY <1>1, LostStep, UninvitedStep
<1>5. Recorded' /\ PuppetOrReal' /\ BoundToUser' /\ OneUserPerMatrixId' /\ KickedOut'
  BY <1>1, RecordedStep, PuppetOrRealStep, BoundStep, OneUserStep, KickedStep
<1>6. KeptInv' /\ NoneStranded'
  BY <1>1, KeptStep, StrandedStep
<1> QED
  BY <1>2, <1>3, <1>4, <1>5, <1>6 DEF Inv

\* Where the bridge is while it logs somebody in, registers them or makes a
\* puppet, and what it, the disk and the two servers then hold of them.
THEOREM InvCorrect == Spec => []Inv
<1>1. Init => Inv
  BY InitInv
<1>2. Inv /\ [Next]_vars => Inv'
  BY StepInv
<1> QED
  BY <1>1, <1>2, PTL DEF Spec

\* Every variable stays in its type.
THEOREM TypeCorrect == Spec => []TypeOK
<1>1. Inv => TypeOK
  BY DEF Inv
<1> QED
  BY <1>1, InvCorrect, PTL

\* Nobody has a puppet and is a Matrix user at once: login takes the puppet
\* over (take_over), and ensure_puppet makes none for a managed name.
THEOREM PuppetOrRealCorrect == Spec => []PuppetOrReal
<1>1. Inv => PuppetOrReal
  BY DEF Inv
<1> QED
  BY <1>1, InvCorrect, PTL

\* A connection belongs to a managed real user, as bind() asserts.
THEOREM BoundCorrect == Spec => []BoundToUser
<1>1. Inv => BoundToUser
  BY DEF Inv
<1> QED
  BY <1>1, InvCorrect, PTL

\* Users and participants in memory are on disk, whatever fails.
THEOREM RecordedCorrect == Spec => []Recorded
<1>1. Inv => Recorded
  BY DEF Inv
<1> QED
  BY <1>1, InvCorrect, PTL

\* No user is recorded with the id of a managed puppet, however late the events
\* of the puppet arrive.
THEOREM PuppetsStayCorrect == Spec => []PuppetsStayPuppets
<1>1. Inv => PuppetsStayPuppets
  <2> SUFFICES ASSUME Inv, NEW x \in users, IsPuppet(x), NEW i \in Rows, real[i].mx = x.mx
               PROVE  FALSE
    BY DEF PuppetsStayPuppets, Stored, Rows
  <2>1. x.name \in Puppetable /\ x = PuppetUser(x.name) /\ x.mx = Puppet(x.name)
    BY UserFacts DEF Inv
  <2> QED
    BY <2>1 DEF Inv, PuppetInv
<1> QED
  BY <1>1, InvCorrect, PTL

\* ensure_real_user registers an account once for a Matrix user, and once more
\* for each fault at most.
THEOREM RegisteredOnceCorrect == Spec => []RegisteredOnce
<1>1. Inv => RegisteredOnce
  BY Once DEF Inv
<1> QED
  BY <1>1, InvCorrect, PTL

\* A participant on record whom the tomsg room does not have lost their invite
\* to a fault of their own, or was invited by one who is not in the room either.
THEOREM InvitesLostCorrect == Spec => []InvitesLost
<1>1. Inv => InvitesLost
  BY DEF Inv, UninvitedInv
<1> QED
  BY <1>1, InvCorrect, PTL

\* A Matrix id is that of one managed user, until something fails.
THEOREM OneUserCorrect == Spec => []OneUserPerMatrixId
<1>1. Inv => OneUserPerMatrixId
  BY DEF Inv
<1> QED
  BY <1>1, InvCorrect, PTL

\* The puppet that a login took over takes part in no room.
THEOREM KickedOutCorrect == Spec => []KickedOut
<1>1. Inv => KickedOut
  BY DEF Inv
<1> QED
  BY <1>1, InvCorrect, PTL

\* A restart loses a user or a puppet only to somebody of the same tomsg name,
\* and brings back only users whose Matrix id has logged in as another.
THEOREM RestartCorrect == Spec => []RestartKeeps
<1>1. Inv => RestartKeeps
  BY Keeps DEF Inv
<1> QED
  BY <1>1, InvCorrect, PTL

\* Without faults the Matrix accounts that ensure_puppet made are those of
\* puppets and of tomsg users that somebody has logged in as.
THEOREM StrandedCorrect == Spec => []NoneStranded
<1>1. Inv => NoneStranded
  BY DEF Inv
<1> QED
  BY <1>1, InvCorrect, PTL

=============================================================================
