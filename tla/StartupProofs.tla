--------------------------- MODULE StartupProofs ---------------------------
(***************************************************************************)
(* Proofs about Startup: ids of messages are used once, and the migration  *)
(* keeps the members of the room, for any users, tasks and faults.         *)
(***************************************************************************)
EXTENDS Startup, TLAPS

\* Only the holder of the lock, in a process that serves, is sending.
Exclusive == \A t \in Tasks : step[t] # "idle" => lock = t /\ stage = "serving"

\* An id that was taken was not saved; one that was saved was not sent yet.
Fresh ==
    /\ stage # "down" => saved <= counter
    /\ \A i \in DOMAIN sent : sent[i] < saved
    /\ \A t \in Tasks :
        /\ step[t] = "taken" => saved <= id[t] /\ id[t] < counter
        /\ step[t] = "saved" =>
            /\ id[t] < saved
            /\ \A i \in DOMAIN sent : sent[i] < id[t]

\* How far the transaction of migration two is.
Drafted ==
    /\ at # 2 => draft = NoDraft
    /\ draft.n > 0 => tables = "old"
    /\ draft.n < 2 => draft.rows = {}
    /\ draft.n = 2 => draft.rows = Join("puppet", Puppets, Members)
    /\ draft.n > 2 => draft.rows = Managed

\* Migration two is skipped or done only once the tables are new.
Pending ==
    /\ version = 2 => tables = "new"
    /\ stage = "migrate" /\ 2 \notin pending /\ at # 2 => tables = "new"
    /\ stage # "migrate" => at = 0

SendInv == TypeOK /\ Exclusive /\ Fresh /\ TxnOnce
DiskInv == TypeOK /\ Drafted /\ Pending /\ MembersKept /\ LoadsMigrated

---------------------------------------------------------------------------

LEMMA NoDraftType == NoDraft \in Drafts
  BY DEF NoDraft, Drafts

LEMMA InitType == Init => TypeOK
<1> SUFFICES ASSUME Init PROVE TypeOK
  OBVIOUS
<1>1. version \in 0..2 /\ 1..version \subseteq {1, 2} /\ rows \subseteq Row
  BY StartupAssumption DEF Init, Managed, Join, Row
<1>2. sent \in Seq(Nat)
  BY DEF Init
<1>3. draft \in Drafts
  BY NoDraftType DEF Init
<1>4. step \in [Tasks -> {"idle", "taken", "saved"}] /\ id \in [Tasks -> Nat]
  BY DEF Init
<1>5. poisoned \in BOOLEAN
  BY Zenon DEF Init
<1> QED
  BY <1>1, <1>2, <1>3, <1>4, <1>5 DEF Init, TypeOK

LEMMA DownType ==
    ASSUME TypeOK, Down, UNCHANGED <<disk, server, applied>>, faults' \in Nat
    PROVE  TypeOK'
<1>1. draft' \in Drafts
  BY NoDraftType DEF Down
<1>2. step' \in [Tasks -> {"idle", "taken", "saved"}] /\ id' \in [Tasks -> Nat]
  BY DEF Down
<1>3. poisoned' \in BOOLEAN
  BY Zenon DEF Down
<1> QED
  BY <1>1, <1>2, <1>3 DEF TypeOK, Down, disk, server

LEMMA TypeStep == TypeOK /\ [Next]_vars => TypeOK'
<1> SUFFICES ASSUME TypeOK, [Next]_vars PROVE TypeOK'
  OBVIOUS
<1> USE DEF disk, server, starting, sending
<1>1. CASE Boot
  BY <1>1 DEF TypeOK, Boot
<1>2. ASSUME NEW m \in {1, 2}, Begin(m) PROVE TypeOK'
  BY <1>2 DEF TypeOK, Begin, Named
<1>3. ASSUME NEW p \in Puppets, Name(p) PROVE TypeOK'
  BY <1>3 DEF TypeOK, Name
<1>4. CASE EndOne
  BY <1>4 DEF TypeOK, EndOne
<1>5. CASE CreateFails
  BY <1>5, DownType DEF TypeOK, CreateFails
<1>6. CASE Two
  <2>1. Join("puppet", Puppets, joins) \subseteq Row /\ Join("real", Reals, joins) \subseteq Row
    BY DEF Join, Row
  <2>2. ASSUME NEW n \in 0..3, NEW new \in SUBSET Row, Statement(n, new) PROVE TypeOK'
    <3>1. [n |-> n + 1, rows |-> draft.rows \cup new] \in Drafts
      BY DEF TypeOK, Drafts
    <3> QED
      BY <2>2, <3>1 DEF TypeOK, Statement, Write
  <2> QED
    BY <1>6, <2>1, <2>2 DEF Two
<1>7. CASE Commit
  BY <1>7, NoDraftType DEF TypeOK, Commit, Drafts
<1>8. CASE Migrated
  BY <1>8 DEF TypeOK, Migrated
<1>9. CASE Load
  BY <1>9 DEF TypeOK, Load
<1>10. CASE NameFails
  BY <1>10, DownType DEF TypeOK, NameFails, Fault
<1>11. CASE Crash
  BY <1>11, DownType DEF TypeOK, Crash, Fault
<1>13. ASSUME NEW t \in Tasks, Take(t) PROVE TypeOK'
  BY <1>13 DEF TypeOK, Take, Idle
<1>14. ASSUME NEW t \in Tasks, Save(t) PROVE TypeOK'
  BY <1>14 DEF TypeOK, Save, Following
<1>15. ASSUME NEW t \in Tasks, SaveFails(t) PROVE TypeOK'
  BY <1>15, StartupAssumption DEF TypeOK, SaveFails, Release, Fault
<1>16. ASSUME NEW t \in Tasks, SavePoisoned(t) PROVE TypeOK'
  BY <1>16 DEF TypeOK, SavePoisoned, Release
<1>17. ASSUME NEW t \in Tasks, Request(t) PROVE TypeOK'
  BY <1>17 DEF TypeOK, Request, Release
<1>18. CASE UNCHANGED vars
  BY <1>18 DEF TypeOK, vars
<1> QED
  BY <1>1, <1>2, <1>3, <1>4, <1>5, <1>6, <1>7, <1>8, <1>9, <1>10, <1>11,
     <1>13, <1>14, <1>15, <1>16, <1>17, <1>18 DEF Next, Starting

\* Only the tasks' steps touch what SendInv is about, besides Boot and the
\* ends of the process.
LEMMA SendStep == SendInv /\ [Next]_vars => Exclusive' /\ Fresh' /\ TxnOnce'
<1> SUFFICES ASSUME SendInv, [Next]_vars PROVE Exclusive' /\ Fresh' /\ TxnOnce'
  OBVIOUS
<1> USE DEF SendInv, Exclusive, Fresh, TxnOnce, TypeOK, disk, server, starting, sending
<1>1. CASE Boot
  BY <1>1 DEF Boot
<1>2. ASSUME Down, UNCHANGED <<saved, sent>> PROVE Exclusive' /\ Fresh' /\ TxnOnce'
  BY <1>2 DEF Down
<1>3. ASSUME UNCHANGED <<saved, sent, sending>>, stage # "serving", stage' # "down", stage # "down"
      PROVE Exclusive' /\ Fresh' /\ TxnOnce'
  BY <1>3
<1>4. ASSUME UNCHANGED <<saved, sent, sending, stage>> PROVE Exclusive' /\ Fresh' /\ TxnOnce'
  BY <1>4
<1>5. ASSUME NEW t \in Tasks, Take(t) PROVE Exclusive' /\ Fresh' /\ TxnOnce'
  <2>1. \A u \in Tasks : u # t => step[u] = "idle"
    BY <1>5, StartupAssumption DEF Take, Idle
  <2> QED
    BY <1>5, <2>1 DEF Take, Idle
<1>6. ASSUME NEW t \in Tasks, Save(t) PROVE Exclusive' /\ Fresh' /\ TxnOnce'
  <2>1. \A u \in Tasks : u # t => step[u] = "idle"
    BY <1>6 DEF Save
  <2> QED
    BY <1>6, <2>1 DEF Save, Following
<1>7. ASSUME NEW t \in Tasks, step[t] # "idle", Release(t), UNCHANGED <<saved, sent, counter, id, stage>>
      PROVE Exclusive' /\ Fresh' /\ TxnOnce'
  <2>1. \A u \in Tasks : step'[u] = "idle"
    BY <1>7 DEF Release
  <2> QED
    BY <1>7, <2>1
<1>8. ASSUME NEW t \in Tasks, Request(t) PROVE Exclusive' /\ Fresh' /\ TxnOnce'
  <2>1. \A u \in Tasks : step'[u] = "idle"
    BY <1>8 DEF Request, Release
  <2>2. \A i \in DOMAIN sent : sent[i] < id[t]
    BY <1>8 DEF Request
  <2>3. sent' = Append(sent, id[t]) /\ sent \in Seq(Nat) /\ id[t] \in Nat
    BY <1>8 DEF Request
  <2> QED
    BY <1>8, <2>1, <2>2, <2>3 DEF Request, Release
<1>9. CASE UNCHANGED vars
  BY <1>4, <1>9 DEF vars
<1>10. CASE Starting
  BY <1>1, <1>2, <1>3, <1>4, <1>10
     DEF Starting, Begin, Name, EndOne, CreateFails, Two, Statement, Write, Commit, Migrated, Load
<1>11. CASE NameFails \/ Crash
  BY <1>2, <1>4, <1>11 DEF NameFails, Crash
<1> QED
  BY <1>5, <1>6, <1>7, <1>8, <1>9, <1>10, <1>11 DEF Next, SaveFails, SavePoisoned

LEMMA DiskStep == DiskInv /\ [Next]_vars => Drafted' /\ Pending' /\ MembersKept' /\ LoadsMigrated'
<1> SUFFICES ASSUME DiskInv, [Next]_vars
             PROVE  Drafted' /\ Pending' /\ MembersKept' /\ LoadsMigrated'
  OBVIOUS
<1> DEFINE Goal == Drafted' /\ Pending' /\ MembersKept' /\ LoadsMigrated'
<1> USE DEF DiskInv, Drafted, Pending, MembersKept, LoadsMigrated, TypeOK, Drafts,
            disk, server, starting, sending
<1>1. CASE Boot
  BY <1>1 DEF Boot, Skipped
<1>2. ASSUME NEW m \in {1, 2}, Begin(m) PROVE Goal
  BY <1>2 DEF Begin
<1>3. ASSUME Down, UNCHANGED <<version, tables, joins, rows>> PROVE Goal
  BY <1>3 DEF Down, NoDraft
<1>4. CASE EndOne
  BY <1>4 DEF EndOne
<1>5. CASE Two
  <2>1. ASSUME NEW n, NEW new, Statement(n, new), Drafted' PROVE Goal
    BY <2>1 DEF Statement, Write
  <2>2. ASSUME tables = "old", Statement(0, {}) PROVE Drafted'
    BY <2>2 DEF Statement, Write
  <2>3. ASSUME Statement(1, Join("puppet", Puppets, joins)) PROVE Drafted'
    BY <2>3 DEF Statement, Write
  <2>4. ASSUME Statement(2, Join("real", Reals, joins)) PROVE Drafted'
    BY <2>4 DEF Statement, Write, Managed
  <2>5. ASSUME Statement(3, {}) PROVE Drafted'
    BY <2>5 DEF Statement, Write
  <2> QED
    BY <1>5, <2>1, <2>2, <2>3, <2>4, <2>5 DEF Two
<1>6. CASE Commit
  BY <1>6 DEF Commit, NoDraft
<1>7. CASE Migrated
  BY <1>7 DEF Migrated
<1>8. CASE Load
  BY <1>8 DEF Load
<1>10. ASSUME UNCHANGED <<version, tables, joins, rows, stage, pending, at, draft>> PROVE Goal
  BY <1>10
<1>11. CASE NameFails \/ Crash \/ CreateFails
  BY <1>3, <1>11 DEF NameFails, Crash, CreateFails
<1>12. ASSUME NEW t \in Tasks, Take(t) \/ Save(t) \/ SaveFails(t) \/ SavePoisoned(t) \/ Request(t)
       PROVE  Goal
  BY <1>10, <1>12 DEF Take, Save, SaveFails, SavePoisoned, Request
<1>13. CASE (\E p \in Puppets : Name(p)) \/ UNCHANGED vars
  BY <1>10, <1>13 DEF Name, vars
<1> QED
  BY <1>1, <1>2, <1>4, <1>5, <1>6, <1>7, <1>8, <1>11, <1>12, <1>13 DEF Next, Starting

---------------------------------------------------------------------------

\* The state is well formed in every behaviour: main.rs, migration.rs and
\* MatrixClient, for any users, tasks and faults.
THEOREM StartupTypeCorrect == Spec => []TypeOK
<1>1. TypeOK /\ [Next]_vars => TypeOK'
  BY TypeStep
<1> QED
  BY InitType, <1>1, PTL DEF Spec

\* get_txin never gives one id to two messages, whatever the order of the
\* tasks and wherever the process ends.
THEOREM TxnOnceCorrect == Spec => []TxnOnce
<1>1. Init => SendInv
  BY InitType DEF Init, SendInv, Exclusive, Fresh, TxnOnce
<1>2. SendInv /\ [Next]_vars => SendInv'
  BY TypeStep, SendStep DEF SendInv
<1>3. SendInv => TxnOnce
  BY DEF SendInv
<1> QED
  BY <1>1, <1>2, <1>3, PTL DEF Spec

LEMMA DiskCorrect == Spec => []DiskInv
<1>1. Init => DiskInv
  BY InitType, StartupAssumption
  DEF Init, DiskInv, Drafted, Pending, MembersKept, LoadsMigrated, NoDraft
<1>2. DiskInv /\ [Next]_vars => DiskInv'
  BY TypeStep, DiskStep DEF DiskInv
<1> QED
  BY <1>1, <1>2, PTL DEF Spec

\* Migration two moves every managed member, or none: wherever it is
\* interrupted, and however often it is started.
THEOREM MembersKeptCorrect == Spec => []MembersKept
<1>1. DiskInv => MembersKept
  BY DEF DiskInv
<1> QED
  BY DiskCorrect, <1>1, PTL

\* State::from_db always finds the tables that it reads.
THEOREM LoadsMigratedCorrect == Spec => []LoadsMigrated
<1>1. DiskInv => LoadsMigrated
  BY DEF DiskInv
<1> QED
  BY DiskCorrect, <1>1, PTL
=============================================================================
