------------------------------ MODULE Startup ------------------------------
(***************************************************************************)
(* Start-up of the bridge and the ids of its messages.  The disk outlives  *)
(* the process: main reads the counter of message ids, runs the migrations *)
(* that the schema version calls for, loads the State and serves.  A       *)
(* message that is sent to Matrix takes an id from the counter in memory   *)
(* and saves the next one.  The homeserver takes two messages with one id  *)
(* for the same message.                                                   *)
(*                                                                         *)
(* There is one room.  A tomsg name can belong to a puppet, to a real user,*)
(* to both, or to nobody the bridge manages.                               *)
(***************************************************************************)
EXTENDS Integers, Sequences, FiniteSets

CONSTANTS
    Puppets,    \* tomsg names in the table puppet_users
    Reals,      \* tomsg names in the table real_users
    Members,    \* tomsg names in the table tomsg_room_join
    Versions,   \* schema versions that the database may have at first
    Tasks,      \* tasks that send messages
    Free,       \* the lock when nobody holds it
    MaxIds,     \* bound: ids taken by a process
    MaxFaults,  \* bound: faults
    FaultKinds  \* the faults that may happen

ASSUME StartupAssumption ==
    /\ Free \notin Tasks
    /\ Versions \subseteq {0, 1, 2}
    /\ MaxIds \in Nat /\ MaxFaults \in Nat
    /\ FaultKinds \subseteq {"crash", "matrix", "disk"}

VARIABLES
    \* The disk.
    version,   \* meta.schema_version
    saved,     \* meta.txn_id
    tables,    \* "old", or "new" once migration two has been committed
    joins,     \* table tomsg_room_join
    rows,      \* table room_participants
    \* The homeserver.
    named,     \* puppets with the display name of migration one
    sent,      \* ids of the messages it was sent
    \* The process.
    stage,     \* "down", "migrate", "load" or "serving"
    pending,   \* migrations that are still to be run
    at,        \* the migration that runs, 0 if none
    naming,    \* migration one: puppets that are still to be named
    draft,     \* migration two: the database in its transaction
    counter,   \* MatrixClient.txnid
    poisoned,  \* a panic happened while the Database was locked
    lock,      \* who holds the lock of the State
    step, id,  \* what a task does, and the id it took
    \* Ghosts.
    applied,   \* migrations that were completed
    faults

disk     == <<version, saved, tables, joins, rows>>
server   == <<named, sent>>
starting == <<pending, at, naming, draft>>
sending  == <<counter, poisoned, lock, step, id>>
vars == <<disk, server, stage, starting, sending, applied, faults>>

---------------------------------------------------------------------------

\* INNER JOIN of a table of users with tomsg_room_join.  (A mutant: the join
\* keeps members nobody manages.)
OuterJoin(kind, users, members) == {kind} \X members
Join(kind, users, members) == {kind} \X (users \cap members)

\* Participants of the room: whom the bridge manages among the members.
Managed == Join("puppet", Puppets, Members) \cup Join("real", Reals, Members)

\* get_users prefers a real user to a puppet of the same name.
Named == Puppets \ Reals

Row == ({"puppet"} \X Puppets) \cup ({"real"} \X Reals)

\* The rows that n statements of migration two have left in its transaction.
Drafts == [n : 0..4, rows : SUBSET Row]
NoDraft == [n |-> 0, rows |-> {}]

Fault(kind) == kind \in FaultKinds /\ faults < MaxFaults /\ faults' = faults + 1

TypeOK ==
    /\ version \in 0..2 /\ saved \in Nat
    /\ tables \in {"old", "new"}
    /\ joins \subseteq Members
    /\ rows \subseteq Row
    /\ named \subseteq Puppets /\ sent \in Seq(Nat)
    /\ stage \in {"down", "migrate", "load", "serving"}
    /\ pending \subseteq {1, 2} /\ at \in 0..2
    /\ naming \subseteq Puppets
    /\ draft \in Drafts
    /\ counter \in Nat /\ poisoned \in BOOLEAN
    /\ lock \in Tasks \cup {Free}
    /\ step \in [Tasks -> {"idle", "taken", "saved"}] /\ id \in [Tasks -> Nat]
    /\ applied \subseteq {1, 2} /\ faults \in Nat

\* schema.sql makes a database of version 1 with the old tables.  No code of the
\* bridge writes schema_version: a database is at version 2 when somebody set
\* it by hand after the migration, and then the bridge can be started again.
Init ==
    /\ version \in Versions /\ saved = 0
    /\ tables = IF version = 2 THEN "new" ELSE "old"
    /\ joins = IF version = 2 THEN {} ELSE Members
    /\ rows = IF version = 2 THEN Managed ELSE {}
    /\ named = {} /\ sent = <<>>
    /\ stage = "down" /\ pending = {} /\ at = 0 /\ naming = {} /\ draft = NoDraft
    /\ counter = 0 /\ poisoned = FALSE /\ lock = Free
    /\ step = [t \in Tasks |-> "idle"] /\ id = [t \in Tasks |-> 0]
    /\ applied = 1..version /\ faults = 0

\* The process ends, and with it everything it has in memory.
Down ==
    /\ stage' = "down"
    /\ pending' = {} /\ at' = 0 /\ naming' = {} /\ draft' = NoDraft
    /\ counter' = 0 /\ poisoned' = FALSE /\ lock' = Free
    /\ step' = [t \in Tasks |-> "idle"] /\ id' = [t \in Tasks |-> 0]

---------------------------------------------------------------------------
\* Start-up: main, run_migrations.

\* A mutant of Skipped: the version counts from 0.
SkippedAbove(m) == m <= version + 1

Skipped(m) == m <= version

Boot ==
    /\ stage = "down"
    /\ counter' = saved
    /\ pending' = {m \in {1, 2} : ~Skipped(m)}
    /\ stage' = "migrate"
    /\ UNCHANGED <<disk, server, at, naming, draft, poisoned, lock, step, id, applied, faults>>

\* The migrations are in a HashMap: any may be the next.  The first statement
\* of migration two creates room_participants, which fails when it exists.
Begin(m) ==
    /\ stage = "migrate" /\ at = 0
    /\ m \in pending
    /\ at' = m
    /\ pending' = pending \ {m}
    /\ naming' = IF m = 1 THEN Named ELSE {}
    /\ UNCHANGED <<disk, server, stage, draft, sending, applied, faults>>

\* Migration one names a puppet; the request may fail, and unwrap panics.
Name(p) ==
    /\ at = 1
    /\ p \in naming
    /\ naming' = naming \ {p}
    /\ named' = named \cup {p}
    /\ UNCHANGED <<disk, sent, stage, pending, at, draft, sending, applied, faults>>

NameFails ==
    /\ at = 1 /\ naming # {}
    /\ Fault("matrix")
    /\ Down
    /\ UNCHANGED <<disk, server, applied>>

EndOne ==
    /\ at = 1 /\ naming = {}
    /\ at' = 0
    /\ applied' = applied \cup {1}
    /\ UNCHANGED <<disk, server, stage, pending, naming, draft, sending, faults>>

\* CREATE TABLE fails, and so do run_migrations and its unwrap.
CreateFails ==
    /\ at = 2 /\ tables = "new" /\ draft.n = 0
    /\ Down
    /\ UNCHANGED <<disk, server, applied, faults>>

\* The statements of migration two: create, two inserts, drop.  They change
\* the draft.  (A mutant: they change the database.)
WriteThrough(d) ==
    /\ draft' = d
    /\ rows' = d.rows
    /\ tables' = "new"
    /\ joins' = IF d.n = 4 THEN {} ELSE joins

Write(d) == draft' = d /\ UNCHANGED <<tables, joins, rows>>

Statement(n, new) ==
    /\ at = 2 /\ draft.n = n
    /\ Write([n |-> n + 1, rows |-> draft.rows \cup new])
    /\ UNCHANGED <<version, saved, server, stage, pending, at, naming, sending, applied, faults>>

Two ==
    \/ tables = "old" /\ Statement(0, {})
    \/ Statement(1, Join("puppet", Puppets, joins))
    \/ Statement(2, Join("real", Reals, joins))
    \/ Statement(3, {})

Commit ==
    /\ at = 2 /\ draft.n = 4
    /\ tables' = "new" /\ joins' = {} /\ rows' = draft.rows
    /\ draft' = NoDraft
    /\ at' = 0
    /\ applied' = applied \cup {2}
    /\ UNCHANGED <<version, saved, server, stage, pending, naming, sending, faults>>

Migrated ==
    /\ stage = "migrate" /\ at = 0 /\ pending = {}
    /\ stage' = "load"
    /\ UNCHANGED <<disk, server, starting, sending, applied, faults>>

\* State::from_db reads room_participants, whose absence makes it panic.
Load ==
    /\ stage = "load" /\ tables = "new"
    /\ stage' = "serving"
    /\ UNCHANGED <<disk, server, starting, sending, applied, faults>>

Crash ==
    /\ stage # "down"
    /\ Fault("crash")
    /\ Down
    /\ UNCHANGED <<disk, server, applied>>

---------------------------------------------------------------------------
\* Messages: create_message and get_txin, under the lock of the State.

\* A mutant of Idle: the lock is not asked for.
IdleUnlocked(t) == step[t] = "idle"
Idle(t) == step[t] = "idle" /\ lock = Free

Take(t) ==
    /\ stage = "serving" /\ Idle(t)
    /\ counter < MaxIds
    /\ lock' = t
    /\ counter' = counter + 1
    /\ id' = [id EXCEPT ![t] = counter]
    /\ step' = [step EXCEPT ![t] = "taken"]
    /\ UNCHANGED <<disk, server, stage, starting, poisoned, applied, faults>>

\* A mutant of Following: the id itself is saved.
Same(n) == n
Following(n) == n + 1

Save(t) ==
    /\ step[t] = "taken" /\ ~poisoned
    /\ saved' = Following(id[t])
    /\ step' = [step EXCEPT ![t] = "saved"]
    /\ UNCHANGED <<version, tables, joins, rows, server, stage, starting,
                   counter, poisoned, lock, id, applied, faults>>

Release(t) == lock' = Free /\ step' = [step EXCEPT ![t] = "idle"]

\* The update fails: unwrap panics with the Database locked.
SaveFails(t) ==
    /\ step[t] = "taken" /\ ~poisoned
    /\ Fault("disk")
    /\ poisoned' = TRUE
    /\ Release(t)
    /\ UNCHANGED <<disk, server, stage, starting, counter, id, applied>>

\* The Database is poisoned: its lock().unwrap() panics.
SavePoisoned(t) ==
    /\ step[t] = "taken" /\ poisoned
    /\ Release(t)
    /\ UNCHANGED <<disk, server, stage, starting, counter, poisoned, id, applied, faults>>

Request(t) ==
    /\ step[t] = "saved"
    /\ sent' = Append(sent, id[t])
    /\ Release(t)
    /\ UNCHANGED <<disk, named, stage, starting, counter, poisoned, id, applied, faults>>

---------------------------------------------------------------------------

Starting ==
    \/ Boot
    \/ \E m \in {1, 2} : Begin(m)
    \/ \E p \in Puppets : Name(p)
    \/ EndOne \/ CreateFails \/ Two \/ Commit \/ Migrated \/ Load

Next ==
    \/ Starting
    \/ NameFails \/ Crash
    \/ \E t \in Tasks :
        Take(t) \/ Save(t) \/ SaveFails(t) \/ SavePoisoned(t) \/ Request(t)

Spec == Init /\ [][Next]_vars

\* No two messages are sent with one id, whatever the order of the tasks and
\* however often the process ends: get_txin, which takes the id in memory and
\* then saves the next one.
TxnOnce == \A i, j \in DOMAIN sent : sent[i] = sent[j] => i = j

\* Every member whom the bridge manages is either still in tomsg_room_join or
\* already in room_participants, also when the process ends in the middle of
\* migration two.
MembersKept == IF tables = "old" THEN joins = Members /\ rows = {} ELSE rows = Managed

\* When the migrations are done, State::from_db finds the table it reads.
LoadsMigrated == stage = "load" => tables = "new"

\* A migration runs on a database that those before it were applied to, and
\* it itself was not: "running DB migration {} -> {}" (migration.rs).
MigratesFrom == at # 0 => applied = 1 .. at - 1

=============================================================================
