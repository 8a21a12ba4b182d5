------------------------------ MODULE History ------------------------------
(***************************************************************************)
(* get_unhandled_history, for one room: a loop that awaits the reply to    *)
(* one request after the other, from the newest batch of messages to the   *)
(* first one of which everything is handled.  The caller has the lock of   *)
(* the State meanwhile, so that nothing is recorded as handled, but others *)
(* go on writing in the tomsg room.  Relay has all of it in one step.      *)
(*                                                                         *)
(* The steps between two requests, one per message of the reply, await     *)
(* nothing; they are apart so that the loop can be reasoned about.         *)
(***************************************************************************)
EXTENDS Integers, Sequences, Batches

CONSTANT MaxSize   \* bound: messages in the room

ASSUME HistoryAssumption == Batch \in Nat \ {0} /\ MaxSize \in Nat

VARIABLES
    size,      \* messages in the tomsg room
    handled,   \* Room.handled_messages
    fetched,   \* Room.fetched_tomsg_history
    at,        \* "idle", "ask", "read" or "done"
    earliest,  \* earliest_id, 0 if None
    pos, last, \* the messages of the reply that are still to be looked at
    more,      \* get_history
    res,       \* res
    \* Ghosts.
    requests,  \* requests that were answered
    top        \* the size of the room at the first of them

local == <<earliest, pos, last, more, res, requests, top>>
vars == <<size, handled, fetched, at, local>>

TypeOK ==
    /\ size \in Nat /\ handled \subseteq 1..size /\ fetched \in BOOLEAN
    /\ at \in {"idle", "ask", "read", "done"}
    /\ earliest \in Nat /\ pos \in Nat /\ last \in Nat /\ more \in BOOLEAN
    /\ res \in Seq(1..size)
    /\ requests \in Nat /\ top \in 0..size

Init ==
    /\ size = 0 /\ handled = {} /\ fetched = FALSE /\ at = "idle"
    /\ earliest = 0 /\ pos = 1 /\ last = 0 /\ more = TRUE /\ res = <<>>
    /\ requests = 0 /\ top = 0

---------------------------------------------------------------------------
\* The others.

\* Somebody writes in the tomsg room.
Write ==
    /\ size < MaxSize
    /\ size' = size + 1
    /\ UNCHANGED <<handled, fetched, at, local>>

\* Another task, or the caller afterwards, records a message as handled.
Handle(i) ==
    /\ at = "idle"
    /\ handled' = handled \cup {i}
    /\ UNCHANGED <<size, fetched, at, local>>

\* The process ends and is started again.  What is handled is in the database.
Restart ==
    /\ at' = "idle"
    /\ fetched' = FALSE
    /\ UNCHANGED <<size, handled, local>>

---------------------------------------------------------------------------
\* The loop.

\* A room that was fetched is not fetched again.
Begin ==
    /\ at = "idle"
    /\ ~fetched
    /\ at' = "ask"
    /\ earliest' = 0 /\ more' = TRUE /\ res' = <<>>
    /\ requests' = 0
    /\ UNCHANGED <<size, handled, fetched, pos, last, top>>

\* The reply to History, and to HistoryBefore for an id: up to Batch messages.
Newest == IF earliest = 0 THEN size ELSE earliest - 1

Oldest(hi) == IF hi > Batch THEN hi - Batch + 1 ELSE 1

\* A mutant of Remembered: the last message of the reply is taken for the first.
RememberedLast(hi) == IF hi = 0 THEN earliest ELSE hi

\* earliest_id after a reply, the last message of which is hi.
Remembered(hi) == IF hi = 0 THEN earliest ELSE Oldest(hi)

Reply ==
    /\ at = "ask"
    /\ at' = "read"
    /\ last' = Newest
    /\ pos' = Oldest(Newest)
    /\ earliest' = Remembered(Newest)
    /\ more' = FALSE
    /\ requests' = requests + 1
    /\ top' = IF requests = 0 THEN size ELSE top
    /\ UNCHANGED <<size, handled, fetched, res>>

\* A mutant of Skip: what comes after a handled message is not looked at.
SkipRest == pos' = last + 1 /\ UNCHANGED <<more, res>>
Skip == pos' = pos + 1 /\ UNCHANGED <<more, res>>

Keep == pos' = pos + 1 /\ more' = TRUE /\ res' = Append(res, pos)

Read ==
    /\ at = "read" /\ pos <= last
    /\ IF pos \in handled THEN Skip ELSE Keep
    /\ UNCHANGED <<size, handled, fetched, at, earliest, last, requests, top>>

NextBatch ==
    /\ at = "read" /\ pos > last
    /\ IF more THEN at' = "ask" /\ UNCHANGED fetched
               ELSE at' = "done" /\ fetched' = TRUE
    /\ UNCHANGED <<size, handled, local>>

Return ==
    /\ at = "done"
    /\ at' = "idle"
    /\ UNCHANGED <<size, handled, fetched, local>>

\* A request fails and unwrap panics: the room is not fetched, the lock released.
Fail ==
    /\ at = "ask"
    /\ at' = "idle"
    /\ UNCHANGED <<size, handled, fetched, local>>

Next ==
    \/ Write \/ Restart
    \/ \E i \in 1..size : Handle(i)
    \/ Begin \/ Reply \/ Read \/ NextBatch \/ Return \/ Fail

Spec == Init /\ [][Next]_vars

---------------------------------------------------------------------------

\* The loop returns each message that Unhandled names for the room as it was at
\* the first reply, once, and in BatchOrder, whatever was written meanwhile
\* (get_unhandled_history).  Those written later are pushed to the session.
Returned ==
    at = "done" =>
        /\ {res[k] : k \in DOMAIN res} = Unhandled(top, handled)
        /\ \A k, l \in DOMAIN res : k < l => BatchOrder(top, res[k], res[l])

\* It comes to an end: there is one request for each batch, and one more at
\* most for the empty reply when everything was unhandled.
RequestsBounded == requests <= 1 + (top + Batch - 1) \div Batch

=============================================================================
