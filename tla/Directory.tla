----------------------------- MODULE Directory -----------------------------
(***************************************************************************)
(* What State and its database promise of rooms.  A tomsg room gets one    *)
(* Matrix room, which no other has, and keeps it; whoever takes part in a  *)
(* room does so from then on; a user has one management room, the last one *)
(* that was chosen.  There are no restarts and no failures here: those of  *)
(* the program cannot be seen.  Rooms implements this specification.       *)
(* Login may take a puppet out of its rooms, here as in Rooms it does not. *)
(***************************************************************************)

CONSTANTS Names, Places, Users, People, None

VARIABLES
    rooms,         \* pairs of a tomsg room and its Matrix room
    participants,  \* pairs of a tomsg room and who takes part in it
    management     \* the management room of a user, or None

vars == <<rooms, participants, management>>

Init ==
    /\ rooms = {} /\ participants = {}
    /\ management = [u \in Users |-> None]

Tied(n) == \E a \in rooms : a[1] = n

Tie(n, r) ==
    /\ \A a \in rooms : a[1] # n /\ a[2] # r
    /\ rooms' = rooms \cup {<<n, r>>}

\* The bridge comes across a tomsg room.
Plumb(n, r) == Tie(n, r) /\ UNCHANGED <<participants, management>>

\* A user ties it to a Matrix room, and takes part in it.
Bridge(n, r, u) ==
    /\ Tie(n, r)
    /\ participants' = participants \cup {<<n, u>>}
    /\ UNCHANGED management

\* Somebody takes part in a room.
Admit(n, x) ==
    /\ Tied(n)
    /\ participants' = participants \cup {<<n, x>>}
    /\ UNCHANGED <<rooms, management>>

\* Members of the tomsg room do, together.
Gather(n, X) ==
    /\ Tied(n)
    /\ participants' = participants \cup ({n} \X X)
    /\ UNCHANGED <<rooms, management>>

Appoint(u, r) ==
    /\ management' = [management EXCEPT ![u] = r]
    /\ UNCHANGED <<rooms, participants>>

Next ==
    \/ \E n \in Names, X \in SUBSET People : Gather(n, X)
    \/ \E n \in Names, x \in Users \cup People : Admit(n, x)
    \/ \E u \in Users, r \in Places : Appoint(u, r)
    \/ \E n \in Names, r \in Places : Plumb(n, r) \/ \E u \in Users : Bridge(n, r, u)

Spec == Init /\ [][Next]_vars

=============================================================================
