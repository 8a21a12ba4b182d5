------------------------------ MODULE Ledger ------------------------------
(***************************************************************************)
(* What the bridge promises for one tomsg room: every message of the room  *)
(* is copied to Matrix until the bridge has a record of it, and never      *)
(* afterwards.  A crash between a copy and its record allows another copy  *)
(* (delivery is at least once), and a message the bridge itself sent to    *)
(* tomsg is not copied back unless the bridge lost track of having sent    *)
(* it.  Relay implements this specification.                               *)
(***************************************************************************)
EXTENDS Naturals, Sequences

VARIABLES
    copies, \* copies[i]: how often message i was posted to Matrix
    own,    \* messages the bridge sent and still knows to be its own
    done    \* messages the bridge has recorded as handled

vars == <<copies, own, done>>

Ids == 1..Len(copies)

TypeOK ==
    /\ copies \in Seq(Nat)
    /\ own \subseteq Ids
    /\ done \subseteq Ids

Init ==
    /\ copies = <<>>
    /\ own = {}
    /\ done = {}

\* Somebody else writes a message in the tomsg room.
Hear ==
    /\ copies' = Append(copies, 0)
    /\ UNCHANGED <<own, done>>

\* The bridge writes one, on behalf of a Matrix user.
Say ==
    /\ copies' = Append(copies, 0)
    /\ own' = own \cup {Len(copies) + 1}
    /\ UNCHANGED done

Copy(i) ==
    /\ i \notin done \cup own
    /\ copies' = [copies EXCEPT ![i] = @ + 1]
    /\ UNCHANGED <<own, done>>

Record(i) ==
    /\ i \notin done
    /\ i \in own \/ copies[i] > 0
    /\ done' = done \cup {i}
    /\ UNCHANGED <<copies, own>>

\* The bridge loses track of a message before it recorded it.
Forget(i) ==
    /\ i \in own \ done
    /\ own' = own \ {i}
    /\ UNCHANGED <<copies, done>>

Next == Hear \/ Say \/ \E i \in Ids : Copy(i) \/ Record(i) \/ Forget(i)

Spec == Init /\ [][Next]_vars

=============================================================================
