--------------------------- MODULE HistoryProofs ---------------------------
(***************************************************************************)
(* Proofs about History: the loop returns what Unhandled names, in the     *)
(* order that BatchOrder names, and comes to an end, for every size of     *)
(* batches and however many messages are written while it awaits replies.  *)
(***************************************************************************)
EXTENDS History, TLAPS

\* The oldest message of the first k batches of n messages, n + 1 for none.
Low(n, k) == IF n > k * Batch THEN n - k * Batch + 1 ELSE 1

Got == {res[k] : k \in DOMAIN res}
Sorted == \A k, l \in DOMAIN res : k < l => BatchOrder(top, res[k], res[l])

\* Of each of the first n batches something was not handled.
Wanted(n) == \A k \in 0 .. n - 1 : ~(BatchOf(k, top) \subseteq handled)

\* The loop asks for the messages before those it has seen.
AskInv ==
    at = "ask" =>
        \/ requests = 0 /\ earliest = 0 /\ res = <<>>
        \/ /\ requests > 0 /\ top > 0
           /\ earliest = Low(top, requests)
           /\ Got = {i \in (1..top) \ handled : i >= earliest}
           /\ Sorted /\ Wanted(requests)

\* It has the reply with the batch that comes after those, and has looked at
\* the messages in it before pos.
ReadInv ==
    at = "read" =>
        /\ requests > 0
        /\ last = Low(top, requests - 1) - 1
        /\ top > 0 => earliest = Low(top, requests)
        /\ pos \in Low(top, requests) .. last + 1
        /\ Got = {i \in (1..top) \ handled :
                    i > last \/ (i >= Low(top, requests) /\ i < pos)}
        /\ more <=> \E i \in Low(top, requests) .. pos - 1 : i \notin handled
        /\ Sorted /\ Wanted(requests - 1)

LoopInv == AskInv /\ ReadInv /\ Returned /\ RequestsBounded

---------------------------------------------------------------------------
\* Batches.

LEMMA Quotient ==
    ASSUME NEW a \in Nat, NEW b \in Nat \ {0}
    PROVE  a \div b \in Nat /\ (a \div b) * b <= a /\ a < (a \div b) * b + b
<1>1. a = b * (a \div b) + (a % b) /\ a \div b \in Int /\ a % b \in 0 .. b - 1
  BY SMT
<1> QED
  BY <1>1

LEMMA QuotientLess ==
    ASSUME NEW a \in Nat, NEW b \in Nat \ {0}, NEW k \in Nat
    PROVE  a \div b < k <=> a < k * b
<1> DEFINE q == a \div b
<1>1. q \in Nat /\ q * b <= a /\ a < q * b + b
  BY Quotient
<1> HIDE DEF q
<1>2. k * b \in Nat /\ q * b \in Nat
  BY <1>1
<1>3. ASSUME q < k PROVE a < k * b
  <2>1. (q + 1) * b <= k * b
    BY <1>1, <1>3
  <2> QED
    BY <1>1, <1>2, <2>1
<1>4. ASSUME k <= q PROVE k * b <= a
  <2>1. k * b <= q * b
    BY <1>1, <1>4
  <2> QED
    BY <1>1, <1>2, <2>1
<1> QED
  BY <1>1, <1>2, <1>3, <1>4 DEF q

\* The first k batches are the messages from Low on.
LEMMA LowFacts ==
    ASSUME NEW n \in Nat, NEW k \in Nat
    PROVE  /\ Low(n, k) \in 1 .. n + 1
           /\ \A i \in 1..n : (n - i) \div Batch < k <=> i >= Low(n, k)
<1>1. Batch \in Nat \ {0} /\ k * Batch \in Nat
  BY HistoryAssumption
<1>2. ASSUME NEW i \in 1..n PROVE (n - i) \div Batch < k <=> n - i < k * Batch
  BY <1>1, QuotientLess, n - i \in Nat
<1>3. Low(n, k) \in 1 .. n + 1
  BY <1>1 DEF Low
<1>4. ASSUME NEW i \in 1..n PROVE n - i < k * Batch <=> i >= Low(n, k)
  BY <1>1 DEF Low
<1> QED
  BY <1>2, <1>3, <1>4

\* The next batch begins where Oldest says.
LEMMA LowNext ==
    ASSUME NEW n \in Nat, NEW k \in Nat
    PROVE  Low(n, k + 1) = Oldest(Low(n, k) - 1) /\ Low(n, k + 1) <= Low(n, k)
<1>1. Batch \in Nat \ {0} /\ k * Batch \in Nat
  BY HistoryAssumption
<1>2. (k + 1) * Batch = k * Batch + Batch
  BY <1>1
<1> QED
  BY <1>1, <1>2 DEF Low, Oldest

LEMMA LowFirst ==
    ASSUME NEW n \in Nat
    PROVE  Low(n, 0) = n + 1
<1>1. 0 * Batch = 0
  BY HistoryAssumption
<1> QED
  BY <1>1 DEF Low

\* A batch, by its bounds.
LEMMA BatchFacts ==
    ASSUME NEW n \in Nat, NEW k \in Nat
    PROVE  BatchOf(k, n) = {i \in 1..n : Low(n, k + 1) <= i /\ i < Low(n, k)}
<1>1. ASSUME NEW i \in 1..n
      PROVE  (n - i) \div Batch = k <=> Low(n, k + 1) <= i /\ i < Low(n, k)
  <2>1. (n - i) \div Batch \in Nat
    BY HistoryAssumption, Quotient, n - i \in Nat
  <2>2. /\ (n - i) \div Batch < k <=> i >= Low(n, k)
        /\ (n - i) \div Batch < k + 1 <=> i >= Low(n, k + 1)
    BY LowFacts, k + 1 \in Nat
  <2>3. Low(n, k) \in Nat /\ Low(n, k + 1) \in Nat
    BY LowFacts, k + 1 \in Nat
  <2> QED
    BY <2>1, <2>2, <2>3
<1> QED
  BY <1>1 DEF BatchOf

---------------------------------------------------------------------------
\* Types.

LEMMA SeqMono ==
    ASSUME NEW S, NEW T, S \subseteq T, NEW q \in Seq(S)
    PROVE  q \in Seq(T)
  BY SMT

\* The invariant of types, with what is needed for it: only messages of the room
\* are asked for.
Bounds == earliest <= size + 1 /\ (at = "read" => pos >= 1 /\ last <= size)

LEMMA TypeStep == TypeOK /\ Bounds /\ [Next]_vars => (TypeOK /\ Bounds)'
<1> SUFFICES ASSUME TypeOK, Bounds, [Next]_vars
             PROVE  (TypeOK /\ Bounds)'
  OBVIOUS
<1> USE HistoryAssumption
<1>1. CASE Write
  <2>1. res \in Seq(1..(size + 1))
    <3>1. res \in Seq(1..size) /\ 1..size \subseteq 1..(size + 1)
      BY DEF TypeOK
    <3> QED
      BY <3>1, SeqMono
  <2> QED
    BY <1>1, <2>1 DEF Write, TypeOK, Bounds, local
<1>2. CASE Restart
  BY <1>2 DEF Restart, TypeOK, Bounds, local
<1>3. ASSUME NEW i \in 1..size, Handle(i) PROVE (TypeOK /\ Bounds)'
  BY <1>3 DEF Handle, TypeOK, Bounds, local
<1>4. CASE Begin
  BY <1>4 DEF Begin, TypeOK, Bounds
<1>5. CASE Reply
  <2>1. Newest \in 0..size /\ Oldest(Newest) \in 1 .. size + 1
        /\ Remembered(Newest) \in 0 .. size + 1
    BY DEF TypeOK, Bounds, Newest, Oldest, Remembered
  <2>2. pos' \in Nat /\ pos' >= 1 /\ last' \in Nat /\ last' <= size /\ earliest' \in Nat
        /\ earliest' <= size + 1
    BY <1>5, <2>1 DEF Reply, TypeOK
  <2>3. requests' \in Nat /\ top' \in 0..size /\ more' \in BOOLEAN /\ at' = "read"
    <3>1. requests' = requests + 1 /\ top' \in {size, top} /\ more' = FALSE /\ at' = "read"
      BY <1>5 DEF Reply
    <3>2. requests \in Nat /\ size \in Nat /\ top \in 0..size
      BY DEF TypeOK
    <3>3. requests' \in Nat /\ top' \in 0..size
      BY <3>1, <3>2
    <3> QED
      BY <3>1, <3>3
  <2>4. UNCHANGED <<size, handled, fetched, res>>
    BY <1>5 DEF Reply
  <2> QED
    BY <2>2, <2>3, <2>4 DEF TypeOK, Bounds
<1>6. CASE Read
  <2>1. pos \in 1..size /\ pos + 1 \in Nat
    BY <1>6 DEF Read, TypeOK, Bounds
  <2>2. Append(res, pos) \in Seq(1..size)
    BY <2>1 DEF TypeOK
  <2>3. pos' \in Nat /\ pos' >= 1 /\ more' \in BOOLEAN /\ res' \in Seq(1..size)
    <3>1. pos' = pos + 1 /\ (more' = more \/ more' = TRUE) /\ (res' = res \/ res' = Append(res, pos))
      BY <1>6 DEF Read, Skip, Keep
    <3>2. more \in BOOLEAN /\ res \in Seq(1..size)
      BY DEF TypeOK
    <3>3. pos' \in Nat /\ pos' >= 1
      BY <2>1, <3>1
    <3> QED
      BY <2>2, <3>1, <3>2, <3>3
  <2>4. UNCHANGED <<size, handled, fetched, at, earliest, last, requests, top>>
    BY <1>6 DEF Read
  <2> QED
    BY <2>3, <2>4 DEF TypeOK, Bounds
<1>7. CASE NextBatch
  BY <1>7 DEF NextBatch, TypeOK, Bounds, local
<1>8. CASE Return
  BY <1>8 DEF Return, TypeOK, Bounds, local
<1>9. CASE Fail
  BY <1>9 DEF Fail, TypeOK, Bounds, local
<1>10. CASE UNCHANGED vars
  BY <1>10 DEF vars, TypeOK, Bounds, local
<1> QED
  BY <1>1, <1>2, <1>3, <1>4, <1>5, <1>6, <1>7, <1>8, <1>9, <1>10 DEF Next

---------------------------------------------------------------------------
\* The loop.

\* The first reply is the newest batch, each later one the batch that comes
\* after those of which something was unhandled.
LEMMA ReplyStep == TypeOK /\ LoopInv /\ Reply => LoopInv'
<1> SUFFICES ASSUME TypeOK, LoopInv, Reply PROVE LoopInv'
  OBVIOUS
<1>0. /\ at = "ask" /\ at' = "read" /\ last' = Newest /\ pos' = Oldest(Newest)
      /\ earliest' = Remembered(Newest) /\ more' = FALSE /\ requests' = requests + 1
      /\ top' = IF requests = 0 THEN size ELSE top
      /\ UNCHANGED <<size, handled, fetched, res>>
  BY DEF Reply
<1>1. size \in Nat /\ top \in Nat /\ requests \in Nat /\ earliest \in Nat
      /\ handled \subseteq 1..size /\ Batch \in Nat \ {0} /\ top' \in Nat
  BY <1>0, HistoryAssumption DEF TypeOK
<1>2. CASE requests = 0
  <2>1. earliest = 0 /\ res = <<>> /\ top' = size /\ requests' = 1 /\ last' = size
    BY <1>0, <1>1, <1>2 DEF LoopInv, AskInv, Newest
  <2>2. Low(size, 0) = size + 1 /\ Low(size, 1) = Oldest(size) /\ Low(size, 1) <= size + 1
        /\ Low(size, 1) \in Nat
    <3>1. Low(size, 0) = size + 1 /\ size + 1 - 1 = size /\ 0 + 1 = 1
      BY <1>1, LowFirst
    <3>2. Low(size, 0 + 1) = Oldest(Low(size, 0) - 1) /\ Low(size, 0 + 1) <= Low(size, 0)
      BY <1>1, LowNext
    <3>3. Low(size, 1) \in 1 .. size + 1
      BY <1>1, LowFacts
    <3> QED
      BY <1>1, <3>1, <3>2, <3>3
  <2>3. pos' = Oldest(size) /\ (size > 0 => earliest' = Oldest(size))
    BY <1>0, <2>1 DEF Newest, Remembered
  <2>4. DOMAIN res' = {}
    BY <1>0, <2>1
  <2>5. Got' = {} /\ Sorted'
    BY <2>4 DEF Got, Sorted
  <2>6. ReadInv'
    <3>1. requests' > 0 /\ requests' - 1 = 0 /\ last' = Low(top', 0) - 1
      BY <1>1, <2>1, <2>2
    <3>2. top' > 0 => earliest' = Low(top', requests')
      BY <2>1, <2>2, <2>3
    <3>3. pos' = Low(top', requests') /\ pos' \in Low(top', requests') .. last' + 1
      BY <1>1, <2>1, <2>2, <2>3
    <3>4. {i \in (1..top') \ handled' :
                i > last' \/ (i >= Low(top', requests') /\ i < pos')} = {}
      BY <1>0, <1>1, <2>1, <3>3
    <3>5. more' <=> \E i \in Low(top', requests') .. pos' - 1 : i \notin handled'
      BY <1>0, <2>2, <2>3, <3>3
    <3>6. Wanted(requests - 1)'
      BY <3>1 DEF Wanted
    <3> QED
      BY <2>5, <3>1, <3>2, <3>3, <3>4, <3>5, <3>6 DEF ReadInv
  <2>7. RequestsBounded'
    <3>1. (top' + Batch - 1) \div Batch \in Nat
      <4>1. top' + Batch - 1 \in Nat
        <5>1. \A n \in Nat : n + Batch - 1 \in Nat
          BY HistoryAssumption
        <5> QED
          BY <1>1, <5>1
      <4> QED
        BY <1>1, <4>1, Quotient
    <3> QED
      BY <2>1, <3>1 DEF RequestsBounded
  <2> QED
    BY <1>0, <2>6, <2>7 DEF LoopInv, AskInv, Returned
<1>3. CASE requests > 0
  <2>1. /\ top > 0 /\ earliest = Low(top, requests) /\ top' = top
        /\ Got = {i \in (1..top) \ handled : i >= earliest}
        /\ Sorted /\ Wanted(requests)
    BY <1>0, <1>1, <1>3 DEF LoopInv, AskInv
  <2>2. /\ Low(top, requests) \in 1 .. top + 1
        /\ Low(top, requests + 1) = Oldest(Low(top, requests) - 1)
        /\ Low(top, requests + 1) <= Low(top, requests)
        /\ Low(top, requests + 1) \in 1 .. top + 1
    BY <1>1, LowNext, LowFacts, requests + 1 \in Nat
  <2>3. Newest = earliest - 1 /\ last' = Low(top, requests) - 1
        /\ pos' = Low(top, requests + 1)
    BY <1>0, <2>1, <2>2 DEF Newest
  <2>4. earliest' = Low(top, requests + 1)
    BY <1>0, <2>1, <2>2, <2>3 DEF Remembered, Oldest
  <2>5. Got' = Got /\ Sorted'
    BY <1>0, <2>1 DEF Got, Sorted
  <2>6. requests' - 1 = requests
    BY <1>0, <1>1
  <2>7. ReadInv'
    <3>1. pos' \in Low(top', requests') .. last' + 1
      BY <1>0, <1>1, <2>1, <2>2, <2>3
    <3>2. Got' = {i \in (1..top') \ handled' :
                    i > last' \/ (i >= Low(top', requests') /\ i < pos')}
      BY <1>0, <1>1, <2>1, <2>2, <2>3, <2>5
    <3>3. more' <=> \E i \in Low(top', requests') .. pos' - 1 : i \notin handled'
      BY <1>0, <2>1, <2>2, <2>3
    <3>4. Wanted(requests - 1)'
      BY <1>0, <1>1, <2>1 DEF Wanted
    <3> QED
      BY <1>0, <1>1, <2>1, <2>3, <2>4, <2>5, <2>6, <3>1, <3>2, <3>3, <3>4 DEF ReadInv
  <2>8. RequestsBounded'
    <3>1. requests - 1 \in Nat /\ requests - 1 \in 0 .. requests - 1
      BY <1>1, <1>3
    <3>2. PICK i \in BatchOf(requests - 1, top) : i \notin handled
      BY <2>1, <3>1 DEF Wanted
    <3>3. i \in 1..top /\ top - i \in Nat /\ (top - i) \div Batch = requests - 1
      BY <1>1, <3>2 DEF BatchOf
    <3>4. (requests - 1) * Batch <= top - i
      BY <1>1, <3>3, Quotient
    <3>5. (requests - 1) * Batch = requests * Batch - Batch /\ requests * Batch \in Nat
      BY <1>1
    <3>6. ~(top + Batch - 1 < requests * Batch)
      BY <1>1, <3>3, <3>4, <3>5
    <3>7. ~((top + Batch - 1) \div Batch < requests) /\ (top + Batch - 1) \div Batch \in Nat
      BY <1>1, <3>6, QuotientLess, Quotient, top + Batch - 1 \in Nat
    <3> QED
      BY <1>0, <1>1, <2>1, <3>7 DEF RequestsBounded
  <2> QED
    BY <1>0, <2>7, <2>8 DEF LoopInv, AskInv, Returned
<1> QED
  BY <1>1, <1>2, <1>3

LEMMA AppendFacts ==
    ASSUME NEW S, NEW q \in Seq(S), NEW x \in S
    PROVE  /\ DOMAIN q = 1..Len(q) /\ Len(q) \in Nat
           /\ DOMAIN Append(q, x) = 1 .. Len(q) + 1
           /\ Append(q, x)[Len(q) + 1] = x
           /\ \A k \in 1..Len(q) : Append(q, x)[k] = q[k]
  BY SMT

\* A message that is not handled goes to the end of the result: what is there is
\* of a newer batch, or of this batch and older.
LEMMA KeepStep == TypeOK /\ Bounds /\ LoopInv /\ Read /\ pos \notin handled => LoopInv'
<1> SUFFICES ASSUME TypeOK, Bounds, LoopInv, Read, pos \notin handled PROVE LoopInv'
  OBVIOUS
<1>0. /\ at = "read" /\ pos <= last
      /\ pos' = pos + 1 /\ more' = TRUE /\ res' = Append(res, pos)
      /\ UNCHANGED <<size, handled, fetched, at, earliest, last, requests, top>>
  BY DEF Read, Keep
<1>1. /\ requests \in Nat /\ requests > 0 /\ top \in Nat
      /\ last = Low(top, requests - 1) - 1
      /\ pos \in Low(top, requests) .. last + 1
      /\ Got = {i \in (1..top) \ handled :
                  i > last \/ (i >= Low(top, requests) /\ i < pos)}
      /\ Sorted /\ Wanted(requests - 1)
      /\ top > 0 => earliest = Low(top, requests)
  BY <1>0 DEF LoopInv, ReadInv, TypeOK
<1>2. requests - 1 \in Nat /\ requests - 1 + 1 = requests
  BY <1>1
<1>3. /\ Low(top, requests) \in 1 .. top + 1 /\ Low(top, requests - 1) \in 1 .. top + 1
      /\ \A i \in 1..top : (top - i) \div Batch < requests <=> i >= Low(top, requests)
      /\ \A i \in 1..top : (top - i) \div Batch < requests - 1 <=> i >= Low(top, requests - 1)
  BY <1>1, <1>2, LowFacts
<1>4. pos \in 1..top /\ pos \in 1..size /\ last <= top
  <2>1. pos \in Nat /\ last \in Nat /\ size \in Nat /\ last <= size
    BY <1>0 DEF TypeOK, Bounds
  <2>2. last <= top /\ pos >= 1
    BY <1>1, <1>3, <2>1
  <2> QED
    BY <1>0, <1>1, <2>1, <2>2
<1>5. /\ DOMAIN res = 1..Len(res) /\ Len(res) \in Nat
      /\ DOMAIN res' = 1 .. Len(res) + 1
      /\ res'[Len(res) + 1] = pos
      /\ \A k \in 1..Len(res) : res'[k] = res[k]
  BY <1>0, <1>4, AppendFacts DEF TypeOK
<1>6. Got' = Got \cup {pos}
  <2>1. \A x : x \in Got' <=> x \in Got \/ x = pos
    BY <1>5 DEF Got
  <2> QED
    BY <2>1
<1>7. \A k \in DOMAIN res : BatchOrder(top, res[k], pos)
  <2> SUFFICES ASSUME NEW k \in DOMAIN res PROVE BatchOrder(top, res[k], pos)
    OBVIOUS
  <2> DEFINE x == res[k]
             b(i) == (top - i) \div Batch
  <2>1. x \in Got
    BY DEF Got
  <2> HIDE DEF x
  <2>2. x \in 1..top /\ (x > last \/ (x >= Low(top, requests) /\ x < pos))
    BY <1>1, <2>1
  <2>3. b(x) \in Nat /\ b(pos) \in Nat
    <3>1. \A i \in 1..top : top - i \in Nat
      BY <1>1
    <3> QED
      BY <1>4, <2>2, <3>1, HistoryAssumption, Quotient
  <2>4. b(pos) < requests /\ ~(b(pos) < requests - 1)
    BY <1>0, <1>1, <1>3, <1>4
  <2>5. CASE x > last
    <3>1. b(x) < requests - 1
      BY <1>1, <1>3, <2>2, <2>5
    <3>2. b(x) < b(pos)
      BY <1>1, <2>3, <2>4, <3>1
    <3> QED
      BY <3>2 DEF BatchOrder, x
  <2>6. CASE x <= last /\ x >= Low(top, requests) /\ x < pos
    <3>1. b(x) < requests /\ ~(b(x) < requests - 1)
      BY <1>1, <1>3, <2>2, <2>6
    <3>2. b(x) = b(pos)
      BY <1>1, <2>3, <2>4, <3>1
    <3> QED
      BY <2>6, <3>2 DEF BatchOrder, x
  <2> QED
    BY <1>1, <1>3, <2>2, <2>5, <2>6
<1>8. Sorted'
  <2>1. top' = top
    BY <1>0
  <2> SUFFICES ASSUME NEW k \in DOMAIN res', NEW l \in DOMAIN res', k < l
               PROVE  BatchOrder(top, res'[k], res'[l])
    BY <2>1 DEF Sorted
  <2>2. k \in DOMAIN res /\ res'[k] = res[k]
    BY <1>5
  <2>3. CASE l \in DOMAIN res
    BY <1>1, <1>5, <2>2, <2>3 DEF Sorted
  <2>4. CASE l = Len(res) + 1
    BY <1>5, <1>7, <2>2, <2>4
  <2> QED
    BY <1>5, <2>3, <2>4
<1>9. ReadInv'
  <2>1. Got' = {i \in (1..top) \ handled :
                  i > last \/ (i >= Low(top, requests) /\ i < pos + 1)}
    <3>1. ASSUME NEW i \in 1..top
          PROVE  i >= Low(top, requests) /\ i < pos + 1
                 <=> (i >= Low(top, requests) /\ i < pos) \/ i = pos
      BY <1>1, <1>3, <1>4
    <3> QED
      BY <1>1, <1>4, <1>6, <3>1
  <2>2. pos + 1 \in Low(top, requests) .. last + 1
    BY <1>0, <1>1, <1>3, <1>4
  <2>3. \E i \in Low(top, requests) .. pos + 1 - 1 : i \notin handled
    BY <1>1, <1>3, <1>4
  <2>4. Wanted(requests - 1)'
    BY <1>0, <1>1 DEF Wanted
  <2>5. /\ last' = last /\ requests' = requests /\ top' = top /\ handled' = handled
        /\ earliest' = earliest /\ pos' = pos + 1 /\ more' = TRUE
    BY <1>0
  <2> QED
    BY <1>1, <1>8, <2>1, <2>2, <2>3, <2>4, <2>5 DEF ReadInv
<1> QED
  BY <1>0, <1>9 DEF LoopInv, AskInv, Returned, RequestsBounded

LEMMA SkipStep == TypeOK /\ Bounds /\ LoopInv /\ Read /\ pos \in handled => LoopInv'
<1> SUFFICES ASSUME TypeOK, Bounds, LoopInv, Read, pos \in handled PROVE LoopInv'
  OBVIOUS
<1>0. /\ at = "read" /\ pos <= last /\ pos' = pos + 1
      /\ UNCHANGED <<size, handled, fetched, at, earliest, last, more, res, requests, top>>
  BY DEF Read, Skip
<1>1. /\ requests \in Nat /\ requests > 0 /\ top \in Nat
      /\ last = Low(top, requests - 1) - 1
      /\ pos \in Low(top, requests) .. last + 1
      /\ Got = {i \in (1..top) \ handled :
                  i > last \/ (i >= Low(top, requests) /\ i < pos)}
      /\ more <=> \E i \in Low(top, requests) .. pos - 1 : i \notin handled
      /\ Sorted /\ Wanted(requests - 1)
      /\ top > 0 => earliest = Low(top, requests)
  BY <1>0 DEF LoopInv, ReadInv, TypeOK
<1>2. Low(top, requests) \in 1 .. top + 1 /\ last \in Nat /\ pos \in Nat
  BY <1>1, LowFacts DEF TypeOK
<1>3. Got' = {i \in (1..top) \ handled :
                  i > last \/ (i >= Low(top, requests) /\ i < pos + 1)}
  <2>1. Got' = Got
    BY <1>0 DEF Got
  <2> QED
    BY <1>1, <1>2, <2>1
<1>4. pos + 1 \in Low(top, requests) .. last + 1
  BY <1>0, <1>1, <1>2
<1>5. (\E i \in Low(top, requests) .. pos - 1 : i \notin handled)
      <=> (\E i \in Low(top, requests) .. pos + 1 - 1 : i \notin handled)
  BY <1>1, <1>2
<1>6. Wanted(requests - 1)' /\ Sorted'
  BY <1>0, <1>1 DEF Wanted, Sorted
<1>7. /\ last' = last /\ requests' = requests /\ top' = top /\ handled' = handled
      /\ earliest' = earliest /\ pos' = pos + 1 /\ more' = more
  BY <1>0
<1>8. ReadInv'
  BY <1>1, <1>3, <1>4, <1>5, <1>6, <1>7 DEF ReadInv
<1> QED
  BY <1>0, <1>8 DEF LoopInv, AskInv, Returned, RequestsBounded

\* At the end of a batch of which something was not handled the loop has seen one
\* batch more; otherwise what it has is what Unhandled names.
LEMMA BatchStep == TypeOK /\ LoopInv /\ NextBatch => LoopInv'
<1> SUFFICES ASSUME TypeOK, LoopInv, NextBatch PROVE LoopInv'
  OBVIOUS
<1>0. /\ at = "read" /\ pos > last
      /\ UNCHANGED <<size, handled, earliest, pos, last, more, res, requests, top>>
      /\ IF more THEN at' = "ask" ELSE at' = "done"
  BY DEF NextBatch, local
<1>1. /\ requests \in Nat /\ requests > 0 /\ top \in Nat /\ pos \in Nat /\ last \in Nat
      /\ last = Low(top, requests - 1) - 1
      /\ pos \in Low(top, requests) .. last + 1
      /\ Got = {i \in (1..top) \ handled :
                  i > last \/ (i >= Low(top, requests) /\ i < pos)}
      /\ more <=> \E i \in Low(top, requests) .. pos - 1 : i \notin handled
      /\ Sorted /\ Wanted(requests - 1)
      /\ top > 0 => earliest = Low(top, requests)
  BY <1>0 DEF LoopInv, ReadInv, TypeOK
<1>2. requests - 1 \in Nat /\ requests - 1 + 1 = requests /\ Batch \in Nat \ {0}
  BY <1>1, HistoryAssumption
<1>3. /\ Low(top, requests) \in 1 .. top + 1 /\ Low(top, requests - 1) \in 1 .. top + 1
      /\ \A i \in 1..top : (top - i) \div Batch < requests - 1 <=> i >= Low(top, requests - 1)
      /\ \A i \in 1..top : (top - i) \div Batch \in Nat
  <2>1. \A i \in 1..top : top - i \in Nat
    BY <1>1
  <2> QED
    BY <1>1, <1>2, <2>1, LowFacts, Quotient
<1>4. pos = last + 1 /\ last <= top
  BY <1>0, <1>1, <1>3
<1>5. BatchOf(requests - 1, top) = {i \in 1..top : Low(top, requests) <= i /\ i <= last}
  <2>1. BatchOf(requests - 1, top)
            = {i \in 1..top : Low(top, requests) <= i /\ i < Low(top, requests - 1)}
    BY <1>1, <1>2, BatchFacts
  <2> QED
    BY <1>1, <1>3, <2>1
<1>6. Got' = Got /\ Sorted' /\ (\A n : Wanted(n)' <=> Wanted(n)) /\ RequestsBounded'
  BY <1>0, <1>1 DEF Got, Sorted, Wanted, LoopInv, RequestsBounded
<1>7. CASE more
  <2>1. PICK i \in Low(top, requests) .. last : i \notin handled
    BY <1>1, <1>4, <1>7
  <2>2. i \in 1..top /\ i \in BatchOf(requests - 1, top) /\ top > 0
    BY <1>1, <1>3, <1>4, <1>5, <2>1
  <2>3. Wanted(requests)
    <3> SUFFICES ASSUME NEW k \in 0 .. requests - 1 PROVE ~(BatchOf(k, top) \subseteq handled)
      BY DEF Wanted
    <3>1. CASE k = requests - 1
      BY <2>1, <2>2, <3>1
    <3>2. CASE k \in 0 .. requests - 1 - 1
      BY <1>1, <3>2 DEF Wanted
    <3> QED
      BY <1>1, <3>1, <3>2
  <2>4. Got = {j \in (1..top) \ handled : j >= Low(top, requests)}
    <3>1. ASSUME NEW j \in 1..top
          PROVE  j >= Low(top, requests)
                 <=> j > last \/ (j >= Low(top, requests) /\ j < pos)
      BY <1>1, <1>3, <1>4
    <3> QED
      BY <1>1, <3>1
  <2>5. at' = "ask" /\ earliest' = Low(top, requests) /\ requests' = requests /\ top' = top
        /\ handled' = handled
    BY <1>0, <1>1, <1>7, <2>2
  <2>6. AskInv'
    BY <1>1, <1>6, <2>2, <2>3, <2>4, <2>5 DEF AskInv
  <2> QED
    BY <1>6, <2>5, <2>6 DEF LoopInv, ReadInv, Returned
<1>8. CASE ~more
  <2>1. BatchOf(requests - 1, top) \subseteq handled
    BY <1>1, <1>4, <1>5, <1>8
  <2>2. Got = {i \in (1..top) \ handled : i > last}
    BY <1>1, <1>4, <1>8
  <2>3. ASSUME NEW i \in (1..top) \ handled
        PROVE  i > last <=> i \in Unhandled(top, handled)
    <3> DEFINE b == (top - i) \div Batch
    <3>1. b \in Nat /\ (b < requests - 1 <=> i > last)
      BY <1>1, <1>3, <2>3
    <3> HIDE DEF b
    <3>2. CASE i > last
      <4>1. \A k \in 0..b : k \in 0 .. requests - 1 - 1
        BY <1>1, <3>1, <3>2
      <4>2. \A k \in 0..b : ~(BatchOf(k, top) \subseteq handled)
        BY <1>1, <4>1 DEF Wanted
      <4> QED
        BY <2>3, <3>2, <4>2 DEF Unhandled, b
    <3>3. CASE ~(i > last)
      <4>1. requests - 1 \in 0..b
        BY <1>1, <3>1, <3>3
      <4> QED
        BY <2>1, <3>3, <4>1 DEF Unhandled, b
    <3> QED
      BY <3>2, <3>3
  <2>4. Got = Unhandled(top, handled)
    <3>1. Unhandled(top, handled) \subseteq (1..top) \ handled
      BY DEF Unhandled
    <3> QED
      BY <2>2, <2>3, <3>1
  <2>5. at' = "done" /\ top' = top /\ handled' = handled /\ res' = res
    BY <1>0, <1>8
  <2>6. Returned'
    BY <1>1, <2>4, <2>5 DEF Returned, Got, Sorted
  <2> QED
    BY <1>6, <2>5, <2>6 DEF LoopInv, AskInv, ReadInv
<1> QED
  BY <1>7, <1>8

LEMMA LoopStep == TypeOK /\ Bounds /\ LoopInv /\ [Next]_vars => LoopInv'
<1> SUFFICES ASSUME TypeOK, Bounds, LoopInv, [Next]_vars PROVE LoopInv'
  OBVIOUS
<1>1. ASSUME UNCHANGED <<handled, at, local>> PROVE LoopInv'
  BY <1>1 DEF LoopInv, AskInv, ReadInv, Returned, RequestsBounded, Got, Sorted, Wanted, local
<1>2. ASSUME at' = "idle", UNCHANGED <<requests, top>> PROVE LoopInv'
  BY <1>2 DEF LoopInv, AskInv, ReadInv, Returned, RequestsBounded
<1>3. CASE Write
  BY <1>1, <1>3 DEF Write
<1>4. CASE Restart
  BY <1>2, <1>4 DEF Restart, local
<1>5. ASSUME NEW i \in 1..size, Handle(i) PROVE LoopInv'
  BY <1>2, <1>5 DEF Handle, local
<1>6. CASE Begin
  <2>1. 0 <= 1 + (top + Batch - 1) \div Batch
    <3>1. top + Batch - 1 \in Nat /\ Batch \in Nat \ {0}
      BY HistoryAssumption DEF TypeOK
    <3>2. (top + Batch - 1) \div Batch \in Nat
      BY <3>1, Quotient
    <3> QED
      BY <3>2
  <2> QED
    BY <1>6, <2>1 DEF Begin, LoopInv, AskInv, ReadInv, Returned, RequestsBounded
<1>7. CASE Reply
  BY <1>7, ReplyStep
<1>8. CASE Read
  BY <1>8, KeepStep, SkipStep
<1>9. CASE NextBatch
  BY <1>9, BatchStep
<1>10. CASE Return
  BY <1>2, <1>10 DEF Return, local
<1>11. CASE Fail
  BY <1>2, <1>11 DEF Fail, local
<1>12. CASE UNCHANGED vars
  BY <1>1, <1>12 DEF vars
<1> QED
  BY <1>3, <1>4, <1>5, <1>6, <1>7, <1>8, <1>9, <1>10, <1>11, <1>12 DEF Next

---------------------------------------------------------------------------

LEMMA Start == Init => TypeOK /\ Bounds /\ LoopInv
<1> SUFFICES ASSUME Init PROVE TypeOK /\ Bounds /\ LoopInv
  OBVIOUS
<1>1. TypeOK
  <2>1. <<>> \in Seq(1..size)
    BY SMT
  <2>2. size = 0 /\ handled = {} /\ res = <<>> /\ top = 0
    BY DEF Init
  <2>3. size \in Nat /\ top \in 0..size
    BY <2>2
  <2>4. handled \subseteq 1..size
    BY <2>2
  <2>5. res \in Seq(1..size)
    BY <2>1, <2>2
  <2>6. fetched \in BOOLEAN /\ more \in BOOLEAN
    BY DEF Init
  <2>7. at \in {"idle", "ask", "read", "done"}
    BY DEF Init
  <2>8. earliest \in Nat /\ pos \in Nat /\ last \in Nat /\ requests \in Nat
    BY DEF Init
  <2> QED
    BY <2>3, <2>4, <2>5, <2>6, <2>7, <2>8 DEF TypeOK
<1>2. RequestsBounded
  <2>1. 0 + Batch - 1 \in Nat /\ Batch \in Nat \ {0}
    BY HistoryAssumption
  <2>2. (0 + Batch - 1) \div Batch \in Nat
    BY <2>1, Quotient
  <2> QED
    BY <2>2 DEF Init, RequestsBounded
<1> QED
  BY <1>1, <1>2 DEF Init, Bounds, LoopInv, AskInv, ReadInv, Returned

\* The type invariant of History, and what makes the next two inductive.
THEOREM InvCorrect == Spec => [](TypeOK /\ Bounds /\ LoopInv)
<1>1. TypeOK /\ Bounds /\ LoopInv /\ [Next]_vars => (TypeOK /\ Bounds /\ LoopInv)'
  BY TypeStep, LoopStep
<1> QED
  BY <1>1, Start, PTL DEF Spec

\* Variables stay in their types: only messages of the room are asked for and kept.
THEOREM HistoryTypeCorrect == Spec => []TypeOK
<1> QED
  BY InvCorrect, PTL

\* get_unhandled_history returns what Unhandled says, in the order of BatchOrder,
\* which is what Relay takes for the whole fetch.
THEOREM ReturnedCorrect == Spec => []Returned
<1>1. LoopInv => Returned
  BY DEF LoopInv
<1> QED
  BY <1>1, InvCorrect, PTL

\* The loop of get_unhandled_history ends: it makes one request for each batch and
\* one more at most.
THEOREM RequestsCorrect == Spec => []RequestsBounded
<1>1. LoopInv => RequestsBounded
  BY DEF LoopInv
<1> QED
  BY <1>1, InvCorrect, PTL

=============================================================================
