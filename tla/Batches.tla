------------------------------ MODULE Batches ------------------------------
(***************************************************************************)
(* The history of a tomsg room comes in batches, counted from the newest   *)
(* message.  This is what get_unhandled_history returns, said without its  *)
(* loop: Relay fetches the history in one step, History has the loop.      *)
(* Messages are numbered from 1, in the order in which they were written.  *)
(***************************************************************************)
EXTENDS Integers

CONSTANT Batch   \* NUM_HISTORY_PER_ITER

\* The k-th batch of history, counted from the newest of n messages.
BatchOf(k, n) == {i \in 1..n : (n - i) \div Batch = k}

\* Mutants of Unhandled: ids counted from 0; only one request; no request.
UnhandledFromZero(n, h) == (0..n) \ h
UnhandledInOneBatch(n, h) == BatchOf(0, n) \ h
UnhandledNever(n, h) == {}

\* What get_unhandled_history returns: it asks for older batches for as long
\* as each one holds a message that is not in h.
Unhandled(n, h) ==
    {i \in (1..n) \ h :
        \A k \in 0 .. ((n - i) \div Batch) : ~(BatchOf(k, n) \subseteq h)}

\* The order of its result: newest batch first, each one oldest first.
BatchOrder(n, i, j) ==
    LET b(m) == (n - m) \div Batch
    IN  b(i) < b(j) \/ (b(i) = b(j) /\ i < j)

=============================================================================
