----------------------------- MODULE Connection -----------------------------
(***************************************************************************)
(* The connection of one user: ConnectionShed::bind spawns a task with a   *)
(* channel, on which callers put commands.  The task connects, takes one   *)
(* command after the other, sends it to the tomsg server and hands the     *)
(* reply to the caller; when the connection is lost it connects again, a   *)
(* limited number of times.  A login binds again: the task is aborted and  *)
(* a new one takes its place, with a new channel.                          *)
(*                                                                         *)
(* Every caller sends one command and waits for its answer, on a clone of  *)
(* the channel, so that the rendezvous channel always has a slot for it.   *)
(***************************************************************************)
EXTENDS Integers, Sequences, FiniteSets

CONSTANTS
    Commands,   \* commands of all callers
    Impatient,  \* those whose callers stop waiting after a while
    None,       \* no command
    MaxTries,   \* CONNECT_MAX_TRIES
    MaxBinds,   \* bound: calls of bind
    MaxLosses   \* bound: connections lost

Tasks == 1..MaxBinds

ASSUME ConnectionAssumption ==
    /\ Impatient \subseteq Commands /\ None \notin Commands
    /\ MaxTries \in Nat \ {0} /\ MaxBinds \in Nat \ {0} /\ MaxLosses \in Nat

VARIABLES
    bound,   \* the last task: its channel is in ConnectionShed.map
    task,    \* "none", "connecting", "open", "aborted" or "ended"
    tries,   \* failures since the task began to connect
    queue,   \* commands in its channel
    taken,   \* the command it took from there, None if none
    place,   \* of a command: "caller", "queue", "server", "done" or "lost"
    status,  \* of its caller: "idle", "waiting", "answered", "failed", "gone"
    \* Ghosts.
    runs,    \* how often the server ran a command
    losses

vars == <<bound, task, tries, queue, taken, place, status, runs, losses>>

TypeOK ==
    /\ bound \in Tasks
    /\ task \in [Tasks -> {"none", "connecting", "open", "aborted", "ended"}]
    /\ tries \in [Tasks -> 0..MaxTries]
    /\ queue \in [Tasks -> Seq(Commands)]
    /\ taken \in [Tasks -> Commands \cup {None}]
    /\ place \in [Commands -> {"caller", "queue", "server", "done", "lost"}]
    /\ status \in [Commands -> {"idle", "waiting", "answered", "failed", "gone"}]
    /\ runs \in [Commands -> Nat]
    /\ losses \in Nat

Init ==
    /\ bound = 1
    /\ task = [t \in Tasks |-> IF t = 1 THEN "connecting" ELSE "none"]
    /\ tries = [t \in Tasks |-> 0]
    /\ queue = [t \in Tasks |-> <<>>]
    /\ taken = [t \in Tasks |-> None]
    /\ place = [c \in Commands |-> "caller"]
    /\ status = [c \in Commands |-> "idle"]
    /\ runs = [c \in Commands |-> 0]
    /\ losses = 0

---------------------------------------------------------------------------

InQueue(t) == {queue[t][i] : i \in DOMAIN queue[t]}
InHand(t) == {taken[t]} \ {None}

\* The oneshot senders of the commands C are dropped, and the callers that
\* still wait for them panic.
Drop(C) ==
    status' = [c \in Commands |->
                    IF c \in C /\ status[c] = "waiting" THEN "failed" ELSE status[c]]

\* What was in a channel that is dropped never gets to the server.
Discard(C) ==
    place' = [c \in Commands |-> IF c \in C /\ place[c] = "queue" THEN "lost" ELSE place[c]]

\* A mutant of End: the channel outlives the task.
EndKeepsChannel(t) ==
    /\ task' = [task EXCEPT ![t] = "ended"]
    /\ taken' = [taken EXCEPT ![t] = None]
    /\ Drop(InHand(t))
    /\ UNCHANGED <<queue, place>>

\* The task returns or panics, and everything it owns is dropped.
End(t) ==
    /\ task' = [task EXCEPT ![t] = "ended"]
    /\ queue' = [queue EXCEPT ![t] = <<>>]
    /\ taken' = [taken EXCEPT ![t] = None]
    /\ Drop(InQueue(t) \cup InHand(t))
    /\ Discard(InQueue(t))

\* bind, which aborts the task it replaces.
Bind ==
    /\ bound < MaxBinds
    /\ bound' = bound + 1
    /\ task' = [task EXCEPT ![bound + 1] = "connecting",
                            ![bound] = IF @ = "ended" THEN @ ELSE "aborted"]
    /\ UNCHANGED <<tries, queue, taken, place, status, runs, losses>>

\* An aborted task is dropped when it is polled next.
Reap(t) ==
    /\ task[t] = "aborted"
    /\ End(t)
    /\ UNCHANGED <<bound, tries, runs, losses>>

\* Channel::send, on the channel of any task there was.
Send(c, t) ==
    /\ status[c] = "idle"
    /\ \/ /\ task[t] \in {"connecting", "open"}
          /\ queue' = [queue EXCEPT ![t] = Append(@, c)]
          /\ place' = [place EXCEPT ![c] = "queue"]
          /\ status' = [status EXCEPT ![c] = "waiting"]
       \/ /\ task[t] \in {"aborted", "ended"}
          /\ status' = [status EXCEPT ![c] = "failed"]
          /\ UNCHANGED <<queue, place>>
    /\ UNCHANGED <<bound, task, tries, taken, runs, losses>>

\* The caller stops waiting: the command ping after five seconds.
GiveUpWaiting(c) ==
    /\ c \in Impatient /\ status[c] = "waiting"
    /\ status' = [status EXCEPT ![c] = "gone"]
    /\ UNCHANGED <<bound, task, tries, queue, taken, place, runs, losses>>

---------------------------------------------------------------------------
\* The task.

Connect(t) ==
    /\ task[t] = "connecting"
    /\ task' = [task EXCEPT ![t] = "open"]
    /\ tries' = [tries EXCEPT ![t] = 0]
    /\ UNCHANGED <<bound, queue, taken, place, status, runs, losses>>

\* A mutant of ConnectFails: one try too many.
ConnectFailsAgain(t) ==
    /\ task[t] = "connecting"
    /\ tries' = [tries EXCEPT ![t] = @ + 1]
    /\ IF tries[t] < MaxTries THEN UNCHANGED <<task, queue, taken, place, status>>
                              ELSE End(t)
    /\ UNCHANGED <<bound, runs, losses>>

\* try_connect gives up after CONNECT_MAX_TRIES failures; the next call of it
\* counts from 0.
ConnectFails(t) ==
    /\ task[t] = "connecting"
    /\ tries' = [tries EXCEPT ![t] = @ + 1]
    /\ IF tries[t] + 1 < MaxTries THEN UNCHANGED <<task, queue, taken, place, status>>
                                  ELSE End(t)
    /\ UNCHANGED <<bound, runs, losses>>

Take(t) ==
    /\ task[t] = "open" /\ taken[t] = None /\ queue[t] # <<>>
    /\ taken' = [taken EXCEPT ![t] = Head(queue[t])]
    /\ queue' = [queue EXCEPT ![t] = Tail(queue[t])]
    /\ place' = [place EXCEPT ![Head(queue[t])] = "server"]
    /\ UNCHANGED <<bound, task, tries, status, runs, losses>>

\* The server runs a command it was sent.
Run(c) ==
    /\ place[c] = "server"
    /\ place' = [place EXCEPT ![c] = "done"]
    /\ runs' = [runs EXCEPT ![c] = @ + 1]
    /\ UNCHANGED <<bound, task, tries, queue, taken, status, losses>>

Reply(t) ==
    /\ task[t] = "open" /\ taken[t] # None /\ place[taken[t]] = "done"
    /\ status[taken[t]] = "waiting"
    /\ status' = [status EXCEPT ![taken[t]] = "answered"]
    /\ taken' = [taken EXCEPT ![t] = None]
    /\ UNCHANGED <<bound, task, tries, queue, place, runs, losses>>

\* sender.send(Ok(res)).unwrap() panics when nobody waits any more.
ReplyToNobody(t) ==
    /\ task[t] = "open" /\ taken[t] # None /\ place[taken[t]] = "done"
    /\ status[taken[t]] = "gone"
    /\ End(t)
    /\ UNCHANGED <<bound, tries, runs, losses>>

\* A mutant of Forget: the command is sent again on the next connection.
SendAgain(t) ==
    /\ taken' = [taken EXCEPT ![t] = None]
    /\ queue' = [queue EXCEPT ![t] = IF InHand(t) = {} THEN @ ELSE <<taken[t]>> \o @]
    /\ place' = [c \in Commands |-> IF c \in InHand(t) THEN "queue" ELSE place[c]]
    /\ UNCHANGED status

\* The command in hand fails.  The server may have it, or may not.
Forget(t) ==
    /\ taken' = [taken EXCEPT ![t] = None]
    /\ Drop(InHand(t))
    /\ \/ UNCHANGED place
       \/ place' = [c \in Commands |->
                        IF c \in InHand(t) /\ place[c] = "server" THEN "lost" ELSE place[c]]
    /\ UNCHANGED queue

\* The connection is lost, and the commands in the channel wait for the next.
Lose(t) ==
    /\ task[t] = "open"
    /\ losses < MaxLosses
    /\ losses' = losses + 1
    /\ task' = [task EXCEPT ![t] = "connecting"]
    /\ Forget(t)
    /\ UNCHANGED <<bound, tries, runs>>

\* bind() of the session panics, as when the login is refused.
SetUpPanics(t) ==
    /\ task[t] = "open"
    /\ losses < MaxLosses
    /\ losses' = losses + 1
    /\ End(t)
    /\ UNCHANGED <<bound, tries, runs>>

---------------------------------------------------------------------------

Next ==
    \/ Bind
    \/ \E c \in Commands : GiveUpWaiting(c) \/ Run(c) \/ \E t \in Tasks : Send(c, t)
    \/ \E t \in Tasks :
        \/ Reap(t) \/ Connect(t) \/ ConnectFails(t) \/ Take(t) \/ Reply(t)
        \/ ReplyToNobody(t) \/ Lose(t) \/ SetUpPanics(t)

Spec == Init /\ [][Next]_vars

\* The runtime polls a task that can go on; the server runs what it is sent.
FairSpec ==
    /\ Spec
    /\ \A t \in Tasks :
        /\ WF_vars(Reap(t)) /\ WF_vars(Connect(t) \/ ConnectFails(t))
        /\ WF_vars(Take(t)) /\ WF_vars(Reply(t) \/ ReplyToNobody(t))
    /\ \A c \in Commands : WF_vars(Run(c))

Abstract == INSTANCE Calls WITH
    status <- [c \in Commands |-> IF status[c] = "gone" THEN "failed" ELSE status[c]]

\* Channel::send runs a command at most once, and answers only what was run,
\* over lost connections, aborted tasks and callers that stop waiting.
CallsSpec == Abstract!Spec

\* No caller waits forever: the command is answered, or whoever holds the
\* other end of its oneshot drops it.
CallsEnd == \A c \in Commands : (status[c] = "waiting") ~> (status[c] # "waiting")

=============================================================================
