------------------------------ MODULE RunEvents ------------------------------
(***************************************************************************)
(* The events of one run, from the task that publishes them to the clients *)
(* that follow it (api/events.py, routers/runs.py, frontend/lib/api.ts).   *)
(*                                                                         *)
(* The publisher commits an event to `run_events` and then rings the bells *)
(* of the streams of its own process.  A stream subscribes, replays the    *)
(* log after the sequence number its client sent, and then replays again   *)
(* whenever its bell rings or its wait times out.  The client counts the   *)
(* frames it has read and reconnects from there when a connection drops.   *)
(***************************************************************************)
EXTENDS Naturals, Sequences

CONSTANTS
    Client,     \* the clients following the run
    Remote,     \* those served by another process than the run's
    MaxEvents,  \* bound on the events of the run
    MaxDrops    \* bound on the connections lost

ASSUME RemoteAssumption == Remote \subseteq Client
ASSUME MaximaAssumption == MaxEvents \in Nat \ {0} /\ MaxDrops \in Nat

VARIABLES
    log,        \* run_events of the run, by seq
    publisher,  \* "working", "ringing" between commit and doorbell, or "ended"
    conn,       \* the server's end of each client's connection
    bell,       \* the rings waiting in its queue
    last,       \* the last seq it has yielded
    batch,      \* what it has replayed and not yet yielded
    wire,       \* the frames under way
    client,     \* is each client still following?
    lastSeq,    \* the last seq it has read
    rendered,   \* the events it has handed to the page
    drops       \* connections lost so far

stream == <<conn, bell, last, batch>>
page == <<client, lastSeq, rendered>>
vars == <<log, publisher, stream, wire, page, drops>>

Event == [seq : 1 .. MaxEvents, terminal : BOOLEAN]

TypeOK ==
    /\ log \in Seq(Event)
    /\ publisher \in {"working", "ringing", "ended"}
    /\ conn \in [Client -> {"closed", "fetching", "yielding", "tailing"}]
    /\ bell \in [Client -> Nat]
    /\ last \in [Client -> Nat]
    /\ batch \in [Client -> Seq(Event)]
    /\ wire \in [Client -> Seq(Event)]
    /\ client \in [Client -> {"following", "done", "gone"}]
    /\ lastSeq \in [Client -> Nat]
    /\ rendered \in [Client -> Seq(Event)]
    /\ drops \in 0 .. MaxDrops

-----------------------------------------------------------------------------
Init ==
    /\ log = <<>>
    /\ publisher = "working"
    /\ conn = [c \in Client |-> "closed"]
    /\ bell = [c \in Client |-> 0]
    /\ last = [c \in Client |-> 0]
    /\ batch = [c \in Client |-> <<>>]
    /\ wire = [c \in Client |-> <<>>]
    /\ client = [c \in Client |-> "following"]
    /\ lastSeq = [c \in Client |-> 0]
    /\ rendered = [c \in Client |-> <<>>]
    /\ drops = 0

(***************************************************************************)
(* EventPublisher                                                          *)
(***************************************************************************)

Terminated == log # <<>> /\ log[Len(log)].terminal

\* emit: the next seq is taken under the run's lock and committed.  The event
\* that fills the log up to the bound is a terminal one.
Commit ==
    /\ publisher = "working"
    /\ \E terminal \in BOOLEAN :
        /\ Len(log) + 1 = MaxEvents => terminal
        /\ log' = Append(log, [seq |-> Len(log) + 1, terminal |-> terminal])
    /\ publisher' = "ringing"
    /\ UNCHANGED <<stream, wire, page, drops>>

Subscribed(c) == conn[c] # "closed" /\ c \notin Remote

\* InProcessNotifier.publish; nothing is published after a terminal event.
Ring ==
    /\ publisher = "ringing"
    /\ bell' = [c \in Client |-> IF Subscribed(c) THEN bell[c] + 1 ELSE bell[c]]
    /\ publisher' = IF Terminated THEN "ended" ELSE "working"
    /\ UNCHANGED <<log, conn, last, batch, wire, page, drops>>

\* The task ends without a terminal event: its process died, or it failed
\* where nobody reports it.
EndSilently ==
    /\ publisher \in {"working", "ringing"}
    /\ publisher' = "ended"
    /\ UNCHANGED <<log, stream, wire, page, drops>>

(***************************************************************************)
(* stream_run_events                                                       *)
(***************************************************************************)

\* Mutant: the stream resumes where the server stopped sending.
ConnectFromSent(c) ==
    /\ client[c] = "following"
    /\ conn[c] = "closed" /\ wire[c] = <<>>
    /\ conn' = [conn EXCEPT ![c] = "fetching"]
    /\ bell' = [bell EXCEPT ![c] = 0]
    /\ UNCHANGED <<log, publisher, last, batch, wire, page, drops>>

\* The client asks for what follows the last seq it has read; the stream
\* subscribes before it replays.
Connect(c) ==
    /\ client[c] = "following"
    /\ conn[c] = "closed" /\ wire[c] = <<>>
    /\ conn' = [conn EXCEPT ![c] = "fetching"]
    /\ bell' = [bell EXCEPT ![c] = 0]
    /\ last' = [last EXCEPT ![c] = lastSeq[c]]
    /\ UNCHANGED <<log, publisher, batch, wire, page, drops>>

Replay(c) ==
    /\ conn[c] = "fetching"
    /\ batch' = [batch EXCEPT ![c] = SubSeq(log, last[c] + 1, Len(log))]
    /\ conn' = [conn EXCEPT ![c] = "yielding"]
    /\ UNCHANGED <<log, publisher, bell, last, wire, page, drops>>

\* One frame; the stream ends with the terminal one and unsubscribes.
Yield(c) ==
    /\ conn[c] = "yielding"
    /\ batch[c] # <<>>
    /\ wire' = [wire EXCEPT ![c] = Append(@, Head(batch[c]))]
    /\ last' = [last EXCEPT ![c] = Head(batch[c]).seq]
    /\ IF Head(batch[c]).terminal
       THEN /\ conn' = [conn EXCEPT ![c] = "closed"]
            /\ bell' = [bell EXCEPT ![c] = 0]
            /\ batch' = [batch EXCEPT ![c] = <<>>]
       ELSE /\ batch' = [batch EXCEPT ![c] = Tail(@)]
            /\ UNCHANGED <<conn, bell>>
    /\ UNCHANGED <<log, publisher, page, drops>>

\* Mutant: the stream subscribes only now, after its replay.
TailSubscribing(c) ==
    /\ conn[c] = "yielding"
    /\ batch[c] = <<>>
    /\ conn' = [conn EXCEPT ![c] = "tailing"]
    /\ bell' = [bell EXCEPT ![c] = 0]
    /\ UNCHANGED <<log, publisher, last, batch, wire, page, drops>>

StartTailing(c) ==
    /\ conn[c] = "yielding"
    /\ batch[c] = <<>>
    /\ conn' = [conn EXCEPT ![c] = "tailing"]
    /\ UNCHANGED <<log, publisher, bell, last, batch, wire, page, drops>>

\* Mutants: a wait without idle_timeout, and one whose timeout still counts
\* as a ring.
WakeByBell(c) ==
    /\ conn[c] = "tailing"
    /\ bell[c] > 0
    /\ conn' = [conn EXCEPT ![c] = "fetching"]
    /\ bell' = [bell EXCEPT ![c] = @ - 1]
    /\ UNCHANGED <<log, publisher, last, batch, wire, page, drops>>
WakeTaking(c) ==
    /\ conn[c] = "tailing"
    /\ conn' = [conn EXCEPT ![c] = "fetching"]
    /\ bell' = [bell EXCEPT ![c] = @ - 1]
    /\ UNCHANGED <<log, publisher, last, batch, wire, page, drops>>

\* The bell, or idle_timeout.
Wake(c) ==
    /\ conn[c] = "tailing"
    /\ conn' = [conn EXCEPT ![c] = "fetching"]
    /\ bell' = [bell EXCEPT ![c] = IF @ > 0 THEN @ - 1 ELSE 0]
    /\ UNCHANGED <<log, publisher, last, batch, wire, page, drops>>

(***************************************************************************)
(* streamRun                                                               *)
(***************************************************************************)

\* A frame at or below lastSeq is skipped; a terminal one ends the loop.
Read(c) ==
    LET event == Head(wire[c])
    IN
    /\ client[c] = "following"
    /\ wire[c] # <<>>
    /\ wire' = [wire EXCEPT ![c] = Tail(@)]
    /\ IF event.seq <= lastSeq[c]
       THEN UNCHANGED page
       ELSE /\ lastSeq' = [lastSeq EXCEPT ![c] = event.seq]
            /\ rendered' = [rendered EXCEPT ![c] = Append(@, event)]
            /\ client' = [client EXCEPT ![c] = IF event.terminal THEN "done" ELSE @]
    /\ UNCHANGED <<log, publisher, stream, drops>>

\* The connection is gone with the frames under way; the stream's generator is
\* cancelled and unsubscribes.
Hangup(c) ==
    /\ conn' = [conn EXCEPT ![c] = "closed"]
    /\ bell' = [bell EXCEPT ![c] = 0]
    /\ batch' = [batch EXCEPT ![c] = <<>>]
    /\ wire' = [wire EXCEPT ![c] = <<>>]
    /\ UNCHANGED <<log, publisher, last>>

Drop(c) ==
    /\ client[c] = "following"
    /\ conn[c] # "closed" \/ wire[c] # <<>>
    /\ drops < MaxDrops
    /\ drops' = drops + 1
    /\ Hangup(c)
    /\ UNCHANGED page

\* The user leaves the page: the signal aborts.
Abort(c) ==
    /\ client[c] = "following"
    /\ client' = [client EXCEPT ![c] = "gone"]
    /\ Hangup(c)
    /\ UNCHANGED <<lastSeq, rendered, drops>>

-----------------------------------------------------------------------------
Follow(c) ==
    Connect(c) \/ Replay(c) \/ Yield(c) \/ StartTailing(c) \/ Wake(c) \/ Read(c)

Next ==
    \/ Commit \/ Ring \/ EndSilently
    \/ \E c \in Client : Follow(c) \/ Drop(c) \/ Abort(c)

\* The event loops schedule every stream, a wait times out, and a client that
\* lost its connection tries again.
Spec == Init /\ [][Next]_vars /\ \A c \in Client : WF_vars(Follow(c))

-----------------------------------------------------------------------------
(* Properties *)

\* A stream that waits for its bell misses no event: whatever the log holds
\* beyond what it has yielded has rung, or is about to (or the publisher died
\* in between; the timeout is there for that).
NoMissedRing ==
    \A c \in Client \ Remote :
        conn[c] = "tailing" /\ bell[c] = 0 /\ last[c] < Len(log) => publisher # "working"

Feed == INSTANCE EventFeed WITH got <- rendered

\* Through drops, reconnects and replays every client is handed the log from
\* its start, in order and without a gap or a repetition.
ImplementsFeed == Feed!Spec

\* A client that stays learns how the run ended, also one served by a process
\* where no bell ever rings.
EveryClientTold ==
    \A c \in Client : Terminated ~> client[c] \in {"done", "gone"}
=============================================================================
