--------------------------- MODULE RunEventsProofs ---------------------------
(* Proofs about the events of one run: every client is handed the log from   *)
(* its start, in order, each event once, and no waiting stream misses a ring, *)
(* for any clients, processes, events and lost connections.                  *)
EXTENDS RunEvents, TLAPS, SequenceTheorems

(***************************************************************************)
(* Pieces of a log                                                         *)
(***************************************************************************)

\* The frames s are what follows the first events of the log.
Piece(s, events, first) ==
    /\ first + Len(s) <= Len(events)
    /\ \A i \in 1 .. Len(s) : s[i] = events[first + i]

\* Nothing is a piece,
LEMMA PieceEmpty ==
    ASSUME NEW S, NEW events \in Seq(S), NEW first \in 0 .. Len(events)
    PROVE  Piece(<<>>, events, first)
BY DEF Piece

\* a piece stays one when the log grows,
LEMMA PieceGrows ==
    ASSUME NEW S, NEW events \in Seq(S), NEW e \in S, NEW s \in Seq(S), NEW first \in Nat,
           Piece(s, events, first)
    PROVE  Piece(s, Append(events, e), first)
<1>1. Len(Append(events, e)) = Len(events) + 1
  BY AppendProperties
<1>2. \A i \in 1 .. Len(events) : Append(events, e)[i] = events[i]
  BY AppendProperties
<1>3. Len(s) \in Nat /\ Len(events) \in Nat
  OBVIOUS
<1>4. \A i \in 1 .. Len(s) : first + i \in 1 .. Len(events)
  BY <1>3 DEF Piece
<1> QED
  BY <1>1, <1>2, <1>3, <1>4 DEF Piece

\* its first frame comes next and the others after it,
LEMMA PieceHead ==
    ASSUME NEW S, NEW events \in Seq(S), NEW s \in Seq(S), NEW first \in Nat, s # <<>>,
           Piece(s, events, first)
    PROVE  /\ first + 1 \in 1 .. Len(events)
           /\ Head(s) = events[first + 1]
           /\ Tail(s) \in Seq(S)
           /\ Len(Tail(s)) + 1 = Len(s)
           /\ Piece(Tail(s), events, first + 1)
<1>1. Len(s) \in Nat \ {0} /\ Len(events) \in Nat
  BY EmptySeq
<1>2. /\ Tail(s) \in Seq(S) /\ Len(Tail(s)) = Len(s) - 1
      /\ \A i \in 1 .. Len(Tail(s)) : Tail(s)[i] = s[i + 1]
  BY HeadTailProperties
<1>3. Head(s) = s[1]
  OBVIOUS
<1>4. first + 1 \in 1 .. Len(events) /\ Head(s) = events[first + 1]
  BY <1>1, <1>3 DEF Piece
<1>5. ASSUME NEW i \in 1 .. Len(Tail(s))
      PROVE  Tail(s)[i] = events[first + 1 + i]
  <2>1. i + 1 \in 1 .. Len(s) /\ i \in Nat
    BY <1>1, <1>2
  <2>2. first + (i + 1) = first + 1 + i
    BY <2>1
  <2> QED
    BY <1>2, <2>1, <2>2 DEF Piece
<1>6. first + 1 + Len(Tail(s)) <= Len(events)
  BY <1>1, <1>2 DEF Piece
<1> QED
  BY <1>1, <1>2, <1>4, <1>5, <1>6 DEF Piece

\* the next event of the log makes it a longer one,
LEMMA PieceAppend ==
    ASSUME NEW S, NEW events \in Seq(S), NEW s \in Seq(S), NEW first \in Nat,
           Piece(s, events, first), first + Len(s) + 1 \in 1 .. Len(events)
    PROVE  /\ Append(s, events[first + Len(s) + 1]) \in Seq(S)
           /\ Len(Append(s, events[first + Len(s) + 1])) = Len(s) + 1
           /\ Piece(Append(s, events[first + Len(s) + 1]), events, first)
<1> DEFINE e == events[first + Len(s) + 1]
           t == Append(s, e)
<1>1. Len(s) \in Nat /\ Len(events) \in Nat /\ e \in S
  OBVIOUS
<1>2. /\ t \in Seq(S) /\ Len(t) = Len(s) + 1
      /\ \A i \in 1 .. Len(s) : t[i] = s[i]
      /\ t[Len(s) + 1] = e
  BY <1>1, AppendProperties
<1>3. ASSUME NEW i \in 1 .. Len(t)
      PROVE  t[i] = events[first + i]
  <2>1. CASE i \in 1 .. Len(s)
    BY <1>2, <2>1 DEF Piece
  <2>2. CASE i = Len(s) + 1
    <3>1. first + i = first + Len(s) + 1
      BY <1>1, <2>2
    <3> QED
      BY <1>2, <2>2, <3>1
  <2> QED
    BY <1>1, <1>2, <2>1, <2>2
<1>4. first + Len(t) <= Len(events)
  BY <1>1, <1>2
<1> HIDE DEF t
<1>5. Piece(t, events, first)
  BY <1>3, <1>4 DEF Piece
<1> QED
  BY <1>2, <1>5 DEF t

\* and the rest of the log is one.
LEMMA PieceRest ==
    ASSUME NEW S, NEW events \in Seq(S), NEW first \in 0 .. Len(events)
    PROVE  /\ SubSeq(events, first + 1, Len(events)) \in Seq(S)
           /\ first + Len(SubSeq(events, first + 1, Len(events))) = Len(events)
           /\ Piece(SubSeq(events, first + 1, Len(events)), events, first)
<1> DEFINE s == SubSeq(events, first + 1, Len(events))
<1>1. Len(events) \in Nat /\ first \in Nat /\ first <= Len(events)
  OBVIOUS
<1>2. \A i \in (first + 1) .. Len(events) : events[i] \in S
  BY <1>1
<1>3. /\ s \in Seq(S)
      /\ Len(s) = IF first + 1 <= Len(events) THEN Len(events) - (first + 1) + 1 ELSE 0
      /\ \A i \in 1 .. Len(events) - (first + 1) + 1 : s[i] = events[(first + 1) + i - 1]
  BY <1>1, <1>2, SubSeqProperties
<1>4. Len(s) = Len(events) - first
  BY <1>1, <1>3
<1>5. ASSUME NEW i \in 1 .. Len(s)
      PROVE  s[i] = events[first + i]
  <2>1. i \in 1 .. Len(events) - (first + 1) + 1 /\ (first + 1) + i - 1 = first + i
    BY <1>1, <1>4
  <2> QED
    BY <1>3, <2>1
<1> HIDE DEF s
<1>6. Piece(s, events, first) /\ first + Len(s) = Len(events)
  BY <1>1, <1>4, <1>5 DEF Piece
<1> QED
  BY <1>3, <1>6 DEF s

(***************************************************************************)
(* Types                                                                   *)
(***************************************************************************)

\* The log numbers its events and ends with the terminal one, which is there
\* by the time the bound is reached.
LogInv ==
    /\ \A i \in DOMAIN log : log[i].seq = i /\ (log[i].terminal => i = Len(log))
    /\ Len(log) <= MaxEvents
    /\ Len(log) = MaxEvents => Terminated
    /\ publisher = "working" => ~Terminated
    /\ publisher = "ringing" => log # <<>>

\* An event committed is an event, and the log that holds it keeps LogInv.
LEMMA CommitTyped ==
    ASSUME TypeOK, LogInv, Commit
    PROVE  /\ log' \in Seq(Event) /\ LogInv'
           /\ ~Terminated
           /\ \E e \in Event : /\ log' = Append(log, e)
                               /\ e.seq = Len(log) + 1
<1>1. PICK terminal \in BOOLEAN :
          /\ Len(log) + 1 = MaxEvents => terminal
          /\ log' = Append(log, [seq |-> Len(log) + 1, terminal |-> terminal])
  BY DEF Commit
<1> DEFINE e == [seq |-> Len(log) + 1, terminal |-> terminal]
<1>t. log \in Seq(Event) /\ Len(log) \in Nat /\ MaxEvents \in Nat \ {0}
  BY MaximaAssumption DEF TypeOK
<1>2. ~Terminated
  BY DEF Commit, LogInv
<1>3. Len(log) + 1 \in 1 .. MaxEvents
  BY <1>t, <1>2 DEF LogInv
<1>4. e \in Event
  BY <1>3 DEF Event
<1>5. /\ log' \in Seq(Event) /\ Len(log') = Len(log) + 1
      /\ \A i \in 1 .. Len(log) : log'[i] = log[i]
      /\ log'[Len(log) + 1] = e
  BY <1>t, <1>1, <1>4, AppendProperties
<1>6. Terminated' <=> terminal
  <2>1. log'[Len(log')] = e /\ log' # <<>>
    BY <1>t, <1>5, EmptySeq
  <2> QED
    BY <2>1 DEF Terminated
<1>7. ASSUME NEW i \in DOMAIN log'
      PROVE  log'[i].seq = i /\ (log'[i].terminal => i = Len(log'))
  <2>1. i \in 1 .. Len(log) \/ i = Len(log) + 1
    BY <1>t, <1>5, <1>7
  <2>2. CASE i \in 1 .. Len(log)
    <3>1. log'[i] = log[i] /\ i \in DOMAIN log
      BY <1>t, <1>5, <2>2
    <3>2. ~log[i].terminal
      <4>1. log # <<>>
        BY <1>t, <2>2, EmptySeq
      <4> QED
        BY <1>2, <3>1, <4>1 DEF LogInv, Terminated
    <3> QED
      BY <3>1, <3>2 DEF LogInv
  <2>3. CASE i = Len(log) + 1
    BY <1>5, <2>3
  <2> QED
    BY <2>1, <2>2, <2>3
<1>8. publisher' = "ringing" /\ log' # <<>>
  BY <1>t, <1>5, EmptySeq DEF Commit
<1>9. Len(log') <= MaxEvents /\ (Len(log') = MaxEvents => Terminated')
  BY <1>t, <1>1, <1>3, <1>5, <1>6
<1>10. LogInv'
  BY <1>7, <1>8, <1>9 DEF LogInv
<1> QED
  BY <1>1, <1>2, <1>4, <1>5, <1>10

\* The other steps leave the log alone and end or continue the publisher.
LEMMA LogKept ==
    ASSUME LogInv, [Next]_vars, ~Commit
    PROVE  LogInv' /\ UNCHANGED log
<1>1. UNCHANGED log
  BY DEF Next, vars, stream, page, Ring, EndSilently, Follow, Connect, Replay, Yield,
     StartTailing, Wake, Read, Drop, Abort, Hangup
<1>2. \/ UNCHANGED publisher
      \/ publisher' = "ended"
      \/ publisher' = "working" /\ ~Terminated
  BY DEF Next, vars, stream, page, Ring, EndSilently, Follow, Connect, Replay, Yield,
     StartTailing, Wake, Read, Drop, Abort, Hangup
<1> QED
  BY <1>1, <1>2 DEF LogInv, Terminated

\* Every step keeps the types.
LEMMA StepTyped ==
    ASSUME TypeOK, LogInv, [Next]_vars
    PROVE  TypeOK'
<1>1. CASE Commit
  BY <1>1, CommitTyped DEF TypeOK, Commit, stream, page
<1>e. <<>> \in Seq(Event)
  BY EmptySeq
<1>2. CASE Ring \/ EndSilently \/ UNCHANGED vars
  <2>1. UNCHANGED <<log, conn, last, batch, wire, client, lastSeq, rendered, drops>>
    BY <1>2 DEF Ring, EndSilently, vars, stream, page
  <2>2. bell' \in [Client -> Nat] /\ publisher' \in {"working", "ringing", "ended"}
    <3>1. CASE Ring
      BY <3>1 DEF TypeOK, Ring
    <3>2. CASE EndSilently \/ UNCHANGED vars
      BY <3>2 DEF TypeOK, EndSilently, vars, stream
    <3> QED
      BY <1>2, <3>1, <3>2
  <2> QED
    BY <2>1, <2>2 DEF TypeOK
<1>3. ASSUME NEW c \in Client, Connect(c) \/ StartTailing(c) \/ Wake(c)
      PROVE  TypeOK'
  <2>1. UNCHANGED <<log, publisher, batch, wire, client, lastSeq, rendered, drops>>
    BY <1>3 DEF Connect, StartTailing, Wake, page
  <2>2. /\ conn' \in [Client -> {"closed", "fetching", "yielding", "tailing"}]
        /\ bell' \in [Client -> Nat] /\ last' \in [Client -> Nat]
    <3>1. CASE Connect(c)
      BY <3>1 DEF TypeOK, Connect
    <3>2. CASE StartTailing(c)
      BY <3>2 DEF TypeOK, StartTailing
    <3>3. CASE Wake(c)
      BY <3>3 DEF TypeOK, Wake
    <3> QED
      BY <1>3, <3>1, <3>2, <3>3
  <2> QED
    BY <2>1, <2>2 DEF TypeOK
<1>4. ASSUME NEW c \in Client, Replay(c)
      PROVE  TypeOK'
  <2>1. SubSeq(log, last[c] + 1, Len(log)) \in Seq(Event)
    <3>1. /\ log \in Seq(Event) /\ Len(log) \in Nat /\ last[c] + 1 \in Nat \ {0}
      BY DEF TypeOK
    <3>2. \A i \in (last[c] + 1) .. Len(log) : log[i] \in Event
      BY <3>1
    <3> QED
      BY <3>1, <3>2, SubSeqProperties
  <2> QED
    BY <1>4, <2>1 DEF TypeOK, Replay, page
<1>5. ASSUME NEW c \in Client, Yield(c)
      PROVE  TypeOK'
  <2>1. Head(batch[c]) \in Event /\ Tail(batch[c]) \in Seq(Event)
    BY <1>5, HeadTailProperties DEF TypeOK, Yield
  <2>2. Append(wire[c], Head(batch[c])) \in Seq(Event) /\ Head(batch[c]).seq \in Nat
    BY <2>1, AppendProperties DEF TypeOK, Event
  <2>3. wire' \in [Client -> Seq(Event)] /\ last' \in [Client -> Nat]
    BY <1>5, <2>2 DEF TypeOK, Yield
  <2>4. batch' = [batch EXCEPT ![c] = <<>>] \/ batch' = [batch EXCEPT ![c] = Tail(@)]
    BY <1>5 DEF Yield
  <2>5. batch' \in [Client -> Seq(Event)]
    BY <1>e, <2>1, <2>4 DEF TypeOK
  <2>6. /\ conn' \in [Client -> {"closed", "fetching", "yielding", "tailing"}]
        /\ bell' \in [Client -> Nat]
    <3>1. CASE Head(batch[c]).terminal
      <4>1. conn' = [conn EXCEPT ![c] = "closed"] /\ bell' = [bell EXCEPT ![c] = 0]
        BY <1>5, <3>1 DEF Yield
      <4>2. conn' \in [Client -> {"closed", "fetching", "yielding", "tailing"}]
        BY <4>1 DEF TypeOK
      <4>3. bell' \in [Client -> Nat]
        BY <4>1 DEF TypeOK
      <4> QED
        BY <4>2, <4>3
    <3>2. CASE ~Head(batch[c]).terminal
      BY <1>5, <3>2 DEF TypeOK, Yield
    <3> QED
      BY <3>1, <3>2
  <2>7. UNCHANGED <<log, publisher, client, lastSeq, rendered, drops>>
    BY <1>5 DEF Yield, page
  <2> QED
    BY <2>3, <2>5, <2>6, <2>7 DEF TypeOK
<1>6. ASSUME NEW c \in Client, Read(c)
      PROVE  TypeOK'
  <2>1. Head(wire[c]) \in Event /\ Tail(wire[c]) \in Seq(Event)
    BY <1>6, HeadTailProperties DEF TypeOK, Read
  <2>2. Append(rendered[c], Head(wire[c])) \in Seq(Event) /\ Head(wire[c]).seq \in Nat
    BY <2>1, AppendProperties DEF TypeOK, Event
  <2>3. wire' \in [Client -> Seq(Event)]
    BY <1>6, <2>1 DEF TypeOK, Read
  <2>4. /\ lastSeq' \in [Client -> Nat] /\ rendered' \in [Client -> Seq(Event)]
        /\ client' \in [Client -> {"following", "done", "gone"}]
    BY <1>6, <2>2 DEF TypeOK, Read, page
  <2> QED
    BY <1>6, <2>3, <2>4 DEF TypeOK, Read, stream
<1>7. ASSUME NEW c \in Client, Drop(c) \/ Abort(c)
      PROVE  TypeOK'
  <2>h. Hangup(c)
    BY <1>7 DEF Drop, Abort
  <2>1. batch' = [batch EXCEPT ![c] = <<>>] /\ wire' = [wire EXCEPT ![c] = <<>>]
    BY <2>h DEF Hangup
  <2>2. batch' \in [Client -> Seq(Event)] /\ wire' \in [Client -> Seq(Event)]
    BY <1>e, <2>1 DEF TypeOK
  <2>3. drops' \in 0 .. MaxDrops
    BY <1>7, MaximaAssumption DEF TypeOK, Drop, Abort
  <2>4. client' \in [Client -> {"following", "done", "gone"}]
        /\ UNCHANGED <<lastSeq, rendered>>
    BY <1>7 DEF TypeOK, Drop, Abort, page
  <2>5. /\ conn' \in [Client -> {"closed", "fetching", "yielding", "tailing"}]
        /\ bell' \in [Client -> Nat] /\ UNCHANGED <<log, publisher, last>>
    BY <2>h DEF TypeOK, Hangup
  <2> QED
    BY <2>2, <2>3, <2>4, <2>5 DEF TypeOK
<1> QED
  BY <1>1, <1>2, <1>3, <1>4, <1>5, <1>6, <1>7 DEF Next, Follow

\* The log numbers its events, and every variable has its type.
LEMMA AlwaysLogInv == Spec => [](TypeOK /\ LogInv)
<1>1. Init => TypeOK /\ LogInv
  BY MaximaAssumption, EmptySeq DEF Init, TypeOK, LogInv, Terminated
<1>2. TypeOK /\ LogInv /\ [Next]_vars => (TypeOK /\ LogInv)'
  BY StepTyped, CommitTyped, LogKept
<1> QED
  BY <1>1, <1>2, PTL DEF Spec

\* However events, streams and lost connections interleave, the log, the wires
\* and the pages hold events of this run.
THEOREM TypeCorrect == Spec => []TypeOK
BY AlwaysLogInv, PTL

(***************************************************************************)
(* What a stream has under way                                             *)
(***************************************************************************)

\* The page, the wire and the batch are three pieces of the log, each where
\* the one before it ends, so a reconnect resumes where the page is.
StreamInv(c) ==
    /\ Piece(rendered[c], log, 0)
    /\ lastSeq[c] = Len(rendered[c])
    /\ Piece(wire[c], log, lastSeq[c])
    /\ conn[c] # "closed" => last[c] = lastSeq[c] + Len(wire[c])
    /\ conn[c] = "yielding" => Piece(batch[c], log, last[c])
    /\ conn[c] # "yielding" => batch[c] = <<>>
    /\ client[c] = "following" => ~Feed!Terminated(rendered[c])

\* While the publisher works, a stream of its process that has not replayed
\* the whole log has a ring waiting.
RingInv(c) ==
    c \notin Remote /\ publisher = "working" =>
        /\ conn[c] = "tailing" /\ last[c] < Len(log) => bell[c] > 0
        /\ conn[c] = "yielding" /\ last[c] + Len(batch[c]) < Len(log) => bell[c] > 0

FeedInv == \A c \in Client : StreamInv(c) /\ RingInv(c)

\* A committed event keeps the pieces pieces.
LEMMA CommitStreams ==
    ASSUME TypeOK, LogInv, FeedInv, Commit
    PROVE  FeedInv'
<1> SUFFICES ASSUME NEW c \in Client
             PROVE  StreamInv(c)' /\ RingInv(c)'
  BY DEF FeedInv
<1>t. /\ log \in Seq(Event) /\ rendered[c] \in Seq(Event) /\ wire[c] \in Seq(Event)
      /\ batch[c] \in Seq(Event) /\ lastSeq[c] \in Nat /\ last[c] \in Nat
  BY DEF TypeOK
<1>1. PICK e \in Event : log' = Append(log, e)
  BY CommitTyped
<1>2. UNCHANGED <<conn, bell, last, batch, wire, client, lastSeq, rendered>>
  BY DEF Commit, stream, page
<1>3. StreamInv(c)
  BY DEF FeedInv
<1>4. Piece(rendered[c], log', 0)
  BY <1>t, <1>1, <1>3, PieceGrows DEF StreamInv
<1>5. Piece(wire[c], log', lastSeq[c])
  BY <1>t, <1>1, <1>3, PieceGrows DEF StreamInv
<1>6. conn[c] = "yielding" => Piece(batch[c], log', last[c])
  BY <1>t, <1>1, <1>3, PieceGrows DEF StreamInv
<1>7. StreamInv(c)'
  BY <1>2, <1>3, <1>4, <1>5, <1>6 DEF StreamInv
<1>8. RingInv(c)'
  BY DEF Commit, RingInv
<1> QED
  BY <1>7, <1>8

\* What one stream or page does leaves the others alone.
LEMMA OthersKept ==
    ASSUME TypeOK, FeedInv, NEW c \in Client,
           Follow(c) \/ Drop(c) \/ Abort(c), NEW d \in Client, d # c
    PROVE  StreamInv(d)' /\ RingInv(d)'
<1>1. /\ UNCHANGED <<log, publisher>>
      /\ conn'[d] = conn[d] /\ bell'[d] = bell[d] /\ last'[d] = last[d]
      /\ batch'[d] = batch[d] /\ wire'[d] = wire[d] /\ client'[d] = client[d]
      /\ lastSeq'[d] = lastSeq[d] /\ rendered'[d] = rendered[d]
  BY DEF TypeOK, Follow, Connect, Replay, Yield, StartTailing, Wake, Read, Drop, Abort,
     Hangup, stream, page
<1> QED
  BY <1>1 DEF FeedInv, StreamInv, RingInv

\* The doorbell rings every stream it reaches.
LEMMA RingStreams ==
    ASSUME TypeOK, FeedInv, Ring \/ EndSilently \/ UNCHANGED vars
    PROVE  FeedInv'
<1> SUFFICES ASSUME NEW c \in Client
             PROVE  StreamInv(c)' /\ RingInv(c)'
  BY DEF FeedInv
<1>1. StreamInv(c)'
  <2>1. UNCHANGED <<log, conn, last, batch, wire, client, lastSeq, rendered>>
    BY DEF Ring, EndSilently, vars, stream, page
  <2> QED
    BY <2>1 DEF FeedInv, StreamInv
<1>2. CASE Ring
  <2>1. c \notin Remote /\ conn[c] # "closed" => bell'[c] > 0
    BY <1>2 DEF Ring, Subscribed, TypeOK
  <2> QED
    BY <1>1, <1>2, <2>1 DEF Ring, RingInv
<1>3. CASE EndSilently
  BY <1>1, <1>3 DEF EndSilently, RingInv
<1>4. CASE UNCHANGED vars
  BY <1>1, <1>4 DEF vars, stream, FeedInv, RingInv
<1> QED
  BY <1>2, <1>3, <1>4

\* A stream starts, waits and goes on with what follows its last frame.
LEMMA StreamMoves ==
    ASSUME TypeOK, LogInv, FeedInv, NEW c \in Client,
           Connect(c) \/ Replay(c) \/ StartTailing(c) \/ Wake(c)
    PROVE  StreamInv(c)' /\ RingInv(c)'
<1>t. /\ log \in Seq(Event) /\ rendered[c] \in Seq(Event) /\ wire[c] \in Seq(Event)
      /\ Len(wire[c]) \in Nat /\ Len(log) \in Nat
      /\ lastSeq[c] \in Nat /\ last[c] \in Nat /\ bell[c] \in Nat
  BY DEF TypeOK
<1>i. StreamInv(c) /\ RingInv(c)
  BY DEF FeedInv
<1>w. UNCHANGED <<log, publisher, wire, client, lastSeq, rendered>>
  BY DEF Connect, Replay, StartTailing, Wake, page
<1>1. CASE Connect(c)
  <2>1. conn'[c] = "fetching" /\ last'[c] = lastSeq[c] /\ wire[c] = <<>> /\ conn[c] = "closed"
        /\ UNCHANGED batch
    BY <1>1 DEF Connect, TypeOK
  <2>2. Len(wire[c]) = 0
    BY <2>1, EmptySeq
  <2>3. last'[c] = lastSeq[c] + Len(wire[c])
    BY <1>t, <2>1, <2>2
  <2> QED
    BY <1>i, <1>w, <2>1, <2>3 DEF StreamInv, RingInv
<1>2. CASE Replay(c)
  <2>1. conn'[c] = "yielding" /\ conn[c] = "fetching"
        /\ batch'[c] = SubSeq(log, last[c] + 1, Len(log)) /\ UNCHANGED <<bell, last>>
    BY <1>2 DEF Replay, TypeOK
  <2>2. last[c] \in 0 .. Len(log)
    <3>1. last[c] = lastSeq[c] + Len(wire[c])
      BY <1>i, <2>1 DEF StreamInv
    <3>2. lastSeq[c] + Len(wire[c]) <= Len(log)
      BY <1>i DEF StreamInv, Piece
    <3> QED
      BY <1>t, <3>1, <3>2
  <2>3. Piece(batch'[c], log, last[c]) /\ last[c] + Len(batch'[c]) = Len(log)
    BY <1>t, <2>1, <2>2, PieceRest
  <2>4. ~(last[c] + Len(batch'[c]) < Len(log))
    BY <1>t, <2>3
  <2>5. StreamInv(c)'
    BY <1>i, <1>w, <2>1, <2>3 DEF StreamInv
  <2>6. RingInv(c)'
    BY <1>w, <2>1, <2>4 DEF RingInv
  <2> QED
    BY <2>5, <2>6
<1>3. CASE StartTailing(c)
  <2>1. conn'[c] = "tailing" /\ conn[c] = "yielding" /\ batch[c] = <<>>
        /\ UNCHANGED <<bell, last, batch>>
    BY <1>3 DEF StartTailing, TypeOK
  <2>2. last[c] + Len(batch[c]) = last[c]
    BY <1>t, <2>1, EmptySeq
  <2> QED
    BY <1>i, <1>w, <2>1, <2>2 DEF StreamInv, RingInv
<1>4. CASE Wake(c)
  <2>1. conn'[c] = "fetching" /\ conn[c] = "tailing" /\ UNCHANGED <<last, batch>>
    BY <1>4 DEF Wake, TypeOK
  <2> QED
    BY <1>i, <1>w, <2>1 DEF StreamInv, RingInv
<1> QED
  BY <1>1, <1>2, <1>3, <1>4

\* A stream yields the event after its last, and stops at the terminal one.
LEMMA StreamYields ==
    ASSUME TypeOK, LogInv, FeedInv, NEW c \in Client, Yield(c)
    PROVE  StreamInv(c)' /\ RingInv(c)'
<1>t. /\ log \in Seq(Event) /\ wire[c] \in Seq(Event) /\ batch[c] \in Seq(Event)
      /\ Len(wire[c]) \in Nat /\ Len(log) \in Nat /\ Len(batch[c]) \in Nat
      /\ lastSeq[c] \in Nat /\ last[c] \in Nat
  BY DEF TypeOK
<1>i. StreamInv(c) /\ RingInv(c)
  BY DEF FeedInv
<1>1. conn[c] = "yielding" /\ batch[c] # <<>> /\ last[c] = lastSeq[c] + Len(wire[c])
  BY <1>i DEF Yield, StreamInv
<1>2. /\ last[c] + 1 \in 1 .. Len(log)
      /\ Head(batch[c]) = log[last[c] + 1]
      /\ Tail(batch[c]) \in Seq(Event)
      /\ Len(Tail(batch[c])) + 1 = Len(batch[c])
      /\ Piece(Tail(batch[c]), log, last[c] + 1)
  BY <1>t, <1>i, <1>1, PieceHead DEF StreamInv
<1>3. Head(batch[c]).seq = last[c] + 1
  BY <1>t, <1>2 DEF LogInv
<1>4. /\ wire'[c] = Append(wire[c], log[last[c] + 1])
      /\ last'[c] = last[c] + 1
      /\ UNCHANGED <<log, publisher, client, lastSeq, rendered>>
  BY <1>2, <1>3 DEF Yield, TypeOK, page
<1>5. /\ Piece(wire'[c], log, lastSeq[c])
      /\ Len(wire'[c]) = Len(wire[c]) + 1
  <2>1. lastSeq[c] + Len(wire[c]) + 1 = last[c] + 1
    BY <1>1
  <2>2. wire'[c] = Append(wire[c], log[lastSeq[c] + Len(wire[c]) + 1])
        /\ lastSeq[c] + Len(wire[c]) + 1 \in 1 .. Len(log)
    BY <1>2, <1>4, <2>1
  <2>3. Piece(wire[c], log, lastSeq[c])
    BY <1>i DEF StreamInv
  <2> QED
    BY <1>t, <2>2, <2>3, PieceAppend
<1>6. last'[c] = lastSeq'[c] + Len(wire'[c])
  <2>1. lastSeq'[c] = lastSeq[c]
    BY <1>4
  <2>2. last'[c] = (lastSeq[c] + Len(wire[c])) + 1
    BY <1>1, <1>4
  <2> QED
    BY <1>t, <1>5, <2>1, <2>2
<1>7. CASE Head(batch[c]).terminal
  <2>1. conn'[c] = "closed" /\ batch'[c] = <<>>
    BY <1>7 DEF Yield, TypeOK
  <2> QED
    BY <1>i, <1>4, <1>5, <2>1 DEF StreamInv, RingInv
<1>8. CASE ~Head(batch[c]).terminal
  <2>1. batch'[c] = Tail(batch[c]) /\ UNCHANGED <<conn, bell>>
    BY <1>8 DEF Yield, TypeOK
  <2>2. last'[c] + Len(batch'[c]) = last[c] + Len(batch[c])
    BY <1>t, <1>2, <1>4, <2>1
  <2>3. Piece(batch'[c], log, last'[c])
    BY <1>2, <1>4, <2>1
  <2> QED
    BY <1>i, <1>1, <1>4, <1>5, <1>6, <2>1, <2>2, <2>3 DEF StreamInv, RingInv
<1> QED
  BY <1>7, <1>8

\* A page that follows is handed the event after its last.
LEMMA PageReads ==
    ASSUME TypeOK, LogInv, FeedInv, NEW c \in Client, Read(c)
    PROVE  /\ StreamInv(c)' /\ RingInv(c)'
           /\ Feed!Deliver(c)
<1>t. /\ log \in Seq(Event) /\ wire[c] \in Seq(Event) /\ rendered[c] \in Seq(Event)
      /\ Len(wire[c]) \in Nat /\ Len(log) \in Nat /\ Len(rendered[c]) \in Nat
      /\ lastSeq[c] \in Nat /\ last[c] \in Nat
  BY DEF TypeOK
<1>i. StreamInv(c) /\ RingInv(c)
  BY DEF FeedInv
<1>1. client[c] = "following" /\ wire[c] # <<>>
  BY DEF Read
<1>2. /\ lastSeq[c] + 1 \in 1 .. Len(log)
      /\ Head(wire[c]) = log[lastSeq[c] + 1]
      /\ Tail(wire[c]) \in Seq(Event)
      /\ Len(Tail(wire[c])) + 1 = Len(wire[c])
      /\ Piece(Tail(wire[c]), log, lastSeq[c] + 1)
  BY <1>t, <1>i, <1>1, PieceHead DEF StreamInv
<1>3. Head(wire[c]).seq = lastSeq[c] + 1
  BY <1>t, <1>2 DEF LogInv
<1>4. ~(Head(wire[c]).seq <= lastSeq[c])
  BY <1>t, <1>3
<1> DEFINE e == log[lastSeq[c] + 1]
<1>5. /\ wire'[c] = Tail(wire[c])
      /\ lastSeq'[c] = lastSeq[c] + 1
      /\ rendered' = [rendered EXCEPT ![c] = Append(@, e)]
      /\ client'[c] = IF e.terminal THEN "done" ELSE "following"
      /\ UNCHANGED <<log, publisher, conn, bell, last, batch>>
  BY <1>1, <1>2, <1>3, <1>4 DEF Read, TypeOK, stream
<1>6. rendered'[c] = Append(rendered[c], e) /\ e \in Event
  BY <1>t, <1>2, <1>5 DEF TypeOK
<1>7. 0 + Len(rendered[c]) + 1 = lastSeq[c] + 1 /\ Len(rendered[c]) = lastSeq[c]
  BY <1>t, <1>i DEF StreamInv
<1>8. /\ Piece(rendered'[c], log, 0)
      /\ Len(rendered'[c]) = Len(rendered[c]) + 1
      /\ rendered'[c] \in Seq(Event)
  BY <1>t, <1>i, <1>2, <1>6, <1>7, PieceAppend DEF StreamInv
<1>9. Feed!Terminated(rendered'[c]) <=> e.terminal
  <2>1. rendered'[c][Len(rendered[c]) + 1] = e
    BY <1>t, <1>6, AppendProperties
  <2>2. rendered'[c] # <<>>
    BY <1>t, <1>8, EmptySeq
  <2> QED
    BY <1>8, <2>1, <2>2 DEF Feed!Terminated
<1>10. Feed!Deliver(c)
  <2>1. ~Feed!Terminated(rendered[c])
    BY <1>i, <1>1 DEF StreamInv
  <2>2. Len(rendered[c]) < Len(log)
    BY <1>t, <1>2, <1>7
  <2>3. rendered' = [rendered EXCEPT ![c] = Append(@, log[Len(@) + 1])]
    BY <1>5, <1>7
  <2> QED
    BY <1>5, <2>1, <2>2, <2>3 DEF Feed!Deliver
<1>11. conn'[c] # "closed" => last'[c] = lastSeq'[c] + Len(wire'[c])
  <2> SUFFICES ASSUME conn'[c] # "closed"
               PROVE  last'[c] = lastSeq'[c] + Len(wire'[c])
    OBVIOUS
  <2>1. last[c] = lastSeq[c] + Len(wire[c]) /\ last'[c] = last[c]
    BY <1>i, <1>5 DEF StreamInv
  <2>2. Len(Tail(wire[c])) \in Nat
    BY <1>2
  <2>3. last[c] = (lastSeq[c] + 1) + Len(Tail(wire[c]))
    BY <1>t, <1>2, <2>1, <2>2
  <2> QED
    BY <1>5, <2>1, <2>3
<1>12. StreamInv(c)'
  BY <1>i, <1>2, <1>5, <1>7, <1>8, <1>9, <1>11 DEF StreamInv
<1>13. RingInv(c)'
  BY <1>i, <1>5 DEF RingInv
<1> QED
  BY <1>10, <1>12, <1>13

\* A lost connection takes what was under way and nothing else.
LEMMA StreamHangs ==
    ASSUME TypeOK, FeedInv, NEW c \in Client, Drop(c) \/ Abort(c)
    PROVE  StreamInv(c)' /\ RingInv(c)'
<1>i. StreamInv(c)
  BY DEF FeedInv
<1>1. Hangup(c) /\ UNCHANGED <<lastSeq, rendered>>
      /\ (client'[c] = "following" => client[c] = "following")
  BY DEF Drop, Abort, page, TypeOK
<1>2. conn'[c] = "closed" /\ batch'[c] = <<>> /\ wire'[c] = <<>> /\ UNCHANGED log
  BY <1>1 DEF Hangup, TypeOK
<1>3. Piece(<<>>, log, lastSeq[c])
  <2>1. lastSeq[c] \in 0 .. Len(log)
    BY <1>i DEF StreamInv, Piece, TypeOK
  <2> QED
    BY <2>1, PieceEmpty DEF TypeOK
<1> QED
  BY <1>i, <1>1, <1>2, <1>3 DEF StreamInv, RingInv

\* Every step keeps every stream's pieces in place.
LEMMA AlwaysFeedInv == Spec => []FeedInv
<1>1. Init => FeedInv
  <2> SUFFICES ASSUME Init, NEW c \in Client
               PROVE  StreamInv(c) /\ RingInv(c)
    BY DEF FeedInv
  <2>1. log = <<>> /\ rendered[c] = <<>> /\ wire[c] = <<>> /\ batch[c] = <<>>
        /\ conn[c] = "closed" /\ lastSeq[c] = 0
    BY DEF Init
  <2>2. Piece(<<>>, <<>>, 0) /\ ~Feed!Terminated(<<>>) /\ Len(<<>>) = 0
    BY EmptySeq DEF Piece, Feed!Terminated
  <2> QED
    BY <2>1, <2>2 DEF StreamInv, RingInv
<1>2. TypeOK /\ LogInv /\ FeedInv /\ [Next]_vars => FeedInv'
  <2> SUFFICES ASSUME TypeOK, LogInv, FeedInv, [Next]_vars
               PROVE  FeedInv'
    OBVIOUS
  <2>1. ASSUME NEW c \in Client, Follow(c) \/ Drop(c) \/ Abort(c)
        PROVE  FeedInv'
    <3>1. StreamInv(c)' /\ RingInv(c)'
      BY <2>1, StreamMoves, StreamYields, PageReads, StreamHangs DEF Follow
    <3>2. \A d \in Client : d # c => StreamInv(d)' /\ RingInv(d)'
      BY <2>1, OthersKept
    <3> QED
      BY <3>1, <3>2 DEF FeedInv
  <2> QED
    BY <2>1, CommitStreams, RingStreams DEF Next
<1> QED
  BY <1>1, <1>2, AlwaysLogInv, PTL DEF Spec

\* However rings, replays, waits and reconnects interleave, a stream that waits
\* in the publisher's process with a silent bell has yielded the whole log,
\* unless the publisher is about to ring or has ended.
THEOREM NoRingMissed == Spec => []NoMissedRing
<1>1. FeedInv => NoMissedRing
  BY DEF FeedInv, RingInv, NoMissedRing
<1> QED
  BY <1>1, AlwaysFeedInv, PTL

\* Through drops, reconnects and replays every client is handed the log from
\* its start, in order, without a gap or a repetition, and nothing after the
\* terminal event.
THEOREM FeedsInOrder == Spec => ImplementsFeed
<1>1. Init => Feed!Init
  BY DEF Init, Feed!Init
<1>2. TypeOK /\ LogInv /\ FeedInv /\ [Next]_vars => [Feed!Next]_(Feed!feed)
  <2> SUFFICES ASSUME TypeOK, LogInv, FeedInv, [Next]_vars
               PROVE  Feed!Next \/ UNCHANGED Feed!feed
    OBVIOUS
  <2>1. CASE Commit
    <3>1. ~Feed!Terminated(log)
      BY <2>1, CommitTyped DEF Terminated, Feed!Terminated
    <3>2. Feed!Publish
      BY <2>1, <3>1 DEF Commit, Feed!Publish, page
    <3> QED
      BY <3>2 DEF Feed!Next
  <2>2. ASSUME NEW c \in Client, Read(c)
        PROVE  Feed!Next
    BY <2>2, PageReads DEF Feed!Next
  <2>3. ASSUME NEW c \in Client, \/ Connect(c) \/ Replay(c) \/ Yield(c) \/ StartTailing(c)
                                 \/ Wake(c) \/ Drop(c) \/ Abort(c)
        PROVE  UNCHANGED Feed!feed
    BY <2>3 DEF Connect, Replay, Yield, StartTailing, Wake, Drop, Abort, Hangup, page,
       Feed!feed
  <2>4. CASE Ring \/ EndSilently \/ UNCHANGED vars
    BY <2>4 DEF Ring, EndSilently, vars, page, Feed!feed
  <2> QED
    BY <2>1, <2>2, <2>3, <2>4 DEF Next, Follow
<1> QED
  BY <1>1, <1>2, AlwaysLogInv, AlwaysFeedInv, PTL DEF Spec, ImplementsFeed, Feed!Spec
=============================================================================
