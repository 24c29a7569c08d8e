------------------------------ MODULE EventFeed ------------------------------
(***************************************************************************)
(* What a run's event stream promises its clients, whatever connections,   *)
(* doorbells and retries carry it: everyone reads one growing log from the *)
(* start, in order, each event once, and stops at the terminal event.      *)
(***************************************************************************)
EXTENDS Naturals, Sequences

CONSTANT Client

VARIABLES
    log,    \* the events of the run
    got     \* what each client has been given

feed == <<log, got>>

Terminated(events) == events # <<>> /\ events[Len(events)].terminal

Init ==
    /\ log = <<>>
    /\ got = [c \in Client |-> <<>>]

Publish ==
    /\ ~Terminated(log)
    /\ \E terminal \in BOOLEAN :
        log' = Append(log, [seq |-> Len(log) + 1, terminal |-> terminal])
    /\ UNCHANGED got

Deliver(c) ==
    /\ ~Terminated(got[c])
    /\ Len(got[c]) < Len(log)
    /\ got' = [got EXCEPT ![c] = Append(@, log[Len(@) + 1])]
    /\ UNCHANGED log

Next == Publish \/ \E c \in Client : Deliver(c)

Spec == Init /\ [][Next]_feed
=============================================================================
