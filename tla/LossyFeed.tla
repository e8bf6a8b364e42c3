------------------------------ MODULE LossyFeed ------------------------------
(***************************************************************************)
(* What the geyser service promises a subscriber, whatever the channels,   *)
(* buffers and threads in between: from one log of notifications it is     *)
(* sent only entries it asked for, in the order of the log, each at most   *)
(* once.  Entries may be left out: a full buffer drops them.               *)
(***************************************************************************)
EXTENDS GeyserTypes, Sequences

CONSTANT Uuid

VARIABLES
    updates,    \* the log: notifications in the order they were accepted
    req,        \* what each subscriber asked for
    got         \* positions in the log each subscriber was sent, in order

vars == <<updates, req, got>>

Init ==
    /\ updates = <<>>
    /\ req = [s \in Uuid |-> NoRequest]
    /\ got = [s \in Uuid |-> <<>>]

Publish(n) ==
    /\ updates' = Append(updates, n)
    /\ UNCHANGED <<req, got>>

(* A subscriber makes one request, any it likes. *)
Subscribe(s) ==
    /\ req[s] = NoRequest
    /\ req'[s] \in Request
    /\ req' = [req EXCEPT ![s] = req'[s]]
    /\ UNCHANGED <<updates, got>>

(* Position i is beyond everything s was already sent. *)
Fresh(s, i) == \A j \in 1..Len(got[s]) : got[s][j] < i

Deliver(s, i) ==
    /\ Wants(req[s], updates[i])
    /\ Fresh(s, i)
    /\ got' = [got EXCEPT ![s] = Append(@, i)]
    /\ UNCHANGED <<updates, req>>

Next ==
    \/ \E n \in Notification : Publish(n)
    \/ \E s \in Uuid : Subscribe(s)
    \/ \E s \in Uuid : \E i \in 1..Len(updates) : Deliver(s, i)

Spec == Init /\ [][Next]_vars

=============================================================================
