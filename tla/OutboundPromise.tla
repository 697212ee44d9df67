-------------------------- MODULE OutboundPromise --------------------------
(***************************************************************************)
(* What a connection's outbound queue promises those who put messages on   *)
(* it: first in, first out; a `stop!` withdraws every reply accepted so    *)
(* far, at most the one about to leave excepted, and no notification;      *)
(* nothing else is withheld while the connection holds.                    *)
(***************************************************************************)
EXTENDS Naturals, Sequences

VARIABLES
    backlog,    \* accepted and not yet settled: [id, keep, void]
    delivered,  \* ids handed to the connection, in order
    link,       \* the connection holds
    nextId      \* the id the next message gets

vars == <<backlog, delivered, link, nextId>>

Init == backlog = <<>> /\ delivered = <<>> /\ link = TRUE /\ nextId = 1

Accept(keep) ==
    /\ nextId' = nextId + 1
    /\ backlog' = Append(backlog, [id |-> nextId, keep |-> keep, void |-> FALSE])
    /\ UNCHANGED <<delivered, link>>

\* A message offered when the connection's queue is already gone.
Refuse ==
    /\ ~link
    /\ nextId' = nextId + 1
    /\ UNCHANGED <<backlog, delivered, link>>

Withdraw(spared) ==
    /\ backlog' = [i \in DOMAIN backlog |->
                      [backlog[i] EXCEPT !.void = @ \/ (~backlog[i].keep /\ i > spared)]]
    /\ UNCHANGED <<delivered, link, nextId>>

Deliver ==
    /\ backlog # <<>> /\ link /\ ~Head(backlog).void
    /\ delivered' = Append(delivered, Head(backlog).id)
    /\ backlog' = Tail(backlog)
    /\ UNCHANGED <<link, nextId>>

Forget ==
    /\ backlog # <<>> /\ Head(backlog).void
    /\ backlog' = Tail(backlog)
    /\ UNCHANGED <<delivered, link, nextId>>

Drop == link /\ link' = FALSE /\ UNCHANGED <<backlog, delivered, nextId>>

Lose ==
    /\ ~link /\ backlog # <<>>
    /\ backlog' \in {Tail(backlog), <<>>}
    /\ UNCHANGED <<delivered, link, nextId>>

Reconnect ==
    /\ ~link /\ link' = TRUE
    /\ backlog' = <<>> /\ delivered' = <<>>
    /\ UNCHANGED nextId

Next ==
    \/ \E keep \in BOOLEAN : Accept(keep)
    \/ \E spared \in {0, 1} : Withdraw(spared)
    \/ Refuse \/ Deliver \/ Forget \/ Drop \/ Lose \/ Reconnect

Spec == Init /\ [][Next]_vars
=============================================================================
