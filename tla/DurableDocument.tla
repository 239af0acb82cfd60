-------------------------- MODULE DurableDocument ---------------------------
(***************************************************************************)
(* What a component's state directory promises: one document that changes   *)
(* in memory, reaches the disk as a whole or not at all, and comes back     *)
(* after a restart as it last reached the disk.  What has been acknowledged *)
(* is on disk at that moment, and only damage to the medium loses it.       *)
(***************************************************************************)
EXTENDS Integers, Sequences

VARIABLES
    committed,  \* what a restart would bring back
    visible,    \* what the running process serves
    acked,      \* what was last acknowledged
    past,       \* every document ever committed
    up,         \* whether a process runs
    losses      \* how often the medium lost the newest image

vars == <<committed, visible, acked, past, up, losses>>

Init ==
    /\ committed = <<>> /\ visible = <<>> /\ acked = <<>>
    /\ past = {<<>>}
    /\ up = FALSE
    /\ losses = 0

Extends(d, e) == Len(e) <= Len(d) /\ SubSeq(d, 1, Len(e)) = e

\* A request changes the document in memory: it adds to it, or replaces it, which withdraws
\* what was acknowledged about the old one.
Change ==
    /\ up
    /\ \/ Extends(visible', visible) /\ acked' = acked
       \/ acked' = <<>>
    /\ UNCHANGED <<committed, past, up, losses>>

\* The document reaches the disk, and the request that changed it may be acknowledged.
Commit ==
    /\ up
    /\ committed' = visible
    /\ past' = past \cup {visible}
    /\ acked' \in {acked, visible}
    /\ UNCHANGED <<visible, up, losses>>

Stop ==
    /\ up
    /\ up' = FALSE
    /\ visible' = <<>>
    /\ UNCHANGED <<committed, acked, past, losses>>

Recover ==
    /\ ~up
    /\ up' = TRUE
    /\ visible' = committed
    /\ UNCHANGED <<committed, acked, past, losses>>

\* The newest image is unreadable; an older one is all there is, or nothing.
Lose ==
    /\ losses' = losses + 1
    /\ committed' \in past
    /\ acked' = <<>>
    /\ UNCHANGED <<visible, past, up>>

Next == Change \/ Commit \/ Stop \/ Recover \/ Lose

Spec == Init /\ [][Next]_vars

\* What has been acknowledged is part of what a restart brings back, and of what is served.
AckedDurable ==
    /\ Extends(committed, acked)
    /\ up => Extends(visible, acked)
=============================================================================
