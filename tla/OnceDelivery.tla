----------------------------- MODULE OnceDelivery -----------------------------
(***************************************************************************)
(* What the autonomous daemon promises of its events, without saying how:  *)
(* events are taken one at a time in the order they were accepted, none    *)
(* twice, and an event whose handling has touched the account is never     *)
(* handed to another model round, whatever crashed in between.             *)
(***************************************************************************)
EXTENDS Naturals, Sequences

CONSTANT None

VARIABLES
    minted,     \* how many events were ever accepted; they are numbered from 0
    pending,    \* accepted and not taken, in order
    current,    \* the event being handled, or None
    inRound,    \* whether a model round is working on it
    acted       \* whether a mutation was started for it

onceVars == <<minted, pending, current, inRound, acted>>

OnceInit ==
    /\ minted = 0
    /\ pending = <<>>
    /\ current = None
    /\ inRound = FALSE
    /\ acted = FALSE

\* One observation, wake or command may bring several events.
AcceptEvents ==
    /\ minted' \in Nat /\ minted' > minted
    /\ pending' = pending \o [j \in 1..(minted' - minted) |-> minted + j - 1]
    /\ UNCHANGED <<current, inRound, acted>>

\* The next event is taken, usually by a round that starts on it.
TakeEvent ==
    /\ ~inRound
    /\ current = None /\ pending # <<>>
    /\ current' = Head(pending) /\ pending' = Tail(pending)
    /\ inRound' \in BOOLEAN
    /\ UNCHANGED <<minted, acted>>

\* Another round starts on an event for which nothing was done.
RetryEvent ==
    /\ ~inRound
    /\ current # None /\ ~acted
    /\ inRound' = TRUE
    /\ UNCHANGED <<minted, pending, current, acted>>

StartMutation ==
    /\ inRound
    /\ acted' = TRUE
    /\ UNCHANGED <<minted, pending, current, inRound>>

\* The round failed, or its process died.
BreakOff ==
    /\ inRound
    /\ inRound' = FALSE
    /\ UNCHANGED <<minted, pending, current, acted>>

\* The event is summarised.
CloseEvent ==
    /\ current # None
    /\ current' = None
    /\ inRound' = FALSE
    /\ acted' = FALSE
    /\ UNCHANGED <<minted, pending>>

OnceNext ==
    \/ AcceptEvents \/ TakeEvent \/ RetryEvent \/ StartMutation \/ BreakOff \/ CloseEvent

OnceSpec == OnceInit /\ [][OnceNext]_onceVars

=============================================================================
