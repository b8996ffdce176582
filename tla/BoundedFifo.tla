---------------------------- MODULE BoundedFifo ----------------------------
(***************************************************************************)
(* What the keyboard event queue promises: a FIFO of at most Capacity      *)
(* events, which refuses an event only when it is full and delivers each   *)
(* event whole and once.                                                   *)
(***************************************************************************)
EXTENDS Naturals, Sequences

CONSTANTS
    Event,       \* the events
    NoEvent,     \* what `out` shows before the first delivery
    Capacity     \* how many events the queue holds

VARIABLES
    q,           \* the events held, the oldest first
    out,         \* the event delivered last
    ret          \* the answer to the last Put: FALSE when it was refused

fifoVars == <<q, out, ret>>

FifoInit == q = <<>> /\ out = NoEvent /\ ret = TRUE

Put(e) == /\ Len(q) < Capacity
          /\ q' = Append(q, e) /\ ret' = TRUE /\ UNCHANGED out

Refuse == /\ Len(q) = Capacity
          /\ ret' = FALSE /\ UNCHANGED <<q, out>>

Take == /\ q # <<>>
        /\ out' = Head(q) /\ q' = Tail(q) /\ UNCHANGED ret

Clear == q' = <<>> /\ UNCHANGED <<out, ret>>

FifoNext == (\E e \in Event : Put(e)) \/ Refuse \/ Take \/ Clear

FifoSpec == FifoInit /\ [][FifoNext]_fifoVars
=============================================================================
