------------------------------ MODULE Channel ------------------------------
(***************************************************************************)
(* What the abstract class channel<X> of src/src/channel/channel.h         *)
(* promises its one producer and one consumer, whichever implementation   *)
(* makeChannel() returns: send() on an open channel enqueues its value,   *)
(* receive() dequeues the oldest one, close() stops further sends, and    *)
(* the consumer learns that the channel is over (isClosed() true, or      *)
(* receive() throwing) only once it is closed and every value sent has    *)
(* been received.  Capacity and blocking are left to the implementations. *)
(***************************************************************************)
LOCAL INSTANCE Sequences

CONSTANT Values

VARIABLES
    in,         \* the values send() has accepted, in order (history)
    q,          \* the values sent and not yet received, oldest first
    out,        \* the values receive() has returned, in order (history)
    open,       \* close() has not been called
    over        \* the consumer has been told the channel is over

avars == <<in, q, out, open, over>>

Init ==
    /\ in = <<>> /\ q = <<>> /\ out = <<>>
    /\ open = TRUE
    /\ over = FALSE

\* virtual void send(X value): only on an open channel.
Send(v) ==
    /\ open
    /\ in' = Append(in, v)
    /\ q' = Append(q, v)
    /\ UNCHANGED <<out, open, over>>

\* virtual X receive(): the oldest value still in the channel.
Receive ==
    /\ q # <<>>
    /\ out' = Append(out, Head(q))
    /\ q' = Tail(q)
    /\ UNCHANGED <<in, open, over>>

\* virtual void close().
Close ==
    /\ open' = FALSE
    /\ UNCHANGED <<in, q, out, over>>

\* virtual bool isClosed(), or a receive() that throws: closed and drained.
Over ==
    /\ ~open
    /\ q = <<>>
    /\ over' = TRUE
    /\ UNCHANGED <<in, q, out, open>>

Next == (\E v \in Values : Send(v)) \/ Receive \/ Close \/ Over

Spec == Init /\ [][Next]_avars

=============================================================================
