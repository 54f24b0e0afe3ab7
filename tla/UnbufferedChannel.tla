------------------------- MODULE UnbufferedChannel -------------------------
(***************************************************************************)
(* The unbuffered channel of src/src/channel/channel.h                     *)
(* (unbufferedChannel<X>), which makeChannel(0) returns.  A send and a     *)
(* receive meet in a rendezvous: the receiver announces itself            *)
(* (receiverReady), the sender leaves its value in tempVal (senderReady),  *)
(* the receiver takes it and the sender returns.  Each piece of code      *)
(* between two condition-variable waits runs under cMut and is one        *)
(* operator on a channel value; a wait is the predicate that lets the     *)
(* next piece run.  The value 0 stands for X(), the empty payload.        *)
(***************************************************************************)

\* The members of unbufferedChannel<X>: open, senderReady, receiverReady,
\* tempVal.
UnbufferedChannels(Values) ==
    [open : BOOLEAN, senderReady : BOOLEAN, receiverReady : BOOLEAN,
     tempVal : Values \cup {0}]

\* unbufferedChannel(): open, nobody ready.
NewUnbuffered ==
    [open |-> TRUE, senderReady |-> FALSE, receiverReady |-> FALSE,
     tempVal |-> 0]

\* send() and receive() throw on entry when the channel is closed.
UThrows(ch) == ~ch.open

\* send(): sender.wait(lk, receiverReady) ...
SendOfferReady(ch) == ch.receiverReady

\* ... tempVal = value; senderReady = true; receiver.notify_all().
SendOffer(ch, v) == [ch EXCEPT !.tempVal = v, !.senderReady = TRUE]

\* send(): sender.wait(lk, !receiverReady) ...
SendDoneReady(ch) == ~ch.receiverReady

\* ... senderReady = false; receiver.notify_all().
SendDone(ch) == [ch EXCEPT !.senderReady = FALSE]

\* receive(): receiverReady = true; sender.notify_all().
RecvAnnounce(ch) == [ch EXCEPT !.receiverReady = TRUE]

\* receive(): receiver.wait(lk, senderReady || !open); a closed channel
\* then throws, whatever the sender has left in tempVal.
RecvWakes(ch) == ch.senderReady \/ ~ch.open

\* Mutant: receive() takes tempVal but leaves receiverReady set.
RecvTakeNoReset(ch) == ch

\* receive(): myVal = tempVal; receiverReady = false; sender.notify_all().
RecvTake(ch) == [ch EXCEPT !.receiverReady = FALSE]

\* receive(): receiver.wait(lk, !senderReady), then return myVal.
RecvDoneReady(ch) == ~ch.senderReady

\* close(): open = false; receiver.notify_all() (senders are not woken;
\* none of their wait predicates reads open).
UClose(ch) == [ch EXCEPT !.open = FALSE]

\* isClosed(): !open; there is no buffer to drain.
UIsClosed(ch) == ~ch.open

=============================================================================
