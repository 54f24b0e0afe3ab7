-------------------------- MODULE BufferedChannel --------------------------
(***************************************************************************)
(* The buffered Go-style channel of src/src/channel/channel.h              *)
(* (bufferedChannel<X>).  Every member function runs entirely under        *)
(* buffMut, so each one is a single atomic operator on a channel value    *)
(*     [buf |-> <<messages>>, open |-> BOOLEAN].                           *)
(* A function that waits on a condition variable is split into the        *)
(* predicate it waits for (the step is enabled only when it holds) and    *)
(* the state change it makes once it returns.                             *)
(***************************************************************************)
EXTENDS Naturals, Sequences

CONSTANT ChanCap     \* maxSize; FTPFileWriter builds its channel with 20

ASSUME ChanCap \in Nat \ {0}

\* The members of bufferedChannel<X> kept as state: open and the queue
\* buffer; maxSize is ChanCap, buffMut and the condition variables are the
\* atomicity of each operator and the enabling of each wait.
BufferedChannels(Values) == [buf : Seq(Values), open : BOOLEAN]

\* bufferedChannel(int size): open, empty queue.
NewChannel == [buf |-> <<>>, open |-> TRUE]

\* Mutant: isClosed() that forgets the buffer, like unbufferedChannel's.
IsClosedIgnoringBuffer(ch) == ~ch.open

\* isClosed(): "Not truly closed till empty".
IsClosed(ch) == ~ch.open /\ ch.buf = <<>>

SendThrows(ch) == ~ch.open

\* Mutant: the wait predicate compares with <=.
SendReadyOffByOne(ch) == Len(ch.buf) <= ChanCap

\* send(): the sender waits until buffer->size() < maxSize ...
SendReady(ch) == Len(ch.buf) < ChanCap

\* ... and then pushes the value at the back of the queue.
Send(ch, v) == [ch EXCEPT !.buf = Append(@, v)]

\* Mutant: the receiver waits for data only and misses close()'s notify.
RecvReturnsOnData(ch) == ch.buf # <<>>

\* receive(): the receiver waits until the buffer is non-empty or the
\* channel has been closed (close() notifies all receivers).
RecvReturns(ch) == ch.buf # <<>> \/ ~ch.open

\* receive(): throws when closed and empty, checked before and after the wait.
RecvThrows(ch) == ~ch.open /\ ch.buf = <<>>

\* receive(): takes the value at the front of the queue.
RecvValue(ch) == Head(ch.buf)
Receive(ch) == [ch EXCEPT !.buf = Tail(@)]

\* close(): marks the channel closed; buffered values stay receivable.
Close(ch) == [ch EXCEPT !.open = FALSE]

=============================================================================
