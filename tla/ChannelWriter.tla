--------------------------- MODULE ChannelWriter ---------------------------
(***************************************************************************)
(* One FTPFileWriter (src/unnamed/part_006, server.cpp part) and its       *)
(* channel, seen from its two threads: the dispatcher, the only          *)
(* producer, which pushes payloads (pushToChannel) and may close the      *)
(* channel, and the pool worker that runs serverLoop(), the only          *)
(* consumer.  The channel is makeChannel(size): a BufferedChannel of      *)
(* ChanCap slots, or an UnbufferedChannel when size is 0.                 *)
(***************************************************************************)
EXTENDS BufferedChannel, UnbufferedChannel, SequencesExt

CONSTANTS
    NumMsgs,    \* payloads the dispatcher has to push
    Sizes       \* the arguments makeChannel() may be given

ASSUME Sizes \subseteq {0, ChanCap}

Msgs == 1..NumMsgs

VARIABLES
    size,       \* the argument FTPFileWriter passed to makeChannel()
    chan,       \* the writer's channel<std::string>
    ppc,        \* the dispatcher: "idle", or in an unbuffered send(),
                \* "sendWait" (for a receiver) or "sendDone" (for the take)
    sent,       \* payloads the dispatcher has pushed, in order
    received,   \* payloads serverLoop has written out, in order
    got,        \* the payload serverLoop holds between receive and write
    wpc         \* serverLoop's position: "check", "recv", "write", "exited"

vars == <<size, chan, ppc, sent, received, got, wpc>>

\* makeChannel(size): unbuffered for 0, else bufferedChannel(size).
MakeChannel(sz) == IF sz = 0 THEN NewUnbuffered ELSE NewChannel

Unbuffered == size = 0

\* stream->isClosed(), dispatched on the channel's class.
StreamIsClosed == IF Unbuffered THEN UIsClosed(chan) ELSE IsClosed(chan)

Init ==
    /\ size \in Sizes
    /\ chan = MakeChannel(size)
    /\ ppc = "idle"
    /\ sent = <<>>
    /\ received = <<>>
    /\ got = 0
    /\ wpc = "check"

-----------------------------------------------------------------------------
(* The dispatcher side.                                                    *)

\* pushToChannel(): stream->send(std::string(buff, buffSz)); blocks while full.
PushToChannel ==
    /\ ~Unbuffered
    /\ Len(sent) < NumMsgs
    /\ ~SendThrows(chan)
    /\ SendReady(chan)
    /\ chan' = Send(chan, Len(sent) + 1)
    /\ sent' = Append(sent, Len(sent) + 1)
    /\ UNCHANGED <<size, ppc, received, got, wpc>>

\* pushToChannel() on an unbuffered channel: send() offers the value at
\* once if a receiver is ready, else waits for one.
UPushToChannel ==
    /\ Unbuffered
    /\ ppc = "idle"
    /\ Len(sent) < NumMsgs
    /\ ~UThrows(chan)
    /\ sent' = Append(sent, Len(sent) + 1)
    /\ IF SendOfferReady(chan)
       THEN chan' = SendOffer(chan, Len(sent) + 1) /\ ppc' = "sendDone"
       ELSE ppc' = "sendWait" /\ UNCHANGED chan
    /\ UNCHANGED <<size, received, got, wpc>>

\* send(): woken with receiverReady, leave the value in tempVal.
USendOffer ==
    /\ ppc = "sendWait"
    /\ SendOfferReady(chan)
    /\ chan' = SendOffer(chan, Last(sent))
    /\ ppc' = "sendDone"
    /\ UNCHANGED <<size, sent, received, got, wpc>>

\* send(): woken once the receiver has taken it; return.
USendReturn ==
    /\ ppc = "sendDone"
    /\ SendDoneReady(chan)
    /\ chan' = SendDone(chan)
    /\ ppc' = "idle"
    /\ UNCHANGED <<size, sent, received, got, wpc>>

\* On a CLOSE frame the dispatcher calls getChannel()->close(); it is the
\* thread that sends, so not in the middle of a send().
CloseChannel ==
    /\ ppc = "idle"
    /\ chan.open
    /\ chan' = IF Unbuffered THEN UClose(chan) ELSE Close(chan)
    /\ UNCHANGED <<size, ppc, sent, received, got, wpc>>

\* The dispatcher's steps inside an unbuffered send().
InSend == USendOffer \/ USendReturn

-----------------------------------------------------------------------------
(* serverLoop(), run by a pool worker.                                     *)

\* while (!stream->isClosed()) ... ; on exit: delete stream; closed = true.
LoopCheck ==
    /\ wpc = "check"
    /\ wpc' = IF StreamIsClosed THEN "exited" ELSE "recv"
    /\ UNCHANGED <<size, chan, ppc, sent, received, got>>

\* buff = stream->receive(): returns the front payload once there is one.
LoopReceive ==
    /\ ~Unbuffered
    /\ wpc = "recv"
    /\ RecvReturns(chan)
    /\ ~RecvThrows(chan)
    /\ got' = RecvValue(chan)
    /\ chan' = Receive(chan)
    /\ wpc' = "write"
    /\ UNCHANGED <<size, ppc, sent, received>>

\* receive() throws on a closed, drained channel: catch -> break.
LoopReceiveClosed ==
    /\ ~Unbuffered
    /\ wpc = "recv"
    /\ RecvReturns(chan)
    /\ RecvThrows(chan)
    /\ wpc' = "exited"
    /\ UNCHANGED <<size, chan, ppc, sent, received, got>>

\* receive() on an unbuffered channel: announce the receiver and wait.
URecvAnnounce ==
    /\ Unbuffered
    /\ wpc = "recv"
    /\ ~UThrows(chan)
    /\ chan' = RecvAnnounce(chan)
    /\ wpc' = "recvWait"
    /\ UNCHANGED <<size, ppc, sent, received, got>>

\* receive() throws, on entry or once woken by close(): catch -> break.
URecvClosed ==
    /\ Unbuffered
    /\ \/ wpc = "recv" /\ UThrows(chan)
       \/ wpc = "recvWait" /\ RecvWakes(chan) /\ ~chan.open
    /\ wpc' = "exited"
    /\ UNCHANGED <<size, chan, ppc, sent, received, got>>

\* receive(): woken with senderReady on an open channel, take tempVal.
URecvTake ==
    /\ wpc = "recvWait"
    /\ RecvWakes(chan)
    /\ chan.open
    /\ got' = chan.tempVal
    /\ chan' = RecvTake(chan)
    /\ wpc' = "recvDone"
    /\ UNCHANGED <<size, ppc, sent, received>>

\* receive(): woken once the sender has returned; return the value.
URecvReturn ==
    /\ wpc = "recvDone"
    /\ RecvDoneReady(chan)
    /\ wpc' = "write"
    /\ UNCHANGED <<size, chan, ppc, sent, received, got>>

\* Open pdu->fileName, write the bytes after the FTP header, close the file.
LoopWrite ==
    /\ wpc = "write"
    /\ received' = Append(received, got)
    /\ wpc' = "check"
    /\ UNCHANGED <<size, chan, ppc, sent, got>>

Writer ==
    \/ LoopCheck \/ LoopReceive \/ LoopReceiveClosed \/ LoopWrite
    \/ URecvAnnounce \/ URecvClosed \/ URecvTake \/ URecvReturn

\* Once serverLoop has returned and the channel is closed nothing can
\* happen any more: that is the system's normal end, not a deadlock.
Next == PushToChannel \/ UPushToChannel \/ InSend \/ CloseChannel \/ Writer

\* The worker thread is scheduled by the OS; the dispatcher is driven by
\* datagrams that may never come, so it gets no fairness for a new push
\* or a close, but once inside send() it is a running thread as well.
Spec == Init /\ [][Next]_vars /\ WF_vars(Writer) /\ WF_vars(InSend)

-----------------------------------------------------------------------------
TypeOK ==
    /\ size \in Sizes
    /\ ppc \in {"idle", "sendWait", "sendDone"}
    /\ IF Unbuffered
       THEN chan \in UnbufferedChannels(Msgs)
       ELSE /\ chan \in BufferedChannels(Msgs)
            /\ Len(chan.buf) <= ChanCap     \* send() blocks at maxSize
    /\ sent \in Seq(Msgs)
    /\ received \in Seq(Msgs)
    /\ got \in Msgs \cup {0}
    /\ wpc \in {"check", "recv", "recvWait", "recvDone", "write", "exited"}

\* The refinement mapping onto channel<X>.  A buffered channel holds its
\* queue; an unbuffered one holds tempVal from the sender's offer until the
\* receiver takes it.  A payload pushToChannel() is still waiting to offer
\* has not been accepted yet, and one serverLoop has taken but not yet
\* written has been received.
Taken == wpc \in {"recvDone", "write"}

Chan == INSTANCE Channel WITH
    Values <- Msgs,
    in     <- IF ppc = "sendWait" THEN Front(sent) ELSE sent,
    q      <- IF ~Unbuffered THEN chan.buf
              ELSE IF chan.senderReady /\ ~Taken THEN <<chan.tempVal>>
              ELSE <<>>,
    out    <- received \o (IF Taken THEN <<got>> ELSE <<>>),
    open   <- chan.open,
    over   <- wpc = "exited"

\* Spec 8.7 and the channel<X> contract: with either kind of channel,
\* serverLoop receives the payloads in the order the dispatcher pushed
\* them, none twice and none skipped, no send() is accepted after close(),
\* and serverLoop leaves its loop only once the channel is closed and every
\* pushed payload has been received.
ChannelRefined == Chan!Spec

\* Once the dispatcher has closed the channel, serverLoop eventually
\* returns, even if it was already blocked in receive() when close came.
WriterEventuallyExits ==
    (~chan.open) ~> (wpc = "exited")

\* A pushToChannel() that has entered an unbuffered send() returns: the
\* writer's receive() completes the rendezvous and releases the
\* dispatcher, the only thread that reads datagrams.
EverySendReturns ==
    (ppc # "idle") ~> (ppc = "idle")

=============================================================================
