---------------------------- MODULE ConnectionLink ----------------------------
(***************************************************************************)
(* DrexelProtocol::Connection used on both ends, as spec 4.2 describes it  *)
(* (src/src/threadpool/workstealqueue.h holds connection.h): a sending     *)
(* application calls connect(), send(buf, n) for NumMsgs messages and     *)
(* disconnect(); a receiving application calls listen() and then recv()   *)
(* until it returns CONNECTION_CLOSED.  FTPServer::listen() re-implements *)
(* the receive side instead, so this is the library's own receive path.   *)
(*                                                                         *)
(* A datagram carries its size, header fields and, for payload, the index *)
(* of the message and the offset in it of its first byte.  Datagrams from *)
(* other programs (Strays) are in flight from the start.                  *)
(***************************************************************************)
EXTENDS Integers, Sequences, SequencesExt

LOCAL INSTANCE Sender WITH Clients <- {}, FileSize <- <<>>

CONSTANTS
    MsgSizes,   \* the n of each send(buf, n) the application may make
    NumMsgs,    \* messages the sending application sends
    Cap,        \* buffSz the receiving application passes to recv()
    Strays,     \* datagrams from other hosts, in flight from the start
    Peer,       \* model value: the sending application's address
    Nil,        \* model value: no message
    Seq32,      \* 2^32: seqNum is an unsigned int (an MC gives less)
    SizeT,      \* 2^64: size_t arithmetic in recv() (an MC gives less)
    MaxLoss     \* datagrams the network may drop in a behaviour

ASSUME MsgSizes \subseteq Nat \ {0} /\ Cap \in Nat \ {0}

MaxDgramSz == MaxBuffSz + PduSize      \* MAX_DGRAM_SZ = sizeof(_buffer)
ErrorProtocol    == -2
ConnectionClosed == -16

VARIABLES
    spc,        \* sending application: "connect", "waitCntAck", "idle",
                \* "sending", "waitAck", "waitCloseAck", "closed",
                \* "closeFailed", "failed"
    sseq,       \* sender's Connection::seqNum
    sizes,      \* n of each send() called so far (history)
    off,        \* bytes of the current message sendDgram() has sent
    rpc,        \* receiving application: "listen", "recv", "closed",
                \* "failed" (listen() returned an error), "crashed"
    rseq,       \* receiver's Connection::seqNum
    total,      \* recv(): bytes copied into buff so far
    got,        \* recv(): the pieces copied, [msg, off, len]
    delivered,  \* the results of the recv() calls that returned (history)
    toRecv,     \* datagrams in flight to the receiver
    toSend,     \* answers in flight to the sender, in order
    lost        \* datagrams the network has dropped so far

vars == <<spc, sseq, sizes, off, rpc, rseq, total, got, delivered,
          toRecv, toSend, lost>>
\* The sending Connection: seqNum (sseq), connected (spc past "connect"),
\* and the locals of the send() loop.
senderVars   == <<spc, sseq, sizes, off>>
receiverVars == <<rpc, rseq, total, got, delivered>>

\* Connection(): seqNum(0).
Init ==
    /\ spc = "connect" /\ sseq = 0 /\ sizes = <<>> /\ off = 0
    /\ rpc = "listen" /\ rseq = 0 /\ total = 0 /\ got = <<>>
    /\ delivered = <<>>
    /\ toRecv = Strays
    /\ toSend = <<>>
    /\ lost = 0

-----------------------------------------------------------------------------
(* The sending application.                                               *)

Header(mt) == [src |-> Peer, size |-> PduSize, mtype |-> mt, seq |-> sseq,
               dsz |-> 0, msg |-> Nil, off |-> 0]

\* connect(): send CONNECT with the current seqNum.
SConnect ==
    /\ spc = "connect"
    /\ toRecv' = toRecv \cup {Header("CONNECT")}
    /\ spc' = "waitCntAck"
    /\ UNCHANGED <<sseq, sizes, off, toSend, receiverVars>>

\* connect() continued: the answer must be CNTACK, then seqNum++.
SConnected ==
    /\ spc = "waitCntAck"
    /\ toSend # <<>>
    /\ toSend' = Tail(toSend)
    /\ IF Head(toSend).mtype = "CNTACK"
       THEN spc' = "idle" /\ sseq' = (sseq + 1) % Seq32
       ELSE spc' = "failed" /\ UNCHANGED sseq
    /\ UNCHANGED <<sizes, off, toRecv, receiverVars>>

\* sendDgram(sPtr, rem): SENDFRAGMENT of MAX_BUFF_SZ bytes if more remain,
\* else SND; seqNum += dgram_sz before waiting for the answer.
SendDgram(rem, k, o) ==
    LET dsz == Lesser(rem, MaxBuffSz) IN
    /\ toRecv' = toRecv \cup
         {[src |-> Peer, size |-> PduSize + dsz, seq |-> sseq, dsz |-> dsz,
           mtype |-> IF rem > MaxBuffSz THEN "SENDFRAGMENT" ELSE "SND",
           msg |-> k, off |-> o]}
    /\ sseq' = (sseq + (IF dsz = 0 THEN 1 ELSE dsz)) % Seq32
    /\ spc' = "waitAck"

\* send(buf, n): the application's next message, and the loop's first
\* sendDgram().
SSend ==
    /\ spc = "idle"
    /\ Len(sizes) < NumMsgs
    /\ \E n \in MsgSizes :
          /\ sizes' = Append(sizes, n)
          /\ off' = 0
          /\ SendDgram(n, Len(sizes) + 1, 0)
    /\ UNCHANGED <<toSend, receiverVars>>

\* send() loop: sPtr += sndSz; sbuff_sz -= sndSz; while sbuff_sz > 0.
SSendNext ==
    /\ spc = "sending"
    /\ SendDgram(Last(sizes) - off, Len(sizes), off)
    /\ UNCHANGED <<sizes, off, toSend, receiverVars>>

\* sendDgram() continued: recvRaw() takes whatever answer comes (a wrong
\* mtype is only logged) and returns dgram_sz.
SAcked ==
    /\ spc = "waitAck"
    /\ toSend # <<>>
    /\ toSend' = Tail(toSend)
    /\ LET sent == off + Lesser(Last(sizes) - off, MaxBuffSz) IN
       /\ off' = sent
       /\ spc' = IF sent < Last(sizes) THEN "sending" ELSE "idle"
    /\ UNCHANGED <<sseq, sizes, toRecv, receiverVars>>

\* disconnect(): send CLOSE, wait for the answer, close the socket.
SDisconnect ==
    /\ spc = "idle"
    /\ Len(sizes) = NumMsgs
    /\ toRecv' = toRecv \cup {Header("CLOSE")}
    /\ spc' = "waitCloseAck"
    /\ UNCHANGED <<sseq, sizes, off, toSend, receiverVars>>

SClosed ==
    /\ spc = "waitCloseAck"
    /\ toSend # <<>>
    /\ toSend' = Tail(toSend)
    /\ spc' = IF Head(toSend).mtype = "CLOSEACK" THEN "closed" ELSE "closeFailed"
    /\ UNCHANGED <<sseq, sizes, off, toRecv, receiverVars>>

SenderStep ==
    SConnect \/ SConnected \/ SSend \/ SSendNext \/ SAcked \/ SDisconnect
    \/ SClosed

-----------------------------------------------------------------------------
(* The receiving application: listen(), then recv(buff, Cap) in a loop.   *)

\* recvRaw(buff, buffSz): one datagram, cut to buffSz bytes; its source
\* becomes outSockAddr, where the answers go.
RecvRaw(d, buffSz) == Lesser(d.size, buffSz)

Answer(d, mt, sq) == [dst |-> d.src, mtype |-> mt, seq |-> sq]

\* Answers to the sending application reach it; answers to other hosts
\* leave the model.
Reply(d, answers) == IF d.src = Peer THEN toSend \o answers ELSE toSend

\* listen(): recvRaw(&pdu, sizeof(pdu)) must return sizeof(pdu) bytes;
\* mtype is not looked at.  Reply CNTACK with seqNum = pdu.seqnum + 1.
\* Mutant: listen() answers with the peer's own seqnum.
ListenSeqSame(d) == d.seq % Seq32

ListenSeq(d) == (d.seq + 1) % Seq32

RListen ==
    /\ rpc = "listen"
    /\ \E d \in toRecv :
          LET sq == ListenSeq(d) IN
          /\ toRecv' = toRecv \ {d}
          /\ IF RecvRaw(d, PduSize) = PduSize
             THEN /\ rseq' = sq
                  /\ toSend' = Reply(d, <<Answer(d, "CNTACK", sq)>>)
                  /\ rpc' = "recv"
             ELSE /\ rpc' = "failed"
                  /\ UNCHANGED <<rseq, toSend>>
    /\ UNCHANGED <<senderVars, total, got, delivered>>

\* recvDgram(_buffer, MAX_DGRAM_SZ).
BytesIn(d) == RecvRaw(d, MaxDgramSz)

DgramError(d) == BytesIn(d) < PduSize \/ d.dsz > MaxDgramSz

SeqStep(d) == IF ~DgramError(d) /\ d.dsz # 0 THEN d.dsz ELSE 1

\* ERROR if the datagram failed validation; then, unless it was a valid
\* fragment (SENDFRAGMENTACK and return), the switch on mtype: SNDACK for
\* SND, CLOSEACK for CLOSE, nothing otherwise.
AnswerTypes(d) ==
    (IF DgramError(d) THEN <<"ERROR">> ELSE <<>>)
    \o (IF ~DgramError(d) /\ IsFragment(d.mtype) THEN <<"SENDFRAGMENTACK">>
        ELSE IF d.mtype = "SND" THEN <<"SNDACK">>
        ELSE IF d.mtype = "CLOSE" THEN <<"CLOSEACK">>
        ELSE <<>>)

\* Mutant: the switch has no CLOSE case; CLOSE is handed back as data.
DgramResultNoClose(d) ==
    IF ~DgramError(d) /\ IsFragment(d.mtype) THEN BytesIn(d)
    ELSE IF d.mtype \in {"SND", "CLOSE"} THEN BytesIn(d)
    ELSE ErrorProtocol

DgramResult(d) ==
    IF ~DgramError(d) /\ IsFragment(d.mtype) THEN BytesIn(d)
    ELSE IF d.mtype = "SND" THEN BytesIn(d)
    ELSE IF d.mtype = "CLOSE" THEN ConnectionClosed
    ELSE ErrorProtocol

\* The steps of recvDgram() common to every outcome.
RecvDgram(d) ==
    LET sq == (rseq + SeqStep(d)) % Seq32 IN
    /\ toRecv' = toRecv \ {d}
    /\ rseq' = sq
    /\ toSend' = Reply(d, [i \in DOMAIN AnswerTypes(d) |->
                             Answer(d, AnswerTypes(d)[i], sq)])

\* recv(): `copied`, computed in size_t because sizeof(PDU) is one, then
\* stored in an int.
USize(x) == x % SizeT
AsInt(x) == IF x >= SizeT \div 2 THEN x - SizeT ELSE x

\* Mutant: the clamp to buffSz is left out.
CopiedNoClamp(t, r) == AsInt(USize(r - PduSize))

\* Mutant: the PDU header is counted as payload.
CopiedWithHeader(t, r) ==
    AsInt(IF USize(t + r) > USize(Cap) THEN USize(Cap - t) ELSE USize(r))

Copied(t, r) ==
    LET payload == USize(r - PduSize) IN
    AsInt(IF USize(t + payload) > USize(Cap) THEN USize(Cap - t) ELSE payload)

\* The bytes memcpy() takes from _buffer + sizeof(PDU): the datagram's
\* payload, unless it reaches past what recvRaw() wrote.
Piece(d, c) ==
    [msg |-> IF c <= BytesIn(d) - PduSize THEN d.msg ELSE Nil,
     off |-> d.off, len |-> c]

\* recv(): recvDgram() returned CONNECTION_CLOSED (it answered CLOSEACK
\* and closed the socket); so does recv(), and the application stops.
RRecvClosed ==
    /\ rpc = "recv"
    /\ \E d \in toRecv :
          /\ DgramResult(d) = ConnectionClosed
          /\ RecvDgram(d)
          /\ rpc' = "closed"
    /\ UNCHANGED <<senderVars, total, got, delivered>>

\* recv(): copy `copied` bytes (a negative int is a huge size_t: memcpy
\* faults); loop while the datagram's mtype has FRAGMENT set, else return
\* total and the application calls recv() again.
RRecvData ==
    /\ rpc = "recv"
    /\ \E d \in toRecv :
          LET c     == Copied(total, DgramResult(d))
              piece == Append(got, Piece(d, c))
          IN
          /\ DgramResult(d) # ConnectionClosed
          /\ RecvDgram(d)
          /\ IF c < 0
             THEN rpc' = "crashed" /\ UNCHANGED <<total, got, delivered>>
             ELSE IF IsFragment(d.mtype)
             THEN /\ total' = total + c /\ got' = piece
                  /\ UNCHANGED <<rpc, delivered>>
             ELSE /\ delivered' = Append(delivered, piece)
                  /\ total' = 0 /\ got' = <<>>
                  /\ UNCHANGED rpc
    /\ UNCHANGED senderVars

ReceiverStep == RListen \/ RRecvClosed \/ RRecvData

-----------------------------------------------------------------------------
(* The network: UDP may drop any datagram, either way.  Nothing in        *)
(* Connection retransmits or times out (spec 1, non-goals).              *)

LoseDgram ==
    /\ lost < MaxLoss
    /\ \E d \in toRecv : toRecv' = toRecv \ {d}
    /\ lost' = lost + 1
    /\ UNCHANGED <<senderVars, receiverVars, toSend>>

LoseAnswer ==
    /\ lost < MaxLoss
    /\ \E i \in DOMAIN toSend : toSend' = RemoveAt(toSend, i)
    /\ lost' = lost + 1
    /\ UNCHANGED <<senderVars, receiverVars, toRecv>>

Network == LoseDgram \/ LoseAnswer

Next == ((SenderStep \/ ReceiverStep) /\ UNCHANGED lost) \/ Network

\* The two applications are separate processes: each is weakly fair.
\* A loss is never forced: the network gets no fairness.
Spec ==
    /\ Init /\ [][Next]_vars
    /\ WF_vars(SenderStep /\ UNCHANGED lost)
    /\ WF_vars(ReceiverStep /\ UNCHANGED lost)

-----------------------------------------------------------------------------
TypeOK ==
    /\ spc \in {"connect", "waitCntAck", "idle", "sending", "waitAck",
                "waitCloseAck", "closed", "closeFailed", "failed"}
    /\ rpc \in {"listen", "recv", "closed", "failed", "crashed"}
    /\ sizes \in Seq(MsgSizes) /\ Len(sizes) <= NumMsgs
    /\ total \in 0..Cap
    /\ sseq \in 0..(Seq32 - 1) /\ rseq \in 0..(Seq32 - 1)
    /\ lost \in 0..MaxLoss

\* The bytes a list of pieces accounts for.
PieceBytes(ps) == FoldLeft(LAMBDA acc, p : acc + p.len, 0, ps)

\* A recv() result holds message j: every piece comes from it and lands
\* where the previous ones ended, and there are min(n, Cap) bytes of it.
HoldsMessage(ps, j) ==
    /\ j <= Len(sizes)
    /\ \A i \in DOMAIN ps :
          /\ ps[i].msg = j
          /\ ps[i].len > 0 => ps[i].off = PieceBytes(SubSeq(ps, 1, i - 1))
    /\ PieceBytes(ps) = Lesser(sizes[j], Cap)

\* Spec 4.2: recv() concatenates the payloads of one send(), fragments
\* included, in order; the j-th recv() returns the j-th message, cut to
\* the caller's buffer, and nothing else.
RecvReturnsSentPayload ==
    \A j \in DOMAIN delivered : HoldsMessage(delivered[j], j)

\* Spec 3: both ends advance seqNum by dgram_sz per data frame and by one
\* per control frame, so between two calls of the sender they agree.
SeqAgreement ==
    spc \in {"idle", "sending"} => sseq = rseq

\* Every send() and the disconnect() return, and the receiving
\* application's recv() returns CONNECTION_CLOSED, when the network loses
\* nothing.  One lost datagram leaves recvRaw() blocked for ever: there is
\* no timeout (spec 244 speaks of a desynchronisation; the code hangs).
TransferCompletes ==
    [](lost = 0) => <>(spc = "closed" /\ rpc = "closed")

====
