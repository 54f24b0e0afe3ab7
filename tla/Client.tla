------------------------------- MODULE Client -------------------------------
(***************************************************************************)
(* The client processes: main() in client mode runs FTPClient::connect()  *)
(* and FTPClient::start(), i.e. Connection::connect(), one sendDgram()    *)
(* per frame of Sender!Frames and Connection::disconnect().  Each call    *)
(* sends one datagram and then blocks in recvRaw() for the answer.        *)
(* The network is two sets of datagrams in flight.                        *)
(***************************************************************************)
EXTENDS Sender

CONSTANTS
    Hosts,      \* IPv4 addresses; the receiver keys its peers by address only
    HostOf,     \* HostOf[c]: the address client c sends from
    Nil,        \* model value: no datagram / no message / no writer
    Seq32       \* 2^32: Connection::seqNum is an unsigned int.  TLC's
                \* integers stop at 2^31 - 1, so an MC gives a smaller
                \* modulus; the bounded runs never reach it.

ASSUME HostOf \in [Clients -> Hosts]

VARIABLES
    cpc,        \* cpc[c]: where client c is in main()/start()
    cseq,       \* cseq[c]: Connection::seqNum of client c
    cnext,      \* cnext[c]: index of the next frame client c sends
    toServer,   \* datagrams in flight to the receiver's socket
    toClients   \* answers in flight; field dst names the receiving client

clientVars == <<cpc, cseq, cnext>>

FramesOf(c) == Frames(FileSize[c])

\* A header-only datagram (CONNECT or CLOSE): exactly sizeof(PDU) bytes.
CtrlDgram(c, mt) ==
    [src |-> c, host |-> HostOf[c], size |-> PduSize, mtype |-> mt,
     seq |-> cseq[c], dsz |-> 0, msg |-> Nil]

\* Frame k of client c: PDU header, then the FTP header and the data.
DataDgram(c, k) ==
    LET fr == FramesOf(c)[k] IN
    [src |-> c, host |-> HostOf[c], size |-> PduSize + fr.dsz,
     mtype |-> fr.mtype, seq |-> cseq[c], dsz |-> fr.dsz,
     msg |-> [file |-> c, status |-> fr.status, data |-> <<c, k>>]]

ClientInit ==
    /\ cpc = [c \in Clients |-> "connect"]
    /\ cseq = [c \in Clients |-> 0]
    /\ cnext = [c \in Clients |-> 1]

\* Connection::connect(): send CONNECT carrying the current seqNum.
ClientConnect(c) ==
    /\ cpc[c] = "connect"
    /\ toServer' = toServer \cup {CtrlDgram(c, "CONNECT")}
    /\ cpc' = [cpc EXCEPT ![c] = "waitCntAck"]
    /\ UNCHANGED <<cseq, cnext, toClients>>

\* connect() continued: the answer must be CNTACK (else main() exits -1);
\* then seqNum++ and start() reads the file, or disconnects if it is empty.
ClientConnected(c) ==
    /\ cpc[c] = "waitCntAck"
    /\ \E r \in toClients :
          /\ r.dst = c
          /\ toClients' = toClients \ {r}
          /\ IF r.mtype = "CNTACK"
             THEN /\ cseq' = [cseq EXCEPT ![c] = (@ + 1) % Seq32]
                  /\ cpc' = [cpc EXCEPT ![c] =
                               IF FramesOf(c) = <<>> THEN "close" ELSE "send"]
             ELSE /\ cpc' = [cpc EXCEPT ![c] = "failed"]
                  /\ UNCHANGED cseq
    /\ UNCHANGED <<cnext, toServer>>

\* sendDgram(): send the frame and advance seqNum by dgram_sz before
\* waiting for the acknowledgement.
ClientSendDgram(c) ==
    /\ cpc[c] = "send"
    /\ toServer' = toServer \cup {DataDgram(c, cnext[c])}
    /\ cseq' = [cseq EXCEPT ![c] = (@ + FramesOf(c)[cnext[c]].dsz) % Seq32]
    /\ cpc' = [cpc EXCEPT ![c] = "waitAck"]
    /\ UNCHANGED <<cnext, toClients>>

\* sendDgram() continued: recvRaw() takes whatever answer comes; a wrong
\* mtype is only logged.  start() moves on to the next frame or, after the
\* last one, to disconnect().
ClientAcked(c) ==
    /\ cpc[c] = "waitAck"
    /\ \E r \in toClients :
          /\ r.dst = c
          /\ toClients' = toClients \ {r}
    /\ cnext' = [cnext EXCEPT ![c] = @ + 1]
    /\ cpc' = [cpc EXCEPT ![c] =
                 IF cnext[c] = Len(FramesOf(c)) THEN "close" ELSE "send"]
    /\ UNCHANGED <<cseq, toServer>>

\* Connection::disconnect(): send CLOSE.
ClientDisconnect(c) ==
    /\ cpc[c] = "close"
    /\ toServer' = toServer \cup {CtrlDgram(c, "CLOSE")}
    /\ cpc' = [cpc EXCEPT ![c] = "waitCloseAck"]
    /\ UNCHANGED <<cseq, cnext, toClients>>

\* disconnect() continued: CLOSEACK closes the socket; anything else makes
\* disconnect() return ERROR_GENERAL, which start() ignores.
ClientClosed(c) ==
    /\ cpc[c] = "waitCloseAck"
    /\ \E r \in toClients :
          /\ r.dst = c
          /\ toClients' = toClients \ {r}
          /\ cpc' = [cpc EXCEPT ![c] =
                       IF r.mtype = "CLOSEACK" THEN "closed" ELSE "closeRejected"]
    /\ UNCHANGED <<cseq, cnext, toServer>>

ClientStep(c) ==
    \/ ClientConnect(c) \/ ClientConnected(c) \/ ClientSendDgram(c)
    \/ ClientAcked(c) \/ ClientDisconnect(c) \/ ClientClosed(c)

ClientFinished(c) == cpc[c] \in {"closed", "closeRejected", "failed"}

=============================================================================
