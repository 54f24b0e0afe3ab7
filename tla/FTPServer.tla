------------------------------ MODULE FTPServer ------------------------------
(***************************************************************************)
(* The receiver (src/unnamed/part_006, server.cpp part): the dispatcher   *)
(* FTPServer::listen() on the main thread, one FTPFileWriter per CONNECT, *)
(* its serverLoop() submitted to the ThreadPool, and the clients of       *)
(* Client.  submit() is only called from the main thread, whose           *)
(* thread-local localWorkQueue is null, so every task goes to the global  *)
(* workQueue and the per-worker deques stay empty: a worker here takes a  *)
(* task from the global queue (WorkStealPool models the full executor).  *)
(***************************************************************************)
EXTENDS Client, BufferedChannel, SequencesExt

CONSTANTS
    Workers,    \* ThreadPool::threadCount (hardware_concurrency())
    MaxWriters, \* bound on FTPFileWriters created
    Strays,     \* datagrams from other programs, in flight from the start
    Garbage     \* model value: the pointer fw.back() reads from an empty vector

WriterIds == 1..MaxWriters
MaxDgramSz == MaxBuffSz + PduSize       \* Connection::MAX_DGRAM_SZ

VARIABLES
    dpc,        \* listen(): "recv", "register", "push", or "crashed"
    cur,        \* the datagram listen() is handling
    seqNums,    \* dpc->seqNums: per-address sequence numbers (default 0)
    ftpWriters, \* address -> FTPFileWriter* (default nullptr = Nil)
    fw,         \* std::vector<FTPFileWriter*> fw, shared with the tasks
    nextW,      \* writers created so far
    taskQueue,  \* serverLoop tasks waiting in the pool's global queue
    running,    \* writers whose task a pool thread is running; the
                \* threads are interchangeable, so only the set is kept
    chan,       \* chan[w]: writer w's channel
    waddr,      \* waddr[w]: FTPFileWriter::address
    wpc,        \* wpc[w]: "unborn", "pending", "check", "recv", "write",
                \*         "done" (serverLoop returned), "deleted"
    wgot,       \* wgot[w]: payload between receive() and the file write
    disk        \* disk[f]: the frames file f holds, in file order

serverVars == <<dpc, cur, seqNums, ftpWriters, fw, nextW>>
writerVars == <<taskQueue, running, chan, waddr, wpc, wgot, disk>>
vars == <<clientVars, toServer, toClients, serverVars, writerVars>>

Alive == dpc # "crashed"

Init ==
    /\ ClientInit
    /\ toServer = Strays
    /\ toClients = {}
    /\ dpc = "recv"
    /\ cur = Nil
    /\ seqNums = [h \in Hosts |-> 0]
    /\ ftpWriters = [h \in Hosts |-> Nil]
    /\ fw = <<>>
    /\ nextW = 0
    /\ taskQueue = 0
    /\ running = {}
    /\ chan = [w \in WriterIds |-> NewChannel]
    /\ waddr = [w \in WriterIds |-> Nil]
    /\ wpc = [w \in WriterIds |-> "unborn"]
    /\ wgot = [w \in WriterIds |-> Nil]
    /\ disk = [f \in Clients |-> <<>>]

-----------------------------------------------------------------------------
(* listen(): one iteration per datagram.                                  *)

\* A datagram of exactly sizeof(PDU) bytes is taken as a connect: reply
\* CNTACK with seqnum 1, create a writer, push it on fw and submit the task
\* that will pop it from fw and run its serverLoop().
ListenConnect ==
    /\ dpc = "recv"
    /\ nextW < MaxWriters
    /\ \E d \in toServer :
          /\ d.size = PduSize
          /\ LET w == nextW + 1 IN
             /\ toServer' = toServer \ {d}
             /\ seqNums' = [seqNums EXCEPT ![d.host] = 1]
             /\ toClients' = toClients \cup
                             {[dst |-> d.src, mtype |-> "CNTACK", seq |-> 1]}
             /\ nextW' = w
             /\ waddr' = [waddr EXCEPT ![w] = d.host]
             /\ wpc' = [wpc EXCEPT ![w] = "pending"]
             /\ fw' = Append(fw, w)
             /\ taskQueue' = taskQueue + 1
             /\ cur' = d
             /\ dpc' = "register"
    /\ UNCHANGED <<clientVars, ftpWriters, running, chan, wgot, disk>>

\* ftpWriters[address] = fw.back(): fw is shared with the task just
\* submitted.  On an empty vector back() reads the word before the buffer.
FwBack == IF fw = <<>> THEN Garbage ELSE Last(fw)

ListenRegister ==
    /\ dpc = "register"
    /\ ftpWriters' = [ftpWriters EXCEPT ![cur.host] = FwBack]
    /\ dpc' = "recv"
    /\ UNCHANGED <<clientVars, toServer, toClients, cur, seqNums, fw, nextW,
                   writerVars>>

\* Any other size: validate, advance the address's sequence number, answer
\* (ERROR, SENDFRAGMENTACK, SNDACK or CLOSEACK; other mtypes get no
\* answer), and on CLOSE close the writer's channel, falling through.
ErrCode(d) ==
    IF d.dsz > MaxDgramSz THEN "BUFF_UNDERSIZED"
    ELSE IF d.size < PduSize THEN "ERROR_BAD_DGRAM" ELSE "NO_ERROR"

\* Mutant: the switch without its SND case.
AnswerTypeNoSndAck(d) ==
    IF ErrCode(d) # "NO_ERROR" THEN "ERROR"
    ELSE IF IsFragment(d.mtype) THEN "SENDFRAGMENTACK"
    ELSE IF d.mtype = "CLOSE" THEN "CLOSEACK"
    ELSE Nil

AnswerType(d) ==
    IF ErrCode(d) # "NO_ERROR" THEN "ERROR"
    ELSE IF IsFragment(d.mtype) THEN "SENDFRAGMENTACK"
    ELSE IF d.mtype = "SND" THEN "SNDACK"
    ELSE IF d.mtype = "CLOSE" THEN "CLOSEACK"
    ELSE Nil

\* Mutant: the counter advanced by the datagram size, header included.
SeqStepRcvSz(d) == IF ErrCode(d) = "NO_ERROR" /\ d.dsz # 0 THEN d.size ELSE 1

SeqStep(d) == IF ErrCode(d) = "NO_ERROR" /\ d.dsz # 0 THEN d.dsz ELSE 1

ClosesChannel(d) == AnswerType(d) = "CLOSEACK"

ListenFrame ==
    /\ dpc = "recv"
    /\ \E d \in toServer :
          /\ d.size # PduSize
          /\ LET h   == d.host
                 sq  == (seqNums[h] + SeqStep(d)) % Seq32
                 ans == [dst |-> d.src, mtype |-> AnswerType(d), seq |-> sq]
             IN /\ toServer' = toServer \ {d}
                /\ seqNums' = [seqNums EXCEPT ![h] = sq]
                /\ toClients' = IF AnswerType(d) = Nil THEN toClients
                                 ELSE toClients \cup {ans}
                /\ cur' = d
                /\ \/ /\ ~ClosesChannel(d)
                      /\ dpc' = "push"
                      /\ UNCHANGED chan
                   \/ /\ ClosesChannel(d)
                      /\ ftpWriters[h] \in WriterIds
                      /\ chan' = [chan EXCEPT ![ftpWriters[h]] = Close(@)]
                      /\ dpc' = "push"
                   \/ /\ ClosesChannel(d)
                      /\ ftpWriters[h] \notin WriterIds   \* null or garbage
                      /\ dpc' = "crashed"
                      /\ UNCHANGED chan
    /\ UNCHANGED <<clientVars, ftpWriters, fw, nextW, taskQueue, running,
                   waddr, wpc, wgot, disk>>

\* ftpWriters[address]->pushToChannel(payload, rcvSz - sizeof(PDU)).
PushTarget == ftpWriters[cur.host]

PushCrashes ==
    IF PushTarget \notin WriterIds THEN TRUE  \* nullptr or garbage: segfault
    ELSE \/ cur.size < PduSize                \* negative length: length_error
         \/ SendThrows(chan[PushTarget])      \* send on closed channel throws

ListenPush ==
    /\ dpc = "push"
    /\ \/ /\ PushCrashes
          /\ dpc' = "crashed"
          /\ UNCHANGED chan
       \/ /\ ~PushCrashes
          /\ SendReady(chan[PushTarget])
          /\ chan' = [chan EXCEPT ![PushTarget] = Send(@, cur.msg)]
          /\ dpc' = "recv"
    /\ UNCHANGED <<clientVars, toServer, toClients, cur, seqNums, ftpWriters,
                   fw, nextW, taskQueue, running, waddr, wpc, wgot, disk>>

Dispatcher == ListenConnect \/ ListenRegister \/ ListenFrame \/ ListenPush

-----------------------------------------------------------------------------
(* Pool workers.  runPendingTask(): popLocal() fails (the deques stay     *)
(* empty), popPoolQueue() takes the next task.  The task is the lambda    *)
(* submitted by listen(): it pops its writer from fw, runs serverLoop(),  *)
(* deletes the writer and erases writer->address from ftpWriters.         *)

TaskStart ==
    /\ Cardinality(running) < Workers
    /\ taskQueue > 0
    /\ fw # <<>>
    /\ LET w == Last(fw) IN
       /\ fw' = Front(fw)
       /\ taskQueue' = taskQueue - 1
       /\ running' = running \cup {w}
       /\ wpc' = [wpc EXCEPT ![w] = "check"]
    /\ UNCHANGED <<clientVars, toServer, toClients, dpc, cur, seqNums,
                   ftpWriters, nextW, chan, waddr, wgot, disk>>

\* serverLoop(): while (!stream->isClosed()).
LoopCheck(w) ==
    /\ w \in running
    /\ wpc[w] = "check"
    /\ wpc' = [wpc EXCEPT ![w] = IF IsClosed(chan[w]) THEN "done" ELSE "recv"]
    /\ UNCHANGED <<clientVars, toServer, toClients, serverVars, taskQueue,
                   running, chan, waddr, wgot, disk>>

\* buff = stream->receive(); a throw on a closed, drained channel breaks.
LoopReceive(w) ==
    /\ w \in running
    /\ wpc[w] = "recv"
    /\ RecvReturns(chan[w])
    /\ \/ /\ ~RecvThrows(chan[w])
          /\ wgot' = [wgot EXCEPT ![w] = RecvValue(chan[w])]
          /\ chan' = [chan EXCEPT ![w] = Receive(@)]
          /\ wpc' = [wpc EXCEPT ![w] = "write"]
       \/ /\ RecvThrows(chan[w])
          /\ wpc' = [wpc EXCEPT ![w] = "done"]
          /\ UNCHANGED <<chan, wgot>>
    /\ UNCHANGED <<clientVars, toServer, toClients, serverVars, taskQueue,
                   running, waddr, disk>>

\* Mutant: the file always opened with std::ios::trunc.
FileAfterWriteTrunc(content, m) == <<m.data>>

\* std::ofstream outFile{pdu->fileName, std::ios::out | mode} with mode
\* trunc if status == NEW, app otherwise, then outFile << the bytes after
\* the FTP header.
FileAfterWrite(content, m) ==
    IF m.status = "NEW" THEN <<m.data>> ELSE Append(content, m.data)

LoopWrite(w) ==
    LET m == wgot[w] IN
    /\ w \in running
    /\ wpc[w] = "write"
    /\ disk' = [disk EXCEPT ![m.file] = FileAfterWrite(@, m)]
    /\ wpc' = [wpc EXCEPT ![w] = "check"]
    /\ UNCHANGED <<clientVars, toServer, toClients, serverVars, taskQueue,
                   running, chan, waddr, wgot>>

\* After serverLoop(): delete writer; ftpWriters.erase(writer->address).
TaskFinish(w) ==
    /\ w \in running
    /\ wpc[w] = "done"
    /\ ftpWriters' = [ftpWriters EXCEPT ![waddr[w]] = Nil]
    /\ wpc' = [wpc EXCEPT ![w] = "deleted"]
    /\ running' = running \ {w}
    /\ UNCHANGED <<clientVars, toServer, toClients, dpc, cur, seqNums, fw,
                   nextW, taskQueue, chan, waddr, wgot, disk>>

\* The steps of the pool thread that runs writer w's task.
WriterTask(w) ==
    /\ Alive
    /\ \/ LoopCheck(w) \/ LoopReceive(w) \/ LoopWrite(w) \/ TaskFinish(w)

Client(c) ==
    /\ Alive
    /\ ClientStep(c)
    /\ UNCHANGED <<serverVars, writerVars>>

\* The process never exits: when no datagram comes listen() blocks in
\* recvfrom(), and a writer whose channel is never closed blocks in
\* receive().  A state with no step enabled is such a resting state, so the
\* runs do not check deadlock; that a transfer never stays stuck is the
\* liveness property EveryTransferEnds.
Next ==
    \/ Dispatcher
    \/ Alive /\ TaskStart
    \/ \E w \in WriterIds : WriterTask(w)
    \/ \E c \in Clients : Client(c)

\* The main thread and the pool threads are OS threads; the clients are
\* separate processes.  Each is weakly fair.
Spec ==
    /\ Init /\ [][Next]_vars
    /\ WF_vars(Dispatcher)
    /\ WF_vars(Alive /\ TaskStart)
    /\ \A w \in WriterIds : WF_vars(WriterTask(w))
    /\ \A c \in Clients : WF_vars(Client(c))

-----------------------------------------------------------------------------
Msgs == [file : Clients, status : {"NEW", "APPEND"}, data : Clients \X Nat]

TypeOK ==
    /\ cpc \in [Clients -> {"connect", "waitCntAck", "send", "waitAck",
                            "close", "waitCloseAck", "closed",
                            "closeRejected", "failed"}]
    /\ dpc \in {"recv", "register", "push", "crashed"}
    /\ ftpWriters \in [Hosts -> WriterIds \cup {Nil, Garbage}]
    /\ fw \in Seq(WriterIds)
    /\ taskQueue \in 0..MaxWriters
    /\ running \in SUBSET WriterIds
    /\ \A w \in WriterIds : /\ chan[w].buf \in Seq(Msgs \cup {Nil})
                           /\ Len(chan[w].buf) <= ChanCap
    /\ disk \in [Clients -> Seq(Clients \X Nat)]

\* The frames client c's file should end up as, in order.
Expected(c) == [k \in 1..Len(FramesOf(c)) |-> <<c, k>>]

\* Spec 8.1/8.2: at every moment each received file holds a prefix of its
\* source, whatever the interleaving of peers, dispatcher and workers.
FileIsPrefixOfSource ==
    \A c \in Clients : IsPrefix(disk[c], Expected(c))

\* Spec 3/8.3: once a client holds the acknowledgement of its last datagram,
\* its seqNum and the receiver's counter for its address agree.
SeqAgreement ==
    \A c \in Clients :
        cpc[c] \in {"send", "close"} => cseq[c] = seqNums[HostOf[c]]

\* Spec 6: the CLOSE of a sender is answered with CLOSEACK.
CloseAnsweredWithCloseAck ==
    \A c \in Clients : cpc[c] # "closeRejected"

ServerNeverCrashes == Alive

\* Spec 8.4 / 5: the receiver never stalls: unless its process has died,
\* every client's transfer eventually ends.
EveryTransferEnds ==
    <>(~Alive \/ \A c \in Clients : ClientFinished(c))

=============================================================================
