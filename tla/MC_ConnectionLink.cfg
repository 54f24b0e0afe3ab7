CONSTANTS
    Peer = Peer
    Nil = Nil
    s1 = s1
    MsgSizes <- MCMsgSizes
    NumMsgs = 3
    Cap = 1000
    Strays <- MCNoStrays
    Seq32 = 1073741824
    SizeT = 65536
    MaxLoss = 1
SPECIFICATION Spec
INVARIANT TypeOK
INVARIANT RecvReturnsSentPayload
INVARIANT SeqAgreement
PROPERTY TransferCompletes
\* Both applications return: the sender after disconnect(), the receiver
\* when recv() returns CONNECTION_CLOSED.  That end state is not a deadlock.
CHECK_DEADLOCK FALSE
