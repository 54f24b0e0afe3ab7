CONSTANTS
    ChanCap = 3
    NumMsgs = 6
    Sizes = {0, 3}
SPECIFICATION Spec
INVARIANT TypeOK
PROPERTY ChannelRefined
PROPERTY WriterEventuallyExits
PROPERTY EverySendReturns
\* The run ends when serverLoop has returned after the close.
CHECK_DEADLOCK FALSE
