-------------------------- MODULE MC_ConnectionLink --------------------------
EXTENDS ConnectionLink

CONSTANTS s1

\* One byte; exactly MAX_BUFF_SZ (one SND); one more (SENDFRAGMENT + SND);
\* two full frames; and more than the receiver's 1000-byte buffer.
MCMsgSizes == {1, 512, 513, 1024, 1100}

\* No datagram from other hosts.
MCNoStrays == {}

\* A 4-byte datagram from another host (spec 8, scenario 5); the bytes
\* recv() leaves in _buffer are zero, so its mtype reads as 0.
MCShortStray == {[src |-> s1, size |-> 4, mtype |-> "INI", seq |-> 0,
                  dsz |-> 0, msg |-> Nil, off |-> 0]}
====
