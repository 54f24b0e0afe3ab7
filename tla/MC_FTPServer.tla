--------------------------- MODULE MC_FTPServer ---------------------------
EXTENDS FTPServer, TLC

CONSTANTS c1, c2, h1, h2

\* Two senders on two machines: a 450-byte file (two frames: a 400-byte
\* SENDFRAGMENT, then a 50-byte SND) and a 100-byte file (one SND).
MCClients   == {c1, c2}
MCHosts     == {h1, h2}
MCHostOf    == (c1 :> h1) @@ (c2 :> h2)
MCFileSize  == (c1 :> 450) @@ (c2 :> 100)

\* Both senders on one machine (the README's "3 different terminals").
MCSharedHostOf == (c1 :> h1) @@ (c2 :> h1)

\* One sender only.
MCOneClient   == {c1}
MCOneHostOf   == c1 :> h1
MCOneFileSize == c1 :> 600

\* Worker exhaustion: the second sender's file takes two frames.
MCStallFileSize == (c1 :> 100) @@ (c2 :> 450)

MCNoStrays == {}

\* Spec 8, scenario 5: a 4-byte datagram, and no sender at all.
MCNoClients   == {}
MCNoHostOf    == [c \in MCNoClients |-> h1]
MCNoFileSize  == [c \in MCNoClients |-> 0]
MCShortDgram  == {[src |-> h2, host |-> h2, size |-> 4, mtype |-> "INI",
                   seq |-> 0, dsz |-> 0, msg |-> Nil]}
\* Datagrams no client of this model sends, next to one sender on h1: a
\* CLOSE from h1 whose payload reads as an APPEND frame of c1's file, a
\* too-short one, an unknown mtype with a payload, and one whose dgram_sz
\* exceeds MAX_DGRAM_SZ, from h2.
MCStrays ==
    {[src |-> h1, host |-> h1, size |-> 142, mtype |-> "CLOSE",
      seq |-> 0, dsz |-> 122,
      msg |-> [file |-> c1, status |-> "APPEND", data |-> <<c1, 9>>]],
     [src |-> h2, host |-> h2, size |-> 4, mtype |-> "INI",
      seq |-> 0, dsz |-> 0, msg |-> Nil],
     [src |-> h2, host |-> h2, size |-> 142, mtype |-> "ACK",
      seq |-> 0, dsz |-> 122, msg |-> Nil],
     [src |-> h2, host |-> h2, size |-> 142, mtype |-> "SND",
      seq |-> 0, dsz |-> 600, msg |-> Nil]}
=============================================================================
