------------------------- MODULE MC_SenderFraming -------------------------
EXTENDS SenderFraming

\* Framing does not depend on the clients: none are needed.
MCClients  == {}
MCFileSize == [c \in MCClients |-> 0]
=============================================================================
