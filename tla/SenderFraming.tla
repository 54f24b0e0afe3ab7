--------------------------- MODULE SenderFraming ---------------------------
(***************************************************************************)
(* Checks the pure framing of FTPClient::start() (Sender!Frames) for every *)
(* file size in a range, one size per initial state.                       *)
(***************************************************************************)
EXTENDS Sender

CONSTANT MaxFileSize

VARIABLE size
vars == <<size>>

Init == size \in 0..MaxFileSize
Next == UNCHANGED size
Spec == Init /\ [][Next]_vars

\* Every frame is a data frame whose dgram_sz fits MAX_BUFF_SZ.
TypeOK ==
    /\ size \in 0..MaxFileSize
    /\ Frames(size) \in Seq([mtype : {"SND", "SENDFRAGMENT"},
                             dsz : 1..MaxBuffSz, off : Nat, len : Nat,
                             status : {"NEW", "APPEND"}])

\* The receiver rebuilds the file by writing each frame's data at the end of
\* what it has: the frames' segments must tile the file exactly, in order,
\* each frame carrying its data after the FTP header.
FramesTileFile ==
    LET fr == Frames(size) IN
    /\ \A i \in 1..Len(fr) :
          /\ fr[i].off = IF i = 1 THEN 0 ELSE fr[i-1].off + fr[i-1].len
          /\ fr[i].len > 0
          /\ fr[i].dsz = fr[i].len + FtpPduSize
    /\ size = IF fr = <<>> THEN 0 ELSE fr[Len(fr)].off + fr[Len(fr)].len

\* serverLoop() truncates on NEW and appends otherwise: only the first frame
\* of a file may say NEW, or a later frame wipes what was written before.
OnlyFirstFrameTruncates ==
    LET fr == Frames(size) IN
    \A i \in 1..Len(fr) : (fr[i].status = "NEW") <=> (i = 1)

=============================================================================
