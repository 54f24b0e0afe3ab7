------------------------------- MODULE Sender -------------------------------
(***************************************************************************)
(* The sending side: FTPClient::start() (src/unnamed/part_001) driving    *)
(* Connection::connect/sendDgram/disconnect (workstealqueue.h, which      *)
(* holds connection.h).  Each client sends one file, lock-step: one       *)
(* datagram in flight, then a blocking recvRaw() for the answer.          *)
(*                                                                         *)
(* Data abstraction: a datagram is a record; its payload is the FTP       *)
(* header (file name, status) and the file segment it carries, named by   *)
(* <<file, frame index>>.  Byte counts are kept where the protocol        *)
(* computes with them: datagram sizes, dgram_sz and sequence numbers.     *)
(***************************************************************************)
EXTENDS Naturals, Sequences

CONSTANTS
    Clients,    \* sender processes; each sends the file named after itself
    FileSize    \* FileSize[c]: bytes in client c's file

PduSize     == 20     \* sizeof(PDU): five 4-byte ints
FtpPduSize  == 112    \* sizeof(FTP_PDU): char[100] + three 4-byte ints
MaxBuffSz   == 512    \* Connection::MAX_BUFF_SZ
ReadSz      == 500    \* fread(sBuff + pduSize, 1, 500, f)

\* MsgType values used on the wire, as names.
MsgTypes == {"INI", "ACK", "SND", "CONNECT", "CLOSE", "SNDACK", "CNTACK",
             "CLOSEACK", "SENDFRAGMENT", "SENDFRAGMENTACK", "ERROR"}
IsFragment(mt) == mt \in {"SENDFRAGMENT", "SENDFRAGMENTACK"}

Lesser(a, b) == IF a < b THEN a ELSE b

(***************************************************************************)
(* FTPClient::start(): the frames one fread() of `rem` bytes at file      *)
(* offset `off` turns into.  Every frame carries the FTP header; sendDgram *)
(* caps dgram_sz at MAX_BUFF_SZ and marks a capped frame SENDFRAGMENT; it *)
(* returns dgram_sz, so the header bytes are subtracted again.  While     *)
(* bytes remain after a frame the status becomes APPEND, and it is never  *)
(* set back to NEW.                                                        *)
(***************************************************************************)
\* Mutant: sendDgram without the MAX_BUFF_SZ cap.
RECURSIVE ReadFramesUncapped(_, _, _)
ReadFramesUncapped(rem, off, st) ==
    IF rem = 0 THEN <<>>
    ELSE LET len == rem IN
         << [mtype |-> "SND", dsz |-> rem + FtpPduSize, off |-> off,
             len |-> len, status |-> st] >>
         \o ReadFramesUncapped(rem - len, off + len, st)

\* Mutant: dataPtr advanced by the whole frame, FTP header included.
RECURSIVE ReadFramesAdvanceDsz(_, _, _)
ReadFramesAdvanceDsz(rem, off, st) ==
    IF rem = 0 THEN <<>>
    ELSE LET sendSize == rem + FtpPduSize
             dsz      == Lesser(sendSize, MaxBuffSz)
             len      == dsz - FtpPduSize
             next     == IF rem - len > 0 THEN "APPEND" ELSE st
         IN  << [mtype  |-> IF sendSize > MaxBuffSz THEN "SENDFRAGMENT" ELSE "SND",
                 dsz    |-> dsz, off |-> off, len |-> len, status |-> st] >>
             \o ReadFramesAdvanceDsz(rem - len, off + dsz, next)

RECURSIVE ReadFrames(_, _, _)
ReadFrames(rem, off, st) ==
    IF rem = 0 THEN <<>>
    ELSE LET sendSize == rem + FtpPduSize
             dsz      == Lesser(sendSize, MaxBuffSz)
             len      == dsz - FtpPduSize
             next     == IF rem - len > 0 THEN "APPEND" ELSE st
         IN  << [mtype  |-> IF sendSize > MaxBuffSz THEN "SENDFRAGMENT" ELSE "SND",
                 dsz    |-> dsz,
                 off    |-> off,
                 len    |-> len,
                 status |-> st] >>
             \o ReadFrames(rem - len, off + len, next)

\* Mutant: pdu.status = NEW set again for every fread().
RECURSIVE FileFramesResetStatus(_, _, _)
FileFramesResetStatus(size, off, st) ==
    IF off >= size THEN <<>>
    ELSE LET r == Lesser(ReadSz, size - off) IN
         ReadFrames(r, off, "NEW") \o FileFramesResetStatus(size, off + r, "NEW")

\* The outer loop: fread() 500 bytes at a time until end of file.
RECURSIVE FileFrames(_, _, _)
FileFrames(size, off, st) ==
    IF off >= size THEN <<>>
    ELSE LET r  == Lesser(ReadSz, size - off)
             fr == ReadFrames(r, off, st)
         IN  fr \o FileFrames(size, off + r,
                              IF Len(fr) > 1 THEN "APPEND" ELSE st)

Frames(size) == FileFrames(size, 0, "NEW")

=============================================================================
