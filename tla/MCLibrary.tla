------------------------------ MODULE MCLibrary -------------------------------
(***************************************************************************)
(* Library and CRC16 in one run; the lengths that the run uses.            *)
(***************************************************************************)
EXTENDS Library

\* Records that fit, that are too long by one and that take more than two
\* pieces to discard.
Records1 == <<2, 3, 1, 5, 2>>

\* A line that just fits the buffer, a lone newline and a line that is too long.
Lines1 == <<4, 1, 3, 4, 2, 6, 1>>

\* Lines shorter than the buffer, as long and longer.
Lines2 == <<2, 3, 1, 4, 5>>

VARIABLES crc_hi, crc_lo, frame
crcVars == <<crc_hi, crc_lo, frame>>

Crc == INSTANCE Crc16 WITH MaxLen <- 3, Later <- {0, 128, 255}

AllInit == (LibraryInit \/ (which = "crc" /\ Standing)) /\ Crc!Init

AllNext ==
    \/ LibraryNext /\ UNCHANGED crcVars
    \/ which = "crc" /\ Crc!Next /\ UNCHANGED allVars

AllSpec == AllInit /\ [][AllNext]_<<allVars, crcVars>> /\ Fairness

\* CRC16: the tables and the order of the halves compute the remainder of the
\* division by the polynomial, and over a frame followed by its check value, low
\* byte first, the result is 0.
IsRemainder == Crc!TypeOK /\ Crc!IsRemainder /\ Crc!ReceiverGetsZero
===============================================================================
