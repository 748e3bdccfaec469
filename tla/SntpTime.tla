------------------------------- MODULE SntpTime -------------------------------
(***************************************************************************)
(* Time stamps on the two sides of the wire: sntp_utils.c, sntp_utils.h.   *)
(*                                                                         *)
(* A time stamp of the code is two 32-bit words, seconds and fractions,    *)
(* which every function treats alike and in the same order.  One word      *)
(* stands for both here, and a word has two bytes of ByteSize values       *)
(* instead of four of 256: enough for the byte order to matter and for     *)
(* the era to wrap.  The host is little-endian, so the byte that htonl     *)
(* sends first is the most significant one.                                *)
(***************************************************************************)
EXTENDS Integers

CONSTANTS ByteSize,     \* values of a byte
          EpochOffset   \* SNTP_TIME_AT_UNIX_EPOCH_SECS

ASSUME TimeAssumption == /\ ByteSize \in Nat \ {0}
                         /\ EpochOffset \in Nat

Byte     == 0 .. ByteSize - 1
WordSize == ByteSize * ByteSize
Word     == 0 .. WordSize - 1
NetWord  == Byte \X Byte     \* a word as its bytes follow each other in a packet

Htonl(n) == << n \div ByteSize, n % ByteSize >>
Ntohl(w) == w[1] * ByteSize + w[2]

(* The field of a packet that encodeTime fills from a time stamp, and the  *)
(* time stamp that Sntp_DeserializeRequest reads from the packet.          *)
EncodeTime(time) == Htonl(time)

HostOrderRequest(buf) == buf[2] * ByteSize + buf[1]     \* faulty: without ntohl
DeserializeRequest(buf) == Ntohl(buf)

(* getCurrentSntpTime: the reading of a clock that counts from the Unix    *)
(* epoch, moved to the NTP epoch in unsigned arithmetic.                   *)
UnixTimeOf(unix) == unix % WordSize                     \* faulty: without the offset
WideTimeOf(unix) == unix + EpochOffset                  \* faulty: wider than the field
SntpTimeOf(unix) == (unix + EpochOffset) % WordSize
===============================================================================
