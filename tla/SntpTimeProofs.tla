---------------------------- MODULE SntpTimeProofs ----------------------------
(***************************************************************************)
(* What SntpTime's conversions return, for every byte size and every       *)
(* offset between the epochs, and the modular arithmetic of the counters.  *)
(***************************************************************************)
EXTENDS SntpTime, TLAPS

LEMMA ByteBounds ==
  ASSUME NEW a \in Byte, NEW b \in Byte
  PROVE  /\ a * ByteSize + b \in Word
         /\ (a * ByteSize + b) \div ByteSize = a
         /\ (a * ByteSize + b) % ByteSize = b
  BY TimeAssumption DEF Byte, Word, WordSize

LEMMA WordBounds ==
  ASSUME NEW n \in Word
  PROVE  /\ n \div ByteSize \in Byte
         /\ n % ByteSize \in Byte
         /\ (n \div ByteSize) * ByteSize + (n % ByteSize) = n
  BY TimeAssumption DEF Byte, Word, WordSize

LEMMA HtonlType == ASSUME NEW n \in Word PROVE Htonl(n) \in NetWord
  BY WordBounds DEF Htonl, NetWord

LEMMA NtohlType == ASSUME NEW w \in NetWord PROVE Ntohl(w) \in Word
  BY ByteBounds DEF Ntohl, NetWord

LEMMA SntpTimeType == ASSUME NEW unix \in Nat PROVE SntpTimeOf(unix) \in Word
  BY TimeAssumption DEF SntpTimeOf, Word, WordSize

LEMMA ZeroWord == 0 \in Word
  BY TimeAssumption DEF Word, WordSize

(* ntohl undoes htonl: what encodeTime writes into a packet is read back   *)
(* as the same word (sntp_utils.h, Sntp_DeserializeRequest).               *)
LEMMA NtohlHtonl == \A n \in Word : Ntohl(Htonl(n)) = n
<1> SUFFICES ASSUME NEW n \in Word PROVE (n \div ByteSize) * ByteSize + (n % ByteSize) = n
  BY DEF Ntohl, Htonl
<1>1. QED BY WordBounds

(* The transmit time stamp of a request comes back bit for bit as the      *)
(* origin time stamp of its answer, although process_sntp_request converts *)
(* it to the host's order and back.                                        *)
THEOREM EchoIsExact == \A w \in NetWord : EncodeTime(DeserializeRequest(w)) = w
<1> SUFFICES ASSUME NEW w \in NetWord PROVE Htonl(Ntohl(w)) = w
  BY DEF EncodeTime, DeserializeRequest
<1>1. w[1] \in Byte /\ w[2] \in Byte /\ w = << w[1], w[2] >>
  BY DEF NetWord
<1>2. QED BY <1>1, ByteBounds DEF Htonl, Ntohl

-------------------------------------------------------------------------------
LEMMA ModUnique ==
  ASSUME NEW q \in Nat, NEW r \in Nat, NEW N \in Nat \ {0}, r < N
  PROVE  (q * N + r) % N = r
  OBVIOUS

(* Incrementing a counter of width N counts modulo N.                      *)
LEMMA ModSucc ==
  ASSUME NEW x \in Nat, NEW N \in Nat \ {0}
  PROVE  ((x % N) + 1) % N = (x + 1) % N
<1> DEFINE q == x \div N
           r == x % N
<1>1. q \in Nat /\ r \in Nat /\ r < N /\ x = q * N + r
  OBVIOUS
<1> HIDE DEF q, r
<1>2. CASE r + 1 < N
  <2>1. (q * N + (r + 1)) % N = r + 1 /\ (0 * N + (r + 1)) % N = r + 1
    BY <1>1, <1>2, ModUnique
  <2>2. 0 * N + (r + 1) = r + 1 /\ q * N + (r + 1) = x + 1
    BY <1>1
  <2>3. (r + 1) % N = (x + 1) % N
    BY <2>1, <2>2
  <2>4. QED BY <2>3 DEF r
<1>3. CASE r + 1 = N
  <2>1. ((q + 1) * N + 0) % N = 0 /\ (1 * N + 0) % N = 0
    BY <1>1, ModUnique
  <2>2. 1 * N + 0 = r + 1 /\ (q + 1) * N + 0 = x + 1
    BY <1>1, <1>3
  <2>3. (r + 1) % N = (x + 1) % N
    BY <2>1, <2>2
  <2>4. QED BY <2>3 DEF r
<1>4. QED BY <1>1, <1>2, <1>3

LEMMA ModRange == ASSUME NEW x \in Nat, NEW N \in Nat \ {0} PROVE x % N \in 0 .. N - 1
  OBVIOUS
===============================================================================
