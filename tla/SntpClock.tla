------------------------------- MODULE SntpClock -------------------------------
(***************************************************************************)
(* What SntpTime leaves out: how getCurrentSntpTime turns a reading of the *)
(* host's clock into the two words of a time stamp, in the POSIX and in    *)
(* the cFE build, and how the client turns a server's fractions back into  *)
(* milliseconds.  Both conversions round, with the same constant, which is *)
(* not an exact number of fractions.  A process keeps the time stamp it    *)
(* read last.                                                              *)
(***************************************************************************)
EXTENDS Integers

CONSTANTS
  MsPerSecond,      \* 1000
  UsPerMs,          \* 1000
  NsPerMs,          \* 1000000
  SNTP_FRACTION_VALUE_PER_MICROSECOND,    \* 4295: 2^32 / 1000000, rounded up
  FractionSize,     \* 2^32, the fractions of a second
  SecondsSize,      \* 2^32, the seconds of an era
  EpochOffset,      \* SNTP_TIME_AT_UNIX_EPOCH_SECS
  Duration          \* how long the clock goes on, in nanoseconds

FractionsPerMs == UsPerMs * SNTP_FRACTION_VALUE_PER_MICROSECOND
NsPerSecond    == MsPerSecond * NsPerMs

(* A millisecond has more fractions than it should, but by so little that  *)
(* the last one of a second still ends in it.                              *)
ASSUME ClockAssumption ==
    /\ MsPerSecond \in Nat \ {0} /\ UsPerMs \in Nat \ {0} /\ NsPerMs \in Nat \ {0}
    /\ SNTP_FRACTION_VALUE_PER_MICROSECOND \in Nat \ {0}
    /\ FractionSize \in Nat /\ SecondsSize \in Nat \ {0}
    /\ EpochOffset \in Nat /\ Duration \in Nat
    /\ FractionSize <= MsPerSecond * FractionsPerMs
    /\ (MsPerSecond - 1) * FractionsPerMs < FractionSize

VARIABLES
  build,      \* whether SNTP_USE_CFE_TIME is defined
  now,        \* the host's clock, in nanoseconds
  stamp,      \* the SntpTimestamp_t the process read last
  takenAt     \* when it did (auxiliary)

vars == << build, now, stamp, takenAt >>

Timestamp == [seconds : 0 .. SecondsSize - 1, fractions : 0 .. FractionSize - 1]

tv_sec(t)  == t \div NsPerSecond
tv_nsec(t) == t % NsPerSecond

(* currentTime.tv_nsec / 1000000                                           *)
NearestMs(ns) == (ns + NsPerMs \div 2) \div NsPerMs      \* faulty: rounded, not cut
MsOf(ns) == ns \div NsPerMs

MsAsMicroseconds(ms) == ms * SNTP_FRACTION_VALUE_PER_MICROSECOND     \* faulty: * 1000 missing
MILLISECONDS_TO_SNTP_FRACTIONS(ms) == ms * FractionsPerMs

FractionsAsMicroseconds(f) == f \div SNTP_FRACTION_VALUE_PER_MICROSECOND     \* faulty
FRACTIONS_TO_MS(f) == f \div FractionsPerMs

(* CFE_TIME_GetUTC: its subseconds are parts of FractionSize.              *)
Subseconds(t) == (tv_nsec(t) * FractionSize) \div NsPerSecond

getCurrentSntpTime(t) ==
    [seconds   |-> (tv_sec(t) + EpochOffset) % SecondsSize,
     fractions |-> IF build = "cfe" THEN Subseconds(t)
                   ELSE MILLISECONDS_TO_SNTP_FRACTIONS(MsOf(tv_nsec(t))) % FractionSize]

Init == /\ build \in {"posix", "cfe"}
        /\ now \in 0 .. Duration
        /\ stamp = getCurrentSntpTime(now)
        /\ takenAt = now

Read == /\ stamp' = getCurrentSntpTime(now)
        /\ takenAt' = now
        /\ UNCHANGED << build, now >>

Tick == /\ now < Duration
        /\ now' = now + 1
        /\ UNCHANGED << build, stamp, takenAt >>

Next == Read \/ Tick

Spec == Init /\ [][Next]_vars

-------------------------------------------------------------------------------
(* Every variable keeps to its values; a stamp fits its two fields.        *)
TypeOK == /\ build \in {"posix", "cfe"}
          /\ now \in 0 .. Duration
          /\ stamp \in Timestamp
          /\ takenAt \in 0 .. now

(* A time stamp, both words of it, is less than a millisecond behind the   *)
(* clock it was read from, and ahead of it by no more than the fractions   *)
(* that MsPerSecond milliseconds have too many; a reader has to know the   *)
(* era.  Compared in units of a nanosecond's share of a fraction.          *)
Era(t) == (tv_sec(t) + EpochOffset) \div SecondsSize
Excess == MsPerSecond * FractionsPerMs - FractionSize
UnixSeconds == Era(takenAt) * SecondsSize + stamp.seconds - EpochOffset
ReadingIsAccurate ==
    LET ahead == (UnixSeconds * FractionSize + stamp.fractions) * NsPerSecond
                 - takenAt * FractionSize
    IN  /\ -ahead < NsPerMs * FractionSize
        /\ ahead <= NsPerSecond * Excess

(* The milliseconds the client shows of a server's time stamp are those of *)
(* the server's clock.  The two roundings cancel, but only when the server *)
(* uses them too: subseconds of the cFE can show as a millisecond less.    *)
ShownIsExact ==
    LET shown == FRACTIONS_TO_MS(stamp.fractions)
        ms    == tv_nsec(takenAt) \div NsPerMs
    IN  IF build = "posix" THEN shown = ms ELSE shown \in {ms - 1, ms}

(* Time stamps do not go back: unless the era has changed, one read later  *)
(* is not before one read earlier, second boundaries included.             *)
LaterIsNotBefore ==
    [][Era(takenAt') = Era(takenAt) =>
          \/ stamp'.seconds > stamp.seconds
          \/ stamp'.seconds = stamp.seconds /\ stamp'.fractions >= stamp.fractions]_vars
===============================================================================
