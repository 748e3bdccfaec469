---------------------------- MODULE SntpClockProofs ----------------------------
(***************************************************************************)
(* Theorems about SntpClock, for every resolution of clock and fractions   *)
(* that ClockAssumption allows, the ones of the code among them.           *)
(***************************************************************************)
EXTENDS SntpClock, TLAPS

(* Facts of arithmetic: products grow with their factors, and a quotient   *)
(* is the one number whose multiple is just below.                         *)

LEMMA Mul ==
  ASSUME NEW a \in Int, NEW b \in Int, NEW c \in Nat, a <= b
  PROVE  a * c <= b * c /\ a * c \in Int /\ b * c \in Int
  OBVIOUS

LEMMA MulStrict ==
  ASSUME NEW a \in Int, NEW b \in Int, NEW c \in Nat \ {0}, a < b
  PROVE  a * c < b * c /\ a * c \in Int /\ b * c \in Int
  OBVIOUS

LEMMA DivMod ==
  ASSUME NEW x \in Nat, NEW d \in Nat \ {0}
  PROVE  /\ x \div d \in Nat /\ x % d \in Nat /\ x % d < d
         /\ x = (x \div d) * d + (x % d)
  OBVIOUS

LEMMA DivBounds ==
  ASSUME NEW x \in Nat, NEW d \in Nat \ {0}
  PROVE  /\ x \div d \in Nat
         /\ (x \div d) * d <= x
         /\ x < (x \div d) * d + d
  BY DivMod

(* A quotient below q is below q as soon as the number is below q times    *)
(* the divisor, and not below q otherwise.                                 *)
LEMMA DivBelow ==
  ASSUME NEW x \in Nat, NEW d \in Nat \ {0}, NEW q \in Int
  PROVE  x < q * d <=> x \div d < q
<1> DEFINE r == x \div d
<1>1. r \in Nat /\ r * d <= x /\ x < r * d + d
  BY DivBounds
<1> HIDE DEF r
<1>2. ASSUME x < q * d, ~(r < q) PROVE FALSE
  <2>1. q * d <= r * d /\ q * d \in Int /\ r * d \in Int
    BY <1>1, <1>2, Mul
  <2>2. QED BY <1>1, <1>2, <2>1
<1>3. ASSUME r < q PROVE x < q * d
  <2>1. (r + 1) * d <= q * d /\ (r + 1) * d \in Int /\ q * d \in Int
    BY <1>1, <1>3, Mul
  <2>2. (r + 1) * d = r * d + d
    BY <1>1
  <2>3. QED BY <1>1, <2>1, <2>2
<1>4. QED BY <1>1, <1>2, <1>3 DEF r

LEMMA DivMono ==
  ASSUME NEW x \in Nat, NEW y \in Nat, NEW d \in Nat \ {0}, x <= y
  PROVE  x \div d <= y \div d
<1>1. x \div d \in Nat /\ y \div d \in Nat
  BY DivBounds
<1>2. y < (y \div d + 1) * d
  BY <1>1, DivBelow
<1>3. (y \div d + 1) * d \in Int
  BY <1>1
<1>4. x < (y \div d + 1) * d
  BY <1>2, <1>3
<1>5. x \div d < y \div d + 1
  BY <1>1, <1>4, DivBelow
<1>6. QED BY <1>1, <1>5

LEMMA DivExact == ASSUME NEW q \in Nat, NEW d \in Nat \ {0} PROVE (q * d) \div d = q
<1>1. q * d \in Nat /\ q * d < (q + 1) * d
  OBVIOUS
<1>2. (q * d) \div d \in Nat /\ (q * d) \div d < q + 1 /\ ~((q * d) \div d < q)
  BY <1>1, DivBounds, DivBelow
<1>3. QED BY <1>2

-------------------------------------------------------------------------------
(* The two words of a time stamp.                                          *)

M == MsPerSecond
N == NsPerMs
F == FractionsPerMs
S == FractionSize

LEMMA Sizes ==
  /\ M \in Nat \ {0} /\ N \in Nat \ {0} /\ F \in Nat \ {0} /\ S \in Nat \ {0}
  /\ NsPerSecond = M * N /\ M * N \in Nat \ {0}
  /\ S <= M * F /\ (M - 1) * F < S /\ M <= S
<1>1. /\ M \in Nat \ {0} /\ N \in Nat \ {0} /\ F \in Nat \ {0} /\ S \in Nat
      /\ S <= M * F /\ (M - 1) * F < S
  BY ClockAssumption DEF M, N, F, S, FractionsPerMs
<1>2. NsPerSecond = M * N /\ M * N \in Nat \ {0}
  BY <1>1 DEF NsPerSecond, M, N
<1>3. M - 1 \in Nat /\ 1 * (M - 1) <= F * (M - 1)
  BY <1>1, Mul
<1>4. M - 1 < S
  BY <1>1, <1>3
<1>5. QED BY <1>1, <1>2, <1>4

(* A time of day, its milliseconds and what is left of a millisecond.      *)
LEMMA Split ==
  ASSUME NEW t \in Nat
  PROVE  /\ tv_sec(t) \in Nat
         /\ tv_nsec(t) \in Nat /\ tv_nsec(t) < M * N
         /\ MsOf(tv_nsec(t)) \in Nat /\ MsOf(tv_nsec(t)) < M
         /\ MsOf(tv_nsec(t)) * N <= tv_nsec(t)
         /\ tv_nsec(t) < MsOf(tv_nsec(t)) * N + N
<1>1. /\ tv_sec(t) \in Nat /\ tv_nsec(t) \in Nat /\ tv_nsec(t) < M * N
  BY Sizes, DivMod DEF tv_sec, tv_nsec
<1>2. tv_nsec(t) \div N < M
  BY <1>1, Sizes, DivBelow
<1>3. QED BY <1>1, <1>2, Sizes, DivBounds DEF MsOf, N

Posix(ns) == MILLISECONDS_TO_SNTP_FRACTIONS(MsOf(ns)) % FractionSize
Cfe(ns)   == (ns * FractionSize) \div NsPerSecond

LEMMA PosixFractions ==
  ASSUME NEW ns \in Nat, MsOf(ns) \in Nat, MsOf(ns) < M
  PROVE  /\ Posix(ns) = MsOf(ns) * F
         /\ Posix(ns) \in Nat /\ Posix(ns) < S
<1> DEFINE ms == MsOf(ns)
<1>1. M - 1 \in Int /\ ms <= M - 1
  BY Sizes
<1>2. ms * F <= (M - 1) * F /\ (M - 1) * F \in Int
  BY <1>1, Sizes, Mul
<1>3. ms * F \in Nat /\ ms * F < S
  BY <1>2, Sizes
<1>4. (ms * F) % S = ms * F
  BY <1>3, Sizes
<1>5. QED BY <1>3, <1>4 DEF Posix, MILLISECONDS_TO_SNTP_FRACTIONS, F, S

LEMMA CfeFractions ==
  ASSUME NEW ns \in Nat, ns < M * N
  PROVE  /\ Cfe(ns) \in Nat /\ Cfe(ns) < S
         /\ Cfe(ns) * (M * N) <= ns * S
         /\ ns * S < Cfe(ns) * (M * N) + M * N
<1>1. ns * S \in Nat /\ ns * S < (M * N) * S
  BY Sizes, MulStrict
<1>2. (M * N) * S = S * (M * N)
  BY Sizes
<1>3. (ns * S) \div (M * N) < S
  BY <1>1, <1>2, Sizes, DivBelow
<1>4. Cfe(ns) = (ns * S) \div (M * N)
  BY Sizes DEF Cfe, S
<1>5. QED BY <1>1, <1>3, <1>4, Sizes, DivBounds

LEMMA Reading ==
  getCurrentSntpTime(takenAt) =
      [seconds   |-> (tv_sec(takenAt) + EpochOffset) % SecondsSize,
       fractions |-> IF build = "cfe" THEN Cfe(tv_nsec(takenAt)) ELSE Posix(tv_nsec(takenAt))]
  BY DEF getCurrentSntpTime, Subseconds, Cfe, Posix

-------------------------------------------------------------------------------
(* The stamp is the reading of the clock at takenAt: that is inductive,    *)
(* and says all there is to know about it.                                 *)
StampInv == /\ build \in {"posix", "cfe"}
            /\ now \in 0 .. Duration
            /\ takenAt \in 0 .. now
            /\ stamp = getCurrentSntpTime(takenAt)

LEMMA StampInit == Init => StampInv
  BY ClockAssumption DEF Init, StampInv

LEMMA StampNext == StampInv /\ [Next]_vars => StampInv'
<1> SUFFICES ASSUME StampInv, [Next]_vars PROVE StampInv'
  OBVIOUS
<1>1. \A t : build' = build => getCurrentSntpTime(t)' = getCurrentSntpTime(t)
  BY DEF getCurrentSntpTime
<1>2. CASE Read
  BY <1>2, ClockAssumption DEF Read, StampInv, getCurrentSntpTime
<1>3. CASE Tick
  BY <1>3, ClockAssumption DEF Tick, StampInv, getCurrentSntpTime
<1>4. CASE UNCHANGED vars
  BY <1>4 DEF vars, StampInv, getCurrentSntpTime
<1>5. QED BY <1>2, <1>3, <1>4 DEF Next

LEMMA StampIsReading ==
  ASSUME StampInv
  PROVE  /\ takenAt \in Nat
         /\ stamp.seconds = (tv_sec(takenAt) + EpochOffset) % SecondsSize
         /\ stamp.fractions = IF build = "cfe" THEN Cfe(tv_nsec(takenAt))
                                              ELSE Posix(tv_nsec(takenAt))
         /\ stamp = [seconds |-> stamp.seconds, fractions |-> stamp.fractions]
  BY ClockAssumption, Reading DEF StampInv

LEMMA TypeOfStamp == StampInv => TypeOK
<1> SUFFICES ASSUME StampInv PROVE TypeOK
  OBVIOUS
<1>1. stamp.seconds \in 0 .. SecondsSize - 1
  BY StampIsReading, Split, ClockAssumption, DivMod
<1>2. stamp.fractions \in 0 .. FractionSize - 1
  BY StampIsReading, Split, PosixFractions, CfeFractions, Sizes DEF S
<1>3. QED BY <1>1, <1>2, StampIsReading DEF StampInv, TypeOK, Timestamp

(* Both words of a time stamp fit their fields, in both builds.            *)
THEOREM TypeCorrect == Spec => []TypeOK
  BY StampInit, StampNext, TypeOfStamp, PTL DEF Spec

-------------------------------------------------------------------------------
LEMMA PosixAccurate ==
  ASSUME NEW ns \in Nat, NEW ms \in Nat, ms < M, ms * N <= ns, ns < ms * N + N
  PROVE  /\ ns * S - (ms * F) * (M * N) < N * S
         /\ (ms * F) * (M * N) - ns * S <= (M * N) * (M * F - S)
<1> DEFINE r == ns - ms * N
           E == M * F - S
           k == ms * N
<1>1. r \in Nat /\ r < N /\ k \in Nat /\ ns = k + r /\ E \in Nat
  BY Sizes
<1>2. r * S < N * S /\ r * S \in Nat /\ N * S \in Int
  BY <1>1, Sizes, MulStrict
<1>3. k * E <= (M * N) * E /\ k * E \in Nat /\ (M * N) * E \in Int
  <2>1. k <= M * N
    BY Sizes, Mul
  <2>2. QED BY <1>1, <2>1, Sizes, Mul
<1>4. (ms * F) * (M * N) = k * (M * F)
  BY Sizes
<1>5. k * (M * F) = k * E + k * S
  BY <1>1, Sizes
<1>6. ns * S = k * S + r * S
  BY <1>1, Sizes
<1>7. k * S \in Int
  BY <1>1, Sizes
<1> HIDE DEF r, E, k
<1>8. /\ ns * S - (ms * F) * (M * N) = r * S - k * E
      /\ (ms * F) * (M * N) - ns * S = k * E - r * S
  BY <1>2, <1>3, <1>4, <1>5, <1>6, <1>7
<1>9. QED BY <1>2, <1>3, <1>8 DEF E

LEMMA CfeAccurate ==
  ASSUME NEW ns \in Nat, ns < M * N
  PROVE  /\ ns * S - Cfe(ns) * (M * N) < N * S
         /\ Cfe(ns) * (M * N) - ns * S <= (M * N) * (M * F - S)
<1>1. /\ Cfe(ns) * (M * N) <= ns * S /\ ns * S < Cfe(ns) * (M * N) + M * N
      /\ Cfe(ns) * (M * N) \in Int /\ ns * S \in Int
  BY CfeFractions, Sizes
<1>2. M * N <= S * N /\ S * N = N * S /\ N * S \in Int
  BY Sizes, Mul
<1>3. M * F - S \in Nat
  BY Sizes
<1>4. (M * N) * (M * F - S) \in Nat
  BY <1>3, Sizes
<1>5. QED BY <1>1, <1>2, <1>4, Sizes

(* The seconds of a stamp, read in their era, are those of the clock; what *)
(* is left to compare are the parts of a second.                           *)
LEMMA SecondsExact == StampInv => UnixSeconds = tv_sec(takenAt)
<1> SUFFICES ASSUME StampInv PROVE UnixSeconds = tv_sec(takenAt)
  OBVIOUS
<1> DEFINE x == tv_sec(takenAt) + EpochOffset
<1>1. x \in Nat /\ tv_sec(takenAt) \in Nat /\ EpochOffset \in Nat /\ SecondsSize \in Nat \ {0}
  BY StampIsReading, Split, ClockAssumption
<1>2. x = (x \div SecondsSize) * SecondsSize + (x % SecondsSize)
  <2> HIDE DEF x
  <2>1. QED BY <1>1, DivMod
<1>3. UnixSeconds = (x \div SecondsSize) * SecondsSize + (x % SecondsSize) - EpochOffset
  BY StampIsReading DEF UnixSeconds, Era
<1>4. (x \div SecondsSize) * SecondsSize \in Int /\ x % SecondsSize \in Int
  BY <1>1
<1>5. UnixSeconds = x - EpochOffset
  <2> HIDE DEF x
  <2>1. QED BY <1>1, <1>2, <1>3, <1>4
<1>6. QED BY <1>1, <1>5

LEMMA SecondsCancel ==
  ASSUME NEW s \in Nat, NEW ns \in Nat, NEW f \in Nat
  PROVE  (s * S + f) * (M * N) - (s * (M * N) + ns) * S = f * (M * N) - ns * S
<1>1. /\ (s * S + f) * (M * N) = s * S * (M * N) + f * (M * N)
      /\ (s * (M * N) + ns) * S = s * S * (M * N) + ns * S
  BY Sizes
<1>2. s * S * (M * N) \in Int /\ f * (M * N) \in Int /\ ns * S \in Int
  BY Sizes
<1>3. QED BY <1>1, <1>2

LEMMA StampAccurate == StampInv => ReadingIsAccurate
<1> SUFFICES ASSUME StampInv PROVE ReadingIsAccurate
  OBVIOUS
<1> DEFINE ns == tv_nsec(takenAt)
           f == stamp.fractions
<1>1. ns \in Nat /\ f \in Nat
  BY StampIsReading, Split, PosixFractions, CfeFractions
<1>2. /\ ns * S - f * (M * N) < N * S
      /\ f * (M * N) - ns * S <= (M * N) * (M * F - S)
  <2>1. CASE build = "cfe"
    <3>1. f = Cfe(ns) /\ ns < M * N
      BY <2>1, StampIsReading, Split
    <3>2. QED BY <1>1, <3>1, CfeAccurate
  <2>2. CASE build # "cfe"
    <3> DEFINE ms == MsOf(ns)
    <3>1. f = Posix(ns) /\ ms \in Nat /\ ms < M /\ ms * N <= ns /\ ns < ms * N + N
      BY <2>2, StampIsReading, Split
    <3>2. f = ms * F
      BY <1>1, <3>1, PosixFractions
    <3> HIDE DEF ms, f, ns
    <3>3. /\ ns * S - (ms * F) * (M * N) < N * S
          /\ (ms * F) * (M * N) - ns * S <= (M * N) * (M * F - S)
      BY <1>1, <3>1, PosixAccurate
    <3>4. QED BY <3>2, <3>3
  <2>3. QED BY <2>1, <2>2
<1> HIDE DEF ns, f
<1>3. /\ NsPerSecond = M * N /\ Excess = M * F - S
  BY Sizes DEF Excess, M, F, S
<1>4. -(f * (M * N) - ns * S) = ns * S - f * (M * N)
  BY <1>1, Sizes
<1>5. /\ -(f * NsPerSecond - ns * FractionSize) < NsPerMs * FractionSize
      /\ f * NsPerSecond - ns * FractionSize <= NsPerSecond * Excess
  BY <1>2, <1>3, <1>4 DEF S, N
<1> DEFINE s == tv_sec(takenAt)
<1>6. s \in Nat /\ UnixSeconds = s /\ takenAt = s * (M * N) + ns
  BY StampIsReading, SecondsExact, Split, Sizes, DivMod DEF tv_sec, tv_nsec, ns
<1> HIDE DEF s
<1>7. (UnixSeconds * S + f) * NsPerSecond - takenAt * S = f * NsPerSecond - ns * S
  BY <1>1, <1>3, <1>6, SecondsCancel
<1>8. QED BY <1>5, <1>7 DEF ReadingIsAccurate, f, S

(* In both builds a time stamp, its two words taken together in their era, *)
(* is less than a millisecond behind the clock and ahead of it by no more  *)
(* than the rounding of the constant allows.                               *)
THEOREM ReadingIsAccurateAlways == Spec => []ReadingIsAccurate
  BY StampInit, StampNext, StampAccurate, PTL DEF Spec

-------------------------------------------------------------------------------
(* The subseconds of the cFE show as the right millisecond or the one      *)
(* before: they are rounded down, and then divided by too large a number.  *)

LEMMA CfeShown ==
  ASSUME NEW ns \in Nat, NEW ms \in Nat, NEW f \in Nat,
         ms < M, ms * N <= ns, ns < ms * N + N,
         f * (M * N) <= ns * S, ns * S < f * (M * N) + M * N
  PROVE  f < (ms + 1) * F /\ ~(f < (ms - 1) * F)
<1>1. /\ M * N \in Nat \ {0} /\ N * S \in Nat \ {0} /\ M * F \in Nat
      /\ ns * S \in Nat /\ f * (M * N) \in Nat
  BY Sizes
<1>2. f < (ms + 1) * F
  <2> DEFINE g == (ms + 1) * F
             a == f * (M * N)
  <2>1. g \in Nat
    BY Sizes
  <2>2. ns < (ms + 1) * N /\ (ms + 1) * N \in Nat
    BY Sizes
  <2>3. ns * S <= ns * (M * F) /\ ns * (M * F) \in Int
    <3>1. S * ns <= (M * F) * ns
      BY <1>1, Sizes, Mul
    <3>2. QED BY <1>1, <3>1, Sizes
  <2>4. ns * (M * F) < ((ms + 1) * N) * (M * F) /\ ((ms + 1) * N) * (M * F) \in Int
    <3>1. M * F \in Nat \ {0}
      BY Sizes
    <3>2. QED BY <2>2, <3>1, MulStrict
  <2>5. ((ms + 1) * N) * (M * F) = g * (M * N)
    BY Sizes
  <2>6. a < g * (M * N)
    BY <1>1, <2>3, <2>4, <2>5
  <2>7. ASSUME g <= f PROVE FALSE
    <3>1. g * (M * N) <= f * (M * N) /\ g * (M * N) \in Int /\ f * (M * N) \in Int
      BY <1>1, <2>1, <2>7, Mul
    <3> HIDE DEF g
    <3>2. QED BY <2>6, <3>1
  <2>8. QED BY <2>1, <2>7
<1>3. ASSUME f < (ms - 1) * F PROVE FALSE
  <2> DEFINE g == (ms - 1) * F
  <2>1. g \in Int /\ f + 1 <= g
    BY <1>3, Sizes
  <2>2. (f + 1) * (M * N) <= g * (M * N) /\ g * (M * N) \in Int
    BY <1>1, <2>1, Mul
  <2>3. ns * S < g * (M * N)
    <3>1. (f + 1) * (M * N) = f * (M * N) + M * N
      BY <1>1
    <3> HIDE DEF g
    <3>2. QED BY <1>1, <2>2, <3>1
  <2>4. (ms * N) * S <= ns * S /\ (ms * N) * S \in Int
    BY Sizes, Mul
  <2>5. (ms * N) * S = (ms * S) * N /\ g * (M * N) = (g * M) * N
    BY Sizes
  <2>6. ms * S \in Int /\ g * M \in Int
    BY Sizes
  <2>7. (ms * S) * N < (g * M) * N
    <3> HIDE DEF g
    <3>1. QED BY <1>1, <2>2, <2>3, <2>4, <2>5
  <2>8. g * M <= ms * S
    <3>1. (M - 1) * F \in Int /\ ((M - 1) * F) * ms <= S * ms
      BY Sizes, Mul
    <3>2. ms * M - M <= ms * M - ms /\ ms * M - M \in Int /\ ms * M - ms \in Int
      BY Sizes
    <3>3. (ms * M - M) * F <= (ms * M - ms) * F
      BY <3>2, Sizes, Mul
    <3>4. g * M = (ms * M - M) * F /\ ((M - 1) * F) * ms = (ms * M - ms) * F /\ S * ms = ms * S
      BY Sizes
    <3>5. (ms * M - M) * F \in Int /\ (ms * M - ms) * F \in Int
      BY <3>2, Sizes
    <3> HIDE DEF g
    <3>6. QED BY <2>6, <3>1, <3>3, <3>4, <3>5
  <2>9. (g * M) * N <= (ms * S) * N /\ (g * M) * N \in Int /\ (ms * S) * N \in Int
    BY <2>6, <2>8, Sizes, Mul
  <2>10. QED
    <3> HIDE DEF g
    <3>1. QED BY <2>7, <2>9
<1>4. QED BY <1>2, <1>3

LEMMA StampShown == StampInv => ShownIsExact
<1> SUFFICES ASSUME StampInv PROVE ShownIsExact
  OBVIOUS
<1> DEFINE ns == tv_nsec(takenAt)
           ms == MsOf(ns)
<1>1. /\ ns \in Nat /\ ns < M * N /\ ms \in Nat /\ ms < M
      /\ ms * N <= ns /\ ns < ms * N + N
      /\ ms = tv_nsec(takenAt) \div NsPerMs
  BY StampIsReading, Split DEF MsOf
<1>2. CASE build = "posix"
  <2>1. stamp.fractions = ms * F
    BY <1>1, <1>2, StampIsReading, PosixFractions
  <2>2. FRACTIONS_TO_MS(stamp.fractions) = ms
    BY <1>1, <2>1, Sizes, DivExact DEF FRACTIONS_TO_MS, F
  <2>3. QED BY <1>1, <1>2, <2>2 DEF ShownIsExact
<1>3. CASE build = "cfe"
  <2> DEFINE f == stamp.fractions
             shown == f \div F
  <2>1. /\ f \in Nat /\ f * (M * N) <= ns * S /\ ns * S < f * (M * N) + M * N
    BY <1>1, <1>3, StampIsReading, CfeFractions
  <2> HIDE DEF f, ms, ns
  <2>2. f < (ms + 1) * F /\ ~(f < (ms - 1) * F)
    BY <1>1, <2>1, CfeShown
  <2>3. shown < ms + 1 /\ ~(shown < ms - 1) /\ shown \in Nat
    <3>1. shown \in Nat
      BY <2>1, Sizes, DivBounds
    <3>2. ms + 1 \in Int /\ ms - 1 \in Int
      BY <1>1
    <3>3. /\ f < (ms + 1) * F <=> shown < ms + 1
          /\ f < (ms - 1) * F <=> shown < ms - 1
      BY <2>1, <3>2, Sizes, DivBelow
    <3>4. QED BY <2>2, <3>1, <3>3
  <2>4. shown \in {ms - 1, ms}
    BY <1>1, <2>3
  <2>5. FRACTIONS_TO_MS(stamp.fractions) = shown
    BY DEF FRACTIONS_TO_MS, f, F
  <2>6. QED BY <1>1, <1>3, <2>4, <2>5 DEF ShownIsExact
<1>4. QED BY <1>2, <1>3 DEF StampInv

(* The client shows the server's milliseconds exactly when the server      *)
(* rounds like the client, and at most one too few when it does not.       *)
THEOREM ShownIsExactAlways == Spec => []ShownIsExact
  BY StampInit, StampNext, StampShown, PTL DEF Spec

-------------------------------------------------------------------------------
(* Later readings are not before earlier ones.                             *)

LEMMA DivModMono ==
  ASSUME NEW x \in Nat, NEW y \in Nat, NEW d \in Nat \ {0}, x <= y, x \div d = y \div d
  PROVE  x % d <= y % d /\ (x < y => x % d < y % d)
<1> DEFINE q == x \div d
<1>1. q * d \in Int /\ x = q * d + (x % d) /\ y = q * d + (y % d)
      /\ x % d \in Nat /\ y % d \in Nat
  BY DivMod
<1> HIDE DEF q
<1>2. QED BY <1>1

LEMMA FractionsMono ==
  ASSUME NEW ns \in Nat, NEW later \in Nat, ns <= later, later < M * N,
         MsOf(ns) \in Nat, MsOf(ns) < M, MsOf(later) \in Nat, MsOf(later) < M
  PROVE  Posix(ns) <= Posix(later) /\ Cfe(ns) <= Cfe(later)
<1>1. Posix(ns) <= Posix(later)
  <2>1. MsOf(ns) <= MsOf(later)
    BY Sizes, DivMono DEF MsOf, N
  <2>2. QED BY <2>1, Sizes, Mul, PosixFractions
<1>2. Cfe(ns) <= Cfe(later)
  <2>1. ns * S <= later * S /\ ns * S \in Nat /\ later * S \in Nat
    BY Sizes, Mul
  <2>2. QED BY <2>1, Sizes, DivMono DEF Cfe, S
<1>3. QED BY <1>1, <1>2

LEMMA ReadOrder ==
  ASSUME StampInv, [Next]_vars, Era(takenAt') = Era(takenAt)
  PROVE  \/ stamp'.seconds > stamp.seconds
         \/ stamp'.seconds = stamp.seconds /\ stamp'.fractions >= stamp.fractions
<1>1. /\ StampInv' /\ build' = build
      /\ takenAt \in Nat /\ takenAt' \in Nat /\ takenAt <= takenAt'
  <2>1. StampInv'
    BY StampNext
  <2>2. build' = build /\ takenAt' \in {takenAt, now}
    BY DEF Next, Read, Tick, vars
  <2>3. takenAt \in 0 .. now /\ now \in Nat
    BY ClockAssumption DEF StampInv
  <2>4. QED BY <2>1, <2>2, <2>3
<1> DEFINE t == takenAt
           u == takenAt'
<1>2. /\ stamp.seconds = (tv_sec(t) + EpochOffset) % SecondsSize
      /\ stamp.fractions = IF build = "cfe" THEN Cfe(tv_nsec(t)) ELSE Posix(tv_nsec(t))
  BY StampIsReading
<1>3. /\ stamp'.seconds = (tv_sec(u) + EpochOffset) % SecondsSize
      /\ stamp'.fractions = IF build = "cfe" THEN Cfe(tv_nsec(u)) ELSE Posix(tv_nsec(u))
  BY <1>1, Reading DEF StampInv, getCurrentSntpTime, Subseconds, Cfe, Posix
<1> HIDE DEF t, u
<1>4. /\ t \in Nat /\ u \in Nat /\ t <= u /\ Era(u) = Era(t)
  BY <1>1 DEF t, u
<1>5. /\ tv_sec(t) \in Nat /\ tv_sec(u) \in Nat /\ tv_sec(t) <= tv_sec(u)
  BY <1>4, Split, Sizes, DivMono DEF tv_sec
<1>6. /\ EpochOffset \in Nat /\ SecondsSize \in Nat \ {0}
      /\ (tv_sec(t) + EpochOffset) \div SecondsSize = (tv_sec(u) + EpochOffset) \div SecondsSize
  BY <1>4, ClockAssumption DEF Era
<1>7. CASE tv_sec(t) < tv_sec(u)
  <2>1. (tv_sec(t) + EpochOffset) % SecondsSize < (tv_sec(u) + EpochOffset) % SecondsSize
    <3> DEFINE x == tv_sec(t) + EpochOffset
               y == tv_sec(u) + EpochOffset
    <3>1. x \in Nat /\ y \in Nat /\ x < y /\ x <= y
      BY <1>5, <1>6, <1>7
    <3>2. x \div SecondsSize = y \div SecondsSize
      BY <1>6
    <3> HIDE DEF x, y
    <3>3. x % SecondsSize < y % SecondsSize
      BY <1>6, <3>1, <3>2, DivModMono
    <3>4. QED BY <3>3 DEF x, y
  <2>2. QED BY <1>2, <1>3, <1>5, <1>6, <2>1, DivMod
<1>8. CASE tv_sec(t) = tv_sec(u)
  <2>1. tv_nsec(t) <= tv_nsec(u)
    BY <1>4, <1>8, Sizes, DivModMono DEF tv_sec, tv_nsec
  <2>2. /\ Posix(tv_nsec(t)) <= Posix(tv_nsec(u)) /\ Cfe(tv_nsec(t)) <= Cfe(tv_nsec(u))
        /\ Posix(tv_nsec(t)) \in Nat /\ Posix(tv_nsec(u)) \in Nat
        /\ Cfe(tv_nsec(t)) \in Nat /\ Cfe(tv_nsec(u)) \in Nat
    BY <1>4, <2>1, Split, FractionsMono, PosixFractions, CfeFractions
  <2>3. QED BY <1>2, <1>3, <1>8, <2>2
<1>9. QED BY <1>5, <1>7, <1>8

(* Unless the era has changed, a time stamp read later is not before one   *)
(* read earlier, second boundaries included.                               *)
THEOREM LaterIsNotBeforeAlways == Spec => LaterIsNotBefore
<1>1. StampInv /\ [Next]_vars =>
          [Era(takenAt') = Era(takenAt) =>
              \/ stamp'.seconds > stamp.seconds
              \/ stamp'.seconds = stamp.seconds /\ stamp'.fractions >= stamp.fractions]_vars
  BY ReadOrder
<1>2. QED BY <1>1, StampInit, StampNext, PTL DEF Spec, LaterIsNotBefore
===============================================================================
