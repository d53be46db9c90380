------------------------------- MODULE Values -------------------------------
(***************************************************************************)
(* Conversions between Go's time values and what PTP packets carry         *)
(* (protocol/types.go).                                                    *)
(*                                                                         *)
(* A time.Duration and a time.Time are integers that count the smallest    *)
(* unit, of which a second has Sec (10^9).  The largest duration is        *)
(* MaxDuration (2^63 - 1); a seconds field counts modulo SecondsMod        *)
(* (2^48).  Powers of two are exact in floating point, so only the         *)
(* conversion to an integer loses something: it truncates towards zero,    *)
(* and what it makes of a value that does not fit depends on the           *)
(* processor.                                                              *)
(***************************************************************************)
EXTENDS Integers

CONSTANTS Sec, MaxDuration, SecondsMod

ASSUME ValuesAssumption ==
    /\ Sec \in Nat \ {0} /\ MaxDuration \in Nat /\ Sec <= MaxDuration
    /\ SecondsMod \in Nat \ {0}

\* amd64 converts a value that is too large to the smallest integer, arm64 to
\* the nearest one.
TooLarge == {- MaxDuration - 1, MaxDuration}

\* math.Pow(2, i).
Pow2[i \in Nat] == IF i = 0 THEN 1 ELSE 2 * Pow2[i - 1]

\* LogInterval.Duration: 2^i seconds, as the set of possible outcomes.
Duration(i) ==
    IF i < 0 THEN {Sec \div Pow2[- i]}
             ELSE IF Sec * Pow2[i] <= MaxDuration THEN {Sec * Pow2[i]} ELSE TooLarge

\* Variant: the logarithm is rounded down.
NewLogIntervalFloor(d) ==
    IF d <= 0 THEN 0
    ELSE IF d >= Sec
         THEN CHOOSE i \in 0 .. d : Sec * Pow2[i] <= d /\ d < Sec * Pow2[i + 1]
         ELSE - (CHOOSE k \in 0 .. Sec : d * Pow2[k] >= Sec)

\* NewLogInterval: the logarithm, truncated towards zero.  Of a duration that
\* is not positive it is no number, and what the callers see is 0.
NewLogInterval(d) ==
    IF d <= 0 THEN 0
    ELSE IF d >= Sec
         THEN CHOOSE i \in 0 .. d : Sec * Pow2[i] <= d /\ d < Sec * Pow2[i + 1]
         ELSE - (CHOOSE k \in 0 .. Sec : d * Pow2[k] <= Sec /\ Sec < d * Pow2[k + 1])

\* int16(d.Seconds()), for the announced UTC offset.
WholeSeconds(d) == d \div Sec

\* Variant: the nanoseconds are those since the epoch.
NewTimestampNano(t) ==
    [Seconds |-> (t \div Sec) % SecondsMod, Nanoseconds |-> t]

\* NewTimestamp and Timestamp.Time, for times after the epoch.  A timestamp of
\* all zeroes is read as no time at all; here it stays 0.
NewTimestamp(t) ==
    [Seconds |-> (t \div Sec) % SecondsMod, Nanoseconds |-> t % Sec]

TimeOf(ts) == ts.Seconds * Sec + ts.Nanoseconds

=============================================================================
