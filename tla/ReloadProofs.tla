---------------------------- MODULE ReloadProofs ----------------------------
(***************************************************************************)
(* Proofs about Reload, and with it about Startup and Config: the pid file *)
(* is current, the flags reach the packets, and the configuration in force *)
(* is valid.                                                               *)
(***************************************************************************)
EXTENDS Reload, WellFoundedInduction, TLAPS

DynamicOK(dc) ==
    /\ dc \in [Field -> Int]
    /\ \A k \in Field : dc[k] >= 0
    /\ ValidateDynamic(dc)

(***************************************************************************)
(* Flags are checked before anything is made from them, and do not change  *)
(* while a worker lives.                                                   *)
(***************************************************************************)
FlagInv ==
    /\ flags \in Flags
    /\ main \in {"pidfile", "identity", "workers", "select"} => Validate(flags)
    /\ sw \in [SendWorker -> {"nil", "new", "ready"}]
    /\ DOMAIN tos = SendWorker
    /\ \A i \in SendWorker : sw[i] # "nil" => main \in {"workers", "select"}
    /\ \A i \in SendWorker : sw[i] = "ready" => tos[i] = Enable(flags)

(***************************************************************************)
(* A reload is under way only in a process that is past its start.         *)
(***************************************************************************)
PlaceInv ==
    /\ ~ Up => main = "none"
    /\ DOMAIN watch = Watch
    /\ \A s \in Watch : watch[s] # "none" => main = "select"
    /\ main # "select" => hup.pc = "idle"

(***************************************************************************)
(* What was copied so far is a part of a valid configuration.              *)
(***************************************************************************)
CopyInv ==
    /\ cfg \in [Field -> Int]
    /\ \A k \in Field : cfg[k] >= 0
    /\ 30 * Sec <= cfg.UTCOffset /\ cfg.UTCOffset <= 50 * Sec
    /\ hup.pc # "copy" => ValidateDynamic(cfg)
    /\ DOMAIN hup = {"pc", "dc", "todo"}
    /\ hup.pc = "copy" =>
        /\ DynamicOK(hup.dc)
        /\ \A k \in Field \ hup.todo : cfg[k] = hup.dc[k]

FileInv == file \in Contents \cup {Empty} /\ draft \in Contents \cup {Absent}

IInv == PidFileCurrent /\ FlagInv /\ PlaceInv /\ CopyInv /\ FileInv

-----------------------------------------------------------------------------
(***************************************************************************)
(* Induction over the natural numbers, for a set instead of a predicate:   *)
(* the least number outside of S has a predecessor, which is in S.         *)
(***************************************************************************)
LEMMA Induction ==
    ASSUME NEW S, 0 \in S, \A n \in Nat : n \in S => n + 1 \in S
    PROVE  \A n \in Nat : n \in S
<1> DEFINE T == Nat \ S
           R == OpToRel(<, Nat)
<1> SUFFICES ASSUME T # {} PROVE FALSE
  OBVIOUS
<1>1. IsWellFoundedOn(R, Nat)
  BY NatLessThanWellFounded, Zenon
<1>2. PICK x \in T : \A y \in T : <<y, x>> \notin R
  <2> HIDE DEF R
  <2>1. T \subseteq Nat
    OBVIOUS
  <2> HIDE DEF T
  <2> QED BY <1>1, <2>1, WFMin
<1>3. \A y \in T : ~ (y < x)
  BY <1>2 DEF OpToRel
<1>4. x - 1 \in Nat /\ x - 1 \in S
  BY <1>3
<1> QED BY <1>4

\* The first powers of two.
Powers(g, k) ==
    /\ g \in [0 .. k -> Nat] /\ g[0] = 1
    /\ \A n \in 0 .. k - 1 : g[n + 1] = 2 * g[n]

\* There are as many as one likes.
LEMMA PowersExist == \A k \in Nat : \E g : Powers(g, k)
<1> DEFINE S == {k \in Nat : \E g : Powers(g, k)}
<1>1. 0 \in S
  <2>1. Powers([n \in 0 .. 0 |-> 1], 0)
    BY DEF Powers
  <2> QED BY <2>1
<1>2. ASSUME NEW k \in Nat, k \in S
      PROVE  k + 1 \in S
  <2>1. PICK g : Powers(g, k)
    BY <1>2
  <2> DEFINE h == [n \in 0 .. k + 1 |-> IF n = k + 1 THEN 2 * g[k] ELSE g[n]]
  <2>2. h \in [0 .. k + 1 -> Nat] /\ h[0] = 1
    BY <2>1 DEF Powers
  <2>3. \A n \in 0 .. (k + 1) - 1 : h[n + 1] = 2 * h[n]
    BY <2>1 DEF Powers
  <2>4. Powers(h, k + 1)
    <3> HIDE DEF h
    <3> QED BY <2>2, <2>3 DEF Powers
  <2> QED BY <2>4
<1> HIDE DEF S
<1>3. \A k \in Nat : k \in S
  BY <1>1, <1>2, Induction
<1> QED BY <1>3 DEF S

\* Longer lists of powers continue shorter ones.
LEMMA PowersAgree ==
    ASSUME NEW g, NEW h, NEW k \in Nat, NEW l \in Nat, k <= l,
           Powers(g, k), Powers(h, l)
    PROVE  g[k] = h[k]
<1> DEFINE S == {n \in Nat : n <= k => g[n] = h[n]}
<1>1. 0 \in S
  BY DEF Powers
<1>2. ASSUME NEW n \in Nat, n \in S
      PROVE  n + 1 \in S
  BY <1>2 DEF Powers
<1> HIDE DEF S
<1>3. \A n \in Nat : n \in S
  BY <1>1, <1>2, Induction
<1> QED BY <1>3 DEF S

\* The recursion of Pow2 defines a function.
LEMMA Pow2Def == Pow2 = [i \in Nat |-> IF i = 0 THEN 1 ELSE 2 * Pow2[i - 1]]
<1> DEFINE G(k) == CHOOSE g : Powers(g, k)
           f == [k \in Nat |-> G(k)[k]]
<1>1. \A k \in Nat : Powers(G(k), k)
  BY PowersExist, Zenon
<1> HIDE DEF G
<1>2. f[0] = 1
  BY <1>1 DEF Powers
<1>3. ASSUME NEW k \in Nat, k # 0
      PROVE  f[k] = 2 * f[k - 1]
  <2>1. G(k)[k] = 2 * G(k)[k - 1]
    BY <1>1, <1>3 DEF Powers
  <2>2. G(k - 1)[k - 1] = G(k)[k - 1]
    BY <1>1, <1>3, PowersAgree
  <2> QED BY <1>3, <2>1, <2>2
<1>4. f = [k \in Nat |-> IF k = 0 THEN 1 ELSE 2 * f[k - 1]]
  BY <1>2, <1>3
<1> HIDE DEF f
<1>5. \E ff : ff = [i \in Nat |-> IF i = 0 THEN 1 ELSE 2 * ff[i - 1]]
  BY <1>4
<1> QED BY <1>5, Zenon DEF Pow2
\* The equations of the recursion.
LEMMA Pow2Equations == Pow2[0] = 1 /\ \A n \in Nat : Pow2[n + 1] = 2 * Pow2[n]
<1> DEFINE F(f) == [i \in Nat |-> IF i = 0 THEN 1 ELSE 2 * f[i - 1]]
<1>1. \A f : F(f)[0] = 1 /\ \A n \in Nat : F(f)[n + 1] = 2 * f[n]
  OBVIOUS
<1>2. Pow2 = F(Pow2)
  BY Pow2Def
<1> HIDE DEF F
<1> QED BY <1>1, <1>2

\* A power of two is larger than its exponent.
LEMMA Pow2Large == \A n \in Nat : Pow2[n] \in Nat /\ Pow2[n] > n
<1> DEFINE S == {n \in Nat : Pow2[n] \in Nat /\ Pow2[n] > n}
<1>1. 0 \in S
  BY Pow2Equations
<1>2. ASSUME NEW n \in Nat, n \in S
      PROVE  n + 1 \in S
  <2>1. Pow2[n + 1] = 2 * Pow2[n]
    BY Pow2Equations
  <2> QED BY <1>2, <2>1
<1> HIDE DEF S
<1>3. \A n \in Nat : n \in S
  BY <1>1, <1>2, Induction
<1> QED BY <1>3 DEF S

\* Powers at least double.
LEMMA Pow2Grows ==
    ASSUME NEW j \in Nat, NEW k \in Nat, j < k
    PROVE  2 * Pow2[j] <= Pow2[k]
<1> DEFINE S == {n \in Nat : 2 * Pow2[j] <= Pow2[j + n + 1]}
<1>1. 0 \in S
  BY Pow2Equations, Pow2Large
<1>2. ASSUME NEW n \in Nat, n \in S
      PROVE  n + 1 \in S
  <2>1. j + n + 1 \in Nat /\ j + (n + 1) + 1 = (j + n + 1) + 1
    OBVIOUS
  <2>2. Pow2[j + (n + 1) + 1] = 2 * Pow2[j + n + 1] /\ Pow2[j + n + 1] \in Nat /\ Pow2[j] \in Nat
    BY <2>1, Pow2Equations, Pow2Large
  <2>3. 2 * Pow2[j] <= Pow2[j + n + 1]
    BY <1>2
  <2> QED BY <2>2, <2>3
<1> HIDE DEF S
<1>3. \A n \in Nat : n \in S
  BY <1>1, <1>2, Induction
<1>4. k - j - 1 \in Nat /\ j + (k - j - 1) + 1 = k
  OBVIOUS
<1> QED BY <1>3, <1>4 DEF S

\* Division by a power of two, without its theory.
LEMMA Divided ==
    ASSUME NEW x \in Nat, NEW p \in Nat \ {0}
    PROVE  x \div p \in Nat /\ (x \div p) * p <= x /\ x < (x \div p) * p + p
OBVIOUS

\* A product grows with its factor.
LEMMA TimesGrows ==
    ASSUME NEW c \in Nat, NEW x \in Nat, NEW y \in Nat, x <= y
    PROVE  c * x \in Nat /\ c * y \in Nat /\ c * x <= c * y
OBVIOUS

\* A duration is an integer.
LEMMA DurationInteger ==
    ASSUME NEW i \in Int, NEW d \in Duration(i)
    PROVE  d \in Int
<1>1. CASE i < 0
  <2>1. Pow2[- i] \in Nat \ {0}
    BY <1>1, Pow2Large
  <2>2. Sec \div Pow2[- i] \in Nat
    BY <2>1, Divided, ValuesAssumption
  <2> QED BY <1>1, <2>2 DEF Duration
<1>2. CASE i >= 0
  <2>1. Pow2[i] \in Nat
    BY <1>2, Pow2Large
  <2>2. Sec * Pow2[i] \in Nat
    BY <2>1, ValuesAssumption
  <2> QED BY <1>2, <2>2, ValuesAssumption DEF Duration, TooLarge
<1> QED BY <1>1, <1>2

\* At most one exponent brackets a number.
LEMMA BracketUnique ==
    ASSUME NEW c \in Nat, NEW x \in Nat, NEW j \in Nat, NEW k \in Nat,
           c * Pow2[j] <= x, x < c * Pow2[j + 1],
           c * Pow2[k] <= x, x < c * Pow2[k + 1]
    PROVE  j = k
<1>1. ASSUME NEW m \in Nat, NEW n \in Nat, m < n PROVE c * Pow2[m + 1] <= c * Pow2[n]
  <2>1. Pow2[m + 1] = 2 * Pow2[m] /\ 2 * Pow2[m] <= Pow2[n]
    BY <1>1, Pow2Equations, Pow2Grows
  <2>2. Pow2[m + 1] \in Nat /\ Pow2[n] \in Nat
    BY Pow2Large
  <2> QED BY <2>1, <2>2, TimesGrows
<1>2. /\ c * Pow2[j] \in Nat /\ c * Pow2[j + 1] \in Nat
      /\ c * Pow2[k] \in Nat /\ c * Pow2[k + 1] \in Nat
  BY Pow2Large, TimesGrows
<1>3. CASE j < k
  BY <1>1, <1>2, <1>3
<1>4. CASE k < j
  BY <1>1, <1>2, <1>4
<1> QED BY <1>3, <1>4

\* NewLogInterval inverts Duration, as far as nothing was lost.
LEMMA IntervalBack ==
    ASSUME NEW i \in Int, NEW d \in Duration(i), d > 0, d # MaxDuration
    PROVE  NewLogInterval(d) = i
<1>1. CASE i >= 0
  <2>1. Pow2[i] \in Nat /\ Pow2[i] > i /\ Pow2[i + 1] = 2 * Pow2[i]
    BY <1>1, Pow2Large, Pow2Equations
  <2>2. d = Sec * Pow2[i]
    BY <1>1, ValuesAssumption DEF Duration, TooLarge
  <2>3. d \in Nat
    BY <2>1, <2>2, ValuesAssumption
  <2>4. Pow2[i] <= Sec * Pow2[i] /\ Sec <= Sec * Pow2[i]
    BY <1>1, <2>1, ValuesAssumption
  <2>5. Sec * Pow2[i + 1] = d + d
    BY <2>1, <2>2, ValuesAssumption
  <2>6. i \in 0 .. d /\ d >= Sec
    BY <1>1, <2>1, <2>2, <2>3, <2>4, ValuesAssumption
  <2>7. Sec * Pow2[i] <= d /\ d < Sec * Pow2[i + 1]
    BY <2>2, <2>3, <2>5
  <2>8. ASSUME NEW j \in 0 .. d, Sec * Pow2[j] <= d, d < Sec * Pow2[j + 1]
        PROVE  j = i
    BY <1>1, <2>3, <2>7, <2>8, BracketUnique, ValuesAssumption
  <2>9. (CHOOSE j \in 0 .. d : Sec * Pow2[j] <= d /\ d < Sec * Pow2[j + 1]) = i
    BY <2>6, <2>7, <2>8
  <2> QED BY <2>6, <2>9, <2>3 DEF NewLogInterval
<1>2. CASE i < 0
  <2> DEFINE k == - i
  <2>1. k \in Nat /\ k > 0
    BY <1>2
  <2>2. d = Sec \div Pow2[k]
    BY <1>2 DEF Duration
  <2> HIDE DEF k
  <2>3. /\ Pow2[k] \in Nat \ {0} /\ Pow2[k] > k /\ Pow2[k + 1] = 2 * Pow2[k]
        /\ 2 <= Pow2[k]
    BY <2>1, Pow2Large, Pow2Equations
  <2>4. d \in Nat /\ d * Pow2[k] <= Sec /\ Sec < d * Pow2[k] + Pow2[k]
    BY <2>2, <2>3, Divided, ValuesAssumption
  <2>5. 2 * d <= d * Pow2[k] /\ Pow2[k] <= d * Pow2[k] /\ d * Pow2[k] \in Nat
    BY <2>3, <2>4
  <2>6. d * Pow2[k + 1] = d * Pow2[k] + d * Pow2[k]
    BY <2>3, <2>4
  <2>7. k \in 0 .. Sec /\ d < Sec
    BY <2>1, <2>3, <2>4, <2>5, ValuesAssumption
  <2>8. d * Pow2[k] <= Sec /\ Sec < d * Pow2[k + 1]
    BY <2>3, <2>4, <2>5, <2>6, ValuesAssumption
  <2>9. ASSUME NEW j \in 0 .. Sec, d * Pow2[j] <= Sec, Sec < d * Pow2[j + 1]
        PROVE  j = k
    BY <2>1, <2>4, <2>8, <2>9, BracketUnique, ValuesAssumption
  <2>10. (CHOOSE j \in 0 .. Sec : d * Pow2[j] <= Sec /\ Sec < d * Pow2[j + 1]) = k
    BY <2>7, <2>8, <2>9
  <2>11. - k = i
    BY DEF k
  <2>12. ~ (d <= 0) /\ ~ (d >= Sec)
    BY <2>4, <2>7, ValuesAssumption
  <2>13. NewLogInterval(d) =
             - (CHOOSE j \in 0 .. Sec : d * Pow2[j] <= Sec /\ Sec < d * Pow2[j + 1])
    BY <2>12, Zenon DEF NewLogInterval
  <2> QED BY <2>10, <2>11, <2>13, Zenon
<1> QED BY <1>1, <1>2

-----------------------------------------------------------------------------
(***************************************************************************)
(* The keys of a dynamic configuration.                                    *)
(***************************************************************************)
LEMMA Fields ==
    Field = {"ClockAccuracy", "ClockClass", "DrainInterval", "MaxSubDuration",
             "MetricInterval", "MinSubInterval", "UTCOffset"}
BY DEF Field, NewDefaultDynamicConfig

(***************************************************************************)
(* The defaults are valid.                                                 *)
(***************************************************************************)
LEMMA DefaultOK == DynamicOK(NewDefaultDynamicConfig)
BY Fields, ValuesAssumption DEF DynamicOK, NewDefaultDynamicConfig, ValidateDynamic

(***************************************************************************)
(* ReadDynamicConfig returns a valid configuration or an error.            *)
(***************************************************************************)
LEMMA ReadOK ==
    ASSUME NEW f \in Contents \cup {Empty}, Reads(f)
    PROVE  DynamicOK(ReadDynamicConfig(f))
<1> DEFINE dc == ReadDynamicConfig(f)
<1>1. \A k \in Field : k \in DOMAIN f.keys =>
          f.keys[k] \in IF k \in {"ClockAccuracy", "ClockClass"} THEN Nat ELSE Int
  <2>1. CASE f \in Contents
    BY <2>1, ContentsAssumption DEF Reads
  <2>2. CASE f = Empty
    BY <2>2, Fields DEF Empty
  <2> QED BY <2>1, <2>2
<1>2. dc = [k \in Field |-> IF k \in DOMAIN f.keys THEN f.keys[k]
                                                   ELSE NewDefaultDynamicConfig[k]]
  BY DEF ReadDynamicConfig, Unmarshal
<1>3. \A k \in Field : NewDefaultDynamicConfig[k] \in Nat
  BY DefaultOK DEF DynamicOK
<1>4. \A k \in Field :
          dc[k] \in IF k \in {"ClockAccuracy", "ClockClass"} THEN Nat ELSE Int
  BY <1>1, <1>2, <1>3
<1>5. dc \in [Field -> Int]
  BY <1>2, <1>4
<1>6. ValidateDynamic(dc)
  BY DEF Reads, ReadDynamicConfig
<1>7. \A k \in Field : dc[k] >= 0
  BY <1>4, <1>6, Fields, ValuesAssumption DEF ValidateDynamic
<1> QED BY <1>5, <1>6, <1>7 DEF DynamicOK

-----------------------------------------------------------------------------
(***************************************************************************)
(* The state starts out right.                                             *)
(***************************************************************************)
LEMMA InitSafe == Init => IInv
<1> SUFFICES ASSUME Init PROVE IInv
  OBVIOUS
<1> USE DEF Init, StartupInit
<1>1. PidFileCurrent
  BY DEF PidFileCurrent, Up
<1>2. FlagInv
  BY DEF FlagInv, NoWorkers, NoSockets
<1>3. PlaceInv
  BY DEF PlaceInv, NoWatches, Idle, Up
<1>4. CopyInv
  BY DefaultOK DEF CopyInv, DynamicOK, ValidateDynamic, Idle
<1> QED BY <1>1, <1>2, <1>3, <1>4 DEF IInv, FileInv

(***************************************************************************)
(* Every end of the process forgets what the invariant is about, except    *)
(* the pid file, which must be gone after a graceful one.                  *)
(***************************************************************************)
LEMMA ExitSafe ==
    ASSUME IInv, NEW how, Exit(how), how # "up", hup' = Idle, UNCHANGED draft,
           how = "ok" => pidFile' = 0
    PROVE  IInv'
<1>1. PidFileCurrent'
  BY DEF PidFileCurrent, Up, Exit
<1>2. FlagInv'
  BY DEF IInv, FlagInv, Exit, NoWorkers, NoSockets
<1>3. PlaceInv'
  BY DEF PlaceInv, Exit, NoWatches, Idle, Up
<1>4. CopyInv'
  BY DefaultOK DEF CopyInv, DynamicOK, ValidateDynamic, Idle, Exit
<1> QED BY <1>1, <1>2, <1>3, <1>4 DEF IInv, FileInv, Exit

(***************************************************************************)
(* A step of the process that does not touch what an invariant reads.      *)
(***************************************************************************)
LEMMA CopyUnchanged ==
    ASSUME CopyInv, UNCHANGED <<cfg, hup>>
    PROVE  CopyInv'
BY DEF CopyInv

\* The same, for the flags and the workers.
LEMMA FlagUnchanged ==
    ASSUME FlagInv, UNCHANGED <<flags, main, sw, tos>>
    PROVE  FlagInv'
BY DEF FlagInv

\* The same, for the places of main and handleSighup.
LEMMA PlaceUnchanged ==
    ASSUME PlaceInv, UNCHANGED <<status, main, watch, hup>>
    PROVE  PlaceInv'
BY DEF PlaceInv, Up

\* The same, for the pid file.
LEMMA PidUnchanged ==
    ASSUME PidFileCurrent, UNCHANGED <<status, main, boot, pidFile>>
    PROVE  PidFileCurrent'
BY DEF PidFileCurrent, Up

-----------------------------------------------------------------------------
(***************************************************************************)
(* The steps of main.                                                      *)
(***************************************************************************)
LEMMA ExecSafe ==
    ASSUME IInv, NEW f \in Flags, Exec(f), UNCHANGED <<hup, draft>>
    PROVE  IInv'
<1> USE DEF IInv, Exec, bootVars
<1>1. PidFileCurrent'
  BY DEF PidFileCurrent, Up
<1>2. FlagInv'
  BY DEF FlagInv, PlaceInv
<1>3. PlaceInv'
  BY DEF PlaceInv, Up
<1>4. CopyInv'
  BY CopyUnchanged
<1> QED BY <1>1, <1>2, <1>3, <1>4 DEF FileInv

\* What main reads is valid, and no reload is under way.
LEMMA ReadConfigSafe ==
    ASSUME IInv, ReadConfig, Up' => UNCHANGED hup, ~ Up' => hup' = Idle,
           UNCHANGED draft
    PROVE  IInv'
<1>1. CASE Up /\ main = "config" /\ Exit("error")
  BY <1>1, ExitSafe DEF Exit, Up
<1>2. CASE /\ Main("config", "validate")
           /\ \/ UNCHANGED cfg
              \/ Reads(file) /\ cfg' = ReadDynamicConfig(file)
           /\ UNCHANGED <<boot, status, flags, bootVars, watch, pidFile, file>>
  <2> USE <1>2 DEF IInv, Main, bootVars
  <2>1. UNCHANGED hup
    BY DEF Up
  <2>2. PidFileCurrent'
    BY DEF PidFileCurrent, Up
  <2>3. FlagInv'
    BY DEF FlagInv
  <2>4. PlaceInv'
    BY <2>1 DEF PlaceInv, Up
  <2>5. CASE UNCHANGED cfg
    <3>1. CopyInv'
      BY <2>1, <2>5, CopyUnchanged
    <3> QED BY <2>2, <2>3, <2>4, <3>1 DEF FileInv
  <2>6. CASE Reads(file) /\ cfg' = ReadDynamicConfig(file)
    <3>1. DynamicOK(cfg')
      BY <2>6, ReadOK DEF FileInv
    <3>2. hup.pc = "idle"
      BY DEF PlaceInv
    <3>3. CopyInv'
      BY <2>1, <3>1, <3>2 DEF CopyInv, DynamicOK, ValidateDynamic
    <3> QED BY <2>2, <2>3, <2>4, <3>3 DEF FileInv
  <2> QED BY <2>5, <2>6
<1> QED BY <1>1, <1>2 DEF ReadConfig

\* The steps of main up to the workers: flags are validated, then the pid file is written.
LEMMA MainMoves ==
    ASSUME IInv, NEW from, NEW to, Main(from, to),
           <<from, to>> \in {<<"validate", "pidfile">>, <<"pidfile", "identity">>,
                             <<"identity", "workers">>},
           to = "pidfile" => Validate(flags), to = "identity" => pidFile' = boot,
           to # "identity" => UNCHANGED pidFile,
           UNCHANGED <<boot, status, flags, cfg, bootVars, watch, file, hup, draft>>
    PROVE  IInv'
<1> USE DEF IInv, Main, bootVars
<1>1. PidFileCurrent'
  BY DEF PidFileCurrent, Up
<1>2. FlagInv'
  BY DEF FlagInv
<1>3. PlaceInv'
  BY DEF PlaceInv, Up
<1>4. CopyInv'
  BY CopyUnchanged
<1> QED BY <1>1, <1>2, <1>3, <1>4 DEF FileInv

\* A new worker has no sockets yet.
LEMMA NewSendWorkerSafe ==
    ASSUME IInv, NewSendWorker, Up' => UNCHANGED hup, ~ Up' => hup' = Idle,
           UNCHANGED draft
    PROVE  IInv'
<1>1. CASE Exit("panic")
  BY <1>1, ExitSafe DEF Exit, Up
<1>2. CASE /\ Up /\ main = "workers"
           /\ sw' = [sw EXCEPT ![Workers + 1] = "new"]
           /\ UNCHANGED <<procVars, cfg, tos, listener, watch, pidFile, file>>
  <2> USE <1>2 DEF IInv, procVars
  <2>1. UNCHANGED hup
    BY DEF Up
  <2>2. FlagInv'
    BY DEF FlagInv
  <2> QED BY <2>1, <2>2, PidUnchanged, PlaceUnchanged, CopyUnchanged DEF FileInv
<1> QED BY <1>1, <1>2 DEF NewSendWorker

\* The goroutines are started by a main that has come to its select.
LEMMA SpawnSafe ==
    ASSUME IInv, Spawn, UNCHANGED <<hup, draft>>
    PROVE  IInv'
<1> USE DEF IInv, Spawn, GoWatches, Main
<1>1. PidFileCurrent'
  BY DEF PidFileCurrent, Up
<1>2. FlagInv'
  BY DEF FlagInv
<1>3. PlaceInv'
  BY DEF PlaceInv, Up
<1> QED BY <1>1, <1>2, <1>3, CopyUnchanged DEF FileInv

(***************************************************************************)
(* The sockets and the signals.                                            *)
(***************************************************************************)
LEMMA ListenSafe ==
    ASSUME IInv, NEW i \in SendWorker, Listen(i), UNCHANGED <<hup, draft>>
    PROVE  IInv'
<1> USE DEF IInv, Listen, procVars
<1>1. FlagInv'
  BY DEF FlagInv, Enable
<1> QED BY <1>1, PidUnchanged, PlaceUnchanged, CopyUnchanged DEF FileInv

\* A goroutine that watches a signal moves on.
LEMMA WatchSafe ==
    ASSUME IInv, NEW s \in Watch, watch[s] # "none", NEW to,
           watch' = [watch EXCEPT ![s] = to],
           UNCHANGED <<procVars, cfg, bootVars, pidFile, file, hup, draft>>
    PROVE  IInv'
<1> USE DEF IInv, procVars, bootVars
<1>1. PlaceInv'
  BY DEF PlaceInv, Up
<1> QED BY <1>1, PidUnchanged, FlagUnchanged, CopyUnchanged DEF FileInv

(***************************************************************************)
(* Life: all of the above, and the ends of the process.                    *)
(***************************************************************************)
LEMMA LifeSafe ==
    ASSUME IInv, Life
    PROVE  IInv'
<1>1. /\ Up' => UNCHANGED hup
      /\ ~ Up' => hup' = Idle
      /\ UNCHANGED draft
  BY DEF Life, memVars, ForgetAll, editVars
<1>2. ASSUME NEW f \in Flags, Exec(f) PROVE IInv'
  BY <1>1, <1>2, ExecSafe DEF Exec, Up
<1>3. CASE ReadConfig
  BY <1>1, <1>3, ReadConfigSafe
<1>4. CASE ValidateConfig
  <2>1. CASE Exit("error")
    BY <1>1, <2>1, ExitSafe DEF Exit, Up
  <2>2. CASE /\ Main("validate", "pidfile") /\ Validate(flags)
             /\ UNCHANGED <<boot, status, flags, cfg, bootVars, watch, pidFile, file>>
    <3>1. UNCHANGED hup
      BY <1>1, <2>2 DEF Main, Up
    <3> QED BY <1>1, <2>2, <3>1, MainMoves
  <2> QED BY <1>4, <2>1, <2>2 DEF ValidateConfig
<1>5. CASE CreatePidFile
  <2>1. UNCHANGED hup
    BY <1>1, <1>5 DEF CreatePidFile, Main, Up
  <2> QED BY <1>1, <1>5, <2>1, MainMoves DEF CreatePidFile
<1>6. CASE SetClockIdentity
  <2>1. UNCHANGED hup
    BY <1>1, <1>6 DEF SetClockIdentity, Main, Up
  <2> QED BY <1>1, <1>6, <2>1, MainMoves DEF SetClockIdentity
<1>7. CASE NewSendWorker
  BY <1>1, <1>7, NewSendWorkerSafe
<1>8. CASE Spawn
  BY <1>1, <1>8, SpawnSafe DEF Spawn, GoWatches, Main, Up
<1>9. CASE HTTPFails \/ StartFails \/ SocketFails \/ DeletePidFileFails
  <2>1. Exit("error")
    BY <1>9 DEF HTTPFails, StartFails, SocketFails, DeletePidFileFails
  <2> QED BY <1>1, <2>1, ExitSafe DEF Exit, Up
<1>10. ASSUME NEW i \in SendWorker, Listen(i) PROVE IInv'
  BY <1>1, <1>10, ListenSafe DEF Listen, procVars, Up
<1>11. ASSUME NEW l \in Listener, StartListener(l) PROVE IInv'
  <2> USE <1>11 DEF StartListener, procVars
  <2>1. UNCHANGED hup
    BY <1>1 DEF Up
  <2> QED BY <1>1, <2>1, PidUnchanged, FlagUnchanged, PlaceUnchanged, CopyUnchanged
          DEF IInv, FileInv
<1>12. ASSUME NEW s \in Watch, Notify(s) PROVE IInv'
  <2>1. UNCHANGED hup
    BY <1>1, <1>12 DEF Notify, procVars, Up
  <2> QED BY <1>1, <1>12, <2>1, WatchSafe DEF Notify
<1>13. CASE Sigterm
  <2>1. UNCHANGED hup
    BY <1>1, <1>13 DEF Sigterm, procVars, Up
  <2>2. "term" \in Watch
    BY DEF Watch
  <2> QED BY <1>1, <1>13, <2>1, <2>2, WatchSafe DEF Sigterm
<1>14. CASE DeletePidFile
  BY <1>1, <1>14, ExitSafe DEF DeletePidFile, Exit, Up
<1>15. CASE Killed
  BY <1>1, <1>15, ExitSafe DEF Killed, Exit, Up
<1>16. StartupNext
  BY DEF Life
<1> QED BY <1>2, <1>3, <1>4, <1>5, <1>6, <1>7, <1>8, <1>9, <1>10, <1>11, <1>12,
           <1>13, <1>14, <1>15, <1>16
        DEF StartupNext, MainStep, SocketStep, SignalStep

-----------------------------------------------------------------------------
(***************************************************************************)
(* The file is replaced or written, elsewhere.                             *)
(***************************************************************************)
LEMMA EditSafe ==
    ASSUME IInv, WriteFinishes \/ \E c \in Contents : Replace(c) \/ WriteTruncates(c)
    PROVE  IInv'
<1>1. UNCHANGED <<procVars, cfg, bootVars, watch, pidFile, memVars>>
  BY DEF WriteFinishes, Replace, WriteTruncates
<1>2. FileInv'
  BY DEF IInv, FileInv, WriteFinishes, Replace, WriteTruncates
<1> QED BY <1>1, <1>2, PidUnchanged, FlagUnchanged, PlaceUnchanged, CopyUnchanged
        DEF IInv, procVars, bootVars, memVars

(***************************************************************************)
(* A step of a goroutine that changes at most the reader and the channel.  *)
(***************************************************************************)
LEMMA QuietSafe ==
    ASSUME IInv, UNCHANGED <<startupVars, draft, hup>>
    PROVE  IInv'
BY PidUnchanged, FlagUnchanged, PlaceUnchanged, CopyUnchanged
   DEF IInv, FileInv, startupVars, procVars, bootVars

(***************************************************************************)
(* handleSighup: the configuration it holds was validated when it was      *)
(* read, and each store replaces a part of a valid configuration by that   *)
(* of another.                                                             *)
(***************************************************************************)
LEMMA HupSafe ==
    ASSUME IInv, HupStep
    PROVE  IInv'
<1>1. Watching
  BY DEF HupStep, ReceiveSighup, ReloadConfig, Copied, CopyField
<1>2. main = "select"
  BY <1>1 DEF Watching, IInv, PlaceInv, Watch
<1>3. UNCHANGED <<procVars, bootVars, watch, pidFile, file, draft>>
  BY DEF HupStep, ReceiveSighup, ReloadConfig, Copied, CopyField, startupVars, editVars
<1>4. PidFileCurrent' /\ FlagInv' /\ PlaceInv' /\ FileInv'
  <2>1. PlaceInv'
    BY <1>2, <1>3 DEF IInv, PlaceInv, procVars, Up
  <2> QED BY <1>3, <2>1, PidUnchanged, FlagUnchanged
          DEF IInv, FileInv, procVars, bootVars
<1>5. CopyInv'
  <2> USE DEF IInv
  <2>1. CASE ReceiveSighup
    BY <2>1 DEF ReceiveSighup, CopyInv, startupVars
  <2>2. CASE ReloadConfig
    <3>1. UNCHANGED cfg
      BY <2>2 DEF ReloadConfig, startupVars
    <3>2. ASSUME Reads(file),
                 NEW dc, dc = ReadDynamicConfig(file),
                 hup' = [pc |-> "copy", dc |-> dc, todo |-> {k \in Field : dc[k] # cfg[k]}]
          PROVE  CopyInv'
      <4>1. DynamicOK(dc)
        BY <3>2, ReadOK DEF FileInv
      <4>2. /\ hup'.pc = "copy" /\ hup'.dc = dc
            /\ hup'.todo = {k \in Field : dc[k] # cfg[k]}
            /\ DOMAIN hup' = {"pc", "dc", "todo"}
        BY <3>2
      <4>3. \A k \in Field \ hup'.todo : cfg[k] = hup'.dc[k]
        BY <4>2
      <4> QED BY <3>1, <4>1, <4>2, <4>3 DEF CopyInv
    <3>3. CASE hup' = Idle
      <4>1. hup.pc = "read"
        BY <2>2 DEF ReloadConfig
      <4> QED BY <3>1, <3>3, <4>1 DEF CopyInv, Idle
    <3>4. CASE flags.ConfigFile # "" /\ Reads(file)
      <4> DEFINE dc == ReadDynamicConfig(file)
      <4>1. hup' = [pc |-> "copy", dc |-> dc, todo |-> {k \in Field : dc[k] # cfg[k]}]
        BY <2>2, <3>4, Zenon DEF ReloadConfig
      <4> HIDE DEF dc
      <4> QED BY <3>2, <3>4, <4>1 DEF dc
    <3>5. CASE ~ (flags.ConfigFile # "" /\ Reads(file))
      BY <2>2, <3>3, <3>5 DEF ReloadConfig
    <3> QED BY <3>4, <3>5
  <2>3. ASSUME NEW k \in Field, CopyField(k) PROVE CopyInv'
    <3> USE <2>3 DEF CopyField
    <3>1. DynamicOK(hup.dc)
      BY DEF CopyInv
    <3>2. cfg' \in [Field -> Int] /\ \A j \in Field : cfg'[j] >= 0
      BY <3>1 DEF CopyInv, DynamicOK
    <3>3. 30 * Sec <= cfg'.UTCOffset /\ cfg'.UTCOffset <= 50 * Sec
      BY <3>1, Fields DEF CopyInv, DynamicOK, ValidateDynamic
    <3>4. hup'.pc = "copy" /\ hup'.dc = hup.dc /\ hup'.todo = hup.todo \ {k}
          /\ DOMAIN hup' = {"pc", "dc", "todo"}
      BY DEF CopyInv
    <3>5. \A j \in Field \ hup'.todo : cfg'[j] = hup'.dc[j]
      BY <3>4 DEF CopyInv
    <3> QED BY <3>1, <3>2, <3>3, <3>4, <3>5 DEF CopyInv
  <2>4. CASE Copied
    <3>1. \A k \in Field : cfg[k] = hup.dc[k]
      BY <2>4 DEF Copied, CopyInv
    <3>2. ValidateDynamic(cfg)
      BY <2>4, <3>1, Fields DEF Copied, CopyInv, DynamicOK, ValidateDynamic
    <3> QED BY <2>4, <3>2 DEF Copied, CopyInv, Idle, startupVars
  <2> QED BY <2>1, <2>2, <2>3, <2>4 DEF HupStep
<1> QED BY <1>4, <1>5 DEF IInv

(***************************************************************************)
(* Handlers and workers only read; at worst they end the process.          *)
(***************************************************************************)
LEMMA PanicSafe ==
    ASSUME IInv, Panic
    PROVE  IInv'
BY ExitSafe DEF Panic, ForgetAll, editVars

\* A reader's step does not touch the configuration.
LEMMA StepSafe ==
    ASSUME IInv, NEW r, Step(r)
    PROVE  IInv'
BY QuietSafe DEF Step, editVars

\* Every step of a reader is one of the two.
LEMMA ReadersSafe ==
    ASSUME IInv,
           \/ \E i \in LogInterval : Renew(i) \/ \E d \in DurationField : GrantRequest(i, d)
           \/ \E t \in Time : ReceiveDelayReq(t)
           \/ ReaderStep
    PROVE  IInv'
<1>1. Panic \/ \E r : Step(r)
  BY DEF Renew, GrantRequest, ReceiveDelayReq, ReaderStep, CheckMaxSubDuration,
         ResetTicker, UpdateAnnounceDelayReq, NextMessage, SendAnswer
<1> QED BY <1>1, PanicSafe, StepSafe

(***************************************************************************)
(* Every step of the system keeps the invariant.                           *)
(***************************************************************************)
LEMMA NextSafe == IInv /\ [Next]_vars => IInv'
<1> SUFFICES ASSUME IInv, [Next]_vars PROVE IInv'
  OBVIOUS
<1>1. CASE Life
  BY <1>1, LifeSafe
<1>2. CASE WriteFinishes \/ \E c \in Contents : Replace(c) \/ WriteTruncates(c)
  BY <1>2, EditSafe
<1>3. CASE Sighup
  BY <1>3, QuietSafe DEF Sighup, editVars
<1>4. CASE HupStep
  BY <1>4, HupSafe
<1>5. CASE \/ \E i \in LogInterval : Renew(i) \/ \E d \in DurationField : GrantRequest(i, d)
           \/ \E t \in Time : ReceiveDelayReq(t)
           \/ ReaderStep
  BY <1>5, ReadersSafe
<1>6. CASE UNCHANGED vars
  BY <1>6, QuietSafe DEF vars, editVars, memVars
<1> QED BY <1>1, <1>2, <1>3, <1>4, <1>5, <1>6 DEF Next

(***************************************************************************)
(* The invariant holds throughout.                                         *)
(***************************************************************************)
THEOREM ReloadInvariant == Spec => []IInv
BY InitSafe, NextSafe, PTL DEF Spec

(***************************************************************************)
(* The pid file names the process that runs, or is gone after a graceful   *)
(* end, whatever starts, failures, kills and reloads came before.          *)
(***************************************************************************)
THEOREM PidFileTheorem == Spec => []PidFileCurrent
<1>1. IInv => PidFileCurrent
  BY DEF IInv
<1> QED BY <1>1, ReloadInvariant, PTL

(***************************************************************************)
(* The configuration in force is valid, and while it is being copied its   *)
(* UTC offset and signs are right all the same, for every content of the   *)
(* file and every order of the stores.                                     *)
(***************************************************************************)
THEOREM ConfigTheorem == Spec => []ConfigValidated
<1>1. IInv => ConfigValidated
  BY DEF IInv, CopyInv, ConfigValidated
<1> QED BY <1>1, ReloadInvariant, PTL

(***************************************************************************)
(* An accepted DSCP survives the shift into a byte.                        *)
(***************************************************************************)
LEMMA AcceptedFlags ==
    ASSUME NEW f \in Flags, Validate(f)
    PROVE  Enable(f) \div 4 = f.DSCP
<1>1. f.DSCP \in 0 .. 63
  BY DEF Validate, ValidDSCP
<1>2. \A n \in 0 .. 63 : ((n * 4) % 256) \div 4 = n
  OBVIOUS
<1> QED BY <1>1, <1>2 DEF Enable

\* A worker that is ready has its traffic class from accepted flags.
LEMMA HonoursDSCP == IInv => DSCPHonoured
BY AcceptedFlags DEF IInv, FlagInv, DSCPHonoured

(***************************************************************************)
(* The sockets of every worker have the traffic class of the flags, for    *)
(* every flags that the server accepts and any number of workers.          *)
(***************************************************************************)
THEOREM DSCPTheorem == Spec => []DSCPHonoured
BY HonoursDSCP, ReloadInvariant, PTL

-----------------------------------------------------------------------------
(***************************************************************************)
(* Panics.  Listeners come after the workers, of which none is lost while  *)
(* the process lives; and an interval that awaits its second limit was     *)
(* compared with a minimum that was not negative.                          *)
(***************************************************************************)
WorkersInv ==
    /\ DOMAIN listener = Listener
    /\ \A l \in Listener : listener[l] # "none" => main = "select"
    /\ main = "select" => FindsWorker

ReaderInv ==
    /\ DOMAIN reader = DOMAIN IdleReader
    /\ reader.pc = "max" =>
        /\ reader.interval \in Int /\ reader.min \in Nat
        /\ reader.interval >= reader.min

(***************************************************************************)
(* What findWorker finds depends on the workers that exist, not on how far *)
(* they are.                                                               *)
(***************************************************************************)
LEMMA FindsWorkerUnchanged ==
    ASSUME UNCHANGED flags, \A i \in SendWorker : sw'[i] = "nil" <=> sw[i] = "nil"
    PROVE  FindsWorker' = FindsWorker
<1>1. {i \in SendWorker : sw'[i] # "nil"} = {i \in SendWorker : sw[i] # "nil"}
  OBVIOUS
<1>2. Workers' = Workers
  BY <1>1 DEF Workers
<1> QED BY <1>2 DEF FindsWorker

\* There is nobody to panic at first.
LEMMA InitWorkers == Init => WorkersInv /\ ReaderInv
BY DEF Init, StartupInit, WorkersInv, ReaderInv, NoListeners, IdleReader

(***************************************************************************)
(* The workers outlive every step but the end of the process.              *)
(***************************************************************************)
LEMMA WorkersStep == IInv /\ WorkersInv /\ [Next]_vars => WorkersInv'
<1> SUFFICES ASSUME IInv, WorkersInv, [Next]_vars PROVE WorkersInv'
  OBVIOUS
<1>1. ASSUME NEW how, Exit(how) PROVE WorkersInv'
  BY <1>1 DEF Exit, WorkersInv, NoListeners
<1>2. ASSUME UNCHANGED <<main, flags, listener>>,
             \A i \in SendWorker : sw'[i] = "nil" <=> sw[i] = "nil"
      PROVE  WorkersInv'
  BY <1>2, FindsWorkerUnchanged DEF WorkersInv
<1>3. ASSUME UNCHANGED listener, main # "select", main' # "select" PROVE WorkersInv'
  BY <1>3 DEF WorkersInv
<1>4. CASE Life
  <2>1. ASSUME NEW f \in Flags, Exec(f) PROVE WorkersInv'
    BY <1>3, <2>1 DEF Exec, bootVars, IInv, PlaceInv
  <2>2. CASE ReadConfig \/ ValidateConfig \/ CreatePidFile \/ SetClockIdentity
    BY <1>1, <1>3, <2>2
       DEF ReadConfig, ValidateConfig, CreatePidFile, SetClockIdentity, Main, bootVars
  <2>3. CASE NewSendWorker
    BY <1>1, <1>3, <2>3 DEF NewSendWorker, procVars
  <2>4. CASE Spawn
    <3>1. Validate(flags)
      BY <2>4 DEF Spawn, GoWatches, Main, IInv, FlagInv
    <3>2. flags.SendWorkers > 0
      BY <3>1 DEF Validate, ValidSendWorkers
    <3>3. FindsWorker
      BY <2>4, <3>2 DEF Spawn, GoWatches, FindsWorker
    <3>4. FindsWorker'
      BY <2>4, <3>3, FindsWorkerUnchanged DEF Spawn, GoWatches
    <3> QED BY <2>4, <3>4 DEF Spawn, GoWatches, Main, WorkersInv
  <2>5. CASE \/ HTTPFails \/ StartFails \/ SocketFails \/ DeletePidFile
             \/ DeletePidFileFails \/ Killed
    BY <1>1, <2>5 DEF HTTPFails, StartFails, SocketFails, DeletePidFile,
                      DeletePidFileFails, Killed
  <2>6. ASSUME NEW i \in SendWorker, Listen(i) PROVE WorkersInv'
    <3>1. \A j \in SendWorker : sw'[j] = "nil" <=> sw[j] = "nil"
      BY <2>6 DEF Listen, IInv, FlagInv
    <3> QED BY <1>2, <2>6, <3>1 DEF Listen, procVars
  <2>7. ASSUME NEW l \in Listener, StartListener(l) PROVE WorkersInv'
    <3>1. FindsWorker' = FindsWorker
      BY <2>7, FindsWorkerUnchanged DEF StartListener, procVars
    <3> QED BY <2>7, <3>1 DEF StartListener, procVars, WorkersInv
  <2>8. CASE Sigterm \/ \E s \in Watch : Notify(s)
    BY <1>2, <2>8 DEF Sigterm, Notify, procVars, bootVars
  <2> QED BY <1>4, <2>1, <2>2, <2>3, <2>4, <2>5, <2>6, <2>7, <2>8
          DEF Life, StartupNext, MainStep, SocketStep, SignalStep
<1>5. CASE \/ WriteFinishes \/ Sighup \/ HupStep
           \/ \E c \in Contents : Replace(c) \/ WriteTruncates(c)
  <2>1. UNCHANGED <<procVars, bootVars>>
    BY <1>5 DEF WriteFinishes, Replace, WriteTruncates, Sighup, HupStep, ReceiveSighup,
                ReloadConfig, Copied, CopyField, startupVars
  <2> QED BY <1>2, <2>1 DEF procVars, bootVars
<1>6. ASSUME NEW r, Step(r) PROVE WorkersInv'
  BY <1>2, <1>6 DEF Step, startupVars, procVars, bootVars
<1>7. CASE Panic
  BY <1>1, <1>7 DEF Panic
<1>8. CASE \/ \E i \in LogInterval : Renew(i) \/ \E d \in DurationField : GrantRequest(i, d)
           \/ \E t \in Time : ReceiveDelayReq(t)
           \/ ReaderStep
  BY <1>6, <1>7, <1>8
     DEF Renew, GrantRequest, ReceiveDelayReq, ReaderStep, CheckMaxSubDuration,
         ResetTicker, UpdateAnnounceDelayReq, NextMessage, SendAnswer
<1>9. CASE UNCHANGED vars
  BY <1>2, <1>9 DEF vars, startupVars, procVars, bootVars
<1> QED BY <1>4, <1>5, <1>8, <1>9 DEF Next

(***************************************************************************)
(* Only a grant request brings the reader to its second limit, and the     *)
(* copy of a configuration does not change what the reader has kept.       *)
(***************************************************************************)
LEMMA ReaderStepSafe == IInv /\ ReaderInv /\ [Next]_vars => ReaderInv'
<1> SUFFICES ASSUME IInv, ReaderInv, [Next]_vars PROVE ReaderInv'
  OBVIOUS
<1>1. CASE UNCHANGED reader
  BY <1>1 DEF ReaderInv
<1>2. CASE reader' = IdleReader
  BY <1>2 DEF ReaderInv, IdleReader
<1>3. CASE Life
  BY <1>1, <1>2, <1>3 DEF Life, memVars, ForgetAll
<1>4. CASE \/ WriteFinishes \/ Sighup \/ ReceiveSighup \/ ReloadConfig \/ Copied
           \/ \E c \in Contents : Replace(c) \/ WriteTruncates(c)
  BY <1>1, <1>4 DEF WriteFinishes, Replace, WriteTruncates, Sighup, ReceiveSighup,
                    ReloadConfig, Copied, memVars
<1>5. ASSUME NEW k \in Field, CopyField(k) PROVE ReaderInv'
  BY <1>5 DEF CopyField, ReaderInv, IdleReader
<1>6. ASSUME NEW i \in LogInterval, NEW d \in DurationField, GrantRequest(i, d)
      PROVE  ReaderInv'
  <2>1. CASE Panic
    BY <1>2, <2>1 DEF Panic, ForgetAll
  <2>2. ASSUME NEW n \in Duration(i), n >= cfg.MinSubInterval,
               Step([IdleReader EXCEPT !.pc = "max", !.log = i, !.interval = n,
                                       !.duration = d * Sec, !.min = cfg.MinSubInterval])
        PROVE  ReaderInv'
    <3>1. n \in Int
      BY DurationInteger, ReloadAssumption
    <3>2. cfg.MinSubInterval \in Nat
      BY Fields DEF IInv, CopyInv
    <3> QED BY <2>2, <3>1, <3>2 DEF Step, ReaderInv, IdleReader
  <2> QED BY <1>6, <2>1, <2>2 DEF GrantRequest
<1>7. ASSUME NEW i \in LogInterval, Renew(i) PROVE ReaderInv'
  BY <1>7 DEF Renew, Step, ReaderInv, IdleReader
<1>8. ASSUME NEW t \in Time, ReceiveDelayReq(t) PROVE ReaderInv'
  BY <1>2, <1>8 DEF ReceiveDelayReq, Panic, ForgetAll, Step, ReaderInv, IdleReader
<1>9. CASE ReaderStep
  <2>1. CASE CheckMaxSubDuration
    BY <1>2, <2>1 DEF CheckMaxSubDuration, Panic, ForgetAll, Step, ReaderInv, IdleReader
  <2>2. CASE ResetTicker
    BY <1>2, <2>2 DEF ResetTicker, Panic, ForgetAll, Step, ReaderInv, IdleReader
  <2>3. CASE UpdateAnnounceDelayReq
    BY <2>3 DEF UpdateAnnounceDelayReq, Step, ReaderInv, IdleReader
  <2>4. CASE NextMessage
    BY <1>2, <2>4 DEF NextMessage, Step
  <2>5. ASSUME NEW t \in Time, SendAnswer(t) PROVE ReaderInv'
    BY <2>5 DEF SendAnswer, Step, ReaderInv, IdleReader
  <2> QED BY <1>9, <2>1, <2>2, <2>3, <2>4, <2>5 DEF ReaderStep
<1>10. CASE UNCHANGED vars
  BY <1>1, <1>10 DEF vars, memVars
<1> QED BY <1>3, <1>4, <1>5, <1>6, <1>7, <1>8, <1>9, <1>10 DEF Next, HupStep

(***************************************************************************)
(* The two steps that may panic.                                           *)
(***************************************************************************)
MayPanic ==
    Up /\ status' = "panic" =>
        reader.pc = "renewed" \/ (reader.pc = "max" /\ reader.min = 0)

\* No other step panics.
LEMMA PanicStep == IInv /\ WorkersInv /\ ReaderInv /\ [Next]_vars => [MayPanic]_vars
<1> SUFFICES ASSUME IInv, WorkersInv, ReaderInv, [Next]_vars, Up, status' = "panic"
             PROVE  reader.pc = "renewed" \/ (reader.pc = "max" /\ reader.min = 0)
  BY DEF MayPanic
<1>1. status' # status
  BY DEF Up
<1>2. ASSUME NEW l \in Listener, Receiving(l) PROVE FindsWorker
  BY <1>2 DEF Receiving, WorkersInv
<1>3. CASE Life
  <2>1. CASE NewSendWorker
    <3>1. Exit("panic") /\ flags.QueueSize < 0 /\ main = "workers"
      BY <1>1, <2>1 DEF NewSendWorker, procVars
    <3>2. Validate(flags)
      BY <3>1 DEF IInv, FlagInv
    <3>3. flags.QueueSize >= 0
      BY <3>2 DEF Validate
    <3>4. flags.QueueSize \in Int
      BY StartupAssumption DEF IInv, FlagInv
    <3> QED BY <3>1, <3>3, <3>4
  <2>2. ~ (\/ \E f \in Flags : Exec(f)
           \/ ReadConfig \/ ValidateConfig \/ CreatePidFile \/ SetClockIdentity \/ Spawn
           \/ HTTPFails \/ StartFails \/ SocketStep \/ SocketFails
           \/ SignalStep \/ DeletePidFileFails \/ Sigterm \/ Killed)
    BY <1>1 DEF Up, Exec, ReadConfig, ValidateConfig, CreatePidFile, SetClockIdentity, Spawn, GoWatches,
                HTTPFails, StartFails, SocketStep, SocketFails, SignalStep, Listen,
                StartListener, Notify, DeletePidFile, DeletePidFileFails, Sigterm, Killed,
                Exit, procVars
  <2> QED BY <1>3, <2>1, <2>2 DEF Life, StartupNext, MainStep
<1>4. ~ (\/ WriteFinishes \/ Sighup \/ HupStep \/ UNCHANGED vars
         \/ \E c \in Contents : Replace(c) \/ WriteTruncates(c))
  BY <1>1 DEF WriteFinishes, Replace, WriteTruncates, Sighup, HupStep, ReceiveSighup,
              ReloadConfig, Copied, CopyField, vars, startupVars, procVars
<1>5. ASSUME NEW r PROVE ~ Step(r)
  BY <1>1 DEF Step, startupVars, procVars
<1>6. ~ ((\E i \in LogInterval, d \in DurationField : GrantRequest(i, d))
         \/ \E t \in Time : ReceiveDelayReq(t))
  BY <1>2, <1>5 DEF GrantRequest, ReceiveDelayReq, Listener
<1>7. ~ ((\E i \in LogInterval : Renew(i)) \/ UpdateAnnounceDelayReq \/ NextMessage
         \/ \E t \in Time : SendAnswer(t))
  BY <1>5 DEF Renew, UpdateAnnounceDelayReq, NextMessage, SendAnswer
<1>8. CASE ResetTicker
  BY <1>8 DEF ResetTicker
<1>9. CASE CheckMaxSubDuration
  <2>1. reader.pc = "max" /\ reader.interval <= 0
    BY <1>5, <1>9 DEF CheckMaxSubDuration
  <2> QED BY <2>1 DEF ReaderInv
<1> QED BY <1>3, <1>4, <1>6, <1>7, <1>8, <1>9 DEF Next, ReaderStep

(***************************************************************************)
(* The process panics only for a minimum interval of 0 or for a renewal:   *)
(* no handler misses its worker, no queue has a negative size, and no      *)
(* interval that overflowed is granted, for every set of flags, files,     *)
(* intervals and durations.                                                *)
(***************************************************************************)
THEOREM PanicTheorem == Spec => NoPanic
<1>1. Spec => [](WorkersInv /\ ReaderInv)
  BY ReloadInvariant, InitWorkers, WorkersStep, ReaderStepSafe, PTL DEF Spec
<1>2. Spec => [][MayPanic]_vars
  BY <1>1, ReloadInvariant, PanicStep, PTL DEF Spec
<1> QED BY <1>2 DEF NoPanic, MayPanic

-----------------------------------------------------------------------------
(***************************************************************************)
(* Types: of the process and its sockets, and of what it has in memory.    *)
(***************************************************************************)
ProcTypes ==
    /\ boot \in 0 .. MaxBoots /\ pidFile \in 0 .. MaxBoots
    /\ status \in {"off", "up", "ok", "error", "killed", "panic"}
    /\ main \in {"none", "config", "validate", "pidfile", "identity", "workers", "select"}
    /\ tos \in [SendWorker -> 0 .. 255]
    /\ listener \in [Listener -> {"none", "spawned", "ready"}]
    /\ watch \in [Watch -> {"none", "spawned", "idle", "drain"}]

HupRecord == [pc : {"idle", "read", "copy"}, dc : [Field -> Int], todo : SUBSET Field]

MemTypes ==
    /\ edits \in 0 .. MaxEdits /\ fresh \in BOOLEAN /\ sigs \in 0 .. SigBuffer
    /\ hup \in HupRecord /\ reader \in ReaderRecord

\* A traffic class that a worker sets is a byte.
LEMMA EnableByte ==
    ASSUME NEW f \in Flags, Validate(f)
    PROVE  Enable(f) \in 0 .. 255
<1>1. f.DSCP \in 0 .. 63
  BY DEF Validate, ValidDSCP
<1> QED BY <1>1 DEF Enable

\* The types of the process outlive its end.
LEMMA ExitTypes ==
    ASSUME ProcTypes, NEW how \in {"ok", "error", "killed", "panic"}, Exit(how),
           pidFile' \in {0, pidFile}
    PROVE  ProcTypes'
BY StartupAssumption DEF ProcTypes, Exit, NoSockets, NoListeners, NoWatches

\* Every step of the process keeps its types.
LEMMA ProcTypesStep == IInv /\ ProcTypes /\ [Next]_vars => ProcTypes'
<1> SUFFICES ASSUME IInv, ProcTypes, [Next]_vars PROVE ProcTypes'
  OBVIOUS
<1>1. ASSUME UNCHANGED <<procVars, bootVars, watch, pidFile>> PROVE ProcTypes'
  BY <1>1 DEF ProcTypes, procVars, bootVars
<1>2. CASE Life
  <2>1. ASSUME NEW f \in Flags, Exec(f) PROVE ProcTypes'
    <3>1. boot \in Nat /\ boot < MaxBoots /\ boot' = boot + 1 /\ MaxBoots \in Nat
      BY <2>1, StartupAssumption DEF Exec, ProcTypes
    <3>2. boot' \in 0 .. MaxBoots
      BY <3>1
    <3> QED BY <2>1, <3>2 DEF Exec, bootVars, ProcTypes
  <2>2. CASE ReadConfig \/ ValidateConfig
    <3>1. CASE Exit("error") /\ UNCHANGED pidFile
      BY <3>1, ExitTypes
    <3>2. CASE /\ main' \in {"validate", "pidfile"}
               /\ UNCHANGED <<boot, status, bootVars, watch, pidFile>>
      BY <3>2 DEF ProcTypes, bootVars
    <3> QED BY <2>2, <3>1, <3>2 DEF ReadConfig, ValidateConfig, Main
  <2>3. CASE CreatePidFile \/ SetClockIdentity
    <3>1. pidFile' \in {boot, pidFile}
      BY <2>3 DEF CreatePidFile, SetClockIdentity
    <3> QED BY <2>3, <3>1 DEF CreatePidFile, SetClockIdentity, Main, ProcTypes, bootVars
  <2>4. CASE NewSendWorker
    <3>1. CASE Exit("panic") /\ UNCHANGED pidFile
      BY <3>1, ExitTypes
    <3>2. CASE UNCHANGED <<procVars, tos, listener, watch, pidFile>>
      BY <3>2 DEF ProcTypes, procVars
    <3> QED BY <2>4, <3>1, <3>2 DEF NewSendWorker
  <2>5. CASE Spawn
    BY <2>5 DEF Spawn, GoWatches, Main, ProcTypes
  <2>6. CASE HTTPFails \/ StartFails \/ SocketFails \/ DeletePidFileFails
    <3>1. Exit("error") /\ UNCHANGED pidFile
      BY <2>6 DEF HTTPFails, StartFails, SocketFails, DeletePidFileFails
    <3> QED BY <3>1, ExitTypes
  <2>7. CASE DeletePidFile \/ Killed
    <3>1. pidFile' \in {0, pidFile} /\ (Exit("ok") \/ Exit("killed"))
      BY <2>7 DEF DeletePidFile, Killed
    <3> QED BY <3>1, ExitTypes
  <2>8. ASSUME NEW i \in SendWorker, Listen(i) PROVE ProcTypes'
    <3>1. Validate(flags) /\ flags \in Flags
      BY <2>8 DEF Listen, IInv, FlagInv
    <3>2. Enable(flags) \in 0 .. 255
      BY <3>1, EnableByte
    <3> QED BY <2>8, <3>2 DEF Listen, procVars, ProcTypes
  <2>9. ASSUME NEW l \in Listener, StartListener(l) PROVE ProcTypes'
    BY <2>9 DEF StartListener, procVars, ProcTypes
  <2>10. ASSUME NEW s \in Watch, Notify(s) PROVE ProcTypes'
    BY <2>10 DEF Notify, procVars, bootVars, ProcTypes
  <2>11. CASE Sigterm
    BY <2>11 DEF Sigterm, procVars, bootVars, ProcTypes
  <2> QED BY <1>2, <2>1, <2>2, <2>3, <2>4, <2>5, <2>6, <2>7, <2>8, <2>9, <2>10, <2>11
          DEF Life, StartupNext, MainStep, SocketStep, SignalStep
<1>3. CASE \/ WriteFinishes \/ Sighup \/ HupStep
           \/ \E c \in Contents : Replace(c) \/ WriteTruncates(c)
  <2>1. UNCHANGED <<procVars, bootVars, watch, pidFile>>
    BY <1>3 DEF WriteFinishes, Replace, WriteTruncates, Sighup, HupStep, ReceiveSighup,
                ReloadConfig, Copied, CopyField, startupVars
  <2> QED BY <1>1, <2>1
<1>4. ASSUME NEW r, Step(r) PROVE ProcTypes'
  BY <1>1, <1>4 DEF Step, startupVars
<1>5. CASE Panic
  BY <1>5, ExitTypes DEF Panic
<1>6. CASE \/ \E i \in LogInterval : Renew(i) \/ \E d \in DurationField : GrantRequest(i, d)
           \/ \E t \in Time : ReceiveDelayReq(t)
           \/ ReaderStep
  BY <1>4, <1>5, <1>6
     DEF Renew, GrantRequest, ReceiveDelayReq, ReaderStep, CheckMaxSubDuration,
         ResetTicker, UpdateAnnounceDelayReq, NextMessage, SendAnswer
<1>7. CASE UNCHANGED vars
  BY <1>1, <1>7 DEF vars, startupVars
<1> QED BY <1>2, <1>3, <1>6, <1>7 DEF Next

(***************************************************************************)
(* Arithmetic: seconds and the rest make up a time, and a seconds field    *)
(* holds every number of seconds below SecondsMod.                         *)
(***************************************************************************)
LEMMA DivMod ==
    ASSUME NEW x \in Nat
    PROVE  /\ x \div Sec \in Nat /\ x % Sec \in 0 .. Sec - 1
           /\ x = (x \div Sec) * Sec + (x % Sec)
BY ValuesAssumption

\* Fields of a timestamp hold what is put into them.
LEMMA TimestampTyped ==
    ASSUME NEW x \in Nat
    PROVE  NewTimestamp(x) \in [Seconds : 0 .. SecondsMod - 1, Nanoseconds : 0 .. Sec - 1]
<1>1. x \div Sec \in Nat /\ x % Sec \in 0 .. Sec - 1
  BY DivMod
<1>2. \A q \in Nat : q % SecondsMod \in 0 .. SecondsMod - 1
  BY ValuesAssumption
<1> QED BY <1>1, <1>2 DEF NewTimestamp

\* Before the seconds wrap, a timestamp is read as the time it was made from.
LEMMA TimestampExact ==
    ASSUME NEW x \in Nat, x < SecondsMod * Sec
    PROVE  TimeOf(NewTimestamp(x)) = x
<1>1. /\ x \div Sec \in Nat /\ x % Sec \in Nat /\ SecondsMod \in Nat \ {0} /\ Sec \in Nat \ {0}
      /\ x = (x \div Sec) * Sec + (x % Sec)
  BY DivMod, ValuesAssumption
<1>2. x \div Sec < SecondsMod
  <2> SUFFICES ASSUME x \div Sec >= SecondsMod PROVE FALSE
    BY <1>1
  <2>1. \A q \in Nat : q >= SecondsMod => q * Sec >= SecondsMod * Sec
    BY ValuesAssumption
  <2>2. (x \div Sec) * Sec >= SecondsMod * Sec
    BY <1>1, <2>1
  <2> QED BY <1>1, <2>2
<1>3. \A q \in Nat : q < SecondsMod => q % SecondsMod = q
  BY ValuesAssumption
<1>4. (x \div Sec) % SecondsMod = x \div Sec
  BY <1>1, <1>2, <1>3
<1> QED BY <1>1, <1>4 DEF NewTimestamp, TimeOf

\* Whole seconds are not truncated.
LEMMA WholeExact ==
    ASSUME NEW d \in Nat, d % Sec = 0
    PROVE  WholeSeconds(d) \in Int /\ WholeSeconds(d) * Sec = d
<1>1. /\ d \div Sec \in Nat /\ d % Sec \in Nat /\ Sec \in Nat
      /\ d = (d \div Sec) * Sec + (d % Sec)
  BY DivMod, ValuesAssumption
<1>2. (d \div Sec) * Sec \in Nat
  BY <1>1
<1> QED BY <1>1, <1>2 DEF WholeSeconds

-----------------------------------------------------------------------------
\* The times that are put into a packet.
LEMMA CorrectedTime ==
    ASSUME IInv, NEW t \in Time
    PROVE  /\ t \in Nat /\ Corrected(t) \in Nat /\ cfg.UTCOffset \in Nat
           /\ Corrected(t) < SecondsMod * Sec
           /\ flags.TimestampType = HW => Corrected(t) = t + TrueUTCOffset
           /\ flags.TimestampType # HW => Corrected(t) = t + cfg.UTCOffset
<1>1. t \in Nat /\ TrueUTCOffset \in Nat /\ Sec \in Nat /\ SecondsMod * Sec \in Nat
  BY ReloadAssumption, ValuesAssumption
<1>2. cfg.UTCOffset \in Nat /\ cfg.UTCOffset <= 50 * Sec
  BY Fields DEF IInv, CopyInv
<1>3. t + 50 * Sec < SecondsMod * Sec /\ t + TrueUTCOffset < SecondsMod * Sec
  BY TimeAssumption
<1>4. t + cfg.UTCOffset < SecondsMod * Sec
  BY <1>1, <1>2, <1>3
<1> QED BY <1>1, <1>2, <1>3, <1>4 DEF Corrected, Clock

\* The reader starts out typed.
LEMMA IdleReaderTyped == IdleReader \in ReaderRecord
<1>1. NewTimestamp(0) \in [Seconds : 0 .. SecondsMod - 1, Nanoseconds : 0 .. Sec - 1]
  BY TimestampTyped
<1> QED BY <1>1 DEF IdleReader, ReaderRecord

\* handleSighup between two signals.
LEMMA IdleTyped == Idle \in HupRecord
BY DefaultOK DEF Idle, HupRecord, DynamicOK

\* What the reader keeps has its type after every step it takes.
LEMMA ReaderTypes ==
    ASSUME IInv, reader \in ReaderRecord, [Next]_vars
    PROVE  reader' \in ReaderRecord
<1>1. CASE UNCHANGED reader
  BY <1>1
<1>2. CASE reader' = IdleReader
  BY <1>2, IdleReaderTyped
<1>3. CASE Life
  BY <1>1, <1>2, <1>3 DEF Life, memVars, ForgetAll
<1>4. CASE \/ WriteFinishes \/ Sighup \/ ReceiveSighup \/ ReloadConfig \/ Copied
           \/ \E c \in Contents : Replace(c) \/ WriteTruncates(c)
  BY <1>1, <1>4 DEF WriteFinishes, Replace, WriteTruncates, Sighup, ReceiveSighup,
                    ReloadConfig, Copied, memVars
<1>5. ASSUME NEW k \in Field, CopyField(k) PROVE reader' \in ReaderRecord
  <2> DEFINE b == reader.clean /\ reader.pc \notin {"announce", "answer", "answered"}
  <2>1. reader' = [reader EXCEPT !.clean = b]
    BY <1>5 DEF CopyField
  <2>2. b \in BOOLEAN
    OBVIOUS
  <2> HIDE DEF b
  <2> QED BY <2>1, <2>2 DEF ReaderRecord
<1>6. ASSUME NEW i \in LogInterval, NEW d \in DurationField, GrantRequest(i, d)
      PROVE  reader' \in ReaderRecord
  <2>1. CASE Panic
    BY <1>2, <2>1 DEF Panic, ForgetAll
  <2>2. ASSUME NEW n \in Duration(i),
               Step([IdleReader EXCEPT !.pc = "max", !.log = i, !.interval = n,
                                       !.duration = d * Sec, !.min = cfg.MinSubInterval])
        PROVE  reader' \in ReaderRecord
    <3>1. n \in Int
      BY DurationInteger, ReloadAssumption
    <3>2. cfg.MinSubInterval \in Int
      BY Fields DEF IInv, CopyInv
    <3>3. d * Sec \in Nat
      BY ReloadAssumption, ValuesAssumption
    <3> QED BY <2>2, <3>1, <3>2, <3>3, IdleReaderTyped DEF Step, ReaderRecord
  <2> QED BY <1>6, <2>1, <2>2 DEF GrantRequest
<1>7. ASSUME NEW i \in LogInterval, Renew(i) PROVE reader' \in ReaderRecord
  <2>1. PICK n \in Duration(i) : Step([reader EXCEPT !.pc = "renewed", !.log = i, !.interval = n])
    BY <1>7 DEF Renew
  <2>2. n \in Int
    BY DurationInteger, ReloadAssumption
  <2> QED BY <2>1, <2>2 DEF Step, ReaderRecord
<1>8. ASSUME NEW t \in Time, ReceiveDelayReq(t) PROVE reader' \in ReaderRecord
  <2>1. NewTimestamp(Corrected(t)) \in [Seconds : 0 .. SecondsMod - 1, Nanoseconds : 0 .. Sec - 1]
    BY CorrectedTime, TimestampTyped
  <2>2. CASE Panic
    BY <1>2, <2>2 DEF Panic, ForgetAll
  <2>3. CASE Step([IdleReader EXCEPT !.pc = "announce", !.t = t,
                                     !.wire = NewTimestamp(Corrected(t))])
    BY <2>1, <2>3, CorrectedTime, IdleReaderTyped DEF Step, ReaderRecord
  <2> QED BY <1>8, <2>2, <2>3 DEF ReceiveDelayReq
<1>9. CASE CheckMaxSubDuration
  <2>1. CASE reader' = [reader EXCEPT !.pc = "ticking", !.duration = 0, !.min = 0]
    <3> DEFINE r == [reader EXCEPT !.duration = 0]
               q == [r EXCEPT !.min = 0]
    <3>1. r \in ReaderRecord
      BY DEF ReaderRecord
    <3>2. reader' = [q EXCEPT !.pc = "ticking"]
      BY <2>1 DEF ReaderRecord
    <3> HIDE DEF r
    <3>3. q \in ReaderRecord
      BY <3>1 DEF ReaderRecord
    <3> HIDE DEF q
    <3> QED BY <3>2, <3>3 DEF ReaderRecord
  <2> QED BY <1>2, <1>9, <2>1 DEF CheckMaxSubDuration, Panic, ForgetAll, Step
<1>10. CASE ResetTicker
  BY <1>2, <1>10 DEF ResetTicker, Panic, ForgetAll, Step, ReaderRecord
<1>11. CASE UpdateAnnounceDelayReq
  <2>1. cfg.UTCOffset \in Nat
    BY Fields DEF IInv, CopyInv
  <2>2. WholeSeconds(cfg.UTCOffset) \in Int
    BY <2>1, DivMod DEF WholeSeconds
  <2> QED BY <1>11, <2>2 DEF UpdateAnnounceDelayReq, Step, ReaderRecord
<1>12. CASE NextMessage
  BY <1>2, <1>12 DEF NextMessage, Step
<1>13. ASSUME NEW t \in Time, SendAnswer(t) PROVE reader' \in ReaderRecord
  <2>1. NewTimestamp(Corrected(t)) \in [Seconds : 0 .. SecondsMod - 1, Nanoseconds : 0 .. Sec - 1]
    BY CorrectedTime, TimestampTyped
  <2> QED BY <1>13, <2>1, CorrectedTime DEF SendAnswer, Step, ReaderRecord
<1>14. CASE UNCHANGED vars
  BY <1>1, <1>14 DEF vars, memVars
<1> QED BY <1>3, <1>4, <1>5, <1>6, <1>7, <1>8, <1>9, <1>10, <1>11, <1>12, <1>13, <1>14
        DEF Next, HupStep, ReaderStep

\* What handleSighup keeps has its type.
LEMMA HupTypes ==
    ASSUME IInv, hup \in HupRecord, [Next]_vars
    PROVE  hup' \in HupRecord
<1>1. CASE UNCHANGED hup
  BY <1>1
<1>2. CASE hup' = Idle
  BY <1>2, IdleTyped
<1>3. CASE Life
  BY <1>1, <1>2, <1>3 DEF Life, memVars, ForgetAll
<1>4. CASE \/ WriteFinishes \/ Sighup
           \/ \E c \in Contents : Replace(c) \/ WriteTruncates(c)
  BY <1>1, <1>4 DEF WriteFinishes, Replace, WriteTruncates, Sighup, memVars
<1>5. CASE ReceiveSighup
  BY <1>5 DEF ReceiveSighup, HupRecord
<1>6. CASE ReloadConfig
  <2>1. CASE hup' = Idle
    BY <1>2, <2>1
  <2>2. CASE /\ Reads(file)
             /\ hup' = [pc |-> "copy", dc |-> ReadDynamicConfig(file),
                        todo |-> {k \in Field : ReadDynamicConfig(file)[k] # cfg[k]}]
    <3>1. ReadDynamicConfig(file) \in [Field -> Int]
      BY <2>2, ReadOK DEF IInv, FileInv, DynamicOK
    <3> QED BY <2>2, <3>1 DEF HupRecord
  <2> QED BY <1>6, <2>1, <2>2 DEF ReloadConfig
<1>7. ASSUME NEW k \in Field, CopyField(k) PROVE hup' \in HupRecord
  BY <1>7 DEF CopyField, HupRecord
<1>8. CASE Copied
  BY <1>2, <1>8 DEF Copied
<1>9. ASSUME NEW r, Step(r) PROVE hup' \in HupRecord
  BY <1>1, <1>9 DEF Step
<1>10. CASE Panic
  BY <1>2, <1>10 DEF Panic, ForgetAll
<1>11. CASE \/ \E i \in LogInterval : Renew(i) \/ \E d \in DurationField : GrantRequest(i, d)
            \/ \E t \in Time : ReceiveDelayReq(t)
            \/ ReaderStep
  BY <1>9, <1>10, <1>11
     DEF Renew, GrantRequest, ReceiveDelayReq, ReaderStep, CheckMaxSubDuration,
         ResetTicker, UpdateAnnounceDelayReq, NextMessage, SendAnswer
<1>12. CASE UNCHANGED vars
  BY <1>1, <1>12 DEF vars, memVars
<1> QED BY <1>3, <1>4, <1>5, <1>6, <1>7, <1>8, <1>11, <1>12 DEF Next, HupStep

\* Signals and edits are counted within their bounds.
LEMMA CountTypes ==
    ASSUME edits \in 0 .. MaxEdits, fresh \in BOOLEAN, sigs \in 0 .. SigBuffer, [Next]_vars
    PROVE  edits' \in 0 .. MaxEdits /\ fresh' \in BOOLEAN /\ sigs' \in 0 .. SigBuffer
<1>1. MaxEdits \in Nat /\ SigBuffer \in Nat /\ edits \in Nat /\ sigs \in Nat
  BY ReloadAssumption
<1>2. CASE UNCHANGED <<edits, sigs>> /\ fresh' \in {fresh, TRUE, FALSE}
  BY <1>2
<1>3. CASE sigs' = 0 /\ fresh' \in {fresh, FALSE} /\ UNCHANGED edits
  <2>1. fresh' \in BOOLEAN
    BY <1>3
  <2>2. 0 \in 0 .. SigBuffer
    BY <1>1
  <2> QED BY <1>3, <2>1, <2>2
<1>4. CASE Life
  BY <1>2, <1>3, <1>4 DEF Life, memVars, ForgetAll, editVars
<1>5. ASSUME NEW c \in Contents, Replace(c) \/ WriteTruncates(c)
      PROVE  edits' \in 0 .. MaxEdits /\ fresh' \in BOOLEAN /\ sigs' \in 0 .. SigBuffer
  <2>1. edits < MaxEdits /\ edits' = edits + 1 /\ fresh' = FALSE /\ sigs' = sigs
    BY <1>5 DEF Replace, WriteTruncates, memVars
  <2>2. edits + 1 \in 0 .. MaxEdits
    BY <1>1, <2>1
  <2>3. fresh' \in BOOLEAN
    BY <2>1
  <2> QED BY <2>1, <2>2, <2>3
<1>6. CASE WriteFinishes
  BY <1>2, <1>6 DEF WriteFinishes, memVars
<1>7. CASE Sighup
  <2>1. /\ UNCHANGED edits /\ fresh' = TRUE
        /\ sigs' = sigs \/ (sigs < SigBuffer /\ sigs' = sigs + 1)
    BY <1>7 DEF Sighup, editVars
  <2> QED BY <1>1, <2>1
<1>8. CASE ReceiveSighup
  <2>1. UNCHANGED <<edits, fresh>> /\ sigs > 0 /\ sigs' = sigs - 1
    BY <1>8 DEF ReceiveSighup, editVars
  <2> QED BY <1>1, <2>1
<1>9. CASE ReloadConfig \/ Copied \/ \E k \in Field : CopyField(k)
  BY <1>2, <1>9 DEF ReloadConfig, Copied, CopyField, editVars
<1>10. ASSUME NEW r, Step(r)
       PROVE  edits' \in 0 .. MaxEdits /\ fresh' \in BOOLEAN /\ sigs' \in 0 .. SigBuffer
  BY <1>2, <1>10 DEF Step, editVars
<1>11. CASE Panic
  BY <1>3, <1>11 DEF Panic, ForgetAll, editVars
<1>12. CASE \/ \E i \in LogInterval : Renew(i) \/ \E d \in DurationField : GrantRequest(i, d)
            \/ \E t \in Time : ReceiveDelayReq(t)
            \/ ReaderStep
  BY <1>10, <1>11, <1>12
     DEF Renew, GrantRequest, ReceiveDelayReq, ReaderStep, CheckMaxSubDuration,
         ResetTicker, UpdateAnnounceDelayReq, NextMessage, SendAnswer
<1>13. CASE UNCHANGED vars
  BY <1>2, <1>13 DEF vars, editVars, memVars
<1> QED BY <1>4, <1>5, <1>6, <1>7, <1>8, <1>9, <1>12, <1>13 DEF Next, HupStep

\* Every variable starts with its type.
LEMMA InitTypes == Init => ProcTypes /\ MemTypes
<1>1. MaxBoots \in Nat /\ MaxEdits \in Nat /\ SigBuffer \in Nat
  BY StartupAssumption, ReloadAssumption
<1>2. 0 \in 0 .. MaxBoots /\ 0 \in 0 .. MaxEdits /\ 0 \in 0 .. SigBuffer /\ 0 \in 0 .. 255
  BY <1>1
<1>3. Init => ProcTypes
  BY <1>2 DEF Init, StartupInit, ProcTypes, NoSockets, NoListeners, NoWatches
<1>4. Init => MemTypes
  <2>1. Init => fresh \in BOOLEAN
    BY DEF Init
  <2> QED BY <1>2, <2>1, IdleTyped, IdleReaderTyped DEF Init, MemTypes
<1> QED BY <1>3, <1>4

(***************************************************************************)
(* The variables of the process, of its configuration and of its readers   *)
(* have their types: a traffic class is a byte, signals stay within the    *)
(* channel's buffer, timestamps within their fields, for every set of      *)
(* flags, files, times and intervals.                                      *)
(***************************************************************************)
THEOREM ReloadTypeCorrect == Spec => []TypeOK
<1>1. IInv /\ MemTypes /\ [Next]_vars => MemTypes'
  BY ReaderTypes, HupTypes, CountTypes DEF MemTypes
<1>2. Spec => [](ProcTypes /\ MemTypes)
  BY <1>1, ReloadInvariant, InitTypes, ProcTypesStep, PTL DEF Spec
<1>3. IInv /\ ProcTypes /\ MemTypes => TypeOK
  BY DEF IInv, FlagInv, CopyInv, FileInv, ProcTypes, MemTypes, HupRecord, TypeOK
<1> QED BY <1>2, <1>3, ReloadInvariant, PTL

-----------------------------------------------------------------------------
(***************************************************************************)
(* The sptp exchange.  As long as nothing was copied since the request     *)
(* came, its timestamp is corrected by the offset in force, and that is    *)
(* the offset which is announced.  No exchange is under way before main    *)
(* has come to its select, where the configuration is read, or flags may   *)
(* change.                                                                 *)
(***************************************************************************)
Exchange == {"announce", "answer", "answered"}

UTCInv ==
    /\ main # "select" => reader.pc = "idle"
    /\ reader.pc \in Exchange /\ reader.clean =>
        reader.t \in Time /\ reader.wire = NewTimestamp(Corrected(reader.t))
    /\ reader.pc \in {"answer", "answered"} /\ reader.clean =>
        reader.offset = WholeSeconds(cfg.UTCOffset)

\* Steps that leave the clock, the offset and the exchange alone.
LEMMA UTCUnchanged ==
    ASSUME UTCInv, UNCHANGED <<main, flags, cfg, reader>>
    PROVE  UTCInv'
BY DEF UTCInv, Corrected, Clock

\* An idle reader has promised nothing.
LEMMA UTCIdle ==
    ASSUME reader'.pc = "idle"
    PROVE  UTCInv'
BY DEF UTCInv, Exchange

\* The life of the process: only its end can meet an exchange.
LEMMA UTCLife ==
    ASSUME IInv, UTCInv, Life
    PROVE  UTCInv'
<1>1. CASE reader' = IdleReader
  BY <1>1, UTCIdle DEF IdleReader
<1>2. CASE UNCHANGED reader /\ main # "select"
  BY <1>2, UTCIdle DEF UTCInv
<1>3. CASE UNCHANGED reader /\ main = "select" /\ Up'
  <2>1. ~ \E how \in {"ok", "error", "killed", "panic"} : Exit(how)
    BY <1>3 DEF Exit, Up
  <2>2. UNCHANGED <<main, flags, cfg>>
    <3>1. ASSUME NEW f \in Flags, Exec(f) PROVE FALSE
      BY <1>3, <3>1 DEF Exec, IInv, PlaceInv
    <3>2. ~ MainStep
      BY <1>3, <2>1 DEF MainStep, ReadConfig, ValidateConfig, CreatePidFile, SetClockIdentity,
                        NewSendWorker, Spawn, GoWatches, Main
    <3>3. ~ (\/ HTTPFails \/ StartFails \/ SocketFails \/ DeletePidFile \/ DeletePidFileFails
             \/ Killed)
      BY <2>1 DEF HTTPFails, StartFails, SocketFails, DeletePidFile, DeletePidFileFails, Killed
    <3>4. CASE SocketStep \/ Sigterm \/ \E s \in Watch : Notify(s)
      BY <3>4 DEF SocketStep, Listen, StartListener, Sigterm, Notify, procVars
    <3> QED BY <3>1, <3>2, <3>3, <3>4 DEF Life, StartupNext, SignalStep
  <2> QED BY <1>3, <2>2, UTCUnchanged
<1> QED BY <1>1, <1>2, <1>3 DEF Life, memVars, ForgetAll

\* Every step keeps the exchange right or marks it.
LEMMA UTCStep == IInv /\ WorkersInv /\ MemTypes /\ UTCInv /\ [Next]_vars => UTCInv'
<1> SUFFICES ASSUME IInv, WorkersInv, reader \in ReaderRecord, UTCInv, [Next]_vars PROVE UTCInv'
  BY DEF MemTypes
<1>1. CASE reader' = IdleReader
  BY <1>1, UTCIdle DEF IdleReader
<1>2. CASE Panic
  BY <1>1, <1>2 DEF Panic, ForgetAll
<1>3. CASE Life
  BY <1>3, UTCLife
<1>4. CASE \/ WriteFinishes \/ Sighup \/ ReceiveSighup \/ ReloadConfig \/ Copied
           \/ \E c \in Contents : Replace(c) \/ WriteTruncates(c)
  <2>1. UNCHANGED <<main, flags, cfg, reader>>
    BY <1>4 DEF WriteFinishes, Replace, WriteTruncates, Sighup, ReceiveSighup,
                ReloadConfig, Copied, memVars, startupVars, procVars
  <2> QED BY <2>1, UTCUnchanged
<1>5. ASSUME NEW k \in Field, CopyField(k) PROVE UTCInv'
  <2>1. /\ UNCHANGED main
        /\ reader' = [reader EXCEPT !.clean = @ /\ reader.pc \notin Exchange]
    BY <1>5 DEF CopyField, procVars, Exchange
  <2>2. reader'.pc = reader.pc /\ (reader.pc \in Exchange => ~ reader'.clean)
    BY <2>1 DEF ReaderRecord
  <2> QED BY <2>1, <2>2 DEF UTCInv, Exchange
<1>6. ASSUME NEW l \in Listener, Receiving(l) PROVE main = "select"
  BY <1>6 DEF Receiving, WorkersInv
<1>7. ASSUME NEW r, Step(r), main = "select", r.pc \notin Exchange PROVE UTCInv'
  BY <1>7 DEF Step, startupVars, procVars, UTCInv, Exchange
<1>8. ASSUME NEW i \in LogInterval, NEW d \in DurationField, GrantRequest(i, d)
      PROVE  UTCInv'
  <2>1. ASSUME NEW n, NEW m,
               Step([IdleReader EXCEPT !.pc = "max", !.log = i, !.interval = n,
                                       !.duration = d * Sec, !.min = m])
        PROVE  UTCInv'
    <3>1. [IdleReader EXCEPT !.pc = "max", !.log = i, !.interval = n,
                             !.duration = d * Sec, !.min = m].pc = "max"
      BY DEF IdleReader
    <3>2. main = "select"
      BY <1>6, <1>8 DEF GrantRequest, Listener
    <3> QED BY <1>7, <2>1, <3>1, <3>2 DEF Exchange
  <2> QED BY <1>2, <1>8, <2>1 DEF GrantRequest
<1>9. ASSUME NEW i \in LogInterval, Renew(i) PROVE UTCInv'
  <2>1. PICK n \in Duration(i) : Step([reader EXCEPT !.pc = "renewed", !.log = i, !.interval = n])
    BY <1>9 DEF Renew
  <2>2. [reader EXCEPT !.pc = "renewed", !.log = i, !.interval = n].pc = "renewed"
    BY DEF ReaderRecord
  <2>3. main = "select"
    BY <1>6, <1>9 DEF Renew, Listener
  <2> QED BY <1>7, <2>1, <2>2, <2>3 DEF Exchange
<1>10. ASSUME NEW t \in Time, ReceiveDelayReq(t) PROVE UTCInv'
  <2>1. CASE Step([IdleReader EXCEPT !.pc = "announce", !.t = t,
                                     !.wire = NewTimestamp(Corrected(t))])
    <3>1. reader'.pc = "announce" /\ reader'.t = t /\ reader'.wire = NewTimestamp(Corrected(t))
      BY <2>1 DEF Step, IdleReader
    <3>2. main = "select"
      BY <1>6, <1>10 DEF ReceiveDelayReq, Listener
    <3>3. UNCHANGED <<main, flags, cfg>>
      BY <2>1 DEF Step, startupVars, procVars
    <3> QED BY <3>1, <3>2, <3>3 DEF UTCInv, Corrected, Clock
  <2> QED BY <1>2, <1>10, <2>1 DEF ReceiveDelayReq
<1>11. ASSUME reader.pc # "idle" PROVE main = "select"
  BY <1>11 DEF UTCInv
<1>12. CASE CheckMaxSubDuration \/ ResetTicker
  <2>1. ASSUME Step([reader EXCEPT !.pc = "ticking", !.duration = 0, !.min = 0]),
               reader.pc = "max"
        PROVE  UTCInv'
    <3>1. [reader EXCEPT !.pc = "ticking", !.duration = 0, !.min = 0].pc = "ticking"
      BY DEF ReaderRecord
    <3> QED BY <1>7, <1>11, <2>1, <3>1 DEF Exchange
  <2>2. ASSUME Step([reader EXCEPT !.pc = "ticking"]), reader.pc = "renewed"
        PROVE  UTCInv'
    <3>1. [reader EXCEPT !.pc = "ticking"].pc = "ticking"
      BY DEF ReaderRecord
    <3> QED BY <1>7, <1>11, <2>2, <3>1 DEF Exchange
  <2> QED BY <1>1, <1>2, <1>12, <2>1, <2>2 DEF CheckMaxSubDuration, ResetTicker, Step
<1>13. CASE UpdateAnnounceDelayReq
  <2>1. /\ reader.pc = "announce"
        /\ reader' = [reader EXCEPT !.pc = "answer", !.offset = WholeSeconds(cfg.UTCOffset)]
        /\ UNCHANGED <<main, flags, cfg>>
    BY <1>13 DEF UpdateAnnounceDelayReq, Step, startupVars, procVars
  <2>2. /\ reader'.pc = "answer" /\ reader'.offset = WholeSeconds(cfg.UTCOffset)
        /\ reader'.t = reader.t /\ reader'.wire = reader.wire /\ reader'.clean = reader.clean
    BY <2>1 DEF ReaderRecord
  <2> QED BY <2>1, <2>2 DEF UTCInv, Exchange, Corrected, Clock
<1>14. CASE NextMessage
  BY <1>1, <1>14 DEF NextMessage, Step
<1>15. ASSUME NEW t \in Time, SendAnswer(t) PROVE UTCInv'
  <2>1. /\ reader.pc = "answer"
        /\ reader' = [reader EXCEPT !.pc = "answered", !.t = t,
                                    !.wire = NewTimestamp(Corrected(t))]
        /\ UNCHANGED <<main, flags, cfg>>
    BY <1>15 DEF SendAnswer, Step, startupVars, procVars
  <2>2. /\ reader'.pc = "answered" /\ reader'.t = t /\ reader'.wire = NewTimestamp(Corrected(t))
        /\ reader'.offset = reader.offset /\ reader'.clean = reader.clean
    BY <2>1 DEF ReaderRecord
  <2> QED BY <2>1, <2>2 DEF UTCInv, Exchange, Corrected, Clock
<1>16. CASE UNCHANGED vars
  BY <1>16, UTCUnchanged DEF vars, startupVars, procVars, memVars
<1> QED BY <1>3, <1>4, <1>5, <1>8, <1>9, <1>10, <1>12, <1>13, <1>14, <1>15, <1>16
        DEF Next, HupStep, ReaderStep

\* What the client computes from the exchange.
LEMMA UTCDerived == IInv /\ UTCInv => ClientDerivesUTC
<1> SUFFICES ASSUME IInv, UTCInv, reader.pc \in {"answer", "answered"}, reader.clean,
                    cfg.UTCOffset % Sec = 0,
                    flags.TimestampType = HW => cfg.UTCOffset = TrueUTCOffset
             PROVE  TimeOf(reader.wire) - reader.offset * Sec = reader.t
  BY DEF ClientDerivesUTC
<1> DEFINE t == reader.t
<1>1. /\ t \in Time /\ reader.wire = NewTimestamp(Corrected(t))
      /\ reader.offset = WholeSeconds(cfg.UTCOffset)
  BY DEF UTCInv, Exchange
<1>2. /\ t \in Nat /\ Corrected(t) \in Nat /\ cfg.UTCOffset \in Nat
      /\ Corrected(t) < SecondsMod * Sec /\ Corrected(t) = t + cfg.UTCOffset
  BY <1>1, CorrectedTime
<1>3. TimeOf(reader.wire) = t + cfg.UTCOffset
  BY <1>1, <1>2, TimestampExact
<1>4. reader.offset * Sec = cfg.UTCOffset
  BY <1>1, <1>2, WholeExact
<1> HIDE DEF t
<1>5. TimeOf(reader.wire) - reader.offset * Sec = t
  BY <1>2, <1>3, <1>4
<1> QED BY <1>5 DEF t

(***************************************************************************)
(* A client that subtracts the announced offset from a timestamp has UTC,  *)
(* for both kinds of timestamps, at both ends of the exchange, under the   *)
(* conditions that ClientDerivesUTC names, at any time before the seconds  *)
(* field wraps.                                                            *)
(***************************************************************************)
THEOREM ClientUTCTheorem == Spec => []ClientDerivesUTC
<1>1. Init => UTCInv
  BY DEF Init, UTCInv, IdleReader, Exchange
<1>2. IInv /\ MemTypes /\ [Next]_vars => MemTypes'
  BY ReaderTypes, HupTypes, CountTypes DEF MemTypes
<1>3. Init => WorkersInv
  BY InitWorkers
<1>4. Init => MemTypes
  BY InitTypes
<1>5. Spec => [](WorkersInv /\ MemTypes /\ UTCInv)
  BY <1>1, <1>2, <1>3, <1>4, ReloadInvariant, WorkersStep, UTCStep, PTL DEF Spec
<1> QED BY <1>5, UTCDerived, ReloadInvariant, PTL

-----------------------------------------------------------------------------
(***************************************************************************)
(* The interval that a subscription has is a duration of the log interval  *)
(* asked for, and one that a ticker has accepted is positive.              *)
(***************************************************************************)
LogInv ==
    /\ reader.pc \in {"max", "ticking", "renewed"} =>
           reader.log \in LogInterval /\ reader.interval \in Duration(reader.log)
    /\ reader.pc = "ticking" => reader.interval > 0

\* Every step keeps interval and log interval together.
LEMMA LogStep == MemTypes /\ LogInv /\ [Next]_vars => LogInv'
<1> SUFFICES ASSUME MemTypes, LogInv, [Next]_vars PROVE LogInv'
  OBVIOUS
<1> reader \in ReaderRecord
  BY DEF MemTypes
<1>1. CASE UNCHANGED reader
  BY <1>1 DEF LogInv
<1>2. CASE reader' = IdleReader
  BY <1>2 DEF LogInv, IdleReader
<1>3. CASE Life
  BY <1>1, <1>2, <1>3 DEF Life, memVars, ForgetAll
<1>4. CASE \/ WriteFinishes \/ Sighup \/ ReceiveSighup \/ ReloadConfig \/ Copied
           \/ \E c \in Contents : Replace(c) \/ WriteTruncates(c)
  BY <1>1, <1>4 DEF WriteFinishes, Replace, WriteTruncates, Sighup, ReceiveSighup,
                    ReloadConfig, Copied, memVars
<1>5. ASSUME NEW k \in Field, CopyField(k) PROVE LogInv'
  <2>1. /\ reader'.pc = reader.pc /\ reader'.log = reader.log
        /\ reader'.interval = reader.interval
    BY <1>5 DEF CopyField, ReaderRecord
  <2> QED BY <2>1 DEF LogInv
<1>6. ASSUME NEW i \in LogInterval, NEW d \in DurationField, GrantRequest(i, d)
      PROVE  LogInv'
  <2>1. CASE Panic
    BY <1>2, <2>1 DEF Panic, ForgetAll
  <2>2. ASSUME NEW n \in Duration(i),
               Step([IdleReader EXCEPT !.pc = "max", !.log = i, !.interval = n,
                                       !.duration = d * Sec, !.min = cfg.MinSubInterval])
        PROVE  LogInv'
    <3>1. reader'.pc = "max" /\ reader'.log = i /\ reader'.interval = n
      BY <2>2 DEF Step, IdleReader
    <3> QED BY <3>1 DEF LogInv
  <2> QED BY <1>6, <2>1, <2>2 DEF GrantRequest
<1>7. ASSUME NEW i \in LogInterval, Renew(i) PROVE LogInv'
  <2>1. PICK n \in Duration(i) : Step([reader EXCEPT !.pc = "renewed", !.log = i, !.interval = n])
    BY <1>7 DEF Renew
  <2>2. reader'.pc = "renewed" /\ reader'.log = i /\ reader'.interval = n
    BY <2>1 DEF Step, ReaderRecord
  <2> QED BY <2>2 DEF LogInv
<1>8. ASSUME NEW t \in Time, ReceiveDelayReq(t) PROVE LogInv'
  <2>1. CASE Step([IdleReader EXCEPT !.pc = "announce", !.t = t,
                                     !.wire = NewTimestamp(Corrected(t))])
    <3>1. reader'.pc = "announce"
      BY <2>1 DEF Step, IdleReader
    <3> QED BY <3>1 DEF LogInv
  <2> QED BY <1>2, <1>8, <2>1 DEF ReceiveDelayReq, Panic, ForgetAll
<1>9. ASSUME reader.pc \in {"max", "renewed"}, reader.interval > 0,
             reader'.pc = "ticking", reader'.log = reader.log, reader'.interval = reader.interval
      PROVE  LogInv'
  BY <1>9 DEF LogInv
<1>10. reader.interval \in Int
  BY DEF ReaderRecord
<1>11. CASE CheckMaxSubDuration
  <2>1. ASSUME reader' = [reader EXCEPT !.pc = "ticking", !.duration = 0, !.min = 0],
               ~ (reader.interval <= 0), reader.pc = "max"
        PROVE  LogInv'
    <3>1. reader'.pc = "ticking" /\ reader'.log = reader.log /\ reader'.interval = reader.interval
      BY <2>1 DEF ReaderRecord
    <3> QED BY <1>9, <1>10, <2>1, <3>1
  <2> QED BY <1>2, <1>11, <2>1 DEF CheckMaxSubDuration, Panic, ForgetAll, Step
<1>12. CASE ResetTicker
  <2>1. ASSUME reader' = [reader EXCEPT !.pc = "ticking"],
               ~ (reader.interval <= 0), reader.pc = "renewed"
        PROVE  LogInv'
    <3>1. reader'.pc = "ticking" /\ reader'.log = reader.log /\ reader'.interval = reader.interval
      BY <2>1 DEF ReaderRecord
    <3> QED BY <1>9, <1>10, <2>1, <3>1
  <2> QED BY <1>2, <1>12, <2>1 DEF ResetTicker, Panic, ForgetAll, Step
<1>13. CASE UpdateAnnounceDelayReq \/ \E t \in Time : SendAnswer(t)
  <2>1. reader'.pc \in {"answer", "answered"}
    BY <1>13 DEF UpdateAnnounceDelayReq, SendAnswer, Step, ReaderRecord
  <2> QED BY <2>1 DEF LogInv
<1>14. CASE NextMessage
  BY <1>2, <1>14 DEF NextMessage, Step
<1>15. CASE UNCHANGED vars
  BY <1>1, <1>15 DEF vars, memVars
<1> QED BY <1>3, <1>4, <1>5, <1>6, <1>7, <1>8, <1>11, <1>12, <1>13, <1>14, <1>15
        DEF Next, HupStep, ReaderStep

(***************************************************************************)
(* Follow_Up and Announce say the interval that was asked for last: the    *)
(* logarithm of the truncated duration is the exponent it came from, for   *)
(* every exponent, precision of durations and sequence of renewals.        *)
(***************************************************************************)
THEOREM IntervalTheorem == Spec => []IntervalAsAsked
<1>1. Init => LogInv /\ MemTypes
  <2>1. Init => reader.pc = "idle"
    BY DEF Init, IdleReader
  <2> QED BY <2>1, InitTypes DEF LogInv
<1>2. IInv /\ MemTypes /\ [Next]_vars => MemTypes'
  BY ReaderTypes, HupTypes, CountTypes DEF MemTypes
<1>3. LogInv => IntervalAsAsked
  <2> SUFFICES ASSUME LogInv, reader.pc = "ticking", reader.interval # MaxDuration
               PROVE  NewLogInterval(reader.interval) = reader.log
    BY DEF IntervalAsAsked, LogMessageInterval
  <2>1. /\ reader.log \in LogInterval /\ reader.interval \in Duration(reader.log)
        /\ reader.interval > 0
    BY DEF LogInv
  <2>2. \A i \in LogInterval : i \in Int
    BY ReloadAssumption
  <2> QED BY <2>1, <2>2, IntervalBack
<1>4. Spec => [](MemTypes /\ LogInv)
  BY <1>1, <1>2, ReloadInvariant, LogStep, PTL DEF Spec
<1> QED BY <1>3, <1>4, PTL

=============================================================================
