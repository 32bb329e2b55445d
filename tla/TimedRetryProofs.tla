-------------------------- MODULE TimedRetryProofs --------------------------
(***************************************************************************)
(* Proofs about Config and TimedRetry: for any sources of settings, any    *)
(* delays and any timing of the passes, the daemon retries as configured,  *)
(* the attempts are spaced and bounded, and a service that keeps failing   *)
(* is given up in time.                                                    *)
(***************************************************************************)
EXTENDS TimedRetry, TLAPS

USE TimesAssumption

-----------------------------------------------------------------------------
(* The settings.                                                           *)

(* However the chains of or() are nested, a setting has the value of the   *)
(* first source that has one (DF-009).                                     *)
THEOREM SettingsHavePrecedence ==
    ASSUME NEW cli, NEW env, NEW file, Resolvable(env, file),
           \A n \in Settings : cli[n] # Garbled /\ file[n] # Garbled
    PROVE  Precedence(cli, env, file, Resolve(cli, env, file))
<1> DEFINE ranked(n) == <<cli[n], env[n], file[n], Defaults[n]>>
           Ranks(n, i) ==
              /\ Resolve(cli, env, file)[n] = ranked(n)[i]
              /\ ranked(n)[i] \notin {Unset, Garbled}
              /\ \A j \in 1 .. i - 1 : ranked(n)[j] \in {Unset, Garbled}
<1> SUFFICES ASSUME NEW n \in Settings
             PROVE  \E i \in 1 .. 4 : Ranks(n, i)
  BY DEF Precedence
<1>1. /\ ranked(n)[1] = cli[n] /\ ranked(n)[2] = env[n]
      /\ ranked(n)[3] = file[n] /\ ranked(n)[4] = Defaults[n]
  OBVIOUS
<1>2. /\ cli[n] # Garbled /\ file[n] # Garbled /\ Unset # Garbled
      /\ Defaults[n] \notin {Unset, Garbled}
  BY ConfigAssumption
<1>3. Resolve(cli, env, file)[n] =
         FirstSet(cli[n], IF env[n] = Garbled THEN Unset ELSE env[n], file[n],
                  Defaults[n])
  BY DEF Resolve, ResolveText, ResolveU64, ResolveU8, ResolveF64, Resolvable,
         Settings, Numbers
<1> DEFINE r == ranked(n)
<1>4. /\ (1 .. 1 - 1) = {} /\ (1 .. 2 - 1) = {1} /\ (1 .. 3 - 1) = {1, 2}
      /\ (1 .. 4 - 1) = {1, 2, 3}
  OBVIOUS
<1> HIDE DEF ranked
<1>5. CASE cli[n] # Unset
  <2>1. Ranks(n, 1)
    BY <1>1, <1>2, <1>3, <1>4, <1>5 DEF FirstSet, OrElse
  <2> QED
    BY <2>1
<1>6. CASE cli[n] = Unset /\ env[n] \notin {Unset, Garbled}
  <2>1. Ranks(n, 2)
    BY <1>1, <1>2, <1>3, <1>4, <1>6 DEF FirstSet, OrElse
  <2> QED
    BY <2>1
<1>7. CASE cli[n] = Unset /\ env[n] \in {Unset, Garbled} /\ file[n] # Unset
  <2>1. Ranks(n, 3)
    BY <1>1, <1>2, <1>3, <1>4, <1>7 DEF FirstSet, OrElse
  <2> QED
    BY <2>1
<1>8. CASE cli[n] = Unset /\ env[n] \in {Unset, Garbled} /\ file[n] = Unset
  <2>1. Ranks(n, 4)
    BY <1>1, <1>2, <1>3, <1>4, <1>8 DEF FirstSet, OrElse
  <2> QED
    BY <2>1
<1> QED
  BY <1>5, <1>6, <1>7, <1>8

(* Settings have the type that their sources give them.                    *)
LEMMA ResolvedType ==
    ASSUME NEW s \in Started
    PROVE  /\ DOMAIN Resolve(s.cli, s.env, s.file) = Settings
           /\ \A n \in Settings : Resolve(s.cli, s.env, s.file)[n] \in Value(n)
           /\ Precedence(s.cli, s.env, s.file, Resolve(s.cli, s.env, s.file))
<1>1. /\ s \in Sources /\ Resolvable(s.env, s.file) /\ s.file # Garbled
      /\ Settings = Numbers
  BY DEF Started, Resolvable, Settings
<1>2. ASSUME NEW n \in Settings
      PROVE  /\ s.cli[n] \in Value(n) \cup {Unset} /\ s.file[n] \in Value(n) \cup {Unset}
             /\ s.env[n] \in Value(n) \cup {Unset} /\ Defaults[n] \in Value(n)
             /\ Unset \notin Value(n) /\ Garbled \notin Value(n)
  BY <1>1, SourcesAssumption DEF Resolvable
<1>3. ASSUME NEW n \in Settings
      PROVE  /\ Resolve(s.cli, s.env, s.file)[n] \in Value(n)
             /\ s.cli[n] # Garbled /\ s.file[n] # Garbled
  <2>1. Resolve(s.cli, s.env, s.file)[n] = FirstSet(s.cli[n], s.env[n], s.file[n], Defaults[n])
    BY <1>1 DEF Resolve, ResolveU64, ResolveU8, ResolveF64, Settings, Numbers
  <2>2. FirstSet(s.cli[n], s.env[n], s.file[n], Defaults[n]) \in Value(n)
    BY <1>2 DEF FirstSet, OrElse
  <2>3. s.cli[n] # Garbled /\ s.file[n] # Garbled
    BY <1>2, ConfigAssumption
  <2> QED
    BY <2>1, <2>2, <2>3
<1>4. DOMAIN Resolve(s.cli, s.env, s.file) = Settings
  BY DEF Resolve
<1> QED
  BY <1>1, <1>3, <1>4, SettingsHavePrecedence

-----------------------------------------------------------------------------
(* The bounds that clamp and jitter leave, in integer arithmetic.          *)

LEMMA Products ==
    ASSUME NEW a \in Nat, NEW b \in Nat, NEW c \in Nat, NEW d \in Nat,
           a <= b, c <= d
    PROVE  a * c \in Nat /\ b * d \in Nat /\ a * c <= b * d
<1>1. PICK x \in Nat : b = a + x
  <2>1. b - a \in Nat /\ b = a + (b - a)
    OBVIOUS
  <2> QED
    BY <2>1
<1>2. PICK y \in Nat : d = c + y
  <2>1. d - c \in Nat /\ d = c + (d - c)
    OBVIOUS
  <2> QED
    BY <2>1
<1>3. b * d = a * c + a * y + x * c + x * y
  BY <1>1, <1>2
<1>4. a * c \in Nat /\ a * y \in Nat /\ x * c \in Nat /\ x * y \in Nat
  BY <1>1, <1>2
<1> QED
  BY <1>3, <1>4

LEMMA Rounding ==
    ASSUME NEW a \in Int, NEW b \in Int, a <= b
    PROVE  /\ (a + 50) \div 100 \in Int /\ (b + 50) \div 100 \in Int
           /\ (a + 50) \div 100 <= (b + 50) \div 100
OBVIOUS

(* A longer base and a higher jitter make no shorter delay: a jitter that  *)
(* takes more than all leaves the least delay.                             *)
LEMMA AdjustedMonotone ==
    ASSUME NEW a \in Nat, NEW b \in Nat, NEW i \in Int, NEW j \in Int,
           a <= b, i <= j
    PROVE  /\ Adjusted(a, i) \in Nat /\ Adjusted(b, j) \in Nat
           /\ 1 <= Adjusted(a, i)
           /\ Adjusted(a, i) <= Adjusted(b, j)
<1> DEFINE x == a * (100 + i)
           y == b * (100 + j)
<1>1. x \in Int /\ y \in Int
  OBVIOUS
<1>2. /\ (x + 50) \div 100 \in Int /\ (y + 50) \div 100 \in Int
      /\ x <= y => (x + 50) \div 100 <= (y + 50) \div 100
      /\ x <= 0 => (x + 50) \div 100 <= 0
  <2> HIDE DEF x, y
  <2> QED
    BY <1>1
<1>3. x <= y \/ x <= 0
  <2>1. CASE 0 <= 100 + i
    BY <2>1, Products
  <2>2. CASE 100 + i < 0
    <3>1. PICK k \in Nat : k = -(100 + i)
      BY <2>2
    <3>2. a * k \in Nat /\ x = -(a * k)
      BY <3>1
    <3> QED
      BY <3>2
  <2> QED
    BY <2>1, <2>2
<1>4. /\ Adjusted(a, i) = AtLeastOne((x + 50) \div 100)
      /\ Adjusted(b, j) = AtLeastOne((y + 50) \div 100)
  BY DEF Adjusted
<1> HIDE DEF x, y
<1> QED
  BY <1>2, <1>3, <1>4 DEF AtLeastOne

BackoffOK == /\ backoff["initial_ms"] \in Nat /\ backoff["max_ms"] \in Nat
             /\ backoff["jitter_percent"] \in Nat
             /\ backoff["max_window_ms"] \in Nat

LEMMA DelayBounds ==
    ASSUME BackoffOK, ~DelayPanics, NEW n \in 1 .. AttemptsMax,
           Raw(n) \in Int \cup {NaN}, NEW jitter \in Jitters
    PROVE  /\ ComputeDelay(n, jitter) \in Nat
           /\ ShortestDelay \in Nat /\ LongestDelay \in Nat
           /\ ShortestDelay <= ComputeDelay(n, jitter)
           /\ ComputeDelay(n, jitter) <= LongestDelay
<1> DEFINE initial == LeastBase
           max == backoff["max_ms"]
           percent == backoff["jitter_percent"]
<1>1. initial \in Nat /\ max \in Nat /\ percent \in Nat /\ initial <= max
  BY DEF BackoffOK, LeastBase, DelayPanics
<1>2. Base(n) \in Nat /\ initial <= Base(n) /\ Base(n) <= max
  <2>1. CASE Raw(n) = NaN
    BY <1>1, <2>1 DEF Base, LeastBase
  <2>2. CASE Raw(n) # NaN
    <3>1. /\ Base(n) = Clamp(Raw(n)) /\ Raw(n) \in Int
          /\ initial <= backoff["initial_ms"]
      BY <2>2 DEF Base, LeastBase, BackoffOK
    <3>2. backoff["initial_ms"] \in Nat /\ backoff["initial_ms"] <= max
      BY DEF BackoffOK, DelayPanics
    <3> HIDE DEF initial, max
    <3> QED
      BY <1>1, <3>1, <3>2 DEF Clamp, max
  <2> QED
    BY <2>1, <2>2
<1>3. jitter \in Int /\ -percent <= jitter /\ jitter <= percent
  BY <1>1 DEF Jitters
<1>4. CASE percent = 0
  BY <1>1, <1>2, <1>4 DEF ComputeDelay, ShortestDelay, LongestDelay
<1>5. CASE percent # 0
  <2> DEFINE least == -percent
             base == Base(n)
  <2>1. /\ least \in Int /\ least <= jitter /\ percent \in Int
        /\ base \in Nat /\ initial <= base /\ base <= max
    BY <1>1, <1>2, <1>3
  <2> HIDE DEF initial, max, percent, least, base
  <2>2. /\ Adjusted(initial, least) <= Adjusted(base, jitter)
        /\ Adjusted(initial, least) \in Nat
        /\ Adjusted(base, jitter) \in Nat
    BY <1>1, <1>3, <2>1, AdjustedMonotone
  <2>3. /\ Adjusted(base, jitter) <= Adjusted(max, percent)
        /\ Adjusted(max, percent) \in Nat
    BY <1>1, <1>3, <2>1, AdjustedMonotone
  <2>4. /\ ComputeDelay(n, jitter) = Adjusted(base, jitter)
        /\ ShortestDelay = Adjusted(initial, least)
        /\ LongestDelay = Adjusted(max, percent)
    BY <1>5 DEF ComputeDelay, ShortestDelay, LongestDelay, initial, max, percent,
                least, base
  <2> QED
    BY <2>2, <2>3, <2>4
<1> QED
  BY <1>4, <1>5

LEMMA Counting ==
    ASSUME NEW n \in Nat, NEW d \in Nat
    PROVE  n * d \in Nat /\ (n + 1) * d = n * d + d /\ (1 - 1) * d = 0
OBVIOUS

-----------------------------------------------------------------------------
(* The invariant.                                                          *)

Configured ==
    source \in Started /\ backoff = Resolve(source.cli, source.env, source.file)

(* How far the clock is from the last pass.                                *)
Clocks ==
    /\ passStart <= now /\ passEnd <= now
    /\ pc = "before" => now <= passStart + PassTime
    /\ pc = "after" => now <= passStart + 2 * PassTime
    /\ pc = "idle" => now <= passEnd + PassGap

(* The fields of the tracker come and go as one.                           *)
Fields ==
    /\ firstFailure = None <=> attempts = 0
    /\ firstFailure = None <=> nextRetry = None
    /\ firstFailure = None => ~degraded /\ lastSpawn = None
    /\ pc = "down" => firstFailure = None

(* The retry time lies between the bounds that the attempts so far allow.  *)
Bounds ==
    firstFailure # None =>
       /\ ~DelayPanics
       /\ firstFailure <= passStart
       /\ (attempts - 1) * ShortestDelay <= now - firstFailure
       /\ ~degraded => attempts * ShortestDelay <= nextRetry - firstFailure
       /\ nextRetry - firstFailure <= backoff["max_window_ms"] + LongestDelay

Spaced ==
    lastSpawn # None /\ ~degraded => lastSpawn + ShortestDelay <= nextRetry + PassTime

(* Failures of an earlier time are older than the return of the service.   *)
Resumes == resumed # None => firstFailure # None /\ firstFailure <= resumed

(* A pass that finds the retry time come does not leave the service alone, *)
(* once the service is wanted again.                                       *)
WaitsUntil(due) ==
    /\ pc = "after" => passStart <= due
    /\ pc \in {"idle", "before"} => passEnd <= due + 2 * PassTime
    /\ pc = "before" => passStart <= passEnd + PassGap

Waits ==
    firstFailure # None /\ ~degraded /\ wanted =>
       \/ WaitsUntil(nextRetry)
       \/ resumed # None /\ WaitsUntil(resumed)

TimedInv == /\ TypeOK /\ Configured /\ Clocks /\ Fields /\ ReasonFits
            /\ Bounds /\ Spaced /\ Resumes /\ Waits

LEMMA BackoffType ==
    ASSUME Configured
    PROVE  /\ BackoffOK /\ ShortestDelay \in Nat /\ LongestDelay \in Nat
           /\ \A n \in 1 .. AttemptsMax : Raw(n) \in Int \cup {NaN}
<1>1. BackoffOK
  <2>1. \A n \in Settings : backoff[n] \in Value(n)
    BY ResolvedType DEF Configured
  <2> QED
    BY <2>1 DEF BackoffOK, Settings, Numbers, Value
<1>2. \A a \in Nat, i \in Int : Adjusted(a, i) \in Nat
  BY AdjustedMonotone
<1>3. LeastBase \in Nat
  BY <1>1 DEF LeastBase, BackoffOK
<1>4. ShortestDelay \in Nat /\ LongestDelay \in Nat
  <2>1. -backoff["jitter_percent"] \in Int /\ backoff["jitter_percent"] \in Int
    BY <1>1 DEF BackoffOK
  <2>2. /\ Adjusted(LeastBase, -backoff["jitter_percent"]) \in Nat
        /\ Adjusted(backoff["max_ms"], backoff["jitter_percent"]) \in Nat
    BY <1>1, <1>2, <1>3, <2>1 DEF BackoffOK
  <2> QED
    BY <1>1, <1>3, <2>2 DEF ShortestDelay, LongestDelay, BackoffOK
<1> QED
  BY <1>1, <1>4, DelaysAssumption DEF Configured, Raw

LEMMA TimedInit == Init => TimedInv
<1> SUFFICES ASSUME Init
             PROVE  TimedInv
  OBVIOUS
<1>1. Configured
  BY DEF Init, Configured
<1>2. /\ DOMAIN backoff = Settings /\ \A n \in Settings : backoff[n] \in Value(n)
      /\ source \in Sources
  BY <1>1, ResolvedType DEF Configured, Started
<1>3. TypeOK
  <2>1. /\ degraded \in BOOLEAN /\ up \in BOOLEAN
        /\ wanted \in BOOLEAN /\ stored \in BOOLEAN
    BY DEF Init
  <2>2. /\ pc \in {"down", "idle", "before", "after"}
        /\ now \in Nat /\ passStart \in Nat /\ passEnd \in Nat
        /\ attempts \in 0 .. AttemptsMax
    BY DEF Init
  <2>3. /\ firstFailure \in Nat \cup {None} /\ nextRetry \in Nat \cup {None}
        /\ reason \in Reasons \cup {None} /\ lastError \in Errors \cup {None}
        /\ lastSpawn \in Nat \cup {None} /\ resumed \in Nat \cup {None}
    BY DEF Init
  <2> QED
    BY <1>2, <2>1, <2>2, <2>3 DEF TypeOK
<1>4. Clocks /\ Fields /\ Bounds /\ Spaced /\ Resumes /\ Waits
  BY DEF Init, Clocks, Fields, Bounds, Spaced, Resumes, Waits
<1>5. ReasonFits
  BY DEF Init, ReasonFits, Reasons
<1> QED
  BY <1>1, <1>3, <1>4, <1>5 DEF TimedInv

(* The settings never change.                                              *)
LEMMA DelaysStay ==
    ASSUME UNCHANGED settings
    PROVE  /\ ShortestDelay' = ShortestDelay /\ LongestDelay' = LongestDelay
           /\ DelayPanics' <=> DelayPanics
           /\ Configured => Configured'
BY DEF settings, ShortestDelay, LeastBase, Raw, LongestDelay, DelayPanics, Configured

(* Without a failure there is nothing to bound.                            *)
LEMMA ClearedKept ==
    ASSUME TimedInv, UNCHANGED settings, Cleared, NoHistory, Clocks',
           TypeOK', reason' \notin {"spawn_retry_window_exhausted",
                                    "spawn_failed_degraded", "spawned_by_reconcile",
                                    "spawn_failed_retry_scheduled"}
    PROVE  TimedInv'
BY DelaysStay
   DEF TimedInv, Cleared, NoHistory, Fields, ReasonFits, Bounds, Spaced, Resumes, Waits

(* Steps that leave the tracker and the pass alone.                        *)
LEMMA QuietKept ==
    ASSUME TimedInv, UNCHANGED <<settings, pc, passStart, passEnd, flags, reason>>,
           lastSpawn' = lastSpawn, Resumes', Clocks', TypeOK', now <= now',
           \/ ~wanted'
           \/ wanted /\ resumed' = resumed
           \/ pc = "idle" /\ now <= resumed' /\ resumed' # None
           \/ firstFailure = None
    PROVE  TimedInv'
<1> USE DEF TimedInv, TypeOK, flags
<1>1. ShortestDelay \in Nat
  BY BackoffType
<1>2. Bounds'
  <2> SUFFICES ASSUME firstFailure' # None
               PROVE  Bounds'
    BY DEF Bounds
  <2>1. firstFailure \in Nat /\ now \in Nat /\ now' \in Nat /\ attempts \in Nat
    OBVIOUS
  <2>2. (attempts - 1) * ShortestDelay <= now - firstFailure
    BY DEF Bounds
  <2>3. (attempts - 1) * ShortestDelay \in Int
    BY <1>1, <2>1
  <2>4. (attempts - 1) * ShortestDelay <= now' - firstFailure
    BY <2>1, <2>2, <2>3
  <2> QED
    BY <2>4, DelaysStay DEF Bounds, settings
<1>3. Fields' /\ ReasonFits' /\ Spaced' /\ Configured'
  BY DelaysStay DEF Fields, ReasonFits, Spaced
<1>4. Waits'
  <2>1. CASE ~wanted' \/ firstFailure = None
    BY <2>1 DEF Waits
  <2>2. CASE wanted /\ resumed' = resumed
    BY <2>2 DEF Waits, WaitsUntil
  <2>3. CASE pc = "idle" /\ now <= resumed' /\ resumed' # None
    <3>1. PICK e \in Nat, n \in Nat, r \in Nat : e = passEnd /\ n = now /\ r = resumed'
      BY <2>3
    <3>2. e <= n /\ n <= r
      BY <2>3, <3>1 DEF Clocks
    <3>3. e <= r + 2 * PassTime
      BY <3>2
    <3> QED
      BY <2>3, <3>1, <3>3 DEF Waits, WaitsUntil
  <2> QED
    BY <2>1, <2>2, <2>3
<1> QED
  BY <1>2, <1>3, <1>4

(* The attempt is the one step that moves the retry time.  What it does to *)
(* the bounds, in numbers: after a attempts, of which the first was at f   *)
(* and the last asked for a retry at r, the pass that started at p makes   *)
(* attempt n at t, within the window w or not, and it takes a delay d.     *)
AttemptNumbers(a, n, f, p, t, shortest, longest) ==
    /\ (n - 1) * shortest <= t - f
    /\ \A w \in Nat, d \in Nat :
          p - f <= w /\ shortest <= d /\ d <= longest =>
             /\ p + d \in Nat /\ p <= p + d
             /\ n * shortest <= (p + d) - f
             /\ (p + d) - f <= w + longest
             /\ t + shortest <= (p + d) + PassTime

LEMMA AttemptArithmetic ==
    ASSUME NEW a \in Nat, NEW n \in Nat, NEW f \in Nat, NEW r \in Nat,
           NEW p \in Nat, NEW t \in Nat, NEW shortest \in Nat, NEW longest \in Nat,
           1 <= n, n <= a + 1, f <= p, p <= t, t <= p + PassTime,
           a = 0 \/ (a * shortest <= r - f /\ r <= p)
    PROVE  AttemptNumbers(a, n, f, p, t, shortest, longest)
<1>1. PICK k \in Nat : n = k + 1 /\ n - 1 = k /\ k <= a
  <2>1. n - 1 \in Nat /\ n = (n - 1) + 1 /\ n - 1 <= a
    OBVIOUS
  <2> QED
    BY <2>1
<1>2. /\ a * shortest \in Nat /\ k * shortest \in Nat
      /\ k * shortest <= a * shortest
  BY <1>1, Products
<1>3. n * shortest = k * shortest + shortest /\ n * shortest \in Nat
  BY <1>1, Counting
<1>4. k * shortest <= p - f
  <2>1. CASE a = 0
    <3>1. a * shortest = 0
      BY <2>1
    <3> QED
      BY <1>2, <3>1
  <2>2. CASE a * shortest <= r - f /\ r <= p
    BY <1>2, <2>2
  <2> QED
    BY <2>1, <2>2
<1>5. (n - 1) * shortest <= t - f
  BY <1>1, <1>2, <1>4
<1>6. ASSUME NEW w \in Nat, NEW d \in Nat,
             p - f <= w, shortest <= d, d <= longest
      PROVE  /\ p + d \in Nat /\ p <= p + d
             /\ n * shortest <= (p + d) - f
             /\ (p + d) - f <= w + longest
             /\ t + shortest <= (p + d) + PassTime
  BY <1>2, <1>3, <1>4, <1>6
<1> QED
  BY <1>5, <1>6 DEF AttemptNumbers

LEMMA AttemptKept ==
    ASSUME TimedInv, Attempt
    PROVE  /\ TimedInv'
           /\ lastSpawn # None => lastSpawn' - lastSpawn >= ShortestDelay - PassTime
<1>0. /\ TypeOK /\ Configured /\ Clocks /\ Fields
      /\ ReasonFits /\ Bounds /\ Spaced /\ Resumes /\ Waits
  BY DEF TimedInv
<1>1. /\ pc = "before" /\ pc' = "after" /\ ~degraded /\ ~Waiting(passStart) /\ wanted
      /\ UNCHANGED <<settings, now, passStart, passEnd, wanted, stored, up, resumed>>
      /\ attempts' = Count(attempts) /\ firstFailure' = StartWindow(firstFailure)
      /\ lastSpawn' = now
  BY DEF Attempt, Handled, clock, desired
<1>2. /\ ShortestDelay' = ShortestDelay /\ LongestDelay' = LongestDelay
      /\ backoff' = backoff /\ Configured' /\ (DelayPanics' <=> DelayPanics)
  BY <1>0, <1>1, DelaysStay DEF settings
<1> DEFINE InTime(jitter) ==
              /\ InWindow(firstFailure', passStart) /\ ~DelayPanics
              /\ nextRetry' = passStart + ComputeDelay(attempts', jitter)
              /\ reason' \in {"spawned_by_reconcile", "spawn_failed_retry_scheduled"}
              /\ UNCHANGED degraded
           TooLate ==
              /\ ~InWindow(firstFailure', passStart)
              /\ reason' \in {"spawn_retry_window_exhausted", "spawn_failed_degraded"}
              /\ degraded' = TRUE /\ UNCHANGED nextRetry
<1>3. (\E jitter \in Jitters : InTime(jitter)) \/ TooLate
  BY DEF Attempt, RetryAt
<1>4. lastError' \in Errors
  BY DEF Attempt, Errors
(* The numbers. *)
<1>16. Resumes'
  BY <1>0, <1>1 DEF Resumes, StartWindow
<1>5. PICK a \in Nat, p \in Nat, t \in Nat, shortest \in Nat, longest \in Nat,
           w \in Nat :
         /\ a = attempts /\ p = passStart /\ t = now /\ w = backoff["max_window_ms"]
         /\ shortest = ShortestDelay /\ longest = LongestDelay
  BY <1>0, BackoffType DEF TypeOK, BackoffOK
<1>6. p <= t /\ t <= p + PassTime
  BY <1>0, <1>1, <1>5 DEF Clocks
<1>7. PICK n \in Nat : /\ n = attempts' /\ n \in 1 .. AttemptsMax
                       /\ 1 <= n /\ n <= a + 1 /\ (a = 0 => n = 1)
  <2>1. a <= AttemptsMax /\ AttemptsMax \in Nat /\ 1 <= AttemptsMax
    BY <1>0, <1>5 DEF TypeOK
  <2>2. attempts' = IF a < AttemptsMax THEN a + 1 ELSE a
    BY <1>1, <1>5 DEF Count
  <2> DEFINE m == IF a < AttemptsMax THEN a + 1 ELSE a
  <2>3. /\ m \in Nat /\ m \in 1 .. AttemptsMax
        /\ 1 <= m /\ m <= a + 1 /\ (a = 0 => m = 1)
    BY <2>1
  <2> HIDE DEF m
  <2> QED
    BY <2>2, <2>3 DEF m
<1>8. PICK f \in Nat, r \in Nat :
         /\ f = firstFailure' /\ f <= p
         /\ firstFailure = None => a = 0 /\ f = p
         /\ firstFailure # None =>
              f = firstFailure /\ r = nextRetry /\ a * shortest <= r - f /\ r <= p
  <2>1. CASE firstFailure = None
    BY <1>0, <1>1, <1>5, <2>1 DEF Fields, StartWindow
  <2>2. CASE firstFailure # None
    <3>1. PICK f \in Nat, r \in Nat : f = firstFailure /\ r = nextRetry
      BY <1>0, <2>2 DEF TypeOK, Fields
    <3>2. f <= p /\ a * shortest <= r - f
      BY <1>0, <1>1, <1>5, <2>2, <3>1 DEF Bounds
    <3>3. r <= p
      BY <1>0, <1>1, <1>5, <2>2, <3>1 DEF Fields, Waiting
    <3>4. firstFailure' = f
      BY <1>1, <2>2, <3>1 DEF StartWindow
    <3> QED
      BY <2>2, <3>1, <3>2, <3>3, <3>4
  <2> QED
    BY <2>1, <2>2
<1>9. a = 0 \/ (a * shortest <= r - f /\ r <= p)
  BY <1>8
<1>10. /\ (n - 1) * shortest <= t - f
       /\ \A d \in Nat :
             p - f <= w /\ shortest <= d /\ d <= longest =>
                /\ p + d \in Nat /\ p <= p + d
                /\ n * shortest <= (p + d) - f
                /\ (p + d) - f <= w + longest
                /\ t + shortest <= (p + d) + PassTime
  <2>1. 1 <= n /\ n <= a + 1 /\ f <= p /\ p <= t /\ t <= p + PassTime
    BY <1>6, <1>7, <1>8
  <2>2. AttemptNumbers(a, n, f, p, t, shortest, longest)
    BY <2>1, <1>9, AttemptArithmetic
  <2> QED
    BY <2>2 DEF AttemptNumbers
(* What holds of either outcome. *)
<1>11. Clocks'
  <2>1. now' = t /\ passStart' = p /\ passEnd' = passEnd /\ passEnd <= t
    BY <1>0, <1>1, <1>5 DEF Clocks
  <2>2. t <= p + 2 * PassTime
    BY <1>6
  <2> QED
    BY <1>1, <1>6, <2>1, <2>2 DEF Clocks
<1>12. lastSpawn # None => lastSpawn' - lastSpawn >= ShortestDelay - PassTime
  <2> SUFFICES ASSUME lastSpawn # None
               PROVE  lastSpawn' - lastSpawn >= ShortestDelay - PassTime
    OBVIOUS
  <2>1. firstFailure # None
    BY <1>0 DEF Fields
  <2>2. PICK l \in Nat : l = lastSpawn
    BY <1>0 DEF TypeOK
  <2>3. l + shortest <= r + PassTime /\ r <= p
    BY <1>0, <1>1, <1>5, <1>8, <2>1, <2>2 DEF Spaced
  <2>4. t - l >= shortest - PassTime
    BY <1>6, <2>3
  <2> QED
    BY <1>1, <1>5, <2>2, <2>4
<1>13. ASSUME nextRetry' \in Nat, degraded' \in BOOLEAN, reason' \in Reasons
       PROVE  TypeOK'
  <2>1. attempts' \in 0 .. AttemptsMax
    BY <1>7
  <2>2. /\ source' \in Sources /\ DOMAIN backoff' = Settings
        /\ \A i \in Settings : backoff'[i] \in Value(i)
    BY <1>0, <1>1 DEF TypeOK, settings
  <2> QED
    BY <1>0, <1>1, <1>4, <1>5, <1>8, <1>13, <2>1, <2>2 DEF TypeOK
<1>14. CASE \E jitter \in Jitters : InTime(jitter)
  <2>1. PICK jitter \in Jitters : InTime(jitter)
    BY <1>14
  <2>2. PICK d \in Nat : /\ d = ComputeDelay(attempts', jitter)
                         /\ shortest <= d /\ d <= longest
    BY <1>0, <1>5, <1>7, <2>1, BackoffType, DelayBounds
  <2>3. p - f <= w
    BY <1>5, <1>8, <2>1 DEF InWindow
  <2>4. PICK x \in Nat : /\ x = nextRetry' /\ p <= x /\ n * shortest <= x - f
                         /\ x - f <= w + longest /\ t + shortest <= x + PassTime
    <3>1. nextRetry' = p + d
      BY <1>5, <2>1, <2>2
    <3> QED
      BY <1>10, <2>2, <2>3, <3>1
  <2>5. TypeOK'
    BY <1>0, <1>13, <2>1, <2>4 DEF TypeOK, Reasons
  <2>6. Bounds'
    BY <1>1, <1>2, <1>5, <1>7, <1>8, <1>10, <2>1, <2>4 DEF Bounds
  <2>7. Spaced' /\ Waits'
    BY <1>1, <1>2, <1>5, <2>4 DEF Spaced, Waits, WaitsUntil
  <2>8. Fields'
    BY <1>1, <1>7, <1>8, <2>4 DEF Fields
  <2>9. ReasonFits'
    BY <1>1, <2>1, <2>4 DEF ReasonFits
  <2> QED
    BY <1>2, <1>11, <1>12, <1>16, <2>5, <2>6, <2>7, <2>8, <2>9 DEF TimedInv
<1>15. CASE TooLate
  <2>1. firstFailure # None
    <3>1. f # p
      BY <1>5, <1>8, <1>15 DEF InWindow
    <3> QED
      BY <1>8, <3>1
  <2>2. /\ nextRetry' = r /\ ~DelayPanics /\ r - f <= w + longest
    BY <1>0, <1>5, <1>8, <1>15, <2>1 DEF Bounds
  <2>3. TypeOK'
    BY <1>13, <1>15, <2>2 DEF Reasons
  <2>4. Bounds'
    BY <1>1, <1>2, <1>5, <1>7, <1>8, <1>10, <1>15, <2>2 DEF Bounds
  <2>5. Spaced' /\ Waits'
    BY <1>15 DEF Spaced, Waits
  <2>6. Fields'
    BY <1>1, <1>7, <1>8, <2>2 DEF Fields
  <2>7. ReasonFits'
    BY <1>15 DEF ReasonFits
  <2> QED
    BY <1>2, <1>11, <1>12, <1>16, <2>3, <2>4, <2>5, <2>6, <2>7 DEF TimedInv
<1> QED
  BY <1>3, <1>14, <1>15

LEMMA TimedStep == TimedInv /\ [Next]_vars => TimedInv'
<1> SUFFICES ASSUME TimedInv, [Next]_vars
             PROVE  TimedInv'
  OBVIOUS
<1>0. /\ TypeOK /\ Configured /\ Clocks /\ Fields /\ ReasonFits /\ Bounds /\ Spaced
      /\ Resumes /\ Waits
  BY DEF TimedInv
<1>1. CASE BeginPass \/ EndPass \/ PassAborted \/ Serve
  <2>1. /\ UNCHANGED <<settings, now, tracker, stored, up, history>>
        /\ \/ /\ pc = "idle" /\ pc' = "before" /\ passStart' = now
              /\ UNCHANGED <<passEnd, wanted>>
           \/ /\ pc = "after" /\ pc' = "idle" /\ passEnd' = now
              /\ UNCHANGED <<passStart, wanted>>
           \/ /\ pc = "before" /\ pc' = "idle" /\ now <= passEnd + PassGap
              /\ UNCHANGED <<passStart, passEnd, wanted>>
           \/ /\ pc = "down" /\ pc' = "idle" /\ passEnd' = now
              /\ UNCHANGED passStart /\ wanted' \in {stored, FALSE}
    BY <1>1 DEF BeginPass, EndPass, PassAborted, Serve, clock, desired
  <2>2. /\ source' = source /\ backoff' = backoff /\ now' = now
        /\ attempts' = attempts /\ degraded' = degraded
        /\ firstFailure' = firstFailure /\ nextRetry' = nextRetry
        /\ reason' = reason /\ lastError' = lastError
        /\ stored' = stored /\ up' = up
        /\ lastSpawn' = lastSpawn /\ resumed' = resumed
    BY <2>1 DEF settings, tracker, history
  <2>3. PICK n \in Nat, s \in Nat, e \in Nat : n = now /\ s = passStart /\ e = passEnd
    BY <1>0 DEF TypeOK
  <2>4. PICK s1 \in Nat, e1 \in Nat : s1 = passStart' /\ e1 = passEnd'
    BY <2>1, <2>3
  <2>5. \/ pc = "idle" /\ pc' = "before" /\ s1 = n /\ e1 = e
        \/ pc = "after" /\ pc' = "idle" /\ s1 = s /\ e1 = n
        \/ pc = "before" /\ pc' = "idle" /\ s1 = s /\ e1 = e /\ n <= e + PassGap
        \/ pc = "down" /\ pc' = "idle" /\ s1 = s /\ e1 = n
    BY <2>1, <2>3, <2>4
  <2>6. /\ s <= n /\ e <= n
        /\ pc = "before" => n <= s + PassTime
        /\ pc = "after" => n <= s + 2 * PassTime
        /\ pc = "idle" => n <= e + PassGap
    BY <1>0, <2>3 DEF Clocks
  <2>7. TypeOK'
    <3>1. wanted' \in BOOLEAN
      BY <1>0, <2>1 DEF TypeOK
    <3>2. pc' \in {"down", "idle", "before", "after"}
      BY <2>5
    <3> QED
      BY <1>0, <2>2, <2>3, <2>4, <3>1, <3>2 DEF TypeOK
  <2>8. Clocks'
    <3>1. /\ s1 <= n /\ e1 <= n
          /\ pc' = "before" => n <= s1 + PassTime
          /\ pc' = "after" => n <= s1 + 2 * PassTime
          /\ pc' = "idle" => n <= e1 + PassGap
      BY <2>5, <2>6
    <3> QED
      BY <2>2, <2>3, <2>4, <3>1 DEF Clocks
  <2>9. Fields' /\ ReasonFits' /\ Spaced' /\ Resumes'
    <3>1. pc' # "down"
      BY <2>5
    <3> QED
      BY <1>0, <2>1, <2>2, <3>1, DelaysStay DEF Fields, ReasonFits, Spaced, Resumes
  <2>10. Bounds'
    <3>1. s <= s1
      BY <2>5, <2>6
    <3>2. firstFailure # None => firstFailure <= passStart'
      BY <1>0, <2>3, <2>4, <3>1 DEF TypeOK, Bounds
    <3> QED
      BY <1>0, <2>1, <2>2, <3>2, DelaysStay DEF Bounds
  <2>11. Waits'
    <3> SUFFICES ASSUME firstFailure # None, ~degraded, wanted'
                 PROVE  Waits'
      BY <2>2 DEF Waits
    <3>1. wanted /\ pc # "down"
      BY <1>0, <2>1 DEF Fields
    <3>2. ASSUME NEW due \in Nat, WaitsUntil(due)
          PROVE  /\ pc' = "after" => s1 <= due
                 /\ pc' \in {"idle", "before"} => e1 <= due + 2 * PassTime
                 /\ pc' = "before" => s1 <= e1 + PassGap
      <4>1. /\ pc = "after" => s <= due
            /\ pc \in {"idle", "before"} => e <= due + 2 * PassTime
            /\ pc = "before" => s <= e + PassGap
        BY <2>3, <3>2 DEF WaitsUntil
      <4> QED
        BY <2>5, <2>6, <3>1, <4>1
    <3>3. nextRetry \in Nat /\ (resumed # None => resumed \in Nat)
      BY <1>0 DEF TypeOK, Fields
    <3>4. CASE WaitsUntil(nextRetry)
      <4>1. PICK due \in Nat : due = nextRetry
        BY <3>3
      <4>2. WaitsUntil(due)
        BY <3>4, <4>1
      <4>3. nextRetry' = due /\ WaitsUntil(nextRetry)'
        BY <2>2, <2>4, <3>2, <4>1, <4>2 DEF WaitsUntil
      <4> QED
        BY <4>3 DEF Waits
    <3>5. CASE resumed # None /\ WaitsUntil(resumed)
      <4>1. PICK due \in Nat : due = resumed
        BY <3>3, <3>5
      <4>2. WaitsUntil(due)
        BY <3>5, <4>1
      <4>3. resumed' = due /\ WaitsUntil(resumed)'
        BY <2>2, <2>4, <3>2, <4>1, <4>2 DEF WaitsUntil
      <4> QED
        BY <2>2, <3>5, <4>3 DEF Waits
    <3> QED
      BY <1>0, <3>1, <3>4, <3>5 DEF Waits
  <2> QED
    BY <1>0, <2>1, <2>7, <2>8, <2>9, <2>10, <2>11, DelaysStay DEF TimedInv
<1>2. CASE Recover \/ StopUnwanted \/ StopFails \/ Panic \/ Crash \/ Reset
  <2> USE DEF Recover, StopUnwanted, StopFails, Panic, Crash, Ends, Reset
  <2>1. /\ UNCHANGED <<settings, now, passStart>> /\ NoHistory
        /\ lastError' \in {None} \cup Errors /\ up' \in {up} \cup BOOLEAN
        /\ wanted' \in {wanted, TRUE} /\ stored' \in {stored, wanted'}
        /\ \/ pc = "before" /\ pc' = "after" /\ passEnd' = passEnd
           \/ pc = "before" /\ pc' = "idle" /\ passEnd' = now
           \/ pc' = "down" /\ passEnd' = passEnd
           \/ pc = "idle" /\ pc' = "idle" /\ passEnd' = passEnd
    BY <1>2 DEF Handled, Answered, NewTracker, desired, clock
  <2>2. attempts > 0 \/ degraded \/ (UNCHANGED flags => Cleared)
    BY <1>0 DEF TypeOK, Fields, Cleared, flags
  <2>3. Cleared
    BY <1>2, <2>2 DEF NewTracker, Answered
  <2>4. \/ reason' \in {None, "service_recovered", "stopped",
                        "retry_state_reset_by_command"}
        \/ reason' = reason /\ (UNCHANGED flags \/ reason = None)
    BY <1>2 DEF NewTracker, Answered
  <2>5. /\ reason' \in Reasons \cup {None}
        /\ reason' \notin {"spawn_retry_window_exhausted", "spawn_failed_degraded",
                           "spawned_by_reconcile", "spawn_failed_retry_scheduled"}
    <3>1. CASE reason' \in {None, "service_recovered", "stopped",
                            "retry_state_reset_by_command"}
      BY <3>1 DEF Reasons
    <3>2. CASE reason' = reason /\ reason = None
      BY <3>2 DEF Reasons
    <3>3. CASE reason' = reason /\ UNCHANGED <<degraded, nextRetry>>
      <4>1. ~degraded /\ nextRetry = None
        BY <2>3, <3>3 DEF Cleared
      <4>2. reason \in Reasons \cup {None}
        BY <1>0 DEF TypeOK
      <4> QED
        BY <1>0, <3>3, <4>1, <4>2 DEF ReasonFits
    <3> QED
      BY <2>4, <3>1, <3>2, <3>3 DEF flags
  <2>6. TypeOK'
    <3>1. /\ wanted' \in BOOLEAN /\ stored' \in BOOLEAN
          /\ up' \in BOOLEAN /\ degraded' \in BOOLEAN
      BY <1>0, <2>1, <2>3 DEF TypeOK, Cleared
    <3>2. /\ source' \in Sources /\ DOMAIN backoff' = Settings
          /\ \A i \in Settings : backoff'[i] \in Value(i)
      BY <1>0, <2>1 DEF TypeOK, settings
    <3>3. /\ now' \in Nat /\ passStart' \in Nat /\ passEnd' \in Nat
          /\ pc' \in {"down", "idle", "before", "after"}
      BY <1>0, <2>1 DEF TypeOK, clock
    <3>4. /\ attempts' \in 0 .. AttemptsMax
          /\ firstFailure' \in Nat \cup {None} /\ nextRetry' \in Nat \cup {None}
          /\ lastSpawn' \in Nat \cup {None} /\ resumed' \in Nat \cup {None}
      BY <2>1, <2>3 DEF Cleared, NoHistory
    <3> QED
      BY <2>1, <2>5, <3>1, <3>2, <3>3, <3>4 DEF TypeOK
  <2>7. Clocks'
    BY <1>0, <2>1 DEF TypeOK, Clocks
  <2> QED
    BY <2>1, <2>3, <2>5, <2>6, <2>7, ClearedKept
<1>3. CASE Skip
  <2>1. /\ pc = "before" /\ pc' = "after"
        /\ UNCHANGED <<settings, clock, desired, flags, reason, up, history>>
        /\ wanted /\ ~degraded => Waiting(passStart)
        /\ lastError' \in Errors
    BY <1>3 DEF Skip, Handled, Errors
  <2>2. TypeOK'
    BY <1>0, <2>1 DEF TypeOK, settings, clock, flags, desired, history
  <2>3. Clocks'
    BY <1>0, <2>1 DEF TypeOK, Clocks, clock
  <2>4. Fields' /\ ReasonFits' /\ Spaced' /\ Bounds' /\ Resumes'
    BY <1>0, <2>1, DelaysStay
       DEF Fields, ReasonFits, Spaced, Bounds, Resumes, flags, clock, settings, history
  <2>5. Waits'
    BY <1>0, <2>1 DEF TypeOK, Waits, WaitsUntil, Waiting, flags, clock, desired, history
  <2> QED
    BY <1>0, <2>1, <2>2, <2>3, <2>4, <2>5, DelaysStay DEF TimedInv
<1>4. CASE Attempt
  BY <1>4, AttemptKept
<1>5. CASE ResetUnsaved \/ Unwant \/ Save \/ Status \/ Flip \/ Tick \/ UNCHANGED vars
  <2> USE DEF ResetUnsaved, Unwant, Save, Status, Flip, Tick, vars, clock, tracker,
              flags, desired, history
  <2>1. /\ UNCHANGED <<settings, pc, passStart, passEnd, flags, reason>>
        /\ lastSpawn' = lastSpawn
    BY <1>5
  <2>2. /\ lastError' = lastError \/ lastError' \in {None, "probe"}
        /\ wanted' = wanted \/ wanted' \in BOOLEAN
        /\ stored' = stored \/ stored' \in {wanted, TRUE, FALSE}
        /\ up' = up \/ up' = ~up
        /\ resumed' = resumed \/ resumed' \in {None, now}
    BY <1>5
  <2>3. /\ now' \in {now, now + 1}
        /\ now' # now => CASE pc = "idle"   -> now < passEnd + PassGap
                           [] pc = "before" -> now < passStart + PassTime
                           [] pc = "after"  -> now < passStart + 2 * PassTime
                           [] OTHER         -> TRUE
    BY <1>5
  <2>4. TypeOK'
    <3>1. /\ lastError' \in Errors \cup {None} /\ resumed' \in Nat \cup {None}
      BY <1>0, <2>2 DEF TypeOK, Errors
    <3>2. wanted' \in BOOLEAN /\ stored' \in BOOLEAN /\ up' \in BOOLEAN
      BY <1>0, <2>2 DEF TypeOK
    <3> QED
      BY <1>0, <2>1, <2>3, <3>1, <3>2 DEF TypeOK, settings
  <2>5. Clocks' /\ now <= now'
    BY <1>0, <2>1, <2>3 DEF TypeOK, Clocks
  <2>6. CASE ResetUnsaved
    <3>1. Resumes'
      <4>1. firstFailure # None => firstFailure <= now
        BY <1>0 DEF TypeOK, Bounds, Clocks
      <4> QED
        BY <1>0, <2>1, <2>6, <4>1 DEF Resumes
    <3>2. \/ wanted /\ resumed' = resumed
          \/ pc = "idle" /\ now <= resumed' /\ resumed' # None
          \/ firstFailure = None
      BY <1>0, <2>6 DEF TypeOK
    <3> QED
      BY <2>1, <2>4, <2>5, <3>1, <3>2, QuietKept
  <2>7. CASE ~ResetUnsaved
    <3>1. (wanted' = wanted /\ resumed' = resumed) \/ (~wanted' /\ resumed' = None)
      BY <1>5, <2>7
    <3>2. Resumes'
      BY <1>0, <2>1, <3>1 DEF Resumes
    <3>3. ~wanted' \/ (wanted /\ resumed' = resumed)
      BY <3>1
    <3> QED
      BY <2>1, <2>4, <2>5, <3>2, <3>3, QuietKept
  <2> QED
    BY <2>6, <2>7
<1> QED
  BY <1>1, <1>2, <1>3, <1>4, <1>5 DEF Next, Pass, Command

LEMMA TimedInvariant == Spec => []TimedInv
BY TimedInit, TimedStep, PTL DEF Spec

(* Every variable always has its type.                                     *)
THEOREM TimedTypeCorrect == Spec => []TypeOK
<1>1. TimedInv => TypeOK
  BY DEF TimedInv
<1> QED
  BY <1>1, TimedInvariant, PTL

(* The daemon always retries by the settings of the source of the highest  *)
(* rank that has one (DF-009).                                             *)
THEOREM RetriesAsConfigured == Spec => []AsConfigured
<1>1. TimedInv => AsConfigured
  BY ResolvedType DEF TimedInv, Configured, AsConfigured
<1> QED
  BY <1>1, TimedInvariant, PTL

(* The reported reason fits the reported state, whatever the order of      *)
(* passes, commands, status requests and panics.                           *)
THEOREM ReasonAlwaysFits == Spec => []ReasonFits
<1>1. TimedInv => ReasonFits
  BY DEF TimedInv
<1> QED
  BY <1>1, TimedInvariant, PTL

(* For any settings a service is not started more often than the shortest  *)
(* delay allows, however many passes the commands cause (DF-007).          *)
THEOREM AttemptsStayBounded == Spec => []AttemptsBounded
<1>1. TimedInv => AttemptsBounded
  BY DEF TimedInv, Bounds, AttemptsBounded
<1> QED
  BY <1>1, TimedInvariant, PTL

(* For any settings and any timing of the passes, a wanted service that    *)
(* keeps failing is given up in time (DF-007).                             *)
THEOREM GivenUpInTime == Spec => []DegradesInTime
<1>1. TimedInv => DegradesInTime
  <2> SUFFICES ASSUME TimedInv, wanted, firstFailure # None, ~degraded
               PROVE  now - Since <= backoff["max_window_ms"] + LongestDelay
                                    + PassGap + 3 * PassTime
    BY DEF DegradesInTime
  <2>1. LongestDelay \in Nat /\ backoff["max_window_ms"] \in Nat
    BY BackoffType DEF TimedInv, BackoffOK
  <2>2. /\ now \in Nat /\ passStart \in Nat /\ passEnd \in Nat
        /\ firstFailure \in Nat /\ nextRetry \in Nat
        /\ pc \in {"idle", "before", "after"}
    BY DEF TimedInv, TypeOK, Fields
  <2>3. ASSUME NEW due \in Nat, WaitsUntil(due)
        PROVE  now <= due + PassGap + 3 * PassTime
    BY <2>2, <2>3 DEF TimedInv, Clocks, WaitsUntil
  <2>4. nextRetry - firstFailure <= backoff["max_window_ms"] + LongestDelay
    BY DEF TimedInv, Bounds
  <2>5. CASE resumed = None
    <3>1. now <= nextRetry + PassGap + 3 * PassTime
      BY <2>2, <2>3, <2>5 DEF TimedInv, Waits
    <3> QED
      BY <2>1, <2>2, <2>4, <2>5, <3>1 DEF Since
  <2>6. CASE resumed # None
    <3>1. resumed \in Nat /\ firstFailure <= resumed
      BY <2>6 DEF TimedInv, TypeOK, Resumes
    <3>2. \/ now <= nextRetry + PassGap + 3 * PassTime
          \/ now <= resumed + PassGap + 3 * PassTime
      BY <2>2, <2>3, <3>1 DEF TimedInv, Waits
    <3> QED
      BY <2>1, <2>2, <2>4, <2>6, <3>1, <3>2 DEF Since
  <2> QED
    BY <2>5, <2>6
<1> QED
  BY <1>1, TimedInvariant, PTL

(* Two starts in a row are a delay apart, less the time that a pass took   *)
(* to reach the service.                                                   *)
THEOREM SpawnsStaySpaced == Spec => SpawnsSpaced
<1>1. TimedInv /\ [Next]_vars =>
         [Attempt /\ lastSpawn # None
             => lastSpawn' - lastSpawn >= ShortestDelay - PassTime]_vars
  BY AttemptKept
<1> QED
  BY <1>1, TimedInvariant, PTL DEF Spec, SpawnsSpaced
-----------------------------------------------------------------------------
(* Daemon keeps of a tracker the answers that a pass gets from its         *)
(* instants: nothing is lost by it as long as every retry that is          *)
(* scheduled lies ahead.                                                   *)
DelaysArePositive ==
    \A s \in Started :
       LET b == Resolve(s.cli, s.env, s.file)
       IN  \/ b["jitter_percent"] # 0
           \/ /\ 1 <= b["initial_ms"]
              /\ \A n \in 1 .. AttemptsMax :
                    RawDelay[b["initial_ms"]][b["factor"]][n] # NaN

(* The tracker of RetryFlags.                                              *)
Window == IF firstFailure = None THEN "none"
          ELSE IF InWindow(firstFailure, Clock) THEN "open" ELSE "spent"
Retry == IF nextRetry = None THEN "none"
         ELSE IF Waiting(Clock) THEN "pending" ELSE "due"
Mapped == [attempts |-> attempts, degraded |-> degraded,
           window |-> Window, retry |-> Retry]

LEMMA FlagsOf ==
    /\ Flags!Init <=> Mapped = Flags!NewTracker
    /\ Flags!Reset <=> Mapped' = Flags!NewTracker
    /\ Flags!Attempt <=> /\ Flags!MayAttempt(Mapped)
                         /\ Mapped' = Flags!Attempted(Mapped)
    /\ Flags!Elapse <=>
          LET passed(t) == IF t.retry = "pending" THEN {t, Flags!RetryArrives(t)} ELSE {t}
              spent(t) == IF t.window = "open" THEN {t, Flags!WindowRunsOut(t)} ELSE {t}
          IN  Mapped' \in UNION {spent(t) : t \in passed(Mapped)}
BY DEF Mapped, Window, Retry, Flags!Init, Flags!Reset, Flags!Attempt, Flags!Elapse

(* Time passes, or nothing that the tracker shows happens.                 *)
LEMMA ElapsesOrStays ==
    ASSUME TimedInv, UNCHANGED <<settings, flags>>,
           Clock \in Nat, Clock' \in Nat, Clock <= Clock'
    PROVE  Flags!Elapse
<1>1. Window' = Window \/ (Window = "open" /\ Window' = "spent")
  <2>1. CASE firstFailure = None
    BY <2>1 DEF flags, Window
  <2>2. CASE firstFailure # None
    <3>1. PICK f \in Nat, w \in Nat, t \in Nat, u \in Nat :
             /\ f = firstFailure /\ w = backoff["max_window_ms"]
             /\ t = Clock /\ u = Clock'
      BY <2>2, BackoffType DEF TimedInv, TypeOK, BackoffOK
    <3>2. u - f <= w => t - f <= w
      BY <3>1
    <3>3. /\ InWindow(firstFailure, Clock) <=> t - f <= w
          /\ InWindow(firstFailure, Clock)' <=> u - f <= w
      BY <3>1 DEF InWindow, flags, settings
    <3> QED
      BY <2>2, <3>2, <3>3 DEF Window, flags
  <2> QED
    BY <2>1, <2>2
<1>2. Retry' = Retry \/ (Retry = "pending" /\ Retry' = "due")
  <2>1. CASE nextRetry = None
    BY <2>1 DEF flags, Retry
  <2>2. CASE nextRetry # None
    <3>1. PICK r \in Nat, t \in Nat, u \in Nat : r = nextRetry /\ t = Clock /\ u = Clock'
      BY <2>2 DEF TimedInv, TypeOK
    <3>2. u < r => t < r
      BY <3>1
    <3>3. (Waiting(Clock) <=> t < r) /\ (Waiting(Clock)' <=> u < r)
      BY <2>2, <3>1 DEF Waiting, flags
    <3> QED
      BY <2>2, <3>2, <3>3 DEF Retry, flags
  <2> QED
    BY <2>1, <2>2
<1> DEFINE passed(t) == IF t.retry = "pending" THEN {t, Flags!RetryArrives(t)} ELSE {t}
           spent(t) == IF t.window = "open" THEN {t, Flags!WindowRunsOut(t)} ELSE {t}
           middle == [attempts |-> attempts, degraded |-> degraded,
                      window |-> Window, retry |-> Retry']
<1>3. middle \in passed(Mapped)
  <2>1. CASE Retry' = Retry
    <3>1. middle = Mapped
      BY <2>1 DEF Mapped
    <3> QED
      BY <3>1
  <2>2. CASE Retry = "pending" /\ Retry' = "due"
    <3>1. middle = Flags!RetryArrives(Mapped) /\ Mapped.retry = "pending"
      BY <2>2 DEF Mapped, Flags!RetryArrives
    <3> QED
      BY <3>1
  <2> QED
    BY <1>2, <2>1, <2>2
<1>4. Mapped' \in spent(middle)
  <2>1. Mapped' = [attempts |-> attempts, degraded |-> degraded,
                   window |-> Window', retry |-> Retry']
    BY DEF Mapped, flags
  <2>2. CASE Window' = Window
    <3>1. Mapped' = middle
      BY <2>1, <2>2
    <3> QED
      BY <3>1
  <2>3. CASE Window = "open" /\ Window' = "spent"
    <3>1. Mapped' = Flags!WindowRunsOut(middle) /\ middle.window = "open"
      BY <2>1, <2>3 DEF Flags!WindowRunsOut
    <3> QED
      BY <3>1
  <2> QED
    BY <1>1, <2>2, <2>3
<1> QED
  BY <1>3, <1>4, FlagsOf

LEMMA AttemptIsAttempt ==
    ASSUME DelaysArePositive, TimedInv, TimedInv', Attempt
    PROVE  Flags!Attempt
<1>0. /\ pc = "before" /\ pc' = "after" /\ ~degraded /\ ~Waiting(passStart) /\ wanted
      /\ UNCHANGED <<settings, now, passStart, passEnd, up>>
      /\ attempts' = Count(attempts) /\ firstFailure' = StartWindow(firstFailure)
  BY DEF Attempt, Handled, clock
<1>1. Clock = passStart /\ Clock' = passStart /\ backoff' = backoff
  BY <1>0 DEF Clock, settings
<1>2. Flags!MayAttempt(Mapped)
  BY <1>0, <1>1 DEF Flags!MayAttempt, Mapped, Retry
<1>3. PICK p \in Nat, w \in Nat : p = passStart /\ w = backoff["max_window_ms"]
  BY BackoffType DEF TimedInv, TypeOK, BackoffOK
<1>4. InWindow(p, p)
  BY <1>3 DEF InWindow
<1>5. Window' = IF Window = "none" THEN "open" ELSE Window
  <2>1. firstFailure' # None
    BY <1>0, <1>3 DEF StartWindow
  <2>2. InWindow(firstFailure, Clock)' <=> InWindow(firstFailure', passStart)
    BY <1>1 DEF InWindow
  <2> QED
    BY <1>0, <1>1, <1>3, <1>4, <2>1, <2>2 DEF Window, StartWindow
<1>6. /\ InWindow(firstFailure', passStart) <=> Window' = "open"
      /\ Window' \in {"open", "spent"}
  <2>1. firstFailure' # None
    BY <1>0, <1>3 DEF StartWindow
  <2>2. InWindow(firstFailure, Clock)' <=> InWindow(firstFailure', passStart)
    BY <1>1 DEF InWindow
  <2> QED
    BY <2>1, <2>2 DEF Window
<1>7. CASE InWindow(firstFailure', passStart)
  <2>1. /\ ~DelayPanics /\ degraded' = degraded
        /\ \E jitter \in Jitters :
               nextRetry' = passStart + ComputeDelay(attempts', jitter)
    BY <1>7 DEF Attempt, RetryAt
  <2>2. PICK jitter \in Jitters : nextRetry' = passStart + ComputeDelay(attempts', jitter)
    BY <2>1
  <2>3. attempts' \in 1 .. AttemptsMax
    <3>1. attempts \in 0 .. AttemptsMax
      BY DEF TimedInv, TypeOK
    <3> QED
      BY <1>0, <3>1 DEF Count
  <2>4. PICK d \in Nat : d = ComputeDelay(attempts', jitter) /\ ShortestDelay <= d
    BY <2>1, <2>3, BackoffType, DelayBounds DEF TimedInv
  <2>5. ShortestDelay \in Nat /\ 1 <= ShortestDelay
    <3>1. PICK b \in {backoff["initial_ms"]}, j \in {backoff["jitter_percent"]} :
             b \in Nat /\ j \in Nat /\ -j \in Int
      BY BackoffType DEF TimedInv, BackoffOK
    <3>2. LeastBase \in Nat
      BY <3>1 DEF LeastBase
    <3>3. 1 <= Adjusted(LeastBase, -j)
      BY <3>1, <3>2, AdjustedMonotone
    <3>4. CASE j = 0
      <4>1. 1 <= b /\ \A n \in 1 .. AttemptsMax : Raw(n) # NaN
        BY <3>1, <3>4 DEF DelaysArePositive, TimedInv, Configured, Raw
      <4> QED
        BY <3>1, <3>4, <4>1, BackoffType DEF ShortestDelay, LeastBase, TimedInv
    <3> QED
      BY <3>1, <3>3, <3>4, BackoffType DEF ShortestDelay, TimedInv
  <2>6. PICK x \in Nat : x = nextRetry' /\ p < x
    BY <1>3, <2>2, <2>4, <2>5
  <2>7. Waiting(Clock)'
    <3>1. x # None
      OBVIOUS
    <3> QED
      BY <1>1, <1>3, <2>6, <3>1 DEF Waiting
  <2>8. Retry' = "pending"
    BY <2>6, <2>7 DEF Retry
  <2>9. Window' = "open"
    BY <1>6, <1>7
  <2>10. Mapped' = Flags!Attempted(Mapped)
    BY <1>0, <1>5, <2>1, <2>8, <2>9 DEF Mapped, Flags!Attempted, Count
  <2> QED
    BY <1>2, <2>10, FlagsOf
<1>8. CASE ~InWindow(firstFailure', passStart)
  <2>1. degraded' = TRUE /\ nextRetry' = nextRetry
    BY <1>8 DEF Attempt
  <2>2. Retry' = Retry
    BY <1>1, <2>1 DEF Retry, Waiting
  <2>3. Window' = "spent"
    BY <1>6, <1>8
  <2>4. Mapped' = Flags!Attempted(Mapped)
    BY <1>0, <1>5, <2>1, <2>2, <2>3 DEF Mapped, Flags!Attempted, Count
  <2> QED
    BY <1>2, <2>4, FlagsOf
<1> QED
  BY <1>7, <1>8

LEMMA ClearedIsReset ==
    ASSUME Cleared
    PROVE  Flags!Reset
<1>1. Window' = "none" /\ Retry' = "none"
  BY DEF Cleared, Window, Retry
<1>2. Mapped' = Flags!NewTracker
  BY <1>1 DEF Cleared, Mapped, Flags!NewTracker
<1> QED
  BY <1>2, FlagsOf

LEMMA FlagsStep ==
    ASSUME DelaysArePositive, TimedInv, TimedInv', [Next]_vars
    PROVE  Flags!Next
<1>0. /\ TypeOK /\ Clocks /\ Fields
      /\ now \in Nat /\ passStart \in Nat /\ passStart <= now
      /\ now' \in Nat /\ passStart' \in Nat /\ passStart' <= now'
  BY DEF TimedInv, TypeOK, Clocks
<1>1. CASE Recover \/ StopUnwanted \/ StopFails \/ Panic \/ Crash \/ Reset
  <2>1. attempts > 0 \/ degraded \/ (UNCHANGED flags => Cleared)
    BY <1>0 DEF TypeOK, Fields, Cleared, flags
  <2>2. Cleared
    BY <1>1, <2>1 DEF Recover, StopUnwanted, StopFails, Answered, Panic, Crash, Ends,
                      Reset, NewTracker
  <2> QED
    BY <2>2, ClearedIsReset DEF Flags!Next
<1>2. CASE Attempt
  BY <1>2, AttemptIsAttempt DEF Flags!Next
<1>3. CASE \/ BeginPass \/ EndPass \/ PassAborted \/ Serve \/ Skip
           \/ ResetUnsaved \/ Unwant \/ Save \/ Status \/ Flip \/ Tick
           \/ UNCHANGED vars
  <2> USE DEF BeginPass, EndPass, PassAborted, Serve, Skip, Handled, ResetUnsaved,
              Unwant, Save, Status, Flip, Tick, vars, clock
  <2>1. UNCHANGED <<settings, flags>>
    BY <1>3 DEF tracker, flags
  <2>2. \/ Clock' = Clock
        \/ Clock = passStart /\ Clock' = now
        \/ Clock = now /\ Clock' = now'
        \/ Clock = now /\ Clock' = now
    BY <1>3 DEF Clock
  <2>3. Clock \in Nat /\ Clock' \in Nat /\ now <= now'
    <3>1. now' \in {now, now + 1}
      BY <1>3
    <3>2. Clock \in {passStart, now} /\ Clock' \in {passStart', now'}
      BY DEF Clock
    <3> QED
      BY <1>0, <3>1, <3>2
  <2>4. Clock <= Clock'
    BY <1>0, <2>2, <2>3
  <2> QED
    BY <2>1, <2>3, <2>4, ElapsesOrStays DEF Flags!Next
<1> QED
  BY <1>1, <1>2, <1>3 DEF Next, Pass, Command

(* The tracker that Daemon uses, without instants, is a faithful           *)
(* abstraction of the one with instants: for any settings by which a delay *)
(* is at least one unit, every step of the timed one is one that           *)
(* RetryFlags makes or leaves it alone.                                    *)
THEOREM TimedRefinesFlags ==
    ASSUME DelaysArePositive
    PROVE  Spec => ImplementsFlags
<1>1. Init => Flags!Init
  <2>1. Init => Mapped = Flags!NewTracker
    BY DEF Init, Mapped, Window, Retry, Flags!NewTracker
  <2> QED
    BY <2>1, FlagsOf
<1>2. TimedInv /\ TimedInv' /\ [Next]_vars => Flags!Next
  BY FlagsStep
<1> QED
  BY <1>1, <1>2, TimedInvariant, PTL DEF Spec, ImplementsFlags, Flags!Spec
=============================================================================
