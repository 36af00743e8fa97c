---------------------------- MODULE LoggerProofs ----------------------------
(***************************************************************************)
(* Theorems about Logger: the head of a line, the conversions of LogStream *)
(* and the line they are put into, the calendar of Date, and local time by *)
(* TimeZone, for buffers, integers, times and zones of any size.           *)
(***************************************************************************)
EXTENDS Logger, SequenceTheorems, FiniteSetTheorems, WellFoundedInduction, TLAPS

-----------------------------------------------------------------------------
(* Induction.  The least element of a set of natural numbers stands in for *)
(* it: the least counterexample.  A recursive function is what its         *)
(* definition says once some function is, which the recursion must allow.  *)

\* A set of natural numbers has a least element.
LEMMA LeastOf ==
  ASSUME NEW T, T \subseteq Nat, T # {}
  PROVE  \E x \in T : \A y \in T : x <= y
PROOF
<1> DEFINE R == OpToRel(<, Nat)
<1>1. IsWellFoundedOn(R, Nat)
  BY NatLessThanWellFounded
<1>2. \A x, y \in Nat : x < y => <<x, y>> \in R
  BY DEF OpToRel
<1> HIDE DEF R
<1>3. PICK x \in T : \A y \in T : ~(<<y, x>> \in R)
  BY <1>1, WFMin
<1>4. x \in Nat /\ \A y \in T : y \in Nat
  OBVIOUS
<1>5. \A y \in T : ~(y < x)
  BY <1>2, <1>3, <1>4
<1>6. QED
  BY <1>4, <1>5

\* i is an argument for which g is what the recursion says: base[i] where the
\* recursion ends, and step of i and the value at down[i] elsewhere.
Solves(g, i, ends, base, down, step) ==
  g[i] = IF i \in ends THEN base[i] ELSE step[<<i, g[down[i]]>>]

\* A recursion along which mu decreases.
Descends(D, S, ends, base, down, step, mu) ==
  /\ base \in [D -> S] /\ down \in [D -> D] /\ step \in [D \X S -> S] /\ mu \in [D -> Nat]
  /\ \A i \in D : i \notin ends => mu[down[i]] < mu[i]

\* There is a function that solves it for all arguments below any measure.
LEMMA SolvedUpTo ==
  ASSUME NEW D, NEW S, NEW ends, NEW base, NEW down, NEW step, NEW mu,
         Descends(D, S, ends, base, down, step, mu)
  PROVE  \A n \in Nat : \E g \in [D -> S] :
           \A i \in D : mu[i] < n => Solves(g, i, ends, base, down, step)
PROOF
<1> DEFINE P(n) == \E g \in [D -> S] :
                     \A i \in D : mu[i] < n => Solves(g, i, ends, base, down, step)
           T == {n \in Nat : ~P(n)}
<1>1. SUFFICES ASSUME T # {} PROVE FALSE
  OBVIOUS
<1>2. PICK n \in T : \A k \in T : n <= k
  <2>1. T \subseteq Nat
    OBVIOUS
  <2> HIDE DEF T
  <2>2. QED
    BY <1>1, <2>1, LeastOf
<1>3. n \in Nat /\ ~P(n)
  BY <1>2
<1>4. n # 0
  <2>1. P(0)
    <3>1. base \in [D -> S] /\ \A i \in D : ~(mu[i] < 0)
      BY DEF Descends
    <3>2. QED
      BY <3>1
  <2>2. QED
    BY <1>3, <2>1
<1>5. PICK g \in [D -> S] : \A i \in D : mu[i] < n - 1 => Solves(g, i, ends, base, down, step)
  <2>1. n - 1 \in Nat /\ ~(n <= n - 1)
    BY <1>3, <1>4
  <2>2. n - 1 \notin T
    BY <1>2, <2>1
  <2>3. P(n - 1)
    BY <2>1, <2>2
  <2>4. QED
    BY <2>3
<1> DEFINE h == [i \in D |-> IF mu[i] < n - 1 THEN g[i]
                             ELSE IF i \in ends THEN base[i] ELSE step[<<i, g[down[i]]>>]]
<1>6. h \in [D -> S]
  <2>1. ASSUME NEW i \in D
        PROVE  g[i] \in S /\ base[i] \in S /\ step[<<i, g[down[i]]>>] \in S
    <3>1. g[i] \in S /\ base[i] \in S /\ down[i] \in D
      BY <1>5 DEF Descends
    <3>2. <<i, g[down[i]]>> \in D \X S
      BY <1>5, <3>1
    <3>3. QED
      BY <3>1, <3>2 DEF Descends
  <2>2. QED
    BY <2>1
<1>7. ASSUME NEW i \in D, mu[i] < n PROVE Solves(h, i, ends, base, down, step)
  <2>1. down[i] \in D /\ mu[i] \in Nat /\ mu[down[i]] \in Nat
        /\ (i \notin ends => mu[down[i]] < mu[i])
    BY DEF Descends
  <2>2. i \notin ends => h[down[i]] = g[down[i]]
    <3>1. i \notin ends => mu[down[i]] < n - 1
      BY <1>3, <1>7, <2>1
    <3>2. QED
      BY <2>1, <3>1
  <2>3. h[i] = IF i \in ends THEN base[i] ELSE step[<<i, g[down[i]]>>]
    <3>1. CASE mu[i] < n - 1
      BY <1>5, <3>1 DEF Solves
    <3>2. CASE ~(mu[i] < n - 1)
      BY <3>2
    <3>3. QED
      BY <3>1, <3>2
  <2> HIDE DEF h
  <2>4. QED
    BY <2>2, <2>3 DEF Solves
<1> HIDE DEF h
<1>8. P(n)
  BY <1>6, <1>7
<1>9. QED
  BY <1>3, <1>8

\* Two that do so agree.
LEMMA SolvedOnce ==
  ASSUME NEW D, NEW S, NEW ends, NEW base, NEW down, NEW step, NEW mu,
         Descends(D, S, ends, base, down, step, mu), NEW n \in Nat, NEW g, NEW h,
         \A i \in D : mu[i] < n => Solves(g, i, ends, base, down, step)
                                   /\ Solves(h, i, ends, base, down, step)
  PROVE  \A i \in D : mu[i] < n => g[i] = h[i]
PROOF
<1> DEFINE T == {mu[i] : i \in {j \in D : mu[j] < n /\ g[j] # h[j]}}
<1>1. SUFFICES ASSUME T # {} PROVE FALSE
  OBVIOUS
<1>2. T \subseteq Nat
  BY DEF Descends
<1>3. PICK t \in T : \A k \in T : t <= k
  <2> HIDE DEF T
  <2>2. QED
    BY <1>1, <1>2, LeastOf
<1>4. PICK i \in D : mu[i] = t /\ mu[i] < n /\ g[i] # h[i]
  BY <1>3
<1>5. down[i] \in D /\ mu[i] \in Nat /\ mu[down[i]] \in Nat
      /\ (i \notin ends => mu[down[i]] < mu[i])
  BY DEF Descends
<1>6. i \notin ends /\ g[down[i]] # h[down[i]]
  BY <1>4 DEF Solves
<1>7. mu[down[i]] \in T
  BY <1>4, <1>5, <1>6
<1>8. t <= mu[down[i]]
  BY <1>3, <1>7
<1>9. QED
  BY <1>4, <1>5, <1>6, <1>8

\* So there is one that solves it everywhere.
LEMMA Solved ==
  ASSUME NEW D, NEW S, NEW ends, NEW base, NEW down, NEW step, NEW mu,
         Descends(D, S, ends, base, down, step, mu)
  PROVE  \E f \in [D -> S] : \A i \in D : Solves(f, i, ends, base, down, step)
PROOF
<1> DEFINE Sat(g, n) == \A i \in D : mu[i] < n => Solves(g, i, ends, base, down, step)
           G(n) == CHOOSE g \in [D -> S] : Sat(g, n)
           f == [i \in D |-> G(mu[i] + 1)[i]]
<1>1. \A n \in Nat : G(n) \in [D -> S] /\ Sat(G(n), n)
  <2>1. \A n \in Nat : \E g \in [D -> S] : Sat(g, n)
    BY SolvedUpTo
  <2> HIDE DEF Sat
  <2>2. QED
    BY <2>1
<1> HIDE DEF G
<1>2. ASSUME NEW i \in D PROVE mu[i] \in Nat /\ mu[i] + 1 \in Nat /\ down[i] \in D
  BY DEF Descends
<1>3. f \in [D -> S]
  BY <1>1, <1>2
<1>4. ASSUME NEW i \in D PROVE Solves(f, i, ends, base, down, step)
  <2>1. Solves(G(mu[i] + 1), i, ends, base, down, step)
    BY <1>1, <1>2
  <2>2. ASSUME i \notin ends PROVE f[down[i]] = G(mu[i] + 1)[down[i]]
    <3>1. mu[down[i]] < mu[i]
      BY <2>2 DEF Descends
    <3>2. PICK n \in Nat, m \in Nat : n = mu[down[i]] + 1 /\ m = mu[i] + 1 /\ n <= m
      BY <1>2, <3>1
    <3>3. Sat(G(n), n)
      BY <1>1
    <3>4. ASSUME NEW j \in D, mu[j] < n PROVE Solves(G(m), j, ends, base, down, step)
      <4>1. mu[j] < m
        BY <1>2, <3>2, <3>4
      <4>2. QED
        BY <1>1, <4>1
    <3>5. \A j \in D : mu[j] < n => Solves(G(n), j, ends, base, down, step)
                                    /\ Solves(G(m), j, ends, base, down, step)
      BY <3>3, <3>4
    <3>6. \A j \in D : mu[j] < n => G(n)[j] = G(m)[j]
      <4>1. PICK g, h : g = G(n) /\ h = G(m)
        OBVIOUS
      <4>2. \A j \in D : mu[j] < n => Solves(g, j, ends, base, down, step)
                                      /\ Solves(h, j, ends, base, down, step)
        BY <3>5, <4>1
      <4>3. \A j \in D : mu[j] < n => g[j] = h[j]
        BY <4>2, SolvedOnce
      <4>4. QED
        BY <4>1, <4>3
    <3>7. G(n)[down[i]] = G(m)[down[i]]
      BY <1>2, <3>2, <3>6
    <3>8. QED
      BY <1>2, <3>2, <3>7
  <2>3. f[i] = G(mu[i] + 1)[i]
    OBVIOUS
  <2> HIDE DEF f
  <2>4. QED
    BY <2>1, <2>2, <2>3 DEF Solves
<1> HIDE DEF f
<1>5. QED
  BY <1>3, <1>4

\* Nothing else is as the recursion says: what agrees with it wherever the value
\* below is one of S, has all its values there.
LEMMA SolutionIs ==
  ASSUME NEW D, NEW S, NEW ends, NEW base, NEW down, NEW step, NEW mu,
         Descends(D, S, ends, base, down, step, mu),
         NEW f \in [D -> S], \A i \in D : Solves(f, i, ends, base, down, step),
         NEW g,
         \A i \in D : /\ i \in ends => g[i] = base[i]
                      /\ i \notin ends /\ g[down[i]] \in S => g[i] = step[<<i, g[down[i]]>>]
  PROVE  \A i \in D : g[i] = f[i]
PROOF
<1> DEFINE T == {mu[i] : i \in {j \in D : g[j] # f[j]}}
<1>1. SUFFICES ASSUME T # {} PROVE FALSE
  OBVIOUS
<1>2. T \subseteq Nat
  BY DEF Descends
<1>3. PICK t \in T : \A k \in T : t <= k
  <2> HIDE DEF T
  <2>1. QED
    BY <1>1, <1>2, LeastOf
<1>4. PICK i \in D : mu[i] = t /\ g[i] # f[i]
  BY <1>3
<1>5. down[i] \in D /\ mu[i] \in Nat /\ mu[down[i]] \in Nat
      /\ (i \notin ends => mu[down[i]] < mu[i])
  BY DEF Descends
<1>6. i \notin ends /\ g[down[i]] # f[down[i]]
  <2>1. f[down[i]] \in S
    BY <1>5
  <2>2. QED
    BY <1>4, <2>1 DEF Solves
<1>7. mu[down[i]] \in T
  BY <1>5, <1>6
<1>8. QED
  BY <1>3, <1>4, <1>5, <1>6, <1>7

-----------------------------------------------------------------------------
(* Logger. *)

\* A stream that has kept within its buffer and left out nothing while
\* kMaxNumericSize bytes were free.
StreamOK(s) ==
  /\ DOMAIN s = {"length", "end", "whole"}
  /\ s.length \in Nat /\ s.end \in Nat /\ s.whole \in BOOLEAN
  /\ s.length <= kSmallBuffer /\ s.end <= kSmallBuffer
  /\ s.whole \/ s.length > kSmallBuffer - kMaxNumericSize

\* Text is cut at the end of the buffer.
LEMMA TextFits ==
  ASSUME NEW s, StreamOK(s), NEW len \in Nat
  PROVE  StreamOK(AppendText(s, len))
PROOF
<1> DEFINE copied == IF Avail(s) > len THEN len ELSE Avail(s)
           r == AppendText(s, len)
<1>1. /\ s.length \in Nat /\ s.end \in Nat /\ s.whole \in BOOLEAN
      /\ s.length <= kSmallBuffer /\ s.end <= kSmallBuffer
      /\ s.whole \/ s.length > kSmallBuffer - kMaxNumericSize
      /\ kSmallBuffer \in Nat /\ kMaxNumericSize \in Nat /\ kMaxNumericSize > 28
  BY SizesAssumption DEF StreamOK, staticCheck
<1>2. /\ copied \in Nat /\ s.length + copied <= kSmallBuffer
      /\ copied = len \/ s.length + copied = kSmallBuffer
  BY <1>1 DEF Avail
<1>3. /\ DOMAIN r = {"length", "end", "whole"}
      /\ r.length = s.length + copied
      /\ r.end = IF s.end > s.length + copied THEN s.end ELSE s.length + copied
      /\ r.whole = (s.whole /\ copied = len)
  BY DEF AppendText
<1> HIDE DEF copied, r
<1>4. r.length \in Nat /\ r.end \in Nat /\ r.length <= kSmallBuffer /\ r.end <= kSmallBuffer
  BY <1>1, <1>2, <1>3
<1>5. r.whole \in BOOLEAN /\ (r.whole \/ r.length > kSmallBuffer - kMaxNumericSize)
  BY <1>1, <1>2, <1>3
<1>6. QED
  BY <1>3, <1>4, <1>5 DEF StreamOK, r

\* A number that is shorter than kMaxNumericSize is written with its
\* terminating null, or not at all.
LEMMA NumberFits ==
  ASSUME NEW s, StreamOK(s), NEW len \in Nat, len < kMaxNumericSize
  PROVE  StreamOK(AppendNumber(s, len))
PROOF
<1>1. CASE Avail(s) >= kMaxNumericSize
  BY <1>1, SizesAssumption DEF StreamOK, AppendNumber, Avail, staticCheck
<1>2. CASE ~(Avail(s) >= kMaxNumericSize)
  BY <1>2, SizesAssumption DEF StreamOK, AppendNumber, Avail, staticCheck
<1>3. QED
  BY <1>1, <1>2

\* A line starts with an empty stream.
LEMMA EmptyFits == StreamOK(EmptyStream)
PROOF
  BY SizesAssumption DEF StreamOK, EmptyStream

\* Neither do two texts leave the buffer.
LEMMA TextsFit ==
  ASSUME NEW s, StreamOK(s), NEW len1 \in Nat, NEW len2 \in Nat
  PROVE  StreamOK(AppendTexts(s, len1, len2))
PROOF
  BY TextFits DEF AppendTexts

\* The head of a line fits, whichever parts it has.
LEMMA HeadFits == ASSUME NEW st \in Statements PROVE StreamOK(Head0(st))
PROOF
<1>1. StreamOK(TimeAndLevel)
  <2>1. (IF g_logTimeZone # NoZone THEN 8 ELSE 9) \in Nat
    OBVIOUS
  <2>2. QED
    BY <2>1, EmptyFits, TextsFit DEF TimeAndLevel
<1>2. StreamOK(ErrorText(TimeAndLevel))
  <2>1. 2 < kMaxNumericSize
    BY SizesAssumption DEF staticCheck
  <2>2. QED
    BY <1>1, <2>1, TextsFit, TextFits, NumberFits DEF ErrorText
<1>3. StreamOK(AppendTexts(TimeAndLevel, 9, 1))
  BY <1>1, TextsFit
<1>4. QED
  BY <1>1, <1>2, <1>3 DEF Head0

\* So does its end.
LEMMA FinishFits == ASSUME NEW s, StreamOK(s) PROVE StreamOK(finish(s))
PROOF
<1>1. 3 < kMaxNumericSize
  BY SizesAssumption DEF staticCheck
<1>2. QED
  BY <1>1, TextsFit, TextFits, NumberFits DEF finish

\* The fields of a line.
LineFields == {"level", "stream", "pieces", "second", "zone", "time", "stale", "tid", "number"}
LineHasFields == line # NoLine => DOMAIN line = LineFields

\* The cached thread number is the thread's, also after a fork.
TidIsCached == t_cachedTid \in {0, tid}

\* The cached text is that of the cached second in the zone that is set, unless
\* the zone was set after it was made.
TimeIsCached ==
  /\ t_lastSecond # 0 => t_time = LocalText(g_logTimeZone, t_lastSecond) \/ rezoned
  /\ rezoned \in BOOLEAN

\* The inductive invariant of Logger's caches: a line copies what they hold.
HeadIInv == LineHasFields /\ TidIsCached /\ TimeIsCached /\ HeadIsCurrent

\* Every step preserves it.
LEMMA StepHead == HeadIInv /\ [Next]_vars => HeadIInv'
PROOF
<1>1. SUFFICES ASSUME HeadIInv, [Next]_vars PROVE HeadIInv'
  OBVIOUS
<1> USE <1>1 DEF HeadIInv, LineHasFields, LineFields, TidIsCached, TimeIsCached,
                 HeadIsCurrent, settings, caches
<1>2. ASSUME NEW st \in Statements, now \in LogInstants, Construct(st) PROVE HeadIInv'
  <2>1. now # 0
    BY <1>2, LogInstantsAssumption
  <2>2. /\ t_lastSecond' = now /\ g_logTimeZone' = g_logTimeZone /\ tid' = tid
        /\ t_cachedTid' = tid
    BY <1>2 DEF Construct, formatTime, cacheTid
  <2>3. rezoned' \in BOOLEAN /\ (t_time' = LocalText(g_logTimeZone, now) \/ rezoned')
    <3>1. CASE Cached(now)
      <4>1. now = t_lastSecond /\ t_time' = t_time /\ rezoned' = rezoned
        BY <1>2, <3>1 DEF Construct, formatTime, Cached
      <4>2. QED
        BY <2>1, <4>1
    <3>2. CASE ~Cached(now)
      BY <1>2, <3>2 DEF Construct, formatTime
    <3>3. QED
      BY <3>1, <3>2
  <2>4. TimeIsCached' /\ TidIsCached'
    BY <2>2, <2>3
  <2>5. /\ DOMAIN line' = LineFields /\ line'.zone = g_logTimeZone /\ line'.second = now
        /\ line'.time = t_time' /\ line'.tid = t_cachedTid'
    BY <1>2 DEF Construct
  <2>6. line'.stale = rezoned'
    BY <1>2 DEF Construct
  <2>7. QED
    BY <2>2, <2>3, <2>4, <2>5, <2>6
<1>3. ASSUME NEW len, StreamText(len) PROVE HeadIInv'
  BY <1>3 DEF StreamText
<1>4. ASSUME NEW v, StreamNumber(v) \/ StreamPointer(v) PROVE HeadIInv'
  <2>1. CASE StreamNumber(v)
    BY <2>1 DEF StreamNumber
  <2>2. CASE StreamPointer(v)
    BY <2>2 DEF StreamPointer
  <2>3. QED
    BY <1>4, <2>1, <2>2
<1>5. CASE Destroy
  BY <1>5 DEF Destroy
<1>6. ASSUME NEW l, setLogLevel(l) PROVE HeadIInv'
  BY <1>6 DEF setLogLevel
<1>7. ASSUME NEW zone, setTimeZone(zone) PROVE HeadIInv'
  BY <1>7 DEF setTimeZone
<1>8. ASSUME NEW to, setOutput(to) \/ setFlush(to) PROVE HeadIInv'
  BY <1>8 DEF setOutput, setFlush
<1>9. ASSUME NEW t, Tick(t) PROVE HeadIInv'
  BY <1>9 DEF Tick
<1>10. CASE Fork
  BY <1>10 DEF Fork
<1>11. CASE UNCHANGED vars
  BY <1>11 DEF vars
<1>12. QED
  BY <1>2, <1>3, <1>4, <1>5, <1>6, <1>7, <1>8, <1>9, <1>10, <1>11
     DEF Next, LogStep, SettingStep, setLogLevelByName

\* The head of a line carries the thread that logs it and the local time of its
\* second, for any readings of the clock and any zones, however often the
\* process forks and the clock is set.
THEOREM HeadsAreCurrent == Spec => []HeadIsCurrent
PROOF
<1>1. Init => HeadIInv
  BY DEF Init, HeadIInv, LineHasFields, TidIsCached, TimeIsCached, HeadIsCurrent
<1>2. QED
  BY <1>1, StepHead, PTL DEF Spec, HeadIInv

-----------------------------------------------------------------------------
(* LogStream: the conversions of numbers. *)

\* Division by ten rounds towards zero, and leaves a digit.
LEMMA DivTen ==
  ASSUME NEW i \in Int
  PROVE  /\ Quot(i, 10) \in Int /\ Rem(i, 10) \in -9 .. 9
         /\ i = 10 * Quot(i, 10) + Rem(i, 10)
         /\ i >= 0 => Quot(i, 10) >= 0 /\ Rem(i, 10) >= 0 /\ (Quot(i, 10) # 0 => Quot(i, 10) < i)
         /\ i < 0 => Quot(i, 10) <= 0 /\ Rem(i, 10) <= 0 /\ (Quot(i, 10) # 0 => i < Quot(i, 10))
PROOF
  BY DEF Quot, Rem

\* And division by sixteen.
LEMMA DivSixteen ==
  ASSUME NEW i \in Nat
  PROVE  /\ i \div 16 \in Nat /\ i % 16 \in 0 .. 15 /\ i = 16 * (i \div 16) + (i % 16)
         /\ i \div 16 # 0 => i \div 16 < i
PROOF
  OBVIOUS

\* The digit that zero[lsd] is: that of lsd without its sign.
LEMMA DigitIs ==
  ASSUME NEW r \in -9 .. 9
  PROVE  digitFor[r] \in 0 .. 9 /\ digitFor[r] = IF r < 0 THEN -r ELSE r
PROOF
<1>1. r \in {-9, -8, -7, -6, -5, -4, -3, -2, -1, 0, 1, 2, 3, 4, 5, 6, 7, 8, 9}
  OBVIOUS
<1>2. digitFor[r] = digits[10 + r]
  BY DEF digitFor
<1>3. QED
  BY <1>1, <1>2 DEF digits

\* The loop of convert ends: ConvertLoop is a function that is as its definition
\* says.
LEMMA ConvertEnds ==
  /\ ConvertLoop \in [Int -> Seq(0 .. 9)]
  /\ \A i \in Int :
       ConvertLoop[i] = IF Quot(i, 10) = 0 THEN <<digitFor[Rem(i, 10)]>>
                        ELSE Append(ConvertLoop[Quot(i, 10)], digitFor[Rem(i, 10)])
PROOF
<1> DEFINE D == Int
           S == Seq(0 .. 9)
           ends == {i \in Int : Quot(i, 10) = 0}
           base == [i \in D |-> <<digitFor[Rem(i, 10)]>>]
           down == [i \in D |-> Quot(i, 10)]
           step == [z \in D \X S |-> Append(z[2], digitFor[Rem(z[1], 10)])]
           mu == [i \in D |-> IF i >= 0 THEN i ELSE -i]
<1>1. \A i \in Int : /\ Quot(i, 10) \in Int /\ digitFor[Rem(i, 10)] \in 0 .. 9
  BY DivTen, DigitIs
<1>2. base \in [D -> S]
  BY <1>1
<1>3. down \in [D -> D]
  BY <1>1
<1>4. step \in [D \X S -> S]
  <2>1. ASSUME NEW z \in D \X S PROVE Append(z[2], digitFor[Rem(z[1], 10)]) \in S
    <3>1. z[1] \in Int /\ z[2] \in S
      BY <2>1
    <3>2. digitFor[Rem(z[1], 10)] \in 0 .. 9
      BY <1>1, <3>1
    <3>3. QED
      BY <3>1, <3>2, AppendProperties
  <2>2. QED
    BY <2>1
<1>5. mu \in [D -> Nat] /\ \A i \in D : i \notin ends => mu[down[i]] < mu[i]
  <2>1. mu \in [D -> Nat]
    OBVIOUS
  <2>2. ASSUME NEW i \in D, Quot(i, 10) # 0 PROVE mu[Quot(i, 10)] < mu[i]
    <3>1. PICK q \in Int : q = Quot(i, 10)
      BY <1>1
    <3>2. /\ i >= 0 => q >= 0 /\ q < i
          /\ i < 0 => q <= 0 /\ i < q
      BY <2>2, <3>1, DivTen
    <3>3. mu[q] < mu[i]
      BY <3>2
    <3>4. QED
      BY <3>1, <3>3
  <2>3. QED
    BY <2>1, <2>2
<1>6. Descends(D, S, ends, base, down, step, mu)
  <2> HIDE DEF D, S, ends, base, down, step, mu
  <2>1. QED
    BY <1>2, <1>3, <1>4, <1>5 DEF Descends
<1>7. PICK f \in [D -> S] : \A i \in D : Solves(f, i, ends, base, down, step)
  <2> HIDE DEF D, S, ends, base, down, step, mu
  <2>1. QED
    BY <1>6, Solved
<1>8. \A i \in Int : f[i] = IF Quot(i, 10) = 0 THEN <<digitFor[Rem(i, 10)]>>
                            ELSE Append(f[Quot(i, 10)], digitFor[Rem(i, 10)])
  <2>1. ASSUME NEW i \in Int, Quot(i, 10) = 0 PROVE f[i] = <<digitFor[Rem(i, 10)]>>
    BY <1>7, <2>1 DEF Solves
  <2>2. ASSUME NEW i \in Int, Quot(i, 10) # 0
        PROVE  f[i] = Append(f[Quot(i, 10)], digitFor[Rem(i, 10)])
    <3>1. f[i] = step[<<i, f[down[i]]>>] /\ down[i] = Quot(i, 10)
      BY <1>7, <2>2 DEF Solves
    <3>2. <<i, f[Quot(i, 10)]>> \in D \X S
      BY <1>1, <1>7
    <3>3. QED
      BY <3>1, <3>2
  <2>3. QED
    BY <2>1, <2>2
<1>9. f = [i \in Int |-> IF Quot(i, 10) = 0 THEN <<digitFor[Rem(i, 10)]>>
                         ELSE Append(f[Quot(i, 10)], digitFor[Rem(i, 10)])]
  BY <1>7, <1>8
<1> HIDE DEF S
<1>10. ConvertLoop = [i \in Int |-> IF Quot(i, 10) = 0 THEN <<digitFor[Rem(i, 10)]>>
                         ELSE Append(ConvertLoop[Quot(i, 10)], digitFor[Rem(i, 10)])]
  <2>1. ConvertLoop = CHOOSE g : g = [i \in Int |-> IF Quot(i, 10) = 0 THEN <<digitFor[Rem(i, 10)]>>
                         ELSE Append(g[Quot(i, 10)], digitFor[Rem(i, 10)])]
    BY Zenon DEF ConvertLoop
  <2>2. QED
    BY <1>9, <2>1, Zenon
<1>11. \A i \in Int : ConvertLoop[i] = IF Quot(i, 10) = 0 THEN <<digitFor[Rem(i, 10)]>>
                         ELSE Append(ConvertLoop[Quot(i, 10)], digitFor[Rem(i, 10)])
  <2>1. PICK g : g = ConvertLoop
    OBVIOUS
  <2>2. g = [i \in Int |-> IF Quot(i, 10) = 0 THEN <<digitFor[Rem(i, 10)]>>
                         ELSE Append(g[Quot(i, 10)], digitFor[Rem(i, 10)])]
    BY <1>10, <2>1
  <2>3. QED
    BY <2>1, <2>2
<1>12. \A i \in Int : ConvertLoop[i] = f[i]
  <2>1. PICK g : g = ConvertLoop
    OBVIOUS
  <2>2. ASSUME NEW i \in D, i \in ends PROVE g[i] = base[i]
    BY <1>11, <2>1, <2>2
  <2>3. ASSUME NEW i \in D, i \notin ends, g[down[i]] \in S PROVE g[i] = step[<<i, g[down[i]]>>]
    <3>1. down[i] = Quot(i, 10) /\ Quot(i, 10) # 0
      BY <1>1, <2>3
    <3>2. g[i] = Append(g[Quot(i, 10)], digitFor[Rem(i, 10)])
      BY <1>11, <2>1, <3>1
    <3>3. <<i, g[down[i]]>> \in D \X S
      BY <2>3
    <3>4. QED
      BY <3>1, <3>2, <3>3
  <2> HIDE DEF D, ends, base, down, step, mu
  <2>4. \A i \in D : g[i] = f[i]
    BY <1>6, <1>7, <2>2, <2>3, SolutionIs
  <2>5. QED
    BY <2>1, <2>4 DEF D
<1>13. ConvertLoop \in [Int -> S]
  <2>1. ConvertLoop = f
    <3>1. ConvertLoop = [i \in Int |-> ConvertLoop[i]]
      BY <1>10
    <3>2. QED
      BY <1>7, <1>12, <3>1
  <2>2. QED
    BY <1>7, <2>1
<1>14. QED
  BY <1>11, <1>13 DEF S
\* So does the loop of convertHex.
LEMMA HexEnds ==
  /\ HexLoop \in [Nat -> Seq(0 .. 15)]
  /\ \A i \in Nat :
       HexLoop[i] = IF i \div 16 = 0 THEN <<i % 16>> ELSE Append(HexLoop[i \div 16], i % 16)
PROOF
<1> DEFINE D == Nat
           S == Seq(0 .. 15)
           ends == {i \in Nat : i \div 16 = 0}
           base == [i \in D |-> <<i % 16>>]
           down == [i \in D |-> i \div 16]
           step == [z \in D \X S |-> Append(z[2], z[1] % 16)]
           mu == [i \in D |-> i]
<1>1. \A i \in Nat : i \div 16 \in Nat /\ i % 16 \in 0 .. 15
  BY DivSixteen
<1>2. base \in [D -> S]
  BY <1>1
<1>3. down \in [D -> D]
  BY <1>1
<1>4. step \in [D \X S -> S]
  <2>1. ASSUME NEW z \in D \X S PROVE Append(z[2], z[1] % 16) \in S
    <3>1. z[1] \in Nat /\ z[2] \in S
      BY <2>1
    <3>2. z[1] % 16 \in 0 .. 15
      BY <1>1, <3>1
    <3>3. QED
      BY <3>1, <3>2, AppendProperties
  <2>2. QED
    BY <2>1
<1>5. mu \in [D -> Nat] /\ \A i \in D : i \notin ends => mu[down[i]] < mu[i]
  BY <1>1, DivSixteen
<1>6. Descends(D, S, ends, base, down, step, mu)
  <2> HIDE DEF D, S, ends, base, down, step, mu
  <2>1. QED
    BY <1>2, <1>3, <1>4, <1>5 DEF Descends
<1>7. PICK f \in [D -> S] : \A i \in D : Solves(f, i, ends, base, down, step)
  <2> HIDE DEF D, S, ends, base, down, step, mu
  <2>1. QED
    BY <1>6, Solved
<1>8. \A i \in Nat : f[i] = IF i \div 16 = 0 THEN <<i % 16>> ELSE Append(f[i \div 16], i % 16)
  <2>1. ASSUME NEW i \in Nat, i \div 16 = 0 PROVE f[i] = <<i % 16>>
    BY <1>7, <2>1 DEF Solves
  <2>2. ASSUME NEW i \in Nat, i \div 16 # 0 PROVE f[i] = Append(f[i \div 16], i % 16)
    <3>1. f[i] = step[<<i, f[down[i]]>>] /\ down[i] = i \div 16
      BY <1>7, <2>2 DEF Solves
    <3>2. <<i, f[i \div 16]>> \in D \X S
      BY <1>1, <1>7
    <3>3. QED
      BY <3>1, <3>2
  <2>3. QED
    BY <2>1, <2>2
<1>9. f = [i \in Nat |-> IF i \div 16 = 0 THEN <<i % 16>> ELSE Append(f[i \div 16], i % 16)]
  BY <1>7, <1>8
<1> HIDE DEF S
<1>10. HexLoop = [i \in Nat |-> IF i \div 16 = 0 THEN <<i % 16>> ELSE Append(HexLoop[i \div 16], i % 16)]
  <2>1. HexLoop = CHOOSE g : g = [i \in Nat |-> IF i \div 16 = 0 THEN <<i % 16>>
                                               ELSE Append(g[i \div 16], i % 16)]
    BY Zenon DEF HexLoop
  <2>2. QED
    BY <1>9, <2>1, Zenon
<1>11. \A i \in Nat :
         HexLoop[i] = IF i \div 16 = 0 THEN <<i % 16>> ELSE Append(HexLoop[i \div 16], i % 16)
  <2>1. PICK g : g = HexLoop
    OBVIOUS
  <2>2. g = [i \in Nat |-> IF i \div 16 = 0 THEN <<i % 16>> ELSE Append(g[i \div 16], i % 16)]
    BY <1>10, <2>1
  <2>3. QED
    BY <2>1, <2>2
<1>12. \A i \in Nat : HexLoop[i] = f[i]
  <2>1. PICK g : g = HexLoop
    OBVIOUS
  <2>2. ASSUME NEW i \in D, i \in ends PROVE g[i] = base[i]
    BY <1>11, <2>1, <2>2
  <2>3. ASSUME NEW i \in D, i \notin ends, g[down[i]] \in S PROVE g[i] = step[<<i, g[down[i]]>>]
    <3>1. down[i] = i \div 16 /\ i \div 16 # 0
      BY <1>1, <2>3
    <3>2. g[i] = Append(g[i \div 16], i % 16)
      BY <1>11, <2>1, <3>1
    <3>3. <<i, g[down[i]]>> \in D \X S
      BY <2>3
    <3>4. QED
      BY <3>1, <3>2, <3>3
  <2> HIDE DEF D, ends, base, down, step, mu
  <2>4. \A i \in D : g[i] = f[i]
    BY <1>6, <1>7, <2>2, <2>3, SolutionIs
  <2>5. QED
    BY <2>1, <2>4 DEF D
<1>13. HexLoop \in [Nat -> S]
  <2>1. HexLoop = [i \in Nat |-> HexLoop[i]]
    BY <1>10
  <2>2. HexLoop = f
    BY <1>7, <1>12, <2>1
  <2>3. QED
    BY <1>7, <2>2
<1>14. QED
  BY <1>11, <1>13 DEF S

\* r[k] is what the first k digits of a text are read as.
Reads(r, s, minus, b) ==
  /\ r \in [0 .. Len(s) -> Int] /\ r[0] = 0
  /\ \A k \in 1 .. Len(s) : r[k] = b * r[k - 1] + (IF minus THEN -s[k] ELSE s[k])

\* ReadBack, digit by digit.
LEMMA ReadBackReads ==
  ASSUME NEW s \in Seq(Int), NEW minus \in BOOLEAN, NEW b \in Int
  PROVE  \E r : /\ Reads(r, s, minus, b)
                /\ ReadBack([minus |-> minus, digits |-> s], b) = r[Len(s)]
PROOF
<1>0. Len(s) \in Nat /\ \A k \in 1 .. Len(s) : s[k] \in Int
  BY LenProperties, ElementOfSeq
<1> DEFINE D == 0 .. Len(s)
           V(k) == IF minus THEN -s[k] ELSE s[k]
           ends == {0}
           base == [k \in D |-> 0]
           down == [k \in D |-> IF k = 0 THEN 0 ELSE k - 1]
           step == [z \in D \X Int |-> IF z[1] = 0 THEN 0 ELSE b * z[2] + V(z[1])]
           mu == [k \in D |-> k]
<1>1. \A k \in 1 .. Len(s) : V(k) \in Int
  BY <1>0
<1>2. base \in [D -> Int] /\ down \in [D -> D] /\ mu \in [D -> Nat]
      /\ \A i \in D : i \notin ends => mu[down[i]] < mu[i]
  BY <1>0
<1>3. step \in [D \X Int -> Int]
  <2>1. ASSUME NEW z \in D \X Int, z[1] # 0 PROVE b * z[2] + V(z[1]) \in Int
    <3>1. z[1] \in 1 .. Len(s) /\ z[2] \in Int
      BY <1>0, <2>1
    <3>2. V(z[1]) \in Int
      BY <1>1, <3>1
    <3> HIDE DEF V
    <3>3. b * z[2] \in Int
      BY <3>1
    <3>4. QED
      BY <3>2, <3>3
  <2> HIDE DEF V
  <2>2. QED
    BY <2>1
<1>4. Descends(D, Int, ends, base, down, step, mu)
  <2> HIDE DEF D, ends, base, down, step, mu
  <2>1. QED
    BY <1>2, <1>3 DEF Descends
<1>5. PICK f \in [D -> Int] : \A i \in D : Solves(f, i, ends, base, down, step)
  <2> HIDE DEF D, ends, base, down, step, mu
  <2>1. QED
    BY <1>4, Solved
<1> HIDE DEF V
<1>6. \A k \in D : f[k] = IF k = 0 THEN 0 ELSE b * f[k - 1] + V(k)
  <2>1. f[0] = 0
    <3>1. 0 \in D /\ 0 \in ends /\ base[0] = 0
      BY <1>0
    <3> HIDE DEF D, ends, base, down, step
    <3>2. QED
      BY <1>5, <3>1 DEF Solves
  <2>2. ASSUME NEW k \in 1 .. Len(s) PROVE f[k] = b * f[k - 1] + V(k)
    <3>1. k \in D /\ k \notin ends /\ down[k] = k - 1 /\ k - 1 \in D
      BY <1>0, <2>2
    <3>2. f[k] = step[<<k, f[k - 1]>>]
      BY <1>5, <3>1 DEF Solves
    <3>3. <<k, f[k - 1]>> \in D \X Int /\ k # 0
      BY <1>5, <2>2, <3>1
    <3>4. QED
      BY <3>2, <3>3
  <2>3. QED
    BY <1>0, <2>1, <2>2
<1>7. f = [k \in D |-> IF k = 0 THEN 0 ELSE b * f[k - 1] + V(k)]
  BY <1>5, <1>6
<1> DEFINE g == CHOOSE r : r = [k \in 0 .. Len(s) |-> IF k = 0 THEN 0
                              ELSE b * r[k - 1] + (IF minus THEN -s[k] ELSE s[k])]
<1>8. g = [k \in D |-> IF k = 0 THEN 0 ELSE b * g[k - 1] + V(k)]
  <2>1. \E r : r = [k \in D |-> IF k = 0 THEN 0 ELSE b * r[k - 1] + V(k)]
    BY <1>7
  <2>2. g = CHOOSE r : r = [k \in D |-> IF k = 0 THEN 0 ELSE b * r[k - 1] + V(k)]
    BY Zenon DEF V
  <2>3. QED
    BY <2>1, <2>2, Zenon
<1>9. ReadBack([minus |-> minus, digits |-> s], b) = g[Len(s)]
  BY DEF ReadBack
<1> HIDE DEF g
<1>10. \A k \in D : g[k] = f[k]
  <2>1. \A k \in D : g[k] = IF k = 0 THEN 0 ELSE b * g[k - 1] + V(k)
    <3>1. PICK h : h = g
      OBVIOUS
    <3>2. h = [k \in D |-> IF k = 0 THEN 0 ELSE b * h[k - 1] + V(k)]
      BY <1>8, <3>1
    <3>3. QED
      BY <3>1, <3>2
  <2>2. ASSUME NEW k \in D, k \in ends PROVE g[k] = base[k]
    BY <2>1, <2>2
  <2>3. ASSUME NEW k \in D, k \notin ends, g[down[k]] \in Int PROVE g[k] = step[<<k, g[down[k]]>>]
    <3>1. down[k] = k - 1 /\ k # 0
      BY <1>0, <2>3
    <3>2. <<k, g[k - 1]>> \in D \X Int
      BY <2>3, <3>1
    <3>3. QED
      BY <2>1, <3>1, <3>2
  <2> HIDE DEF D, ends, base, down, step, mu
  <2>4. QED
    BY <1>4, <1>5, <2>2, <2>3, SolutionIs
<1>11. Reads(f, s, minus, b)
  BY <1>0, <1>5, <1>6 DEF Reads, V
<1>12. g[Len(s)] = f[Len(s)]
  BY <1>0, <1>10
<1>13. QED
  BY <1>9, <1>11, <1>12

\* A text with the digits s.
Signed(minus, s) == [minus |-> minus, digits |-> s]

\* One digit more.
LEMMA ReadBackAppend ==
  ASSUME NEW s \in Seq(Int), NEW minus \in BOOLEAN, NEW b \in Int, NEW d \in Int
  PROVE  /\ ReadBack(Signed(minus, s), b) \in Int
         /\ ReadBack(Signed(minus, Append(s, d)), b) =
              b * ReadBack(Signed(minus, s), b) + (IF minus THEN -d ELSE d)
PROOF
<1>1. PICK r : Reads(r, s, minus, b) /\ ReadBack(Signed(minus, s), b) = r[Len(s)]
  BY ReadBackReads DEF Signed
<1>2. PICK t \in Seq(Int) : t = Append(s, d)
  BY AppendProperties
<1>3. /\ Len(s) \in Nat /\ Len(t) = Len(s) + 1 /\ t[Len(s) + 1] = d
      /\ \A k \in 1 .. Len(s) : t[k] = s[k]
  BY <1>2, AppendProperties, LenProperties
<1>4. PICK q : Reads(q, t, minus, b) /\ ReadBack(Signed(minus, t), b) = q[Len(t)]
  BY ReadBackReads DEF Signed
<1> DEFINE T == {k \in 0 .. Len(s) : q[k] # r[k]}
<1>5. T = {}
  <2>1. SUFFICES ASSUME T # {} PROVE FALSE
    OBVIOUS
  <2>2. T \subseteq Nat
    OBVIOUS
  <2>3. PICK k \in T : \A j \in T : k <= j
    <3> HIDE DEF T
    <3>1. QED
      BY <2>1, <2>2, LeastOf
  <2>4. k \in 0 .. Len(s) /\ q[k] # r[k]
    BY <2>3
  <2>5. k # 0
    BY <1>1, <1>4, <2>4 DEF Reads
  <2>6. k \in 1 .. Len(s) /\ k \in 1 .. Len(t) /\ k - 1 \in 0 .. Len(s) /\ ~(k <= k - 1)
    BY <1>3, <2>4, <2>5
  <2>7. q[k - 1] = r[k - 1]
    BY <2>3, <2>6
  <2>8. /\ q[k] = b * q[k - 1] + (IF minus THEN -t[k] ELSE t[k])
        /\ r[k] = b * r[k - 1] + (IF minus THEN -s[k] ELSE s[k])
    BY <1>1, <1>4, <2>6 DEF Reads
  <2>9. QED
    BY <1>3, <2>4, <2>6, <2>7, <2>8
<1>6. q[Len(s)] = r[Len(s)] /\ r[Len(s)] \in Int
  BY <1>1, <1>3, <1>5 DEF Reads
<1>7. q[Len(s) + 1] = b * q[Len(s)] + (IF minus THEN -d ELSE d)
  <2>1. Len(s) + 1 \in 1 .. Len(t) /\ (Len(s) + 1) - 1 = Len(s)
    BY <1>3
  <2>2. q[Len(s) + 1] = b * q[(Len(s) + 1) - 1] + (IF minus THEN -t[Len(s) + 1] ELSE t[Len(s) + 1])
    BY <1>4, <2>1 DEF Reads
  <2>3. QED
    BY <1>3, <2>1, <2>2
<1>8. QED
  BY <1>1, <1>2, <1>3, <1>4, <1>6, <1>7

\* The first digit.
LEMMA ReadBackFirst ==
  ASSUME NEW minus \in BOOLEAN, NEW b \in Int, NEW d \in Int
  PROVE  ReadBack(Signed(minus, <<d>>), b) = IF minus THEN -d ELSE d
PROOF
<1>1. <<d>> \in Seq(Int) /\ Len(<<d>>) = 1 /\ <<d>>[1] = d
  OBVIOUS
<1>2. PICK s \in Seq(Int) : s = <<d>>
  BY <1>1
<1>3. PICK r : Reads(r, s, minus, b) /\ ReadBack(Signed(minus, s), b) = r[Len(s)]
  BY ReadBackReads DEF Signed
<1>4. r[0] = 0 /\ r[1] = b * r[1 - 1] + (IF minus THEN -s[1] ELSE s[1])
  BY <1>1, <1>2, <1>3 DEF Reads
<1>5. 1 - 1 = 0 /\ b * 0 = 0
  OBVIOUS
<1>6. QED
  BY <1>1, <1>2, <1>3, <1>4, <1>5
\* Whether a number is negative is a Boolean value.
LEMMA SignIs == \A i \in Int : \E m \in BOOLEAN : m = (i < 0)
PROOF
<1>1. \A i \in Int : (i < 0) \in BOOLEAN
  OBVIOUS
<1>2. QED
  BY <1>1, Zenon

\* What convert makes of an integer is read as that integer, the least one
\* included.
LEMMA ConvertReadsBack == \A i \in Int : ReadBack(convert(i), 10) = i
PROOF
<1> DEFINE N(i) == IF i >= 0 THEN i ELSE -i
           T == {N(i) : i \in {j \in Int : ReadBack(convert(j), 10) # j}}
<1>1. SUFFICES ASSUME T # {} PROVE FALSE
  OBVIOUS
<1>2. T \subseteq Nat
  OBVIOUS
<1>3. PICK t \in T : \A k \in T : t <= k
  <2> HIDE DEF T
  <2>1. QED
    BY <1>1, <1>2, LeastOf
<1>4. PICK i \in Int : N(i) = t /\ ReadBack(convert(i), 10) # i
  BY <1>3
<1>5. PICK q \in Int, r \in -9 .. 9 : q = Quot(i, 10) /\ r = Rem(i, 10)
  BY DivTen
<1>6. /\ i = 10 * q + r
      /\ i >= 0 => q >= 0 /\ r >= 0 /\ (q # 0 => q < i)
      /\ i < 0 => q <= 0 /\ r <= 0 /\ (q # 0 => i < q)
  BY <1>5, DivTen
<1>7. PICK d \in 0 .. 9 : d = digitFor[r] /\ d = IF r < 0 THEN -r ELSE r
  BY DigitIs
<1>8. PICK minus \in BOOLEAN : minus = (i < 0)
  BY SignIs
<1>9. (IF minus THEN -d ELSE d) = r
  <2>1. (i < 0 => -d = r) /\ (~(i < 0) => d = r)
    BY <1>6, <1>7
  <2>2. QED
    BY <1>8, <2>1, Zenon
<1>10. convert(i) = Signed(minus, ConvertLoop[i])
  BY <1>8 DEF convert, Signed
<1>11. CASE q = 0
  <2>1. ConvertLoop[i] = <<d>>
    BY <1>5, <1>7, <1>11, ConvertEnds
  <2>2. ReadBack(Signed(minus, <<d>>), 10) = IF minus THEN -d ELSE d
    BY ReadBackFirst
  <2>3. QED
    BY <1>4, <1>6, <1>9, <1>10, <1>11, <2>1, <2>2
<1>12. CASE q # 0
  <2>1. ConvertLoop[i] = Append(ConvertLoop[q], d)
    BY <1>5, <1>7, <1>12, ConvertEnds
  <2>2. PICK s \in Seq(Int) : s = ConvertLoop[q]
    <3>1. ConvertLoop[q] \in Seq(0 .. 9)
      BY ConvertEnds
    <3>2. Seq(0 .. 9) \subseteq Seq(Int)
      OBVIOUS
    <3>3. QED
      BY <3>1, <3>2
  <2>3. convert(q) = Signed(minus, s)
    <3>1. minus = (q < 0)
      <4>1. (i < 0) <=> (q < 0)
        BY <1>6, <1>12
      <4>2. PICK m \in BOOLEAN : m = (q < 0)
        BY SignIs
      <4>3. minus <=> m
        BY <1>8, <4>1, <4>2
      <4>4. minus = m
        BY <4>3
      <4>5. QED
        BY <4>2, <4>4, Zenon
    <3>2. QED
      BY <2>2, <3>1 DEF convert, Signed
  <2>4. ReadBack(convert(q), 10) = q
    <3>1. N(q) < N(i)
      BY <1>6, <1>12
    <3>2. N(q) \notin T
      <4>1. N(q) \in Int /\ N(i) \in Int
        OBVIOUS
      <4> HIDE DEF N, T
      <4>2. QED
        BY <1>3, <1>4, <3>1, <4>1
    <3>3. QED
      BY <3>2
  <2>5. ReadBack(Signed(minus, Append(s, d)), 10) =
          10 * ReadBack(Signed(minus, s), 10) + (IF minus THEN -d ELSE d)
    BY ReadBackAppend
  <2>6. QED
    BY <1>4, <1>6, <1>9, <1>10, <2>1, <2>2, <2>3, <2>4, <2>5
<1>13. QED
  BY <1>11, <1>12

\* And what convertHex makes of an address.
LEMMA HexReadsBack == \A i \in Nat : ReadBack(convertHex(i), 16) = i
PROOF
<1> DEFINE T == {j \in Nat : ReadBack(convertHex(j), 16) # j}
<1>1. SUFFICES ASSUME T # {} PROVE FALSE
  OBVIOUS
<1>2. T \subseteq Nat
  OBVIOUS
<1>3. PICK i \in T : \A k \in T : i <= k
  <2> HIDE DEF T
  <2>1. QED
    BY <1>1, <1>2, LeastOf
<1>4. i \in Nat /\ ReadBack(convertHex(i), 16) # i
  BY <1>3
<1>5. PICK q \in Nat, d \in 0 .. 15 : q = i \div 16 /\ d = i % 16
  BY <1>4, DivSixteen
<1>6. i = 16 * q + d /\ (q # 0 => q < i)
  BY <1>4, <1>5, DivSixteen
<1>7. convertHex(i) = Signed(FALSE, HexLoop[i])
  BY DEF convertHex, Signed
<1>8. CASE q = 0
  <2>1. HexLoop[i] = <<d>>
    BY <1>4, <1>5, <1>8, HexEnds
  <2>2. ReadBack(Signed(FALSE, <<d>>), 16) = d
    <3>1. PICK minus \in BOOLEAN : minus = FALSE
      OBVIOUS
    <3>2. ReadBack(Signed(minus, <<d>>), 16) = IF minus THEN -d ELSE d
      BY ReadBackFirst
    <3>3. QED
      BY <3>1, <3>2, Zenon
  <2>3. i = d
    BY <1>4, <1>6, <1>8
  <2>4. QED
    BY <1>4, <1>7, <2>1, <2>2, <2>3, Zenon
<1>9. CASE q # 0
  <2>1. HexLoop[i] = Append(HexLoop[q], d)
    BY <1>4, <1>5, <1>9, HexEnds
  <2>2. PICK s \in Seq(Int) : s = HexLoop[q]
    <3>1. HexLoop[q] \in Seq(0 .. 15)
      BY HexEnds
    <3>2. Seq(0 .. 15) \subseteq Seq(Int)
      OBVIOUS
    <3>3. QED
      BY <3>1, <3>2
  <2>3. convertHex(q) = Signed(FALSE, s)
    BY <2>2 DEF convertHex, Signed
  <2>4. ReadBack(convertHex(q), 16) = q
    <3>1. ~(i <= q)
      BY <1>4, <1>6, <1>9
    <3>2. QED
      BY <1>3, <3>1
  <2>5. ReadBack(Signed(FALSE, Append(s, d)), 16) = 16 * ReadBack(Signed(FALSE, s), 16) + d
    <3>1. PICK minus \in BOOLEAN : minus = FALSE
      OBVIOUS
    <3>2. ReadBack(Signed(minus, Append(s, d)), 16) =
            16 * ReadBack(Signed(minus, s), 16) + (IF minus THEN -d ELSE d)
      BY ReadBackAppend
    <3>3. QED
      BY <3>1, <3>2, Zenon
  <2>6. QED
    BY <1>4, <1>6, <1>7, <2>1, <2>2, <2>3, <2>4, <2>5
<1>10. QED
  BY <1>8, <1>9

\* Integers below B have at most k digits.
ShortBelow(B, k) == \A i \in Int : -B < i /\ i < B => Len(ConvertLoop[i]) <= k

\* Each digit multiplies by ten.
LEMMA OneDigitMore ==
  ASSUME NEW B \in Nat, NEW k \in Nat, ShortBelow(B, k), k >= 1
  PROVE  ShortBelow(10 * B, k + 1)
PROOF
<1>1. SUFFICES ASSUME NEW i \in Int, -(10 * B) < i, i < 10 * B
               PROVE  Len(ConvertLoop[i]) <= k + 1
  BY DEF ShortBelow
<1>2. PICK q \in Int, r \in -9 .. 9 : q = Quot(i, 10) /\ r = Rem(i, 10) /\ i = 10 * q + r
                                      /\ (i >= 0 => q >= 0 /\ r >= 0)
                                      /\ (i < 0 => q <= 0 /\ r <= 0)
  BY DivTen
<1>3. -B < q /\ q < B
  BY <1>1, <1>2
<1>4. digitFor[r] \in 0 .. 9
  BY DigitIs
<1>5. CASE q = 0
  <2>1. ConvertLoop[i] = <<digitFor[r]>>
    BY <1>2, <1>5, ConvertEnds
  <2>2. QED
    BY <2>1
<1>6. CASE q # 0
  <2>1. ConvertLoop[i] = Append(ConvertLoop[q], digitFor[r])
    BY <1>2, <1>6, ConvertEnds
  <2>2. PICK s \in Seq(0 .. 9) : s = ConvertLoop[q]
    BY ConvertEnds
  <2>3. Len(s) \in Nat /\ Len(s) <= k
    BY <1>3, <2>2, LenProperties DEF ShortBelow
  <2>4. Len(Append(s, digitFor[r])) = Len(s) + 1
    BY <1>4, AppendProperties
  <2>5. QED
    BY <2>1, <2>2, <2>3, <2>4
<1>7. QED
  BY <1>5, <1>6

\* Seven digits.
Seven(B) == 10 * (10 * (10 * (10 * (10 * (10 * (10 * B))))))

\* Seven more digits.
LEMMA SevenDigitsMore ==
  ASSUME NEW B \in Nat, NEW k \in Nat, ShortBelow(B, k), k >= 1
  PROVE  Seven(B) \in Nat /\ ShortBelow(Seven(B), k + 7)
PROOF
<1>1. ASSUME NEW C \in Nat, NEW n \in Nat, ShortBelow(C, n), n >= 1
      PROVE  \E E \in Nat, m \in Nat : E = 10 * C /\ m = n + 1 /\ m >= 1 /\ ShortBelow(E, m)
  BY <1>1, OneDigitMore
<1>2. PICK B1 \in Nat, k1 \in Nat : B1 = 10 * B /\ k1 = k + 1 /\ k1 >= 1 /\ ShortBelow(B1, k1)
  BY <1>1
<1>3. PICK B2 \in Nat, k2 \in Nat : B2 = 10 * B1 /\ k2 = k1 + 1 /\ k2 >= 1 /\ ShortBelow(B2, k2)
  BY <1>1, <1>2
<1>4. PICK B3 \in Nat, k3 \in Nat : B3 = 10 * B2 /\ k3 = k2 + 1 /\ k3 >= 1 /\ ShortBelow(B3, k3)
  BY <1>1, <1>3
<1>5. PICK B4 \in Nat, k4 \in Nat : B4 = 10 * B3 /\ k4 = k3 + 1 /\ k4 >= 1 /\ ShortBelow(B4, k4)
  BY <1>1, <1>4
<1>6. PICK B5 \in Nat, k5 \in Nat : B5 = 10 * B4 /\ k5 = k4 + 1 /\ k5 >= 1 /\ ShortBelow(B5, k5)
  BY <1>1, <1>5
<1>7. PICK B6 \in Nat, k6 \in Nat : B6 = 10 * B5 /\ k6 = k5 + 1 /\ k6 >= 1 /\ ShortBelow(B6, k6)
  BY <1>1, <1>6
<1>8. PICK B7 \in Nat, k7 \in Nat : B7 = 10 * B6 /\ k7 = k6 + 1 /\ k7 >= 1 /\ ShortBelow(B7, k7)
  BY <1>1, <1>7
<1>9. B7 = Seven(B)
  BY <1>2, <1>3, <1>4, <1>5, <1>6, <1>7, <1>8 DEF Seven
<1>10. k7 = k + 7
  BY <1>2, <1>3, <1>4, <1>5, <1>6, <1>7, <1>8
<1>11. QED
  BY <1>8, <1>9, <1>10

\* 64 bits in sevens of digits.
LEMMA BelowSevens ==
  ASSUME NEW v \in Int, Fits64(v),
         NEW B1 \in Nat, NEW B2 \in Nat, NEW B3 \in Nat,
         B1 = Seven(1), B2 = Seven(B1), B3 = Seven(B2)
  PROVE -B3 < v /\ v < B3
PROOF
<1>1. PICK w \in Int : /\ w = v \div 1000000000
                      /\ 1000000000 * w <= v /\ v < 1000000000 * w + 1000000000
  BY SMT
<1>2. PICK u \in Int : /\ u = w \div 1000000000
                      /\ 1000000000 * u <= w /\ w < 1000000000 * u + 1000000000
  BY SMT
<1>3. u \in -10 .. 18
  BY <1>1, <1>2, SMT DEF Fits64
<1>4. B1 = 10000000 /\ B2 = 10000000 * B1 /\ B3 = 10000000 * B2
  BY SMT DEF Seven
<1>5. w + 1 <= 1900 * B1 /\ -(1000 * B1) <= w
  BY <1>2, <1>3, <1>4, SMT
<1>6. v < 190000 * B2 /\ -(100000 * B2) <= v /\ B2 > 0
  BY <1>1, <1>4, <1>5, SMT
<1>7. QED
  BY <1>4, <1>6, SMT

\* An integer of 64 bits, with or without a sign, is far below the bound of 22
\* digits.
LEMMA ConvertIsShort ==
  ASSUME NEW v \in Int, Fits64(v)
  PROVE  Len(ConvertLoop[v]) <= 22
PROOF
<1>1. ShortBelow(1, 1)
  <2>1. SUFFICES ASSUME NEW i \in Int, -1 < i, i < 1 PROVE Len(ConvertLoop[i]) <= 1
    BY DEF ShortBelow
  <2>2. i = 0 /\ Quot(0, 10) = 0
    BY <2>1 DEF Quot
  <2>3. ConvertLoop[i] = <<digitFor[Rem(0, 10)]>>
    BY <2>2, ConvertEnds
  <2>4. QED
    BY <2>3
<1>2. PICK B1 \in Nat, k1 \in Nat : B1 = Seven(1) /\ k1 = 8 /\ ShortBelow(B1, k1)
  BY <1>1, SevenDigitsMore
<1>3. PICK B2 \in Nat, k2 \in Nat : B2 = Seven(B1) /\ k2 = 15 /\ ShortBelow(B2, k2)
  BY <1>2, SevenDigitsMore
<1>4. PICK B3 \in Nat, k3 \in Nat : B3 = Seven(B2) /\ k3 = 22 /\ ShortBelow(B3, k3)
  BY <1>3, SevenDigitsMore
<1>5. -B3 < v /\ v < B3
  BY <1>2, <1>3, <1>4, BelowSevens, SMT
<1>6. QED
  BY <1>4, <1>5, SMT DEF ShortBelow

\* The same for hexadecimal digits.
HexShortBelow(B, k) == \A i \in Nat : i < B => Len(HexLoop[i]) <= k

\* Each hexadecimal digit multiplies by sixteen.
LEMMA OneHexDigitMore ==
  ASSUME NEW B \in Nat, NEW k \in Nat, HexShortBelow(B, k), k >= 1
  PROVE  HexShortBelow(16 * B, k + 1)
PROOF
<1>1. SUFFICES ASSUME NEW i \in Nat, i < 16 * B PROVE Len(HexLoop[i]) <= k + 1
  BY DEF HexShortBelow
<1>2. PICK q \in Nat, r \in 0 .. 15 : q = i \div 16 /\ r = i % 16 /\ i = 16 * q + r
  BY DivSixteen
<1>3. q < B
  BY <1>1, <1>2
<1>4. CASE q = 0
  <2>1. HexLoop[i] = <<r>>
    BY <1>2, <1>4, HexEnds
  <2>2. QED
    BY <2>1
<1>5. CASE q # 0
  <2>1. HexLoop[i] = Append(HexLoop[q], r)
    BY <1>2, <1>5, HexEnds
  <2>2. PICK s \in Seq(0 .. 15) : s = HexLoop[q]
    BY HexEnds
  <2>3. Len(s) \in Nat /\ Len(s) <= k
    BY <1>3, <2>2, LenProperties DEF HexShortBelow
  <2>4. Len(Append(s, r)) = Len(s) + 1
    BY AppendProperties
  <2>5. QED
    BY <2>1, <2>2, <2>3, <2>4
<1>6. QED
  BY <1>4, <1>5

\* Six hexadecimal digits.
HexSix(B) == 16 * (16 * (16 * (16 * (16 * (16 * B)))))

\* Six more of them.
LEMMA SixHexDigitsMore ==
  ASSUME NEW B \in Nat, NEW k \in Nat, HexShortBelow(B, k), k >= 1
  PROVE  HexSix(B) \in Nat /\ HexShortBelow(HexSix(B), k + 6)
PROOF
<1>1. ASSUME NEW C \in Nat, NEW n \in Nat, HexShortBelow(C, n), n >= 1
      PROVE  \E E \in Nat, m \in Nat : E = 16 * C /\ m = n + 1 /\ m >= 1 /\ HexShortBelow(E, m)
  BY <1>1, OneHexDigitMore
<1>2. PICK B1 \in Nat, k1 \in Nat : B1 = 16 * B /\ k1 = k + 1 /\ k1 >= 1 /\ HexShortBelow(B1, k1)
  BY <1>1
<1>3. PICK B2 \in Nat, k2 \in Nat : B2 = 16 * B1 /\ k2 = k1 + 1 /\ k2 >= 1 /\ HexShortBelow(B2, k2)
  BY <1>1, <1>2
<1>4. PICK B3 \in Nat, k3 \in Nat : B3 = 16 * B2 /\ k3 = k2 + 1 /\ k3 >= 1 /\ HexShortBelow(B3, k3)
  BY <1>1, <1>3
<1>5. PICK B4 \in Nat, k4 \in Nat : B4 = 16 * B3 /\ k4 = k3 + 1 /\ k4 >= 1 /\ HexShortBelow(B4, k4)
  BY <1>1, <1>4
<1>6. PICK B5 \in Nat, k5 \in Nat : B5 = 16 * B4 /\ k5 = k4 + 1 /\ k5 >= 1 /\ HexShortBelow(B5, k5)
  BY <1>1, <1>5
<1>7. PICK B6 \in Nat, k6 \in Nat : B6 = 16 * B5 /\ k6 = k5 + 1 /\ k6 >= 1 /\ HexShortBelow(B6, k6)
  BY <1>1, <1>6
<1>8. B6 = HexSix(B)
  BY <1>2, <1>3, <1>4, <1>5, <1>6, <1>7 DEF HexSix
<1>9. k6 = k + 6
  BY <1>2, <1>3, <1>4, <1>5, <1>6, <1>7
<1>10. QED
  BY <1>7, <1>8, <1>9

\* 64 bits in sixes of hexadecimal digits.
LEMMA BelowSixes ==
  ASSUME NEW v \in Nat, Fits64(v),
         NEW B1 \in Nat, NEW B2 \in Nat, NEW B3 \in Nat,
         B1 = HexSix(1), B2 = HexSix(B1), B3 = HexSix(B2)
  PROVE v < B3
PROOF
<1>1. PICK w \in Int : /\ w = v \div 1000000000
                      /\ 1000000000 * w <= v /\ v < 1000000000 * w + 1000000000
  BY SMT
<1>2. PICK u \in Int : /\ u = w \div 1000000000
                      /\ 1000000000 * u <= w /\ w < 1000000000 * u + 1000000000
  BY SMT
<1>3. u \in -10 .. 18
  BY <1>1, <1>2, SMT DEF Fits64
<1>4. B1 = 16777216 /\ B2 = 16777216 * B1 /\ B3 = 16777216 * B2
  BY SMT DEF HexSix
<1>5. w + 1 <= 1900 * B1
  BY <1>2, <1>3, <1>4, SMT
<1>6. v < 190000 * B2 /\ B2 > 0
  BY <1>1, <1>4, <1>5, SMT
<1>7. QED
  BY <1>4, <1>6, SMT

\* An address, too, is far below the bound.
LEMMA HexIsShort ==
  ASSUME NEW v \in Nat, Fits64(v)
  PROVE  Len(HexLoop[v]) <= 19
PROOF
<1>1. HexShortBelow(1, 1)
  <2>1. SUFFICES ASSUME NEW i \in Nat, i < 1 PROVE Len(HexLoop[i]) <= 1
    BY DEF HexShortBelow
  <2>2. i = 0 /\ 0 \div 16 = 0
    BY <2>1
  <2>3. HexLoop[i] = <<0 % 16>>
    BY <2>2, HexEnds
  <2>4. QED
    BY <2>3
<1>2. PICK B1 \in Nat, k1 \in Nat : B1 = HexSix(1) /\ k1 = 7 /\ HexShortBelow(B1, k1)
  BY <1>1, SixHexDigitsMore
<1>3. PICK B2 \in Nat, k2 \in Nat : B2 = HexSix(B1) /\ k2 = 13 /\ HexShortBelow(B2, k2)
  BY <1>2, SixHexDigitsMore
<1>4. PICK B3 \in Nat, k3 \in Nat : B3 = HexSix(B2) /\ k3 = 19 /\ HexShortBelow(B3, k3)
  BY <1>3, SixHexDigitsMore
<1>5. v < B3
  BY <1>2, <1>3, <1>4, BelowSixes, SMT
<1>6. QED
  BY <1>4, <1>5, SMT DEF HexShortBelow

-----------------------------------------------------------------------------
(* Logger: the line. *)

\* No streamed integer has more characters than kMaxNumericSize allows: what
\* staticCheck is about.
NumbersAreShort ==
  \A v \in Integrals :
    /\ convert(v).digits \in Seq(0 .. 9)
    /\ Len(convert(v).digits) + 1 < kMaxNumericSize
    /\ v >= 0 => /\ convertHex(v).digits \in Seq(0 .. 15)
                 /\ Len(convertHex(v).digits) + 2 < kMaxNumericSize

\* They are: 22 digits and a sign, or 19 after "0x", for 64 bits.
LEMMA IntegralsAreShort == NumbersAreShort
PROOF
<1>1. kMaxNumericSize \in Nat /\ kMaxNumericSize > 28
  BY SizesAssumption DEF staticCheck
<1>2. ASSUME NEW v \in Integrals
      PROVE  convert(v).digits \in Seq(0 .. 9) /\ Len(convert(v).digits) + 1 < kMaxNumericSize
  <2>1. v \in Int /\ Fits64(v)
    BY IntegralsAssumption DEF Fits64
  <2>2. PICK s \in Seq(0 .. 9) : s = ConvertLoop[v]
    BY <2>1, ConvertEnds
  <2>3. Len(s) \in Nat /\ Len(s) <= 22
    BY <2>1, <2>2, ConvertIsShort, LenProperties
  <2>4. convert(v).digits = s
    BY <2>2 DEF convert
  <2>5. QED
    BY <1>1, <2>3, <2>4
<1>3. ASSUME NEW v \in Integrals, v >= 0
      PROVE  convertHex(v).digits \in Seq(0 .. 15) /\ Len(convertHex(v).digits) + 2 < kMaxNumericSize
  <2>1. v \in Nat /\ Fits64(v)
    <3>1. v \in Int /\ Fits64(v)
      BY IntegralsAssumption DEF Fits64
    <3>2. QED
      BY <1>3, <3>1
  <2>2. PICK s \in Seq(0 .. 15) : s = HexLoop[v]
    BY <2>1, HexEnds
  <2>3. Len(s) \in Nat /\ Len(s) <= 19
    BY <2>1, <2>2, HexIsShort, LenProperties
  <2>4. convertHex(v).digits = s
    BY <2>2 DEF convertHex
  <2>5. QED
    BY <1>1, <2>3, <2>4
<1>4. QED
  BY <1>2, <1>3 DEF NumbersAreShort

\* Every step leaves a number in the line that is read as it was meant.
LEMMA StepNumber == LineHasFields /\ NumbersReadBack /\ [Next]_vars => NumbersReadBack'
PROOF
<1>1. SUFFICES ASSUME LineHasFields, NumbersReadBack, [Next]_vars PROVE NumbersReadBack'
  OBVIOUS
<1> USE <1>1 DEF LineHasFields, LineFields, NumbersReadBack
<1>2. ASSUME NEW st, Construct(st) PROVE NumbersReadBack'
  BY <1>2 DEF Construct
<1>3. ASSUME NEW len, StreamText(len) PROVE NumbersReadBack'
  BY <1>3 DEF StreamText
<1>4. ASSUME NEW v \in Integrals, StreamNumber(v) PROVE NumbersReadBack'
  <2>1. ReadBack(convert(v), 10) = v
    BY IntegralsAssumption, ConvertReadsBack DEF Fits64
  <2>2. line'.number = <<v, ReadBack(convert(v), 10)>>
    BY <1>4 DEF StreamNumber
  <2>3. QED
    BY <2>1, <2>2
<1>5. ASSUME NEW v \in Integrals, v >= 0, StreamPointer(v) PROVE NumbersReadBack'
  <2>1. v \in Nat
    <3>1. v \in Int
      BY IntegralsAssumption DEF Fits64
    <3>2. QED
      BY <1>5, <3>1
  <2>2. ReadBack(convertHex(v), 16) = v
    BY <2>1, HexReadsBack
  <2>3. line'.number = <<v, ReadBack(convertHex(v), 16)>>
    BY <1>5 DEF StreamPointer
  <2>4. QED
    BY <2>2, <2>3
<1>6. CASE Destroy
  BY <1>6 DEF Destroy
<1>7. ASSUME NEW l, setLogLevel(l) PROVE NumbersReadBack'
  BY <1>7 DEF setLogLevel
<1>8. ASSUME NEW zone, setTimeZone(zone) PROVE NumbersReadBack'
  BY <1>8 DEF setTimeZone
<1>9. ASSUME NEW to, setOutput(to) \/ setFlush(to) PROVE NumbersReadBack'
  BY <1>9 DEF setOutput, setFlush
<1>10. ASSUME NEW t, Tick(t) PROVE NumbersReadBack'
  BY <1>10 DEF Tick
<1>11. CASE Fork
  BY <1>11 DEF Fork
<1>12. CASE UNCHANGED vars
  BY <1>12 DEF vars
<1>13. QED
  BY <1>2, <1>3, <1>4, <1>5, <1>6, <1>7, <1>8, <1>9, <1>10, <1>11, <1>12
     DEF Next, LogStep, SettingStep, setLogLevelByName

\* The inductive invariant of the line that is built, and of what abort() finds.
LineIInv ==
  /\ LineHasFields
  /\ line # NoLine => StreamOK(line.stream)
  /\ aborted \in BOOLEAN /\ FatalIsFlushed

\* Every step preserves it.
LEMMA StepLine == LineIInv /\ [Next]_vars => LineIInv'
PROOF
<1>0. NumbersAreShort
  BY IntegralsAreShort
<1>1. SUFFICES ASSUME LineIInv, [Next]_vars PROVE LineIInv'
  OBVIOUS
<1> USE <1>1 DEF LineIInv, LineHasFields, LineFields, FatalIsFlushed, settings, caches
<1>2. ASSUME NEW st \in Statements, Construct(st) PROVE LineIInv'
  <2>1. DOMAIN line' = LineFields /\ line'.stream = Head0(st)
    BY <1>2 DEF Construct
  <2>2. StreamOK(line'.stream)
    BY <2>1, HeadFits
  <2>3. QED
    BY <1>2, <2>1, <2>2 DEF Construct
<1>3. ASSUME NEW len \in TextSizes, StreamText(len) PROVE LineIInv'
  <2>1. /\ line # NoLine /\ DOMAIN line' = LineFields
        /\ line'.stream = AppendText(line.stream, len)
    BY <1>3 DEF StreamText
  <2>2. StreamOK(line'.stream)
    BY <2>1, TextFits, LogSizesAssumption
  <2>3. QED
    BY <1>3, <2>1, <2>2 DEF StreamText
<1>4. ASSUME NEW v \in Integrals, StreamNumber(v) PROVE LineIInv'
  <2>1. PICK len \in Nat :
          /\ len < kMaxNumericSize
          /\ line # NoLine /\ DOMAIN line' = LineFields
          /\ line'.stream = AppendNumber(line.stream, len)
    <3>1. Len(convert(v).digits) \in Nat /\ Len(convert(v).digits) + 1 < kMaxNumericSize
      BY <1>0, LenProperties DEF NumbersAreShort
    <3>2. PICK n \in {0, 1} :
            /\ line # NoLine /\ DOMAIN line' = LineFields
            /\ line'.stream = AppendNumber(line.stream, Len(convert(v).digits) + n)
      BY <1>4 DEF StreamNumber
    <3>3. QED
      BY <3>1, <3>2, SizesAssumption
  <2>2. StreamOK(line'.stream)
    BY <2>1, NumberFits
  <2>3. QED
    BY <1>4, <2>1, <2>2 DEF StreamNumber
<1>5. ASSUME NEW v \in Integrals, v >= 0, StreamPointer(v) PROVE LineIInv'
  <2>1. PICK len \in Nat :
          /\ len < kMaxNumericSize
          /\ line # NoLine /\ DOMAIN line' = LineFields
          /\ line'.stream = AppendNumber(line.stream, len)
    <3>1. Len(convertHex(v).digits) \in Nat /\ Len(convertHex(v).digits) + 2 < kMaxNumericSize
      BY <1>0, <1>5, LenProperties DEF NumbersAreShort
    <3>2. /\ line # NoLine /\ DOMAIN line' = LineFields
          /\ line'.stream = AppendNumber(line.stream, Len(convertHex(v).digits) + 2)
      BY <1>5 DEF StreamPointer
    <3>3. QED
      BY <3>1, <3>2, SizesAssumption
  <2>2. StreamOK(line'.stream)
    BY <2>1, NumberFits
  <2>3. QED
    BY <1>5, <2>1, <2>2 DEF StreamPointer
<1>6. CASE Destroy
  <2>1. aborted' \in BOOLEAN /\ (aborted' => line.level = FATAL)
    BY <1>6 DEF Destroy
  <2>2. QED
    BY <1>6, <2>1 DEF Destroy
<1>7. ASSUME NEW l, ~aborted, setLogLevel(l) PROVE LineIInv'
  BY <1>7 DEF setLogLevel
<1>8. ASSUME NEW zone, ~aborted, setTimeZone(zone) PROVE LineIInv'
  BY <1>8 DEF setTimeZone
<1>9. ASSUME NEW to, ~aborted, setOutput(to) \/ setFlush(to) PROVE LineIInv'
  BY <1>9 DEF setOutput, setFlush
<1>10. ASSUME NEW t, Tick(t) PROVE LineIInv'
  BY <1>10 DEF Tick
<1>11. CASE Fork
  BY <1>11 DEF Fork
<1>12. CASE UNCHANGED vars
  BY <1>12 DEF vars
<1>13. QED
  BY <1>2, <1>3, <1>4, <1>5, <1>6, <1>7, <1>8, <1>9, <1>10, <1>11, <1>12
     DEF Next, LogStep, SettingStep, setLogLevelByName

\* No piece of a line is written past the end of its buffer, the end of the line
\* and the terminating nulls included; a line that is ended has all its pieces
\* as long as kMaxNumericSize bytes were free; every integer of 64 bits is
\* printed as its value; and a FATAL line has been flushed when the process
\* aborts.  For buffers of any size and lines of any pieces.
THEOREM LinesArrive == Spec => []LineArrives
PROOF
<1>1. Init => LineIInv /\ NumbersReadBack
  BY DEF Init, LineIInv, LineHasFields, FatalIsFlushed, NumbersReadBack
<1>2. LineIInv /\ NumbersReadBack /\ [Next]_vars => LineIInv' /\ NumbersReadBack'
  BY StepLine, StepNumber DEF LineIInv
<1>3. LineIInv => WithinBuffer /\ LineIntact /\ FatalIsFlushed
  <2>1. SUFFICES ASSUME LineIInv PROVE WithinBuffer /\ LineIntact
    BY DEF LineIInv
  <2>2. line # NoLine => StreamOK(finish(line.stream))
    BY <2>1, FinishFits DEF LineIInv
  <2>3. QED
    BY <2>2 DEF WithinBuffer, LineIntact, StreamOK
<1>4. LineIInv /\ NumbersReadBack => LineArrives
  BY <1>3 DEF LineArrives
<1>5. QED
  BY <1>1, <1>2, <1>4, PTL DEF Spec

-----------------------------------------------------------------------------
(* The calendar.  getYearMonthDay counts years from March 1, centuries of  *)
(* 36524 1/4 days and years of 365 1/4; gmtime_r guesses the year and      *)
(* corrects it.  Both find the one year, month and day that contain a day. *)

\* Quotient and remainder.
LEMMA Quotients ==
  ASSUME NEW x \in Int, NEW n \in Nat, n > 0
  PROVE  /\ x \div n \in Int /\ x % n \in 0 .. n - 1
         /\ x = n * (x \div n) + (x % n)
PROOF
  BY SMT

\* There is only one of each.
LEMMA QuotientIs ==
  ASSUME NEW x \in Int, NEW n \in Nat, n > 0, NEW q \in Int, NEW r \in Int,
         x = n * q + r, 0 <= r, r < n
  PROVE  x \div n = q /\ x % n = r
PROOF
<1>1. PICK u \in Int, v \in Int : u = x \div n /\ v = x % n /\ 0 <= v /\ v < n /\ x = n * u + v
  BY Quotients, SMT
<1>2. n * (u - q) = r - v
  BY <1>1, SMT
<1>3. CASE u - q >= 1
  <2>1. n * (u - q) >= n
    BY <1>3, SMT
  <2>2. QED
    BY <1>1, <1>2, <2>1, SMT
<1>4. CASE u - q <= -1
  <2>1. n * (u - q) <= -n
    BY <1>4, SMT
  <2>2. QED
    BY <1>1, <1>2, <2>1, SMT
<1>5. CASE u = q
  BY <1>1, <1>5, SMT
<1>6. QED
  BY <1>3, <1>4, <1>5, SMT

\* The days of the years are counted: a leap year has one more.
LEMMA YearsFollow ==
  ASSUME NEW y \in Int
  PROVE  /\ YearStart(y) \in Int
         /\ YearStart(y + 1) = YearStart(y) + IF IsLeap(y) THEN 366 ELSE 365
PROOF
<1>1. YearStart(y) \in Int
  BY SMT DEF YearStart, LeapsThrough
<1>2. /\ (y \div 4) - ((y - 1) \div 4) = IF y % 4 = 0 THEN 1 ELSE 0
      /\ (y \div 100) - ((y - 1) \div 100) = IF y % 100 = 0 THEN 1 ELSE 0
      /\ (y \div 400) - ((y - 1) \div 400) = IF y % 400 = 0 THEN 1 ELSE 0
  BY SMT
<1>3. (y % 100 = 0 => y % 4 = 0) /\ (y % 400 = 0 => y % 100 = 0)
  BY SMT
<1>4. QED
  BY <1>1, <1>2, <1>3, SMT DEF YearStart, LeapsThrough, IsLeap

\* Where a period of K days and a quarter starts at u days and r quarters, day a
\* is its day c; it has a day K only after three quarters.
LEMMA CycleDay ==
  ASSUME NEW a \in Int, NEW u \in Int, NEW r \in Int, NEW c \in Int, NEW K \in Int,
         0 <= r, r <= 3, 4 * u + r <= 4 * a + 3, 4 * a + 3 <= 4 * u + r + 4 * K, c = a - u
  PROVE  0 <= c /\ c <= K /\ (c = K => r = 3)
PROOF
  BY SMT

\* Of centuries of 36524 days and a quarter the last of four has one day more.
LEMMA Centuries ==
  \A a, b, c \in Int :
    b = (4 * a + 3) \div 146097 /\ c = a - ((b * 146097) \div 4)
      => /\ 0 <= c /\ c <= 36524 /\ (c = 36524 => b % 4 = 3)
         /\ a = 36524 * b + (b \div 4) + c
PROOF
<1>1. SUFFICES ASSUME NEW a \in Int, NEW b \in Int, NEW c \in Int,
                      b = (4 * a + 3) \div 146097, c = a - ((b * 146097) \div 4)
               PROVE  /\ 0 <= c /\ c <= 36524 /\ (c = 36524 => b % 4 = 3)
                      /\ a = 36524 * b + (b \div 4) + c
  BY SMT
<1>2. PICK q \in Int, r \in Int : /\ q = b \div 4 /\ r = b % 4 /\ b = 4 * q + r
                                /\ 0 <= r /\ r <= 3
  BY Quotients, SMT
<1>3. PICK u \in Int : u = 36524 * b + q
  BY SMT
<1>4. (b * 146097) \div 4 = u
  <2>1. b * 146097 \in Int /\ b * 146097 = 4 * u + r /\ 4 \in Nat
    BY <1>2, <1>3, SMT
  <2>2. QED
    BY <1>2, <2>1, QuotientIs, SMT
<1>5. 4 * u + r <= 4 * a + 3 /\ 4 * a + 3 <= 4 * u + r + 4 * 36524
  BY <1>1, <1>2, <1>3, SMT
<1>6. c = a - u
  BY <1>1, <1>4, SMT
<1>7. 0 <= c /\ c <= 36524 /\ (c = 36524 => r = 3)
  BY <1>2, <1>5, <1>6, CycleDay, SMT
<1>8. a = u + c
  BY <1>6, SMT
<1>9. QED
  BY <1>2, <1>3, <1>7, <1>8, SMT

\* Of years of 365 days and a quarter the last of four has one day more.
LEMMA Years ==
  \A a, b, c \in Int :
    b = (4 * a + 3) \div 1461 /\ c = a - ((b * 1461) \div 4)
      => /\ 0 <= c /\ c <= 365 /\ (c = 365 => b % 4 = 3)
         /\ a = 365 * b + (b \div 4) + c
PROOF
<1>1. SUFFICES ASSUME NEW a \in Int, NEW b \in Int, NEW c \in Int,
                      b = (4 * a + 3) \div 1461, c = a - ((b * 1461) \div 4)
               PROVE  /\ 0 <= c /\ c <= 365 /\ (c = 365 => b % 4 = 3)
                      /\ a = 365 * b + (b \div 4) + c
  BY SMT
<1>2. PICK q \in Int, r \in Int : /\ q = b \div 4 /\ r = b % 4 /\ b = 4 * q + r
                                /\ 0 <= r /\ r <= 3
  BY Quotients, SMT
<1>3. PICK u \in Int : u = 365 * b + q
  BY SMT
<1>4. (b * 1461) \div 4 = u
  <2>1. b * 1461 \in Int /\ b * 1461 = 4 * u + r /\ 4 \in Nat
    BY <1>2, <1>3, SMT
  <2>2. QED
    BY <1>2, <2>1, QuotientIs, SMT
<1>5. 4 * u + r <= 4 * a + 3 /\ 4 * a + 3 <= 4 * u + r + 4 * 365
  BY <1>1, <1>2, <1>3, SMT
<1>6. c = a - u
  BY <1>1, <1>4, SMT
<1>7. 0 <= c /\ c <= 365 /\ (c = 365 => r = 3)
  BY <1>2, <1>5, <1>6, CycleDay, SMT
<1>8. a = u + c
  BY <1>6, SMT
<1>9. QED
  BY <1>2, <1>3, <1>7, <1>8, SMT

\* The leap years before year d of century b.
LEMMA LeapParts ==
  ASSUME NEW b \in Int, NEW d \in Int, 0 <= d, d <= 99, NEW y \in Int, y = 100 * b + d
  PROVE  /\ LeapsThrough(y) = 24 * b + (b \div 4) + (d \div 4)
         /\ LeapsThrough(y) \in Int
         /\ d % 4 = 3 /\ (d = 99 => b % 4 = 3) => IsLeap(y + 1)
PROOF
<1>1. PICK q \in Int, r \in Int : q = b \div 4 /\ r = b % 4 /\ b = 4 * q + r /\ 0 <= r /\ r <= 3
  BY Quotients, SMT
<1>2. PICK p \in Int, s \in Int : p = d \div 4 /\ s = d % 4 /\ d = 4 * p + s /\ 0 <= s /\ s <= 3
  BY Quotients, SMT
<1>3. y = 100 * b + d
  OBVIOUS
<1>4. y \div 4 = 25 * b + p /\ y % 4 = s
  BY <1>2, <1>3, SMT
<1>5. y \div 100 = b /\ y % 100 = d
  BY <1>3, SMT
<1>6. y \div 400 = q /\ y % 400 = 100 * r + d
  BY <1>1, <1>3, SMT
<1>7. LeapsThrough(y) = 24 * b + q + p
  BY <1>4, <1>5, <1>6, SMT DEF LeapsThrough
<1>8. s = 3 /\ (d = 99 => r = 3) => IsLeap(y + 1)
  <2>1. SUFFICES ASSUME s = 3, d = 99 => r = 3 PROVE IsLeap(y + 1)
    OBVIOUS
  <2>2. (y + 1) % 4 = 0
    BY <1>4, <2>1, SMT
  <2>3. CASE d = 99
    <3>1. (y + 1) % 400 = 0
      BY <1>6, <2>1, <2>3, SMT
    <3>2. QED
      BY <2>2, <3>1 DEF IsLeap
  <2>4. CASE d # 99
    <3>1. (y + 1) % 100 # 0
      BY <1>5, <2>4, SMT
    <3>2. QED
      BY <2>2, <3>1 DEF IsLeap
  <2>5. QED
    BY <2>3, <2>4
<1>9. QED
  BY <1>1, <1>2, <1>3, <1>7, <1>8, SMT

\* getYearMonthDay finds the year Y that starts on March 1 of year Y - 4800, the
\* day e of that year and its month m.
MarchDate(j, Y, e, m) ==
  /\ j + 32044 = 365 * Y + LeapsThrough(Y) + e
  /\ 0 <= e /\ e <= 365 /\ (e = 365 => IsLeap(Y + 1))
  /\ m = (5 * e + 2) \div 153
  /\ getYearMonthDay(j) = [day   |-> e - ((153 * m + 2) \div 5) + 1,
                          month |-> m + 3 - 12 * (m \div 10),
                          year  |-> Y - 4800 + (m \div 10)]

\* It does for every day.
LEMMA MarchDates == \A j \in Int : \E Y, e, m \in Int : MarchDate(j, Y, e, m)
PROOF
<1>1. SUFFICES ASSUME NEW j \in Int PROVE \E Y, e, m \in Int : MarchDate(j, Y, e, m)
  OBVIOUS
<1>2. PICK a \in Int : a = j + 32044
  BY SMT
<1>3. PICK b \in Int : b = (4 * a + 3) \div 146097
  BY SMT
<1>4. PICK c \in Int : c = a - ((b * 146097) \div 4)
  BY SMT
<1>5. PICK d \in Int : d = (4 * c + 3) \div 1461
  BY SMT
<1>6. PICK e \in Int : e = c - ((d * 1461) \div 4)
  BY SMT
<1>7. PICK m \in Int : m = (5 * e + 2) \div 153
  BY SMT
<1>8. PICK Y \in Int : Y = 100 * b + d
  BY SMT
<1>9. /\ 0 <= c /\ c <= 36524 /\ (c = 36524 => b % 4 = 3)
      /\ a = 36524 * b + (b \div 4) + c
  BY <1>3, <1>4, Centuries
<1>10. /\ 0 <= e /\ e <= 365 /\ (e = 365 => d % 4 = 3)
       /\ c = 365 * d + (d \div 4) + e
  BY <1>5, <1>6, Years
<1>11. 0 <= d /\ d <= 99 /\ (e = 365 /\ d = 99 => c = 36524)
  <2>1. PICK p \in Int : p = d \div 4 /\ 4 * p <= d /\ d <= 4 * p + 3
    BY SMT
  <2>2. c = 365 * d + p + e
    BY <1>10, <2>1
  <2>3. 0 <= d
    BY <1>9, <1>10, <2>1, <2>2, SMT
  <2>4. d <= 99
    BY <1>9, <1>10, <2>1, <2>2, SMT
  <2>5. d = 99 => p = 24
    BY <2>1, SMT
  <2>6. QED
    BY <2>2, <2>3, <2>4, <2>5, SMT
<1>12. /\ LeapsThrough(Y) = 24 * b + (b \div 4) + (d \div 4) /\ LeapsThrough(Y) \in Int
       /\ d % 4 = 3 /\ (d = 99 => b % 4 = 3) => IsLeap(Y + 1)
  BY <1>8, <1>11, LeapParts
<1>13. e = 365 => IsLeap(Y + 1)
  BY <1>9, <1>10, <1>11, <1>12
<1>14. j + 32044 = 365 * Y + LeapsThrough(Y) + e
  <2>1. PICK q \in Int, p \in Int : q = b \div 4 /\ p = d \div 4
    BY SMT
  <2>2. LeapsThrough(Y) = 24 * b + q + p /\ a = 36524 * b + q + c /\ c = 365 * d + p + e
    BY <1>9, <1>10, <1>12, <2>1
  <2>3. QED
    BY <1>2, <1>8, <2>2, SMT
<1>15. getYearMonthDay(j) = [day   |-> e - ((153 * m + 2) \div 5) + 1,
                            month |-> m + 3 - 12 * (m \div 10),
                            year  |-> Y - 4800 + (m \div 10)]
  <2>1. 1461 * d = d * 1461
    BY SMT
  <2>2. b * 100 + d - 4800 + (m \div 10) = Y - 4800 + (m \div 10)
    BY <1>8, SMT
  <2>3. QED
    BY <1>2, <1>3, <1>4, <1>5, <1>6, <1>7, <2>1, <2>2, SMT DEF getYearMonthDay
<1>16. QED
  <2>1. MarchDate(j, Y, e, m)
    BY <1>7, <1>10, <1>13, <1>14, <1>15, SMT DEF MarchDate
  <2>2. QED
    BY <2>1

\* The month of a day: months from March on have 30.6 days.
LEMMA MarchMonths ==
  ASSUME NEW e \in Int, NEW m \in Int, 0 <= e, e <= 365, m = (5 * e + 2) \div 153
  PROVE  /\ 0 <= m /\ m <= 11
         /\ (153 * m + 2) \div 5 <= e /\ e < (153 * (m + 1) + 2) \div 5
PROOF
<1>1. 153 * m <= 5 * e + 2 /\ 5 * e + 2 <= 153 * m + 152
  BY SMT
<1>2. 0 <= m /\ m <= 11
  BY <1>1, SMT
<1>3. PICK q \in Int, r \in Int : /\ q = (153 * m + 2) \div 5 /\ 153 * m + 2 = 5 * q + r
                                /\ 0 <= r /\ r <= 4
  <2>1. PICK x \in Int : x = 153 * m + 2
    BY SMT
  <2>2. PICK q \in Int, r \in Int : q = x \div 5 /\ x = 5 * q + r /\ 0 <= r /\ r <= 4
    BY Quotients, SMT
  <2>3. QED
    BY <2>1, <2>2
<1>4. PICK p \in Int, s \in Int : /\ p = (153 * (m + 1) + 2) \div 5 /\ 153 * m + 155 = 5 * p + s
                                /\ 0 <= s /\ s <= 4
  BY SMT
<1>5. q <= e
  BY <1>1, <1>3, SMT
<1>6. e < p
  BY <1>1, <1>4, SMT
<1>7. QED
  BY <1>2, <1>3, <1>4, <1>5, <1>6

\* January and February come after December.
LEMMA MonthNumber ==
  ASSUME NEW m \in Int, 0 <= m, m <= 11, NEW k \in Int, k = m + 3 - 12 * (m \div 10)
  PROVE  /\ 1 <= k /\ k <= 12
         /\ (14 - k) \div 12 = m \div 10
         /\ m >= 10 => m \div 10 = 1 /\ k = m - 9
         /\ m < 10 => m \div 10 = 0 /\ k = m + 3
PROOF
<1>1. CASE m >= 10
  <2>1. m \div 10 = 1
    BY <1>1, SMT
  <2>2. k = m - 9
    BY <2>1, SMT
  <2>3. (14 - k) \div 12 = 1
    BY <1>1, <2>2, SMT
  <2>4. QED
    BY <1>1, <2>1, <2>2, <2>3, SMT
<1>2. CASE m < 10
  <2>1. m \div 10 = 0
    BY <1>2, SMT
  <2>2. k = m + 3
    BY <2>1, SMT
  <2>3. (14 - k) \div 12 = 0
    BY <1>2, <2>2, SMT
  <2>4. QED
    BY <1>2, <2>1, <2>2, <2>3, SMT
<1>3. QED
  BY <1>1, <1>2, SMT

\* getJulianDayNumber is the inverse of getYearMonthDay.
LEMMA JulianDayBack ==
  ASSUME NEW j \in Int
  PROVE  LET ymd == getYearMonthDay(j)
         IN  getJulianDayNumber(ymd.year, ymd.month, ymd.day) = j
PROOF
<1>1. PICK Y \in Int, e \in Int, m \in Int : MarchDate(j, Y, e, m)
  BY MarchDates
<1>2. /\ 0 <= e /\ e <= 365 /\ m = (5 * e + 2) \div 153
      /\ j + 32044 = 365 * Y + LeapsThrough(Y) + e
  BY <1>1, SMT DEF MarchDate
<1>3. 0 <= m /\ m <= 11
  BY <1>2, MarchMonths
<1>4. PICK k \in Int, q \in Int, s \in Int :
         k = m + 3 - 12 * (m \div 10) /\ q = m \div 10 /\ s = (153 * m + 2) \div 5
  BY SMT
<1>5. (14 - k) \div 12 = q
  BY <1>3, <1>4, MonthNumber
<1>6. getYearMonthDay(j) = [day |-> e - s + 1, month |-> k, year |-> Y - 4800 + q]
  BY <1>1, <1>4, SMT DEF MarchDate
<1>7. getJulianDayNumber(Y - 4800 + q, k, e - s + 1) = j
  <2>1. Y - 4800 + q + 4800 - q = Y /\ k + 12 * q - 3 = m
    BY <1>4, SMT
  <2>2. PICK u \in Int, v \in Int, w \in Int : u = Y \div 4 /\ v = Y \div 100 /\ w = Y \div 400
    BY SMT
  <2>3. j + 32044 = 365 * Y + (u - v + w) + e
    BY <1>2, <2>2, SMT DEF LeapsThrough
  <2>4. getJulianDayNumber(Y - 4800 + q, k, e - s + 1)
          = (e - s + 1) + s + Y * 365 + u - v + w - 32045
    BY <1>4, <1>5, <2>1, <2>2, SMT DEF getJulianDayNumber
  <2>5. QED
    BY <2>3, <2>4, SMT
<1>8. QED
  BY <1>6, <1>7, SMT

\* January 1 of 1970.
LEMMA EpochDay == kJulianDayOf1970_01_01 = 2440588
PROOF
  BY SMT DEF kJulianDayOf1970_01_01, getJulianDayNumber

\* The calendar repeats itself after 4800 years, as it does after 400.
LEMMA CalendarRepeats ==
  ASSUME NEW y \in Int
  PROVE  /\ LeapsThrough(y - 4800) = LeapsThrough(y) - 1164
         /\ LeapsThrough(y) \in Int
         /\ IsLeap(y - 4800) <=> IsLeap(y)
PROOF
<1>1. /\ (y - 4800) \div 4 = (y \div 4) - 1200 /\ (y - 4800) % 4 = y % 4
      /\ (y - 4800) \div 100 = (y \div 100) - 48 /\ (y - 4800) % 100 = y % 100
      /\ (y - 4800) \div 400 = (y \div 400) - 12 /\ (y - 4800) % 400 = y % 400
  BY SMT
<1>2. IsLeap(y - 4800) <=> IsLeap(y)
  BY <1>1, SMT DEF IsLeap
<1>3. QED
  BY <1>1, <1>2, SMT DEF LeapsThrough

\* Leap years up to one are 97 in 400, give or take.
LEMMA LeapsBound ==
  ASSUME NEW x \in Int
  PROVE  /\ LeapsThrough(x) \in Int
         /\ 97 * x - 699 <= 400 * LeapsThrough(x) /\ 400 * LeapsThrough(x) <= 97 * x + 396
PROOF
<1>1. PICK u \in Int, v \in Int, w \in Int : u = x \div 4 /\ v = x \div 100 /\ w = x \div 400
  BY SMT
<1>2. /\ 4 * u <= x /\ x <= 4 * u + 3 /\ 100 * v <= x /\ x <= 100 * v + 99
      /\ 400 * w <= x /\ x <= 400 * w + 399
  BY <1>1, SMT
<1>3. LeapsThrough(x) = u - v + w
  BY <1>1 DEF LeapsThrough
<1>4. QED
  BY <1>2, <1>3, SMT

\* Years follow each other.
LEMMA YearsAscend ==
  ASSUME NEW y \in Int, NEW z \in Int, y < z
  PROVE  YearStart(y + 1) <= YearStart(z)
PROOF
<1>1. PICK s \in Int, t \in Int : s = LeapsThrough(y) /\ t = LeapsThrough(z - 1)
  <2>1. z - 1 \in Int
    BY SMT
  <2>2. LeapsThrough(y) \in Int /\ LeapsThrough(z - 1) \in Int
    BY <2>1, LeapsBound
  <2>3. QED
    BY <2>2
<1>2. /\ 97 * y - 699 <= 400 * s /\ 400 * s <= 97 * y + 396
      /\ 97 * (z - 1) - 699 <= 400 * t /\ 400 * t <= 97 * (z - 1) + 396
  <2>1. z - 1 \in Int
    BY SMT
  <2>2. QED
    BY <1>1, <2>1, LeapsBound
<1>3. PICK k \in Int : k = LeapsThrough(1969)
  BY LeapsBound, SMT
<1>4. YearStart(z) = 365 * (z - 1970) + t - k
  BY <1>1, <1>3 DEF YearStart
<1>5. YearStart(y + 1) = 365 * (y - 1969) + s - k
  <2>1. (y + 1) - 1 = y /\ (y + 1) - 1970 = y - 1969
    BY SMT
  <2>2. QED
    BY <1>1, <1>3, <2>1 DEF YearStart
<1>6. CASE z = y + 1
  BY <1>6, <1>4, <1>5, YearsFollow, SMT
<1>7. CASE z # y + 1
  BY <1>2, <1>4, <1>5, <1>7, SMT
<1>8. QED
  BY <1>6, <1>7

\* The table of the months.
LEMMA MonthsAre ==
  ASSUME NEW leap \in BOOLEAN
  PROVE  LET M == MonthStart(leap)
             l == IF leap THEN 1 ELSE 0
         IN  /\ M[1] = 0 /\ M[2] = 31 /\ M[3] = 59 + l /\ M[4] = 90 + l /\ M[5] = 120 + l
             /\ M[6] = 151 + l /\ M[7] = 181 + l /\ M[8] = 212 + l /\ M[9] = 243 + l
             /\ M[10] = 273 + l /\ M[11] = 304 + l /\ M[12] = 334 + l /\ M[13] = 365 + l
PROOF
<1>1. CASE leap
  BY <1>1, SMT DEF MonthStart
<1>2. CASE ~leap
  BY <1>2, SMT DEF MonthStart
<1>3. QED
  BY <1>1, <1>2

\* The start of a month that is the m-th from March on, by its day e of that year.
LEMMA MonthsFromMarch ==
  ASSUME NEW leap \in BOOLEAN, NEW l \in Int, l = IF leap THEN 1 ELSE 0,
         NEW m \in Int, 0 <= m, m <= 11
  PROVE  LET M == MonthStart(leap)
             S(k) == (153 * k + 2) \div 5
         IN  /\ m < 10 => /\ M[m + 3] = S(m) + 59 + l
                          /\ m < 9 => M[m + 4] = S(m + 1) + 59 + l
                          /\ m = 9 => M[m + 4] = 365 + l /\ S(m + 1) = 306
             /\ m >= 10 => /\ M[m - 9] = S(m) - 306
                           /\ m = 10 => M[m - 8] = S(m + 1) - 306
                           /\ m = 11 => M[m - 8] = 59 + l /\ S(m + 1) = 367
PROOF
<1> DEFINE M == MonthStart(leap)
           S(k) == (153 * k + 2) \div 5
<1>1. /\ M[1] = 0 /\ M[2] = 31 /\ M[3] = 59 + l /\ M[4] = 90 + l /\ M[5] = 120 + l
      /\ M[6] = 151 + l /\ M[7] = 181 + l /\ M[8] = 212 + l /\ M[9] = 243 + l
      /\ M[10] = 273 + l /\ M[11] = 304 + l /\ M[12] = 334 + l /\ M[13] = 365 + l
  BY MonthsAre
<1>2. /\ S(0) = 0 /\ S(1) = 31 /\ S(2) = 61 /\ S(3) = 92 /\ S(4) = 122 /\ S(5) = 153
      /\ S(6) = 184 /\ S(7) = 214 /\ S(8) = 245 /\ S(9) = 275 /\ S(10) = 306 /\ S(11) = 337
      /\ S(12) = 367
  BY SMT
<1> HIDE DEF M, S
<1>3. \/ m = 0 \/ m = 1 \/ m = 2 \/ m = 3 \/ m = 4 \/ m = 5 \/ m = 6 \/ m = 7
      \/ m = 8 \/ m = 9 \/ m = 10 \/ m = 11
  BY SMT
<1>4. /\ m < 10 => /\ M[m + 3] = S(m) + 59 + l
                   /\ m < 9 => M[m + 4] = S(m + 1) + 59 + l
                   /\ m = 9 => M[m + 4] = 365 + l /\ S(m + 1) = 306
      /\ m >= 10 => /\ M[m - 9] = S(m) - 306
                    /\ m = 10 => M[m - 8] = S(m + 1) - 306
                    /\ m = 11 => M[m - 8] = 59 + l /\ S(m + 1) = 367
  BY <1>1, <1>2, <1>3, SMT
<1>5. QED
  BY <1>4, SMT DEF M, S

\* Day d since the start of 1970 is day yday, from 0, of year y, and in its month k.
CivilDate(d, y, k, yday) ==
  /\ YearStart(y) <= d /\ d < YearStart(y + 1) /\ yday = d - YearStart(y)
  /\ 1 <= k /\ k <= 12
  /\ MonthStart(IsLeap(y))[k] <= yday /\ yday < MonthStart(IsLeap(y))[k + 1]

\* The year that starts in March, and the one that starts in January.
LEMMA JanuaryAfterMarch ==
  ASSUME NEW Y \in Int, NEW e \in Int, NEW d \in Int, NEW lo \in Int, NEW hi \in Int,
         d + 2440588 + 32044 = 365 * Y + LeapsThrough(Y) + e,
         lo = YearStart(Y - 4800), hi = YearStart(Y - 4799)
  PROVE  /\ d = hi - 306 + e
         /\ hi = lo + IF IsLeap(Y - 4800) THEN 366 ELSE 365
PROOF
<1>1. PICK t \in Int : t = LeapsThrough(Y)
  BY CalendarRepeats, SMT
<1>2. LeapsThrough(Y - 4800) = t - 1164
  BY <1>1, CalendarRepeats, SMT
<1>3. LeapsThrough(1969) = 477
  BY SMT DEF LeapsThrough
<1>4. hi = 365 * (Y - 6769) + (t - 1164) - 477
  <2>1. (Y - 4799) - 1 = Y - 4800 /\ (Y - 4799) - 1970 = Y - 6769
    BY SMT
  <2>2. QED
    BY <1>2, <1>3, <2>1 DEF YearStart
<1>5. d = hi - 306 + e
  BY <1>1, <1>4, SMT
<1>6. hi = lo + IF IsLeap(Y - 4800) THEN 366 ELSE 365
  <2>1. Y - 4800 \in Int /\ (Y - 4800) + 1 = Y - 4799
    BY SMT
  <2>2. QED
    BY <2>1, YearsFollow
<1>7. QED
  BY <1>5, <1>6

\* getYearMonthDay gives the year, the month and the day of the month.
LEMMA DateIsCivil ==
  ASSUME NEW d \in Int
  PROVE  LET ymd == getYearMonthDay(d + kJulianDayOf1970_01_01)
         IN  \E y \in Int, k \in Int, yday \in Int :
               /\ CivilDate(d, y, k, yday)
               /\ ymd = [day   |-> yday - MonthStart(IsLeap(y))[k] + 1,
                         month |-> k, year |-> y]
PROOF
<1>1. PICK j \in Int : j = d + 2440588
  BY SMT
<1>2. PICK Y \in Int, e \in Int, m \in Int : MarchDate(j, Y, e, m)
  BY MarchDates
<1>3. /\ 0 <= e /\ e <= 365 /\ m = (5 * e + 2) \div 153
      /\ j + 32044 = 365 * Y + LeapsThrough(Y) + e
      /\ e = 365 => IsLeap(Y + 1)
  BY <1>2, SMT DEF MarchDate
<1>4. PICK s \in Int, s1 \in Int, q \in Int : 
        s = (153 * m + 2) \div 5 /\ s1 = (153 * (m + 1) + 2) \div 5 /\ q = m \div 10
  BY SMT
<1>5. 0 <= m /\ m <= 11 /\ s <= e /\ e < s1
  BY <1>3, <1>4, MarchMonths
<1>6. PICK k \in Int : k = m + 3 - 12 * (m \div 10)
  BY SMT
<1>7. /\ 1 <= k /\ k <= 12
      /\ m >= 10 => q = 1 /\ k = m - 9
      /\ m < 10 => q = 0 /\ k = m + 3
  BY <1>4, <1>5, <1>6, MonthNumber
<1>8. PICK y0 \in Int, y1 \in Int, y2 \in Int : y0 = Y - 4800 /\ y1 = Y - 4799 /\ y2 = Y - 4798
  BY SMT
<1>9. PICK lo \in Int, hi \in Int, top \in Int :
        lo = YearStart(y0) /\ hi = YearStart(y1) /\ top = YearStart(y2)
  <2>1. YearStart(y0) \in Int /\ YearStart(y1) \in Int /\ YearStart(y2) \in Int
    BY YearsFollow
  <2>2. QED
    BY <2>1
<1>10. d = hi - 306 + e /\ hi = lo + IF IsLeap(y0) THEN 366 ELSE 365
  <2>1. lo = YearStart(Y - 4800) /\ hi = YearStart(Y - 4799)
    BY <1>8, <1>9
  <2>2. d + 2440588 + 32044 = 365 * Y + LeapsThrough(Y) + e
    BY <1>1, <1>3
  <2>3. d = hi - 306 + e /\ hi = lo + IF IsLeap(Y - 4800) THEN 366 ELSE 365
    BY <2>1, <2>2, JanuaryAfterMarch
  <2>4. QED
    BY <1>8, <2>3
<1>11. getYearMonthDay(d + kJulianDayOf1970_01_01)
         = [day |-> e - s + 1, month |-> k, year |-> Y - 4800 + q]
  BY <1>1, <1>2, <1>4, <1>6, EpochDay, SMT DEF MarchDate
<1>12. CASE m >= 10
  <2>1. PICK l \in Int : l = IF IsLeap(y1) THEN 1 ELSE 0
    BY SMT
  <2>2. top = hi + 365 + l
    <3>1. y2 = y1 + 1
      BY <1>8, SMT
    <3>2. YearStart(y1 + 1) = YearStart(y1) + IF IsLeap(y1) THEN 366 ELSE 365
      BY YearsFollow
    <3>3. QED
      BY <1>9, <2>1, <3>1, <3>2, SMT
  <2>3. e = 365 => l = 1
    <3>1. IsLeap(y1) <=> IsLeap(Y + 1)
      <4>1. Y + 1 \in Int /\ y1 = (Y + 1) - 4800
        BY <1>8, SMT
      <4>2. QED
        BY <4>1, CalendarRepeats
    <3>2. QED
      BY <1>3, <2>1, <3>1
  <2>4. IsLeap(y1) \in BOOLEAN
    BY DEF IsLeap
  <2>5. /\ MonthStart(IsLeap(y1))[m - 9] = s - 306
        /\ m = 10 => MonthStart(IsLeap(y1))[m - 8] = s1 - 306
        /\ m = 11 => MonthStart(IsLeap(y1))[m - 8] = 59 + l /\ s1 = 367
    BY <1>4, <1>5, <1>12, <2>1, <2>4, MonthsFromMarch
  <2>6. PICK yday \in Int : yday = d - hi
    BY SMT
  <2>7. k + 1 = m - 8 /\ k = m - 9 /\ Y - 4800 + q = y1 /\ y1 + 1 = y2
    BY <1>7, <1>8, <1>12, SMT
  <2>8. m = 10 \/ m = 11
    BY <1>5, <1>12, SMT
  <2>9. e >= 306
    BY <1>4, <1>5, <1>12, SMT
  <2>10. hi <= d /\ d < top /\ yday = e - 306
    <3>1. d = hi - 306 + e /\ 306 <= e /\ e <= 365 /\ 0 <= l
      BY <1>3, <1>10, <2>1, <2>9, SMT
    <3>2. QED
      BY <2>2, <2>6, <3>1, SMT
  <2>11. MonthStart(IsLeap(y1))[k] <= yday /\ yday < MonthStart(IsLeap(y1))[k + 1]
    BY <1>3, <1>5, <2>1, <2>3, <2>5, <2>7, <2>8, <2>10, SMT
  <2>12. CivilDate(d, y1, k, yday)
    BY <1>7, <1>9, <2>6, <2>7, <2>10, <2>11 DEF CivilDate
  <2>13. e - s + 1 = yday - MonthStart(IsLeap(y1))[k] + 1
    BY <2>5, <2>7, <2>10, SMT
  <2>14. getYearMonthDay(d + kJulianDayOf1970_01_01)
           = [day |-> yday - MonthStart(IsLeap(y1))[k] + 1, month |-> k, year |-> y1]
    BY <1>11, <2>7, <2>13, SMT
  <2>15. QED
    BY <2>12, <2>14
<1>13. CASE m < 10
  <2>1. PICK l \in Int : l = IF IsLeap(y0) THEN 1 ELSE 0
    BY SMT
  <2>4. IsLeap(y0) \in BOOLEAN
    BY DEF IsLeap
  <2>5. /\ MonthStart(IsLeap(y0))[m + 3] = s + 59 + l
        /\ m < 9 => MonthStart(IsLeap(y0))[m + 4] = s1 + 59 + l
        /\ m = 9 => MonthStart(IsLeap(y0))[m + 4] = 365 + l /\ s1 = 306
    BY <1>4, <1>5, <1>13, <2>1, <2>4, MonthsFromMarch
  <2>6. PICK yday \in Int : yday = d - lo
    BY SMT
  <2>7. k + 1 = m + 4 /\ k = m + 3 /\ Y - 4800 + q = y0 /\ y0 + 1 = y1
    BY <1>7, <1>8, <1>13, SMT
  <2>8. m < 9 \/ m = 9
    BY <1>5, <1>13, SMT
  <2>9. e < 306
    BY <1>4, <1>5, <1>13, SMT
  <2>10. lo <= d /\ d < hi /\ yday = e + 59 + l
    BY <1>3, <1>10, <2>1, <2>6, <2>9, SMT
  <2>11. MonthStart(IsLeap(y0))[k] <= yday /\ yday < MonthStart(IsLeap(y0))[k + 1]
    BY <1>3, <1>5, <2>1, <2>5, <2>7, <2>8, <2>9, <2>10, SMT
  <2>12. CivilDate(d, y0, k, yday)
    BY <1>7, <1>9, <2>6, <2>7, <2>10, <2>11 DEF CivilDate
  <2>13. e - s + 1 = yday - MonthStart(IsLeap(y0))[k] + 1
    BY <2>5, <2>7, <2>10, SMT
  <2>14. getYearMonthDay(d + kJulianDayOf1970_01_01)
           = [day |-> yday - MonthStart(IsLeap(y0))[k] + 1, month |-> k, year |-> y0]
    BY <1>11, <2>7, <2>13, SMT
  <2>15. QED
    BY <2>12, <2>14
<1>14. m >= 10 \/ m < 10
  BY SMT
<1>15. QED
  BY <1>12, <1>13, <1>14

\* A day is in one year,
LEMMA YearIsOne ==
  ASSUME NEW d \in Int, NEW y \in Int, NEW z \in Int,
         YearStart(y) <= d, d < YearStart(y + 1), YearStart(z) <= d, d < YearStart(z + 1)
  PROVE  y = z
PROOF
<1>1. y + 1 \in Int /\ z + 1 \in Int
  BY SMT
<1>2. /\ YearStart(y) \in Int /\ YearStart(y + 1) \in Int
      /\ YearStart(z) \in Int /\ YearStart(z + 1) \in Int
  BY <1>1, YearsFollow
<1>3. CASE y < z
  <2>1. YearStart(y + 1) <= YearStart(z)
    BY <1>3, YearsAscend
  <2>2. QED
    BY <1>2, <2>1, SMT
<1>4. CASE z < y
  <2>1. YearStart(z + 1) <= YearStart(y)
    BY <1>4, YearsAscend
  <2>2. QED
    BY <1>2, <2>1, SMT
<1>5. QED
  BY <1>3, <1>4, SMT

\* which is the one that 400 years of 146097 days suggest, or next to it,
LEMMA YearIsNear ==
  \A d, y, g \in Int : YearStart(y) <= d /\ d < YearStart(y + 1) /\ g = (400 * d) \div 146097
    => 1970 + g - 1 <= y /\ y <= 1970 + g + 1
PROOF
<1>1. SUFFICES ASSUME NEW d \in Int, NEW y \in Int, NEW g \in Int,
                      YearStart(y) <= d, d < YearStart(y + 1), g = (400 * d) \div 146097
               PROVE  1970 + g - 1 <= y /\ y <= 1970 + g + 1
  BY SMT
<1>2. 146097 * g <= 400 * d /\ 400 * d <= 146097 * g + 146096
  BY <1>1, SMT
<1>3. PICK s \in Int, t \in Int : s = LeapsThrough(y - 1) /\ t = LeapsThrough(y)
  <2>1. y - 1 \in Int
    BY SMT
  <2>2. LeapsThrough(y - 1) \in Int /\ LeapsThrough(y) \in Int
    BY <2>1, LeapsBound
  <2>3. QED
    BY <2>2
<1>4. /\ 97 * (y - 1) - 699 <= 400 * s /\ 400 * t <= 97 * y + 396
  <2>1. y - 1 \in Int
    BY SMT
  <2>2. QED
    BY <1>3, <2>1, LeapsBound
<1>5. LeapsThrough(1969) = 477
  BY SMT DEF LeapsThrough
<1>6. YearStart(y) = 365 * (y - 1970) + s - 477
  BY <1>3, <1>5 DEF YearStart
<1>7. YearStart(y + 1) = 365 * (y - 1969) + t - 477
  <2>1. (y + 1) - 1 = y /\ (y + 1) - 1970 = y - 1969
    BY SMT
  <2>2. QED
    BY <1>3, <1>5, <2>1 DEF YearStart
<1>8. 365 * (y - 1970) + s - 477 <= d /\ d < 365 * (y - 1969) + t - 477
  BY <1>1, <1>6, <1>7
<1>9. 1970 + g - 1 <= y
  BY <1>2, <1>4, <1>8, SMT
<1>10. y <= 1970 + g + 1
  BY <1>2, <1>4, <1>8, SMT
<1>11. QED
  BY <1>9, <1>10

\* and in one month.
LEMMA MonthIsOne ==
  ASSUME NEW leap \in BOOLEAN, NEW n \in Int, NEW k \in Int, 1 <= k, k <= 12,
         NEW i \in Int, 1 <= i, i <= 12,
         MonthStart(leap)[k] <= n, n < MonthStart(leap)[k + 1],
         MonthStart(leap)[i] <= n, n < MonthStart(leap)[i + 1]
  PROVE  k = i
PROOF
<1> DEFINE M == MonthStart(leap)
<1>1. PICK l \in Int : l = (IF leap THEN 1 ELSE 0) /\ 0 <= l /\ l <= 1
  BY SMT
<1>2. /\ M[1] = 0 /\ M[2] = 31 /\ M[3] = 59 + l /\ M[4] = 90 + l /\ M[5] = 120 + l
      /\ M[6] = 151 + l /\ M[7] = 181 + l /\ M[8] = 212 + l /\ M[9] = 243 + l
      /\ M[10] = 273 + l /\ M[11] = 304 + l /\ M[12] = 334 + l /\ M[13] = 365 + l
  BY <1>1, MonthsAre
<1>3. M[k] <= n /\ n < M[k + 1] /\ M[i] <= n /\ n < M[i + 1]
  OBVIOUS
<1> HIDE DEF M
<1>4. QED
  BY <1>1, <1>2, <1>3, SMT

\* gmtime_r gives that year, month and day.
LEMMA GmtimeIs ==
  ASSUME NEW t \in Int, NEW d \in Int, NEW s \in Int,
         d = t \div kSecondsPerDay, s = t % kSecondsPerDay,
         NEW y \in Int, NEW k \in Int, NEW yday \in Int, CivilDate(d, y, k, yday)
  PROVE  gmtime_r(t) =
           [year |-> y, month |-> k, day |-> yday - MonthStart(IsLeap(y))[k] + 1,
            hour |-> s \div 3600, min |-> (s % 3600) \div 60, sec |-> s % 60,
            wday |-> (d + 4) % 7, yday |-> yday]
PROOF
<1>1. YearOf(d) = y
  <2>1. PICK guess \in Int, g \in Int : g = (400 * d) \div 146097 /\ guess = 1970 + g
    BY SMT
  <2> DEFINE yy == CHOOSE z \in guess - 1 .. guess + 1 :
                     YearStart(z) <= d /\ d < YearStart(z + 1)
  <2>2. YearOf(d) = yy
    BY <2>1, SMT DEF YearOf
  <2>3. y \in guess - 1 .. guess + 1 /\ YearStart(y) <= d /\ d < YearStart(y + 1)
    <3>1. YearStart(y) <= d /\ d < YearStart(y + 1)
      BY DEF CivilDate
    <3>2. 1970 + g - 1 <= y /\ y <= 1970 + g + 1
      BY <2>1, <3>1, YearIsNear
    <3>3. QED
      BY <2>1, <3>1, <3>2, SMT
  <2>4. yy \in guess - 1 .. guess + 1 /\ YearStart(yy) <= d /\ d < YearStart(yy + 1)
    BY <2>3
  <2> HIDE DEF yy
  <2>5. yy \in Int
    BY <2>4
  <2>6. QED
    BY <2>2, <2>3, <2>4, <2>5, YearIsOne
<1>2. MonthOf(IsLeap(y), yday) = k
  <2> DEFINE kk == MonthOf(IsLeap(y), yday)
  <2>1. /\ k \in 1 .. 12 /\ MonthStart(IsLeap(y))[k] <= yday
        /\ yday < MonthStart(IsLeap(y))[k + 1]
    BY DEF CivilDate
  <2>2. /\ kk \in 1 .. 12 /\ MonthStart(IsLeap(y))[kk] <= yday
        /\ yday < MonthStart(IsLeap(y))[kk + 1]
    BY <2>1 DEF MonthOf
  <2> HIDE DEF kk
  <2>3. kk \in Int /\ 1 <= kk /\ kk <= 12 /\ 1 <= k /\ k <= 12
    BY <2>1, <2>2
  <2>4. IsLeap(y) \in BOOLEAN
    BY DEF IsLeap
  <2>5. kk = k
    BY <2>1, <2>2, <2>3, <2>4, MonthIsOne
  <2>6. QED
    BY <2>5 DEF kk
<1>3. d - YearStart(y) = yday
  BY DEF CivilDate
<1>4. QED
  BY <1>1, <1>2, <1>3, SMT DEF gmtime_r

\* C's division, corrected for a negative remainder, is \div.
LEMMA FloorDivision ==
  ASSUME NEW t \in Int
  PROVE  /\ (IF Rem(t, 86400) < 0 THEN Rem(t, 86400) + 86400 ELSE Rem(t, 86400)) = t % 86400
         /\ (IF Rem(t, 86400) < 0 THEN Quot(t, 86400) - 1 ELSE Quot(t, 86400)) = t \div 86400
PROOF
<1>1. PICK q \in Int, r \in Int : q = t \div 86400 /\ r = t % 86400 /\ 0 <= r /\ r < 86400
  BY SMT
<1>2. CASE t >= 0 \/ r = 0
  BY <1>1, <1>2, SMT DEF Rem, Quot
<1>3. CASE ~(t >= 0 \/ r = 0)
  <2>1. Rem(t, 86400) = r - 86400 /\ Quot(t, 86400) = q + 1
    BY <1>1, <1>3, SMT DEF Rem, Quot
  <2>2. QED
    BY <1>1, <2>1, SMT
<1>4. QED
  BY <1>2, <1>3

\* Hours, minutes and seconds of a second of the day.
LEMMA HoursMinutesSeconds ==
  ASSUME NEW s \in Int, 0 <= s, s < 86400
  PROVE  /\ (s \div 60) \div 60 = s \div 3600
         /\ (s \div 60) % 60 = (s % 3600) \div 60
         /\ s = (s \div 3600) * 3600 + ((s % 3600) \div 60) * 60 + (s % 60)
         /\ s \div 3600 \in Int /\ 0 <= s \div 3600 /\ s \div 3600 <= 23
         /\ (s % 3600) \div 60 \in Int /\ 0 <= (s % 3600) \div 60 /\ (s % 3600) \div 60 <= 59
         /\ s % 60 \in Int /\ 0 <= s % 60 /\ s % 60 <= 59
PROOF
<1>1. PICK m \in Int, c \in Int : m = s \div 60 /\ c = s % 60 /\ s = 60 * m + c /\ 0 <= c /\ c <= 59
  BY SMT
<1>2. PICK h \in Int, n \in Int : h = m \div 60 /\ n = m % 60 /\ m = 60 * h + n /\ 0 <= n /\ n <= 59
  BY SMT
<1>3. PICK u \in Int : u = 60 * n + c
  BY SMT
<1>4. s = 3600 * h + u /\ 0 <= u /\ u <= 3599
  BY <1>1, <1>2, <1>3, SMT
<1>5. s \div 3600 = h /\ s % 3600 = u
  BY <1>4, SMT
<1>6. u \div 60 = n
  BY <1>1, <1>2, <1>3, SMT
<1>7. 0 <= h /\ h <= 23
  BY <1>4, SMT
<1>8. QED
  BY <1>1, <1>2, <1>3, <1>4, <1>5, <1>6, <1>7, SMT

\* The day of the year.
LEMMA NewYear ==
  ASSUME NEW y \in Int, NEW d \in Int, NEW j \in Int, j = d + kJulianDayOf1970_01_01
  PROVE  j - getJulianDayNumber(y, 1, 1) = d - YearStart(y)
PROOF
<1>1. PICK z \in Int, x \in Int : z = y + 4799 /\ x = y - 1
  BY SMT
<1>2. PICK t \in Int : t = LeapsThrough(z)
  BY CalendarRepeats
<1>3. LeapsThrough(x) = t - 1164
  <2>1. x = z - 4800
    BY <1>1, SMT
  <2>2. QED
    BY <1>2, <2>1, CalendarRepeats
<1>4. LeapsThrough(1969) = 477
  BY SMT DEF LeapsThrough
<1>5. YearStart(y) = 365 * (y - 1970) + (t - 1164) - 477
  BY <1>1, <1>3, <1>4 DEF YearStart
<1>6. getJulianDayNumber(y, 1, 1) = 307 + z * 365 + t - 32045
  <2>1. /\ (14 - 1) \div 12 = 1 /\ y + 4800 - 1 = z /\ 1 + 12 * 1 - 3 = 10
        /\ (153 * 10 + 2) \div 5 = 306
    BY <1>1, SMT
  <2>2. PICK u \in Int, v \in Int, w \in Int : u = z \div 4 /\ v = z \div 100 /\ w = z \div 400
    BY SMT
  <2>3. t = u - v + w
    BY <1>2, <2>2 DEF LeapsThrough
  <2>4. getJulianDayNumber(y, 1, 1) = 1 + 306 + z * 365 + u - v + w - 32045
    BY <2>1, <2>2, SMT DEF getJulianDayNumber
  <2>5. QED
    BY <2>3, <2>4, SMT
<1>7. j = d + 2440588
  BY EpochDay, SMT
<1>8. QED
  BY <1>1, <1>5, <1>6, <1>7, SMT

\* toUtcTime is gmtime_r.
LEMMA UtcIsGmtime == \A t \in Int : toUtcTime(t) = gmtime_r(t)
PROOF
<1>1. SUFFICES ASSUME NEW t \in Int PROVE toUtcTime(t) = gmtime_r(t)
  OBVIOUS
<1>2. PICK d \in Int, s \in Int : d = t \div 86400 /\ s = t % 86400 /\ 0 <= s /\ s < 86400
  BY SMT
<1>3. PICK y \in Int, k \in Int, yday \in Int :
        /\ CivilDate(d, y, k, yday)
        /\ getYearMonthDay(d + kJulianDayOf1970_01_01)
             = [day |-> yday - MonthStart(IsLeap(y))[k] + 1, month |-> k, year |-> y]
  BY DateIsCivil
<1>4. gmtime_r(t) =
        [year |-> y, month |-> k, day |-> yday - MonthStart(IsLeap(y))[k] + 1,
         hour |-> s \div 3600, min |-> (s % 3600) \div 60, sec |-> s % 60,
         wday |-> (d + 4) % 7, yday |-> yday]
  <2>1. d = t \div kSecondsPerDay /\ s = t % kSecondsPerDay
    BY <1>2, SMT DEF kSecondsPerDay
  <2>2. QED
    BY <1>3, <2>1, GmtimeIs
<1>5. (d + kJulianDayOf1970_01_01) - getJulianDayNumber(y, 1, 1) = yday
  <2>1. PICK j \in Int : j = d + kJulianDayOf1970_01_01
    BY EpochDay, SMT
  <2>2. j - getJulianDayNumber(y, 1, 1) = d - YearStart(y)
    BY <2>1, NewYear
  <2>3. yday = d - YearStart(y)
    BY <1>3 DEF CivilDate
  <2>4. QED
    BY <2>1, <2>2, <2>3
<1>6. weekDay(d + kJulianDayOf1970_01_01) = (d + 4) % 7
  BY EpochDay, SMT DEF weekDay, kDaysPerWeek
<1>7. (s \div 60) \div 60 = s \div 3600 /\ (s \div 60) % 60 = (s % 3600) \div 60
  BY <1>2, HoursMinutesSeconds
<1>8. fillHMS(s) = [hour |-> s \div 3600, min |-> (s % 3600) \div 60, sec |-> s % 60]
  BY <1>7 DEF fillHMS
<1>9. PICK ymd : ymd = getYearMonthDay(d + kJulianDayOf1970_01_01)
  OBVIOUS
<1>10. PICK hms : hms = fillHMS(s)
  OBVIOUS
<1>11. toUtcTime(t) =
         [year |-> ymd.year, month |-> ymd.month, day |-> ymd.day,
          hour |-> hms.hour, min |-> hms.min, sec |-> hms.sec,
          wday |-> weekDay(d + kJulianDayOf1970_01_01),
          yday |-> (d + kJulianDayOf1970_01_01) - getJulianDayNumber(ymd.year, 1, 1)]
  BY <1>2, <1>9, <1>10, FloorDivision, SMT DEF toUtcTime, kSecondsPerDay
<1>12. /\ ymd.year = y /\ ymd.month = k /\ ymd.day = yday - MonthStart(IsLeap(y))[k] + 1
       /\ hms.hour = s \div 3600 /\ hms.min = (s % 3600) \div 60 /\ hms.sec = s % 60
  BY <1>3, <1>8, <1>9, <1>10
<1>13. QED
  BY <1>4, <1>5, <1>6, <1>11, <1>12, SMT

\* The parts of a time t: day d, second s of the day, year y, month k and day of
\* the year.
TimeParts(t, d, s, y, k, yday) ==
  /\ t = 86400 * d + s /\ 0 <= s /\ s < 86400
  /\ CivilDate(d, y, k, yday)
  /\ getYearMonthDay(d + kJulianDayOf1970_01_01)
       = [day |-> yday - MonthStart(IsLeap(y))[k] + 1, month |-> k, year |-> y]
  /\ gmtime_r(t) =
       [year |-> y, month |-> k, day |-> yday - MonthStart(IsLeap(y))[k] + 1,
        hour |-> s \div 3600, min |-> (s % 3600) \div 60, sec |-> s % 60,
        wday |-> (d + 4) % 7, yday |-> yday]

\* Every time has them.
LEMMA TimeHasParts ==
  \A t \in Int : \E d, s, y, k, yday \in Int : TimeParts(t, d, s, y, k, yday)
PROOF
<1>1. SUFFICES ASSUME NEW t \in Int
               PROVE  \E d, s, y, k, yday \in Int : TimeParts(t, d, s, y, k, yday)
  OBVIOUS
<1>2. PICK d \in Int, s \in Int : /\ d = t \div 86400 /\ s = t % 86400
                                /\ t = 86400 * d + s /\ 0 <= s /\ s < 86400
  BY SMT
<1>3. PICK y \in Int, k \in Int, yday \in Int :
        /\ CivilDate(d, y, k, yday)
        /\ getYearMonthDay(d + kJulianDayOf1970_01_01)
             = [day |-> yday - MonthStart(IsLeap(y))[k] + 1, month |-> k, year |-> y]
  BY DateIsCivil
<1>4. gmtime_r(t) =
        [year |-> y, month |-> k, day |-> yday - MonthStart(IsLeap(y))[k] + 1,
         hour |-> s \div 3600, min |-> (s % 3600) \div 60, sec |-> s % 60,
         wday |-> (d + 4) % 7, yday |-> yday]
  <2>1. d = t \div kSecondsPerDay /\ s = t % kSecondsPerDay
    BY <1>2, SMT DEF kSecondsPerDay
  <2>2. QED
    BY <1>3, <2>1, GmtimeIs
<1>5. TimeParts(t, d, s, y, k, yday)
  BY <1>2, <1>3, <1>4 DEF TimeParts
<1>6. QED
  BY <1>5

\* The starts of the months are integers.
LEMMA MonthsInt ==
  ASSUME NEW leap \in BOOLEAN, NEW k \in Int, 1 <= k, k <= 13
  PROVE  MonthStart(leap)[k] \in Int
PROOF
<1> DEFINE M == MonthStart(leap)
<1>1. PICK l \in Int : l = (IF leap THEN 1 ELSE 0) /\ 0 <= l /\ l <= 1
  BY SMT
<1>2. /\ M[1] = 0 /\ M[2] = 31 /\ M[3] = 59 + l /\ M[4] = 90 + l /\ M[5] = 120 + l
      /\ M[6] = 151 + l /\ M[7] = 181 + l /\ M[8] = 212 + l /\ M[9] = 243 + l
      /\ M[10] = 273 + l /\ M[11] = 304 + l /\ M[12] = 334 + l /\ M[13] = 365 + l
  BY <1>1, MonthsAre
<1> HIDE DEF M
<1>3. M[k] \in Int
  BY <1>1, <1>2, SMT
<1>4. QED
  BY <1>3 DEF M

\* And ascend.
LEMMA MonthsAscend ==
  ASSUME NEW leap \in BOOLEAN, NEW i \in Int, NEW k \in Int, 1 <= i, i < k, k <= 13
  PROVE  MonthStart(leap)[i + 1] <= MonthStart(leap)[k]
PROOF
<1> DEFINE M == MonthStart(leap)
<1>1. PICK l \in Int : l = (IF leap THEN 1 ELSE 0) /\ 0 <= l /\ l <= 1
  BY SMT
<1>2. /\ M[1] = 0 /\ M[2] = 31 /\ M[3] = 59 + l /\ M[4] = 90 + l /\ M[5] = 120 + l
      /\ M[6] = 151 + l /\ M[7] = 181 + l /\ M[8] = 212 + l /\ M[9] = 243 + l
      /\ M[10] = 273 + l /\ M[11] = 304 + l /\ M[12] = 334 + l /\ M[13] = 365 + l
  BY <1>1, MonthsAre
<1> HIDE DEF M
<1>3. M[i + 1] <= M[k]
  BY <1>1, <1>2, SMT
<1>4. QED
  BY <1>3 DEF M

\* timegm is the inverse of gmtime_r.
LEMMA TimegmBack == \A t \in Int : timegm(gmtime_r(t)) = t
PROOF
<1>1. SUFFICES ASSUME NEW t \in Int PROVE timegm(gmtime_r(t)) = t
  OBVIOUS
<1>2. PICK d \in Int, s \in Int, y \in Int, k \in Int, yday \in Int :
        TimeParts(t, d, s, y, k, yday)
  BY TimeHasParts
<1>3. PICK tm : tm = gmtime_r(t)
  OBVIOUS
<1>4. PICK M \in Int : M = MonthStart(IsLeap(y))[k]
  <2>1. IsLeap(y) \in BOOLEAN /\ 1 <= k /\ k <= 12
    BY <1>2 DEF IsLeap, TimeParts, CivilDate
  <2>2. k <= 13
    BY <2>1, SMT
  <2>3. QED
    BY <2>1, <2>2, MonthsInt
<1>5. PICK Y \in Int : Y = YearStart(y) /\ yday = d - Y
  <2>1. YearStart(y) \in Int
    BY YearsFollow
  <2>2. QED
    BY <1>2, <2>1 DEF TimeParts, CivilDate
<1>6. /\ tm.year = y /\ tm.month = k /\ tm.day = yday - M + 1
      /\ tm.hour = s \div 3600 /\ tm.min = (s % 3600) \div 60 /\ tm.sec = s % 60
  BY <1>2, <1>3, <1>4 DEF TimeParts
<1>7. t = 86400 * d + s /\ 0 <= s /\ s < 86400
  BY <1>2 DEF TimeParts
<1>8. PICK h \in Int, n \in Int, c \in Int :
        /\ h = s \div 3600 /\ n = (s % 3600) \div 60 /\ c = s % 60
        /\ s = h * 3600 + n * 60 + c
  BY <1>7, HoursMinutesSeconds
<1>9. timegm(tm) = (Y + M + (yday - M + 1) - 1) * 86400 + h * 3600 + n * 60 + c
  BY <1>4, <1>5, <1>6, <1>8, SMT DEF timegm, kSecondsPerDay
<1>10. QED
  BY <1>3, <1>5, <1>7, <1>8, <1>9, SMT

\* fromUtcTime is the inverse of toUtcTime.
LEMMA UtcBack == \A t \in Int : fromUtcTime(toUtcTime(t)) = t
PROOF
<1>1. SUFFICES ASSUME NEW t \in Int PROVE fromUtcTime(toUtcTime(t)) = t
  OBVIOUS
<1>2. PICK d \in Int, s \in Int, y \in Int, k \in Int, yday \in Int :
        TimeParts(t, d, s, y, k, yday)
  BY TimeHasParts
<1>3. PICK tm : tm = toUtcTime(t)
  OBVIOUS
<1>4. PICK D : D = yday - MonthStart(IsLeap(y))[k] + 1
  OBVIOUS
<1>5. /\ tm.year = y /\ tm.month = k /\ tm.day = D
      /\ tm.hour = s \div 3600 /\ tm.min = (s % 3600) \div 60 /\ tm.sec = s % 60
  <2>1. tm = gmtime_r(t)
    BY <1>3, UtcIsGmtime
  <2>2. QED
    BY <1>2, <1>4, <2>1 DEF TimeParts
<1>6. PICK j \in Int : j = d + kJulianDayOf1970_01_01
  BY EpochDay, SMT
<1>7. getJulianDayNumber(y, k, D) = j
  <2>1. PICK ymd : ymd = getYearMonthDay(j)
    OBVIOUS
  <2>2. ymd = [day |-> D, month |-> k, year |-> y]
    BY <1>2, <1>4, <1>6, <2>1 DEF TimeParts
  <2>3. ymd.year = y /\ ymd.month = k /\ ymd.day = D
    BY <2>2
  <2>4. getJulianDayNumber(ymd.year, ymd.month, ymd.day) = j
    BY <2>1, JulianDayBack
  <2>5. QED
    BY <2>3, <2>4
<1>8. t = 86400 * d + s /\ 0 <= s /\ s < 86400
  BY <1>2 DEF TimeParts
<1>9. PICK h \in Int, n \in Int, c \in Int :
        /\ h = s \div 3600 /\ n = (s % 3600) \div 60 /\ c = s % 60
        /\ s = h * 3600 + n * 60 + c
  BY <1>8, HoursMinutesSeconds
<1>10. fromUtcTime(tm) = (j - kJulianDayOf1970_01_01) * 86400 + h * 3600 + n * 60 + c
  BY <1>5, <1>7, <1>9 DEF fromUtcTime, kSecondsPerDay
<1>11. j - kJulianDayOf1970_01_01 = d
  BY <1>6, EpochDay, SMT
<1>12. QED
  BY <1>3, <1>8, <1>9, <1>10, <1>11, SMT

\* The year of a later day is not an earlier one.
LEMMA YearsOrdered ==
  ASSUME NEW d1 \in Int, NEW d2 \in Int, d1 <= d2, NEW y1 \in Int, NEW y2 \in Int,
         YearStart(y1) <= d1, d2 < YearStart(y2 + 1)
  PROVE  y1 <= y2
PROOF
<1>1. SUFFICES ASSUME y2 < y1 PROVE FALSE
  BY SMT
<1>2. y2 + 1 \in Int
  BY SMT
<1>3. YearStart(y1) \in Int /\ YearStart(y2 + 1) \in Int
  BY <1>2, YearsFollow
<1>4. YearStart(y2 + 1) <= YearStart(y1)
  BY <1>1, YearsAscend
<1>5. QED
  BY <1>3, <1>4, SMT

\* Neither is the month of a later day of a year.
LEMMA MonthsOrdered ==
  ASSUME NEW leap \in BOOLEAN, NEW u1 \in Int, NEW u2 \in Int, u1 <= u2,
         NEW k1 \in Int, 1 <= k1, k1 <= 12, NEW k2 \in Int, 1 <= k2, k2 <= 12,
         MonthStart(leap)[k1] <= u1, u2 < MonthStart(leap)[k2 + 1]
  PROVE  k1 <= k2
PROOF
<1>1. SUFFICES ASSUME k2 < k1 PROVE FALSE
  BY SMT
<1>2. k1 <= 13 /\ k2 + 1 \in Int /\ 1 <= k2 + 1 /\ k2 + 1 <= 13
  BY SMT
<1>3. MonthStart(leap)[k1] \in Int /\ MonthStart(leap)[k2 + 1] \in Int
  BY <1>2, MonthsInt
<1>4. MonthStart(leap)[k2 + 1] <= MonthStart(leap)[k1]
  BY <1>1, <1>2, MonthsAscend
<1>5. QED
  BY <1>3, <1>4, SMT

\* What toFormattedString prints of a second.
Fields(t) ==
  LET tm == gmtime_r(t) IN <<tm.year, tm.month, tm.day, tm.hour, tm.min, tm.sec>>

\* Two sequences, at the first place at which they differ, not after the sixth.
EarlierInSix(a, b) ==
  \/ a[1] < b[1]
  \/ a[1] = b[1] /\ a[2] < b[2]
  \/ a[1] = b[1] /\ a[2] = b[2] /\ a[3] < b[3]
  \/ a[1] = b[1] /\ a[2] = b[2] /\ a[3] = b[3] /\ a[4] < b[4]
  \/ a[1] = b[1] /\ a[2] = b[2] /\ a[3] = b[3] /\ a[4] = b[4] /\ a[5] < b[5]
  \/ a[1] = b[1] /\ a[2] = b[2] /\ a[3] = b[3] /\ a[4] = b[4] /\ a[5] = b[5] /\ a[6] < b[6]

\* The fields, from the parts of the time and the tables of the calendar.
FieldParts(t, d, s, y, k, u, D, M) ==
  /\ t = 86400 * d + s /\ 0 <= s /\ s < 86400 /\ CivilDate(d, y, k, u)
  /\ M = MonthStart(IsLeap(y))[k] /\ D = u - M + 1
  /\ Fields(t) = <<y, k, D, s \div 3600, (s % 3600) \div 60, s % 60>>

\* They are six integers.
LEMMA FieldsAre ==
  ASSUME NEW t \in Int
  PROVE  \E d, s, y, k, u, D, M \in Int : FieldParts(t, d, s, y, k, u, D, M)
PROOF
<1>1. PICK d \in Int, s \in Int, y \in Int, k \in Int, u \in Int : TimeParts(t, d, s, y, k, u)
  BY TimeHasParts
<1>2. /\ t = 86400 * d + s /\ 0 <= s /\ s < 86400 /\ CivilDate(d, y, k, u)
      /\ 1 <= k /\ k <= 12
  BY <1>1 DEF TimeParts, CivilDate
<1>3. PICK M \in Int : M = MonthStart(IsLeap(y))[k]
  <2>1. IsLeap(y) \in BOOLEAN /\ k <= 13
    BY <1>2, SMT DEF IsLeap
  <2>2. QED
    BY <1>2, <2>1, MonthsInt
<1>4. PICK D \in Int : D = u - M + 1
  BY SMT
<1>5. PICK tm : tm = gmtime_r(t)
  OBVIOUS
<1>6. /\ tm.year = y /\ tm.month = k /\ tm.day = D
      /\ tm.hour = s \div 3600 /\ tm.min = (s % 3600) \div 60 /\ tm.sec = s % 60
  BY <1>1, <1>3, <1>4, <1>5 DEF TimeParts
<1>7. Fields(t) = <<y, k, D, s \div 3600, (s % 3600) \div 60, s % 60>>
  BY <1>5, <1>6 DEF Fields
<1>8. FieldParts(t, d, s, y, k, u, D, M)
  BY <1>2, <1>3, <1>4, <1>7, SMT DEF FieldParts
<1>9. QED
  BY <1>8

\* The fields of a later second are later.
LEMMA FieldsOrdered ==
  ASSUME NEW t1 \in Int, NEW t2 \in Int, t1 < t2
  PROVE  EarlierInSix(Fields(t1), Fields(t2))
PROOF
<1>1. PICK d1 \in Int, s1 \in Int, y1 \in Int, k1 \in Int, u1 \in Int, D1 \in Int, M1 \in Int :
        FieldParts(t1, d1, s1, y1, k1, u1, D1, M1)
  BY FieldsAre
<1>2. PICK d2 \in Int, s2 \in Int, y2 \in Int, k2 \in Int, u2 \in Int, D2 \in Int, M2 \in Int :
        FieldParts(t2, d2, s2, y2, k2, u2, D2, M2)
  BY FieldsAre
<1>3. d1 <= d2 /\ (d1 = d2 => s1 < s2)
  <2>1. /\ t1 = 86400 * d1 + s1 /\ 0 <= s1 /\ s1 < 86400
        /\ t2 = 86400 * d2 + s2 /\ 0 <= s2 /\ s2 < 86400
    BY <1>1, <1>2, SMT DEF FieldParts
  <2>2. QED
    BY <2>1, SMT
<1>4. /\ YearStart(y1) <= d1 /\ u1 = d1 - YearStart(y1) /\ 1 <= k1 /\ k1 <= 12
      /\ d2 < YearStart(y2 + 1) /\ u2 = d2 - YearStart(y2) /\ 1 <= k2 /\ k2 <= 12
      /\ MonthStart(IsLeap(y1))[k1] <= u1 /\ u2 < MonthStart(IsLeap(y2))[k2 + 1]
  BY <1>1, <1>2, SMT DEF FieldParts, CivilDate
<1>5. y1 <= y2
  BY <1>3, <1>4, YearsOrdered
<1>6. y1 = y2 => u1 <= u2 /\ (u1 = u2 => d1 = d2)
  <2>1. YearStart(y1) \in Int
    BY YearsFollow
  <2>2. QED
    BY <1>3, <1>4, <2>1, SMT
<1>7. y1 = y2 => k1 <= k2
  <2>1. IsLeap(y1) \in BOOLEAN
    BY DEF IsLeap
  <2>2. QED
    BY <1>4, <1>6, <2>1, MonthsOrdered
<1>8. y1 = y2 /\ k1 = k2 => D1 < D2 \/ (D1 = D2 /\ s1 < s2)
  <2>1. SUFFICES ASSUME y1 = y2, k1 = k2 PROVE D1 < D2 \/ (D1 = D2 /\ s1 < s2)
    OBVIOUS
  <2>2. M1 = M2 /\ D1 = u1 - M1 + 1 /\ D2 = u2 - M2 + 1
    BY <1>1, <1>2, <2>1, SMT DEF FieldParts
  <2>3. QED
    BY <1>3, <1>6, <2>1, <2>2, SMT
<1>9. PICK h1 \in Int, n1 \in Int, c1 \in Int :
        /\ h1 = s1 \div 3600 /\ n1 = (s1 % 3600) \div 60 /\ c1 = s1 % 60
        /\ s1 = h1 * 3600 + n1 * 60 + c1 /\ 0 <= n1 /\ n1 <= 59 /\ 0 <= c1 /\ c1 <= 59
  <2>1. 0 <= s1 /\ s1 < 86400
    BY <1>1, SMT DEF FieldParts
  <2>2. QED
    BY <2>1, HoursMinutesSeconds
<1>10. PICK h2 \in Int, n2 \in Int, c2 \in Int :
         /\ h2 = s2 \div 3600 /\ n2 = (s2 % 3600) \div 60 /\ c2 = s2 % 60
         /\ s2 = h2 * 3600 + n2 * 60 + c2 /\ 0 <= n2 /\ n2 <= 59 /\ 0 <= c2 /\ c2 <= 59
  <2>1. 0 <= s2 /\ s2 < 86400
    BY <1>2, SMT DEF FieldParts
  <2>2. QED
    BY <2>1, HoursMinutesSeconds
<1>11. s1 < s2 => h1 < h2 \/ (h1 = h2 /\ (n1 < n2 \/ (n1 = n2 /\ c1 < c2)))
  BY <1>9, <1>10, SMT
<1>12. \/ y1 < y2 \/ (y1 = y2 /\ k1 < k2) \/ (y1 = y2 /\ k1 = k2 /\ D1 < D2)
       \/ y1 = y2 /\ k1 = k2 /\ D1 = D2 /\ h1 < h2
       \/ y1 = y2 /\ k1 = k2 /\ D1 = D2 /\ h1 = h2 /\ n1 < n2
       \/ y1 = y2 /\ k1 = k2 /\ D1 = D2 /\ h1 = h2 /\ n1 = n2 /\ c1 < c2
  BY <1>5, <1>7, <1>8, <1>11, SMT
<1>13. PICK f, g : f = Fields(t1) /\ g = Fields(t2)
  OBVIOUS
<1>14. f = <<y1, k1, D1, h1, n1, c1>> /\ g = <<y2, k2, D2, h2, n2, c2>>
  BY <1>1, <1>2, <1>9, <1>10, <1>13, SMT DEF FieldParts
<1>15. /\ f[1] = y1 /\ f[2] = k1 /\ f[3] = D1 /\ f[4] = h1 /\ f[5] = n1 /\ f[6] = c1
       /\ g[1] = y2 /\ g[2] = k2 /\ g[3] = D2 /\ g[4] = h2 /\ g[5] = n2 /\ g[6] = c2
  BY <1>14
<1>16. EarlierInSix(f, g)
  BY <1>12, <1>15 DEF EarlierInSix
<1>17. QED
  BY <1>13, <1>16

\* Earlier, by the first six places.
LEMMA EarlierBySix ==
  ASSUME NEW a, NEW b, 1 .. 6 \subseteq DOMAIN a, EarlierInSix(a, b)
  PROVE  Earlier(a, b)
PROOF
<1>1. \A i \in 1 .. 6 : a[i] < b[i] /\ (\A j \in 1 .. i - 1 : a[j] = b[j]) => Earlier(a, b)
  BY DEF Earlier
<1>2. /\ \A j \in 1 .. 1 - 1 : FALSE
      /\ \A j \in 1 .. 2 - 1 : j = 1
      /\ \A j \in 1 .. 3 - 1 : j = 1 \/ j = 2
      /\ \A j \in 1 .. 4 - 1 : j = 1 \/ j = 2 \/ j = 3
      /\ \A j \in 1 .. 5 - 1 : j = 1 \/ j = 2 \/ j = 3 \/ j = 4
      /\ \A j \in 1 .. 6 - 1 : j = 1 \/ j = 2 \/ j = 3 \/ j = 4 \/ j = 5
  BY SMT
<1>3. CASE a[1] < b[1]
  BY <1>1, <1>2, <1>3, SMT
<1>4. CASE a[1] = b[1] /\ a[2] < b[2]
  BY <1>1, <1>2, <1>4, SMT
<1>5. CASE a[1] = b[1] /\ a[2] = b[2] /\ a[3] < b[3]
  BY <1>1, <1>2, <1>5, SMT
<1>6. CASE a[1] = b[1] /\ a[2] = b[2] /\ a[3] = b[3] /\ a[4] < b[4]
  BY <1>1, <1>2, <1>6, SMT
<1>7. CASE a[1] = b[1] /\ a[2] = b[2] /\ a[3] = b[3] /\ a[4] = b[4] /\ a[5] < b[5]
  BY <1>1, <1>2, <1>7, SMT
<1>8. CASE a[1] = b[1] /\ a[2] = b[2] /\ a[3] = b[3] /\ a[4] = b[4] /\ a[5] = b[5] /\ a[6] < b[6]
  BY <1>1, <1>2, <1>8, SMT
<1>9. QED
  BY <1>3, <1>4, <1>5, <1>6, <1>7, <1>8 DEF EarlierInSix

\* Of two texts at most one is earlier.
LEMMA EarlierOneWay ==
  ASSUME NEW n \in Nat, NEW a \in [1 .. n -> Int], NEW b \in [1 .. n -> Int], Earlier(a, b)
  PROVE  ~Earlier(b, a)
PROOF
<1>1. PICK i \in 1 .. n : a[i] < b[i] /\ \A j \in 1 .. i - 1 : a[j] = b[j]
  BY DEF Earlier
<1>2. SUFFICES ASSUME NEW k \in 1 .. n, b[k] < a[k], \A j \in 1 .. k - 1 : b[j] = a[j]
               PROVE  FALSE
  BY DEF Earlier
<1>3. /\ i \in Int /\ k \in Int /\ 1 <= i /\ 1 <= k
      /\ a[i] \in Int /\ b[i] \in Int /\ a[k] \in Int /\ b[k] \in Int
  OBVIOUS
<1>4. CASE i < k
  <2>1. i \in 1 .. k - 1
    BY <1>3, <1>4
  <2>2. QED
    BY <1>1, <1>2, <1>3, <2>1
<1>5. CASE k < i
  <2>1. k \in 1 .. i - 1
    BY <1>3, <1>5
  <2>2. QED
    BY <1>1, <1>2, <1>3, <2>1
<1>6. CASE i = k
  BY <1>1, <1>2, <1>3, <1>6
<1>7. QED
  BY <1>3, <1>4, <1>5, <1>6

\* The fields, and with the microseconds.
LEMMA FieldsSeq ==
  ASSUME NEW t \in Int, NEW r \in Int
  PROVE  /\ Fields(t) \in [1 .. 6 -> Int]
         /\ Fields(t) \o <<r>> \in [1 .. 7 -> Int]
         /\ \A i \in 1 .. 6 : (Fields(t) \o <<r>>)[i] = Fields(t)[i]
         /\ (Fields(t) \o <<r>>)[7] = r
PROOF
<1>1. PICK d \in Int, s \in Int, y \in Int, k \in Int, u \in Int, D \in Int, M \in Int :
        FieldParts(t, d, s, y, k, u, D, M)
  BY FieldsAre
<1>2. PICK h \in Int, n \in Int, c \in Int :
        h = s \div 3600 /\ n = (s % 3600) \div 60 /\ c = s % 60
  BY SMT
<1>3. PICK f : f = Fields(t)
  OBVIOUS
<1>4. f = <<y, k, D, h, n, c>>
  BY <1>1, <1>2, <1>3, SMT DEF FieldParts
<1>5. f \in Seq(Int) /\ Len(f) = 6
  BY <1>4
<1>6. PICK g : g = f \o <<r>>
  OBVIOUS
<1>7. <<r>> \in Seq(Int) /\ Len(<<r>>) = 1 /\ <<r>>[1] = r
  OBVIOUS
<1>8. /\ g \in Seq(Int) /\ Len(g) = Len(f) + Len(<<r>>)
      /\ \A i \in 1 .. Len(f) + Len(<<r>>) :
           g[i] = IF i <= Len(f) THEN f[i] ELSE <<r>>[i - Len(f)]
  BY <1>5, <1>6, <1>7, ConcatProperties
<1>9. Len(g) = 7 /\ \A i \in 1 .. 7 : g[i] = IF i <= 6 THEN f[i] ELSE <<r>>[i - 6]
  BY <1>5, <1>7, <1>8
<1>10. (\A i \in 1 .. 6 : g[i] = f[i]) /\ g[7] = r
  <2>1. 7 - 6 = 1 /\ 7 \in 1 .. 7 /\ ~(7 <= 6)
    BY SMT
  <2>2. g[7] = <<r>>[1]
    BY <1>9, <2>1
  <2>3. \A i \in 1 .. 6 : i \in 1 .. 7 /\ i <= 6
    BY SMT
  <2>4. QED
    BY <1>7, <1>9, <2>2, <2>3
<1>11. f \in [1 .. 6 -> Int] /\ g \in [1 .. 7 -> Int]
  BY <1>5, <1>8, <1>9, LenProperties
<1>12. QED
  BY <1>3, <1>6, <1>10, <1>11

\* Seconds and microseconds of two time stamps.
LEMMA StampParts ==
  ASSUME NEW x \in Nat, NEW n \in Nat, NEW K \in Nat, K > 0, x < n
  PROVE  /\ Quot(x, K) \in Int /\ Rem(x, K) \in Int /\ Quot(n, K) \in Int /\ Rem(n, K) \in Int
         /\ Quot(x, K) < Quot(n, K) \/ (Quot(x, K) = Quot(n, K) /\ Rem(x, K) < Rem(n, K))
PROOF
<1>1. /\ Quot(x, K) = x \div K /\ Rem(x, K) = x % K
      /\ Quot(n, K) = n \div K /\ Rem(n, K) = n % K
  BY SMT DEF Quot, Rem
<1>2. PICK p \in Int, r \in Int : p = x \div K /\ r = x % K /\ x = K * p + r /\ 0 <= r /\ r < K
  BY Quotients, SMT
<1>3. PICK q \in Int, s \in Int : q = n \div K /\ s = n % K /\ n = K * q + s /\ 0 <= s /\ s < K
  BY Quotients, SMT
<1>4. ~(q < p)
  <2>1. SUFFICES ASSUME q < p PROVE FALSE
    OBVIOUS
  <2>2. K * (p - q) >= K
    BY <2>1, SMT
  <2>3. K * p >= K * q + K
    BY <2>2, SMT
  <2>4. QED
    BY <1>2, <1>3, <2>3, SMT
<1>5. p = q => r < s
  BY <1>2, <1>3, SMT
<1>6. QED
  BY <1>1, <1>2, <1>3, <1>4, <1>5, SMT

\* Two time stamps and their texts.
LEMMA TextsOrdered ==
  ASSUME NEW x \in Nat, NEW n \in Nat, x <= n
  PROVE  /\ Earlier(toString(x), toString(n)) <=> n - x > 0
         /\ Earlier(toFormattedString(x, TRUE), toFormattedString(n, TRUE)) <=> n - x > 0
         /\ ~Earlier(toFormattedString(n, FALSE), toFormattedString(x, FALSE))
PROOF
<1>1. PICK K \in Nat : K = kMicroSecondsPerSecond /\ K > 0
  BY MicroAssumption
<1>2. \A z \in Nat : Quot(z, K) \in Int /\ Rem(z, K) \in Int
  BY <1>1, Quotients, SMT DEF Quot, Rem
<1>3. PICK p \in Int, r \in Int : p = Quot(x, K) /\ r = Rem(x, K)
  BY <1>2
<1>4. PICK q \in Int, s \in Int : q = Quot(n, K) /\ s = Rem(n, K)
  BY <1>2
<1>5. x < n => p < q \/ (p = q /\ r < s)
  BY <1>1, <1>3, <1>4, StampParts
<1>6. x = n => p = q /\ r = s
  BY <1>3, <1>4
<1>7. PICK A, B, F, G : A = <<p, r>> /\ B = <<q, s>> /\ F = Fields(p) /\ G = Fields(q)
  OBVIOUS
<1>8. PICK V, W : V = F \o <<r>> /\ W = G \o <<s>>
  OBVIOUS
<1>9. toString(x) = A /\ toString(n) = B
  BY <1>1, <1>3, <1>4, <1>7 DEF toString
<1>10. toFormattedString(x, TRUE) = V /\ toFormattedString(n, TRUE) = W
  BY <1>1, <1>3, <1>4, <1>7, <1>8 DEF toFormattedString, secondsSinceEpoch, Fields
<1>11. toFormattedString(x, FALSE) = F /\ toFormattedString(n, FALSE) = G
  BY <1>1, <1>3, <1>4, <1>7 DEF toFormattedString, secondsSinceEpoch, Fields
<1>12. /\ F \in [1 .. 6 -> Int] /\ G \in [1 .. 6 -> Int]
       /\ V \in [1 .. 7 -> Int] /\ W \in [1 .. 7 -> Int]
       /\ \A i \in 1 .. 6 : V[i] = F[i] /\ W[i] = G[i]
       /\ V[7] = r /\ W[7] = s
  BY <1>7, <1>8, FieldsSeq
<1>13. /\ A \in [1 .. 2 -> Int] /\ B \in [1 .. 2 -> Int]
       /\ A[1] = p /\ A[2] = r /\ B[1] = q /\ B[2] = s
  BY <1>7
<1>14. \A k \in Nat : \A a \in [1 .. k -> Int] : ~Earlier(a, a)
  BY EarlierOneWay
<1>15. CASE x < n
  <2>1. Earlier(A, B)
    <3>1. DOMAIN A = 1 .. 2
      BY <1>13
    <3>2. CASE p < q
      <4>1. A[1] < B[1] /\ 1 \in DOMAIN A /\ \A j \in 1 .. 1 - 1 : A[j] = B[j]
        BY <1>13, <3>1, <3>2
      <4>2. QED
        BY <4>1 DEF Earlier
    <3>3. CASE p = q /\ r < s
      <4>1. A[2] < B[2] /\ 2 \in DOMAIN A /\ \A j \in 1 .. 2 - 1 : A[j] = B[j]
        BY <1>13, <3>1, <3>3
      <4>2. QED
        BY <4>1 DEF Earlier
    <3>4. QED
      BY <1>5, <1>15, <3>2, <3>3
  <2>2. Earlier(V, W)
    <3>1. DOMAIN V = 1 .. 7
      BY <1>12
    <3>2. CASE p < q
      <4>1. EarlierInSix(F, G)
        BY <1>7, <3>2, FieldsOrdered
      <4>2. EarlierInSix(V, W)
        BY <1>12, <4>1, SMT DEF EarlierInSix
      <4>3. 1 .. 6 \subseteq DOMAIN V
        BY <3>1
      <4>4. QED
        BY <4>2, <4>3, EarlierBySix
    <3>3. CASE p = q /\ r < s
      <4>1. \A j \in 1 .. 7 - 1 : V[j] = W[j]
        BY <1>7, <1>12, <3>3
      <4>2. V[7] < W[7] /\ 7 \in DOMAIN V
        BY <1>12, <3>1, <3>3
      <4>3. QED
        BY <4>1, <4>2 DEF Earlier
    <3>4. QED
      BY <1>5, <1>15, <3>2, <3>3
  <2>3. ~Earlier(G, F)
    <3>1. CASE p < q
      <4>1. EarlierInSix(F, G)
        BY <1>7, <3>1, FieldsOrdered
      <4>2. 1 .. 6 \subseteq DOMAIN F
        BY <1>12
      <4>3. Earlier(F, G)
        BY <4>1, <4>2, EarlierBySix
      <4>4. QED
        BY <1>12, <4>3, EarlierOneWay
    <3>2. CASE p = q
      <4>1. G = F
        BY <1>7, <3>2
      <4>2. QED
        BY <1>12, <1>14, <4>1
    <3>3. QED
      BY <1>5, <1>15, <3>1, <3>2
  <2>4. n - x > 0
    BY <1>15, SMT
  <2>5. QED
    BY <1>9, <1>10, <1>11, <2>1, <2>2, <2>3, <2>4
<1>16. CASE x = n
  <2>1. A = B /\ F = G /\ V = W
    BY <1>6, <1>7, <1>8, <1>16
  <2>2. ~Earlier(A, B) /\ ~Earlier(V, W) /\ ~Earlier(G, F)
    BY <1>12, <1>13, <1>14, <2>1
  <2>3. ~(n - x > 0)
    BY <1>16, SMT
  <2>4. QED
    BY <1>9, <1>10, <1>11, <2>2, <2>3
<1>17. x < n \/ x = n
  BY SMT
<1>18. QED
  BY <1>15, <1>16, <1>17

\* The texts of time stamps are in the order of the time stamps.
LEMMA StampsAreInOrder == StampsInOrder
PROOF
<1>1. SUFFICES ASSUME NEW us \in Micros, NEW delta \in Micros,
                      now \in 0 .. MaxStamp \div kMicroSecondsPerSecond,
                      valid(fromUnixTime(now, us)),
                      NEW next \in addTime(fromUnixTime(now, us), delta)
               PROVE  /\ StringsInOrder(fromUnixTime(now, us), next)
                      /\ FormattedInOrder(fromUnixTime(now, us), next)
  BY Zenon DEF StampsInOrder
<1>2. now \in Nat /\ us \in Nat /\ delta \in Nat
  <2>1. MaxStamp \in Int
    BY MaxStampAssumption
  <2>2. MaxStamp \div kMicroSecondsPerSecond \in Int
    BY <2>1, MicroAssumption, SMT
  <2>3. now \in Nat
    BY <1>1, <2>2
  <2>4. QED
    BY <2>3, MicrosAssumption
<1>3. PICK x \in Nat : x = fromUnixTime(now, us)
  <2>1. fromUnixTime(now, us) \in Nat
    BY <1>2, MicroAssumption, SMT DEF fromUnixTime
  <2>2. QED
    BY <2>1
<1>4. PICK n \in Nat : n = next /\ x <= n /\ timeDifferenceUs(n, x) = n - x
  <2>1. next = x \/ next = x + delta \/ (delta > 0 /\ next = x + (delta - 1))
    BY <1>1, <1>2, <1>3 DEF addTime
  <2>2. next \in Nat /\ x <= next
    BY <1>2, <2>1, SMT
  <2>3. QED
    BY <2>2 DEF timeDifferenceUs
<1>5. Digits(toString(x)[1]) = Digits(toString(n)[1]) =>
        (StringEarlier(toString(x), toString(n)) <=> Earlier(toString(x), toString(n)))
  BY Zenon DEF StringEarlier
<1>6. /\ Earlier(toString(x), toString(n)) <=> timeDifferenceUs(n, x) > 0
      /\ Earlier(toFormattedString(x, TRUE), toFormattedString(n, TRUE)) <=> timeDifferenceUs(n, x) > 0
      /\ ~Earlier(toFormattedString(n, FALSE), toFormattedString(x, FALSE))
  BY <1>4, TextsOrdered
<1>7. StringsInOrder(x, n)
  BY <1>5, <1>6, Zenon DEF StringsInOrder
<1>8. FormattedInOrder(x, n)
  BY <1>6, Zenon DEF FormattedInOrder
<1>9. QED
  BY <1>3, <1>4, <1>7, <1>8

\* The calendar agrees with the C library's.
LEMMA UtcIsRight == now \in Int => UtcAgrees
PROOF
<1>1. now \in Int => -now \in Int
  BY SMT
<1>2. QED
  BY <1>1, UtcIsGmtime, UtcBack DEF UtcAgrees

-----------------------------------------------------------------------------
(* Local time. *)

\* What a zone file says of a stretch of time.
LocalType == [gmtOffset : Int, isDst : BOOLEAN]

\* A zone with n transitions.
ZoneOK(z, n) ==
  /\ n \in Nat /\ DOMAIN z.transitions = 1 .. n /\ Len(z.transitions) = n
  /\ z.transitions = <<>> <=> n = 0
  /\ z.localtimes \in Seq(LocalType)
  /\ \A i \in 1 .. n :
       /\ z.transitions[i].gmttime \in Int
       /\ z.transitions[i].localtimeIdx \in 1 .. Len(z.localtimes)
       /\ z.transitions[i].localtime
            = z.transitions[i].gmttime + z.localtimes[z.transitions[i].localtimeIdx].gmtOffset

\* The type that is in force after k transitions.
TypeAfter(z, k) ==
  IF k = 0 THEN z.localtimes[1] ELSE z.localtimes[z.transitions[k].localtimeIdx]

\* A zone without transitions.
LEMMA NoTransitions ==
  ASSUME NEW z, z.transitions = <<>>, z.localtimes \in Seq(LocalType)
  PROVE  ZoneOK(z, 0)
PROOF
  BY DEF ZoneOK

\* Every zone that is read from a file or has a fixed offset is one.
LEMMA ZonesAreOK == \A z \in Zones : \E n \in Nat : ZoneOK(z, n)
PROOF
<1>1. ASSUME NEW o \in Offsets PROVE ZoneOK(FixedZone(o), 0)
  <2>1. o \in Int
    BY ZonesAssumption
  <2>2. PICK z : z = FixedZone(o)
    OBVIOUS
  <2>3. PICK T \in LocalType : T = [gmtOffset |-> o, isDst |-> FALSE]
    BY <2>1 DEF LocalType
  <2>4. z.transitions = <<>> /\ z.localtimes = <<T>>
    BY <2>2, <2>3 DEF FixedZone
  <2>5. <<T>> \in Seq(LocalType)
    OBVIOUS
  <2>6. z.localtimes \in Seq(LocalType)
    BY <2>4, <2>5
  <2>7. ZoneOK(z, 0)
    BY <2>4, <2>6, NoTransitions
  <2>8. QED
    BY <2>2, <2>7
<1>2. ASSUME NEW f \in ZoneFiles PROVE \E n \in Nat : ZoneOK(readTimeZoneFile(f), n)
  <2>1. PICK have, types, trans, idx :
          have = f.have /\ types = f.types /\ trans = f.trans /\ idx = f.idx
    OBVIOUS
  <2>2. /\ have \in Int /\ types \in Seq(LocalType) /\ trans \in Seq(Int) /\ idx \in Seq(Nat)
        /\ Len(idx) = Len(trans) /\ \A i \in DOMAIN idx : idx[i] < Len(types)
    BY <2>1, ZonesAssumption DEF LocalType
  <2>3. PICK n \in Nat, m \in Nat : n = Len(trans) /\ m = Len(types)
    BY <2>2
  <2>4. PICK read \in Int : read = have - 2 * n
    BY <2>2, SMT
  <2>5. PICK z : z = readTimeZoneFile(f)
    OBVIOUS
  <2> DEFINE N == Max({0, Min({read, m})})
             tr == [i \in DOMAIN trans |->
                      [gmttime |-> trans[i],
                       localtime |-> trans[i] + types[idx[i] + 1].gmtOffset,
                       localtimeIdx |-> idx[i] + 1]]
  <2>6. /\ z.localtimes = SubSeq(types, 1, N)
        /\ z.transitions = IF read < m THEN <<>> ELSE tr
    BY <2>1, <2>3, <2>4, <2>5 DEF readTimeZoneFile
  <2>7. /\ read < m => N = (IF read < 0 THEN 0 ELSE read)
        /\ ~(read < m) => N = m
    <3>1. Min({read, m}) = IF read < m THEN read ELSE m
      BY SMT DEF Min
    <3>2. PICK lo \in Int : lo = IF read < m THEN read ELSE m
      BY SMT
    <3>3. Max({0, lo}) = IF lo < 0 THEN 0 ELSE lo
      BY SMT DEF Max
    <3>4. QED
      BY <3>1, <3>2, <3>3, SMT
  <2>8. N \in Nat /\ N <= m
    BY <2>7, SMT
  <2> HIDE DEF N
  <2>9. z.localtimes \in Seq(LocalType) /\ Len(z.localtimes) = N
    <3>1. \A i \in 1 .. N : types[i] \in LocalType
      BY <2>2, <2>3, <2>8
    <3>2. QED
      BY <2>2, <2>3, <2>6, <2>8, SubSeqProperties
  <2>10. CASE read < m
    <3>1. z.transitions = <<>>
      BY <2>6, <2>10
    <3>2. QED
      BY <2>5, <2>9, <3>1, NoTransitions
  <2>11. CASE ~(read < m)
    <3>1. z.transitions = tr /\ N = m
      BY <2>6, <2>7, <2>11
    <3>2. DOMAIN trans = 1 .. n /\ DOMAIN idx = 1 .. n
      BY <2>2, <2>3
    <3>3. \A i \in 1 .. n : /\ trans[i] \in Int /\ idx[i] \in Nat /\ idx[i] + 1 \in 1 .. m
      <4>1. \A i \in 1 .. n : trans[i] \in Int /\ idx[i] \in Nat
        BY <2>2, <3>2, <2>3, ElementOfSeq
      <4>2. \A i \in 1 .. n : idx[i] < m
        BY <2>2, <2>3, <3>2
      <4>3. \A i \in Nat : i < m => i + 1 \in 1 .. m
        BY SMT
      <4>4. QED
        BY <4>1, <4>2, <4>3
    <3>4. DOMAIN tr = 1 .. n
      BY <3>2
    <3>5. \A i \in 1 .. n :
            /\ tr[i].gmttime = trans[i] /\ tr[i].localtimeIdx = idx[i] + 1
            /\ tr[i].localtime = trans[i] + types[idx[i] + 1].gmtOffset
      BY <3>2
    <3>6. \A i \in 1 .. m : z.localtimes[i] = types[i]
      BY <2>2, <2>3, <2>6, <3>1, SubSeqProperties
    <3>7. tr \in Seq([gmttime : Int, localtime : Int, localtimeIdx : Int]) /\ Len(tr) = n
      <4>1. \A i \in 1 .. m : types[i] \in LocalType
        BY <2>2, <2>3
      <4>2. \A i \in 1 .. n : types[idx[i] + 1].gmtOffset \in Int
        BY <3>3, <4>1 DEF LocalType
      <4>3. \A i \in 1 .. n : tr[i] \in [gmttime : Int, localtime : Int, localtimeIdx : Int]
        BY <3>2, <3>3, <4>2
      <4>4. tr \in [1 .. n -> [gmttime : Int, localtime : Int, localtimeIdx : Int]]
        BY <3>2, <4>3
      <4>5. \A S : \A g \in [1 .. n -> S] : g \in Seq(S) /\ Len(g) = n
        OBVIOUS
      <4>6. QED
        BY <4>4, <4>5
    <3>8. tr = <<>> <=> n = 0
      BY <3>7
    <3> HIDE DEF tr
    <3>9. \A i \in 1 .. n :
            /\ tr[i].gmttime \in Int /\ tr[i].localtimeIdx \in 1 .. Len(z.localtimes)
            /\ tr[i].localtime = tr[i].gmttime + z.localtimes[tr[i].localtimeIdx].gmtOffset
      <4>1. SUFFICES ASSUME NEW i \in 1 .. n
                     PROVE  /\ tr[i].gmttime \in Int
                            /\ tr[i].localtimeIdx \in 1 .. Len(z.localtimes)
                            /\ tr[i].localtime
                                 = tr[i].gmttime + z.localtimes[tr[i].localtimeIdx].gmtOffset
        OBVIOUS
      <4>2. PICK a : a = tr[i].localtimeIdx
        OBVIOUS
      <4>3. a = idx[i] + 1 /\ a \in 1 .. m /\ trans[i] \in Int
        BY <3>3, <3>5, <4>2
      <4>4. tr[i].gmttime = trans[i] /\ tr[i].localtime = trans[i] + types[a].gmtOffset
        BY <3>5, <4>3
      <4>5. z.localtimes[a] = types[a] /\ Len(z.localtimes) = m
        BY <2>9, <3>1, <3>6, <4>3
      <4>6. QED
        BY <4>2, <4>3, <4>4, <4>5, Zenon
    <3>10. ZoneOK(z, n)
      BY <2>9, <3>1, <3>4, <3>7, <3>8, <3>9 DEF ZoneOK
    <3>11. QED
      BY <2>5, <3>10
  <2>12. QED
    BY <2>10, <2>11
<1>3. QED
  BY <1>1, <1>2 DEF Zones

\* The least element.
LEMMA MinIs ==
  ASSUME NEW S, S \subseteq Int, NEW m \in S, \A i \in S : m <= i
  PROVE  Min(S) = m
PROOF
<1>1. Min(S) \in S /\ \A i \in S : Min(S) <= i
  BY DEF Min
<1>2. Min(S) <= m /\ m <= Min(S) /\ Min(S) \in Int /\ m \in Int
  BY <1>1
<1>3. PICK a \in Int : a = Min(S)
  BY <1>2
<1>4. a = m
  BY <1>2, <1>3, SMT
<1>5. QED
  BY <1>3, <1>4

\* The times of n transitions in ascending order, and the last one not after t.
KeysAre(key, z, n, gmt) == \A i \in 1 .. n : key[i] = TimeOf(z.transitions[i], gmt)
Ascend(key, n) == /\ \A i \in 1 .. n : key[i] \in Int
                  /\ \A i, j \in 1 .. n : i < j => key[i] < key[j]
LastNotAfter(key, n, t, k) == /\ k \in 0 .. n
                              /\ k >= 1 => key[k] <= t
                              /\ k < n => t < key[k + 1]

\* There is one, or t is before all of them.
LEMMA LastExists ==
  ASSUME NEW n \in Nat, NEW key, Ascend(key, n), NEW t \in Int
  PROVE  \E k \in 0 .. n : LastNotAfter(key, n, t, k)
PROOF
<1> DEFINE T == {i \in 1 .. n + 1 : i = n + 1 \/ t < key[i]}
<1>1. T \subseteq Nat /\ n + 1 \in T
  BY SMT
<1>2. PICK m \in T : \A i \in T : m <= i
  BY <1>1, LeastOf
<1>3. m \in 1 .. n + 1 /\ (m = n + 1 \/ t < key[m])
  BY <1>2
<1>4. PICK k \in Int : k = m - 1
  BY <1>3, SMT
<1>5. k \in 0 .. n /\ m = k + 1
  BY <1>3, <1>4, SMT
<1>6. k < n => t < key[k + 1]
  BY <1>3, <1>5, SMT
<1>7. k >= 1 => key[k] <= t
  <2>1. SUFFICES ASSUME k >= 1 PROVE key[k] <= t
    OBVIOUS
  <2>2. k \in 1 .. n /\ k \in 1 .. n + 1 /\ ~(m <= k) /\ k # n + 1
    BY <1>5, <2>1, SMT
  <2>3. ~(t < key[k])
    BY <1>2, <2>2
  <2>4. key[k] \in Int
    BY <2>2 DEF Ascend
  <2>5. QED
    BY <2>3, <2>4, SMT
<1>8. QED
  BY <1>5, <1>6, <1>7 DEF LastNotAfter

\* findLocaltime finds the type that is in force after it.
LEMMA FindsType ==
  ASSUME NEW z, NEW n, ZoneOK(z, n), z.localtimes # <<>>, NEW gmt \in BOOLEAN, NEW key,
         KeysAre(key, z, n, gmt), Ascend(key, n), NEW t \in Int, NEW k, LastNotAfter(key, n, t, k)
  PROVE  findLocaltime(z, t, gmt) = TypeAfter(z, k)
PROOF
<1>1. PICK tr : tr = z.transitions
  OBVIOUS
<1>2. /\ n \in Nat /\ DOMAIN tr = 1 .. n /\ Len(tr) = n /\ (tr = <<>> <=> n = 0)
  BY <1>1 DEF ZoneOK
<1> DEFINE NB == {i \in 1 .. n : key[i] >= t}
<1>3. NB = {i \in DOMAIN tr : TimeOf(tr[i], gmt) >= t}
  BY <1>1, <1>2 DEF KeysAre
<1>4. n # 0 => key[1] = TimeOf(tr[1], gmt)
  BY <1>1, <1>2 DEF KeysAre
<1>5. findLocaltime(z, t, gmt) =
        IF tr = <<>> \/ t < TimeOf(tr[1], gmt) THEN z.localtimes[1]
        ELSE IF NB = {} THEN z.localtimes[tr[n].localtimeIdx]
        ELSE z.localtimes[tr[IF TimeOf(tr[Min(NB)], gmt) = t THEN Min(NB) ELSE Min(NB) - 1].localtimeIdx]
  BY <1>1, <1>2, <1>3 DEF findLocaltime
<1>6. k \in Int /\ 0 <= k /\ k <= n /\ (k >= 1 => key[k] <= t) /\ (k < n => t < key[k + 1])
  BY <1>2 DEF LastNotAfter
<1>7. CASE k = 0
  <2>1. TypeAfter(z, k) = z.localtimes[1]
    BY <1>7 DEF TypeAfter
  <2>2. n = 0 \/ t < key[1]
    BY <1>2, <1>6, <1>7, SMT
  <2>3. tr = <<>> \/ t < TimeOf(tr[1], gmt)
    BY <1>2, <1>4, <2>2
  <2>4. QED
    BY <1>5, <2>1, <2>3
<1>8. CASE k # 0
  <2>1. k \in 1 .. n /\ n # 0 /\ key[k] <= t
    BY <1>2, <1>6, <1>8, SMT
  <2>2. TypeAfter(z, k) = z.localtimes[tr[k].localtimeIdx]
    BY <1>1, <1>8 DEF TypeAfter
  <2>3. \A i \in 1 .. n : key[i] \in Int
    BY DEF Ascend
  <2>4. \A i \in 1 .. n : i < k => key[i] < t
    BY <2>1, <2>3 DEF Ascend
  <2>5. ~(tr = <<>> \/ t < TimeOf(tr[1], gmt))
    <3>1. 1 \in 1 .. n /\ (1 < k \/ k = 1)
      BY <1>2, <2>1, SMT
    <3>2. key[1] <= t /\ key[1] \in Int
      BY <2>1, <2>3, <2>4, <3>1, SMT
    <3>3. ~(t < key[1])
      BY <3>2, SMT
    <3>4. QED
      BY <1>2, <1>4, <2>1, <3>3
  <2>6. CASE key[k] = t
    <3>1. k \in NB /\ \A i \in NB : k <= i
      BY <2>1, <2>3, <2>4, <2>6, SMT
    <3>2. NB \subseteq Int
      BY <1>2
    <3>3. Min(NB) = k /\ NB # {}
      BY <3>1, <3>2, MinIs
    <3>4. TimeOf(tr[k], gmt) = t
      BY <1>1, <2>1, <2>6 DEF KeysAre
    <3>5. QED
      BY <1>5, <2>2, <2>5, <3>3, <3>4
  <2>7. CASE key[k] # t
    <3>1. \A i \in NB : k < i
      BY <2>1, <2>3, <2>4, <2>7, SMT
    <3>2. CASE k = n
      <4>1. NB = {}
        BY <1>6, <3>1, <3>2, SMT
      <4>2. QED
        BY <1>5, <2>2, <2>5, <3>2, <4>1
    <3>3. CASE k # n
      <4>1. k + 1 \in 1 .. n /\ t < key[k + 1] /\ k + 1 \in Int
        BY <1>2, <1>6, <2>1, <3>3, SMT
      <4>2. k + 1 \in NB /\ \A i \in NB : k + 1 <= i
        BY <1>6, <2>3, <3>1, <4>1, SMT
      <4>3. NB \subseteq Int
        BY <1>2
      <4>4. Min(NB) = k + 1 /\ NB # {}
        BY <4>2, <4>3, MinIs
      <4>5. TimeOf(tr[k + 1], gmt) # t /\ (k + 1) - 1 = k
        BY <1>1, <1>6, <2>3, <4>1, SMT DEF KeysAre
      <4>6. QED
        BY <1>5, <2>2, <2>5, <4>4, <4>5
    <3>4. QED
      BY <3>2, <3>3
  <2>8. QED
    BY <2>6, <2>7
<1>9. QED
  BY <1>7, <1>8

\* Types are records of two fields, and so not the address of none.
LEMMA TypesAfter ==
  ASSUME NEW z, NEW n, ZoneOK(z, n), z.localtimes # <<>>, NEW k \in 0 .. n
  PROVE  /\ TypeAfter(z, k) \in LocalType /\ TypeAfter(z, k) # Null
         /\ TypeAfter(z, k).gmtOffset \in Int /\ TypeAfter(z, k).isDst \in BOOLEAN
PROOF
<1>1. n \in Nat /\ z.localtimes \in Seq(LocalType)
  BY DEF ZoneOK
<1>2. PICK types : types = z.localtimes
  OBVIOUS
<1>3. Len(types) \in Nat /\ Len(types) # 0
  BY <1>1, <1>2
<1>4. \A i \in 1 .. Len(types) : types[i] \in LocalType
  BY <1>1, <1>2, ElementOfSeq
<1>5. TypeAfter(z, k) \in LocalType
  <2>1. CASE k = 0
    <3>1. 1 \in 1 .. Len(types)
      BY <1>3
    <3>2. QED
      BY <1>2, <1>4, <2>1, <3>1 DEF TypeAfter
  <2>2. CASE k # 0
    <3>1. k \in 1 .. n
      BY <1>1, <2>2
    <3>2. z.transitions[k].localtimeIdx \in 1 .. Len(types)
      BY <1>2, <3>1 DEF ZoneOK
    <3>3. QED
      BY <1>2, <1>4, <2>2, <3>2 DEF TypeAfter
  <2>3. QED
    BY <2>1, <2>2
<1>6. \A type \in LocalType : type # Null
  <2>1. \A type \in LocalType : DOMAIN type = {"gmtOffset", "isDst"}
    BY DEF LocalType
  <2>2. DOMAIN Null = {"gmtOffset", "isDst", "null"}
    BY DEF Null
  <2>3. "null" \notin {"gmtOffset", "isDst"}
    OBVIOUS
  <2>4. QED
    BY <2>1, <2>2, <2>3
<1>7. QED
  BY <1>5, <1>6 DEF LocalType

\* toLocalTime reckons with it.
LEMMA LocalTimeIs ==
  ASSUME NEW z, NEW n, ZoneOK(z, n), z.localtimes # <<>>, NEW g,
         \A i \in 1 .. n : g[i] = z.transitions[i].gmttime,
         Ascend(g, n), NEW t \in Int, NEW k, LastNotAfter(g, n, t, k)
  PROVE  toLocalTime(z, t) = [tm |-> gmtime_r(t + TypeAfter(z, k).gmtOffset),
                              isDst |-> TypeAfter(z, k).isDst]
PROOF
<1>1. PICK gmt \in BOOLEAN : gmt = TRUE
  OBVIOUS
<1>2. findLocaltime(z, t, gmt) = TypeAfter(z, k)
  <2>1. KeysAre(g, z, n, gmt)
    BY <1>1 DEF TimeOf, KeysAre
  <2>2. QED
    BY <2>1, FindsType
<1>3. k \in 0 .. n
  BY DEF LastNotAfter
<1>4. TypeAfter(z, k) # Null
  BY <1>3, TypesAfter
<1>5. QED
  BY <1>1, <1>2, <1>4 DEF toLocalTime

\* An hour less, or not.
LEMMA HourLess ==
  ASSUME NEW h \in BOOLEAN, NEW secs \in Int, NEW off \in Int
  PROVE  /\ h => (IF h THEN secs - 3600 ELSE secs) - off = secs - 3600 - off
         /\ ~h => (IF h THEN secs - 3600 ELSE secs) - off = secs - off
PROOF
  BY SMT

\* A zone whose transitions are an hour of summer time: times g, local times L,
\* offsets o and summer time dst.
HourZone(z, n, g, L, o, dst) ==
  /\ g = [i \in 1 .. n |-> z.transitions[i].gmttime]
  /\ L = [i \in 1 .. n |-> z.transitions[i].localtime]
  /\ o = [i \in 0 .. n |-> TypeAfter(z, i).gmtOffset]
  /\ dst = [i \in 0 .. n |-> TypeAfter(z, i).isDst]

\* Their local times ascend, for there are two offsets only.
LEMMA HourZoneAscends ==
  ASSUME NEW z, NEW n, ZoneOK(z, n), z.localtimes # <<>>, OneHour(z),
         NEW g, NEW L, NEW o, NEW dst, HourZone(z, n, g, L, o, dst)
  PROVE  /\ Ascend(g, n) /\ Ascend(L, n)
         /\ \A i \in 0 .. n : o[i] \in Int /\ dst[i] \in BOOLEAN
         /\ \A i \in 1 .. n : L[i] = g[i] + o[i]
         /\ \A i, j \in 1 .. n : i < j => g[j] - g[i] > 3600
         /\ \A i, j \in 0 .. n : o[i] = o[j] + (IF dst[i] THEN 3600 ELSE 0)
                                             - (IF dst[j] THEN 3600 ELSE 0)
         /\ \A i \in 1 .. n : dst[i] # dst[i - 1]
PROOF
<1>1. n \in Nat /\ DOMAIN z.transitions = 1 .. n
  BY DEF ZoneOK
<1>2. \A i \in 0 .. n : o[i] \in Int /\ dst[i] \in BOOLEAN
  BY TypesAfter DEF HourZone
<1>3. \A i \in 1 .. n : g[i] \in Int
  BY DEF HourZone, ZoneOK
<1>4. \A i \in 1 .. n : L[i] = g[i] + o[i]
  <2>1. SUFFICES ASSUME NEW i \in 1 .. n PROVE L[i] = g[i] + o[i]
    OBVIOUS
  <2>2. i \in 0 .. n /\ i # 0
    BY <1>1
  <2>3. o[i] = z.localtimes[z.transitions[i].localtimeIdx].gmtOffset
    BY <2>2 DEF HourZone, TypeAfter
  <2>4. g[i] = z.transitions[i].gmttime /\ L[i] = z.transitions[i].localtime
    BY DEF HourZone
  <2>5. QED
    BY <2>3, <2>4 DEF ZoneOK
<1>5. \A i, j \in 1 .. n : i < j => g[j] - g[i] > 3600
  <2>1. \A i, j \in 1 .. n :
          i < j => z.transitions[j].gmttime - z.transitions[i].gmttime > 3600
    BY <1>1 DEF OneHour
  <2>2. \A i \in 1 .. n : g[i] = z.transitions[i].gmttime
    BY DEF HourZone
  <2>3. QED
    BY <2>1, <2>2
<1>6. \A i \in 1 .. n : /\ dst[i] # dst[i - 1]
                       /\ (IF dst[i] THEN o[i] - o[i - 1] ELSE o[i - 1] - o[i]) = 3600
  <2>1. SUFFICES ASSUME NEW i \in 1 .. n
                 PROVE  /\ dst[i] # dst[i - 1]
                        /\ (IF dst[i] THEN o[i] - o[i - 1] ELSE o[i - 1] - o[i]) = 3600
    OBVIOUS
  <2>2. i \in 0 .. n /\ i # 0 /\ i - 1 \in 0 .. n /\ (i - 1 = 0 <=> i = 1) /\ i \in DOMAIN z.transitions
    BY <1>1, SMT
  <2>3. PICK type, before : /\ type = z.localtimes[z.transitions[i].localtimeIdx]
                            /\ before = IF i = 1 THEN z.localtimes[1]
                                        ELSE z.localtimes[z.transitions[i - 1].localtimeIdx]
    OBVIOUS
  <2>4. /\ type.isDst # before.isDst
        /\ (IF type.isDst THEN type.gmtOffset - before.gmtOffset
                          ELSE before.gmtOffset - type.gmtOffset) = 3600
    BY <2>2, <2>3 DEF OneHour
  <2>5. type = TypeAfter(z, i) /\ before = TypeAfter(z, i - 1)
    BY <2>2, <2>3 DEF TypeAfter
  <2>6. /\ o[i] = type.gmtOffset /\ dst[i] = type.isDst
        /\ o[i - 1] = before.gmtOffset /\ dst[i - 1] = before.isDst
    BY <2>2, <2>5 DEF HourZone
  <2>7. QED
    BY <2>4, <2>6
<1>7. PICK S \in Int : S = o[0] - (IF dst[0] THEN 3600 ELSE 0)
  <2>1. o[0] \in Int
    BY <1>1, <1>2
  <2>2. QED
    BY <2>1, SMT
<1>8. \A i \in 0 .. n : o[i] = S + (IF dst[i] THEN 3600 ELSE 0)
  <2> DEFINE T == {i \in 0 .. n : o[i] # S + (IF dst[i] THEN 3600 ELSE 0)}
  <2>1. SUFFICES ASSUME T # {} PROVE FALSE
    OBVIOUS
  <2>2. T \subseteq Nat
    BY <1>1
  <2>3. PICK i \in T : \A j \in T : i <= j
    BY <2>1, <2>2, LeastOf
  <2>4. i \in 0 .. n /\ o[i] # S + (IF dst[i] THEN 3600 ELSE 0)
    BY <2>3
  <2>5. o[0] \in Int /\ 0 \in 0 .. n
    BY <1>1, <1>2
  <2>6. i # 0
    BY <1>7, <2>4, <2>5, SMT
  <2>7. i \in 1 .. n /\ i - 1 \in 0 .. n /\ ~(i <= i - 1)
    BY <1>1, <2>4, <2>6, SMT
  <2>8. o[i - 1] = S + (IF dst[i - 1] THEN 3600 ELSE 0)
    BY <2>3, <2>7
  <2>9. PICK a \in Int, b \in Int, p \in BOOLEAN, q \in BOOLEAN :
          a = o[i] /\ b = o[i - 1] /\ p = dst[i] /\ q = dst[i - 1]
    BY <1>2, <2>4, <2>7
  <2>10. p # q /\ (IF p THEN a - b ELSE b - a) = 3600
    BY <1>6, <2>7, <2>9
  <2>11. a # S + (IF p THEN 3600 ELSE 0) /\ b = S + (IF q THEN 3600 ELSE 0)
    BY <2>4, <2>8, <2>9
  <2>12. CASE p
    <3>1. ~q
      BY <2>10, <2>12
    <3>2. a - b = 3600 /\ a # S + 3600 /\ b = S + 0
      BY <2>10, <2>11, <2>12, <3>1
    <3>3. QED
      BY <3>2, SMT
  <2>13. CASE ~p
    <3>1. q
      BY <2>10, <2>13
    <3>2. b - a = 3600 /\ a # S + 0 /\ b = S + 3600
      BY <2>10, <2>11, <2>13, <3>1
    <3>3. QED
      BY <3>2, SMT
  <2>14. QED
    BY <2>12, <2>13
<1>9. \A i, j \in 0 .. n : o[i] = o[j] + (IF dst[i] THEN 3600 ELSE 0)
                                      - (IF dst[j] THEN 3600 ELSE 0)
  BY <1>2, <1>8, SMT
<1>10. Ascend(g, n)
  BY <1>3, <1>5, SMT DEF Ascend
<1>11. Ascend(L, n)
  <2>1. \A i \in 1 .. n : i \in 0 .. n
    BY <1>1
  <2>2. \A i \in 1 .. n : L[i] \in Int
    BY <1>2, <1>3, <1>4, <2>1
  <2>3. ASSUME NEW i \in 1 .. n, NEW j \in 1 .. n, i < j PROVE L[i] < L[j]
    <3>1. PICK a \in Int, b \in Int, c \in Int, d \in Int : a = g[i] /\ b = g[j] /\ c = o[i] /\ d = o[j]
      BY <1>2, <1>3, <2>1
    <3>2. b - a > 3600 /\ L[i] = a + c /\ L[j] = b + d
      BY <1>4, <1>5, <2>3, <3>1
    <3>3. d >= c - 3600
      BY <1>8, <2>1, <3>1, SMT
    <3>4. QED
      BY <3>2, <3>3, SMT
  <2>4. QED
    BY <2>2, <2>3 DEF Ascend
<1>12. QED
  BY <1>2, <1>4, <1>5, <1>6, <1>9, <1>10, <1>11

\* The intermediate values of fromLocalTime, and its result.
BackParts(z, loc, secs, type, try, hack, back) ==
  /\ secs \in Int /\ secs = timegm(loc.tm)
  /\ type = findLocaltime(z, secs, FALSE)
  /\ try = toLocalTime(z, secs - type.gmtOffset)
  /\ hack = (/\ loc.isDst /\ ~try.isDst
             /\ try.tm.hour = loc.tm.hour /\ try.tm.min = loc.tm.min)
  /\ back = (IF hack THEN secs - 3600 ELSE secs) - type.gmtOffset

\* What fromLocalTime computes from them.
LEMMA LocalTimeBack ==
  ASSUME NEW z, NEW loc, NEW secs, NEW type, NEW try, NEW hack, NEW back,
         BackParts(z, loc, secs, type, try, hack, back)
  PROVE  fromLocalTime(z, loc) = back
PROOF
  BY SMT DEF fromLocalTime, BackParts

\* Local time and back, the hour that comes twice included.
LEMMA LocalRoundTrips ==
  ASSUME NEW z, NEW n, ZoneOK(z, n), z.localtimes # <<>>, OneHour(z), NEW t \in Int
  PROVE  fromLocalTime(z, toLocalTime(z, t)) = t
PROOF
<1>1. PICK g, L, o, dst : HourZone(z, n, g, L, o, dst)
  BY DEF HourZone
<1>2. Ascend(g, n) /\ Ascend(L, n)
  BY <1>1, HourZoneAscends
<1>3. \A i \in 0 .. n : o[i] \in Int /\ dst[i] \in BOOLEAN
  BY <1>1, HourZoneAscends
<1>4. n \in Nat /\ \A i \in 1 .. n : g[i] \in Int
  BY <1>2 DEF ZoneOK, Ascend
<1>5. \A i \in 1 .. n : L[i] = g[i] + o[i] /\ dst[i] # dst[i - 1]
  BY <1>1, HourZoneAscends
<1>6. \A i, j \in 1 .. n : i < j => g[j] - g[i] > 3600
  BY <1>1, HourZoneAscends
<1>7. \A i, j \in 0 .. n : o[i] = o[j] + (IF dst[i] THEN 3600 ELSE 0)
                                       - (IF dst[j] THEN 3600 ELSE 0)
  BY <1>1, HourZoneAscends
<1>8. \A i \in 1 .. n : g[i] = z.transitions[i].gmttime /\ L[i] = z.transitions[i].localtime
  BY <1>1 DEF HourZone
<1>9. \A i \in 0 .. n : o[i] = TypeAfter(z, i).gmtOffset /\ dst[i] = TypeAfter(z, i).isDst
  BY <1>1 DEF HourZone
<1>10. PICK k \in 0 .. n : LastNotAfter(g, n, t, k)
  BY <1>2, <1>4, LastExists
<1>11. k \in Int /\ 0 <= k /\ k <= n /\ (k >= 1 => g[k] <= t) /\ (k < n => t < g[k + 1])
  BY <1>4, <1>10 DEF LastNotAfter
<1>12. PICK secs \in Int, ok \in Int, dk \in BOOLEAN : ok = o[k] /\ dk = dst[k] /\ secs = t + ok
  <2>1. o[k] \in Int /\ dst[k] \in BOOLEAN
    BY <1>3
  <2>2. t + o[k] \in Int
    BY <2>1
  <2>3. QED
    BY <2>1, <2>2
<1>13. PICK loc : loc = toLocalTime(z, t)
  OBVIOUS
<1>14. ASSUME NEW u \in Int, NEW i \in 0 .. n, LastNotAfter(g, n, u, i)
       PROVE  toLocalTime(z, u) = [tm |-> gmtime_r(u + o[i]), isDst |-> dst[i]]
  <2>1. \A a \in 1 .. n : g[a] = z.transitions[a].gmttime
    BY <1>8
  <2>2. toLocalTime(z, u) = [tm |-> gmtime_r(u + TypeAfter(z, i).gmtOffset),
                             isDst |-> TypeAfter(z, i).isDst]
    BY <1>2, <1>14, <2>1, LocalTimeIs
  <2>3. QED
    BY <1>9, <2>2
<1>15. loc.tm = gmtime_r(secs) /\ loc.isDst = dk
  BY <1>10, <1>12, <1>13, <1>14
<1>16. secs = timegm(loc.tm)
  BY <1>15, TimegmBack
<1>17. PICK type : type = findLocaltime(z, secs, FALSE)
  OBVIOUS
<1>18. \A i \in 0 .. n : LastNotAfter(L, n, secs, i) => type = TypeAfter(z, i)
  <2>1. PICK gmt \in BOOLEAN : gmt = FALSE
    OBVIOUS
  <2>2. KeysAre(L, z, n, gmt)
    BY <1>8, <2>1 DEF KeysAre, TimeOf
  <2>3. SUFFICES ASSUME NEW i \in 0 .. n, LastNotAfter(L, n, secs, i) PROVE type = TypeAfter(z, i)
    OBVIOUS
  <2>4. findLocaltime(z, secs, gmt) = TypeAfter(z, i)
    BY <1>2, <2>2, <2>3, FindsType
  <2>5. QED
    BY <1>17, <2>1, <2>4
<1>19. PICK try : try = toLocalTime(z, secs - type.gmtOffset)
  OBVIOUS
<1>20. PICK hack \in BOOLEAN : hack = (/\ loc.isDst /\ ~try.isDst
                                      /\ try.tm.hour = loc.tm.hour /\ try.tm.min = loc.tm.min)
  OBVIOUS
<1>21. fromLocalTime(z, loc) = (IF hack THEN secs - 3600 ELSE secs) - type.gmtOffset
  <2>1. PICK back : back = (IF hack THEN secs - 3600 ELSE secs) - type.gmtOffset
    OBVIOUS
  <2>2. BackParts(z, loc, secs, type, try, hack, back)
    BY <1>12, <1>16, <1>17, <1>19, <1>20, <2>1, Zenon DEF BackParts
  <2>3. fromLocalTime(z, loc) = back
    BY <2>2, LocalTimeBack, Zenon
  <2>4. QED
    BY <2>1, <2>3
<1>22. k >= 1 => L[k] <= secs
  <2>1. SUFFICES ASSUME k >= 1 PROVE L[k] <= secs
    OBVIOUS
  <2>2. k \in 1 .. n
    BY <1>4, <1>11, <2>1
  <2>3. L[k] = g[k] + o[k] /\ g[k] \in Int
    BY <1>4, <1>5, <2>2
  <2>4. g[k] <= t
    BY <1>11, <2>1
  <2>5. QED
    BY <1>12, <2>3, <2>4, SMT
<1>23. CASE k < n => secs < L[k + 1]
  <2>1. LastNotAfter(L, n, secs, k)
    BY <1>22, <1>23 DEF LastNotAfter
  <2>2. type.gmtOffset = ok
    BY <1>9, <1>12, <1>18, <2>1
  <2>3. secs - type.gmtOffset = t
    BY <1>12, <2>2, SMT
  <2>4. try = loc
    BY <1>13, <1>19, <2>3
  <2>5. ~hack
    BY <1>20, <2>4
  <2>6. fromLocalTime(z, loc) = secs - ok
    BY <1>21, <2>2, <2>5, HourLess
  <2>7. secs - ok = t
    BY <1>12, SMT
  <2>8. QED
    BY <1>13, <2>6, <2>7
<1>24. CASE ~(k < n => secs < L[k + 1])
  <2>1. k < n /\ ~(secs < L[k + 1])
    BY <1>24
  <2>2. PICK m \in Int : m = k + 1
    BY <1>11, SMT
  <2>3. m \in 1 .. n /\ m \in 0 .. n /\ m - 1 = k
    BY <1>4, <1>11, <2>1, <2>2, SMT
  <2>4. PICK g1 \in Int, o1 \in Int, d1 \in BOOLEAN : g1 = g[m] /\ o1 = o[m] /\ d1 = dst[m]
    <3>1. g[m] \in Int /\ o[m] \in Int /\ dst[m] \in BOOLEAN
      BY <1>3, <1>4, <2>3
    <3>2. QED
      BY <3>1
  <2>5. L[m] = g1 + o1 /\ t < g1 /\ d1 # dk
    <3>1. L[m] = g[m] + o[m] /\ dst[m] # dst[m - 1]
      BY <1>5, <2>3
    <3>2. t < g[m]
      BY <1>11, <2>1, <2>2
    <3>3. QED
      BY <1>12, <2>3, <2>4, <3>1, <3>2
  <2>6. g1 + o1 <= secs
    <3>1. ~(secs < g1 + o1)
      BY <2>1, <2>2, <2>5
    <3>2. QED
      BY <3>1, SMT
  <2>7. o1 = ok + (IF d1 THEN 3600 ELSE 0) - (IF dk THEN 3600 ELSE 0)
    <3>1. m \in 0 .. n
      BY <2>3
    <3>2. \A j \in 0 .. n : o[m] = o[j] + (IF dst[m] THEN 3600 ELSE 0)
                                        - (IF dst[j] THEN 3600 ELSE 0)
      BY <1>7, <3>1
    <3>3. o[m] = o[k] + (IF dst[m] THEN 3600 ELSE 0) - (IF dst[k] THEN 3600 ELSE 0)
      BY <3>2
    <3>4. QED
      BY <1>12, <2>4, <3>3
  <2>8. dk /\ ~d1 /\ o1 = ok - 3600
    <3>1. CASE dk
      <4>1. ~d1
        BY <2>5, <3>1
      <4>2. o1 = ok + 0 - 3600
        BY <2>7, <3>1, <4>1
      <4>3. o1 = ok - 3600
        BY <4>2, SMT
      <4>4. QED
        BY <3>1, <4>1, <4>3
    <3>2. CASE ~dk
      <4>1. d1
        BY <2>5, <3>2
      <4>2. o1 = ok + 3600 - 0
        BY <2>7, <3>2, <4>1
      <4>3. QED
        BY <1>12, <2>5, <2>6, <4>2, SMT
    <3>3. QED
      BY <3>1, <3>2
  <2>9. PICK later \in Int : later = t + 3600
    BY SMT
  <2>10. L[m] <= secs /\ g[m] <= later
    <3>1. g1 <= later
      BY <1>12, <2>6, <2>8, <2>9, SMT
    <3>2. QED
      BY <2>4, <2>5, <2>6, <3>1
  <2>11. ASSUME m < n PROVE secs < L[m + 1] /\ later < g[m + 1]
    <3>1. PICK p \in Int : p = m + 1
      BY SMT
    <3>2. p \in 1 .. n /\ p \in 0 .. n /\ p - 1 = m /\ m < p
      BY <1>4, <2>3, <2>11, <3>1, SMT
    <3>3. PICK g2 \in Int, o2 \in Int, d2 \in BOOLEAN : g2 = g[p] /\ o2 = o[p] /\ d2 = dst[p]
      <4>1. g[p] \in Int /\ o[p] \in Int /\ dst[p] \in BOOLEAN
        BY <1>3, <1>4, <3>2
      <4>2. QED
        BY <4>1
    <3>4. L[p] = g2 + o2 /\ d2 # d1
      <4>1. L[p] = g[p] + o[p] /\ dst[p] # dst[p - 1]
        BY <1>5, <3>2
      <4>2. QED
        BY <2>4, <3>2, <3>3, <4>1
    <3>5. g2 - g1 > 3600
      BY <1>6, <2>3, <2>4, <3>2, <3>3
    <3>6. d2
      BY <2>8, <3>4
    <3>7. o2 = o1 + (IF d2 THEN 3600 ELSE 0) - (IF d1 THEN 3600 ELSE 0)
      <4>1. m \in 0 .. n /\ p \in 0 .. n
        BY <2>3, <3>2
      <4>2. \A j \in 0 .. n : o[p] = o[j] + (IF dst[p] THEN 3600 ELSE 0)
                                          - (IF dst[j] THEN 3600 ELSE 0)
        BY <1>7, <4>1
      <4>3. o[p] = o[m] + (IF dst[p] THEN 3600 ELSE 0) - (IF dst[m] THEN 3600 ELSE 0)
        BY <4>1, <4>2
      <4>4. QED
        BY <2>4, <3>3, <4>3
    <3>8. o2 = o1 + 3600 - 0
      BY <2>8, <3>6, <3>7
    <3>9. secs < g2 + o2
      <4>1. t < g1 /\ o1 = ok - 3600
        BY <2>5, <2>8
      <4>2. QED
        BY <1>12, <3>5, <3>8, <4>1, SMT
    <3>10. later < g2
      <4>1. t < g1
        BY <2>5
      <4>2. QED
        BY <2>9, <3>5, <4>1, SMT
    <3>11. QED
      BY <3>1, <3>3, <3>4, <3>9, <3>10
  <2>12. LastNotAfter(L, n, secs, m) /\ LastNotAfter(g, n, later, m)
    BY <2>3, <2>10, <2>11 DEF LastNotAfter
  <2>13. type.gmtOffset = o1
    BY <1>9, <1>18, <2>3, <2>4, <2>12
  <2>14. secs - type.gmtOffset = later
    BY <1>12, <2>8, <2>9, <2>13, SMT
  <2>15. try = [tm |-> gmtime_r(later + o1), isDst |-> d1]
    BY <1>14, <1>19, <2>3, <2>4, <2>12, <2>14
  <2>16. later + o1 = secs
    BY <1>12, <2>8, <2>9, SMT
  <2>17. try.tm = loc.tm /\ try.isDst = d1
    BY <1>15, <2>15, <2>16
  <2>18. hack
    <3>1. loc.isDst /\ ~try.isDst
      BY <1>15, <2>8, <2>17
    <3>2. QED
      BY <1>20, <2>17, <3>1, Zenon
  <2>19. fromLocalTime(z, loc) = secs - 3600 - o1
    BY <1>21, <2>13, <2>18, HourLess
  <2>20. secs - 3600 - o1 = t
    BY <1>12, <2>8, SMT
  <2>21. QED
    BY <1>13, <2>19, <2>20
<1>25. QED
  BY <1>23, <1>24

\* The clock reads one of Instants.
LEMMA ClockReads == Spec => [](now \in Int)
PROOF
<1>1. Init => now \in Int
  BY InstantsAssumption DEF Init
<1>2. now \in Int /\ [Next]_vars => (now \in Int)'
  <2>1. SUFFICES ASSUME now \in Int, [Next]_vars PROVE now' \in Int
    OBVIOUS
  <2>2. ASSUME NEW u \in LogInstants, Tick(u) PROVE now' \in Int
    BY <2>2, InstantsAssumption, LogInstantsAssumption DEF Tick
  <2>3. ASSUME LogStep PROVE now' = now
    BY <2>3 DEF LogStep, Construct, StreamText, StreamNumber, StreamPointer, Destroy
  <2>4. ASSUME SettingStep PROVE now' = now
    BY <2>4 DEF SettingStep, setLogLevel, setLogLevelByName, setTimeZone, setOutput, setFlush
  <2>5. ASSUME Fork PROVE now' = now
    BY <2>5 DEF Fork
  <2>6. CASE UNCHANGED vars
    BY <2>6, <2>1 DEF vars
  <2>7. QED
    BY <2>1, <2>2, <2>3, <2>4, <2>5, <2>6 DEF Next
<1>3. QED
  BY <1>1, <1>2, PTL DEF Spec

\* For any instants, zone files and bound on the time stamps: times are turned
\* into fields and back without error, and their texts sort as they do as long as
\* the number of digits of the seconds (or of the year) stays the same.
THEOREM TimesAlwaysConvert == Spec => []TimesConvert
PROOF
<1>1. now \in Int => LocalRoundTrip
  <2>1. SUFFICES ASSUME now \in Int, NEW z \in Zones, z.localtimes # <<>>, OneHour(z)
                 PROVE  fromLocalTime(z, toLocalTime(z, now)) = now
    BY DEF LocalRoundTrip
  <2>2. PICK t \in Int : t = now
    BY <2>1
  <2>3. PICK n \in Nat : ZoneOK(z, n)
    BY ZonesAreOK
  <2>4. fromLocalTime(z, toLocalTime(z, t)) = t
    BY <2>1, <2>3, LocalRoundTrips
  <2>5. QED
    BY <2>2, <2>4
<1>2. now \in Int => TimesConvert
  BY <1>1, UtcIsRight, StampsAreInOrder DEF TimesConvert
<1>3. QED
  BY <1>2, ClockReads, PTL
=============================================================================
