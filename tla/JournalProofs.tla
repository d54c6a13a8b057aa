---------------------------- MODULE JournalProofs ---------------------------
(***************************************************************************)
(* What is read from the journal of readings, for every journal, whatever  *)
(* its length, its channels and its times: the series a reader is shown,   *)
(* the features a model is trained on and served with, and the labels.     *)
(***************************************************************************)
EXTENDS Reads, FiniteSetTheorems, WellFoundedInduction, TLAPS

-----------------------------------------------------------------------------
(* Sets of numbers.                                                         *)

LEMMA LeastExists ==
  ASSUME NEW T, T \subseteq Nat, T # {}
  PROVE  \E m \in T : \A t \in T : m <= t
<1> DEFINE R == OpToRel(<, Nat)
<1>1. IsWellFoundedOn(R, Nat)  BY NatLessThanWellFounded
<1> HIDE DEF R
<1>2. PICK m \in T : \A t \in T : <<t, m>> \notin R  BY <1>1, WFMin
<1>3. \A t \in T : ~(t < m)  BY <1>2 DEF R, OpToRel
<1> QED  BY <1>3

\* Induction over the numbers up to N, as a fact about a set.
LEMMA UpTo ==
  ASSUME NEW N \in Nat, NEW T, 0 \in T, \A n \in 0 .. N - 1 : n \in T => n + 1 \in T
  PROVE  \A n \in 0 .. N : n \in T
<1> DEFINE Rest == {n \in 0 .. N : n \notin T}
<1>1. SUFFICES ASSUME Rest # {} PROVE FALSE  OBVIOUS
<1>2. PICK m \in Rest : \A t \in Rest : m <= t
  <2>1. Rest \subseteq Nat  OBVIOUS
  <2> HIDE DEF Rest
  <2> QED  BY <1>1, <2>1, LeastExists
<1>3. m - 1 \in 0 .. N - 1 /\ m - 1 \notin Rest  BY <1>2
<1>4. (m - 1) + 1 = m  BY <1>2
<1> QED  BY <1>2, <1>3, <1>4

\* A set of integers with an upper bound has a maximum ...
LEMMA MaxIs ==
  ASSUME NEW S, S \subseteq Int, S # {}, NEW B \in Int, \A x \in S : x <= B
  PROVE  Max(S) \in S /\ \A x \in S : x <= Max(S)
<1> DEFINE T == {B - x : x \in S}
<1>1. T \subseteq Nat /\ T # {}
  <2>1. ASSUME NEW x \in S PROVE B - x \in Nat  OBVIOUS
  <2> QED  BY <2>1
<1>2. PICK m \in T : \A t \in T : m <= t  BY <1>1, LeastExists
<1>3. PICK x \in S : m = B - x  OBVIOUS
<1>4. \A y \in S : x >= y
  <2> TAKE y \in S
  <2>1. B - y \in T  OBVIOUS
  <2> HIDE DEF T
  <2> QED  BY <1>2, <1>3, <2>1
<1> QED  BY <1>4 DEF Max

\* ... and one with a lower bound a minimum.
LEMMA MinIs ==
  ASSUME NEW S, S \subseteq Int, S # {}, NEW B \in Int, \A x \in S : B <= x
  PROVE  Min(S) \in S /\ \A x \in S : Min(S) <= x
<1> DEFINE T == {x - B : x \in S}
<1>1. T \subseteq Nat /\ T # {}
  <2>1. ASSUME NEW x \in S PROVE x - B \in Nat  OBVIOUS
  <2> QED  BY <2>1
<1>2. PICK m \in T : \A t \in T : m <= t  BY <1>1, LeastExists
<1>3. PICK x \in S : m = x - B  OBVIOUS
<1>4. \A y \in S : x <= y
  <2> TAKE y \in S
  <2>1. y - B \in T  OBVIOUS
  <2> HIDE DEF T
  <2> QED  BY <1>2, <1>3, <2>1
<1> QED  BY <1>4 DEF Min

LEMMA MaxOfRange == ASSUME NEW n \in Nat \ {0} PROVE Max(1 .. n) = n
<1>1. Max(1 .. n) \in 1 .. n /\ \A x \in 1 .. n : x <= Max(1 .. n)  BY MaxIs
<1> QED  BY <1>1

\* Two sets whose elements belong to each other one by one have as many.
LEMMA SameNumber ==
  ASSUME NEW S, IsFiniteSet(S), NEW T, NEW f \in [S -> T],
         \A x, y \in S : f[x] = f[y] => x = y, \A t \in T : \E x \in S : f[x] = t
  PROVE  IsFiniteSet(T) /\ Cardinality(T) = Cardinality(S)
<1>1. f \in Bijection(S, T)  BY DEF Bijection, Injection, Surjection, IsInjective
<1>2. ExistsBijection(S, T)  BY <1>1 DEF ExistsBijection
<1> QED  BY <1>2, FS_Bijection

-----------------------------------------------------------------------------
(* Folds.                                                                   *)

\* The equation FoldLeft solves, for a step that is a function: what is made of
\* the elements with an index in S, the last of them last.
Folds(it, G, b, N) ==
  \A S \in SUBSET (1 .. N) :
    it[S] = IF S = {} THEN b ELSE G[<<Max(S), it[S \ {Max(S)}]>>]

LEMMA FoldExists ==
  ASSUME NEW A, NEW b \in A, NEW N \in Nat, NEW G \in [(1 .. N) \X A -> A]
  PROVE  \E it \in [SUBSET (1 .. N) -> A] : Folds(it, G, b, N)
<1> DEFINE T == {n \in 0 .. N : \E it \in [SUBSET (1 .. n) -> A] : Folds(it, G, b, n)}
<1>1. 0 \in T
  <2>1. SUBSET (1 .. 0) = {{}}  OBVIOUS
  <2>2. [S \in SUBSET (1 .. 0) |-> b] \in [SUBSET (1 .. 0) -> A]  OBVIOUS
  <2>3. Folds([S \in SUBSET (1 .. 0) |-> b], G, b, 0)  BY <2>1 DEF Folds
  <2> QED  BY <2>2, <2>3
<1>2. ASSUME NEW n \in 0 .. N - 1, n \in T PROVE n + 1 \in T
  <2>1. PICK g \in [SUBSET (1 .. n) -> A] : Folds(g, G, b, n)  BY <1>2
  <2> DEFINE Up == 1 .. n + 1
             h == [S \in SUBSET Up |->
                     IF n + 1 \in S THEN G[<<n + 1, g[S \ {n + 1}]>>] ELSE g[S]]
  <2>2. ASSUME NEW S \in SUBSET Up, n + 1 \in S
        PROVE  Max(S) = n + 1 /\ S \ {n + 1} \in SUBSET (1 .. n)
    <3>1. Max(S) \in S /\ \A x \in S : x <= Max(S)
      <4>1. S \subseteq Int /\ S # {} /\ n + 1 \in Int /\ \A x \in S : x <= n + 1  BY <2>2
      <4> QED  BY <4>1, MaxIs
    <3>2. ASSUME NEW x \in S \ {n + 1} PROVE x \in 1 .. n
      <4>1. x \in 1 .. n + 1 /\ x # n + 1  OBVIOUS
      <4> QED  BY <4>1
    <3>3. Max(S) = n + 1
      <4>1. Max(S) \in 1 .. n + 1 /\ n + 1 <= Max(S)  BY <2>2, <3>1
      <4> QED  BY <4>1
    <3> QED  BY <3>2, <3>3
  <2>3. ASSUME NEW S \in SUBSET Up, n + 1 \notin S PROVE S \in SUBSET (1 .. n)
    BY <2>3
  <2>4. h \in [SUBSET Up -> A]
    <3>1. ASSUME NEW S \in SUBSET Up PROVE h[S] \in A
      <4>1. CASE n + 1 \in S
        <5>1. g[S \ {n + 1}] \in A  BY <4>1, <2>2
        <5>2. n + 1 \in 1 .. N  OBVIOUS
        <5> QED  BY <4>1, <5>1, <5>2
      <4>2. CASE n + 1 \notin S  BY <4>2, <2>3
      <4> QED  BY <4>1, <4>2
    <3> QED  BY <3>1
  <2>5. ASSUME NEW S \in SUBSET Up
        PROVE  h[S] = IF S = {} THEN b ELSE G[<<Max(S), h[S \ {Max(S)}]>>]
    <3>1. CASE n + 1 \in S
      <4>1. h[S] = G[<<n + 1, g[S \ {n + 1}]>>]  BY <3>1
      <4>2. S \ {n + 1} \in SUBSET Up /\ n + 1 \notin S \ {n + 1}  OBVIOUS
      <4>3. h[S \ {n + 1}] = g[S \ {n + 1}]  BY <4>2
      <4> QED  BY <3>1, <4>1, <4>3, <2>2
    <3>2. CASE n + 1 \notin S
      <4>1. h[S] = g[S] /\ S \in SUBSET (1 .. n)  BY <3>2, <2>3
      <4>2. g[S] = IF S = {} THEN b ELSE G[<<Max(S), g[S \ {Max(S)}]>>]  BY <2>1, <4>1 DEF Folds
      <4>3. h[S \ {Max(S)}] = g[S \ {Max(S)}]  BY <3>2
      <4> QED  BY <4>1, <4>2, <4>3
    <3> QED  BY <3>1, <3>2
  <2>6. Folds(h, G, b, n + 1)  BY <2>5 DEF Folds
  <2>7. n + 1 \in 0 .. N  OBVIOUS
  <2> HIDE DEF h
  <2> QED  BY <2>4, <2>6, <2>7
<1>3. N \in T
  <2> HIDE DEF T
  <2> QED  BY <1>1, <1>2, UpTo
<1> QED  BY <1>3

-----------------------------------------------------------------------------
(* The journal.                                                             *)

Reading == [at : Times, raw : RawValues]

InTime(s) == \A i, j \in DOMAIN s : i <= j => s[i].at <= s[j].at

Ordered == {s \in Seq(Reading) : InTime(s)}

LEMMA ReadingIs ==
  ASSUME NEW r \in Reading
  PROVE  r.at \in Times /\ r.at \in Nat /\ r.at <= Span /\ Span \in Nat /\ r.raw \in RawValues
BY EpisodesAssumption DEF Reading, Times

\* Of every channel the readings are in the order of their times.
JournalInv == channels \subseteq Sensors /\ journal \in [channels -> Ordered]

LEMMA JournalStarts == ReadsInit => JournalInv
<1> SUFFICES ASSUME ReadsInit PROVE JournalInv  OBVIOUS
<1>1. <<>> \in Ordered  BY DEF Ordered, InTime
<1>2. CASE channels = {} /\ journal = <<>>
  <2>1. journal \in [{} -> Ordered]  BY <1>2
  <2> QED  BY <1>2, <2>1 DEF JournalInv
<1>3. CASE JournalInit  BY <1>1, <1>3 DEF JournalInit, JournalInv
<1> QED  BY <1>2, <1>3 DEF ReadsInit

LEMMA AppendOrdered ==
  ASSUME NEW s \in Ordered, NEW r \in Reading, s = <<>> \/ s[Len(s)].at <= r.at
  PROVE  Append(s, r) \in Ordered
<1>1. s \in Seq(Reading) /\ InTime(s)  BY DEF Ordered
<1> DEFINE t == Append(s, r)
<1>2. t \in Seq(Reading) /\ Len(t) = Len(s) + 1  BY <1>1
<1>3. ASSUME NEW i \in DOMAIN t, NEW j \in DOMAIN t, i <= j PROVE t[i].at <= t[j].at
  <2>1. i \in 1 .. Len(s) + 1 /\ j \in 1 .. Len(s) + 1  BY <1>1, <1>2
  <2>2. \A k \in 1 .. Len(s) : t[k] = s[k] /\ s[k] \in Reading /\ s[k].at \in Int
    BY <1>1, ReadingIs
  <2>3. t[Len(s) + 1] = r /\ r.at \in Int  BY <1>1, ReadingIs
  <2>4. CASE j <= Len(s)
    <3>1. i \in DOMAIN s /\ j \in DOMAIN s  BY <1>1, <1>3, <2>1, <2>4
    <3>2. s[i].at <= s[j].at  BY <1>1, <1>3, <3>1 DEF InTime
    <3> QED  BY <1>1, <2>2, <3>1, <3>2
  <2>5. CASE j = Len(s) + 1 /\ i <= Len(s)
    <3>1. i \in DOMAIN s /\ Len(s) \in DOMAIN s /\ i <= Len(s) /\ s # <<>>
      BY <1>1, <2>1, <2>5
    <3>2. s[i].at <= s[Len(s)].at  BY <1>1, <3>1 DEF InTime
    <3>3. i \in 1 .. Len(s) /\ Len(s) \in 1 .. Len(s)  BY <1>1, <3>1
    <3>4. s[i].at \in Int /\ s[Len(s)].at \in Int /\ t[i] = s[i] /\ t[j] = r
      BY <2>2, <2>3, <2>5, <3>3
    <3> HIDE DEF t
    <3> QED  BY <2>3, <3>1, <3>2, <3>4
  <2>6. CASE i = Len(s) + 1 /\ j = Len(s) + 1  BY <2>3, <2>6
  <2> QED  BY <1>1, <1>3, <2>1, <2>4, <2>5, <2>6
<1> QED  BY <1>2, <1>3 DEF Ordered, InTime

LEMMA JournalStep == JournalInv /\ [ReadsNext]_reads => JournalInv'
<1> SUFFICES ASSUME JournalInv, [ReadsNext]_reads PROVE JournalInv'  OBVIOUS
<1>1. CASE UNCHANGED <<channels, journal>>  BY <1>1 DEF JournalInv
<1>2. CASE Record
  <2>1. PICK c \in channels, t \in Times, raw \in RawValues :
          /\ c \in Recorded => t >= Last(journal[c]).at
          /\ journal' = [journal EXCEPT ![c] = Append(@, [at |-> t, raw |-> raw])]
    BY <1>2 DEF Record
  <2>2. [at |-> t, raw |-> raw] \in Reading  BY DEF Reading
  <2>3. journal[c] \in Ordered /\ RowsOf(c) = journal[c]  BY DEF JournalInv, RowsOf
  <2>4. journal[c] = <<>> \/ journal[c][Len(journal[c])].at <= t
    <3>1. SUFFICES ASSUME journal[c] # <<>> PROVE journal[c][Len(journal[c])].at <= t  OBVIOUS
    <3>2. c \in Recorded  BY <2>3, <3>1 DEF Recorded
    <3>3. t >= journal[c][Len(journal[c])].at  BY <2>1, <3>2 DEF Last
    <3> QED  BY <3>3
  <2>5. Append(journal[c], [at |-> t, raw |-> raw]) \in Ordered
    BY <2>2, <2>3, <2>4, AppendOrdered
  <2> QED  BY <1>2, <2>1, <2>5 DEF Record, JournalInv
<1> QED  BY <1>1, <1>2 DEF ReadsNext, reads

LEMMA JournalInvHolds == ReadsSpec => []JournalInv
BY JournalStarts, JournalStep, PTL DEF ReadsSpec

\* What that says of one channel.
LEMMA RowsAre ==
  ASSUME JournalInv, NEW c \in channels
  PROVE  /\ RowsOf(c) \in Seq(Reading) /\ InTime(RowsOf(c))
         /\ DOMAIN RowsOf(c) = 1 .. Len(RowsOf(c)) /\ Len(RowsOf(c)) \in Nat
         /\ \A i \in DOMAIN RowsOf(c) :
              RowsOf(c)[i] \in Reading /\ RowsOf(c)[i].at \in Times /\ RowsOf(c)[i].at \in Nat
<1>1. RowsOf(c) \in Ordered  BY DEF JournalInv, RowsOf
<1>2. RowsOf(c) \in Seq(Reading) /\ InTime(RowsOf(c))  BY <1>1 DEF Ordered
<1>3. \A i \in DOMAIN RowsOf(c) : RowsOf(c)[i] \in Reading  BY <1>2
<1> QED  BY <1>2, <1>3, ReadingIs

-----------------------------------------------------------------------------
(* Days.                                                                    *)

LEMMA Settings ==
  /\ Day \in Nat \ {0} /\ WeekDays \in Nat \ {0} /\ MonthDays \in Nat \ {0}
  /\ 1 < WeekDays /\ WeekDays < MonthDays
  /\ Gap \in Nat \ {0} /\ Gap < Day /\ Hour \in Nat /\ Span \in Nat
BY FeaturesAssumption, EpisodesAssumption

LEMMA TimesMonotone ==
  ASSUME NEW a \in Int, NEW b \in Int, NEW k \in Nat, a <= b
  PROVE  a * k <= b * k
OBVIOUS

LEMMA TimesNext == ASSUME NEW a \in Int, NEW k \in Nat PROVE (a + 1) * k = a * k + k
OBVIOUS

LEMMA TimesLess == ASSUME NEW a \in Int, NEW n \in Int, NEW k \in Nat PROVE (a - n) * k = a * k - n * k
OBVIOUS

LEMMA TimesInt == ASSUME NEW a \in Int, NEW k \in Nat PROVE a * k \in Int
OBVIOUS

LEMMA Windows ==
  /\ Week \in Nat /\ Month \in Nat /\ Day < Week /\ Week < Month
  /\ (MonthDays - 1) * Day = Month - Day /\ 1 * Day = Day
<1>1. 2 * Day <= WeekDays * Day /\ (WeekDays + 1) * Day <= MonthDays * Day
  BY Settings, TimesMonotone
<1>2. (WeekDays + 1) * Day = WeekDays * Day + Day  BY Settings, TimesNext
<1>3. (MonthDays - 1) * Day = MonthDays * Day - 1 * Day  BY Settings, TimesLess
<1>4. WeekDays * Day \in Int /\ MonthDays * Day \in Int  BY Settings, TimesInt
<1> QED  BY <1>1, <1>2, <1>3, <1>4, Settings DEF Week, Month

Midnight(d) == \E k \in Int : d = k * Day

LEMMA MidnightIs == ASSUME NEW d, Midnight(d) PROVE d \in Int
BY Settings, TimesInt DEF Midnight

LEMMA MidnightsApart ==
  ASSUME NEW d, NEW e, Midnight(d), Midnight(e), e < d
  PROVE  e + Day <= d
<1>1. PICK k \in Int, j \in Int : d = k * Day /\ e = j * Day  BY DEF Midnight
<1>2. ~(k <= j)  BY <1>1, Settings, TimesMonotone, TimesInt
<1>3. (j + 1) * Day <= k * Day  BY <1>2, Settings, TimesMonotone
<1> QED  BY <1>1, <1>3, Settings, TimesNext

LEMMA MidnightBefore ==
  ASSUME NEW d, Midnight(d), NEW n \in Int
  PROVE  Midnight(d - n * Day) /\ n * Day \in Int
<1>1. PICK k \in Int : d = k * Day  BY DEF Midnight
<1>2. d - n * Day = (k - n) * Day  BY <1>1, Settings, TimesLess
<1> QED  BY <1>2, Settings, TimesInt DEF Midnight

LEMMA DivIs ==
  ASSUME NEW a \in Int, NEW k \in Nat \ {0}
  PROVE  /\ a \div k \in Int
         /\ (a \div k) * k <= a
         /\ a < (a \div k) * k + k
<1>1. a % k \in 0 .. k - 1 /\ a = k * (a \div k) + (a % k) /\ a \div k \in Int  OBVIOUS
<1>2. k * (a \div k) = (a \div k) * k  BY <1>1
<1> QED  BY <1>1, <1>2

\* date_trunc names the midnight a time belongs to: the next one, or itself.
LEMMA DayIs ==
  ASSUME NEW t \in Int
  PROVE  /\ DayOf(t) \in Int /\ Midnight(DayOf(t))
         /\ t <= DayOf(t) /\ DayOf(t) < t + Day
<1> DEFINE a == t + Day - 1
<1>1. a \in Int /\ DayOf(t) = (a \div Day) * Day  BY Settings DEF DayOf
<1>2. a \div Day \in Int /\ (a \div Day) * Day <= a /\ a < (a \div Day) * Day + Day
  BY <1>1, Settings, DivIs
<1>3. Midnight(DayOf(t))  BY <1>1, <1>2 DEF Midnight
<1>4. DayOf(t) \in Int  BY <1>3, MidnightIs
<1> QED  BY <1>1, <1>2, <1>3, <1>4, Settings

LEMMA DayBefore ==
  ASSUME NEW d, Midnight(d), NEW t \in Int
  PROVE  DayOf(t) <= d <=> t <= d
<1>1. d \in Int  BY MidnightIs
<1>2. ASSUME t <= d, ~(DayOf(t) <= d) PROVE FALSE
  <2>1. d + Day <= DayOf(t)  BY <1>1, <1>2, DayIs, MidnightsApart
  <2> QED  BY <1>1, <1>2, <2>1, DayIs, Settings
<1> QED  BY <1>1, <1>2, DayIs

LEMMA DayOfMidnight == ASSUME NEW d, Midnight(d) PROVE DayOf(d) = d
BY MidnightIs, DayBefore, DayIs

\* A window of n days up to a midnight, by days and by times.
InDays(d, t, n) == d - (n - 1) * Day <= DayOf(t) /\ DayOf(t) <= d

LEMMA InDaysIs ==
  ASSUME NEW d, Midnight(d), NEW t \in Int, NEW n \in Int
  PROVE  InDays(d, t, n) <=> d - n * Day < t /\ t <= d
<1> DEFINE m == d - n * Day
<1>1. Midnight(m) /\ m \in Int /\ n * Day \in Int /\ d \in Int
  BY MidnightBefore, MidnightIs
<1>2. d - (n - 1) * Day = m + Day
  <2>1. (n - 1) * Day = n * Day - 1 * Day /\ 1 * Day = Day  BY Settings, TimesLess, Windows
  <2> QED  BY <1>1, <2>1, Settings
<1>3. DayOf(t) <= m <=> t <= m  BY <1>1, DayBefore
<1>4. m < DayOf(t) => m + Day <= DayOf(t)  BY <1>1, DayIs, MidnightsApart
<1>5. m + Day <= DayOf(t) <=> m < t
  <2> HIDE DEF m
  <2> QED  BY <1>1, <1>3, <1>4, DayIs, Settings
<1>6. DayOf(t) <= d <=> t <= d  BY DayBefore
<1> QED  BY <1>2, <1>5, <1>6 DEF InDays

-----------------------------------------------------------------------------
(* What an example is made of, computed from days and from a window.        *)

\* The times of a channel's alarms.
LEMMA AlarmTimesAre ==
  ASSUME JournalInv, NEW c \in channels, NEW states
  PROVE  /\ AlarmTimes(c, states) =
              {RowsOf(c)[i].at : i \in {j \in DOMAIN RowsOf(c) : RowsOf(c)[j].raw \in states}}
         /\ AlarmTimes(c, states) \subseteq Times
         /\ AlarmTimes(c, states) \subseteq Nat
<1>1. AlarmTimes(c, states) =
        {RowsOf(c)[i].at : i \in {j \in DOMAIN RowsOf(c) : RowsOf(c)[j].raw \in states}}
  BY DEF AlarmTimes, Range
<1> QED  BY <1>1, RowsAre

\* The row of the table of episodes for an episode that starts at s.
EpisodeFrom(c, states, s) ==
  LET all == RowsOf(c)
      starts == StartTimes(c, states)
      Members(m) == {i \in DOMAIN all :
        /\ all[i].raw \in states
        /\ all[i].at >= m
        /\ \A n \in starts : n > m => all[i].at < n}
      last == Max({all[i].at : i \in Members(s)})
  IN  [first |-> s, last |-> last, rows |-> Cardinality(Members(s)),
       left |-> IF s # Min(starts) \/ Beyond(s, all[1].at)
                THEN "observed_quiet_gap" ELSE "unknown",
       right |-> IF Beyond(Last(all).at, last) THEN "observed_quiet_gap" ELSE "unknown"]

LEMMA TableIs ==
  ASSUME NEW c, NEW states
  PROVE  EpisodeTable(c, states) = {EpisodeFrom(c, states, s) : s \in StartTimes(c, states)}
BY DEF EpisodeTable, EpisodeFrom

LEMMA FirstIs == ASSUME NEW c, NEW states, NEW s PROVE EpisodeFrom(c, states, s).first = s
BY DEF EpisodeFrom

LEMMA StartsAre ==
  ASSUME JournalInv, NEW c \in channels, NEW states
  PROVE  /\ StartTimes(c, states) \subseteq AlarmTimes(c, states)
         /\ StartTimes(c, states) \subseteq Times
         /\ StartTimes(c, states) \subseteq Nat
         /\ IsFiniteSet(StartTimes(c, states))
<1>1. StartTimes(c, states) \subseteq AlarmTimes(c, states)  BY DEF StartTimes
<1>2. IsFiniteSet(0 .. Span)  BY Settings, FS_Interval
<1>3. StartTimes(c, states) \subseteq 0 .. Span  BY <1>1, AlarmTimesAre DEF Times
<1> QED  BY <1>1, <1>2, <1>3, AlarmTimesAre, FS_Subset

\* The window the service looks at shows it the same starts of episodes as the
\* whole journal: what lies before the window is further away than Gap.
LEMMA WindowShowsStarts ==
  ASSUME JournalInv, NEW c \in channels, NEW states, NEW t \in Int
  PROVE  WindowStarts(c, states, t) = {s \in StartTimes(c, states) : t - Month < s /\ s <= t}
<1> DEFINE A == AlarmTimes(c, states)
<1>1. A \subseteq Int /\ Month \in Int /\ Gap \in Nat  BY AlarmTimesAre, Windows, Settings
<1>2. \A a \in A : Lookback(t) < a <=> t - Month - Gap < a  BY DEF Lookback
<1>3. WindowStarts(c, states, t) =
        {a \in {x \in A : Lookback(t) < x /\ x <= t} :
           a > t - Month /\ \A p \in {x \in A : Lookback(t) < x /\ x <= t} : p < a => Beyond(a, p)}
  BY DEF WindowStarts
<1>4. StartTimes(c, states) = {a \in A : \A p \in A : p < a => Beyond(a, p)}  BY DEF StartTimes
<1>5. ASSUME NEW a \in A, a > t - Month, NEW p \in A, ~(Lookback(t) < p)
      PROVE  Beyond(a, p)
  BY <1>1, <1>5 DEF Beyond, Lookback
<1> HIDE DEF A
<1>6. ASSUME NEW a \in A, a > t - Month, a <= t
      PROVE  (\A p \in A : p < a => Beyond(a, p)) <=>
             (\A p \in {x \in A : Lookback(t) < x /\ x <= t} : p < a => Beyond(a, p))
  BY <1>1, <1>5, <1>6
<1>7. ASSUME NEW a \in A, a > t - Month PROVE Lookback(t) < a  BY <1>1, <1>7 DEF Lookback
<1>8. \A a \in A : a > t - Month <=> t - Month < a  BY <1>1
<1> QED  BY <1>1, <1>3, <1>4, <1>6, <1>7, <1>8

\* Episodes of the table are counted by their starts.
LEMMA EpisodesCounted ==
  ASSUME JournalInv, NEW c \in channels, NEW states, NEW D
  PROVE  Cardinality({e \in EpisodeTable(c, states) : e.first \in D}) =
         Cardinality({s \in StartTimes(c, states) : s \in D})
<1> DEFINE S == {s \in StartTimes(c, states) : s \in D}
           E == {e \in EpisodeTable(c, states) : e.first \in D}
           f == [s \in S |-> EpisodeFrom(c, states, s)]
<1>1. f \in [S -> E]  BY TableIs, FirstIs
<1>2. \A x, y \in S : f[x] = f[y] => x = y  BY FirstIs
<1>3. \A e \in E : \E s \in S : f[s] = e  BY TableIs, FirstIs
<1>4. IsFiniteSet(S)  BY StartsAre, FS_Subset
<1> HIDE DEF S, E, f
<1>5. Cardinality(E) = Cardinality(S)  BY <1>1, <1>2, <1>3, <1>4, SameNumber
<1> QED  BY <1>5 DEF S, E

\* Records, alarms and days of a window that ends at t.
InWindow(c, t, length) ==
  {i \in DOMAIN RowsOf(c) : t - length < At(RowsOf(c), i) /\ At(RowsOf(c), i) <= t}
AlarmsIn(c, t, length) == {i \in InWindow(c, t, length) : Alarming(RowsOf(c), i)}
AgeOf(c, t, S) == IF S = {} THEN None ELSE t - Max({At(RowsOf(c), i) : i \in S})

LEMMA ValuesAre ==
  ASSUME NEW c, NEW t
  PROVE  Values(c, t) =
    Example(Cardinality(InWindow(c, t, Day)), Cardinality(AlarmsIn(c, t, Day)),
            Cardinality(InWindow(c, t, Week)), Cardinality(AlarmsIn(c, t, Week)),
            Cardinality(InWindow(c, t, Month)), Cardinality(AlarmsIn(c, t, Month)),
            Cardinality({(t - At(RowsOf(c), i)) \div Day : i \in InWindow(c, t, Month)}),
            Cardinality({a \in WindowStarts(c, AnyAlarm, t) : a > t - Week}),
            Cardinality(WindowStarts(c, AnyAlarm, t)),
            AgeOf(c, t, InWindow(c, t, Month)), AgeOf(c, t, AlarmsIn(c, t, Month)),
            t - FirstOf(c), GapTime(t))
BY DEF Values, InWindow, AlarmsIn, AgeOf

LEMMA WindowIs ==
  ASSUME JournalInv, NEW c \in channels, NEW t \in Int, NEW length \in Int
  PROVE  /\ InWindow(c, t, length) \subseteq DOMAIN RowsOf(c)
         /\ IsFiniteSet(InWindow(c, t, length)) /\ IsFiniteSet(AlarmsIn(c, t, length))
         /\ \A i \in InWindow(c, t, length) :
              /\ At(RowsOf(c), i) \in Nat /\ At(RowsOf(c), i) <= t
              /\ t - length < At(RowsOf(c), i)
<1>1. DOMAIN RowsOf(c) = 1 .. Len(RowsOf(c)) /\ Len(RowsOf(c)) \in Nat  BY RowsAre
<1>2. IsFiniteSet(DOMAIN RowsOf(c))  BY <1>1, FS_Interval
<1>3. InWindow(c, t, length) \subseteq DOMAIN RowsOf(c)  BY DEF InWindow
<1>4. AlarmsIn(c, t, length) \subseteq DOMAIN RowsOf(c)  BY <1>3 DEF AlarmsIn
<1>5. \A i \in DOMAIN RowsOf(c) : At(RowsOf(c), i) \in Nat  BY RowsAre DEF At
<1>6. IsFiniteSet(InWindow(c, t, length)) /\ IsFiniteSet(AlarmsIn(c, t, length))
  BY <1>2, <1>3, <1>4, FS_Subset
<1> QED  BY <1>3, <1>5, <1>6 DEF InWindow

\* The same window, made of n days that end at the midnight d.
LEMMA DaysAreWindow ==
  ASSUME JournalInv, NEW c \in channels, NEW d, Midnight(d), NEW n \in Int
  PROVE  {i \in DOMAIN RowsOf(c) : InDays(d, At(RowsOf(c), i), n)} = InWindow(c, d, n * Day)
<1>1. \A i \in DOMAIN RowsOf(c) : At(RowsOf(c), i) \in Int  BY RowsAre DEF At
<1> QED  BY <1>1, InDaysIs DEF InWindow

LEMMA AlarmAgeIs ==
  ASSUME JournalInv, NEW c \in channels, NEW d, Midnight(d)
  PROVE  AlarmAge(c, d) = AgeOf(c, d, AlarmsIn(c, d, Month))
<1> DEFINE A == {a \in AlarmTimes(c, AnyAlarm) : InDays(d, a, MonthDays)}
           B == {At(RowsOf(c), i) : i \in AlarmsIn(c, d, Month)}
<1>1. AlarmAge(c, d) = IF A = {} THEN None ELSE d - Max(A)  BY DEF AlarmAge, InDays
<1>2. A = B
  <2>1. AlarmTimes(c, AnyAlarm) =
          {RowsOf(c)[i].at : i \in {j \in DOMAIN RowsOf(c) : RowsOf(c)[j].raw \in AnyAlarm}}
    BY AlarmTimesAre
  <2>2. {i \in DOMAIN RowsOf(c) : InDays(d, At(RowsOf(c), i), MonthDays)} = InWindow(c, d, Month)
    BY DaysAreWindow, Settings DEF Month
  <2> QED  BY <2>1, <2>2 DEF AlarmsIn, Alarming, At
<1>3. AlarmsIn(c, d, Month) = {} <=> B = {}  OBVIOUS
<1> QED  BY <1>1, <1>2, <1>3 DEF AgeOf

\* Days with records are days with a record of the window.
LEMMA DaysCounted ==
  ASSUME JournalInv, NEW c \in channels, NEW d, Midnight(d)
  PROVE  LET S == {(d - At(RowsOf(c), i)) \div Day : i \in InWindow(c, d, Month)}
             T == {e \in RecordDays(c) : InDays(d, e, MonthDays)}
         IN  IsFiniteSet(S) /\ Cardinality(S) = Cardinality(T)
<1> DEFINE W == InWindow(c, d, Month)
           back(i) == (d - At(RowsOf(c), i)) \div Day
           S == {back(i) : i \in W}
           T == {e \in RecordDays(c) : InDays(d, e, MonthDays)}
           f == [k \in S |-> d - k * Day]
<1>1. d \in Int /\ Month \in Int  BY MidnightIs, Windows
<1>2. \A i \in DOMAIN RowsOf(c) : At(RowsOf(c), i) \in Int  BY RowsAre DEF At
<1>3. W \subseteq DOMAIN RowsOf(c)  BY DEF InWindow
<1>4. ASSUME NEW i \in DOMAIN RowsOf(c)
      PROVE  back(i) \in Int /\ d - back(i) * Day = DayOf(At(RowsOf(c), i))
  <2> DEFINE t == At(RowsOf(c), i)
             k == (d - t) \div Day
  <2>1. t \in Int /\ d - t \in Int  BY <1>1, <1>2
  <2>2. k \in Int /\ k * Day <= d - t /\ d - t < k * Day + Day  BY <2>1, Settings, DivIs
  <2>3. k * Day \in Int  BY <2>2, Settings, TimesInt
  <2>4. Midnight(d - k * Day)  BY <2>2, MidnightBefore
  <2>5. t <= d - k * Day /\ d - k * Day < t + Day
    <3> HIDE DEF k, t
    <3> QED  BY <1>1, <2>1, <2>2, <2>3, Settings
  <2>6. DayOf(t) \in Int /\ Midnight(DayOf(t)) /\ t <= DayOf(t) /\ DayOf(t) < t + Day
    BY <2>1, DayIs
  <2>7. d - k * Day \in Int  BY <1>1, <2>3
  <2> HIDE DEF k, t
  <2>8. ~(DayOf(t) < d - k * Day) /\ ~(d - k * Day < DayOf(t))
    BY <2>1, <2>4, <2>5, <2>6, <2>7, MidnightsApart, Settings
  <2>9. d - k * Day = DayOf(t)  BY <2>6, <2>7, <2>8
  <2> QED  BY <2>2, <2>9 DEF k, t
<1>5. RecordDays(c) = {DayOf(At(RowsOf(c), i)) : i \in DOMAIN RowsOf(c)}  BY DEF RecordDays, At
<1>6. {i \in DOMAIN RowsOf(c) : InDays(d, At(RowsOf(c), i), MonthDays)} = W
  BY DaysAreWindow, Settings DEF Month
<1>7. \A i \in DOMAIN RowsOf(c) :
        InDays(d, DayOf(At(RowsOf(c), i)), MonthDays) <=> InDays(d, At(RowsOf(c), i), MonthDays)
  BY <1>2, DayIs, DayOfMidnight DEF InDays
<1>8. T = {DayOf(At(RowsOf(c), i)) : i \in W}  BY <1>5, <1>6, <1>7
<1>9. f \in [S -> T] /\ \A t \in T : \E k \in S : f[k] = t  BY <1>3, <1>4, <1>8
<1>10. \A k, j \in S : f[k] = f[j] => k = j
  <2> SUFFICES ASSUME NEW k \in S, NEW j \in S, f[k] = f[j] PROVE k = j  OBVIOUS
  <2>1. k \in Int /\ j \in Int  BY <1>3, <1>4
  <2>2. k * Day = j * Day
    <3>1. d - k * Day = d - j * Day  OBVIOUS
    <3>2. k * Day \in Int /\ j * Day \in Int  BY <2>1, Settings, TimesInt
    <3> QED  BY <1>1, <3>1, <3>2
  <2>3. ASSUME NEW x \in Int, NEW y \in Int, x * Day = y * Day PROVE ~(x < y)
    <3>1. SUFFICES ASSUME x < y PROVE FALSE  OBVIOUS
    <3>2. (x + 1) * Day <= y * Day /\ (x + 1) * Day = x * Day + Day /\ x * Day \in Int
      BY <3>1, Settings, TimesMonotone, TimesNext, TimesInt
    <3> QED  BY <2>3, <3>2, Settings
  <2>4. ~(k < j) /\ ~(j < k)  BY <2>1, <2>2, <2>3
  <2> QED  BY <2>1, <2>4
<1>11. IsFiniteSet(S)
  <2>1. IsFiniteSet(W)  BY <1>1, WindowIs
  <2>2. [i \in W |-> back(i)] \in Surjection(W, S)  BY DEF Surjection
  <2> HIDE DEF W, S, back
  <2> QED  BY <2>1, <2>2, FS_Surjection
<1> HIDE DEF S, T, f
<1>12. Cardinality(T) = Cardinality(S)  BY <1>9, <1>10, <1>11, SameNumber
<1> QED  BY <1>11, <1>12 DEF S, T

Dated(c, d, n) == {i \in DOMAIN RowsOf(c) : InDays(d, At(RowsOf(c), i), n)}

LEMMA TrainedIs ==
  ASSUME NEW c, NEW d
  PROVE  Trained(c, d) =
    Example(Cardinality(Dated(c, d, 1)),
            Cardinality({i \in Dated(c, d, 1) : Alarming(RowsOf(c), i)}),
            Cardinality(Dated(c, d, WeekDays)),
            Cardinality({i \in Dated(c, d, WeekDays) : Alarming(RowsOf(c), i)}),
            Cardinality(Dated(c, d, MonthDays)),
            Cardinality({i \in Dated(c, d, MonthDays) : Alarming(RowsOf(c), i)}),
            Cardinality({e \in RecordDays(c) : InDays(d, e, MonthDays)}),
            Cardinality({e \in EpisodeTable(c, AnyAlarm) : InDays(d, e.first, WeekDays)}),
            Cardinality({e \in EpisodeTable(c, AnyAlarm) : InDays(d, e.first, MonthDays)}),
            AgeOf(c, d, Dated(c, d, MonthDays)), AlarmAge(c, d), d - FirstOf(c), GapTime(d))
BY DEF Trained, Dated, AgeOf, InDays

\* The starts of episodes an example counts are those the service counts.
LEMMA StartsCounted ==
  ASSUME JournalInv, NEW c \in channels, NEW d, Midnight(d), NEW n \in Int, n * Day <= Month
  PROVE  Cardinality({e \in EpisodeTable(c, AnyAlarm) : InDays(d, e.first, n)}) =
         Cardinality({a \in WindowStarts(c, AnyAlarm, d) : a > d - n * Day})
<1> DEFINE D == {s \in StartTimes(c, AnyAlarm) : InDays(d, s, n)}
<1>1. {e \in EpisodeTable(c, AnyAlarm) : InDays(d, e.first, n)} =
        {e \in EpisodeTable(c, AnyAlarm) : e.first \in D}
  <2>1. \A e \in EpisodeTable(c, AnyAlarm) : e.first \in StartTimes(c, AnyAlarm)
    BY TableIs, FirstIs
  <2> QED  BY <2>1
<1>2. {s \in StartTimes(c, AnyAlarm) : s \in D} = D  OBVIOUS
<1>3. d \in Int /\ n * Day \in Int /\ Month \in Int  BY MidnightIs, MidnightBefore, Windows
<1>4. \A s \in StartTimes(c, AnyAlarm) : s \in Int  BY StartsAre
<1>5. \A s \in StartTimes(c, AnyAlarm) : InDays(d, s, n) <=> d - n * Day < s /\ s <= d
  BY <1>4, InDaysIs
<1>6. D = {a \in WindowStarts(c, AnyAlarm, d) : a > d - n * Day}
  <2>1. WindowStarts(c, AnyAlarm, d) =
          {s \in StartTimes(c, AnyAlarm) : d - Month < s /\ s <= d}
    BY <1>3, WindowShowsStarts
  <2> QED  BY <1>3, <1>4, <1>5, <2>1
<1> HIDE DEF D
<1>7. Cardinality({e \in EpisodeTable(c, AnyAlarm) : e.first \in D}) =
      Cardinality({s \in StartTimes(c, AnyAlarm) : s \in D})
  BY EpisodesCounted
<1> QED  BY <1>1, <1>2, <1>6, <1>7

\* What an example is trained on is what the service computes at that midnight.
LEMMA TrainedAsServed ==
  ASSUME JournalInv, NEW c \in channels, NEW d, Midnight(d)
  PROVE  Values(c, d) = Trained(c, d)
<1>1. d \in Int /\ Month \in Int /\ 1 * Day = Day /\ Week = WeekDays * Day /\ Month = MonthDays * Day
  BY MidnightIs, Windows DEF Week, Month
<1>2. /\ Dated(c, d, 1) = InWindow(c, d, Day)
      /\ Dated(c, d, WeekDays) = InWindow(c, d, Week)
      /\ Dated(c, d, MonthDays) = InWindow(c, d, Month)
  BY <1>1, DaysAreWindow, Settings DEF Dated
<1>3. /\ {i \in Dated(c, d, 1) : Alarming(RowsOf(c), i)} = AlarmsIn(c, d, Day)
      /\ {i \in Dated(c, d, WeekDays) : Alarming(RowsOf(c), i)} = AlarmsIn(c, d, Week)
      /\ {i \in Dated(c, d, MonthDays) : Alarming(RowsOf(c), i)} = AlarmsIn(c, d, Month)
  BY <1>2 DEF AlarmsIn
<1>4. Cardinality({(d - At(RowsOf(c), i)) \div Day : i \in InWindow(c, d, Month)}) =
      Cardinality({e \in RecordDays(c) : InDays(d, e, MonthDays)})
  BY DaysCounted
<1>5. Cardinality({e \in EpisodeTable(c, AnyAlarm) : InDays(d, e.first, WeekDays)}) =
      Cardinality({a \in WindowStarts(c, AnyAlarm, d) : a > d - Week})
  BY <1>1, StartsCounted, Settings, Windows
<1>6. Cardinality({e \in EpisodeTable(c, AnyAlarm) : InDays(d, e.first, MonthDays)}) =
      Cardinality(WindowStarts(c, AnyAlarm, d))
  <2>1. {a \in WindowStarts(c, AnyAlarm, d) : a > d - Month} = WindowStarts(c, AnyAlarm, d)
    <3>1. \A a \in WindowStarts(c, AnyAlarm, d) : a \in Int /\ d - Month < a
      BY <1>1, WindowShowsStarts, StartsAre
    <3> QED  BY <1>1, <3>1
  <2>2. MonthDays * Day <= Month /\ MonthDays \in Int  BY <1>1, Settings
  <2> QED  BY <1>1, <2>1, <2>2, StartsCounted
<1> QED  BY <1>2, <1>3, <1>4, <1>5, <1>6, AlarmAgeIs, ValuesAre, TrainedIs

-----------------------------------------------------------------------------
(* The days there are examples of.                                          *)

\* Every example has a record in the month before it, and none is older than
\* the channel's first record.
LEMMA GridIs ==
  ASSUME JournalInv, NEW c \in channels, NEW d \in Grid(c)
  PROVE  Midnight(d) /\ d \in Int /\ FirstOf(c) <= d /\ InWindow(c, d, Month) # {}
         /\ FirstOf(c) \in Int /\ DOMAIN RowsOf(c) # {}
<1> DEFINE days == RecordDays(c)
           first == {x \in days : \A e \in days : e < x => x - e > Month}
           Of(f) == {x \in days : x >= f /\ \A n \in first : n > f => x < n}
           LastDay(f) == Max(Of(f)) + Month - Day
<1>1. days = {DayOf(At(RowsOf(c), i)) : i \in DOMAIN RowsOf(c)}  BY DEF RecordDays, At
<1>2. \A i \in DOMAIN RowsOf(c) : At(RowsOf(c), i) \in Nat /\ At(RowsOf(c), i) <= Span
  BY RowsAre, ReadingIs DEF At
<1>3. \A x \in days : x \in Int /\ Midnight(x) /\ x <= Span + Day /\ 0 <= x
  BY <1>1, <1>2, DayIs, Settings
<1>4. PICK f \in first : \E k \in 0 .. (LastDay(f) - f) \div Day : d = f + k * Day
  BY DEF Grid
<1>k. PICK k \in 0 .. (LastDay(f) - f) \div Day : d = f + k * Day  BY <1>4
<1>5. f \in days /\ f \in Int /\ Midnight(f) /\ k \in Nat  BY <1>3
<1>6. Midnight(d) /\ d \in Int /\ f <= d
  <2>1. f + k * Day = f - (0 - k) * Day /\ 0 * Day = 0 /\ k * Day \in Int
    BY <1>5, TimesLess, Settings, TimesInt
  <2>2. 0 * Day <= k * Day  BY <1>5, TimesMonotone, Settings
  <2>3. Midnight(d)  BY <1>k, <1>5, <2>1, MidnightBefore
  <2> QED  BY <1>k, <1>5, <2>1, <2>2, <2>3, MidnightIs
<1> DEFINE top == Max(Of(f))
<1>7. top \in Of(f) /\ \A x \in Of(f) : x <= top
  <2>1. f \in Of(f)  BY <1>5, <1>3
  <2>2. Of(f) \subseteq Int /\ \A x \in Of(f) : x <= Span + Day  BY <1>3
  <2> HIDE DEF Of
  <2> QED  BY <2>1, <2>2, MaxIs, Settings
<1>8. top \in days /\ top \in Int /\ f <= top /\ \A n \in first : n > f => top < n
  BY <1>3, <1>5, <1>7
<1>9. d <= top + Month - Day
  <2> DEFINE a == LastDay(f) - f
  <2>1. a \in Int  BY <1>5, <1>8, Windows, Settings
  <2>2. a \div Day \in Int /\ (a \div Day) * Day <= a /\ k <= a \div Day
    BY <2>1, DivIs, Settings
  <2>3. k * Day <= (a \div Day) * Day /\ k * Day \in Int /\ (a \div Day) * Day \in Int
    BY <1>5, <2>2, TimesMonotone, TimesInt, Settings
  <2>4. k * Day <= a
    <3> HIDE DEF a
    <3> QED  BY <2>1, <2>2, <2>3
  <2> QED  BY <1>4, <1>5, <1>8, <2>3, <2>4, Windows, Settings
<1> DEFINE before == {x \in days : x <= d}
           latest == Max(before)
<1>10. latest \in before /\ \A x \in before : x <= latest
  <2>1. f \in before /\ before \subseteq Int /\ \A x \in before : x <= d  BY <1>3, <1>5, <1>6
  <2> HIDE DEF before
  <2> QED  BY <1>6, <2>1, MaxIs
<1>11. latest \in days /\ latest \in Int /\ Midnight(latest) /\ latest <= d  BY <1>3, <1>10
<1>12. d < latest + Month
  <2>1. SUFFICES ASSUME latest + Month <= d PROVE FALSE  BY <1>6, <1>11, Windows
  <2>2. d < top
    <3>1. SUFFICES ASSUME top <= d PROVE FALSE  BY <1>6, <1>8
    <3>2. top <= latest  BY <1>8, <1>10, <3>1
    <3> HIDE DEF top, latest
    <3> QED  BY <1>6, <1>8, <1>9, <1>11, <2>1, <3>2, Windows, Settings
  <2> DEFINE after == {x \in days : x > d}
             next == Min(after)
  <2>3. next \in after /\ \A x \in after : next <= x
    <3>1. top \in after /\ after \subseteq Int /\ \A x \in after : d <= x
      BY <1>3, <1>6, <1>8, <2>2
    <3> HIDE DEF after
    <3> QED  BY <1>6, <3>1, MinIs
  <2>4. next \in days /\ next \in Int /\ next > d  BY <1>3, <2>3
  <2>5. \A x \in days : x < next => next - x > Month
    <3> SUFFICES ASSUME NEW x \in days, x < next PROVE next - x > Month  OBVIOUS
    <3>1. x \in Int /\ ~(x > d)
      <4>1. x \in Int  BY <1>3
      <4> HIDE DEF next
      <4> QED  BY <2>3, <2>4, <4>1
    <3>2. x <= latest  BY <1>6, <1>10, <3>1
    <3> HIDE DEF next, latest
    <3> QED  BY <1>6, <1>11, <2>1, <2>4, <3>1, <3>2, Windows
  <2>6. next \in first /\ next > f  BY <1>5, <1>6, <2>4, <2>5
  <2>7. top < next /\ next <= top  BY <1>8, <2>2, <2>3, <2>6
  <2> HIDE DEF top, next
  <2> QED  BY <1>8, <2>4, <2>7
<1>13. PICK i \in DOMAIN RowsOf(c) : latest = DayOf(At(RowsOf(c), i))
  <2> HIDE DEF latest
  <2> QED  BY <1>1, <1>11
<1>14. At(RowsOf(c), i) <= d /\ d - Month < At(RowsOf(c), i)
  <2> DEFINE t == At(RowsOf(c), i)
  <2>1. t \in Int /\ t <= latest /\ latest < t + Day  BY <1>2, <1>13, DayIs
  <2>3. t <= d  BY <1>6, <1>11, <2>1
  <2>4. d - Month < latest
    BY <1>6, <1>11, <1>12, Windows
  <2>5. Midnight(d - Month) /\ d - Month \in Int
    <3>1. Midnight(d - MonthDays * Day)
      <4>1. Midnight(d) /\ MonthDays \in Int  BY <1>6, Settings
      <4> QED  BY <4>1, MidnightBefore
    <3> QED  BY <1>6, <3>1, Windows DEF Month
  <2>6. ~(DayOf(t) <= d - Month)
    <3> HIDE DEF t
    <3> QED  BY <1>11, <1>13, <2>4, <2>5 DEF t
  <2>7. ~(t <= d - Month)  BY <2>1, <2>5, <2>6, DayBefore
  <2> QED  BY <1>6, <2>1, <2>3, <2>5, <2>7
<1>15. i \in InWindow(c, d, Month)  BY <1>14 DEF InWindow
<1>16. FirstOf(c) <= At(RowsOf(c), i) /\ FirstOf(c) \in Int
  <2>1. 1 \in DOMAIN RowsOf(c) /\ 1 <= i  BY RowsAre
  <2>2. RowsOf(c)[1].at <= RowsOf(c)[i].at  BY <2>1, RowsAre DEF InTime
  <2> QED  BY <1>2, <2>1, <2>2 DEF FirstOf, At
<1> QED  BY <1>2, <1>6, <1>14, <1>15, <1>16

-----------------------------------------------------------------------------
(* What the service answers.                                                *)

LEMMA FirstAndLast ==
  ASSUME JournalInv, Recorded # {}
  PROVE  GlobalLast \in Int
<1>1. PICK c \in channels : RowsOf(c) # <<>>  BY DEF Recorded
<1>2. 1 \in DOMAIN RowsOf(c)  BY <1>1, RowsAre
<1>3. RowsOf(c)[1].at \in AllTimes  BY <1>2 DEF AllTimes, Range
<1>4. ASSUME NEW x \in AllTimes PROVE x \in Nat /\ x <= Span
  <2>1. PICK k \in channels : x \in {r.at : r \in Range(RowsOf(k))}  BY DEF AllTimes
  <2>2. PICK i \in DOMAIN RowsOf(k) : x = RowsOf(k)[i].at  BY <2>1 DEF Range
  <2> QED  BY <2>2, RowsAre, ReadingIs
<1> HIDE DEF AllTimes
<1>5. AllTimes \subseteq Int /\ AllTimes # {} /\ \A x \in AllTimes : x <= Span  BY <1>3, <1>4
<1>6. Max(AllTimes) \in AllTimes
  <2>1. Span \in Int  BY Settings
  <2> QED  BY <1>5, <2>1, MaxIs
<1> QED  BY <1>4, <1>6 DEF GlobalLast

LEMMA SingleIs ==
  ASSUME NEW c, NEW t
  PROVE  /\ Single(c, t).ok <=>
              /\ ~(t - Month < GlobalFirst)
              /\ ~(t > GlobalLast + Hour)
              /\ ~(RowsOf(c) = <<>> \/ FirstOf(c) > t)
              /\ Values(c, t).events[3] # 0
              /\ ~(t - Day < FirstOf(c))
              /\ ~InGap(t - Day, t)
              /\ ~Ongoing(Values(c, t))
         /\ Single(c, t).ok \in BOOLEAN
         /\ Single(c, t).ok => Single(c, t).values = Values(c, t)
BY DEF Single, Refusal, Serving

LEMMA EventsAre ==
  ASSUME NEW c, NEW t
  PROVE  /\ Values(c, t).events[1] = Cardinality(InWindow(c, t, Day))
         /\ Values(c, t).events[2] = Cardinality(InWindow(c, t, Week))
         /\ Values(c, t).events[3] = Cardinality(InWindow(c, t, Month))
         /\ Values(c, t).alarms[1] = Cardinality(AlarmsIn(c, t, Day))
         /\ Values(c, t).alarms[2] = Cardinality(AlarmsIn(c, t, Week))
         /\ Values(c, t).alarms[3] = Cardinality(AlarmsIn(c, t, Month))
         /\ Values(c, t).alarmAge = AgeOf(c, t, AlarmsIn(c, t, Month))
         /\ Values(c, t).age = AgeOf(c, t, InWindow(c, t, Month))
         /\ Values(c, t).days =
              Cardinality({(t - At(RowsOf(c), i)) \div Day : i \in InWindow(c, t, Month)})
         /\ Values(c, t).gaps = GapTime(t)
BY ValuesAre DEF Example

\* No record in the month is what the service calls none.
LEMMA NoEvents ==
  ASSUME JournalInv, NEW c \in channels, NEW t \in Int
  PROVE  Values(c, t).events[3] = 0 <=> InWindow(c, t, Month) = {}
<1> DEFINE W == InWindow(c, t, Month)
<1>1. IsFiniteSet(W)  BY WindowIs, Windows
<1>2. Values(c, t).events[3] = Cardinality(W)  BY EventsAre
<1> HIDE DEF W
<1>3. Cardinality(W) = 0 <=> W = {}  BY <1>1, FS_EmptySet
<1> QED  BY <1>2, <1>3 DEF W

\* One channel at a time or many at once, the answer is the same.
LEMMA BatchAlwaysAgrees == JournalInv => BatchAgrees
<1> SUFFICES ASSUME JournalInv, NEW t \in Moments, NEW c \in channels
             PROVE  /\ Single(c, t).ok <=> c \in DOMAIN Many(t)
                    /\ Single(c, t).ok => Single(c, t).values = Many(t)[c]
  BY DEF BatchAgrees
<1>1. t \in Int  BY DEF Moments
<1> DEFINE known == {k \in channels : \E i \in DOMAIN RowsOf(k) :
                       t - Month < RowsOf(k)[i].at /\ RowsOf(k)[i].at <= t}
           served == {k \in known : t - Day >= FirstOf(k) /\ ~Ongoing(Values(k, t))}
<1>2. Many(t) = IF JournalRefuses(t) THEN <<>> ELSE [k \in served |-> Values(k, t)]  BY DEF Many
<1>3. c \in known <=> InWindow(c, t, Month) # {}  BY DEF InWindow, At
<1>4. RowsOf(c) # <<>> => FirstOf(c) \in Int
  <2> SUFFICES ASSUME RowsOf(c) # <<>> PROVE FirstOf(c) \in Int  OBVIOUS
  <2>1. 1 \in DOMAIN RowsOf(c)  BY RowsAre
  <2> QED  BY <2>1, RowsAre DEF FirstOf
<1>5. InWindow(c, t, Month) # {} => RowsOf(c) # <<>>  BY DEF InWindow
<1>6. InWindow(c, t, Month) # {} => Values(c, t).events[3] # 0  BY <1>1, NoEvents
<1>7. Values(c, t).events[3] # 0 => InWindow(c, t, Month) # {}  BY <1>1, NoEvents
<1>8. Single(c, t).ok <=> ~JournalRefuses(t) /\ c \in served
  <2>1. ASSUME RowsOf(c) # <<>> PROVE t - Day >= FirstOf(c) => ~(FirstOf(c) > t)
    BY <1>1, <1>4, <2>1, Settings
  <2>2. ASSUME RowsOf(c) # <<>> PROVE t - Day >= FirstOf(c) <=> ~(t - Day < FirstOf(c))
    BY <1>1, <1>4, <2>2, Settings
  <2> HIDE DEF known
  <2>3. c \in served <=> c \in known /\ t - Day >= FirstOf(c) /\ ~Ongoing(Values(c, t))  OBVIOUS
  <2> HIDE DEF served
  <2> QED  BY <1>3, <1>5, <1>6, <1>7, <2>1, <2>2, <2>3, SingleIs DEF JournalRefuses
<1> HIDE DEF served
<1>9. ~JournalRefuses(t) => DOMAIN Many(t) = served /\ \A k \in served : Many(t)[k] = Values(k, t)
  BY <1>2
<1>10. JournalRefuses(t) => DOMAIN Many(t) = {}  BY <1>2
<1> QED  BY <1>8, <1>9, <1>10, SingleIs

\* Why an example is left out or kept.
LEMMA ExclusionIs ==
  ASSUME NEW c, NEW d
  PROVE  /\ Exclusion(c, d) = "global_history" => d - Month < GlobalFirst
         /\ Exclusion(c, d) = "channel_history" =>
              ~(d - Month < GlobalFirst) /\ d - Day < FirstOf(c)
         /\ Exclusion(c, d) \in {"active_alarm", "uncertain_first_episode", "none"} =>
              /\ ~(d - Month < GlobalFirst) /\ ~(d - Day < FirstOf(c))
              /\ ~(d + Day > GlobalLast) /\ ~InGap(d - Day, d + Day)
         /\ Exclusion(c, d) = "active_alarm" => ActiveAlarm(c, d)
         /\ Exclusion(c, d) \in {"uncertain_first_episode", "none"} => ~ActiveAlarm(c, d)
         /\ Exclusion(c, d) = "uncertain_first_episode" => Future(c, AnyAlarm, d, "unknown") # {}
         /\ Exclusion(c, d) = "none" => Future(c, AnyAlarm, d, "unknown") = {}
BY DEF Exclusion

\* Why the service refuses.
LEMMA RefusalIs ==
  ASSUME NEW c, NEW t
  PROVE  /\ t - Month < GlobalFirst => Single(c, t) = Refusal("global_history")
         /\ /\ ~(t - Month < GlobalFirst)
            /\ ~(t > GlobalLast + Hour)
            /\ ~(RowsOf(c) = <<>> \/ FirstOf(c) > t)
            /\ Values(c, t).events[3] # 0
            => /\ t - Day < FirstOf(c) => Single(c, t) = Refusal("channel_history")
               /\ /\ ~(t - Day < FirstOf(c))
                  /\ ~InGap(t - Day, t)
                  /\ Ongoing(Values(c, t))
                  => Single(c, t) = Refusal("active_alarm")
BY DEF Single

LEMMA RefusedIs == ASSUME NEW reason PROVE ~Refusal(reason).ok /\ Refusal(reason).reason = reason
BY DEF Refusal

LEMMA GapsNarrow ==
  ASSUME NEW d \in Int, ~InGap(d - Day, d + Day)
  PROVE  ~InGap(d - Day, d)
<1> SUFFICES ASSUME NEW g \in LogGaps, g.from <= d, g.to > d - Day PROVE FALSE
  BY DEF InGap
<1>1. g.from \in Nat /\ g.to \in Nat  BY EpisodesAssumption DEF Times
<1>2. g.from <= d + Day  BY <1>1, Settings
<1> QED  BY <1>2 DEF InGap

\* The service and the training agree on an episode that goes on.
LEMMA ActiveIsOngoing ==
  ASSUME JournalInv, NEW c \in channels, NEW d, Midnight(d)
  PROVE  ActiveAlarm(c, d) <=> Ongoing(Values(c, d))
<1>1. Values(c, d).alarmAge = AgeOf(c, d, AlarmsIn(c, d, Month))  BY EventsAre
<1>2. AlarmAge(c, d) = AgeOf(c, d, AlarmsIn(c, d, Month))  BY AlarmAgeIs
<1> QED  BY <1>1, <1>2 DEF ActiveAlarm, Ongoing

LEMMA ExamplesServed ==
  ASSUME JournalInv, Recorded # {}, NEW c \in Recorded, NEW d \in ExampleDays(c)
  PROVE  LET one == Single(c, d)
             reason == Exclusion(c, d)
         IN  /\ one.ok => one.values = Trained(c, d)
             /\ reason = "none" => one.ok
             /\ reason \in {"global_history", "channel_history", "active_alarm"} =>
                  /\ ~one.ok
                  /\ d <= GlobalLast + Hour => one.reason = reason
<1> DEFINE one == Single(c, d)
           reason == Exclusion(c, d)
<1>1. c \in channels /\ RowsOf(c) # <<>> /\ d \in Grid(c)  BY DEF Recorded, ExampleDays
<1>2. /\ Midnight(d) /\ d \in Int /\ FirstOf(c) \in Int /\ FirstOf(c) <= d
      /\ InWindow(c, d, Month) # {}
  BY <1>1, GridIs
<1>3. Values(c, d).events[3] # 0  BY <1>1, <1>2, NoEvents
<1>4. Values(c, d) = Trained(c, d)  BY <1>1, <1>2, TrainedAsServed
<1>5. GlobalLast \in Int /\ Day \in Nat /\ Hour \in Nat  BY FirstAndLast, Settings
<1>6. one.ok => one.values = Trained(c, d)  BY <1>4, SingleIs
<1>7. ASSUME reason \in {"none", "active_alarm"}
      PROVE  /\ ~(d - Month < GlobalFirst) /\ ~(d > GlobalLast + Hour)
             /\ ~(d - Day < FirstOf(c)) /\ ~InGap(d - Day, d)
  <2>1. /\ ~(d - Month < GlobalFirst) /\ ~(d - Day < FirstOf(c))
        /\ ~(d + Day > GlobalLast) /\ ~InGap(d - Day, d + Day)
    BY <1>7, ExclusionIs
  <2> QED  BY <1>2, <1>5, <2>1, GapsNarrow
<1>8. ~(RowsOf(c) = <<>> \/ FirstOf(c) > d)  BY <1>1, <1>2
<1>9. ASSUME reason = "none" PROVE one.ok
  <2>1. ~Ongoing(Values(c, d))
    BY <1>1, <1>2, <1>9, ExclusionIs, ActiveIsOngoing
  <2> QED  BY <1>3, <1>7, <1>8, <1>9, <2>1, SingleIs
<1>10. ASSUME reason = "global_history" PROVE one = Refusal(reason)
  BY <1>10, ExclusionIs, RefusalIs
<1>11. ASSUME reason = "channel_history"
       PROVE  ~one.ok /\ (d <= GlobalLast + Hour => one = Refusal(reason))
  <2>1. ~(d - Month < GlobalFirst) /\ d - Day < FirstOf(c)  BY <1>11, ExclusionIs
  <2>2. d <= GlobalLast + Hour => ~(d > GlobalLast + Hour)  BY <1>2, <1>5
  <2> QED  BY <1>3, <1>8, <1>11, <2>1, <2>2, SingleIs, RefusalIs
<1>12. ASSUME reason = "active_alarm" PROVE one = Refusal(reason)
  <2>1. Ongoing(Values(c, d))  BY <1>1, <1>2, <1>12, ExclusionIs, ActiveIsOngoing
  <2> QED  BY <1>3, <1>7, <1>8, <1>12, <2>1, RefusalIs
<1> HIDE DEF one, reason
<1>13. ASSUME reason \in {"global_history", "channel_history", "active_alarm"}
       PROVE  ~one.ok /\ (d <= GlobalLast + Hour => one.reason = reason)
  BY <1>10, <1>11, <1>12, <1>13, RefusedIs
<1> QED  BY <1>6, <1>9, <1>13 DEF one, reason

-----------------------------------------------------------------------------
(* The history of incidents.                                                *)

\* The first alarm of a channel starts an episode.
LEMMA FirstAlarmStarts ==
  ASSUME JournalInv, NEW c \in channels, NEW states, NEW a \in AlarmTimes(c, states)
  PROVE  \E s \in StartTimes(c, states) : s <= a
<1>1. AlarmTimes(c, states) \subseteq Nat  BY AlarmTimesAre
<1>2. PICK s \in AlarmTimes(c, states) : \A p \in AlarmTimes(c, states) : s <= p
  BY <1>1, LeastExists
<1>3. \A p \in AlarmTimes(c, states) : ~(p < s)  BY <1>1, <1>2
<1> QED  BY <1>2, <1>3 DEF StartTimes

\* Starts of incidents of all channels up to t.
Incidents(t) ==
  {x \in UNION {{c} \X StartTimes(c, IncidentStates) : c \in channels} : x[2] <= t}

LEMMA HistoriesAgree ==
  ASSUME JournalInv, NEW t \in Int
  PROVE  ServedHistory(t) = TrainedHistory(t)
<1> DEFINE Z == UNION {{c} \X StartTimes(c, IncidentStates) : c \in channels}
           B == Incidents(t)
           V == {x \in B : t - Month < x[2]}
           Times2(S) == {x[2] : x \in S}
           seen == \E c \in channels : \E a \in AlarmTimes(c, IncidentStates) : a <= t
<1>1. \A x \in Z : x[2] \in Nat  BY StartsAre
<1>2. UNION {{c} \X WindowStarts(c, IncidentStates, t) : c \in channels} = V
  <2>1. \A c \in channels : WindowStarts(c, IncidentStates, t) =
          {s \in StartTimes(c, IncidentStates) : t - Month < s /\ s <= t}
    BY WindowShowsStarts
  <2> QED  BY <2>1 DEF Incidents
<1>3. UNION {{c} \X {e.first : e \in EpisodeTable(c, IncidentStates)} : c \in channels} = Z
  <2>1. \A c : {e.first : e \in EpisodeTable(c, IncidentStates)} = StartTimes(c, IncidentStates)
    BY TableIs, FirstIs
  <2> QED  BY <2>1
<1>4. Month \in Int /\ Day \in Int /\ Week \in Int /\ Day < Month /\ Week < Month
  BY Windows, Settings
<1>5. ASSUME NEW L \in Int, L <= Month
      PROVE  {x \in V : x[2] > t - L} = {x \in B : x[2] > t - L}
  BY <1>1, <1>4, <1>5 DEF Incidents
<1>6. seen <=> B # {}
  <2>1. ASSUME NEW x \in B PROVE seen
    <3>1. PICK c \in channels : x \in {c} \X StartTimes(c, IncidentStates)  BY DEF Incidents
    <3> QED  BY <3>1, StartsAre DEF Incidents
  <2>2. ASSUME NEW c \in channels, NEW a \in AlarmTimes(c, IncidentStates), a <= t
        PROVE  B # {}
    <3>1. PICK s \in StartTimes(c, IncidentStates) : s <= a  BY FirstAlarmStarts
    <3>2. s \in Nat /\ a \in Nat  BY StartsAre, AlarmTimesAre
    <3>3. <<c, s>> \in B  BY <2>2, <3>1, <3>2 DEF Incidents
    <3> QED  BY <3>3
  <2> QED  BY <2>1, <2>2
<1>7. B \subseteq Z /\ \A x \in B : x[2] <= t  BY DEF Incidents
<1> DEFINE latest == Max(Times2(B))
<1>8. ASSUME B # {} PROVE latest \in Times2(B) /\ latest \in Int /\ \A x \in Times2(B) : x <= latest
  <2>1. Times2(B) \subseteq Int /\ Times2(B) # {} /\ \A x \in Times2(B) : x <= t
    BY <1>1, <1>7, <1>8
  <2> HIDE DEF Times2, B
  <2> QED  BY <2>1, MaxIs
<1>9. ASSUME V # {} PROVE Max(Times2(V)) = latest /\ t - latest < Month /\ B # {}
  <2>1. Times2(V) \subseteq Int /\ Times2(V) # {} /\ \A x \in Times2(V) : x <= t
    BY <1>1, <1>7, <1>9
  <2>2. Max(Times2(V)) \in Times2(V) /\ \A x \in Times2(V) : x <= Max(Times2(V))
    <3> HIDE DEF Times2, V
    <3> QED  BY <2>1, MaxIs
  <2>3. PICK x \in V : Max(Times2(V)) = x[2]  BY <2>2
  <2>4. x \in B /\ x[2] \in Int /\ t - Month < x[2] /\ x[2] <= latest  BY <1>1, <1>7, <1>8, <2>3
  <2>5. PICK y \in B : latest = y[2]
    <3> HIDE DEF latest
    <3> QED  BY <1>8, <2>4
  <2>6. latest \in Int /\ t - Month < latest
    <3> HIDE DEF latest
    <3> QED  BY <1>4, <1>8, <2>4
  <2>7. y \in V
    <3> HIDE DEF latest
    <3> QED  BY <2>5, <2>6
  <2>8. latest <= Max(Times2(V))
    <3> HIDE DEF latest
    <3> QED  BY <2>2, <2>5, <2>7
  <2> HIDE DEF latest, Times2, V
  <2> QED  BY <1>4, <2>3, <2>4, <2>6, <2>8
<1>10. ASSUME V = {}, B # {} PROVE ~(t - latest < Month)
  <2>1. PICK y \in B : latest = y[2]
    <3> HIDE DEF latest
    <3> QED  BY <1>8, <1>10
  <2>2. ~(t - Month < y[2]) /\ y[2] \in Int  BY <1>1, <1>7, <1>10
  <2> HIDE DEF latest
  <2> QED  BY <1>4, <2>1, <2>2
<1> DEFINE Count(S, L) == Cardinality({x \in S : x[2] > t - L})
<1>11. ServedHistory(t) =
         [counts |-> <<Count(V, Day), Count(V, Week), Count(V, Month)>>,
          age |-> IF V # {} THEN t - Max(Times2(V)) ELSE IF seen THEN Month ELSE None]
  BY <1>2 DEF ServedHistory
<1>12. TrainedHistory(t) =
         [counts |-> <<Count(B, Day), Count(B, Week), Count(B, Month)>>,
          age |-> IF B = {} THEN None ELSE IF t - latest < Month THEN t - latest ELSE Month]
  BY <1>3 DEF TrainedHistory, Incidents
<1>13. Count(V, Day) = Count(B, Day) /\ Count(V, Week) = Count(B, Week)
       /\ Count(V, Month) = Count(B, Month)
  <2>1. /\ {x \in V : x[2] > t - Day} = {x \in B : x[2] > t - Day}
        /\ {x \in V : x[2] > t - Week} = {x \in B : x[2] > t - Week}
        /\ {x \in V : x[2] > t - Month} = {x \in B : x[2] > t - Month}
    <3>1. Day <= Month /\ Week <= Month /\ Month <= Month  BY <1>4
    <3> HIDE DEF V, B
    <3> QED  BY <1>4, <1>5, <3>1
  <2> HIDE DEF V, B
  <2> QED  BY <2>1
<1>14. (IF V # {} THEN t - Max(Times2(V)) ELSE IF seen THEN Month ELSE None) =
       (IF B = {} THEN None ELSE IF t - latest < Month THEN t - latest ELSE Month)
  <2> HIDE DEF seen, V, B, latest, Times2
  <2> QED  BY <1>6, <1>9, <1>10
<1> HIDE DEF Count, V, B, latest, Times2, seen
<1> QED  BY <1>11, <1>12, <1>13, <1>14

LEMMA ServedAsTrainedHolds == JournalInv => ServedAsTrained
<1> SUFFICES ASSUME JournalInv, Recorded # {} PROVE ServedAsTrained  BY DEF ServedAsTrained
<1>1. \A d \in Moments : ServedHistory(d) = TrainedHistory(d)
  <2>1. \A d \in Moments : d \in Int  BY DEF Moments
  <2> QED  BY <2>1, HistoriesAgree
<1>2. BatchAgrees  BY BatchAlwaysAgrees
<1> QED  BY <1>1, <1>2, ExamplesServed DEF ServedAsTrained

\* Training and service see the same features, and the service answers for every
\* example with a label: in every journal, however long, for every channel.
THEOREM ExamplesAreServed == ReadsSpec => []ServedAsTrained
BY JournalInvHolds, ServedAsTrainedHolds, PTL

-----------------------------------------------------------------------------
(* The two programs find the same episodes.                                 *)

\* The steps of a fold over 1 .. N, from an iterator it over subsets.
FoldsIn(it, G, A, N) ==
  \A S \in SUBSET (1 .. N) :
    S # {} /\ it[S \ {Max(S)}] \in A => it[S] = G[<<Max(S), it[S \ {Max(S)}]>>]

StepBy(f, G, b, N) == f[0] = b /\ \A n \in 1 .. N : f[n] = G[<<n, f[n - 1]>>]

HasSteps(it, G, A, b, N) ==
  \E f \in [0 .. N -> A] : StepBy(f, G, b, N) /\ f[N] = it[1 .. N]

LEMMA FoldSteps ==
  ASSUME NEW A, NEW b \in A, NEW N \in Nat, NEW G \in [(1 .. N) \X A -> A], NEW it,
         it[{}] = b, FoldsIn(it, G, A, N)
  PROVE  HasSteps(it, G, A, b, N)
<1> DEFINE f == [n \in 0 .. N |-> it[1 .. n]]
           T == {n \in 0 .. N : it[1 .. n] \in A}
<1>1. it[1 .. 0] = b
  <2>1. 1 .. 0 = {}  OBVIOUS
  <2> QED  BY <2>1
<1>2. ASSUME NEW n \in 1 .. N, it[1 .. n - 1] \in A
      PROVE  it[1 .. n] = G[<<n, it[1 .. n - 1]>>] /\ it[1 .. n] \in A
  <2>1. Max(1 .. n) = n  BY MaxOfRange
  <2>2. (1 .. n) \ {n} = 1 .. n - 1 /\ 1 .. n # {} /\ 1 .. n \in SUBSET (1 .. N)  OBVIOUS
  <2> QED  BY <1>2, <2>1, <2>2 DEF FoldsIn
<1>3. ASSUME NEW n \in 0 .. N - 1, n \in T PROVE n + 1 \in T
  <2>1. (n + 1) - 1 = n /\ n + 1 \in 1 .. N /\ n + 1 \in 0 .. N  OBVIOUS
  <2> QED  BY <1>2, <1>3, <2>1
<1>4. \A n \in 0 .. N : n \in T
  <2>1. 0 \in T  BY <1>1
  <2> HIDE DEF T
  <2> QED  BY <1>3, <2>1, UpTo
<1>5. f \in [0 .. N -> A]  BY <1>4
<1>6. ASSUME NEW n \in 1 .. N PROVE f[n] = G[<<n, f[n - 1]>>]
  <2>1. n - 1 \in 0 .. N /\ n \in 0 .. N  OBVIOUS
  <2> QED  BY <1>2, <1>4, <2>1
<1>7. f[0] = b /\ f[N] = it[1 .. N]  BY <1>1
<1> HIDE DEF f
<1> QED  BY <1>5, <1>6, <1>7 DEF StepBy, HasSteps

\* What iter_episodes has in hand after the first n rows.
Boundary == {"observed_quiet_gap", "unknown"}
Episode == [first : Times, last : Times, rows : Nat, right : Boundary, left : Boundary]
InHand == [closed : SUBSET Episode, open : {<<>>} \cup {<<e>> : e \in Episode}, seen : BOOLEAN]

LEMMA TakeRowTypes ==
  ASSUME NEW first, NEW states, NEW acc \in InHand, NEW row \in Reading
  PROVE  TakeRow(first, states, acc, row) \in InHand
<1> DEFINE ends == acc.open # <<>> /\ Beyond(row.at, acc.open[1].last)
           closed == IF ends
                     THEN acc.closed \cup {[acc.open[1] EXCEPT !.right = "observed_quiet_gap"]}
                     ELSE acc.closed
           open == IF ends THEN <<>> ELSE acc.open
           opened == [first |-> row.at, last |-> row.at, rows |-> 1, right |-> "unknown",
                      left |-> IF acc.seen \/ Beyond(row.at, first)
                               THEN "observed_quiet_gap" ELSE "unknown"]
           longer == [open[1] EXCEPT !.last = row.at, !.rows = @ + 1]
<1>1. acc.closed \in SUBSET Episode /\ acc.seen \in BOOLEAN
      /\ (acc.open = <<>> \/ \E e \in Episode : acc.open = <<e>>)
  BY DEF InHand
<1>2. acc.open # <<>> => acc.open[1] \in Episode  BY <1>1
<1>3. closed \in SUBSET Episode  BY <1>1, <1>2 DEF Episode, Boundary
<1>4. open = <<>> \/ (open = acc.open /\ acc.open # <<>>)  OBVIOUS
<1>5. opened \in Episode  BY ReadingIs DEF Episode, Boundary
<1>6. open # <<>> => longer \in Episode
  <2> SUFFICES ASSUME open # <<>> PROVE longer \in Episode  OBVIOUS
  <2>1. open[1] \in Episode  BY <1>2, <1>4
  <2> DEFINE e == open[1]
  <2>2. e.rows + 1 \in Nat /\ row.at \in Times  BY <2>1, ReadingIs DEF Episode
  <2>3. longer = [e EXCEPT !.last = row.at, !.rows = @ + 1]  OBVIOUS
  <2> HIDE DEF open, longer, e
  <2> QED  BY <2>1, <2>2, <2>3 DEF Episode, e
<1>7. TakeRow(first, states, acc, row) =
        IF row.raw \notin states THEN [acc EXCEPT !.closed = closed, !.open = open]
        ELSE [closed |-> closed, seen |-> TRUE,
              open |-> IF open = <<>> THEN <<opened>> ELSE <<longer>>]
  BY DEF TakeRow
<1> HIDE DEF closed, opened, longer
<1>8. [acc EXCEPT !.closed = closed, !.open = open] \in InHand
  BY <1>1, <1>3, <1>4 DEF InHand
<1> HIDE DEF open
<1> QED  BY <1>3, <1>5, <1>6, <1>7, <1>8 DEF InHand

LEMMA IterSteps ==
  ASSUME JournalInv, NEW c \in channels, RowsOf(c) # <<>>, NEW states
  PROVE  \E f \in [0 .. Len(RowsOf(c)) -> InHand] :
           /\ f[0] = NoEpisodeYet
           /\ \A n \in 1 .. Len(RowsOf(c)) :
                f[n] = TakeRow(FirstOf(c), states, f[n - 1], RowsOf(c)[n])
           /\ IterEpisodes(c, states) =
                f[Len(RowsOf(c))].closed \cup Range(f[Len(RowsOf(c))].open)
<1> DEFINE s == RowsOf(c)
           N == Len(s)
           G == [p \in (1 .. N) \X InHand |-> TakeRow(FirstOf(c), states, p[2], s[p[1]])]
           Solves(it) == it = [S \in SUBSET (1 .. N) |->
             IF S = {} THEN NoEpisodeYet
             ELSE TakeRow(FirstOf(c), states, it[S \ {Max(S)}], s[Max(S)])]
           found == CHOOSE it : Solves(it)
<1>1. DOMAIN s = 1 .. N /\ N \in Nat /\ \A i \in 1 .. N : s[i] \in Reading  BY RowsAre
<1>2. NoEpisodeYet \in InHand  BY DEF NoEpisodeYet, InHand
<1>3. \A n \in 1 .. N, acc \in InHand : TakeRow(FirstOf(c), states, acc, s[n]) \in InHand
  BY <1>1, TakeRowTypes
<1>4. G \in [(1 .. N) \X InHand -> InHand]  BY <1>3
<1>5. \A S \in SUBSET (1 .. N) : S # {} => Max(S) \in 1 .. N
  <2> SUFFICES ASSUME NEW S \in SUBSET (1 .. N), S # {} PROVE Max(S) \in 1 .. N  OBVIOUS
  <2>1. S \subseteq Int /\ N \in Int /\ \A x \in S : x <= N  BY <1>1
  <2>2. Max(S) \in S  BY <2>1, MaxIs
  <2> QED  BY <2>2
<1>6. PICK g \in [SUBSET (1 .. N) -> InHand] : Folds(g, G, NoEpisodeYet, N)
  <2> HIDE DEF G, N
  <2> QED  BY <1>1, <1>2, <1>4, FoldExists
<1>7. Solves(g)
  <2>1. ASSUME NEW S \in SUBSET (1 .. N)
        PROVE  g[S] = IF S = {} THEN NoEpisodeYet
                      ELSE TakeRow(FirstOf(c), states, g[S \ {Max(S)}], s[Max(S)])
    <3>1. S # {} => g[S \ {Max(S)}] \in InHand /\ Max(S) \in 1 .. N  BY <1>5
    <3>2. S # {} => G[<<Max(S), g[S \ {Max(S)}]>>] =
                    TakeRow(FirstOf(c), states, g[S \ {Max(S)}], s[Max(S)])
      BY <3>1
    <3> HIDE DEF G
    <3> QED  BY <1>6, <3>2 DEF Folds
  <2> QED  BY <2>1
<1>8. Solves(found)
  <2> HIDE DEF Solves
  <2> QED  BY <1>7
<1>9. IterEpisodes(c, states) = found[1 .. N].closed \cup Range(found[1 .. N].open)
  BY <1>1 DEF IterEpisodes, FoldLeft, MapThenFoldSet, FirstOf
<1> HIDE DEF found
<1>10. found[{}] = NoEpisodeYet  BY <1>8
<1>11. ASSUME NEW S \in SUBSET (1 .. N), S # {}, found[S \ {Max(S)}] \in InHand
       PROVE  found[S] = G[<<Max(S), found[S \ {Max(S)}]>>]
  <2>1. found[S] = TakeRow(FirstOf(c), states, found[S \ {Max(S)}], s[Max(S)])  BY <1>8, <1>11
  <2>2. Max(S) \in 1 .. N  BY <1>5, <1>11
  <2> HIDE DEF Solves
  <2> QED  BY <1>11, <2>1, <2>2
<1>12. PICK f \in [0 .. N -> InHand] : StepBy(f, G, NoEpisodeYet, N) /\ f[N] = found[1 .. N]
  <2> HIDE DEF G, N, Solves
  <2>1. FoldsIn(found, G, InHand, N)  BY <1>11 DEF FoldsIn
  <2>2. HasSteps(found, G, InHand, NoEpisodeYet, N)
    BY <1>1, <1>2, <1>4, <1>10, <2>1, FoldSteps
  <2> QED  BY <2>2 DEF HasSteps
<1>13. \A n \in 1 .. N : f[n] = TakeRow(FirstOf(c), states, f[n - 1], s[n])
  <2> SUFFICES ASSUME NEW n \in 1 .. N
               PROVE  f[n] = TakeRow(FirstOf(c), states, f[n - 1], s[n])
    OBVIOUS
  <2>1. n - 1 \in 0 .. N  BY <1>1
  <2>2. f[n - 1] \in InHand  BY <2>1
  <2> QED  BY <1>12, <2>2 DEF StepBy
<1> HIDE DEF G, N, Solves
<1> QED  BY <1>9, <1>12, <1>13 DEF N, StepBy

\* Alarms among the first n rows; the time of the last one; the episodes
\* begun; the newest of them.
AlarmsTo(c, states, n) == {i \in 1 .. n : RowsOf(c)[i].raw \in states}
LastOf(c, P) == RowsOf(c)[Max(P)].at
Begun(c, states, P) == {s \in StartTimes(c, states) : \E i \in P : s <= RowsOf(c)[i].at}
Newest(c, states, P) == Max(Begun(c, states, P))

\* What the table says of the newest episode when the journal ends there.
Partial(c, states, P) ==
  [first |-> Newest(c, states, P), last |-> LastOf(c, P),
   rows |-> Cardinality({i \in P : RowsOf(c)[i].at >= Newest(c, states, P)}),
   left |-> IF Newest(c, states, P) # Min(StartTimes(c, states))
                 \/ Beyond(Newest(c, states, P), RowsOf(c)[1].at)
            THEN "observed_quiet_gap" ELSE "unknown",
   right |-> "unknown"]

GoesOn(c, states, n) ==
  /\ AlarmsTo(c, states, n) # {}
  /\ ~Beyond(RowsOf(c)[n].at, LastOf(c, AlarmsTo(c, states, n)))

\* After n rows the episodes that are over are those of the table, and an open
\* one is what is known of the newest.
IterInv(c, states, n, acc) ==
  LET P == AlarmsTo(c, states, n)
  IN  /\ acc.seen <=> P # {}
      /\ acc.open = IF GoesOn(c, states, n) THEN <<Partial(c, states, P)>> ELSE <<>>
      /\ acc.closed = {EpisodeFrom(c, states, s) :
                        s \in {x \in Begun(c, states, P) :
                                 GoesOn(c, states, n) => x # Newest(c, states, P)}}

LEMMA PrefixIs ==
  ASSUME JournalInv, NEW c \in channels, NEW states, NEW n \in 1 .. Len(RowsOf(c))
  PROVE  LET P == AlarmsTo(c, states, n)
         IN  /\ P \subseteq 1 .. n /\ P \subseteq DOMAIN RowsOf(c) /\ IsFiniteSet(P)
             /\ \A i \in P : RowsOf(c)[i].at \in AlarmTimes(c, states)
             /\ P # {} => /\ Max(P) \in P /\ LastOf(c, P) \in Nat
                          /\ LastOf(c, P) <= RowsOf(c)[n].at
                          /\ LastOf(c, P) \in AlarmTimes(c, states)
                          /\ \A i \in P : RowsOf(c)[i].at <= LastOf(c, P)
<1> DEFINE P == AlarmsTo(c, states, n)
           s == RowsOf(c)
<1>1. DOMAIN s = 1 .. Len(s) /\ Len(s) \in Nat /\ InTime(s) /\ \A i \in DOMAIN s : s[i].at \in Nat
  BY RowsAre
<1>2. P \subseteq 1 .. n /\ P \subseteq DOMAIN s /\ n \in DOMAIN s  BY <1>1 DEF AlarmsTo
<1>3. IsFiniteSet(P)
  <2>1. 1 \in Int /\ n \in Int  BY <1>1
  <2>2. IsFiniteSet(1 .. n)  BY <2>1, FS_Interval
  <2> HIDE DEF P
  <2> QED  BY <1>2, <2>2, FS_Subset
<1>4. \A i \in P : s[i].at \in AlarmTimes(c, states)
  BY <1>2, AlarmTimesAre DEF AlarmsTo
<1>5. ASSUME P # {}
      PROVE  /\ Max(P) \in P /\ LastOf(c, P) \in Nat /\ LastOf(c, P) <= s[n].at
             /\ LastOf(c, P) \in AlarmTimes(c, states)
             /\ \A i \in P : s[i].at <= LastOf(c, P)
  <2>1. P \subseteq Int /\ n \in Int /\ \A x \in P : x <= n  BY <1>1, <1>2
  <2>2. Max(P) \in P /\ \A x \in P : x <= Max(P)
    <3> HIDE DEF P
    <3> QED  BY <1>5, <2>1, MaxIs
  <2> HIDE DEF P
  <2>3. Max(P) \in DOMAIN s /\ Max(P) <= n  BY <1>2, <2>1, <2>2
  <2> QED  BY <1>1, <1>2, <1>4, <2>2, <2>3 DEF LastOf, InTime
<1> QED  BY <1>2, <1>3, <1>4, <1>5

LEMMA NewestIs ==
  ASSUME JournalInv, NEW c \in channels, NEW states, NEW n \in 1 .. Len(RowsOf(c)),
         AlarmsTo(c, states, n) # {}
  PROVE  LET P == AlarmsTo(c, states, n)
         IN  /\ Begun(c, states, P) = {s \in StartTimes(c, states) : s <= LastOf(c, P)}
             /\ Newest(c, states, P) \in Begun(c, states, P)
             /\ Newest(c, states, P) \in StartTimes(c, states)
             /\ Newest(c, states, P) \in Nat /\ Newest(c, states, P) <= LastOf(c, P)
             /\ \A s \in Begun(c, states, P) : s <= Newest(c, states, P)
<1> DEFINE P == AlarmsTo(c, states, n)
           top == LastOf(c, P)
           B == Begun(c, states, P)
<1>1. /\ Max(P) \in P /\ top \in Nat /\ top \in AlarmTimes(c, states)
      /\ \A i \in P : RowsOf(c)[i].at <= top /\ RowsOf(c)[i].at \in AlarmTimes(c, states)
  BY PrefixIs
<1>2. StartTimes(c, states) \subseteq Nat /\ AlarmTimes(c, states) \subseteq Nat
  BY StartsAre, AlarmTimesAre
<1>3. top = RowsOf(c)[Max(P)].at  BY DEF LastOf
<1>4. B = {s \in StartTimes(c, states) : s <= top}
  <2> HIDE DEF P, top
  <2>1. ASSUME NEW s \in StartTimes(c, states), NEW i \in P, s <= RowsOf(c)[i].at
        PROVE  s <= top
    BY <1>1, <1>2, <2>1
  <2> QED  BY <1>1, <1>3, <2>1 DEF Begun, B
<1>5. PICK first \in StartTimes(c, states) : first <= top  BY <1>1, FirstAlarmStarts
<1> HIDE DEF B, top, P
<1>6. B # {} /\ B \subseteq Int /\ \A x \in B : x <= top  BY <1>2, <1>4, <1>5
<1>7. Max(B) \in B /\ \A x \in B : x <= Max(B)  BY <1>1, <1>6, MaxIs
<1> QED  BY <1>2, <1>4, <1>7 DEF Newest, B, top, P

\* The alarms of the table's newest episode up to row n, once no alarm of a
\* later row can belong to it.
LEMMA NewestAlarms ==
  ASSUME JournalInv, NEW c \in channels, NEW states, NEW n \in 1 .. Len(RowsOf(c)),
         AlarmsTo(c, states, n) # {},
         n = Len(RowsOf(c)) \/ Beyond(RowsOf(c)[n + 1].at, LastOf(c, AlarmsTo(c, states, n)))
  PROVE  LET P == AlarmsTo(c, states, n)
             newest == Newest(c, states, P)
         IN  {i \in DOMAIN RowsOf(c) :
                /\ RowsOf(c)[i].raw \in states
                /\ RowsOf(c)[i].at >= newest
                /\ \A m \in StartTimes(c, states) : m > newest => RowsOf(c)[i].at < m} =
             {i \in P : RowsOf(c)[i].at >= newest}
<1> DEFINE s == RowsOf(c)
           P == AlarmsTo(c, states, n)
           top == LastOf(c, P)
           newest == Newest(c, states, P)
           A == AlarmTimes(c, states)
           St == StartTimes(c, states)
<1>1. DOMAIN s = 1 .. Len(s) /\ Len(s) \in Nat /\ InTime(s) /\ \A i \in DOMAIN s : s[i].at \in Nat
  BY RowsAre
<1>2. /\ P \subseteq 1 .. n /\ P \subseteq DOMAIN s /\ top \in Nat
      /\ \A i \in P : s[i].at <= top
  BY PrefixIs
<1>3. /\ Begun(c, states, P) = {x \in St : x <= top}
      /\ newest \in Nat /\ newest <= top /\ \A x \in Begun(c, states, P) : x <= newest
  BY NewestIs
<1>4. St \subseteq Nat /\ A \subseteq Nat /\ St = {t \in A : \A p \in A : p < t => Beyond(t, p)}
  BY StartsAre, AlarmTimesAre DEF StartTimes
<1>5. A = {s[i].at : i \in {j \in DOMAIN s : s[j].raw \in states}}  BY AlarmTimesAre
<1>6. P = {i \in 1 .. n : s[i].raw \in states}  BY DEF AlarmsTo
<1>g. Gap \in Nat  BY Settings
<1>N. PICK N \in Nat : N = Len(s)  BY <1>1
<1>n. DOMAIN s = 1 .. N /\ n \in Nat /\ 1 <= n /\ n <= N
  <2>1. DOMAIN s = 1 .. N /\ n \in 1 .. N  BY <1>1, <1>N
  <2> QED  BY <2>1
<1> HIDE DEF P, top, newest, A, St
<1>7. ASSUME NEW i \in P, NEW m \in St, m > newest PROVE s[i].at < m
  <2>1. ~(m <= top)  BY <1>3, <1>4, <1>7
  <2>2. m \in Nat /\ s[i].at \in Nat /\ s[i].at <= top  BY <1>1, <1>2, <1>4
  <2> QED  BY <1>2, <2>1, <2>2
<1>8. ASSUME NEW i \in DOMAIN s, s[i].raw \in states, i \notin P,
             \A m \in St : m > newest => s[i].at < m
      PROVE  FALSE
  <2>1. i \in 1 .. N /\ n < i /\ n + 1 \in DOMAIN s /\ n < N
    <3>1. i \in 1 .. N /\ i \notin 1 .. n  BY <1>6, <1>8, <1>n
    <3>2. i \in Nat /\ n < i /\ i <= N  BY <1>n, <3>1
    <3>3. n + 1 \in 1 .. N /\ n < N  BY <1>n, <3>2
    <3> QED  BY <1>n, <3>1, <3>2, <3>3
  <2>2. s[n + 1].at \in Nat /\ s[n + 1].at - top > Gap
    <3>1. n # Len(s)  BY <1>N, <1>n, <2>1
    <3>2. Beyond(s[n + 1].at, top)  BY <3>1 DEF top, P
    <3> QED  BY <1>1, <2>1, <3>2 DEF Beyond
  <2>3. ASSUME NEW j \in DOMAIN s, n < j PROVE s[n + 1].at <= s[j].at /\ top < s[j].at
    <3>1. n + 1 <= j /\ s[j].at \in Nat
      <4>1. j \in Nat  BY <1>n
      <4>2. n + 1 <= j  BY <1>n, <2>3, <4>1
      <4> QED  BY <1>1, <4>2
    <3>2. s[n + 1].at <= s[j].at  BY <1>1, <2>1, <3>1 DEF InTime
    <3> QED  BY <1>2, <1>g, <2>2, <3>1, <3>2
  <2> DEFINE T == {a \in A : a > top}
  <2>4. s[i].at \in T  BY <1>5, <1>8, <2>1, <2>3, <1>1, <1>2
  <2>5. PICK m \in T : \A a \in T : m <= a
    <3>1. T \subseteq Nat /\ T # {}  BY <1>4, <2>4
    <3> HIDE DEF T
    <3> QED  BY <3>1, LeastExists
  <2>6. PICK j \in DOMAIN s : s[j].raw \in states /\ m = s[j].at  BY <1>5, <2>5
  <2>7. n < j
    <3>1. j \in P => m <= top  BY <1>2, <2>6
    <3>2. m > top /\ m \in Nat  BY <1>4, <2>5
    <3>3. j \notin 1 .. n  BY <1>2, <1>6, <2>6, <3>1, <3>2
    <3>4. j \in 1 .. N  BY <1>n
    <3> QED  BY <1>n, <3>3, <3>4
  <2>8. m - top > Gap /\ m \in Nat
    <3>1. s[n + 1].at <= m /\ m \in Nat  BY <2>3, <2>6, <2>7, <1>1
    <3> QED  BY <1>2, <1>g, <2>2, <3>1
  <2>9. ASSUME NEW p \in A, p < m PROVE Beyond(m, p)
    <3>1. p \in Nat /\ ~(p > top)  BY <1>4, <2>5, <2>8, <2>9
    <3> HIDE DEF T
    <3> QED  BY <1>2, <1>g, <2>8, <3>1 DEF Beyond
  <2>10. m \in St  BY <1>4, <2>5, <2>9
  <2>11. m > newest  BY <1>2, <1>3, <1>g, <2>8
  <2>12. s[i].at < m /\ m <= s[i].at  BY <1>8, <2>4, <2>5, <2>10, <2>11
  <2>13. s[i].at \in Nat  BY <1>1
  <2> QED  BY <2>8, <2>12, <2>13
<1>9. \A i \in P : i \in DOMAIN s /\ s[i].raw \in states  BY <1>2, <1>6
<1> QED  BY <1>7, <1>8, <1>9 DEF P, newest, St

\* What the table says of it then.
LEMMA NewestInTable ==
  ASSUME JournalInv, NEW c \in channels, NEW states, NEW n \in 1 .. Len(RowsOf(c)),
         AlarmsTo(c, states, n) # {},
         n = Len(RowsOf(c)) \/ Beyond(RowsOf(c)[n + 1].at, LastOf(c, AlarmsTo(c, states, n)))
  PROVE  LET P == AlarmsTo(c, states, n)
         IN  EpisodeFrom(c, states, Newest(c, states, P)) =
               [Partial(c, states, P) EXCEPT !.right =
                  IF Beyond(Last(RowsOf(c)).at, LastOf(c, P))
                  THEN "observed_quiet_gap" ELSE "unknown"]
<1> DEFINE s == RowsOf(c)
           P == AlarmsTo(c, states, n)
           top == LastOf(c, P)
           newest == Newest(c, states, P)
           members == {i \in P : s[i].at >= newest}
           times == {s[i].at : i \in members}
<1>1. {i \in DOMAIN s :
         /\ s[i].raw \in states
         /\ s[i].at >= newest
         /\ \A m \in StartTimes(c, states) : m > newest => s[i].at < m} = members
  BY NewestAlarms
<1>2. Max(times) = top
  <2>1. /\ P \subseteq DOMAIN s /\ Max(P) \in P /\ top \in Nat /\ \A i \in P : s[i].at <= top
        /\ newest \in Nat /\ newest <= top
    BY PrefixIs, NewestIs
  <2>2. \A i \in DOMAIN s : s[i].at \in Nat  BY RowsAre
  <2>3. top = s[Max(P)].at  BY DEF LastOf
  <2> HIDE DEF P, top, newest
  <2>4. Max(P) \in members  BY <2>1, <2>3
  <2>5. top \in times /\ times \subseteq Int /\ \A x \in times : x <= top  BY <2>1, <2>2, <2>3, <2>4
  <2> HIDE DEF times
  <2>6. Max(times) \in times /\ \A x \in times : x <= Max(times)  BY <2>1, <2>5, MaxIs
  <2>7. Max(times) \in Int /\ Max(times) <= top /\ top <= Max(times)  BY <2>5, <2>6
  <2> QED  BY <2>1, <2>7
<1>3. EpisodeFrom(c, states, newest) =
        [first |-> newest, last |-> Max(times), rows |-> Cardinality(members),
         left |-> IF newest # Min(StartTimes(c, states)) \/ Beyond(newest, s[1].at)
                  THEN "observed_quiet_gap" ELSE "unknown",
         right |-> IF Beyond(Last(s).at, Max(times)) THEN "observed_quiet_gap" ELSE "unknown"]
  BY <1>1 DEF EpisodeFrom
<1> HIDE DEF newest, top, members, times
<1>4. Partial(c, states, P) =
        [first |-> newest, last |-> top, rows |-> Cardinality(members),
         left |-> IF newest # Min(StartTimes(c, states)) \/ Beyond(newest, s[1].at)
                  THEN "observed_quiet_gap" ELSE "unknown",
         right |-> "unknown"]
  BY DEF Partial, newest, top, members
<1> QED  BY <1>2, <1>3, <1>4 DEF newest, top

\* Of the next row when it is an alarm.
LEMMA NextAlarm ==
  ASSUME JournalInv, NEW c \in channels, NEW states, NEW m \in 1 .. Len(RowsOf(c)),
         RowsOf(c)[m].raw \in states
  PROVE  LET P == AlarmsTo(c, states, m - 1)
             Q == AlarmsTo(c, states, m)
             at == RowsOf(c)[m].at
         IN  /\ Q = P \cup {m} /\ m \notin P /\ LastOf(c, Q) = at /\ at \in Nat
             /\ GoesOn(c, states, m)
             /\ \A a \in AlarmTimes(c, states) : a < at => \E i \in P : a = RowsOf(c)[i].at
             /\ P # {} => /\ m - 1 \in 1 .. Len(RowsOf(c)) /\ LastOf(c, P) <= at
                          /\ RowsOf(c)[m - 1].at <= at /\ RowsOf(c)[m - 1].at \in Nat
<1> DEFINE s == RowsOf(c)
           P == AlarmsTo(c, states, m - 1)
           Q == AlarmsTo(c, states, m)
           at == RowsOf(c)[m].at
<1>1. DOMAIN s = 1 .. Len(s) /\ Len(s) \in Nat /\ InTime(s) /\ \A i \in DOMAIN s : s[i].at \in Nat
  BY RowsAre
<1>N. PICK N \in Nat : N = Len(s)  BY <1>1
<1>n. DOMAIN s = 1 .. N /\ m \in Nat /\ 1 <= m /\ m <= N
  <2>1. DOMAIN s = 1 .. N /\ m \in 1 .. N  BY <1>1, <1>N
  <2> QED  BY <2>1
<1>2. m \in DOMAIN s /\ at \in Nat  BY <1>1, <1>n
<1>3. 1 .. m = (1 .. m - 1) \cup {m} /\ m \notin 1 .. m - 1  BY <1>n
<1>4. Q = P \cup {m} /\ m \notin P  BY <1>3 DEF AlarmsTo
<1>5. Max(Q) = m
  <2>1. Q \subseteq 1 .. m /\ m \in Q  BY <1>3, <1>4 DEF AlarmsTo
  <2> HIDE DEF Q
  <2>2. Q \subseteq Int /\ Q # {} /\ m \in Int /\ \A x \in Q : x <= m  BY <1>n, <2>1
  <2>3. Max(Q) \in Q /\ \A x \in Q : x <= Max(Q)  BY <2>2, MaxIs
  <2>4. Max(Q) \in Int /\ Max(Q) <= m /\ m <= Max(Q)  BY <2>1, <2>2, <2>3
  <2> QED  BY <1>n, <2>4
<1>6. LastOf(c, Q) = at  BY <1>5 DEF LastOf
<1>7. GoesOn(c, states, m)
  <2>1. ~Beyond(at, at)  BY <1>2, Settings DEF Beyond
  <2> QED  BY <1>4, <1>6, <2>1 DEF GoesOn
<1>8. ASSUME NEW a \in AlarmTimes(c, states), a < at PROVE \E i \in P : a = s[i].at
  <2>1. PICK i \in DOMAIN s : s[i].raw \in states /\ a = s[i].at  BY AlarmTimesAre
  <2>2. ~(m <= i)
    <3>1. m <= i => at <= s[i].at  BY <1>1, <1>2 DEF InTime
    <3>2. s[i].at \in Nat  BY <1>1
    <3> QED  BY <1>2, <1>8, <2>1, <3>1, <3>2
  <2>3. i \in 1 .. m - 1
    <3>1. i \in 1 .. N  BY <1>n
    <3> QED  BY <1>n, <2>2, <3>1
  <2> QED  BY <2>1, <2>3 DEF AlarmsTo
<1>9. ASSUME P # {}
      PROVE  m - 1 \in 1 .. Len(s) /\ LastOf(c, P) <= at /\ s[m - 1].at <= at /\ s[m - 1].at \in Nat
  <2>1. PICK i : i \in 1 .. m - 1  BY <1>9 DEF AlarmsTo
  <2>2. m - 1 \in 1 .. N /\ m - 1 <= m  BY <1>n, <2>1
  <2>3. m - 1 \in DOMAIN s  BY <1>n, <2>2
  <2>4. s[m - 1].at <= at /\ s[m - 1].at \in Nat  BY <1>1, <1>2, <2>2, <2>3 DEF InTime
  <2>5. m - 1 \in 1 .. Len(s)  BY <1>N, <2>2
  <2>6. LastOf(c, P) \in Nat /\ LastOf(c, P) <= s[m - 1].at  BY <1>9, <2>5, PrefixIs
  <2> HIDE DEF P
  <2> QED  BY <1>2, <2>4, <2>5, <2>6
<1> QED  BY <1>2, <1>4, <1>6, <1>7, <1>8, <1>9

\* An alarm within Gap of the last one goes on with its episode.
LEMMA EpisodeGoesOn ==
  ASSUME JournalInv, NEW c \in channels, NEW states, NEW m \in 1 .. Len(RowsOf(c)),
         RowsOf(c)[m].raw \in states, AlarmsTo(c, states, m - 1) # {},
         ~Beyond(RowsOf(c)[m].at, LastOf(c, AlarmsTo(c, states, m - 1)))
  PROVE  LET P == AlarmsTo(c, states, m - 1)
             Q == AlarmsTo(c, states, m)
         IN  /\ Begun(c, states, Q) = Begun(c, states, P)
             /\ Newest(c, states, Q) = Newest(c, states, P)
             /\ Partial(c, states, Q) =
                  [Partial(c, states, P) EXCEPT !.last = RowsOf(c)[m].at, !.rows = @ + 1]
<1> DEFINE s == RowsOf(c)
           P == AlarmsTo(c, states, m - 1)
           Q == AlarmsTo(c, states, m)
           at == RowsOf(c)[m].at
           top == LastOf(c, P)
           St == StartTimes(c, states)
<1>1. /\ Q = P \cup {m} /\ m \notin P /\ LastOf(c, Q) = at /\ at \in Nat
      /\ m - 1 \in 1 .. Len(s) /\ top <= at
  BY NextAlarm
<1>2. /\ IsFiniteSet(P) /\ top \in Nat /\ top \in AlarmTimes(c, states)
  BY <1>1, PrefixIs
<1>3. Begun(c, states, P) = {x \in St : x <= top} /\ Newest(c, states, P) <= top
      /\ Newest(c, states, P) \in Nat
  BY <1>1, NewestIs
<1>4. Begun(c, states, Q) = {x \in St : x <= at}
  <2>1. Q # {}  BY <1>1
  <2>2. LastOf(c, Q) = at  BY <1>1
  <2> HIDE DEF at
  <2> QED  BY <2>1, <2>2, NewestIs
<1>5. ASSUME NEW x \in St, x <= at PROVE x <= top
  <2>1. x \in Nat /\ (top < x => Beyond(x, top))  BY <1>2, StartsAre DEF StartTimes
  <2>2. ~Beyond(at, top)  OBVIOUS
  <2>g. Gap \in Nat  BY Settings
  <2> HIDE DEF at, top
  <2> QED  BY <1>1, <1>2, <1>5, <2>1, <2>2, <2>g DEF Beyond
<1>6. Begun(c, states, Q) = Begun(c, states, P)
  <2>1. \A x \in St : x \in Nat  BY StartsAre
  <2>2. top <= at /\ top \in Nat /\ at \in Nat  BY <1>1, <1>2
  <2>3. \A x \in St : x <= at => x <= top  BY <1>5
  <2> HIDE DEF Q, P, at, top, St
  <2>4. ASSUME NEW x \in St PROVE x <= at <=> x <= top  BY <2>1, <2>2, <2>3
  <2> QED  BY <1>3, <1>4, <2>4
<1>7. Newest(c, states, Q) = Newest(c, states, P)  BY <1>6 DEF Newest
<1> DEFINE newest == Newest(c, states, P)
           old == {i \in P : s[i].at >= newest}
<1>8. {i \in Q : s[i].at >= newest} = old \cup {m} /\ m \notin old
  <2>1. at >= newest
    <3> HIDE DEF at, top, newest, P
    <3> QED  BY <1>1, <1>2, <1>3 DEF newest
  <2> HIDE DEF Q, P, newest
  <2> QED  BY <1>1, <2>1
<1>9. Cardinality(old \cup {m}) = Cardinality(old) + 1
  <2>1. IsFiniteSet(old)  BY <1>2, FS_Subset
  <2> HIDE DEF old
  <2> QED  BY <1>8, <2>1, FS_AddElement
<1> DEFINE left == IF newest # Min(St) \/ Beyond(newest, s[1].at)
                   THEN "observed_quiet_gap" ELSE "unknown"
<1>10. Partial(c, states, P) = [first |-> newest, last |-> top, rows |-> Cardinality(old),
                                left |-> left, right |-> "unknown"]
  BY DEF Partial
<1>11. Partial(c, states, Q) =
         [first |-> newest, last |-> at, rows |-> Cardinality({i \in Q : s[i].at >= newest}),
          left |-> left, right |-> "unknown"]
  <2>1. LastOf(c, Q) = at  BY <1>1
  <2> HIDE DEF Q, at
  <2> QED  BY <1>7, <2>1 DEF Partial
<1>12. Partial(c, states, Q) = [Partial(c, states, P) EXCEPT !.last = at, !.rows = @ + 1]
  <2> HIDE DEF P, Q, old, at, left, newest, top
  <2> DEFINE part == Partial(c, states, P)
             k == Cardinality(old)
             S == {newest, top, at, k, k + 1, left, "unknown"}
             R == [first : S, last : S, rows : S, left : S, right : S]
             longer == [part EXCEPT !.last = at, !.rows = @ + 1]
  <2>1. Partial(c, states, Q) = [first |-> newest, last |-> at, rows |-> k + 1,
                                 left |-> left, right |-> "unknown"]
    BY <1>8, <1>9, <1>11
  <2>2. part = [first |-> newest, last |-> top, rows |-> k, left |-> left, right |-> "unknown"]
    BY <1>10
  <2> HIDE DEF part, k, newest, top, at, left
  <2>3. part \in R /\ part.first = newest /\ part.rows = k /\ part.left = left
        /\ part.right = "unknown"
    BY <2>2
  <2>4. /\ longer \in R
        /\ longer.first = newest /\ longer.last = at /\ longer.rows = k + 1
        /\ longer.left = left /\ longer.right = "unknown"
    BY <2>3
  <2> HIDE DEF longer
  <2>5. longer = [first |-> longer.first, last |-> longer.last, rows |-> longer.rows,
                  left |-> longer.left, right |-> longer.right]
    BY <2>4
  <2>6. Partial(c, states, Q) = longer  BY <2>1, <2>4, <2>5
  <2> QED  BY <2>6 DEF longer, part
<1> QED  BY <1>6, <1>7, <1>12

\* An alarm beyond Gap of all before it begins one.
LEMMA EpisodeBegins ==
  ASSUME JournalInv, NEW c \in channels, NEW states, NEW m \in 1 .. Len(RowsOf(c)),
         RowsOf(c)[m].raw \in states,
         AlarmsTo(c, states, m - 1) # {} =>
           Beyond(RowsOf(c)[m].at, LastOf(c, AlarmsTo(c, states, m - 1)))
  PROVE  LET P == AlarmsTo(c, states, m - 1)
             Q == AlarmsTo(c, states, m)
             at == RowsOf(c)[m].at
         IN  /\ Begun(c, states, Q) = Begun(c, states, P) \cup {at}
             /\ at \notin Begun(c, states, P)
             /\ Newest(c, states, Q) = at
             /\ Partial(c, states, Q) =
                  [first |-> at, last |-> at, rows |-> 1, right |-> "unknown",
                   left |-> IF P # {} \/ Beyond(at, FirstOf(c))
                            THEN "observed_quiet_gap" ELSE "unknown"]
<1> DEFINE s == RowsOf(c)
           P == AlarmsTo(c, states, m - 1)
           Q == AlarmsTo(c, states, m)
           at == RowsOf(c)[m].at
           top == LastOf(c, P)
           A == AlarmTimes(c, states)
           St == StartTimes(c, states)
<1>1. /\ Q = P \cup {m} /\ m \notin P /\ LastOf(c, Q) = at /\ at \in Nat
      /\ \A a \in A : a < at => \E i \in P : a = s[i].at
      /\ P # {} => m - 1 \in 1 .. Len(s)
  BY NextAlarm
<1>2. P # {} => /\ top \in Nat /\ top \in A /\ at - top > Gap
                /\ \A i \in P : s[i].at <= top /\ s[i].at \in A
  BY <1>1, PrefixIs DEF Beyond
<1>3. A \subseteq Nat /\ St \subseteq Nat /\ St = {t \in A : \A p \in A : p < t => Beyond(t, p)}
  BY AlarmTimesAre, StartsAre DEF StartTimes
<1>g. Gap \in Nat  BY Settings
<1>4. at \in A  BY RowsAre, AlarmTimesAre
<1>5. /\ Begun(c, states, Q) = {x \in St : x <= at}
      /\ Newest(c, states, Q) \in Begun(c, states, Q)
      /\ \A x \in Begun(c, states, Q) : x <= Newest(c, states, Q)
  <2>1. Q # {}  BY <1>1
  <2>2. LastOf(c, Q) = at  BY <1>1
  <2> HIDE DEF at
  <2> QED  BY <2>1, <2>2, NewestIs
<1>6. Begun(c, states, P) = {x \in St : \E i \in P : x <= s[i].at}  BY DEF Begun
<1>f. P # {} => \E x \in St : x <= top  BY <1>2, FirstAlarmStarts
<1> HIDE DEF P, Q, at, top, A, St
<1>7. ASSUME NEW i \in P PROVE s[i].at < at /\ s[i].at \in Nat
  <2>1. s[i].at \in Nat /\ s[i].at <= top /\ top \in Nat /\ at - top > Gap  BY <1>2, <1>3
  <2> QED  BY <1>1, <1>g, <2>1
<1>8. at \in St
  <2>1. ASSUME NEW p \in A, p < at PROVE Beyond(at, p)
    <3>1. PICK i \in P : p = s[i].at  BY <1>1, <2>1
    <3>2. p <= top /\ top \in Nat /\ p \in Nat /\ at - top > Gap  BY <1>2, <1>3, <3>1
    <3> QED  BY <1>1, <1>g, <3>2 DEF Beyond
  <2> QED  BY <1>3, <1>4, <2>1
<1>9. at \notin Begun(c, states, P)
  <2>1. ASSUME NEW i \in P PROVE ~(at <= s[i].at)  BY <1>1, <1>7
  <2> QED  BY <1>6, <2>1
<1>10. ASSUME NEW x \in St PROVE x <= at <=> x = at \/ \E i \in P : x <= s[i].at
  <2>1. x \in Nat /\ x \in A  BY <1>3
  <2>2. ASSUME x < at PROVE \E i \in P : x <= s[i].at
    <3>1. PICK i \in P : x = s[i].at  BY <1>1, <2>1, <2>2
    <3> QED  BY <2>1, <3>1
  <2>3. ASSUME NEW i \in P, x <= s[i].at PROVE x <= at
    <3>1. s[i].at < at /\ s[i].at \in Nat  BY <1>7
    <3> QED  BY <1>1, <2>1, <2>3, <3>1
  <2> QED  BY <1>1, <2>1, <2>2, <2>3
<1>11. Begun(c, states, Q) = Begun(c, states, P) \cup {at}  BY <1>5, <1>6, <1>8, <1>10
<1>12. Newest(c, states, Q) = at
  <2>1. at \in Begun(c, states, Q)  BY <1>11
  <2>2. at <= Newest(c, states, Q) /\ Newest(c, states, Q) <= at /\ Newest(c, states, Q) \in Nat
    BY <1>3, <1>5, <2>1
  <2> QED  BY <1>1, <2>2
<1>13. {i \in Q : s[i].at >= at} = {m}
  <2>1. ASSUME NEW i \in P PROVE ~(s[i].at >= at)  BY <1>1, <1>7
  <2>2. s[m].at = at /\ at >= at  BY <1>1 DEF at
  <2> QED  BY <1>1, <2>1, <2>2
<1>14. Cardinality({m}) = 1  BY FS_Singleton
<1>15. at # Min(St) <=> P # {}
  <2>1. Min(St) \in St /\ \A x \in St : Min(St) <= x
    <3>1. St \subseteq Int /\ St # {} /\ 0 \in Int /\ \A x \in St : 0 <= x  BY <1>3, <1>8
    <3> QED  BY <3>1, MinIs
  <2>2. ASSUME P = {} PROVE at = Min(St)
    <3>1. Min(St) \in A /\ Min(St) \in Nat /\ Min(St) <= at  BY <1>3, <1>8, <2>1
    <3>2. ~(Min(St) < at)  BY <1>1, <2>2, <3>1
    <3> QED  BY <1>1, <3>1, <3>2
  <2>3. ASSUME P # {} PROVE at # Min(St)
    <3>1. PICK x \in St : x <= top  BY <1>f, <2>3
    <3>2. x \in Nat /\ Min(St) <= x /\ Min(St) \in Nat  BY <1>3, <2>1
    <3> QED  BY <1>1, <1>2, <1>g, <2>3, <3>1, <3>2
  <2> QED  BY <2>2, <2>3
<1>16. Partial(c, states, Q) =
         [first |-> at, last |-> at, rows |-> Cardinality({i \in Q : s[i].at >= at}),
          left |-> IF at # Min(St) \/ Beyond(at, FirstOf(c))
                   THEN "observed_quiet_gap" ELSE "unknown",
          right |-> "unknown"]
  BY <1>1, <1>12 DEF Partial, FirstOf, St
<1> QED  BY <1>9, <1>11, <1>12, <1>13, <1>14, <1>15, <1>16 DEF P, Q, at

LEMMA IterStep ==
  ASSUME JournalInv, NEW c \in channels, NEW states, NEW m \in 1 .. Len(RowsOf(c)),
         NEW acc \in InHand, IterInv(c, states, m - 1, acc)
  PROVE  IterInv(c, states, m, TakeRow(FirstOf(c), states, acc, RowsOf(c)[m]))
<1> DEFINE s == RowsOf(c)
           r == s[m]
           P == AlarmsTo(c, states, m - 1)
           Q == AlarmsTo(c, states, m)
           top == LastOf(c, P)
           goes == GoesOn(c, states, m - 1)
           ends == goes /\ Beyond(r.at, top)
           still == goes /\ ~Beyond(r.at, top)
           part == Partial(c, states, P)
           closed == IF ends THEN acc.closed \cup {[part EXCEPT !.right = "observed_quiet_gap"]}
                     ELSE acc.closed
           opened == [first |-> r.at, last |-> r.at, rows |-> 1, right |-> "unknown",
                      left |-> IF acc.seen \/ Beyond(r.at, FirstOf(c))
                               THEN "observed_quiet_gap" ELSE "unknown"]
           From(S) == {EpisodeFrom(c, states, x) : x \in S}
           shut == {x \in Begun(c, states, P) : still => x # Newest(c, states, P)}
           next == TakeRow(FirstOf(c), states, acc, r)
<1>1. DOMAIN s = 1 .. Len(s) /\ Len(s) \in Nat /\ InTime(s) /\ \A i \in DOMAIN s : s[i].at \in Nat
  BY RowsAre
<1>N. PICK N \in Nat : N = Len(s)  BY <1>1
<1>n. DOMAIN s = 1 .. N /\ m \in Nat /\ 1 <= m /\ m <= N
  <2>1. DOMAIN s = 1 .. N /\ m \in 1 .. N  BY <1>1, <1>N
  <2> QED  BY <2>1
<1>2. /\ acc.seen <=> P # {}
      /\ acc.open = IF goes THEN <<part>> ELSE <<>>
      /\ acc.closed = From({x \in Begun(c, states, P) : goes => x # Newest(c, states, P)})
  BY DEF IterInv
<1>3. part.last = top /\ part.right = "unknown"  BY DEF Partial
<1>4. P # {} => m - 1 \in 1 .. Len(s) /\ s[m - 1].at <= r.at /\ s[m - 1].at \in Nat /\ r.at \in Nat
                /\ top \in Nat
  <2> SUFFICES ASSUME P # {}
               PROVE m - 1 \in 1 .. Len(s) /\ s[m - 1].at <= r.at /\ s[m - 1].at \in Nat
                     /\ r.at \in Nat /\ top \in Nat
    OBVIOUS
  <2>1. PICK i : i \in 1 .. m - 1  BY DEF AlarmsTo
  <2>2. m - 1 \in 1 .. N /\ m - 1 <= m  BY <1>n, <2>1
  <2>3. m - 1 \in DOMAIN s /\ m \in DOMAIN s  BY <1>n, <2>2
  <2>4. m - 1 \in 1 .. Len(s)  BY <1>N, <2>2
  <2> QED  BY <1>1, <2>2, <2>3, <2>4, PrefixIs DEF InTime
<1>5. closed = From(shut)
  <2>1. CASE ends
    <3>1. P # {}  BY <2>1 DEF GoesOn
    <3>2. (m - 1) + 1 = m  BY <1>n
    <3>3. EpisodeFrom(c, states, Newest(c, states, P)) =
            [part EXCEPT !.right = IF Beyond(Last(s).at, top)
                                   THEN "observed_quiet_gap" ELSE "unknown"]
      <4>1. Beyond(s[(m - 1) + 1].at, top)  BY <2>1, <3>2
      <4> QED  BY <1>4, <3>1, <4>1, NewestInTable
    <3>4. Beyond(Last(s).at, top)
      <4>1. Last(s) = s[N]  BY <1>N DEF Last
      <4>2. N \in DOMAIN s /\ m \in DOMAIN s /\ m <= N  BY <1>n
      <4>3. r.at <= s[N].at /\ s[N].at \in Nat  BY <1>1, <4>2 DEF InTime
      <4>4. r.at - top > Gap /\ r.at \in Nat /\ top \in Nat /\ Gap \in Nat
        BY <1>4, <2>1, <3>1, Settings DEF Beyond
      <4> HIDE DEF top
      <4> QED  BY <4>1, <4>3, <4>4 DEF Beyond
    <3>5. Newest(c, states, P) \in Begun(c, states, P)  BY <1>4, <3>1, NewestIs
    <3> HIDE DEF P, part, top
    <3> QED  BY <1>2, <2>1, <3>3, <3>4, <3>5
  <2>2. CASE ~ends  BY <1>2, <2>2
  <2> QED  BY <2>1, <2>2
<1>6. next = IF r.raw \notin states
             THEN [acc EXCEPT !.closed = closed, !.open = IF still THEN <<part>> ELSE <<>>]
             ELSE [closed |-> closed, seen |-> TRUE,
                   open |-> IF ~still THEN <<opened>>
                            ELSE <<[part EXCEPT !.last = r.at, !.rows = @ + 1]>>]
  <2>1. acc.open # <<>> <=> goes  BY <1>2
  <2>2. goes => acc.open[1] = part  BY <1>2
  <2> DEFINE end == acc.open # <<>> /\ Beyond(r.at, acc.open[1].last)
             left == IF end THEN <<>> ELSE acc.open
  <2>3. end <=> ends
    <3> HIDE DEF goes, part, top
    <3> QED  BY <1>3, <2>1, <2>2
  <2>4. left = IF still THEN <<part>> ELSE <<>>
    <3> HIDE DEF end, goes, part, top
    <3> QED  BY <1>2, <2>3
  <2>5. left = <<>> <=> ~still
    <3> HIDE DEF left, goes, part, top
    <3> QED  BY <2>4
  <2>6. still => left[1] = part
    <3> HIDE DEF left, goes, part, top
    <3> QED  BY <2>4
  <2>7. (IF end THEN acc.closed \cup {[acc.open[1] EXCEPT !.right = "observed_quiet_gap"]}
         ELSE acc.closed) = closed
    <3> HIDE DEF end, goes, part, top
    <3> QED  BY <2>2, <2>3
  <2>8. next = IF r.raw \notin states
               THEN [acc EXCEPT !.closed =
                       IF end THEN acc.closed \cup {[acc.open[1] EXCEPT !.right = "observed_quiet_gap"]}
                       ELSE acc.closed, !.open = left]
               ELSE [closed |->
                       IF end THEN acc.closed \cup {[acc.open[1] EXCEPT !.right = "observed_quiet_gap"]}
                       ELSE acc.closed, seen |-> TRUE,
                     open |-> IF left = <<>> THEN <<opened>>
                              ELSE <<[left[1] EXCEPT !.last = r.at, !.rows = @ + 1]>>]
    BY DEF TakeRow
  <2> HIDE DEF next, left, end, closed, still, part, opened
  <2> QED  BY <2>4, <2>5, <2>6, <2>7, <2>8
<1>7. acc = [closed |-> acc.closed, open |-> acc.open, seen |-> acc.seen]  BY DEF InHand
<1>8. CASE r.raw \notin states
  <2>1. Q = P
    <3>1. 1 .. m = (1 .. m - 1) \cup {m}  BY <1>n
    <3> QED  BY <1>8, <3>1 DEF AlarmsTo
  <2>2. GoesOn(c, states, m) <=> still
    <3>1. P # {} /\ ~Beyond(r.at, top) => ~Beyond(s[m - 1].at, top)
      <4>g. Gap \in Nat  BY Settings
      <4> DEFINE now == r.at
                 before == s[m - 1].at
      <4> HIDE DEF P, top, now, before
      <4>1. P # {} => before <= now /\ before \in Nat /\ now \in Nat /\ top \in Nat
        BY <1>4 DEF now, before
      <4>2. P # {} /\ ~Beyond(now, top) => ~Beyond(before, top)  BY <4>g, <4>1 DEF Beyond
      <4> QED  BY <4>2 DEF now, before
    <3> QED  BY <2>1, <3>1 DEF GoesOn
  <2>3. next.closed = closed /\ next.open = (IF still THEN <<part>> ELSE <<>>) /\ next.seen = acc.seen
    <3> HIDE DEF next, closed, still, part
    <3> QED  BY <1>6, <1>7, <1>8
  <2>4. shut = {x \in Begun(c, states, Q) : GoesOn(c, states, m) => x # Newest(c, states, Q)}
    <3> HIDE DEF P, Q, still
    <3> QED  BY <2>1, <2>2
  <2> HIDE DEF P, Q, still, closed, next, shut
  <2> QED  BY <1>2, <1>5, <2>1, <2>2, <2>3, <2>4 DEF IterInv, Q, next, part
<1>9. CASE r.raw \in states /\ still
  <2>1. P # {} /\ ~Beyond(r.at, top)  BY <1>9 DEF GoesOn
  <2>2. /\ Begun(c, states, Q) = Begun(c, states, P)
        /\ Newest(c, states, Q) = Newest(c, states, P)
        /\ Partial(c, states, Q) = [part EXCEPT !.last = r.at, !.rows = @ + 1]
    <3>1. /\ RowsOf(c)[m].raw \in states /\ AlarmsTo(c, states, m - 1) # {}
          /\ ~Beyond(RowsOf(c)[m].at, LastOf(c, AlarmsTo(c, states, m - 1)))
      BY <1>9, <2>1
    <3> HIDE DEF still
    <3> QED  BY <3>1, EpisodeGoesOn, ZenonT(40)
  <2>3. GoesOn(c, states, m) /\ Q # {}
    <3>1. GoesOn(c, states, m) /\ Q = P \cup {m}  BY <1>9, NextAlarm
    <3> HIDE DEF Q
    <3> QED  BY <3>1
  <2>4. next.closed = closed /\ next.seen = TRUE /\ next.open = <<Partial(c, states, Q)>>
    <3> HIDE DEF next, closed, still, part, Q
    <3> QED  BY <1>6, <1>9, <2>2
  <2>5. shut = {x \in Begun(c, states, Q) : GoesOn(c, states, m) => x # Newest(c, states, Q)}
    <3> HIDE DEF P, Q, still
    <3> QED  BY <1>9, <2>2, <2>3
  <2> HIDE DEF P, Q, still, closed, next, shut
  <2> QED  BY <1>5, <2>3, <2>4, <2>5 DEF IterInv, Q, next
<1>10. CASE r.raw \in states /\ ~still
  <2>1. P # {} => Beyond(r.at, top)
    <3> SUFFICES ASSUME P # {}, ~goes PROVE Beyond(r.at, top)  BY <1>10
    <3>1. Beyond(s[m - 1].at, top)  BY DEF GoesOn
    <3>g. Gap \in Nat  BY Settings
    <3> HIDE DEF P, top
    <3> QED  BY <1>4, <3>1, <3>g DEF Beyond
  <2>2. /\ Begun(c, states, Q) = Begun(c, states, P) \cup {r.at}
        /\ r.at \notin Begun(c, states, P)
        /\ Newest(c, states, Q) = r.at
        /\ Partial(c, states, Q) =
             [first |-> r.at, last |-> r.at, rows |-> 1, right |-> "unknown",
              left |-> IF P # {} \/ Beyond(r.at, FirstOf(c))
                       THEN "observed_quiet_gap" ELSE "unknown"]
    BY <1>10, <2>1, EpisodeBegins
  <2>3. GoesOn(c, states, m) /\ Q # {}
    <3>1. GoesOn(c, states, m) /\ Q = P \cup {m}  BY <1>10, NextAlarm
    <3> HIDE DEF Q
    <3> QED  BY <3>1
  <2>4. Partial(c, states, Q) = opened
    <3> HIDE DEF P, Q
    <3> QED  BY <1>2, <2>2
  <2>5. next.closed = closed /\ next.seen = TRUE /\ next.open = <<Partial(c, states, Q)>>
    <3> HIDE DEF next, closed, still, part, Q, opened
    <3> QED  BY <1>6, <1>10, <2>4
  <2>6. shut = {x \in Begun(c, states, Q) : GoesOn(c, states, m) => x # Newest(c, states, Q)}
    <3> HIDE DEF P, Q, still
    <3> QED  BY <1>10, <2>2, <2>3
  <2> HIDE DEF P, Q, still, closed, next, shut
  <2> QED  BY <1>5, <2>3, <2>5, <2>6 DEF IterInv, Q, next
<1> QED  BY <1>8, <1>9, <1>10

\* Both programs divide every channel's journal into the same episodes.
LEMMA EpisodesAlwaysAgree ==
  ASSUME JournalInv, NEW c \in channels, RowsOf(c) # <<>>, NEW states
  PROVE  IterEpisodes(c, states) = EpisodeTable(c, states)
<1> DEFINE N == Len(RowsOf(c))
           P == AlarmsTo(c, states, N)
<1>1. PICK f \in [0 .. N -> InHand] :
        /\ f[0] = NoEpisodeYet
        /\ \A n \in 1 .. N : f[n] = TakeRow(FirstOf(c), states, f[n - 1], RowsOf(c)[n])
        /\ IterEpisodes(c, states) = f[N].closed \cup Range(f[N].open)
  BY IterSteps
<1>2. N \in Nat /\ N \in 1 .. N /\ DOMAIN RowsOf(c) = 1 .. N
  <2>1. N \in Nat /\ DOMAIN RowsOf(c) = 1 .. N /\ RowsOf(c) \in Seq(Reading)  BY RowsAre
  <2>2. N # 0  BY <2>1
  <2> HIDE DEF N
  <2> QED  BY <2>1, <2>2
<1> DEFINE T == {n \in 0 .. N : IterInv(c, states, n, f[n])}
<1>3. 0 \in T
  <2>1. AlarmsTo(c, states, 0) = {}  BY DEF AlarmsTo
  <2>2. Begun(c, states, {}) = {} /\ ~GoesOn(c, states, 0)  BY <2>1 DEF Begun, GoesOn
  <2>3. IterInv(c, states, 0, NoEpisodeYet)  BY <2>1, <2>2 DEF IterInv, NoEpisodeYet
  <2> QED  BY <1>1, <1>2, <2>3
<1>4. ASSUME NEW n \in 0 .. N - 1, n \in T PROVE n + 1 \in T
  <2>1. n + 1 \in 1 .. N /\ n + 1 \in 0 .. N /\ (n + 1) - 1 = n /\ n \in 0 .. N  BY <1>2
  <2>2. f[n + 1] = TakeRow(FirstOf(c), states, f[n], RowsOf(c)[n + 1])  BY <1>1, <2>1
  <2>3. f[n] \in InHand /\ IterInv(c, states, n, f[n])  BY <1>4, <2>1
  <2>4. IterInv(c, states, (n + 1) - 1, f[n])  BY <2>1, <2>3
  <2>5. IterInv(c, states, n + 1, f[n + 1])  BY <2>1, <2>2, <2>3, <2>4, IterStep
  <2> QED  BY <2>1, <2>5
<1>5. IterInv(c, states, N, f[N])
  <2>1. \A n \in 0 .. N : n \in T
    <3> HIDE DEF T, N
    <3> QED  BY <1>2, <1>3, <1>4, UpTo
  <2> QED  BY <1>2, <2>1
<1>6. Begun(c, states, P) = StartTimes(c, states)
  <2>1. StartTimes(c, states) \subseteq AlarmTimes(c, states)
        /\ StartTimes(c, states) \subseteq Nat
    BY StartsAre
  <2>2. AlarmTimes(c, states) = {RowsOf(c)[i].at : i \in P}
    BY <1>2, AlarmTimesAre DEF AlarmsTo
  <2> QED  BY <2>1, <2>2 DEF Begun
<1>7. GoesOn(c, states, N) => EpisodeFrom(c, states, Newest(c, states, P)) = Partial(c, states, P)
                              /\ Newest(c, states, P) \in Begun(c, states, P)
  <2> SUFFICES ASSUME GoesOn(c, states, N)
               PROVE  /\ EpisodeFrom(c, states, Newest(c, states, P)) = Partial(c, states, P)
                      /\ Newest(c, states, P) \in Begun(c, states, P)
    OBVIOUS
  <2>1. P # {} /\ ~Beyond(RowsOf(c)[N].at, LastOf(c, P))  BY DEF GoesOn
  <2>2. Last(RowsOf(c)) = RowsOf(c)[N]  BY DEF Last
  <2>3. EpisodeFrom(c, states, Newest(c, states, P)) = [Partial(c, states, P) EXCEPT !.right = "unknown"]
    BY <1>2, <2>1, <2>2, NewestInTable
  <2>4. [Partial(c, states, P) EXCEPT !.right = "unknown"] = Partial(c, states, P)  BY DEF Partial
  <2>5. Newest(c, states, P) \in Begun(c, states, P)  BY <1>2, <2>1, NewestIs
  <2> QED  BY <2>3, <2>4, <2>5
<1>8. /\ f[N].open = IF GoesOn(c, states, N) THEN <<Partial(c, states, P)>> ELSE <<>>
      /\ f[N].closed = {EpisodeFrom(c, states, s) :
                         s \in {x \in Begun(c, states, P) :
                                  GoesOn(c, states, N) => x # Newest(c, states, P)}}
  BY <1>5 DEF IterInv
<1>9. Range(f[N].open) = IF GoesOn(c, states, N) THEN {Partial(c, states, P)} ELSE {}
  BY <1>8 DEF Range
<1>10. f[N].closed \cup Range(f[N].open) =
         {EpisodeFrom(c, states, s) : s \in StartTimes(c, states)}
  <2> HIDE DEF P, N
  <2> QED  BY <1>6, <1>7, <1>8, <1>9
<1> QED  BY <1>1, <1>10, TableIs

-----------------------------------------------------------------------------
(* Sums.                                                                    *)

\* The union of the sets F[i] with i in S.
All(F, S) == UNION {F[i] : i \in S}

\* The sum over a finite set of the sizes of disjoint finite sets is the size of
\* their union.
LEMMA SumOfDisjoint ==
  ASSUME NEW I, IsFiniteSet(I), NEW F, \A i \in I : IsFiniteSet(F[i]),
         \A i, j \in I : i # j => F[i] \cap F[j] = {}
  PROVE  SumFunction([i \in I |-> Cardinality(F[i])]) = Cardinality(All(F, I))
<1> DEFINE f == [i \in I |-> Cardinality(F[i])]
           Solves(it) == it = [S \in SUBSET I |->
             IF S = {} THEN 0
             ELSE f[CHOOSE x \in S : TRUE] + it[S \ {CHOOSE x \in S : TRUE}]]
           found == CHOOSE it : Solves(it)
           g == [S \in SUBSET I |-> Cardinality(All(F, S))]
<1>1. ASSUME NEW S \in SUBSET I, NEW x \in S
      PROVE  g[S] = f[x] + g[S \ {x}]
  <2> DEFINE R == S \ {x}
  <2>1. IsFiniteSet(F[x]) /\ IsFiniteSet(R) /\ R \in SUBSET I /\ x \in I  BY FS_Subset
  <2>2. IsFiniteSet(All(F, R))
    <3> DEFINE parts == {F[i] : i \in R}
    <3>1. IsFiniteSet(parts)
      <4>1. [i \in R |-> F[i]] \in Surjection(R, parts)  BY DEF Surjection
      <4> HIDE DEF R, parts
      <4> QED  BY <2>1, <4>1, FS_Surjection
    <3>2. \A T \in parts : IsFiniteSet(T)  OBVIOUS
    <3> HIDE DEF parts
    <3>3. IsFiniteSet(UNION parts)  BY <3>1, <3>2, FS_UNION
    <3> QED  BY <3>3 DEF All, parts
  <2>3. All(F, S) = F[x] \cup All(F, R)  BY DEF All
  <2>4. F[x] \cap All(F, R) = {}  BY DEF All
  <2> HIDE DEF R
  <2>5. /\ Cardinality(F[x] \cup All(F, R)) = Cardinality(F[x]) + Cardinality(All(F, R)) - 0
        /\ Cardinality(F[x]) \in Nat /\ Cardinality(All(F, R)) \in Nat
    <3> DEFINE U == F[x]
               W == All(F, R)
    <3>1. IsFiniteSet(U) /\ IsFiniteSet(W) /\ U \cap W = {}  BY <2>1, <2>2, <2>4
    <3> HIDE DEF U, W
    <3>2. Cardinality(U \cup W) = Cardinality(U) + Cardinality(W) - Cardinality(U \cap W)
      BY <3>1, FS_Union
    <3>3. Cardinality(U \cap W) = 0  BY <3>1, FS_EmptySet
    <3>4. Cardinality(U) \in Nat /\ Cardinality(W) \in Nat  BY <3>1, FS_CardinalityType
    <3> QED  BY <3>2, <3>3, <3>4 DEF U, W
  <2>6. g[S] = Cardinality(All(F, S)) /\ g[R] = Cardinality(All(F, R)) /\ f[x] = Cardinality(F[x])
    BY <2>1
  <2> HIDE DEF f, g
  <2>7. g[S] = f[x] + g[R]  BY <2>3, <2>5, <2>6
  <2> QED  BY <2>7 DEF R
<1>2. g[{}] = 0
  <2>1. All(F, {}) = {}  BY DEF All
  <2> QED  BY <2>1, FS_EmptySet
<1>3. Solves(g)
  <2> HIDE DEF f
  <2>1. ASSUME NEW S \in SUBSET I, S # {}
        PROVE  g[S] = f[CHOOSE x \in S : TRUE] + g[S \ {CHOOSE x \in S : TRUE}]
    <3>1. (CHOOSE x \in S : TRUE) \in S  BY <2>1
    <3> HIDE DEF g
    <3> QED  BY <1>1, <3>1
  <2>2. g = [S \in SUBSET I |-> g[S]]  OBVIOUS
  <2> HIDE DEF g
  <2> QED  BY <1>2, <2>1, <2>2
<1>4. Solves(found)
  <2> HIDE DEF Solves
  <2> QED  BY <1>3
<1>5. SumFunction(f) = found[I]
  <2>1. DOMAIN f = I  OBVIOUS
  <2> HIDE DEF f
  <2> QED  BY <2>1 DEF SumFunction, SumFunctionOnSet, FoldFunctionOnSet, MapThenFoldSet
<1> HIDE DEF found
<1> DEFINE Wrong == {S \in SUBSET I : found[S] # g[S]}
<1>6. Wrong = {}
  <2>1. SUFFICES ASSUME Wrong # {} PROVE FALSE  OBVIOUS
  <2> DEFINE Sizes == {Cardinality(S) : S \in Wrong}
  <2>2. \A S \in Wrong : IsFiniteSet(S) /\ Cardinality(S) \in Nat  BY FS_Subset, FS_CardinalityType
  <2>3. PICK k \in Sizes : \A n \in Sizes : k <= n
    <3>1. Sizes \subseteq Nat /\ Sizes # {}  BY <2>1, <2>2
    <3> HIDE DEF Sizes
    <3> QED  BY <3>1, LeastExists
  <2>4. PICK S \in Wrong : \A R \in Wrong : Cardinality(S) <= Cardinality(R)  BY <2>3
  <2>5. S # {}  BY <1>2, <1>4
  <2> DEFINE x == CHOOSE y \in S : TRUE
  <2>6. x \in S  BY <2>5
  <2>7. found[S] = f[x] + found[S \ {x}]  BY <1>4, <2>5
  <2> HIDE DEF x
  <2>8. S \ {x} \in SUBSET I /\ Cardinality(S \ {x}) = Cardinality(S) - 1
    BY <2>2, <2>6, FS_RemoveElement
  <2>9. S \ {x} \notin Wrong
    <3> SUFFICES ASSUME S \ {x} \in Wrong PROVE FALSE  OBVIOUS
    <3>1. Cardinality(S) <= Cardinality(S \ {x}) /\ Cardinality(S) \in Nat  BY <2>2, <2>4
    <3> HIDE DEF Wrong
    <3> QED  BY <2>8, <3>1
  <2>10. found[S \ {x}] = g[S \ {x}]  BY <2>8, <2>9
  <2>11. g[S] = f[x] + g[S \ {x}]  BY <1>1, <2>6
  <2>12. found[S] # g[S]  OBVIOUS
  <2> HIDE DEF f, g, Wrong
  <2> QED  BY <2>7, <2>10, <2>11, <2>12
<1>7. found[I] = g[I]  BY <1>6
<1> QED  BY <1>5, <1>7

-----------------------------------------------------------------------------
(* The data set and its labels.                                             *)

\* The gaps of the log in the month before a moment add up to a part of it.
LEMMA GapsFit ==
  ASSUME NEW t \in Int
  PROVE  GapTime(t) \in 0 .. Month
<1> DEFINE from == t - Month
           F == [g \in LogGaps |-> {x \in from .. t - 1 : g.from <= x /\ x < g.to}]
<1>1. Month \in Nat /\ from \in Int /\ t - 1 \in Int /\ (t - 1) - from + 1 = Month  BY Windows
<1>2. IsFiniteSet(from .. t - 1) /\ Cardinality(from .. t - 1) = Month
  <2>1. /\ IsFiniteSet(from .. t - 1)
        /\ Cardinality(from .. t - 1) = IF from > t - 1 THEN 0 ELSE (t - 1) - from + 1
    BY <1>1, FS_Interval
  <2>2. from > t - 1 => Month = 0  BY <1>1
  <2> HIDE DEF from
  <2> QED  BY <1>1, <2>1, <2>2
<1>3. ASSUME NEW g \in LogGaps
      PROVE  IsFiniteSet(F[g]) /\ Cardinality(F[g]) = Within(g, t - Month, t)
  <2>1. g.from \in Int /\ g.to \in Int  BY EpisodesAssumption DEF Times
  <2> DEFINE upper == IF g.to < t THEN g.to ELSE t
             lower == IF g.from > from THEN g.from ELSE from
  <2>2. upper \in Int /\ lower \in Int /\ upper - 1 \in Int  BY <1>1, <2>1
  <2>3. F[g] = lower .. upper - 1
    <3>1. F[g] = {x \in from .. t - 1 : g.from <= x /\ x < g.to}  OBVIOUS
    <3>2. ASSUME NEW x \in Int
          PROVE  (from <= x /\ x <= t - 1 /\ g.from <= x /\ x < g.to)
                 <=> (lower <= x /\ x <= upper - 1)
      <4> HIDE DEF from
      <4> QED  BY <1>1, <2>1
    <3> HIDE DEF from, lower, upper, F
    <3> QED  BY <1>1, <2>2, <3>1, <3>2
  <2>4. Within(g, t - Month, t) = IF upper > lower THEN upper - lower ELSE 0  BY DEF Within
  <2> HIDE DEF lower, upper, F
  <2>5. /\ IsFiniteSet(lower .. upper - 1)
        /\ Cardinality(lower .. upper - 1) =
             IF lower > upper - 1 THEN 0 ELSE (upper - 1) - lower + 1
    BY <2>2, FS_Interval
  <2> QED  BY <2>2, <2>3, <2>4, <2>5
<1>4. \A g, h \in LogGaps : g # h => F[g] \cap F[h] = {}
  <2> SUFFICES ASSUME NEW g \in LogGaps, NEW h \in LogGaps, g # h, NEW x \in F[g], x \in F[h]
               PROVE  FALSE
    OBVIOUS
  <2>1. g.to <= h.from \/ h.to <= g.from  BY EpisodesAssumption
  <2>2. g.from \in Int /\ g.to \in Int /\ h.from \in Int /\ h.to \in Int
    BY EpisodesAssumption DEF Times
  <2>3. x \in Int /\ g.from <= x /\ x < g.to /\ h.from <= x /\ x < h.to  BY <1>1
  <2> HIDE DEF F
  <2> QED  BY <2>1, <2>2, <2>3
<1>5. All(F, LogGaps) \subseteq from .. t - 1  BY DEF All
<1>6. [g \in LogGaps |-> Within(g, t - Month, t)] = [g \in LogGaps |-> Cardinality(F[g])]
  <2> HIDE DEF F
  <2> QED  BY <1>3
<1> HIDE DEF F
<1>7. SumFunction([g \in LogGaps |-> Cardinality(F[g])]) = Cardinality(All(F, LogGaps))
  BY <1>3, <1>4, SumOfDisjoint, EpisodesAssumption
<1>8. GapTime(t) = Cardinality(All(F, LogGaps))  BY <1>6, <1>7 DEF GapTime
<1> HIDE DEF from
<1>9. IsFiniteSet(All(F, LogGaps)) /\ Cardinality(All(F, LogGaps)) <= Month
  BY <1>2, <1>5, FS_Subset
<1>10. Cardinality(All(F, LogGaps)) \in Nat  BY <1>9, FS_CardinalityType
<1> QED  BY <1>1, <1>8, <1>9, <1>10

LEMMA MonthIs == ASSUME NEW k \in Nat, NEW a \in Int, a < Month, k * Day <= a PROVE k <= MonthDays - 1
<1>1. SUFFICES ASSUME MonthDays <= k PROVE FALSE  BY Settings
<1>2. MonthDays * Day <= k * Day /\ MonthDays * Day \in Int /\ k * Day \in Int
  BY <1>1, Settings, TimesMonotone, TimesInt
<1> QED  BY <1>2 DEF Month

\* Days with records of a month are among its days.
LEMMA DaysFit ==
  ASSUME JournalInv, NEW c \in channels, NEW d \in Int, InWindow(c, d, Month) # {}
  PROVE  Cardinality({(d - At(RowsOf(c), i)) \div Day : i \in InWindow(c, d, Month)})
           \in 1 .. MonthDays
<1> DEFINE W == InWindow(c, d, Month)
           S == {(d - At(RowsOf(c), i)) \div Day : i \in W}
<1>1. Month \in Nat /\ MonthDays \in Nat /\ Day \in Nat \ {0}  BY Windows, Settings
<1>2. ASSUME NEW i \in W PROVE (d - At(RowsOf(c), i)) \div Day \in 0 .. MonthDays - 1
  <2> DEFINE a == d - At(RowsOf(c), i)
             k == a \div Day
  <2>1. At(RowsOf(c), i) \in Nat /\ At(RowsOf(c), i) <= d /\ d - Month < At(RowsOf(c), i)
    BY <1>1, WindowIs
  <2>2. a \in Nat /\ a < Month  BY <1>1, <2>1
  <2> HIDE DEF a
  <2>3. k \in Int /\ k * Day <= a /\ a < k * Day + Day /\ k \in Nat  BY <1>1, <2>2, DivIs
  <2> HIDE DEF k
  <2>4. k <= MonthDays - 1  BY <2>2, <2>3, MonthIs
  <2> QED  BY <1>1, <2>3, <2>4 DEF a, k
<1>3. S \subseteq 0 .. MonthDays - 1 /\ S # {}  BY <1>2
<1> HIDE DEF S
<1>4. IsFiniteSet(0 .. MonthDays - 1) /\ Cardinality(0 .. MonthDays - 1) = MonthDays
  <2>1. 0 \in Int /\ MonthDays - 1 \in Int /\ ~(0 > MonthDays - 1) /\ MonthDays - 1 - 0 + 1 = MonthDays
    BY Settings
  <2> QED  BY <2>1, FS_Interval
<1>5. IsFiniteSet(S) /\ Cardinality(S) <= MonthDays  BY <1>3, <1>4, FS_Subset
<1>6. Cardinality(S) \in Nat /\ Cardinality(S) # 0  BY <1>3, <1>5, FS_CardinalityType, FS_EmptySet
<1> QED  BY <1>1, <1>5, <1>6 DEF S

LEMMA WiderHasMore ==
  ASSUME JournalInv, NEW c \in channels, NEW t \in Int, NEW a \in Int, NEW b \in Int, a <= b
  PROVE  /\ Cardinality(InWindow(c, t, a)) <= Cardinality(InWindow(c, t, b))
         /\ Cardinality(AlarmsIn(c, t, a)) <= Cardinality(AlarmsIn(c, t, b))
         /\ Cardinality(AlarmsIn(c, t, b)) <= Cardinality(InWindow(c, t, b))
         /\ Cardinality(InWindow(c, t, b)) \in Nat
<1>1. InWindow(c, t, a) \subseteq InWindow(c, t, b)
  <2>1. \A i \in InWindow(c, t, a) : At(RowsOf(c), i) \in Nat  BY WindowIs
  <2> QED  BY <2>1 DEF InWindow
<1>2. AlarmsIn(c, t, a) \subseteq AlarmsIn(c, t, b)  BY <1>1 DEF AlarmsIn
<1>3. AlarmsIn(c, t, b) \subseteq InWindow(c, t, b)  BY DEF AlarmsIn
<1>4. IsFiniteSet(InWindow(c, t, b)) /\ IsFiniteSet(AlarmsIn(c, t, b))  BY WindowIs
<1> QED  BY <1>1, <1>2, <1>3, <1>4, FS_Subset, FS_CardinalityType

LEMMA DatasetIsValid ==
  ASSUME JournalInv, NEW c \in channels, NEW d \in Grid(c)
  PROVE  DatasetValid(c, d)
<1> DEFINE v == Values(c, d)
<1>1. Midnight(d) /\ d \in Int /\ InWindow(c, d, Month) # {}  BY GridIs
<1>2. Trained(c, d) = v  BY <1>1, TrainedAsServed
<1>3. Day \in Int /\ Week \in Int /\ Month \in Int /\ Day <= Week /\ Week <= Month
  BY Windows, Settings
<1>4. v.events[1] <= v.events[2] /\ v.alarms[1] <= v.alarms[2]
  <2>1. /\ Cardinality(InWindow(c, d, Day)) <= Cardinality(InWindow(c, d, Week))
        /\ Cardinality(AlarmsIn(c, d, Day)) <= Cardinality(AlarmsIn(c, d, Week))
    BY <1>1, <1>3, WiderHasMore
  <2> QED  BY <2>1, EventsAre
<1>5. v.events[2] <= v.events[3] /\ v.alarms[2] <= v.alarms[3] /\ v.alarms[3] <= v.events[3]
      /\ v.events[3] \in Nat
  <2>1. /\ Cardinality(InWindow(c, d, Week)) <= Cardinality(InWindow(c, d, Month))
        /\ Cardinality(AlarmsIn(c, d, Week)) <= Cardinality(AlarmsIn(c, d, Month))
        /\ Cardinality(AlarmsIn(c, d, Month)) <= Cardinality(InWindow(c, d, Month))
        /\ Cardinality(InWindow(c, d, Month)) \in Nat
    BY <1>1, <1>3, WiderHasMore
  <2> QED  BY <2>1, EventsAre
<1>6. v.events[3] >= 1
  <2>1. v.events[3] # 0  BY <1>1, NoEvents
  <2> HIDE DEF v
  <2> QED  BY <1>5, <2>1
<1>7. 0 <= v.age /\ v.age < Month
  <2> DEFINE W == InWindow(c, d, Month)
             S == {At(RowsOf(c), i) : i \in W}
  <2>1. v.age = d - Max(S)  BY <1>1, EventsAre DEF AgeOf
  <2>2. \A i \in W : At(RowsOf(c), i) \in Nat /\ At(RowsOf(c), i) <= d
                     /\ d - Month < At(RowsOf(c), i)
    BY <1>1, <1>3, WindowIs
  <2>3. S \subseteq Int /\ S # {} /\ \A x \in S : x <= d /\ d - Month < x  BY <1>1, <2>2
  <2> HIDE DEF S, v
  <2>4. Max(S) \in S  BY <1>1, <2>3, MaxIs
  <2>5. Max(S) \in Int /\ Max(S) <= d /\ d - Month < Max(S)  BY <2>3, <2>4
  <2> QED  BY <1>1, <1>3, <2>1, <2>5
<1>8. v.days \in 1 .. MonthDays
  <2>1. Cardinality({(d - At(RowsOf(c), i)) \div Day : i \in InWindow(c, d, Month)})
          \in 1 .. MonthDays
    BY <1>1, DaysFit
  <2> QED  BY <2>1, EventsAre
<1>9. v.gaps \in 0 .. Month
  <2>1. GapTime(d) \in 0 .. Month  BY <1>1, GapsFit
  <2> QED  BY <2>1, EventsAre
<1> HIDE DEF v
<1> QED  BY <1>2, <1>4, <1>5, <1>6, <1>7, <1>8, <1>9 DEF DatasetValid

\* Early enough in a channel's history no episode is of unknown beginning.
LEMMA NoUncertainFirst ==
  ASSUME JournalInv, NEW c \in channels, RowsOf(c) # <<>>, NEW states, NEW d, Midnight(d),
         FirstOf(c) <= d - Day
  PROVE  /\ Future(c, states, d, "unknown") = {}
         /\ Future(c, states, d, "observed_quiet_gap") # {} <=>
              \E s \in StartTimes(c, states) : d < s /\ s <= d + Day
<1>1. d \in Int /\ Day \in Nat /\ Gap \in Nat /\ Gap < Day  BY MidnightIs, Settings
<1>2. FirstOf(c) \in Int
  <2>1. 1 \in DOMAIN RowsOf(c)  BY RowsAre
  <2> QED  BY <2>1, RowsAre DEF FirstOf
<1>3. ASSUME NEW s \in StartTimes(c, states) PROVE DayOf(s) - Day = d <=> d < s /\ s <= d + Day
  <2>1. s \in Int  BY StartsAre
  <2>2. d + Day = d - (0 - 1) * Day
    <3>1. (0 - 1) * Day = 0 * Day - 1 * Day /\ 0 * Day = 0 /\ 1 * Day = Day
      BY Settings, TimesLess
    <3> QED  BY <1>1, <3>1
  <2>3. Midnight(d + Day) /\ d + Day \in Int  BY <1>1, <2>2, MidnightBefore
  <2>4. DayOf(s) <= d <=> s <= d  BY <2>1, DayBefore
  <2>5. DayOf(s) <= d + Day <=> s <= d + Day  BY <2>1, <2>3, DayBefore
  <2>6. DayOf(s) \in Int /\ Midnight(DayOf(s))  BY <2>1, DayIs
  <2>7. d < DayOf(s) => d + Day <= DayOf(s)  BY <2>6, MidnightsApart
  <2> QED  BY <1>1, <2>1, <2>3, <2>4, <2>5, <2>6, <2>7
<1>4. ASSUME NEW s \in StartTimes(c, states), d < s
      PROVE  EpisodeFrom(c, states, s).left = "observed_quiet_gap"
  <2>1. s \in Int  BY StartsAre
  <2>2. Beyond(s, RowsOf(c)[1].at)  BY <1>1, <1>2, <1>4, <2>1 DEF Beyond, FirstOf
  <2> QED  BY <2>2 DEF EpisodeFrom
<1>5. \A boundary : Future(c, states, d, boundary) =
        {e \in {EpisodeFrom(c, states, s) : s \in StartTimes(c, states)} :
           DayOf(e.first) - Day = d /\ e.left = boundary}
  BY TableIs DEF Future
<1>6. ASSUME NEW e \in Future(c, states, d, "unknown") PROVE FALSE
  <2>1. PICK s \in StartTimes(c, states) : e = EpisodeFrom(c, states, s)  BY <1>5
  <2>2. e.first = s /\ DayOf(e.first) - Day = d /\ e.left = "unknown"  BY <1>5, <2>1, FirstIs
  <2> QED  BY <1>3, <1>4, <2>1, <2>2
<1>7. ASSUME NEW e \in Future(c, states, d, "observed_quiet_gap")
      PROVE  \E s \in StartTimes(c, states) : d < s /\ s <= d + Day
  <2>1. PICK s \in StartTimes(c, states) : e = EpisodeFrom(c, states, s)  BY <1>5
  <2>2. e.first = s /\ DayOf(e.first) - Day = d  BY <1>5, <2>1, FirstIs
  <2> QED  BY <1>3, <2>1, <2>2
<1>8. ASSUME NEW s \in StartTimes(c, states), d < s, s <= d + Day
      PROVE  Future(c, states, d, "observed_quiet_gap") # {}
  <2>1. DayOf(EpisodeFrom(c, states, s).first) - Day = d  BY <1>3, <1>8, FirstIs
  <2>2. EpisodeFrom(c, states, s).left = "observed_quiet_gap"  BY <1>4, <1>8
  <2>3. EpisodeFrom(c, states, s) \in Future(c, states, d, "observed_quiet_gap")
    BY <1>5, <2>1, <2>2
  <2> QED  BY <2>3
<1> QED  BY <1>6, <1>7, <1>8

\* Unless an episode goes on, the first alarm after a midnight starts one.
LEMMA NextAlarmStarts ==
  ASSUME JournalInv, NEW c \in channels, NEW states, states \subseteq AnyAlarm,
         NEW d, Midnight(d), ~ActiveAlarm(c, d)
  PROVE  (\E s \in StartTimes(c, states) : d < s /\ s <= d + Day) <=>
         (\E a \in AlarmTimes(c, states) : d < a /\ a <= d + Day)
<1> DEFINE A == AlarmTimes(c, states)
           T == {a \in A : d < a}
<1>1. d \in Int /\ Day \in Nat /\ Gap \in Nat /\ Gap < Month /\ Month \in Nat
  BY MidnightIs, Settings, Windows
<1>2. A \subseteq Nat  BY AlarmTimesAre
<1>3. ASSUME NEW p \in A, p <= d, d - Month < p PROVE d - p > Gap
  <2> DEFINE W == AlarmsIn(c, d, Month)
             S == {At(RowsOf(c), i) : i \in W}
             age == AlarmAge(c, d)
  <2>1. PICK i \in DOMAIN RowsOf(c) : RowsOf(c)[i].raw \in states /\ p = RowsOf(c)[i].at
    BY AlarmTimesAre
  <2>2. i \in W  BY <1>3, <2>1 DEF AlarmsIn, InWindow, Alarming, At
  <2>a. \A j \in W : j \in InWindow(c, d, Month)  BY DEF AlarmsIn
  <2>b. Month \in Int  BY <1>1
  <2>c. \A j \in InWindow(c, d, Month) :
          At(RowsOf(c), j) \in Nat /\ At(RowsOf(c), j) <= d
    BY <1>1, <2>b, WindowIs
  <2> HIDE DEF W
  <2>3. \A j \in W : At(RowsOf(c), j) \in Nat /\ At(RowsOf(c), j) <= d
    BY <2>a, <2>c
  <2> USE DEF W
  <2>4. p \in S  BY <2>1, <2>2 DEF At
  <2>5. S \subseteq Int /\ S # {} /\ \A x \in S : x <= d /\ 0 <= x  BY <1>1, <2>3, <2>4
  <2>6. age = d - Max(S)  BY <2>2, AlarmAgeIs DEF AgeOf
  <2> HIDE DEF S, age
  <2>7. Max(S) \in S /\ p <= Max(S)  BY <1>1, <2>4, <2>5, MaxIs
  <2>8. Max(S) \in Int /\ Max(S) <= d /\ p \in Nat  BY <1>2, <2>5, <2>7
  <2>9. age # None  BY <1>1, <2>6, <2>8 DEF None
  <2>10. ~(age <= Gap)  BY <2>9 DEF ActiveAlarm, age
  <2> QED  BY <1>1, <2>6, <2>7, <2>8, <2>10
<1>4. ASSUME NEW p \in A, p <= d PROVE d - p > Gap
  <2>1. p \in Nat  BY <1>2
  <2> QED  BY <1>1, <1>3, <1>4, <2>1
<1>5. ASSUME NEW a \in A, d < a, a <= d + Day
      PROVE  \E s \in StartTimes(c, states) : d < s /\ s <= d + Day
  <2>1. PICK m \in T : \A x \in T : m <= x
    <3>1. T \subseteq Nat /\ T # {}  BY <1>2, <1>5
    <3> HIDE DEF T
    <3> QED  BY <3>1, LeastExists
  <2>2. m \in Nat /\ m \in A /\ d < m /\ m <= a /\ a \in Nat  BY <1>2, <1>5, <2>1
  <2>3. ASSUME NEW p \in A, p < m PROVE Beyond(m, p)
    <3>1. p \in Nat /\ ~(d < p)  BY <1>2, <2>1, <2>2, <2>3
    <3>2. d - p > Gap  BY <1>1, <1>4, <3>1
    <3> HIDE DEF A, T
    <3> QED  BY <1>1, <2>2, <3>1, <3>2 DEF Beyond
  <2>4. m \in StartTimes(c, states)  BY <2>2, <2>3 DEF StartTimes
  <2>5. m <= d + Day  BY <1>1, <1>5, <2>2
  <2> QED  BY <2>2, <2>4, <2>5
<1> QED  BY <1>5, StartsAre

LEMMA LabelsAreSound ==
  ASSUME JournalInv, NEW c \in Recorded, NEW d \in ExampleDays(c)
  PROVE  LET reason == Exclusion(c, d)
             Follows(states) == \E a \in AlarmTimes(c, states) : d < a /\ a <= d + Day
         IN  /\ DatasetValid(c, d)
             /\ reason # "uncertain_first_episode"
             /\ reason = "none" =>
                  /\ Label(c, d) <=> Follows(AnyAlarm)
                  /\ ClassLabel(c, d) = IF Follows(IncidentStates) THEN "positive" ELSE "negative"
<1> DEFINE reason == Exclusion(c, d)
           Follows(states) == \E a \in AlarmTimes(c, states) : d < a /\ a <= d + Day
<1>1. c \in channels /\ RowsOf(c) # <<>> /\ d \in Grid(c)  BY DEF Recorded, ExampleDays
<1>2. Midnight(d) /\ d \in Int /\ FirstOf(c) \in Int  BY <1>1, GridIs
<1>3. DatasetValid(c, d)  BY <1>1, DatasetIsValid
<1>4. ASSUME reason \in {"uncertain_first_episode", "none"}
      PROVE  FirstOf(c) <= d - Day /\ ~ActiveAlarm(c, d)
  <2>1. ~(d - Day < FirstOf(c)) /\ ~ActiveAlarm(c, d)  BY <1>4, ExclusionIs
  <2> QED  BY <1>2, <2>1, Settings
<1>5. ASSUME reason = "uncertain_first_episode" PROVE FALSE
  <2>1. Future(c, AnyAlarm, d, "unknown") # {}  BY <1>5, ExclusionIs
  <2> HIDE DEF reason
  <2> QED  BY <1>1, <1>2, <1>4, <1>5, <2>1, NoUncertainFirst
<1>6. ASSUME reason = "none", NEW states, states \subseteq AnyAlarm
      PROVE  /\ Future(c, states, d, "unknown") = {}
             /\ Future(c, states, d, "observed_quiet_gap") # {} <=> Follows(states)
  <2>1. FirstOf(c) <= d - Day /\ ~ActiveAlarm(c, d)
    <3> HIDE DEF reason
    <3> QED  BY <1>4, <1>6
  <2>2. /\ Future(c, states, d, "unknown") = {}
        /\ Future(c, states, d, "observed_quiet_gap") # {} <=>
             \E s \in StartTimes(c, states) : d < s /\ s <= d + Day
    BY <1>1, <1>2, <2>1, NoUncertainFirst
  <2>3. (\E s \in StartTimes(c, states) : d < s /\ s <= d + Day) <=> Follows(states)
    BY <1>1, <1>2, <1>6, <2>1, NextAlarmStarts
  <2> QED  BY <2>2, <2>3
<1>7. ASSUME reason = "none"
      PROVE  /\ Label(c, d) <=> Follows(AnyAlarm)
             /\ ClassLabel(c, d) = IF Follows(IncidentStates) THEN "positive" ELSE "negative"
  <2>1. Future(c, AnyAlarm, d, "observed_quiet_gap") # {} <=> Follows(AnyAlarm)  BY <1>6, <1>7
  <2>2. IncidentStates \subseteq AnyAlarm  BY DEF IncidentStates, AnyAlarm
  <2>3. /\ Future(c, IncidentStates, d, "unknown") = {}
        /\ Future(c, IncidentStates, d, "observed_quiet_gap") # {} <=> Follows(IncidentStates)
    BY <1>6, <1>7, <2>2
  <2> HIDE DEF Follows
  <2> QED  BY <2>1, <2>3 DEF Label, ClassLabel
<1> QED  BY <1>3, <1>5, <1>7

LEMMA LabelsSoundHolds == JournalInv => LabelsSound
<1> SUFFICES ASSUME JournalInv PROVE LabelsSound  OBVIOUS
<1>1. EpisodesAgree  BY EpisodesAlwaysAgree DEF EpisodesAgree, Recorded
<1> QED  BY <1>1, LabelsAreSound DEF LabelsSound

\* A label says what is recorded in the day after the example, and both programs
\* find the same episodes: in every journal, however long.
THEOREM LabelsAreTrue == ReadsSpec => []LabelsSound
BY JournalInvHolds, LabelsSoundHolds, PTL

-----------------------------------------------------------------------------
(* The series a reader is shown.                                            *)

Keep(kept, r, from, to) == IF from <= r.at /\ r.at <= to THEN Append(kept, r) ELSE kept

\* The readings kept of the first n rows.
LEMMA LoadSteps ==
  ASSUME JournalInv, NEW c \in channels, NEW from, NEW to
  PROVE  \E f \in [0 .. Len(RowsOf(c)) -> Seq(Reading)] :
           /\ f[0] = <<>>
           /\ \A n \in 1 .. Len(RowsOf(c)) : f[n] = Keep(f[n - 1], RowsOf(c)[n], from, to)
           /\ LoadReadings(c, from, to) = f[Len(RowsOf(c))]
<1> DEFINE s == RowsOf(c)
           N == Len(s)
           A == Seq(Reading)
           G == [p \in (1 .. N) \X A |-> Keep(p[2], s[p[1]], from, to)]
           Solves(it) == it = [S \in SUBSET (1 .. N) |->
             IF S = {} THEN <<>>
             ELSE IF from <= s[Max(S)].at /\ s[Max(S)].at <= to
                  THEN Append(it[S \ {Max(S)}], s[Max(S)]) ELSE it[S \ {Max(S)}]]
           found == CHOOSE it : Solves(it)
<1>1. DOMAIN s = 1 .. N /\ N \in Nat /\ \A i \in 1 .. N : s[i] \in Reading  BY RowsAre
<1>2. <<>> \in A  OBVIOUS
<1>3. \A n \in 1 .. N, kept \in A : Keep(kept, s[n], from, to) \in A  BY <1>1 DEF Keep
<1>4. G \in [(1 .. N) \X A -> A]
  <2> HIDE DEF A, N, s
  <2> QED  BY <1>3
<1>5. \A S \in SUBSET (1 .. N) : S # {} => Max(S) \in 1 .. N
  <2> SUFFICES ASSUME NEW S \in SUBSET (1 .. N), S # {} PROVE Max(S) \in 1 .. N  OBVIOUS
  <2>1. S \subseteq Int /\ N \in Int /\ \A x \in S : x <= N  BY <1>1
  <2>2. Max(S) \in S  BY <2>1, MaxIs
  <2> QED  BY <2>2
<1>6. PICK g \in [SUBSET (1 .. N) -> A] : Folds(g, G, <<>>, N)
  <2> HIDE DEF A, G, N
  <2> QED  BY <1>1, <1>2, <1>4, FoldExists
<1>7. Solves(g)
  <2>1. ASSUME NEW S \in SUBSET (1 .. N)
        PROVE  g[S] = IF S = {} THEN <<>> ELSE Keep(g[S \ {Max(S)}], s[Max(S)], from, to)
    <3> HIDE DEF A
    <3>1. S # {} => g[S \ {Max(S)}] \in A /\ Max(S) \in 1 .. N  BY <1>5
    <3>2. S # {} => G[<<Max(S), g[S \ {Max(S)}]>>] =
                    Keep(g[S \ {Max(S)}], s[Max(S)], from, to)
      BY <3>1
    <3> HIDE DEF G
    <3> QED  BY <1>6, <3>2 DEF Folds
  <2> QED  BY <2>1 DEF Keep
<1>8. Solves(found)
  <2> HIDE DEF Solves
  <2> QED  BY <1>7
<1>9. LoadReadings(c, from, to) = found[1 .. N]
  BY <1>1 DEF LoadReadings, FoldLeft, MapThenFoldSet
<1> HIDE DEF found
<1>10. found[{}] = <<>>  BY <1>8
<1>11. ASSUME NEW S \in SUBSET (1 .. N), S # {}, found[S \ {Max(S)}] \in A
       PROVE  found[S] = G[<<Max(S), found[S \ {Max(S)}]>>]
  <2>1. found[S] = Keep(found[S \ {Max(S)}], s[Max(S)], from, to)  BY <1>8, <1>11 DEF Keep
  <2>2. Max(S) \in 1 .. N  BY <1>5, <1>11
  <2> HIDE DEF Solves, A
  <2> QED  BY <1>11, <2>1, <2>2
<1>12. PICK f \in [0 .. N -> A] : StepBy(f, G, <<>>, N) /\ f[N] = found[1 .. N]
  <2> HIDE DEF A, G, N, Solves
  <2>1. FoldsIn(found, G, A, N)  BY <1>11 DEF FoldsIn
  <2>2. HasSteps(found, G, A, <<>>, N)
    BY <1>1, <1>2, <1>4, <1>10, <2>1, FoldSteps
  <2> QED  BY <2>2 DEF HasSteps
<1>13. \A n \in 1 .. N : f[n] = Keep(f[n - 1], s[n], from, to)
  <2> SUFFICES ASSUME NEW n \in 1 .. N PROVE f[n] = Keep(f[n - 1], s[n], from, to)  OBVIOUS
  <2> HIDE DEF A
  <2>1. n - 1 \in 0 .. N  BY <1>1
  <2>2. f[n - 1] \in A  BY <2>1
  <2> QED  BY <1>12, <2>2 DEF StepBy
<1> HIDE DEF G, N, Solves
<1> QED  BY <1>9, <1>12, <1>13 DEF N, StepBy

\* The readings of a range are in the order of their times.
LEMMA LoadIs ==
  ASSUME JournalInv, NEW c \in channels, NEW from, NEW to
  PROVE  LoadReadings(c, from, to) \in Ordered
<1> DEFINE s == RowsOf(c)
           N == Len(s)
<1>1. PICK f \in [0 .. N -> Seq(Reading)] :
        /\ f[0] = <<>>
        /\ \A n \in 1 .. N : f[n] = Keep(f[n - 1], s[n], from, to)
        /\ LoadReadings(c, from, to) = f[N]
  BY LoadSteps
<1>2. N \in Nat /\ InTime(s) /\ DOMAIN s = 1 .. N
      /\ \A i \in 1 .. N : s[i] \in Reading /\ s[i].at \in Nat
  BY RowsAre
<1> DEFINE T == {n \in 0 .. N :
             f[n] \in Ordered /\ \A i \in DOMAIN f[n], j \in n .. N : 1 <= j => f[n][i].at <= s[j].at}
<1>3. 0 \in T
  <2>1. <<>> \in Ordered /\ DOMAIN <<>> = {}  BY DEF Ordered, InTime
  <2> QED  BY <1>1, <1>2, <2>1
<1>4. ASSUME NEW n \in 0 .. N - 1, n \in T PROVE n + 1 \in T
  <2> DEFINE m == n + 1
             r == s[m]
             k == f[n]
  <2>1. m \in 1 .. N /\ m \in 0 .. N /\ m - 1 = n /\ n \in 0 .. N  BY <1>2
  <2>2. f[m] = Keep(k, r, from, to)  BY <1>1, <2>1
  <2>3. r \in Reading /\ k \in Ordered /\ k \in Seq(Reading)  BY <1>2, <1>4, <2>1 DEF Ordered
  <2>4. \A i \in DOMAIN k, j \in m .. N : k[i].at <= s[j].at  BY <1>2, <1>4, <2>1
  <2>5. k = <<>> \/ k[Len(k)].at <= r.at
    <3>1. m \in m .. N  BY <2>1
    <3>2. k # <<>> => Len(k) \in DOMAIN k  BY <2>3
    <3> HIDE DEF m, k
    <3> QED  BY <2>4, <3>1, <3>2
  <2>6. Append(k, r) \in Ordered
    <3> HIDE DEF m, k, r
    <3> QED  BY <2>3, <2>5, AppendOrdered
  <2>7. \A j \in m .. N : r.at <= s[j].at
    <3>1. \A j \in m .. N : j \in 1 .. N /\ m <= j  BY <1>2, <2>1
    <3> HIDE DEF m
    <3> QED  BY <1>2, <2>1, <3>1 DEF InTime
  <2>8. \A i \in DOMAIN Append(k, r), j \in m .. N : Append(k, r)[i].at <= s[j].at
    <3> SUFFICES ASSUME NEW i \in DOMAIN Append(k, r), NEW j \in m .. N
                 PROVE  Append(k, r)[i].at <= s[j].at
      OBVIOUS
    <3>1. (i \in DOMAIN k /\ Append(k, r)[i] = k[i]) \/ Append(k, r)[i] = r
      <4> HIDE DEF k, r, m
      <4> QED  BY <2>3
    <3> HIDE DEF k, r, m
    <3> QED  BY <2>4, <2>7, <3>1
  <2>9. f[m] \in Ordered /\ \A i \in DOMAIN f[m], j \in m .. N : f[m][i].at <= s[j].at
    <3> HIDE DEF k, r, m
    <3> QED  BY <2>2, <2>3, <2>4, <2>6, <2>8 DEF Keep
  <2> QED  BY <2>1, <2>9
<1>5. N \in T
  <2> HIDE DEF T, N
  <2>1. \A n \in 0 .. N : n \in T  BY <1>2, <1>3, <1>4, UpTo
  <2> QED  BY <1>2, <2>1
<1> QED  BY <1>1, <1>5

\* A moment lies between neighbours too far apart exactly when the readings
\* around it are.
LEMMA MissingIs ==
  ASSUME NEW kept \in Ordered, NEW t \in Int
  PROVE  (\E m \in Missing(kept) : m.from <= t /\ t < m.to) <=>
         \E p, q \in {r.at : r \in Range(kept)} :
           /\ p <= t /\ t < q /\ q - p > Silence
           /\ \A r \in {x.at : x \in Range(kept)} : r <= p \/ q <= r
<1> DEFINE N == Len(kept)
           at(i) == kept[i].at
           times == {r.at : r \in Range(kept)}
           Silent == \E p, q \in times :
             /\ p <= t /\ t < q /\ q - p > Silence
             /\ \A r \in times : r <= p \/ q <= r
<1>1. /\ kept \in Seq(Reading) /\ InTime(kept) /\ N \in Nat /\ DOMAIN kept = 1 .. N
      /\ \A i \in 1 .. N : kept[i] \in Reading /\ at(i) \in Nat
  BY ReadingIs DEF Ordered
<1>2. times = {at(i) : i \in 1 .. N}  BY <1>1 DEF Range
<1>3. \A i, j \in 1 .. N : i <= j => at(i) <= at(j)  BY <1>1 DEF InTime
<1>4. \A i \in 1 .. N : at(i) \in Nat  BY <1>1
<1>5. Missing(kept) = {[from |-> at(i), to |-> at(i + 1)] :
                         i \in {j \in 1 .. N - 1 : at(j + 1) - at(j) > Silence}}
  BY DEF Missing
<1>6. Silence \in Nat  BY SeriesAssumption
<1> HIDE DEF N, at, times
<1>7. ASSUME NEW m \in Missing(kept), m.from <= t, t < m.to PROVE Silent
  <2>1. PICK i \in 1 .. N - 1 : at(i + 1) - at(i) > Silence /\ m.from = at(i) /\ m.to = at(i + 1)
    BY <1>5
  <2>2. i \in 1 .. N /\ i + 1 \in 1 .. N  BY <1>1
  <2>3. at(i) \in times /\ at(i + 1) \in times  BY <1>2, <2>2
  <2>4. ASSUME NEW r \in times PROVE r <= at(i) \/ at(i + 1) <= r
    <3>1. PICK k \in 1 .. N : r = at(k)  BY <1>2
    <3>2. k <= i \/ i + 1 <= k  BY <1>1
    <3> QED  BY <1>3, <2>2, <3>1, <3>2
  <2> QED  BY <1>7, <2>1, <2>3, <2>4
<1>8. ASSUME Silent PROVE \E m \in Missing(kept) : m.from <= t /\ t < m.to
  <2>1. PICK p \in times, q \in times :
          /\ p <= t /\ t < q /\ q - p > Silence
          /\ \A r \in times : r <= p \/ q <= r
    BY <1>8
  <2>2. PICK a \in 1 .. N, b \in 1 .. N : p = at(a) /\ q = at(b)  BY <1>2
  <2> DEFINE K == {k \in 1 .. N : at(k) <= t}
             i == Max(K)
  <2>3. K \subseteq Int /\ a \in K /\ N \in Int /\ \A x \in K : x <= N  BY <1>1, <2>1, <2>2
  <2>4. i \in K /\ a <= i
    <3> HIDE DEF K
    <3>1. K # {}  BY <2>3
    <3> QED  BY <2>3, <3>1, MaxIs
  <2>5. \A k \in K : k <= i
    <3> HIDE DEF K
    <3>1. K # {}  BY <2>3
    <3> QED  BY <2>3, <3>1, MaxIs
  <2>6. i \in 1 .. N /\ at(i) <= t /\ p <= at(i)
    <3>1. i \in 1 .. N /\ at(i) <= t  BY <2>4
    <3> HIDE DEF i
    <3> QED  BY <1>3, <2>2, <2>4, <3>1
  <2>7. i < b
    <3>1. ~(at(b) <= at(i))
      <4> HIDE DEF i
      <4> QED  BY <1>4, <2>1, <2>2, <2>6
    <3> HIDE DEF i
    <3> QED  BY <1>1, <1>3, <2>2, <2>6, <3>1
  <2> HIDE DEF i
  <2>8. i \in 1 .. N - 1 /\ i + 1 \in 1 .. N /\ i + 1 <= b  BY <1>1, <2>6, <2>7
  <2>9. t < at(i + 1) /\ at(i + 1) <= q
    <3>1. i + 1 \notin K  BY <2>5, <2>8
    <3>2. at(i + 1) <= q  BY <1>3, <2>2, <2>8
    <3> QED  BY <1>4, <2>8, <3>1, <3>2
  <2>10. at(i) \in times /\ at(i + 1) \in times  BY <1>2, <2>6, <2>8
  <2>11. at(i) = p /\ at(i + 1) = q
    <3>1. at(i) <= p \/ q <= at(i)  BY <2>1, <2>10
    <3>2. at(i + 1) <= p \/ q <= at(i + 1)  BY <2>1, <2>10
    <3>3. at(i) \in Nat /\ at(i + 1) \in Nat /\ p \in Nat /\ q \in Nat  BY <1>4, <2>2, <2>6, <2>8
    <3> QED  BY <2>1, <2>6, <2>9, <3>1, <3>2, <3>3
  <2>12. [from |-> at(i), to |-> at(i + 1)] \in Missing(kept)  BY <1>5, <2>1, <2>8, <2>11
  <2> QED  BY <2>1, <2>11, <2>12
<1> QED  BY <1>7, <1>8 DEF times

\* Of the buckets one holds a time: the one it is put into.
LEMMA BucketIs ==
  ASSUME NEW at \in Nat, NEW g \in Nat \ {0}
  PROVE  /\ BucketStart(at, g) <= at /\ at < BucketStart(at, g) + g
         /\ BucketStart(at, g) \in Int
         /\ \A x \in Nat : (/\ BucketStart(x, g) <= at
                            /\ at < BucketStart(x, g) + g) => BucketStart(x, g) = BucketStart(at, g)
<1>1. \A x \in Nat : BucketStart(x, g) = (x \div g) * g /\ x \div g \in Int
  <2> SUFFICES ASSUME NEW x \in Nat PROVE BucketStart(x, g) = (x \div g) * g /\ x \div g \in Int
    OBVIOUS
  <2>1. x % g \in 0 .. g - 1 /\ x = g * (x \div g) + (x % g) /\ x \div g \in Int  OBVIOUS
  <2>2. g * (x \div g) = (x \div g) * g  BY <2>1
  <2>3. g * (x \div g) \in Int  BY <2>1
  <2> QED  BY <2>1, <2>2, <2>3 DEF BucketStart
<1>2. (at \div g) * g <= at /\ at < (at \div g) * g + g  BY DivIs
<1>3. (at \div g) * g \in Int  BY <1>1, TimesInt
<1>4. ASSUME NEW x \in Nat, BucketStart(x, g) <= at, at < BucketStart(x, g) + g
      PROVE  BucketStart(x, g) = BucketStart(at, g)
  <2> DEFINE k == x \div g
             j == at \div g
  <2>1. k \in Int /\ j \in Int /\ k * g \in Int /\ j * g \in Int  BY <1>1, TimesInt
  <2>2. k * g <= at /\ at < k * g + g  BY <1>1, <1>4
  <2>3. j * g <= at /\ at < j * g + g  BY <1>2
  <2> HIDE DEF k, j
  <2>4. (k + 1) * g = k * g + g /\ (j + 1) * g = j * g + g  BY <2>1, TimesNext
  <2>5. ~(k + 1 <= j)
    <3> SUFFICES ASSUME k + 1 <= j PROVE FALSE  OBVIOUS
    <3>1. (k + 1) * g <= j * g  BY <2>1, TimesMonotone
    <3> QED  BY <2>1, <2>2, <2>3, <2>4, <3>1
  <2>6. ~(j + 1 <= k)
    <3> SUFFICES ASSUME j + 1 <= k PROVE FALSE  OBVIOUS
    <3>1. (j + 1) * g <= k * g  BY <2>1, TimesMonotone
    <3> QED  BY <2>1, <2>2, <2>3, <2>4, <3>1
  <2>7. k = j  BY <2>1, <2>5, <2>6
  <2> QED  BY <1>1, <2>7 DEF k, j
<1> QED  BY <1>1, <1>2, <1>3, <1>4

HasNumber(row) == Numbers(row) # {}
Numbered(kept) == {i \in DOMAIN kept : HasNumber(kept[i])}
BucketOf(kept, g, i) == BucketStart(kept[i].at, g)

LEMMA BucketsAre ==
  ASSUME NEW kept, NEW g
  PROVE  /\ DOMAIN Buckets(kept, g) = {BucketOf(kept, g, i) : i \in Numbered(kept)}
         /\ \A b \in DOMAIN Buckets(kept, g) :
              Buckets(kept, g)[b] = {i \in Numbered(kept) : BucketOf(kept, g, i) = b}
BY DEF Buckets, Numbered, HasNumber, BucketOf

\* Every number is in one bucket, which holds its time.
LEMMA OneBucket ==
  ASSUME NEW kept \in Ordered, NEW g \in Nat \ {0}, NEW i \in Numbered(kept)
  PROVE  Cardinality({b \in DOMAIN Buckets(kept, g) : b <= kept[i].at /\ kept[i].at < b + g}) = 1
<1> DEFINE B == DOMAIN Buckets(kept, g)
           at == kept[i].at
           mine == BucketOf(kept, g, i)
<1>1. \A k \in DOMAIN kept : kept[k].at \in Nat  BY ReadingIs DEF Ordered
<1>2. B = {BucketOf(kept, g, k) : k \in Numbered(kept)}  BY BucketsAre
<1>3. at \in Nat /\ i \in DOMAIN kept  BY <1>1 DEF Numbered
<1>4. mine \in B /\ mine <= at /\ at < mine + g  BY <1>2, <1>3, BucketIs DEF BucketOf
<1>5. ASSUME NEW b \in B, b <= at, at < b + g PROVE b = mine
  <2>1. PICK k \in Numbered(kept) : b = BucketStart(kept[k].at, g)  BY <1>2 DEF BucketOf
  <2>2. kept[k].at \in Nat  BY <1>1 DEF Numbered
  <2> HIDE DEF at
  <2> QED  BY <1>3, <1>5, <2>1, <2>2, BucketIs DEF BucketOf, at
<1> HIDE DEF B, at, mine
<1>6. {b \in B : b <= at /\ at < b + g} = {mine}  BY <1>4, <1>5
<1>7. Cardinality({mine}) = 1  BY FS_Singleton
<1> QED  BY <1>6, <1>7 DEF B, at

\* The points count every reading with a number once.
LEMMA CountsAdd ==
  ASSUME NEW kept \in Ordered, NEW g \in Nat \ {0}
  PROVE  SumFunction([b \in DOMAIN Buckets(kept, g) |-> Cardinality(Buckets(kept, g)[b])])
           = Cardinality(Numbered(kept))
<1> DEFINE F == Buckets(kept, g)
           I == DOMAIN F
<1>a. I = {BucketOf(kept, g, k) : k \in Numbered(kept)}  BY BucketsAre
<1>b. \A b \in I : F[b] = {i \in Numbered(kept) : BucketOf(kept, g, i) = b}
  BY BucketsAre, ZenonT(40)
<1>1. I = {BucketOf(kept, g, k) : k \in Numbered(kept)}
      /\ \A b \in I : F[b] = {i \in Numbered(kept) : BucketOf(kept, g, i) = b}
  BY <1>a, <1>b
<1>2. IsFiniteSet(Numbered(kept))
  <2>1. kept \in Seq(Reading)  BY DEF Ordered
  <2>2. DOMAIN kept = 1 .. Len(kept) /\ Len(kept) \in Nat  BY <2>1
  <2>3. IsFiniteSet(DOMAIN kept)  BY <2>2, FS_Interval
  <2>4. Numbered(kept) \subseteq DOMAIN kept  BY DEF Numbered
  <2> QED  BY <2>3, <2>4, FS_Subset
<1> HIDE DEF F, I
<1>3. IsFiniteSet(I)
  <2> DEFINE h == [k \in Numbered(kept) |-> BucketOf(kept, g, k)]
  <2>1. h \in Surjection(Numbered(kept), I)  BY <1>1 DEF Surjection
  <2> HIDE DEF h
  <2> QED  BY <1>2, <2>1, FS_Surjection
<1>4. \A b \in I : IsFiniteSet(F[b])
  <2> SUFFICES ASSUME NEW b \in I PROVE IsFiniteSet(F[b])  OBVIOUS
  <2>1. F[b] \subseteq Numbered(kept)  BY <1>1
  <2> QED  BY <1>2, <2>1, FS_Subset
<1>5. \A a, b \in I : a # b => F[a] \cap F[b] = {}  BY <1>1
<1>6. SumFunction([b \in I |-> Cardinality(F[b])]) = Cardinality(All(F, I))
  BY <1>3, <1>4, <1>5, SumOfDisjoint
<1>7. All(F, I) = Numbered(kept)  BY <1>1 DEF All
<1> QED  BY <1>6, <1>7 DEF F, I

-----------------------------------------------------------------------------
(* Intervals.                                                               *)

Interval == [from : Times, to : Times, value : RawValues, state : {"alarm", "normal"}]

LEMMA ExceptIs ==
  ASSUME NEW S, NEW s \in Seq(S), NEW i \in 1 .. Len(s), NEW e \in S
  PROVE  [s EXCEPT ![i] = e] \in Seq(S)
OBVIOUS

MergeRow(intervals, row) ==
  IF intervals # <<>> /\ Last(intervals).value = row.raw
  THEN [intervals EXCEPT ![Len(intervals)].to = row.at,
                         ![Len(intervals)].state = StateOf(row)]
  ELSE Append(intervals, [from |-> row.at, to |-> row.at, value |-> row.raw,
                          state |-> StateOf(row)])

\* Merging changes the end of the last interval, or appends one.
LEMMA MergeIs ==
  ASSUME NEW s \in Seq(Interval), NEW row \in Reading
  PROVE  /\ MergeRow(s, row) \in Seq(Interval)
         /\ s # <<>> /\ s[Len(s)].value = row.raw =>
              /\ Len(MergeRow(s, row)) = Len(s)
              /\ \A k \in 1 .. Len(s) : /\ MergeRow(s, row)[k].value = s[k].value
                                        /\ MergeRow(s, row)[k].from = s[k].from
                                        /\ k # Len(s) => MergeRow(s, row)[k].to = s[k].to
              /\ MergeRow(s, row)[Len(s)].to = row.at
         /\ ~(s # <<>> /\ s[Len(s)].value = row.raw) =>
              /\ Len(MergeRow(s, row)) = Len(s) + 1
              /\ \A k \in 1 .. Len(s) : MergeRow(s, row)[k] = s[k]
              /\ MergeRow(s, row)[Len(s) + 1].value = row.raw
              /\ MergeRow(s, row)[Len(s) + 1].from = row.at
              /\ MergeRow(s, row)[Len(s) + 1].to = row.at
<1> DEFINE L == Len(s)
<1>1. row.at \in Times /\ row.raw \in RawValues /\ StateOf(row) \in {"alarm", "normal"}
  BY ReadingIs DEF StateOf
<1>2. L \in Nat /\ DOMAIN s = 1 .. L /\ \A k \in 1 .. L : s[k] \in Interval  OBVIOUS
<1>3. Last(s) = s[L]  BY DEF Last
<1>4. CASE s # <<>> /\ s[L].value = row.raw
  <2> DEFINE longer == [s[L] EXCEPT !.to = row.at, !.state = StateOf(row)]
             t == MergeRow(s, row)
  <2>1. L \in 1 .. L  BY <1>2, <1>4
  <2>2. longer \in Interval /\ longer.value = s[L].value /\ longer.from = s[L].from
        /\ longer.to = row.at
    <3>1. s[L] \in Interval  BY <1>2, <2>1
    <3> DEFINE e == s[L]
    <3> HIDE DEF e, L
    <3>2. longer = [e EXCEPT !.to = row.at, !.state = StateOf(row)]  BY DEF e
    <3> HIDE DEF longer
    <3> QED  BY <1>1, <3>1, <3>2 DEF Interval, e
  <2>3. t = [s EXCEPT ![L] = longer]
    <3>1. t = [s EXCEPT ![Len(s)].to = row.at, ![Len(s)].state = StateOf(row)]
      BY <1>3, <1>4 DEF MergeRow
    <3> QED  BY <1>2, <2>1, <3>1
  <2> HIDE DEF longer, t
  <2>4. t \in Seq(Interval)  BY <2>1, <2>2, <2>3, ExceptIs
  <2>5. \A k \in 1 .. L : k # L => t[k] = s[k]  BY <1>2, <2>3
  <2>6. t[L] = longer  BY <1>2, <2>1, <2>3
  <2>7. Len(t) = L  BY <2>3
  <2> QED  BY <1>4, <2>2, <2>4, <2>5, <2>6, <2>7 DEF t
<1>5. CASE ~(s # <<>> /\ s[L].value = row.raw)
  <2> DEFINE new == [from |-> row.at, to |-> row.at, value |-> row.raw, state |-> StateOf(row)]
             t == MergeRow(s, row)
  <2>1. new \in Interval  BY <1>1 DEF Interval
  <2>2. t = Append(s, new)  BY <1>3, <1>5 DEF MergeRow
  <2>3. new.from = row.at /\ new.to = row.at /\ new.value = row.raw  OBVIOUS
  <2> HIDE DEF new, t
  <2>4. t \in Seq(Interval) /\ Len(t) = L + 1 /\ t[L + 1] = new
        /\ \A k \in 1 .. L : t[k] = s[k]
    BY <2>1, <2>2
  <2> QED  BY <1>5, <2>3, <2>4 DEF t
<1> QED  BY <1>4, <1>5

\* The intervals of the first n readings.
LEMMA MergeSteps ==
  ASSUME NEW kept \in Seq(Reading)
  PROVE  \E f \in [0 .. Len(kept) -> Seq(Interval)] :
           /\ f[0] = <<>>
           /\ \A n \in 1 .. Len(kept) : f[n] = MergeRow(f[n - 1], kept[n])
           /\ CategoricalSeries(kept) = [status |-> 200, intervals |-> f[Len(kept)]]
<1> DEFINE N == Len(kept)
           A == Seq(Interval)
           G == [p \in (1 .. N) \X A |-> MergeRow(p[2], kept[p[1]])]
           Solves(it) == it = [S \in SUBSET (1 .. N) |->
             IF S = {} THEN <<>>
             ELSE IF it[S \ {Max(S)}] # <<>> /\ Last(it[S \ {Max(S)}]).value = kept[Max(S)].raw
                  THEN [it[S \ {Max(S)}] EXCEPT
                          ![Len(it[S \ {Max(S)}])].to = kept[Max(S)].at,
                          ![Len(it[S \ {Max(S)}])].state = StateOf(kept[Max(S)])]
                  ELSE Append(it[S \ {Max(S)}],
                         [from |-> kept[Max(S)].at, to |-> kept[Max(S)].at,
                          value |-> kept[Max(S)].raw, state |-> StateOf(kept[Max(S)])])]
           found == CHOOSE it : Solves(it)
<1>1. DOMAIN kept = 1 .. N /\ N \in Nat /\ \A i \in 1 .. N : kept[i] \in Reading  OBVIOUS
<1>2. <<>> \in A  OBVIOUS
<1>3. \A n \in 1 .. N, s \in A : MergeRow(s, kept[n]) \in A  BY <1>1, MergeIs
<1>4. G \in [(1 .. N) \X A -> A]
  <2> HIDE DEF A, N
  <2> QED  BY <1>3
<1>5. \A S \in SUBSET (1 .. N) : S # {} => Max(S) \in 1 .. N
  <2> SUFFICES ASSUME NEW S \in SUBSET (1 .. N), S # {} PROVE Max(S) \in 1 .. N  OBVIOUS
  <2>1. S \subseteq Int /\ N \in Int /\ \A x \in S : x <= N  BY <1>1
  <2>2. Max(S) \in S  BY <2>1, MaxIs
  <2> QED  BY <2>2
<1>6. PICK g \in [SUBSET (1 .. N) -> A] : Folds(g, G, <<>>, N)
  <2> HIDE DEF A, G, N
  <2> QED  BY <1>1, <1>2, <1>4, FoldExists
<1>7. Solves(g)
  <2>1. ASSUME NEW S \in SUBSET (1 .. N)
        PROVE  g[S] = IF S = {} THEN <<>> ELSE MergeRow(g[S \ {Max(S)}], kept[Max(S)])
    <3> HIDE DEF A
    <3>1. S # {} => g[S \ {Max(S)}] \in A /\ Max(S) \in 1 .. N  BY <1>5
    <3>2. S # {} => G[<<Max(S), g[S \ {Max(S)}]>>] = MergeRow(g[S \ {Max(S)}], kept[Max(S)])
      BY <3>1
    <3> HIDE DEF G
    <3> QED  BY <1>6, <3>2 DEF Folds
  <2>2. g = [S \in SUBSET (1 .. N) |-> g[S]]  OBVIOUS
  <2> HIDE DEF N, A
  <2> QED  BY <2>1, <2>2 DEF MergeRow
<1>8. Solves(found)
  <2> HIDE DEF Solves
  <2> QED  BY <1>7
<1>9. CategoricalSeries(kept) = [status |-> 200, intervals |-> found[1 .. N]]
  BY <1>1 DEF CategoricalSeries, FoldLeft, MapThenFoldSet
<1> HIDE DEF found
<1>10. found[{}] = <<>>  BY <1>8
<1>11. ASSUME NEW S \in SUBSET (1 .. N), S # {}, found[S \ {Max(S)}] \in A
       PROVE  found[S] = G[<<Max(S), found[S \ {Max(S)}]>>]
  <2>1. found[S] = MergeRow(found[S \ {Max(S)}], kept[Max(S)])  BY <1>8, <1>11 DEF MergeRow
  <2>2. Max(S) \in 1 .. N  BY <1>5, <1>11
  <2> HIDE DEF Solves, A
  <2> QED  BY <1>11, <2>1, <2>2
<1>12. PICK f \in [0 .. N -> A] : StepBy(f, G, <<>>, N) /\ f[N] = found[1 .. N]
  <2> HIDE DEF A, G, N, Solves
  <2>1. FoldsIn(found, G, A, N)  BY <1>11 DEF FoldsIn
  <2>2. HasSteps(found, G, A, <<>>, N)
    BY <1>1, <1>2, <1>4, <1>10, <2>1, FoldSteps
  <2> QED  BY <2>2 DEF HasSteps
<1>13. \A n \in 1 .. N : f[n] = MergeRow(f[n - 1], kept[n])
  <2> SUFFICES ASSUME NEW n \in 1 .. N PROVE f[n] = MergeRow(f[n - 1], kept[n])  OBVIOUS
  <2> HIDE DEF A
  <2>1. n - 1 \in 0 .. N  BY <1>1
  <2>2. f[n - 1] \in A  BY <2>1
  <2> QED  BY <1>12, <2>2 DEF StepBy
<1> HIDE DEF G, N, Solves
<1> QED  BY <1>9, <1>12, <1>13 DEF N, StepBy

\* What is true of the intervals s of the first n readings.
Alternating(s) ==
  /\ \A k \in 1 .. Len(s) : s[k].from <= s[k].to
  /\ \A k \in 1 .. Len(s) - 1 : s[k].value # s[k + 1].value /\ s[k].to <= s[k + 1].from

Shows(s, row) ==
  \E k \in DOMAIN s : s[k].value = row.raw /\ s[k].from <= row.at /\ row.at <= s[k].to

Merged(kept, n, s) ==
  /\ s \in Seq(Interval)
  /\ n = 0 => s = <<>>
  /\ n # 0 => s # <<>> /\ s[Len(s)].value = kept[n].raw /\ s[Len(s)].to = kept[n].at
  /\ Alternating(s)
  /\ \A i \in 1 .. n : Shows(s, kept[i])

LEMMA MergedStep ==
  ASSUME NEW kept \in Ordered, NEW n \in 1 .. Len(kept), NEW s, Merged(kept, n - 1, s)
  PROVE  Merged(kept, n, MergeRow(s, kept[n]))
<1> DEFINE row == kept[n]
           t == MergeRow(s, row)
           L == Len(s)
<1>1. kept \in Seq(Reading) /\ InTime(kept) /\ DOMAIN kept = 1 .. Len(kept) /\ Len(kept) \in Nat
  BY DEF Ordered
<1>2. n \in Nat /\ n # 0 /\ row \in Reading /\ row.at \in Nat
      /\ \A i \in 1 .. n : kept[i].at \in Nat
  BY <1>1, ReadingIs
<1>3. s \in Seq(Interval) /\ L \in Nat /\ DOMAIN s = 1 .. L /\ Alternating(s)
      /\ \A i \in 1 .. n - 1 : Shows(s, kept[i])
  BY DEF Merged
<1>4. \A k \in 1 .. L : s[k].from \in Nat /\ s[k].to \in Nat
  <2>1. \A k \in 1 .. L : s[k] \in Interval  BY <1>3
  <2>2. \A e \in Interval : e.from \in Nat /\ e.to \in Nat
    BY EpisodesAssumption DEF Interval, Times
  <2> HIDE DEF L
  <2> QED  BY <2>1, <2>2
<1>5. s # <<>> => n - 1 # 0 /\ L \in 1 .. L /\ s[L].to = kept[n - 1].at /\ s[L].value = kept[n - 1].raw
                  /\ s[L].to <= row.at
  <2> SUFFICES ASSUME s # <<>>
               PROVE  n - 1 # 0 /\ L \in 1 .. L /\ s[L].to = kept[n - 1].at
                      /\ s[L].value = kept[n - 1].raw /\ s[L].to <= row.at
    OBVIOUS
  <2>1. n - 1 # 0 /\ s[L].to = kept[n - 1].at /\ s[L].value = kept[n - 1].raw  BY DEF Merged
  <2>2. n - 1 \in DOMAIN kept /\ n \in DOMAIN kept /\ n - 1 <= n  BY <1>1, <2>1
  <2>3. kept[n - 1].at <= row.at  BY <1>1, <2>2 DEF InTime
  <2> QED  BY <1>3, <2>1, <2>3
<1> HIDE DEF t, row, L
<1>6. t \in Seq(Interval)  BY <1>2, <1>3, MergeIs DEF t
<1>7. CASE s # <<>> /\ s[L].value = row.raw
  <2>1. /\ Len(t) = L
        /\ \A k \in 1 .. L : t[k].value = s[k].value /\ t[k].from = s[k].from
                             /\ (k # L => t[k].to = s[k].to)
        /\ t[L].to = row.at
    BY <1>2, <1>3, <1>7, MergeIs DEF t, L
  <2>2. L \in 1 .. L /\ s[L].to <= row.at /\ DOMAIN t = 1 .. L  BY <1>5, <1>6, <1>7, <2>1
  <2>3. \A k \in 1 .. L : s[k].to <= t[k].to  BY <1>4, <2>1, <2>2
  <2>4. Alternating(t)
    <3>1. \A k \in 1 .. L : t[k].from <= t[k].to
      <4> TAKE k \in 1 .. L
      <4>1. s[k].from <= s[k].to  BY <1>3 DEF Alternating, L
      <4>2. t[k].to \in Nat  BY <1>2, <1>4, <2>1
      <4>3. t[k].from = s[k].from /\ s[k].to <= t[k].to  BY <2>1, <2>3
      <4>4. s[k].from \in Nat /\ s[k].to \in Nat  BY <1>4
      <4> QED  BY <4>1, <4>2, <4>3, <4>4
    <3>2. ASSUME NEW k \in 1 .. L - 1
          PROVE  t[k].value # t[k + 1].value /\ t[k].to <= t[k + 1].from
      <4>1. k \in 1 .. L /\ k + 1 \in 1 .. L /\ k # L  BY <1>3
      <4>2. s[k].value # s[k + 1].value /\ s[k].to <= s[k + 1].from
        BY <1>3, <3>2 DEF Alternating, L
      <4> QED  BY <2>1, <4>1, <4>2
    <3> QED  BY <2>1, <3>1, <3>2 DEF Alternating
  <2>5. ASSUME NEW i \in 1 .. n - 1 PROVE Shows(t, kept[i])
    <3>1. PICK k \in 1 .. L : s[k].value = kept[i].raw /\ s[k].from <= kept[i].at
                              /\ kept[i].at <= s[k].to
      BY <1>3 DEF Shows
    <3>2. i \in 1 .. n  BY <1>2
    <3>3. kept[i].at \in Nat /\ s[k].to \in Nat /\ t[k].to \in Nat  BY <1>2, <1>4, <2>1, <3>2
    <3>4. kept[i].at <= t[k].to  BY <2>3, <3>1, <3>3
    <3> QED  BY <2>1, <2>2, <3>1, <3>4 DEF Shows
  <2>6. Shows(t, row)
    <3>1. s[L].from <= s[L].to  BY <1>3, <2>2 DEF Alternating, L
    <3>2. t[L].from <= row.at  BY <1>2, <1>4, <2>1, <2>2, <3>1
    <3>3. t[L].value = row.raw /\ row.at <= t[L].to  BY <1>2, <1>7, <2>1, <2>2
    <3> QED  BY <2>2, <3>2, <3>3 DEF Shows
  <2>7. \A i \in 1 .. n : Shows(t, kept[i])
    <3>1. \A i \in 1 .. n : i \in 1 .. n - 1 \/ i = n  BY <1>2
    <3> QED  BY <2>5, <2>6, <3>1 DEF row
  <2>8. t # <<>> /\ t[Len(t)].value = row.raw /\ t[Len(t)].to = row.at
    BY <1>6, <1>7, <2>1, <2>2
  <2> QED  BY <1>2, <1>6, <2>4, <2>7, <2>8 DEF Merged, t, row
<1>8. CASE ~(s # <<>> /\ s[L].value = row.raw)
  <2>1. /\ Len(t) = L + 1
        /\ \A k \in 1 .. L : t[k] = s[k]
        /\ t[L + 1].value = row.raw /\ t[L + 1].from = row.at /\ t[L + 1].to = row.at
    BY <1>2, <1>3, <1>8, MergeIs DEF t, L
  <2>2. DOMAIN t = 1 .. L + 1 /\ L + 1 \in DOMAIN t  BY <1>3, <1>6, <2>1
  <2>3. \A k \in 1 .. L + 1 : k \in 1 .. L \/ k = L + 1  BY <1>3
  <2>4. Alternating(t)
    <3>1. \A k \in 1 .. L + 1 : t[k].from <= t[k].to
      <4>1. \A k \in 1 .. L : s[k].from <= s[k].to  BY <1>3 DEF Alternating, L
      <4> QED  BY <1>2, <2>1, <2>3, <4>1
    <3>2. ASSUME NEW k \in 1 .. L, k # L
          PROVE  t[k].value # t[k + 1].value /\ t[k].to <= t[k + 1].from
      <4>1. k \in 1 .. L - 1 /\ k + 1 \in 1 .. L  BY <1>3, <3>2
      <4>2. s[k].value # s[k + 1].value /\ s[k].to <= s[k + 1].from
        BY <1>3, <4>1 DEF Alternating, L
      <4> QED  BY <2>1, <4>1, <4>2
    <3>3. ASSUME L \in 1 .. L PROVE t[L].value # t[L + 1].value /\ t[L].to <= t[L + 1].from
      <4>1. s # <<>>  BY <1>3, <3>3
      <4> QED  BY <1>5, <1>8, <2>1, <3>3, <4>1
    <3>4. \A k \in 1 .. L : t[k].value # t[k + 1].value /\ t[k].to <= t[k + 1].from
      BY <3>2, <3>3
    <3>5. (L + 1) - 1 = L  BY <1>3
    <3> QED  BY <2>1, <3>1, <3>4, <3>5 DEF Alternating
  <2>5. ASSUME NEW i \in 1 .. n - 1 PROVE Shows(t, kept[i])
    <3>1. PICK k \in 1 .. L : s[k].value = kept[i].raw /\ s[k].from <= kept[i].at
                              /\ kept[i].at <= s[k].to
      BY <1>3 DEF Shows
    <3>2. k \in DOMAIN t  BY <1>3, <2>2
    <3> QED  BY <2>1, <3>1, <3>2 DEF Shows
  <2>6. Shows(t, row)
    <3>1. row.at <= row.at  BY <1>2
    <3> QED  BY <2>1, <2>2, <3>1 DEF Shows
  <2>7. \A i \in 1 .. n : Shows(t, kept[i])
    <3>1. \A i \in 1 .. n : i \in 1 .. n - 1 \/ i = n  BY <1>2
    <3> QED  BY <2>5, <2>6, <3>1 DEF row
  <2>8. t # <<>> /\ t[Len(t)].value = row.raw /\ t[Len(t)].to = row.at
    BY <1>6, <2>1, <2>2
  <2> QED  BY <1>2, <1>6, <2>4, <2>7, <2>8 DEF Merged, t, row
<1> QED  BY <1>7, <1>8

\* Intervals alternate, and each reading is in one of its value.
LEMMA CategoricalIs ==
  ASSUME NEW kept \in Ordered
  PROVE  Merged(kept, Len(kept), CategoricalSeries(kept).intervals)
<1> DEFINE N == Len(kept)
<1>1. kept \in Seq(Reading) /\ N \in Nat  BY DEF Ordered
<1>2. PICK f \in [0 .. N -> Seq(Interval)] :
        /\ f[0] = <<>>
        /\ \A n \in 1 .. N : f[n] = MergeRow(f[n - 1], kept[n])
        /\ CategoricalSeries(kept) = [status |-> 200, intervals |-> f[N]]
  BY <1>1, MergeSteps
<1> DEFINE T == {n \in 0 .. N : Merged(kept, n, f[n])}
<1>3. 0 \in T
  <2>1. Alternating(<<>>) /\ <<>> \in Seq(Interval)  BY DEF Alternating
  <2> QED  BY <1>1, <1>2, <2>1 DEF Merged
<1>4. ASSUME NEW n \in 0 .. N - 1, n \in T PROVE n + 1 \in T
  <2>1. n + 1 \in 1 .. N /\ n + 1 \in 0 .. N /\ (n + 1) - 1 = n  BY <1>1
  <2>2. f[n + 1] = MergeRow(f[n], kept[n + 1])  BY <1>2, <2>1
  <2>3. Merged(kept, (n + 1) - 1, f[n])  BY <1>4, <2>1
  <2>4. Merged(kept, n + 1, MergeRow(f[n], kept[n + 1]))  BY <2>1, <2>3, MergedStep
  <2> QED  BY <2>1, <2>2, <2>4
<1>5. N \in T
  <2> HIDE DEF T, N
  <2>1. \A n \in 0 .. N : n \in T  BY <1>1, <1>3, <1>4, UpTo
  <2> QED  BY <1>1, <2>1
<1> QED  BY <1>2, <1>5

\* What the query answers for a channel there is.
LEMMA RefusedGranularity ==
  ASSUME NEW c \in channels, NEW from, NEW to
  PROVE  SensorSeries(c, TRUE, "numeric", from, to, Unparsable) = Failed(400)
BY DEF SensorSeries

LEMMA RefusedScope ==
  ASSUME NEW c \in channels, NEW from, NEW to
  PROVE  SensorSeries(c, FALSE, "numeric", from, to, Whole) = Failed(403)
BY DEF SensorSeries

LEMMA IntervalsAre ==
  ASSUME NEW c \in channels, NEW from, NEW to
  PROVE  SensorSeries(c, TRUE, "categorical", from, to, Whole)
           = CategoricalSeries(LoadReadings(c, from, to))
BY DEF SensorSeries

LEMMA NumbersAre ==
  ASSUME NEW c \in channels, NEW from, NEW to, NEW g, g # Unparsable
  PROVE  SensorSeries(c, TRUE, "numeric", from, to, g)
           = NumericSeries(LoadReadings(c, from, to), g)
BY DEF SensorSeries

LEMMA PointsAre ==
  ASSUME NEW kept, NEW g \in Nat \ {0}
  PROVE  /\ NumericSeries(kept, g).missing = Missing(kept)
         /\ DOMAIN NumericSeries(kept, g).points = DOMAIN Buckets(kept, g)
         /\ \A b \in DOMAIN Buckets(kept, g) :
              NumericSeries(kept, g).points[b].count = Cardinality(Buckets(kept, g)[b])
<1> DEFINE buckets == Buckets(kept, g)
           points == [b \in DOMAIN buckets |-> Mean(kept, buckets[b])]
<1>1. g # Whole /\ g # 0  BY DEF Whole
<1>2. NumericSeries(kept, g) = [status |-> 200, missing |-> Missing(kept), points |-> points]
  BY <1>1 DEF NumericSeries
<1> HIDE DEF buckets
<1>3. DOMAIN points = DOMAIN buckets
      /\ \A b \in DOMAIN buckets : points[b].count = Cardinality(buckets[b])
  BY DEF Mean
<1> HIDE DEF points
<1>4. NumericSeries(kept, g).missing = Missing(kept) /\ NumericSeries(kept, g).points = points
  BY <1>2
<1> QED  BY <1>3, <1>4 DEF buckets

LEMMA NothingThere ==
  ASSUME NEW c, c \notin channels, NEW scope, NEW type, NEW from, NEW to, NEW g
  PROVE  SensorSeries(c, scope, type, from, to, g) = Failed(404)
BY DEF SensorSeries

LEMMA SeriesAlwaysFaithful == JournalInv => SeriesFaithful
<1> SUFFICES ASSUME JournalInv, NEW c \in Sensors, NEW from \in {0, 1}
             PROVE  LET to == Span - from
        kept == LoadReadings(c, from, to)
        Numeric(granularity) == SensorSeries(c, TRUE, "numeric", from, to, granularity)
        missing == Numeric(Whole).missing
        times == {r.at : r \in Range(kept)}
        Silent(t) == \E p, q \in times :
          /\ p <= t /\ t < q /\ q - p > Silence
          /\ \A r \in times : r <= p \/ q <= r
        Count(S) == Cardinality(S)
    IN  IF c \notin channels
        THEN \A type \in {"numeric", "categorical"}, scope \in BOOLEAN :
               SensorSeries(c, scope, type, from, to, Whole) = Failed(404)
        ELSE /\ Numeric(Unparsable) = Failed(400)
             /\ SensorSeries(c, FALSE, "numeric", from, to, Whole) = Failed(403)
             /\ \A t \in Times : (\E m \in missing : m.from <= t /\ t < m.to) <=> Silent(t)
             /\ \A g \in Granularities \ {0} :
                  LET series == Numeric(g)
                  IN  /\ series.missing = missing
                      /\ \A i \in DOMAIN kept : Numbers(kept[i]) # {} =>
                           Count({b \in DOMAIN series.points :
                                    b <= kept[i].at /\ kept[i].at < b + g}) = 1
                      /\ Count({i \in DOMAIN kept : Numbers(kept[i]) # {}}) =
                           SumFunction([b \in DOMAIN series.points |-> series.points[b].count])
             /\ LET shown == SensorSeries(c, TRUE, "categorical", from, to, Whole).intervals
                IN  /\ \A i \in 1 .. Len(shown) - 1 :
                         shown[i].value # shown[i + 1].value /\ shown[i].to <= shown[i + 1].from
                    /\ \A i \in DOMAIN kept : \E k \in DOMAIN shown :
                         /\ shown[k].value = kept[i].raw
                         /\ shown[k].from <= kept[i].at /\ kept[i].at <= shown[k].to
  BY DEF SeriesFaithful
<1> DEFINE to == Span - from
           kept == LoadReadings(c, from, to)
           Numeric(g) == SensorSeries(c, TRUE, "numeric", from, to, g)
           shown == SensorSeries(c, TRUE, "categorical", from, to, Whole).intervals
           times == {r.at : r \in Range(kept)}
           Silent(t) == \E p, q \in times :
             /\ p <= t /\ t < q /\ q - p > Silence
             /\ \A r \in times : r <= p \/ q <= r
<1>1. CASE c \notin channels  BY <1>1, NothingThere
<1>2. CASE c \in channels
  <2> HIDE DEF to
  <2>1. kept \in Ordered  BY <1>2, LoadIs
  <2>2. Numeric(Unparsable) = Failed(400) /\ SensorSeries(c, FALSE, "numeric", from, to, Whole) = Failed(403)
    <3>1. Numeric(Unparsable) = Failed(400)  BY <1>2, RefusedGranularity
    <3>2. SensorSeries(c, FALSE, "numeric", from, to, Whole) = Failed(403)
      BY <1>2, RefusedScope
    <3> QED  BY <3>1, <3>2
  <2>a. Numeric(Whole) = NumericSeries(kept, Whole)
    <3>1. Whole # Unparsable  BY DEF Whole, Unparsable
    <3> QED  BY <1>2, <3>1, NumbersAre
  <2>b. \A g \in Nat : Numeric(g) = NumericSeries(kept, g)
    <3> SUFFICES ASSUME NEW g \in Nat PROVE Numeric(g) = NumericSeries(kept, g)  OBVIOUS
    <3>1. g # Unparsable  BY DEF Unparsable
    <3> QED  BY <1>2, <3>1, NumbersAre
  <2>4. shown = CategoricalSeries(kept).intervals  BY <1>2, IntervalsAre
  <2> HIDE DEF kept, Numeric, shown
  <2>3. Numeric(Whole).missing = Missing(kept)  BY <2>a DEF NumericSeries
  <2>5. ASSUME NEW t \in Times
        PROVE  (\E m \in Numeric(Whole).missing : m.from <= t /\ t < m.to) <=> Silent(t)
    <3>1. t \in Int  BY DEF Times
    <3>2. (\E m \in Missing(kept) : m.from <= t /\ t < m.to) <=> Silent(t)
      BY <2>1, <3>1, MissingIs
    <3> HIDE DEF Silent
    <3> QED  BY <2>3, <3>2
  <2>6. ASSUME NEW g \in Granularities \ {0}
        PROVE  /\ Numeric(g).missing = Numeric(Whole).missing
               /\ \A i \in DOMAIN kept : Numbers(kept[i]) # {} =>
                    Cardinality({b \in DOMAIN Numeric(g).points :
                             b <= kept[i].at /\ kept[i].at < b + g}) = 1
               /\ Cardinality({i \in DOMAIN kept : Numbers(kept[i]) # {}}) =
                    SumFunction([b \in DOMAIN Numeric(g).points |-> Numeric(g).points[b].count])
    <3>1. g \in Nat \ {0}  BY SeriesAssumption
    <3>2. /\ Numeric(g).missing = Missing(kept)
          /\ DOMAIN Numeric(g).points = DOMAIN Buckets(kept, g)
          /\ \A b \in DOMAIN Numeric(g).points :
               Numeric(g).points[b].count = Cardinality(Buckets(kept, g)[b])
      <4>1. Numeric(g) = NumericSeries(kept, g)  BY <2>b, <3>1
      <4> QED  BY <3>1, <4>1, PointsAre
    <3> DEFINE points == Numeric(g).points
    <3> HIDE DEF points
    <3>3. DOMAIN points = DOMAIN Buckets(kept, g)
          /\ \A b \in DOMAIN points : points[b].count = Cardinality(Buckets(kept, g)[b])
      BY <3>2 DEF points
    <3>4. ASSUME NEW i \in DOMAIN kept, Numbers(kept[i]) # {}
          PROVE  Cardinality({b \in DOMAIN points : b <= kept[i].at /\ kept[i].at < b + g}) = 1
      <4>1. i \in Numbered(kept)  BY <3>4 DEF Numbered, HasNumber
      <4>2. Cardinality({b \in DOMAIN Buckets(kept, g) :
                           b <= kept[i].at /\ kept[i].at < b + g}) = 1
        BY <2>1, <3>1, <4>1, OneBucket
      <4> QED  BY <3>3, <4>2
    <3>5. {i \in DOMAIN kept : Numbers(kept[i]) # {}} = Numbered(kept)  BY DEF Numbered, HasNumber
    <3>6. [b \in DOMAIN points |-> points[b].count]
            = [b \in DOMAIN Buckets(kept, g) |-> Cardinality(Buckets(kept, g)[b])]
      BY <3>3
    <3>7. SumFunction([b \in DOMAIN points |-> points[b].count]) = Cardinality(Numbered(kept))
      BY <2>1, <3>1, <3>6, CountsAdd
    <3> QED  BY <2>3, <3>2, <3>4, <3>5, <3>7 DEF points
  <2>7. Merged(kept, Len(kept), shown)  BY <2>1, <2>4, CategoricalIs
  <2>8. /\ \A i \in 1 .. Len(shown) - 1 :
             shown[i].value # shown[i + 1].value /\ shown[i].to <= shown[i + 1].from
        /\ \A i \in DOMAIN kept : \E k \in DOMAIN shown :
             /\ shown[k].value = kept[i].raw
             /\ shown[k].from <= kept[i].at /\ kept[i].at <= shown[k].to
    <3>1. DOMAIN kept = 1 .. Len(kept)
      <4>1. kept \in Seq(Reading)  BY <2>1 DEF Ordered
      <4> QED  BY <4>1
    <3> QED  BY <2>7, <3>1 DEF Merged, Alternating, Shows
  <2> HIDE DEF Silent
  <2> QED  BY <1>2, <2>2, <2>5, <2>6, <2>8 DEF to, kept, Numeric, shown, Silent
<1> QED  BY <1>1, <1>2

\* A reader loses nothing and is shown nothing made up: gaps are where the
\* readings are too far apart, every number is in one bucket, intervals
\* alternate; of any journal, whatever the granularity.
THEOREM SeriesAreFaithful == ReadsSpec => []SeriesFaithful
BY JournalInvHolds, SeriesAlwaysFaithful, PTL
=============================================================================
