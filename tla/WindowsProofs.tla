---------------------------- MODULE WindowsProofs ----------------------------
(***************************************************************************)
(* What the walk of Windows answers for every day length, zone, policy and *)
(* calendar, proved with TLAPS.                                            *)
(***************************************************************************)
EXTENDS Windows, WellFoundedInduction, TLAPS

-----------------------------------------------------------------------------
(* Division                                                                *)

Days == Nat \ {0}

LEMMA Division ==
  ASSUME NEW x \in Int, NEW n \in Days
  PROVE  /\ x \div n \in Int /\ x % n \in 0 .. n - 1
         /\ x = (x \div n) * n + (x % n)
  BY DEF Days

LEMMA Quotient ==
  ASSUME NEW q \in Int, NEW n \in Days, NEW r \in 0 .. n - 1, NEW x, x = q * n + r
  PROVE  x \div n = q /\ x % n = r
  BY DEF Days

LEMMA DivisionIsMonotone ==
  ASSUME NEW x \in Int, NEW y \in Int, NEW n \in Days, x <= y
  PROVE  x \div n <= y \div n
  BY DEF Days

LEMMA DivisionByStep ==
  ASSUME NEW x \in Int, NEW n \in Days
  PROVE  (x + n) \div n = (x \div n) + 1
  BY DEF Days

-----------------------------------------------------------------------------
(* The clocks                                                              *)

Wall(t) == t + OffsetAt(t)

\* The offset changes by one hour at most, and is less than a day.
GoodZone ==
  /\ zone.before \in Int /\ zone.after \in Int /\ zone.change \in Int
  /\ zone.after - zone.before \in {-1, 0, 1}
  /\ -DayLength < zone.before /\ zone.before < DayLength
  /\ -DayLength < zone.after /\ zone.after < DayLength

LEMMA ZonesAreGood ==
  ASSUME zone \in Zones
  PROVE  GoodZone /\ DayLength \in Days
<1>1. zone.change \in Nat
  BY WindowsAssumption DEF Zones, Instants
<1> QED
  BY <1>1, WindowsAssumption DEF Zones, Offsets, GoodZone, Days

LEMMA ClockReads ==
  ASSUME GoodZone, DayLength \in Days, NEW t \in Int
  PROVE  /\ Wall(t) \in Int /\ DayOf(t) \in Int /\ HourOf(t) \in Hours
         /\ Wall(t) = DayOf(t) * DayLength + HourOf(t)
         /\ DayOf(t) = Wall(t) \div DayLength
<1>1. Wall(t) \in Int
  BY DEF Wall, OffsetAt, GoodZone
<1> QED
  BY <1>1, Division DEF DayOf, HourOf, Wall, Hours

\* What an instant reads determines its day and hour.
LEMMA ClockReading ==
  ASSUME GoodZone, DayLength \in Days, NEW t \in Int, NEW d \in Int, NEW h \in Hours,
         Wall(t) = d * DayLength + h
  PROVE  DayOf(t) = d /\ HourOf(t) = h
  BY Quotient DEF DayOf, HourOf, Wall, Hours

\* The wall clock never reads an earlier hour than before, but for the hour a
\* change of the clocks repeats: it reads that hour's last instant again.
LEMMA ClockIsMonotone ==
  ASSUME GoodZone, NEW t \in Int, NEW u \in Int, t <= u
  PROVE  Wall(t) <= Wall(u)
  BY DEF Wall, OffsetAt, GoodZone

LEMMA DaysAreMonotone ==
  ASSUME GoodZone, DayLength \in Days, NEW t \in Int, NEW u \in Int, t <= u
  PROVE  DayOf(t) <= DayOf(u)
  BY ClockReads, ClockIsMonotone, DivisionIsMonotone

-----------------------------------------------------------------------------
(* The instant of a local time                                             *)

\* In every zone the instant computed for a local time reads that time, unless
\* the change of the clocks skips it.
LEMMA InstantReads ==
  ASSUME GoodZone, DayLength \in Days, NEW d \in Int, NEW h \in Hours, ~Skipped(d, h)
  PROVE  /\ InstantOfLocal(d, h) \in Int
         /\ Wall(InstantOfLocal(d, h)) = d * DayLength + h
<1> DEFINE naive == d * DayLength + h
<1>1. naive \in Int
  BY DEF Days, Hours
<1>2. ~(zone.after > zone.before /\ naive = zone.change + zone.before)
  BY DEF Skipped
<1>3. InstantOfLocal(d, h) = naive - OffsetAt(naive - OffsetAt(naive))
  BY DEF InstantOfLocal
<1> HIDE DEF naive
<1>4. InstantOfLocal(d, h) \in Int
  BY <1>1, <1>3 DEF OffsetAt, GoodZone
<1>5. Wall(InstantOfLocal(d, h)) = naive
  BY <1>1, <1>2, <1>3 DEF OffsetAt, GoodZone, Wall
<1> QED
  BY <1>4, <1>5 DEF naive

\* Whatever it reads, it is within two hours of the naive instant, so that it stays
\* in reach.
LEMMA InstantIsInReach ==
  ASSUME GoodZone, DayLength \in Days, NEW d \in Int, NEW h \in Hours, NEW t \in Int,
         d = DayOf(t)
  PROVE  /\ InstantOfLocal(d, h) \in Int
         /\ InstantOfLocal(d, h) <= t + DayLength
<1> DEFINE naive == d * DayLength + h
<1>1. naive \in Int /\ naive <= Wall(t) + DayLength - 1
  BY ClockReads DEF Days, Hours
<1>2. InstantOfLocal(d, h) = naive - OffsetAt(naive - OffsetAt(naive))
  BY DEF InstantOfLocal
<1> HIDE DEF naive
<1> QED
  BY <1>1, <1>2 DEF Wall, OffsetAt, GoodZone, Days

-----------------------------------------------------------------------------
(* Days whose clocks do not change                                         *)

LEMMA WorkedDaysSkipNothing ==
  ASSUME GoodZone, DayLength \in Days, ChangesOnAnOffDay,
         NEW d \in Int, IsWorkingDay(d), NEW h \in Hours
  PROVE  ~Skipped(d, h)
<1> SUFFICES ASSUME Skipped(d, h) PROVE FALSE
  OBVIOUS
<1> DEFINE c == zone.change
<1>1. /\ c \in Int /\ zone.after = zone.before + 1
      /\ d * DayLength + h = c + zone.before
      /\ Wall(c) = c + zone.after /\ Wall(c - 1) = c - 1 + zone.before
  BY DEF Skipped, GoodZone, Wall, OffsetAt
<1>2. DayOf(c) # d /\ DayOf(c - 1) # d
  BY <1>1 DEF ChangesOnAnOffDay, IsWorkingDay, GoodZone
<1>3. CASE h = 0
  <2>1. DayLength > 1
    BY <1>1 DEF Days, GoodZone
  <2>2. d * DayLength \in Int
    BY DEF Days
  <2>3. Wall(c) = d * DayLength + 1
    BY <1>1, <1>3, <2>2 DEF GoodZone
  <2>4. 1 \in Hours
    BY <2>1 DEF Hours, Days
  <2> HIDE DEF c
  <2> QED
    BY <1>1, <1>2, <2>3, <2>4, ClockReading
<1>4. CASE h # 0
  <2>1. d * DayLength \in Int /\ h \in Nat /\ h - 1 \in Hours
    BY <1>4 DEF Hours, Days
  <2>2. Wall(c - 1) = d * DayLength + (h - 1)
    BY <1>1, <2>1 DEF GoodZone
  <2> HIDE DEF c
  <2> QED
    BY <1>1, <1>2, <2>1, <2>2, ClockReading
<1> QED
  BY <1>3, <1>4

\* Between two instants of a day that is worked, the wall clock advances as time does.
LEMMA WorkedDaysKeepTime ==
  ASSUME GoodZone, DayLength \in Days, ChangesOnAnOffDay,
         NEW t \in Int, NEW u \in Int, t <= u, DayOf(t) = DayOf(u), IsWorkingDay(DayOf(t))
  PROVE  Wall(u) - Wall(t) = u - t
<1> DEFINE c == zone.change
<1>1. CASE OffsetAt(t) = OffsetAt(u)
  BY <1>1 DEF Wall, OffsetAt, GoodZone
<1>2. CASE OffsetAt(t) # OffsetAt(u)
  <2>1. c \in Int /\ t <= c - 1 /\ c - 1 <= u /\ zone.before # zone.after
    BY <1>2 DEF OffsetAt, GoodZone
  <2>2. c - 1 \in Int /\ DayOf(c - 1) \in offDays
    BY <2>1 DEF ChangesOnAnOffDay
  <2>3. DayOf(t) <= DayOf(c - 1) /\ DayOf(c - 1) <= DayOf(u)
    BY <2>1, <2>2, DaysAreMonotone
  <2>4. DayOf(t) \in Int /\ DayOf(c - 1) \in Int
    BY <2>2, ClockReads
  <2> QED
    BY <2>2, <2>3, <2>4 DEF IsWorkingDay
<1> QED
  BY <1>1, <1>2

-----------------------------------------------------------------------------
(* The inductive invariant                                                 *)

Probe(i) == DayOf(now + i * DayLength)
NothingOn(d) == IsWorkingDay(d) => \A w \in windows : ~OpensOn(w, d)

\* The walk goes on while it may, and never past the last day;
WalkTyped ==
  /\ zone \in Zones
  /\ windows \subseteq Slots /\ Valid(windows)
  /\ offDays \subseteq LocalDays
  /\ now \in DayLength .. 2 * DayLength - 1
  /\ day \in 0 .. MaxDaysAhead - 1
  /\ \/ answer \in {Undecided, Now}
     \/ answer.kind = "scheduled" /\ answer = Scheduled(answer.at)

\* the days it has left behind have nothing to offer,
Walked == \A i \in Nat : i < day => NothingOn(Probe(i))

\* and it ends at the first opening of a day, or after the last one.
Answered ==
  /\ answer.kind = "scheduled" =>
       /\ ~Within(now) /\ IsWorkingDay(ProbedDay)
       /\ \E w \in windows :
            /\ OpensOn(w, ProbedDay) /\ answer.at = InstantOfLocal(ProbedDay, w.start)
            /\ \A v \in windows : OpensOn(v, ProbedDay) => w.start <= v.start
  /\ answer = Now =>
       Within(now) \/ windows = {} \/ (day = MaxDaysAhead - 1 /\ NothingOn(ProbedDay))

WalkInv == WalkTyped /\ Walked /\ Answered

LEMMA LeastOf ==
  ASSUME NEW T, T \subseteq Nat, T # {}
  PROVE  \E x \in T : \A y \in T : x <= y
<1>1. PICK x \in T : \A y \in T : ~ (<<y, x>> \in OpToRel(<, Nat))
  BY NatLessThanWellFounded, WFMin
<1>2. ASSUME NEW y \in T
      PROVE  x <= y
  <2>1. x \in Nat /\ y \in Nat
    OBVIOUS
  <2>2. <<y, x>> \notin {ss \in Nat \X Nat : ss[1] < ss[2]}
    BY <1>1 DEF OpToRel
  <2> QED
    BY <2>1, <2>2
<1> QED
  BY <1>2

LEMMA FirstOfIsFirst ==
  ASSUME NEW W, W \subseteq Slots, W # {}
  PROVE  FirstOf(W) \in W /\ \A v \in W : FirstOf(W).start <= v.start
<1> DEFINE Starts == {w.start : w \in W}
<1>1. Starts \subseteq Nat /\ Starts # {}
  BY WindowsAssumption DEF Slots, Hours
<1>2. PICK s \in Starts : \A r \in Starts : s <= r
  <2> HIDE DEF Starts
  <2> QED
    BY <1>1, LeastOf
<1>3. PICK w \in W : w.start = s
  OBVIOUS
<1>4. \A v \in W : w.start <= v.start
  BY <1>2, <1>3
<1> QED
  BY <1>4 DEF FirstOf

LEMMA AnswersDiffer ==
  /\ Undecided.kind = "undecided" /\ Now.kind = "now" /\ Undecided # Now
  /\ \A t : Scheduled(t).kind = "scheduled" /\ Scheduled(t).at = t
  BY DEF Undecided, Now, Scheduled

LEMMA InitWalks == Init => WalkInv
<1> SUFFICES ASSUME Init PROVE WalkInv
  OBVIOUS
<1>1. answer.kind # "scheduled" /\ answer # Now
  BY AnswersDiffer DEF Init
<1>2. WalkTyped
  BY WindowsAssumption DEF Init, WalkTyped
<1>3. Walked
  BY DEF Init, Walked
<1> QED
  BY <1>1, <1>2, <1>3 DEF WalkInv, Answered

LEMMA NextWalks == WalkInv /\ [Next]_vars => WalkInv'
<1> SUFFICES ASSUME WalkInv, [Next]_vars PROVE WalkInv'
  OBVIOUS
<1>1. CASE UNCHANGED vars
  BY <1>1 DEF vars, WalkInv, WalkTyped, Walked, Answered, Probe, NothingOn, IsWorkingDay,
     OpensOn, InstantOfLocal, OffsetAt, ProbedDay, DayOf, HourOf, Within
<1>2. CASE DeployNow
  <2>1. WalkTyped'
    BY <1>2 DEF DeployNow, WalkInv, WalkTyped
  <2>2. Walked'
    BY <1>2 DEF DeployNow, WalkInv, Walked, Probe, NothingOn, IsWorkingDay, OpensOn,
       InstantOfLocal, OffsetAt, DayOf
  <2>3. Answered'
    BY <1>2, AnswersDiffer DEF DeployNow, Answered, Within, IsWorkingDay, DayOf, HourOf, OffsetAt
  <2> QED
    BY <2>1, <2>2, <2>3 DEF WalkInv
<1>3. CASE WalkDay
  <2> USE <1>3 DEF WalkInv
  <2>1. /\ answer = Undecided /\ ~Within(now) /\ windows # {}
        /\ zone' = zone /\ windows' = windows /\ offDays' = offDays /\ now' = now
    BY DEF WalkDay
  <2>2. /\ \A d : NothingOn(d)' <=> NothingOn(d)
        /\ \A i : Probe(i)' = Probe(i)
        /\ Within(now)' <=> Within(now)
        /\ \A d, h : InstantOfLocal(d, h)' = InstantOfLocal(d, h)
        /\ \A w, d : OpensOn(w, d)' <=> OpensOn(w, d)
        /\ \A d : IsWorkingDay(d)' <=> IsWorkingDay(d)
    BY <2>1 DEF Probe, NothingOn, IsWorkingDay, OpensOn, InstantOfLocal, OffsetAt, DayOf,
       HourOf, Within
  <2>3. ProbedDay = Probe(day) /\ (day' = day => ProbedDay' = ProbedDay)
    BY <2>1 DEF ProbedDay, Probe, DayOf, OffsetAt
  <2>4. CASE IsWorkingDay(ProbedDay) /\ Candidates # {}
    <3>0. PICK w \in Candidates : /\ w = FirstOf(Candidates)
                                  /\ \A v \in Candidates : w.start <= v.start
      BY <2>4, FirstOfIsFirst DEF Candidates, WalkTyped
    <3>1. answer' = Scheduled(InstantOfLocal(ProbedDay, w.start)) /\ day' = day
      BY <2>4, <3>0 DEF WalkDay
    <3>2. w \in Candidates /\ \A v \in Candidates : w.start <= v.start
      BY <3>0
    <3>3. WalkTyped'
      BY <2>1, <3>1, AnswersDiffer DEF WalkTyped
    <3>4. Walked'
      BY <2>2, <3>1 DEF Walked
    <3>5. ProbedDay' = ProbedDay
      BY <2>3, <3>1
    <3>6. Answered'
      <4>1. answer' # Now /\ answer'.at = InstantOfLocal(ProbedDay, w.start)
        BY <3>1, AnswersDiffer
      <4>2. ~Within(now)' /\ IsWorkingDay(ProbedDay)'
        BY <2>1, <2>2, <2>4, <3>5
      <4>3. /\ w \in windows' /\ OpensOn(w, ProbedDay)'
            /\ answer'.at = InstantOfLocal(ProbedDay, w.start)'
        BY <2>1, <2>2, <3>2, <3>5, <4>1 DEF Candidates
      <4>4. \A v \in windows' : OpensOn(v, ProbedDay)' => w.start <= v.start
        BY <2>1, <2>2, <3>2, <3>5 DEF Candidates
      <4> QED
        BY <4>1, <4>2, <4>3, <4>4 DEF Answered
    <3> QED
      BY <3>3, <3>4, <3>6
  <2>5. CASE ~(IsWorkingDay(ProbedDay) /\ Candidates # {})
    <3>1. NothingOn(ProbedDay)
      BY <2>5 DEF NothingOn, Candidates
    <3>2. CASE day + 1 < MaxDaysAhead
      <4>1. day' = day + 1 /\ answer' = answer
        BY <2>5, <3>2 DEF WalkDay
      <4>2. WalkTyped'
        BY <2>1, <3>2, <4>1, WindowsAssumption DEF WalkTyped
      <4>3. Walked'
        BY <2>2, <2>3, <3>1, <4>1 DEF Walked, WalkTyped
      <4>4. answer'.kind # "scheduled" /\ answer' # Now
        BY <2>1, <4>1, AnswersDiffer
      <4> QED
        BY <4>2, <4>3, <4>4 DEF Answered
    <3>3. CASE ~(day + 1 < MaxDaysAhead)
      <4>1. answer' = Now /\ day' = day
        BY <2>5, <3>3 DEF WalkDay
      <4>2. day = MaxDaysAhead - 1
        BY <3>3, WindowsAssumption DEF WalkTyped
      <4>3. WalkTyped'
        BY <2>1, <4>1 DEF WalkTyped
      <4>4. Walked'
        BY <2>2, <4>1 DEF Walked
      <4>5. ProbedDay' = ProbedDay
        BY <2>3, <4>1
      <4>6. Answered'
        BY <2>2, <3>1, <4>1, <4>2, <4>5, AnswersDiffer DEF Answered
      <4> QED
        BY <4>3, <4>4, <4>6
    <3> QED
      BY <3>2, <3>3
  <2> QED
    BY <2>4, <2>5
<1> QED
  BY <1>1, <1>2, <1>3 DEF Next

LEMMA AlwaysWalks == Spec => []WalkInv
  BY InitWalks, NextWalks, PTL DEF Spec

-----------------------------------------------------------------------------
(* The walk covers the calendar                                            *)

LEMMA Frame ==
  ASSUME WalkTyped
  PROVE  /\ GoodZone /\ DayLength \in Days /\ now \in Nat
         /\ windows \subseteq Slots
         /\ day \in Nat /\ MaxDaysAhead \in Days /\ day <= MaxDaysAhead - 1
         /\ \A i \in Nat : now + i * DayLength \in Nat /\ Probe(i) \in Int
<1>1. GoodZone /\ DayLength \in Days
  BY ZonesAreGood DEF WalkTyped
<1>2. now \in Nat /\ day \in Nat /\ MaxDaysAhead \in Days /\ day <= MaxDaysAhead - 1
  BY <1>1, WindowsAssumption DEF WalkTyped, Days
<1>3. ASSUME NEW i \in Nat
      PROVE  now + i * DayLength \in Nat /\ Probe(i) \in Int
  <2>1. now + i * DayLength \in Nat
    BY <1>1, <1>2 DEF Days
  <2> QED
    BY <1>1, <2>1, ClockReads DEF Probe
<1> QED
  BY <1>1, <1>2, <1>3 DEF WalkTyped

\* A day that is worked is not skipped: what falls on it falls on a probed day.
LEMMA ProbesCoverTheCalendar ==
  ASSUME WalkTyped, ChangesOnAnOffDay, NEW t \in Int, now <= t, IsWorkingDay(DayOf(t))
  PROVE  \E i \in Nat : /\ now + i * DayLength <= t
                        /\ DayOf(t) \in {Probe(i), Probe(i + 1)}
<1> DEFINE i == (t - now) \div DayLength
           a == now + i * DayLength
           c == zone.change
           d == DayOf(t)
           n == d * DayLength
<1>1. GoodZone /\ DayLength \in Days /\ now \in Nat
  BY Frame
<1>2. i \in Nat /\ a \in Int /\ a <= t /\ t <= a + DayLength
  <2> DEFINE gap == t - now
  <2>1. gap \in Nat
    BY <1>1
  <2>2. /\ gap \div DayLength \in Int /\ gap % DayLength \in 0 .. DayLength - 1
        /\ gap = (gap \div DayLength) * DayLength + (gap % DayLength)
    BY <1>1, <2>1, Division
  <2>3. 0 \div DayLength <= gap \div DayLength /\ 0 \div DayLength = 0
    <3>1. 0 = 0 * DayLength + 0 /\ 0 \in 0 .. DayLength - 1
      BY <1>1 DEF Days
    <3>2. 0 \div DayLength = 0
      BY <1>1, <3>1, Quotient
    <3> QED
      BY <1>1, <2>1, <3>2, DivisionIsMonotone
  <2>4. i = gap \div DayLength /\ (gap \div DayLength) * DayLength \in Int
    BY <1>1, <2>2 DEF Days
  <2> QED
    BY <1>1, <2>1, <2>2, <2>3, <2>4 DEF Days
<1>3. DayOf(a + DayLength) = Probe(i + 1) /\ DayOf(a) = Probe(i)
  <2>1. now + (i + 1) * DayLength = a + DayLength
    BY <1>1, <1>2 DEF Days
  <2> QED
    BY <2>1 DEF Probe
<1>4. /\ d \in Int /\ n \in Int /\ a + DayLength \in Int
      /\ DayOf(a) \in Int /\ DayOf(a + DayLength) \in Int
  BY <1>1, <1>2, ClockReads DEF Days
<1>5. DayOf(a) <= d /\ d <= DayOf(a + DayLength)
  BY <1>1, <1>2, <1>4, DaysAreMonotone
<1> HIDE DEF i, a
<1>6. ASSUME DayOf(a) # d, DayOf(a + DayLength) # d
      PROVE  FALSE
  <2>1. DayOf(a) <= d - 1 /\ d + 1 <= DayOf(a + DayLength)
    BY <1>4, <1>5, <1>6
  <2>2. Wall(a) <= n - 1
    <3>1. DayOf(a) * DayLength <= (d - 1) * DayLength
      BY <1>1, <1>4, <2>1 DEF Days
    <3>2. (d - 1) * DayLength = n - DayLength /\ DayOf(a) * DayLength \in Int
      BY <1>1, <1>4 DEF Days
    <3>3. Wall(a) = DayOf(a) * DayLength + HourOf(a) /\ HourOf(a) \in Hours
      BY <1>1, <1>2, ClockReads
    <3> HIDE DEF n
    <3> QED
      BY <1>1, <1>4, <3>1, <3>2, <3>3 DEF Hours, Days
  <2>3. n + DayLength <= Wall(a + DayLength)
    <3>1. (d + 1) * DayLength <= DayOf(a + DayLength) * DayLength
      BY <1>1, <1>4, <2>1 DEF Days
    <3>2. (d + 1) * DayLength = n + DayLength /\ DayOf(a + DayLength) * DayLength \in Int
      BY <1>1, <1>4 DEF Days
    <3>3. /\ Wall(a + DayLength) = DayOf(a + DayLength) * DayLength + HourOf(a + DayLength)
          /\ HourOf(a + DayLength) \in Hours
      BY <1>1, <1>4, ClockReads
    <3> HIDE DEF n
    <3> QED
      BY <1>1, <1>4, <3>1, <3>2, <3>3 DEF Hours, Days
  <2>4. /\ c \in Int /\ a < c /\ c <= a + DayLength
        /\ zone.after = zone.before + 1 /\ a + zone.before = n - 1
    <3> HIDE DEF n
    <3> QED
      BY <1>1, <1>2, <1>4, <2>2, <2>3 DEF Wall, OffsetAt, GoodZone, Days
  <2>5. DayLength > 1
    BY <1>1, <2>4 DEF GoodZone, Days
  <2>6. Wall(c) = c + zone.after /\ Wall(c - 1) = c - 1 + zone.before
    BY <2>4 DEF Wall, OffsetAt, GoodZone
  <2>7. CASE c = a + 1
    <3>1. Wall(c) = n + 1 /\ 1 \in Hours
      <4> HIDE DEF n, c
      <4> QED
        BY <1>1, <1>2, <1>4, <2>4, <2>5, <2>6, <2>7 DEF GoodZone, Hours, Days
    <3>2. DayOf(c) = d
      BY <1>1, <1>4, <2>4, <3>1, ClockReading
    <3> QED
      BY <1>1, <2>4, <3>2 DEF ChangesOnAnOffDay, IsWorkingDay, GoodZone
  <2>8. CASE c # a + 1
    <3> DEFINE h == c - 2 - a
    <3>1. Wall(c - 1) = n + h /\ h \in Hours /\ c - 1 \in Int
      <4> HIDE DEF n, c
      <4> QED
        BY <1>1, <1>2, <1>4, <2>4, <2>5, <2>6, <2>8 DEF GoodZone, Hours, Days
    <3> HIDE DEF h
    <3>2. DayOf(c - 1) = d
      BY <1>1, <1>4, <3>1, ClockReading
    <3> QED
      BY <1>1, <2>4, <3>2 DEF ChangesOnAnOffDay, IsWorkingDay, GoodZone
  <2> QED
    BY <2>7, <2>8
<1> QED
  BY <1>2, <1>3, <1>6 DEF a

\* A moment at which a window is open, when none is now, belongs to a window that
\* opens at or after now and no later than that moment.
LEMMA OpeningsOpen ==
  ASSUME WalkTyped, ChangesOnAnOffDay, ~Within(now), NEW t \in Int, now <= t, Within(t)
  PROVE  \E w \in windows : /\ OpensOn(w, DayOf(t))
                            /\ InstantOfLocal(DayOf(t), w.start) <= t
<1> DEFINE d == DayOf(t)
<1>1. GoodZone /\ DayLength \in Days /\ now \in Int /\ windows \subseteq Slots
  BY Frame
<1>2. IsWorkingDay(d) /\ d \in Int
  BY <1>1, ClockReads DEF Within
<1>3. PICK w \in windows : HourOf(t) \in w.start .. w.start + w.duration - 1
  BY DEF Within
<1>4. w.start \in Hours /\ w.start \in Int /\ w.duration \in Int
  BY <1>1, <1>3 DEF Slots, Hours
<1> DEFINE u == InstantOfLocal(d, w.start)
<1>5. u \in Int /\ Wall(u) = d * DayLength + w.start
  BY <1>1, <1>2, <1>4, WorkedDaysSkipNothing, InstantReads
<1> HIDE DEF u
<1>6. DayOf(u) = d /\ HourOf(u) = w.start
  BY <1>1, <1>2, <1>4, <1>5, ClockReading
<1>7. Wall(t) = d * DayLength + HourOf(t) /\ HourOf(t) \in Int
  BY <1>1, ClockReads DEF Hours
<1>8. d * DayLength \in Int
  BY <1>1, <1>2 DEF Days
<1> DEFINE n == d * DayLength
<1> HIDE DEF n
<1>9. n \in Int /\ Wall(u) = n + w.start /\ Wall(t) = n + HourOf(t)
  BY <1>5, <1>7, <1>8 DEF n
<1>10. u <= t
  <2> SUFFICES ASSUME t < u PROVE FALSE
    BY <1>5
  <2>1. Wall(u) - Wall(t) = u - t
    BY <1>1, <1>2, <1>5, <1>6, WorkedDaysKeepTime
  <2> QED
    BY <1>3, <1>4, <1>5, <1>7, <1>9, <2>1
<1>11. now <= u
  <2> SUFFICES ASSUME u < now PROVE FALSE
    BY <1>1, <1>5
  <2>1. DayOf(u) <= DayOf(now) /\ DayOf(now) <= d
    BY <1>1, <1>5, DaysAreMonotone
  <2>2. DayOf(now) = d
    BY <1>1, <1>2, <1>6, <2>1, ClockReads
  <2>3. Wall(now) - Wall(u) = now - u /\ Wall(t) - Wall(now) = t - now
    BY <1>1, <1>2, <1>5, <1>6, <2>2, WorkedDaysKeepTime
  <2>4. Wall(now) = n + HourOf(now) /\ HourOf(now) \in Int
    BY <1>1, <2>2, ClockReads DEF Hours, n
  <2>5. HourOf(now) \in w.start .. w.start + w.duration - 1
    BY <1>1, <1>3, <1>4, <1>5, <1>7, <1>9, <2>3, <2>4
  <2> QED
    BY <1>2, <1>3, <2>2, <2>5 DEF Within
<1> QED
  BY <1>3, <1>10, <1>11 DEF OpensOn, u

\* So no window opens before the first probed day that has something to offer.
LEMMA NothingBefore ==
  ASSUME WalkTyped, Walked, ChangesOnAnOffDay, ~Within(now),
         NEW t \in Int, now <= t, Within(t)
  PROVE  DayOf(t) = ProbedDay \/ now + day * DayLength <= t
<1> SUFFICES ASSUME DayOf(t) # ProbedDay, t < now + day * DayLength
             PROVE  FALSE
  BY Frame
<1>1. PICK i \in Nat : /\ now + i * DayLength <= t
                       /\ DayOf(t) \in {Probe(i), Probe(i + 1)}
  BY ProbesCoverTheCalendar DEF Within
<1>2. i < day
  <2> SUFFICES ASSUME day <= i PROVE FALSE
    BY Frame
  <2>1. day * DayLength <= i * DayLength
    <3>1. day \in Nat /\ DayLength \in Nat
      BY Frame DEF Days
    <3> QED
      BY <3>1
  <2>2. day * DayLength \in Int /\ i * DayLength \in Int /\ now \in Int
    BY Frame DEF Days
  <2> QED
    BY <1>1, <2>1, <2>2
<1>3. PICK j \in Nat : j < day /\ DayOf(t) = Probe(j)
  <2>1. ProbedDay = Probe(day)
    BY DEF ProbedDay, Probe
  <2>2. i + 1 < day \/ i + 1 = day
    BY <1>2, Frame
  <2> QED
    BY <1>1, <1>2, <2>1, <2>2
<1>4. NothingOn(DayOf(t))
  BY <1>3 DEF Walked
<1> QED
  BY <1>4, OpeningsOpen DEF NothingOn, Within

-----------------------------------------------------------------------------
(* The theorems                                                            *)

LEMMA WalkIsTyped == WalkInv => TypeOK
<1> SUFFICES ASSUME WalkInv PROVE TypeOK
  OBVIOUS
<1>1. /\ GoodZone /\ DayLength \in Days /\ now \in Nat /\ windows \subseteq Slots
      /\ day \in Nat /\ MaxDaysAhead \in Days /\ day <= MaxDaysAhead - 1
  BY Frame DEF WalkInv
<1>2. now \in Instants
  <2>1. 2 * DayLength <= (MaxDaysAhead + 1) * DayLength
    BY <1>1 DEF Days
  <2>2. (MaxDaysAhead + 1) * DayLength \in Nat
    BY <1>1 DEF Days
  <2> QED
    BY <1>1, <2>1, <2>2 DEF WalkInv, WalkTyped, Instants, Days
<1>3. ASSUME answer.kind = "scheduled"
      PROVE  answer.at \in now .. now + (MaxDaysAhead + 1) * DayLength
  <2>1. PICK w \in windows :
          /\ OpensOn(w, ProbedDay) /\ answer.at = InstantOfLocal(ProbedDay, w.start)
    BY <1>3 DEF WalkInv, Answered
  <2> DEFINE a == now + day * DayLength
  <2>2. a \in Int /\ ProbedDay = DayOf(a) /\ ProbedDay \in Int /\ w.start \in Hours
    BY <1>1, ClockReads DEF ProbedDay, Days, Slots
  <2> HIDE DEF a
  <2>3. answer.at \in Int /\ now <= answer.at /\ answer.at <= a + DayLength
    BY <1>1, <2>1, <2>2, InstantIsInReach DEF OpensOn
  <2>4. a + DayLength = now + (day + 1) * DayLength
    BY <1>1 DEF a, Days
  <2>5. (day + 1) * DayLength <= (MaxDaysAhead + 1) * DayLength
    BY <1>1 DEF Days
  <2>6. (day + 1) * DayLength \in Int /\ (MaxDaysAhead + 1) * DayLength \in Int
    BY <1>1 DEF Days
  <2> QED
    BY <1>1, <2>2, <2>3, <2>4, <2>5, <2>6
<1>4. day \in 0 .. MaxDaysAhead
  BY <1>1 DEF Days
<1> QED
  BY <1>2, <1>3, <1>4 DEF WalkInv, WalkTyped, TypeOK

\* Every variable has its type: in particular an order is never scheduled for the
\* past, nor later than a day after the last one the walk looks at, whatever the
\* zone, the windows and the calendar are (nextWindowStart).
THEOREM TypeCorrect == Spec => []TypeOK
  BY AlwaysWalks, WalkIsTyped, PTL

LEMMA ScheduledStarts ==
  ASSUME WalkTyped, Answered, answer.kind = "scheduled"
  PROVE  \E w \in windows :
           /\ w.start \in Hours /\ ProbedDay \in LocalDays /\ IsWorkingDay(ProbedDay)
           /\ answer.at = InstantOfLocal(ProbedDay, w.start)
           /\ \A v \in windows : OpensOn(v, ProbedDay) => w.start <= v.start
<1>1. /\ GoodZone /\ DayLength \in Days /\ now \in Nat /\ windows \subseteq Slots
      /\ day \in Nat /\ MaxDaysAhead \in Days /\ day <= MaxDaysAhead - 1
  BY Frame
<1> DEFINE a == now + day * DayLength
           last == (MaxDaysAhead + 2) * DayLength
<1>2. day * DayLength \in Nat /\ day * DayLength <= last - 3 * DayLength /\ last \in Nat
  <2>1. day * DayLength <= (MaxDaysAhead - 1) * DayLength
    BY <1>1 DEF Days
  <2>2. (MaxDaysAhead - 1) * DayLength = last - 3 * DayLength
    BY <1>1 DEF Days
  <2>3. day * DayLength \in Nat /\ last \in Nat
    BY <1>1 DEF Days
  <2> QED
    BY <2>1, <2>2, <2>3
<1>3. a \in Nat /\ DayLength <= a /\ a <= last - DayLength - 1
  <2>1. DayLength <= now /\ now <= 2 * DayLength - 1
    BY <1>1 DEF WalkTyped, Days
  <2> HIDE DEF last
  <2> QED
    BY <1>1, <1>2, <2>1 DEF Days
<1>4. Wall(a) \in Int /\ 0 <= Wall(a) /\ Wall(a) < last
  <2> HIDE DEF a, last
  <2> QED
    BY <1>1, <1>2, <1>3 DEF Wall, OffsetAt, GoodZone, Days
<1>5. ProbedDay = DayOf(a) /\ ProbedDay \in Int
  BY <1>1, <1>3, ClockReads DEF ProbedDay
<1>6. ProbedDay = Wall(a) \div DayLength
  BY <1>1, <1>3, <1>5, ClockReads
<1>7. Wall(a) = ProbedDay * DayLength + HourOf(a) /\ HourOf(a) \in Hours
  BY <1>1, <1>3, <1>5, ClockReads
<1> HIDE DEF a
<1>8. 0 <= ProbedDay
  <2> SUFFICES ASSUME ProbedDay <= -1 PROVE FALSE
    BY <1>5
  <2>1. ProbedDay * DayLength <= (-1) * DayLength
    BY <1>1, <1>5 DEF Days
  <2>2. ProbedDay * DayLength \in Int /\ (-1) * DayLength = -DayLength
    BY <1>1, <1>5 DEF Days
  <2> QED
    BY <1>1, <1>4, <1>7, <2>1, <2>2 DEF Hours, Days
<1>9. ProbedDay <= MaxDaysAhead + 1
  <2> SUFFICES ASSUME MaxDaysAhead + 2 <= ProbedDay PROVE FALSE
    BY <1>1, <1>5 DEF Days
  <2>1. last <= ProbedDay * DayLength
    BY <1>1, <1>5 DEF Days
  <2>2. ProbedDay * DayLength \in Int
    BY <1>1, <1>5 DEF Days
  <2> HIDE DEF last
  <2> QED
    BY <1>1, <1>2, <1>4, <1>7, <2>1, <2>2 DEF Hours, Days
<1>10. ProbedDay \in LocalDays
  BY <1>1, <1>5, <1>8, <1>9 DEF LocalDays, Days
<1> QED
  BY <1>1, <1>10 DEF Answered, Slots

LEMMA AnswerReadsAStart == WalkInv => ScheduledReadsAStart
<1> SUFFICES ASSUME WalkInv, answer.kind = "scheduled"
             PROVE  \/ IsWorkingDay(DayOf(answer.at)) /\ \E w \in windows : HourOf(answer.at) = w.start
                    \/ \E d \in LocalDays, w \in windows :
                         Skipped(d, w.start) /\ InstantOfLocal(d, w.start) = answer.at
  BY DEF ScheduledReadsAStart
<1>1. PICK w \in windows :
        /\ w.start \in Hours /\ ProbedDay \in LocalDays /\ IsWorkingDay(ProbedDay)
        /\ answer.at = InstantOfLocal(ProbedDay, w.start)
  BY ScheduledStarts DEF WalkInv
<1>2. GoodZone /\ DayLength \in Days /\ ProbedDay \in Int
  BY <1>1, Frame DEF WalkInv, LocalDays
<1>3. CASE Skipped(ProbedDay, w.start)
  BY <1>1, <1>3
<1>4. CASE ~Skipped(ProbedDay, w.start)
  <2>1. DayOf(answer.at) = ProbedDay /\ HourOf(answer.at) = w.start
    BY <1>1, <1>2, <1>4, InstantReads, ClockReading
  <2> QED
    BY <1>1, <2>1
<1> QED
  BY <1>3, <1>4

\* An order is scheduled for an instant at which the wall clock of the zone reads the
\* start of a window on a day that is worked, whichever way and whenever the clocks
\* change, unless that hour is one they skip (instantOfLocal's two passes).
THEOREM ScheduledAtAStart == Spec => []ScheduledReadsAStart
  BY AlwaysWalks, AnswerReadsAStart, PTL

LEMMA AnswerIsFirst == WalkInv => AnswersTheFirstOpening
<1> SUFFICES ASSUME WalkInv, ChangesOnAnOffDay
             PROVE  /\ answer.kind = "scheduled" =>
                         Within(answer.at) /\ \A t \in Openings : answer.at <= t
                    /\ answer = Now =>
                         \/ Within(now)
                         \/ \A t \in Openings : t >= now + (MaxDaysAhead - 1) * DayLength
  BY DEF AnswersTheFirstOpening
<1>0. /\ GoodZone /\ DayLength \in Days /\ now \in Nat /\ windows \subseteq Slots
      /\ day \in Nat /\ MaxDaysAhead \in Days
      /\ WalkTyped /\ Walked /\ Answered
  BY Frame DEF WalkInv
<1>1. \A t \in Openings : t \in Int /\ now <= t /\ Within(t)
  BY <1>0 DEF Openings, Days
<1>2. ASSUME answer.kind = "scheduled"
      PROVE  Within(answer.at) /\ \A t \in Openings : answer.at <= t
  <2> DEFINE d == ProbedDay
             at == answer.at
  <2>1. PICK w \in windows :
          /\ w.start \in Hours /\ d \in LocalDays /\ IsWorkingDay(d)
          /\ at = InstantOfLocal(d, w.start)
          /\ \A v \in windows : OpensOn(v, d) => w.start <= v.start
    BY <1>0, <1>2, ScheduledStarts
  <2>2. d \in Int /\ ~Within(now) /\ w.start \in Int /\ w.duration \in Nat \ {0}
    BY <1>0, <1>2, <2>1 DEF LocalDays, Answered, Hours, Slots, Days
  <2>3. at \in Int /\ Wall(at) = d * DayLength + w.start
    BY <1>0, <2>1, <2>2, WorkedDaysSkipNothing, InstantReads
  <2>4. DayOf(at) = d /\ HourOf(at) = w.start
    BY <1>0, <2>1, <2>2, <2>3, ClockReading
  <2>5. Within(at)
    BY <2>1, <2>2, <2>4 DEF Within
  <2>6. ASSUME NEW t \in Openings, t < at
        PROVE  FALSE
    <3>1. t \in Int /\ now <= t /\ Within(t) /\ DayOf(t) \in Int
      BY <1>0, <1>1, ClockReads
    <3>2. DayOf(t) <= d
      BY <1>0, <2>3, <2>4, <2>6, <3>1, DaysAreMonotone
    <3>3. DayOf(t) = d
      <4> SUFFICES ASSUME DayOf(t) # d PROVE FALSE
        OBVIOUS
      <4>1. now + day * DayLength <= t /\ now + day * DayLength \in Int
        BY <1>0, <2>2, <3>1, NothingBefore DEF Days
      <4>2. d <= DayOf(t)
        BY <1>0, <3>1, <4>1, DaysAreMonotone DEF ProbedDay
      <4> QED
        BY <2>2, <3>1, <3>2, <4>2
    <3>4. PICK v \in windows : OpensOn(v, d) /\ InstantOfLocal(d, v.start) <= t
      BY <1>0, <2>2, <3>1, <3>3, OpeningsOpen
    <3>5. w.start <= v.start /\ v.start \in Hours /\ v.start \in Int
      BY <1>0, <2>1, <3>4 DEF Slots, Hours
    <3> DEFINE u == InstantOfLocal(d, v.start)
    <3>6. u \in Int /\ Wall(u) = d * DayLength + v.start
      BY <1>0, <2>1, <2>2, <3>5, WorkedDaysSkipNothing, InstantReads
    <3>7. u <= t
      BY <3>4
    <3> HIDE DEF u, d, at
    <3>8. DayOf(u) = d
      BY <1>0, <2>2, <3>5, <3>6, ClockReading
    <3>9. Wall(at) - Wall(u) = at - u
      BY <1>0, <2>1, <2>3, <2>4, <2>6, <3>1, <3>6, <3>7, <3>8, WorkedDaysKeepTime
    <3>10. d * DayLength \in Int
      BY <1>0, <2>2 DEF Days
    <3> QED
      BY <2>2, <2>3, <2>6, <3>1, <3>5, <3>6, <3>7, <3>9, <3>10
  <2> QED
    BY <1>1, <2>3, <2>5, <2>6
<1>3. ASSUME answer = Now, ~Within(now), NEW t \in Openings
      PROVE  t >= now + (MaxDaysAhead - 1) * DayLength
  <2>1. t \in Int /\ now <= t /\ Within(t) /\ windows # {}
    BY <1>1 DEF Within
  <2>2. day = MaxDaysAhead - 1 /\ NothingOn(ProbedDay)
    BY <1>0, <1>3, <2>1 DEF Answered
  <2>3. DayOf(t) # ProbedDay
    BY <1>0, <1>3, <2>1, <2>2, OpeningsOpen DEF NothingOn, Within
  <2>4. now + day * DayLength <= t /\ now + day * DayLength \in Int
    BY <1>0, <1>3, <2>1, <2>3, NothingBefore DEF Days
  <2> QED
    BY <2>1, <2>2, <2>4
<1> QED
  BY <1>2, <1>3

\* An order is scheduled for the first moment at or after its approval at which a
\* window is open, and let through at a closed moment only when no window opens on
\* any day the walk covers: for every length of the day and reach of the walk, every
\* valid set of windows, any days off, and clocks that change on one of these.
THEOREM FirstOpeningIsAnswered == Spec => []AnswersTheFirstOpening
  BY AlwaysWalks, AnswerIsFirst, PTL
=============================================================================
