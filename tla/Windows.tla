------------------------------ MODULE Windows ------------------------------
(***************************************************************************)
(* When an approved order may deploy: whenMayItDeploy in                   *)
(* services/windowPolicy.ts over the window arithmetic of                  *)
(* services/deploymentWindows.ts.  The walk over the days is one step a    *)
(* day.                                                                    *)
(*                                                                         *)
(* Time is counted in hours and a day has DayLength of them.  A zone is    *)
(* its offset from UTC, which changes once by one hour.  Weekends and      *)
(* holidays are the set of local days that are not worked.                 *)
(***************************************************************************)
EXTENDS Integers, FiniteSets, FiniteSetsExt

CONSTANTS
  DayLength,    \* hours of an ordinary day
  MaxOffset,    \* offsets from UTC are -MaxOffset .. MaxOffset
  MaxDaysAhead, \* MAX_DAYS_AHEAD
  MaxWindows    \* windows of a policy; bounds the model

ASSUME WindowsAssumption ==
  /\ {MaxOffset, MaxWindows} \subseteq Nat /\ MaxDaysAhead \in Nat \ {0}
  /\ DayLength \in Nat /\ DayLength > MaxOffset

VARIABLES
  zone,    \* the zone: offsets before and after its change
  windows, \* deployment_windows
  offDays, \* the local days that are not worked
  now,     \* when the order is approved
  day,     \* dayOffset of the walk
  answer   \* undecided, provision now, or scheduled for an instant

vars == <<zone, windows, offDays, now, day, answer>>

-----------------------------------------------------------------------------
Hours == 0 .. DayLength - 1
Offsets == -MaxOffset .. MaxOffset

\* The instants and the local days that can be reached.
Instants == 0 .. (MaxDaysAhead + 1) * DayLength
LocalDays == 0 .. MaxDaysAhead + 2

Zones ==
  {z \in [before : Offsets, after : Offsets, change : Instants] :
     z.after - z.before \in {-1, 0, 1} /\ (z.after = z.before => z.change = 0)}

Slots == [start : Hours, duration : 1 .. DayLength]

\* validateWindows: none runs past midnight, no two overlap.
Valid(W) ==
  /\ \A w \in W : w.start + w.duration <= DayLength
  /\ \A w, v \in W : w.start < v.start => w.start + w.duration <= v.start
  /\ \A w, v \in W : w.start = v.start => w = v

Undecided == [kind |-> "undecided"]
Now == [kind |-> "now"]
Scheduled(t) == [kind |-> "scheduled", at |-> t]

OffsetAt(t) == IF t < zone.change THEN zone.before ELSE zone.after

\* readLocally
DayOf(t) == (t + OffsetAt(t)) \div DayLength
HourOf(t) == (t + OffsetAt(t)) % DayLength

IsWorkingDay(d) == d \notin offDays

\* isWithinWindow: the closing hour is outside.
Within(t) ==
  /\ IsWorkingDay(DayOf(t))
  /\ \E w \in windows : HourOf(t) \in w.start .. w.start + w.duration - 1

InstantOfLocalOnePass(d, hour) ==
  LET naive == d * DayLength + hour
  IN naive - OffsetAt(naive)

\* instantOfLocal: guess with the offset in force at the naive instant, then once
\* more with the one in force at the guess.
InstantOfLocal(d, hour) ==
  LET naive == d * DayLength + hour
      guess == naive - OffsetAt(naive)
  IN naive - OffsetAt(guess)

\* The windows of the probed day that still open, in the order of their starts.
ProbedDay == DayOf(now + day * DayLength)
OpensAtAnyHour(w, d) == TRUE
OpensOn(w, d) == InstantOfLocal(d, w.start) >= now
Candidates == {w \in windows : OpensOn(w, ProbedDay)}
FirstOf(W) == CHOOSE w \in W : \A v \in W : w.start <= v.start

-----------------------------------------------------------------------------
Init ==
  /\ zone \in Zones
  /\ windows \in {W \in SUBSET Slots : Cardinality(W) <= MaxWindows /\ Valid(W)}
  /\ offDays \in SUBSET LocalDays
  /\ now \in DayLength .. 2 * DayLength - 1
  /\ day = 0
  /\ answer = Undecided

\* Inside a window, or no windows at all.
DeployNow ==
  /\ answer = Undecided /\ day = 0
  /\ Within(now) \/ windows = {}
  /\ answer' = Now
  /\ UNCHANGED <<zone, windows, offDays, now, day>>

WalkStopsEarly ==
  /\ answer = Undecided /\ ~Within(now) /\ windows # {}
  /\ IF IsWorkingDay(ProbedDay)
     THEN IF Candidates # {}
          THEN answer' = Scheduled(InstantOfLocal(ProbedDay, FirstOf(Candidates).start)) /\ UNCHANGED day
          ELSE answer' = Now /\ UNCHANGED day
     ELSE IF day + 1 < MaxDaysAhead THEN day' = day + 1 /\ UNCHANGED answer
     ELSE answer' = Now /\ UNCHANGED day
  /\ UNCHANGED <<zone, windows, offDays, now>>

\* One day of nextWindowStart: its first window that opens at or after the moment
\* asked about, the next day, or 'null', which deploys now.
WalkDay ==
  /\ answer = Undecided /\ ~Within(now) /\ windows # {}
  /\ IF IsWorkingDay(ProbedDay) /\ Candidates # {}
     THEN answer' = Scheduled(InstantOfLocal(ProbedDay, FirstOf(Candidates).start)) /\ UNCHANGED day
     ELSE IF day + 1 < MaxDaysAhead THEN day' = day + 1 /\ UNCHANGED answer
     ELSE answer' = Now /\ UNCHANGED day
  /\ UNCHANGED <<zone, windows, offDays, now>>

Next == DeployNow \/ WalkDay

Spec == Init /\ [][Next]_vars

-----------------------------------------------------------------------------
(* Properties                                                              *)

\* Every variable has its type.
TypeOK ==
  /\ zone \in Zones
  /\ windows \subseteq Slots /\ Valid(windows)
  /\ offDays \subseteq LocalDays
  /\ now \in Instants
  /\ day \in 0 .. MaxDaysAhead
  /\ answer \in {Undecided, Now} \union {Scheduled(t) : t \in now .. now + (MaxDaysAhead + 1) * DayLength}

\* Most zones change their clocks on a Sunday.
ChangesOnAnOffDay ==
  zone.before = zone.after \/ {DayOf(zone.change - 1), DayOf(zone.change)} \subseteq offDays

Openings == {t \in now .. now + MaxDaysAhead * DayLength : Within(t)}

\* "The first moment at or after 'after' that falls in a window", across days that
\* are not worked and a change of the clocks on one of them; an order is let through
\* at a closed moment only when no window opens on any day the walk covers.
AnswersTheFirstOpening ==
  ChangesOnAnOffDay =>
    /\ answer.kind = "scheduled" =>
         Within(answer.at) /\ \A t \in Openings : answer.at <= t
    /\ answer = Now =>
         Within(now) \/ \A t \in Openings : t >= now + (MaxDaysAhead - 1) * DayLength

\* The hours of a local day that a change of the clocks skips.
Skipped(d, hour) ==
  /\ zone.after > zone.before
  /\ d * DayLength + hour = zone.change + zone.before

\* "The instant at which a wall clock reads this local time": in every zone, the
\* answer reads the start of a window on a day that is worked, unless that hour is
\* skipped.
ScheduledReadsAStart ==
  answer.kind = "scheduled" =>
    \/ IsWorkingDay(DayOf(answer.at)) /\ \E w \in windows : HourOf(answer.at) = w.start
    \/ \E d \in LocalDays, w \in windows : Skipped(d, w.start) /\ InstantOfLocal(d, w.start) = answer.at
=============================================================================
