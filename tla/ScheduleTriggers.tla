-------------------------- MODULE ScheduleTriggers --------------------------
(* The built-in triggers that watch the clock: time_schedule, cron_schedule   *)
(* (daily, weekly, interval) and system_startup. Each polls now and then; the *)
(* machine may sleep over any number of polls. The clock only moves forward.  *)
EXTENDS Integers, Sequences, SequencesExt

CONSTANTS MinuteLength,  \* instants in a minute
          DayLength,     \* minutes in a day
          LastDay,       \* bound: the last day on the clock, counted from 0
          MaxClockPolls  \* bound: polls

ASSUME ClockConstants == /\ {MinuteLength, DayLength} \subseteq Nat \ {0}
                         /\ {LastDay, MaxClockPolls} \subseteq Nat

VARIABLES alarm,         \* the trigger and when it is to go off
          started,       \* the instant at which it was validated and set up
          polls,         \* the instants of its polls so far
          memo,          \* what it remembers: a day, or an instant, or nothing
          rings          \* the instants at which it sent an event

clockVars == <<alarm, started, polls, memo, rings>>

Never == -1
Instants == 0 .. (LastDay + 1) * DayLength * MinuteLength - 1
Minute(t) == t \div MinuteLength                  \* since the beginning
Day(t) == Minute(t) \div DayLength
Today(t, minute) == Day(t) * DayLength + minute   \* that minute of t's day

Daily == {[kind |-> k, at |-> m, days |-> 0 .. LastDay] :
             k \in {"time_schedule", "cron"}, m \in 0 .. DayLength - 1}
Weekly == {[kind |-> "cron", at |-> m, days |-> {LastDay}] : m \in 0 .. DayLength - 1}
Others == [kind : {"interval", "startup"}, at : 1 .. DayLength, days : {0 .. LastDay}]

LastLook == IF polls = <<>> THEN started ELSE Last(polls)

(* TimeScheduleTrigger.poll: _previous_poll is the time of setup at first.    *)
TimeDue(now) ==
  /\ \/ Minute(now) = Today(now, alarm.at)
     \/ LastLook < Today(now, alarm.at) * MinuteLength /\ Today(now, alarm.at) <= Minute(now)
  /\ memo # Day(now)

(* CronScheduleTrigger._poll_daily and _poll_weekly.                          *)
CronDue(now) ==
  /\ Today(now, alarm.at) >= Minute(started)
  /\ memo # Day(now) /\ Day(now) \in alarm.days /\ Minute(now) >= Today(now, alarm.at)

(* CronScheduleTrigger._poll_interval and SystemStartupTrigger.poll.          *)
IntervalDue(now) == memo # Never /\ now - memo >= alarm.at * MinuteLength
StartupDue(now) == memo = Never /\ now >= started + alarm.at

Due(now) == CASE alarm.kind = "time_schedule" -> TimeDue(now)
              [] alarm.kind = "cron" -> CronDue(now)
              [] alarm.kind = "interval" -> IntervalDue(now)
              [] alarm.kind = "startup" -> StartupDue(now)

ClockInit ==
  /\ alarm \in Daily \cup Weekly \cup Others
  /\ started \in {t \in Instants : Day(t) = 0}
  /\ polls = <<>> /\ memo = Never /\ rings = <<>>

(* One poll, some time after the one before it.                               *)
PollClock(now) ==
  /\ Len(polls) < MaxClockPolls
  /\ now >= LastLook /\ (polls # <<>> => now > LastLook)
  /\ polls' = Append(polls, now)
  /\ rings' = IF Due(now) THEN Append(rings, now) ELSE rings
  /\ memo' = IF Due(now) /\ alarm.kind \in {"time_schedule", "cron"} THEN Day(now)
             ELSE IF Due(now) \/ (alarm.kind = "interval" /\ memo = Never) THEN now ELSE memo
  /\ UNCHANGED <<alarm, started>>

ClockNext == \E now \in Instants : PollClock(now)
ClockSpec == ClockInit /\ [][ClockNext]_clockVars

----------------------------------------------------------------------------
(* Properties.                                                                *)

Looks == {polls[k] : k \in DOMAIN polls}
Rings == {rings[k] : k \in DOMAIN rings}
FirstOf(S) == {t \in S : \A u \in S : t <= u}

(* The days on which the alarm has to go off, once the trigger looks: those   *)
(* whose minute came after the start. In the minute of the start it goes off  *)
(* too, time_schedule only if it looks before the minute is over.             *)
RingDays ==
  {d \in alarm.days :
     LET minute == d * DayLength + alarm.at
     IN IF alarm.kind = "cron" \/ \E t \in Looks : Minute(t) = minute
        THEN minute >= Minute(started)
        ELSE minute * MinuteLength > started}

(* A daily or weekly alarm rings exactly once on every day it is due, at the  *)
(* first look at or after its minute, though the machine slept through the    *)
(* minute itself; an interval rings at the first look after each full         *)
(* interval, counted from the look before; a start-up alarm rings once.       *)
RingsOnTime ==
  /\ \A k \in 1 .. Len(rings) - 1 : rings[k] < rings[k + 1]
  /\ Rings =
       CASE alarm.kind \in {"time_schedule", "cron"} ->
              UNION {FirstOf({t \in Looks : Day(t) = d /\ Minute(t) >= d * DayLength + alarm.at}) :
                       d \in RingDays}
         [] alarm.kind = "startup" -> FirstOf({t \in Looks : t >= started + alarm.at})
         [] alarm.kind = "interval" ->
              LET origin == FirstOf(Looks) IN
              UNION {FirstOf({t \in Looks : t >= u + alarm.at * MinuteLength}) : u \in origin \cup Rings}
=============================================================================
