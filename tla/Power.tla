-------------------------------- MODULE Power --------------------------------
(***************************************************************************)
(* Duty cycling and its bookkeeping (power.c): which part of the time      *)
(* between two ticks counts as sleep, and when the application hears       *)
(* on_sleep and on_wake.  The steps are operators that Device composes     *)
(* with the life of a node, which decides the role and calls the ticks.    *)
(* Currents and percentages, which are computed from the totals, and the   *)
(* count of sleeps are left out.                                           *)
(***************************************************************************)
EXTENDS Integers, FiniteSets

CONSTANTS
  Profiles,       \* light profiles: an interval and its listen window
  DefaultProfile, \* the profile of the configuration
  DeepInterval    \* deep_tx_interval_ms

ASSUME PowerAssumption ==
  /\ Profiles \subseteq [interval : Nat \ {0}, window : Nat \ {0}]
  /\ \A p \in Profiles : p.window <= p.interval
  /\ DefaultProfile \in Profiles
  /\ DeepInterval \in Nat \ {0}

VARIABLES
  power,   \* the power part of umesh_ctx_t
  duty     \* history: what the application and a perfect clock know

Modes == {"ACTIVE", "LIGHT", "DEEP"}

PowerStates ==
  [mode : Modes, profile : Profiles, last : Nat, asleep : BOOLEAN,
   activeMs : Nat, sleepMs : Nat]

(* idle: the time outside of listen windows; deep: the time slept deeply;  *)
(* coarse: a tick jumped over the end of a window; skew: how far the clock *)
(* of the ticks went back when it wrapped; told: the last callback; cut: a *)
(* sleep phase was ended without one.                                      *)
Duties ==
  [idle : Nat, deep : Nat, coarse : BOOLEAN, skew : Nat,
   told : {"sleep", "wake"}, cut : BOOLEAN]

PowerTypeOK == power \in PowerStates /\ duty \in Duties

(* power_init                                                              *)
PowerInit(mode) ==
  [mode |-> mode, profile |-> DefaultProfile, last |-> 0, asleep |-> FALSE,
   activeMs |-> 0, sleepMs |-> 0]

NewDuty ==
  [idle |-> 0, deep |-> 0, coarse |-> FALSE, skew |-> 0,
   told |-> "wake", cut |-> FALSE]
-----------------------------------------------------------------------------
(* update_stats_window walks from the last tick to this one in chunks that *)
(* end with the intervals, and judges a chunk by its first moment.         *)
Phase(t) == t % power.profile.interval

ListensToo(t) == Phase(t) <= power.profile.window
Listens(t) == Phase(t) < power.profile.window

Since(now)  == power.last..(now - 1)
Chunks(now) == {t \in Since(now) : t = power.last \/ Phase(t) = 0}
ChunkOf(t)  == IF t - Phase(t) < power.last THEN power.last ELSE t - Phase(t)

AwakeMs(now)  == Cardinality({t \in Since(now) : Listens(ChunkOf(t))})
AsleepMs(now) == Cardinality({t \in Since(now) : ~ Listens(ChunkOf(t))})

(* A callback is called at each chunk that is not like the time before it. *)
AsleepAfter(now) == ~ Listens(ChunkOf(now - 1))
AsleepBefore(c)  == IF c = power.last THEN power.asleep ELSE AsleepAfter(c)

FallsAsleep(now) == \E c \in Chunks(now) : ~ Listens(c) /\ ~ AsleepBefore(c)
CallsBack(now) == \E c \in Chunks(now) : Listens(c) = AsleepBefore(c)

(* The time in which a perfect clock would have the radio off.             *)
IdleMs(now) ==
  Cardinality({t \in Since(now) : Phase(t) >= power.profile.window})
JumpsOver(now) ==
  \E t \in (power.last + 1)..(now - 1) : Phase(t) = power.profile.window

DutyCycled(role) == power.mode = "LIGHT" /\ role = "END_NODE"
AlwaysOn(role)   == power.mode = "ACTIVE" \/ role # "END_NODE"

(* power_tick after the clock has wrapped, or a second time at once, ...   *)
TickBackwards(now) ==
  /\ now <= power.last
  /\ power' = [power EXCEPT !.last = now]
  /\ duty' = [duty EXCEPT !.skew = @ + (power.last - now)]

(* ... in light mode, ...                                                  *)
TickLight(now, role) ==
  /\ now > power.last /\ DutyCycled(role)
  /\ power' = [power EXCEPT !.last = now,
                            !.asleep = AsleepAfter(now),
                            !.sleepMs = @ + AsleepMs(now),
                            !.activeMs = @ + AwakeMs(now)]
  /\ duty' = [duty EXCEPT
                !.idle = @ + IdleMs(now),
                !.coarse = @ \/ JumpsOver(now),
                !.told = IF ~ CallsBack(now) THEN @
                         ELSE IF AsleepAfter(now) THEN "sleep" ELSE "wake",
                !.cut = @ /\ ~ CallsBack(now)]

(* ... and otherwise: only a node that is always on forgets a sleep phase. *)
TickActive(now, role) ==
  /\ now > power.last /\ ~ DutyCycled(role)
  /\ power' = [power EXCEPT !.last = now,
                            !.asleep = @ /\ ~ AlwaysOn(role),
                            !.activeMs = @ + (now - power.last)]
  /\ duty' = [duty EXCEPT !.cut = @ \/ (power.asleep /\ AlwaysOn(role))]

PowerTick(now, role) ==
  \/ TickBackwards(now)
  \/ TickLight(now, role)
  \/ TickActive(now, role)

(* power_set_mode                                                          *)
SetMode(mode) ==
  /\ power' = [power EXCEPT !.mode = mode, !.asleep = FALSE]
  /\ duty' = [duty EXCEPT !.cut = @ \/ power.asleep]

(* power_set_light_profile, called for a beacon of the coordinator         *)
SetProfile(profile) == power' = [power EXCEPT !.profile = profile]

(* power_deep_sleep_cycle, where the hardware returns from it              *)
MaySleepDeeply(role) == power.mode = "DEEP" /\ role \notin {"ROUTER", "COORDINATOR"}

DeepCycle(role) ==
  /\ MaySleepDeeply(role)
  /\ power' = [power EXCEPT !.sleepMs = @ + DeepInterval]
  /\ duty' = [duty EXCEPT !.deep = @ + DeepInterval, !.told = "sleep", !.cut = TRUE]
-----------------------------------------------------------------------------
(* All the time up to the last tick is accounted for, but for the ticks at *)
(* which the clock wraps, and deep sleep on top of it.  No time is counted *)
(* as sleep in which the radio listens, and while the ticks are fine       *)
(* enough none of the other time is missed, whatever the profiles and the  *)
(* roles were in between (update_stats_window).                            *)
TimeAccounted ==
  power.activeMs + power.sleepMs = power.last + duty.skew + duty.deep
NoSleepInvented == power.sleepMs <= duty.idle + duty.deep
NoSleepMissed   == ~ duty.coarse => power.sleepMs = duty.idle + duty.deep

SleepIsReal == TimeAccounted /\ NoSleepInvented /\ NoSleepMissed

(* on_sleep and on_wake alternate: the last one told the phase the node is *)
(* in, unless a change of mode or role or a deep sleep came in between.    *)
PhaseTold == duty.cut \/ (power.asleep <=> duty.told = "sleep")
=============================================================================
