------------------------------ MODULE LifeRhythm ------------------------------
(***************************************************************************)
(* The companion's energy and the rest gate of the scheduler: energy falls *)
(* with every act and with the waking hours, comes back with rest, and the *)
(* strongest motive, when it is rest, keeps videos and posts from being    *)
(* started (companion/service.py, scheduler_motive.py).  A day has 48      *)
(* half hours; its plan is the one the code falls back on.  Scores are     *)
(* doubled to be whole.                                                    *)
(***************************************************************************)
EXTENDS Integers

CONSTANTS
  VideoSlots,     \* half hours in which the schedule starts a video
  DefaultEnergy,  \* life_state.energy_default
  DreamCost,      \* what last night's dream took
  MaxSpent        \* acts a day that the gate does not hold back

\* Assumed by the modules that instantiate this one.
RhythmAssumption ==
  /\ VideoSlots \subseteq 0..47
  /\ DefaultEnergy \in 13..100 /\ MaxSpent \in Nat /\ DreamCost \in 0..20

VARIABLES
  slot,        \* the half hour of the day
  energy,
  activity,    \* "rest", "sleep" or "busy": what the words of the activity say
  light,       \* the plan was made with little energy: its afternoon rests
  session,     \* runtime browse_session_count
  since,       \* half hours since the last watch, up to four
  dry,         \* half hours left of the pause after a dry feed
  watched,     \* the slot's video has been started
  spent        \* acts of today that were not gated

vars == <<slot, energy, activity, light, session, since, dry, watched, spent>>

Clamp(e) == IF e < 0 THEN 0 ELSE IF e > 100 THEN 100 ELSE e
Larger(a, b) == IF a > b THEN a ELSE b
Night(s) == s < 14 \/ s >= 46
-----------------------------------------------------------------------------
(* The motives. *)

(* SelfSnapshot.from_life_state and rank_motives: "energy or 70". *)
Felt == IF energy = 0 THEN 70 ELSE energy

(* A session of watching is over two hours after its last video. *)
Session == IF since >= 4 THEN 0 ELSE session

Tired ==
  CASE Felt <= 25 -> 18 [] Felt \in 26..40 -> 12 [] Felt \in 41..55 -> 6 [] OTHER -> 0

RestScore ==
  LET asleep == IF slot < 12 THEN 19 ELSE IF Night(slot) THEN 16 ELSE 0
      sated == IF Session >= 4 THEN 14 ELSE 0
      exhausted == IF dry > 0 THEN 13 ELSE 0
  IN  Larger(Larger(Tired, asleep), Larger(sated, exhausted))

(* Browsing, at its strongest: an evening plan of it and an open thread. *)
BrowseScore ==
  LET drive == IF slot \in 38..43 THEN 15 ELSE 8 IN
  IF Night(slot) THEN 1 ELSE IF dry > 0 THEN 2
  ELSE drive - (IF Session >= 4 THEN 3 ELSE 0)

(* MotiveSnapshot.rest_gated: rest comes first among equals. *)
Gated == RestScore >= 12 /\ RestScore >= BrowseScore
-----------------------------------------------------------------------------
(* What acts cost. *)

Cost(n) == energy' = Clamp(energy - n)

(* A video the schedule starts, unless the gate is closed. *)
Starts ==
  /\ slot \in VideoSlots /\ ~watched /\ ~Gated
  /\ watched' = TRUE
  /\ activity' = "busy"

Watch ==
  /\ Starts
  /\ \E n \in {2, 4} : Cost(n)
  /\ session' = IF since < 4 THEN session + 1 ELSE 1
  /\ since' = 0
  /\ UNCHANGED <<slot, light, dry, spent>>

WatchFails ==
  /\ Starts
  /\ Cost(2)
  /\ session' = 0
  /\ UNCHANGED <<slot, light, since, dry, spent>>

(* The feed has nothing: browsing rests for forty-five minutes. *)
FeedIsDry ==
  /\ Starts
  /\ session' = 0
  /\ dry' = 2
  /\ UNCHANGED <<slot, energy, light, since, spent>>

(* A reply, a private message, a diary: none of them asks the gate. *)
Spend ==
  /\ ~Night(slot)
  /\ spent < MaxSpent
  /\ spent' = spent + 1
  /\ Cost(1)
  /\ UNCHANGED <<slot, activity, light, session, since, dry, watched>>
-----------------------------------------------------------------------------
(* Half an hour: the day rolls, the rhythm runs, rest is marked, and the   *)
(* plan has the last word on the activity.                                 *)

Next48 == (slot + 1) % 48

(* _roll_life_state_if_needed, shortly after midnight: no full recharge. *)
Rolled ==
  LET before == IF energy = 0 THEN DefaultEnergy ELSE energy
      kept == IF before < DefaultEnergy - 12 THEN before ELSE DefaultEnergy - 12
  IN  Clamp(kept - DreamCost)

(* _refresh_life_rhythm: one step of drift. *)
Drift(e, act, s) ==
  IF act \in {"rest", "sleep"} /\ (Night(s) \/ act = "rest") THEN Clamp(e + 1) ELSE Clamp(e - 1)

(* The words of the plan's segment, from _fallback_plan_items. *)
Planned(s, restful) ==
  CASE s \in {14} -> "none"
    [] s < 14 \/ s = 47 -> "sleep"
    [] s \in 44..46 -> "rest"
    [] s \in 23..27 -> "rest"
    [] s \in 28..34 -> IF restful THEN "rest" ELSE "busy"
    [] OTHER -> "busy"

HalfHour ==
  LET s == Next48
      e == IF s = 0 THEN Rolled ELSE energy
      act == IF s = 0 THEN "rest" ELSE activity
      plan == IF s \in {0, 14} THEN e < 45 ELSE light
  IN  /\ slot' = s
      /\ energy' = Drift(e, act, s)
      /\ light' = plan
      /\ since' = IF since < 4 THEN since + 1 ELSE since
      /\ dry' = IF dry > 0 THEN dry - 1 ELSE dry
      /\ session' = session
      /\ activity' = IF Planned(s, plan) # "none" THEN Planned(s, plan)
                     ELSE IF Gated' THEN "rest" ELSE act
      /\ watched' = FALSE
      /\ spent' = IF s = 0 THEN 0 ELSE spent

Init ==
  /\ slot = 16
  /\ energy = DefaultEnergy
  /\ activity = "busy"
  /\ light = FALSE
  /\ session = 0 /\ since = 4 /\ dry = 0
  /\ watched = FALSE
  /\ spent = 0

Next == Watch \/ WatchFails \/ FeedIsDry \/ Spend \/ HalfHour

(* Time passes. *)
Spec == Init /\ [][Next]_vars /\ WF_vars(HalfHour)
-----------------------------------------------------------------------------
(* Properties *)

=============================================================================
