----------------------------- MODULE Protection -----------------------------
(***************************************************************************)
(* ProtectionManager and SoftwareWatchdog (protection.rs): which limits    *)
(* the measured values trip, the most severe action they call for, and the *)
(* protective enrichment, in thousandths; and which task of a watched set  *)
(* is overdue.  Temperatures are whole degrees, the air-fuel ratio is in   *)
(* tenths.                                                                 *)
(***************************************************************************)
EXTENDS Integers, FiniteSets

CONSTANTS Limits,       \* ProtectionConfig: limit -> [level, action]
          NEVER_TRIPS   \* 200: an air-fuel ratio from here on is no mixture

Limit == {"rpm", "map", "oil", "coolant", "afr", "egt"}

Actions == { "None", "IgnitionRetard", "FuelEnrich", "SparkCut", "FuelCut",
             "SparkAndFuelCut", "LimpMode", "Shutdown" }

ProtectionAssumption ==
    /\ Limits \in [Limit -> [level : Nat, action : Actions]]
    /\ NEVER_TRIPS \in Nat

severity(action) ==
    CASE action = "None" -> 0
      [] action = "IgnitionRetard" -> 1
      [] action = "FuelEnrich" -> 2
      [] action = "SparkCut" -> 3
      [] action = "FuelCut" -> 4
      [] action = "SparkAndFuelCut" -> 5
      [] action = "LimpMode" -> 6
      [] action = "Shutdown" -> 7

Lesser(a, b) == IF a <= b THEN a ELSE b

escalate(current, new) == IF severity(new) > severity(current) THEN new ELSE current

over(v, limit) == v[limit] - Limits[limit].level

\* `v` gives a value for each limit; oil pressure trips below its level, a
\* mixture only while it is one, and the hotter of two exhausts is `egt`.
trips(v, limit) ==
    CASE limit = "oil" -> over(v, limit) < 0
      [] limit = "afr" -> over(v, limit) > 0 /\ v["afr"] < NEVER_TRIPS
      [] OTHER -> over(v, limit) > 0

escalate_for(v, action, limit) ==
    IF trips(v, limit) THEN escalate(action, Limits[limit].action) ELSE action

enrich(v) ==
    LET coolant == IF trips(v, "coolant")
                   THEN Lesser(1000 + 50 * over(v, "coolant"), 1300) ELSE 1000
        lean == IF trips(v, "afr")
                THEN Lesser(coolant + 10 * over(v, "afr"), 1300) ELSE coolant
    IN  IF trips(v, "egt") THEN Lesser(lean + 3 * over(v, "egt"), 1400) ELSE lean

\* ProtectionState after evaluate; the limits are looked at in this order.
evaluate(v) ==
    LET rpm     == escalate_for(v, "None", "rpm")
        map     == escalate_for(v, rpm, "map")
        oil     == escalate_for(v, map, "oil")
        coolant == escalate_for(v, oil, "coolant")
        afr     == escalate_for(v, coolant, "afr")
    IN  [ tripped |-> {limit \in Limit : trips(v, limit)},
          action |-> escalate_for(v, afr, "egt"),
          enrich |-> enrich(v) ]

----------------------------------------------------------------------------
(* The watchdog: `w` maps a task to its deadline and its last kick.        *)

NewTask == [deadline |-> 0, kick |-> 0]

\* Setting a deadline does not kick the task.
configure_task(w, task, deadline) == [w EXCEPT ![task].deadline = deadline]

kick(w, task, now) == [w EXCEPT ![task].kick = now]

elapsed(w, task, now) == IF now > w[task].kick THEN now - w[task].kick ELSE 0

overdue(w, now) ==
    {task \in DOMAIN w : w[task].deadline # 0 /\ elapsed(w, task, now) > w[task].deadline}

check(w, now) == overdue(w, now) # {}

\* The overdue task reported is the one with the smallest number.
overdue_task(w, now) == CHOOSE task \in overdue(w, now) :
                            \A other \in overdue(w, now) : task <= other
=============================================================================
