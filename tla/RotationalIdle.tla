--------------------------- MODULE RotationalIdle ---------------------------
(***************************************************************************)
(* RotationalIdleRuntime (rotational_idle.rs): cutting cylinders in        *)
(* rotation at idle.  A tick runs down a list of gates; the first that is  *)
(* closed ends the cut and is counted in a histogram.  The temperature and *)
(* demand thresholds are the booleans `hot` and `calm`, and the cut is the *)
(* number of cylinders left firing; its percentage is a formula of both.   *)
(***************************************************************************)
EXTENDS Integers

CONSTANTS STEP,               \* 2: centiseconds per tick
          ACTIVATION_DELAY,   \* centiseconds armed before the cut starts
          MAX_ACTIVE,         \* centiseconds a cut may last
          LOSS_MOD,           \* 256: the sync-loss counter is u8
          COUNT_MAX           \* 65535: where the u16 counts saturate

RotationalAssumption ==
    /\ {STEP, ACTIVATION_DELAY, MAX_ACTIVE, LOSS_MOD, COUNT_MAX} \subseteq Nat \ {0}

Gates == {0, 1, 3, 4, 8, 9, 10}
Disabled == 1
TooCold == 3
EngineDemand == 4
TimedOut == 8
SyncGuard == 9
Protected == 10

NewRotational ==
    [ enabled |-> TRUE, active |-> FALSE, armed |-> FALSE, delay |-> 0,
      timer |-> 0, cylinders |-> 0, gate |-> Disabled, seen_loss |-> 0,
      activations |-> 0, timeouts |-> 0, guards |-> 0, total_active |-> 0,
      histogram |-> [g \in Gates |-> 0] ]

Counted(count, by) == IF count + by > COUNT_MAX THEN COUNT_MAX ELSE count + by

apply_gate(r, gate) ==
    [r EXCEPT !.histogram[gate] = Counted(@, 1),
              !.active = FALSE, !.armed = FALSE, !.delay = 0, !.timer = 0,
              !.cylinders = 0, !.gate = gate]

\* Slots 0 and 3 of six leave two cylinders firing, the others three.
advance_scheduler(r, n) ==
    [r EXCEPT !.cylinders = IF ((n \div 5) % 6) % 3 = 0 THEN 2 ELSE 3]

activate(r, n) ==
    advance_scheduler([r EXCEPT !.active = TRUE, !.timer = 0,
                                !.activations = Counted(@, 1)], n)

see_loss(r, loss) == [r EXCEPT !.seen_loss = loss]

arming(r, n) ==
    LET delayed == [r EXCEPT !.delay = @ + STEP]
    IN  IF delayed.delay >= ACTIVATION_DELAY THEN activate(delayed, n) ELSE delayed

\* Slip: the limit is compared before the tick is counted.
CutOneLonger(r, n) ==
    IF r.timer >= MAX_ACTIVE
    THEN apply_gate([r EXCEPT !.timeouts = Counted(@, 1)], TimedOut)
    ELSE advance_scheduler([r EXCEPT !.timer = @ + STEP, !.total_active = @ + STEP], n)

cutting(r, n) ==
    LET cut == advance_scheduler([r EXCEPT !.timer = @ + STEP,
                                           !.total_active = @ + STEP], n)
    IN  IF cut.timer >= MAX_ACTIVE
        THEN apply_gate([cut EXCEPT !.timeouts = Counted(@, 1)], TimedOut)
        ELSE cut

tick(r0, n, hot, calm, loss, protection_active) ==
    LET delta == (loss - r0.seen_loss) % LOSS_MOD
        r == see_loss(r0, loss)
        armed == [r EXCEPT !.armed = TRUE, !.gate = 0]
    IN  IF ~r.enabled THEN apply_gate(r, Disabled)
        ELSE IF protection_active THEN apply_gate(r, Protected)
        ELSE IF delta > 0
        THEN apply_gate([r EXCEPT !.guards = Counted(@, delta)], SyncGuard)
        ELSE IF ~hot THEN apply_gate(r, TooCold)
        ELSE IF ~calm THEN apply_gate(r, EngineDemand)
        ELSE IF r.active THEN cutting(armed, n)
        ELSE arming(armed, n)

RotationalType ==
    [ enabled : BOOLEAN, active : BOOLEAN, armed : BOOLEAN, delay : Nat,
      timer : Nat, cylinders : {0, 2, 3}, gate : Gates,
      seen_loss : 0..(LOSS_MOD - 1), activations : 0..COUNT_MAX,
      timeouts : 0..COUNT_MAX, guards : 0..COUNT_MAX, total_active : Nat,
      histogram : [Gates -> 0..COUNT_MAX] ]
=============================================================================
