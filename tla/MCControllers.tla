--------------------------- MODULE MCControllers ---------------------------
(* Controllers with the real periods and limits of the TCU bridge, and with *)
(* the other controllers' limits a few calls away.                          *)
EXTENDS Controllers

ConstChannels == {0, 1, 2}
ConstCylinders == {0, 1}
ConstEnabled == {"intake1", "exhaust1"}
ConstFuel ==
    [ cylinders |-> 4, dead_time |-> 700, target |-> 1000, closed_loop |-> TRUE,
      stft_limit |-> 250, wall_wetting |-> TRUE, tau |-> 80, wall_x |-> 300, dfco |-> TRUE,
      dfco_tps |-> 1, dfco_clt |-> 60, dfco_rpm |-> 1500 ]
ConstLtftCells == {<<1, 1>>, <<6, 1>>, <<6, 5>>, <<14, 8>>}
ConstColumns == 1 :> 3 @@ 2 :> 2
ConstRows == 1 :> 2 @@ 2 :> 2
ConstLimits ==
    [ rpm |-> [level |-> 7500, action |-> "SparkCut"],
      map |-> [level |-> 250, action |-> "SparkAndFuelCut"],
      oil |-> [level |-> 100, action |-> "LimpMode"],
      coolant |-> [level |-> 110, action |-> "FuelEnrich"],
      afr |-> [level |-> 160, action |-> "FuelEnrich"],
      egt |-> [level |-> 1000, action |-> "FuelEnrich"] ]
ConstMaxSteps ==
    [ u \in Units |->
        CASE u \in {"ignition", "actuators", "wheel", "protection"} -> 1
          [] u = "tables" -> 2
          [] u \in {"fuel", "dbw", "idle", "vvt"} -> 3
          [] u \in {"antilag", "traction", "lambda"} -> 4
          [] u = "knock" -> 5
          [] OTHER -> 6 ]
=============================================================================
