----------------------------- MODULE MCLiveData -----------------------------
(* LiveData with every period shortened, so that shifts, losses, faults and *)
(* cuts meet within a few dozen frames.                                     *)
EXTENDS LiveData

ConstLimits ==
    [ rpm |-> [level |-> 7500, action |-> "SparkCut"],
      map |-> [level |-> 250, action |-> "SparkAndFuelCut"],
      oil |-> [level |-> 100, action |-> "LimpMode"],
      coolant |-> [level |-> 110, action |-> "FuelEnrich"],
      afr |-> [level |-> 160, action |-> "FuelEnrich"],
      egt |-> [level |-> 1000, action |-> "FuelEnrich"] ]

ConstHeaderBytes == {3}
ConstLineBytes == {2, 5}
=============================================================================
