------------------------------ MODULE MCBooks ------------------------------
(* One vehicle, one sale, one part and one maintenance with up to two items.*)
EXTENDS Books, TLC

OneVehicle == CHOOSE v \in Vehicles : TRUE
SaleVehicles == [s \in Sales |-> OneVehicle]
MaintenanceVehicles == [m \in Maintenances |-> OneVehicle]
UnitCosts == [p \in Parts |-> 3]

ActiveRules ==
    {[type |-> "PERCENT_PROFIT", percentage |-> 50],
     [type |-> "PROGRESSIVE",
      tiers |-> <<[min |-> 0, max |-> 2, percentage |-> 50],
                  [min |-> 2, max |-> NULL, percentage |-> 100]>>]}

WorkerSymmetry == Permutations(Workers)
=============================================================================
