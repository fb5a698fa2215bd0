------------------------------ MODULE MCCityBus ------------------------------
(* The composition and its properties for TLC.                                *)
EXTENDS CityBusProperties, TLC

(* Where all passengers have the same profile they may be exchanged: nothing
   orders them but the queues they are in.                                   *)
PassengerSymmetry == Permutations(Passengers)
=============================================================================
