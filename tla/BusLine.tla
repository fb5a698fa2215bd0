-------------------------------- MODULE BusLine --------------------------------
(* What the bus line promises, whoever drives, dispatches or asks for a seat:  *)
(* parties board a bus that stands in the station and has room for them, a bus *)
(* leaves with somebody on board, and comes back empty. Which bus loads, how   *)
(* requests and answers travel and who is told what is not said here: CityBus  *)
(* implements this specification (Line in CityBusProperties).                  *)
EXTENDS Integers

CONSTANTS
    Buses,        \* the buses of the line
    Capacity,     \* seats of a bus
    BikeCapacity, \* bicycle places of a bus
    Party         \* the sizes a party that boards at once may have

VARIABLES
    in,           \* which buses are in the station
    load, bikes,  \* people and bicycles on each bus
    running,      \* until the end of the day
    transported   \* people who have left the station on a bus

vars == <<in, load, bikes, running, transported>>

Empty == [b \in Buses |-> 0]

Init ==
    /\ in = [b \in Buses |-> TRUE]
    /\ load = Empty /\ bikes = Empty
    /\ running = TRUE
    /\ transported = 0

(* A party of n people takes its seats and the k places for its bicycles.      *)
Board(b, n, k) ==
    /\ in[b]
    /\ load[b] + n <= Capacity /\ bikes[b] + k <= BikeCapacity
    /\ load' = [load EXCEPT ![b] = @ + n]
    /\ bikes' = [bikes EXCEPT ![b] = @ + k]
    /\ UNCHANGED <<in, running, transported>>

(* No bus leaves empty; at the end of the day one may.                         *)
Depart(b) ==
    /\ in[b]
    /\ running => load[b] > 0
    /\ in' = [in EXCEPT ![b] = FALSE]
    /\ transported' = transported + load[b]
    /\ UNCHANGED <<load, bikes, running>>

Return(b) ==
    /\ ~in[b]
    /\ in' = [in EXCEPT ![b] = TRUE]
    /\ load' = [load EXCEPT ![b] = 0]
    /\ bikes' = [bikes EXCEPT ![b] = 0]
    /\ UNCHANGED <<running, transported>>

(* The end of the day: the books are closed. The people then on buses are added,
   those on the road a second time; nobody is taken off the books.           *)
Stop ==
    /\ running' = FALSE
    /\ load' = Empty
    /\ transported' >= transported
    /\ UNCHANGED <<in, bikes>>

Next ==
    \/ \E b \in Buses : \/ \E n \in Party, k \in {0, 1} : Board(b, n, k)
                        \/ Depart(b) \/ Return(b)
    \/ Stop

Spec == Init /\ [][Next]_vars
=============================================================================
