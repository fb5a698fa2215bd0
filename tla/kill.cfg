SPECIFICATION FairCrowdSpec
CONSTANTS
 MAX_BUSES = 2
 BUS_CAPACITY = 2
 BIKE_CAPACITY = 1
 TICKET_OFFICES = 0
 MAX_TICKET_QUEUE_REQUESTS = 1
 MAX_BOARDING_QUEUE_REQUESTS = 1
 Passengers = {p1}
 Vips = {}
 Cyclists = {}
 Parents = {p1}
 NoPassenger = none
 PERF_MODE = FALSE
 FULL_DEPART = FALSE
 Events = {"kill"}
CHECK_DEADLOCK FALSE
PROPERTY DeadNeverStaysActive
INVARIANT OneBusLoads
INVARIANT EnteringIsExact
INVARIANT BoardedLedger
INVARIANT NoGhostsWait
INVARIANT NobodyForgotten
INVARIANT AnsweredOrLost
