-------------------------------- MODULE Startup --------------------------------
(* How the system comes up, before CityBus begins: the dispatcher creates the  *)
(* IPC objects one by one (ipc_create_all), main polls for them, attaches to   *)
(* them and forks the offices and drivers, which attach as well. Nothing but   *)
(* the order of creation tells the others when the objects may be used.        *)
EXTENDS Integers

CONSTANTS
    Children,  \* ticket offices and drivers
    TRIES,     \* polls of wait_for_ipc: 10 in main()
    Faults     \* what may go wrong, see below

ASSUME TriesAssumption == TRIES \in Nat \ {0}

(* "fork", "exec", "create": these calls fail; "crash": the dispatcher is
   killed; "interrupt": SIGINT or SIGTERM reaches main.                      *)
ASSUME FaultsAssumption ==
    Faults \subseteq {"fork", "exec", "create", "crash", "interrupt"}

VARIABLES
    objects,   \* the IPC objects the kernel keeps
    values,    \* every SETVAL of ipc_create_all is done
    dstart,    \* where the dispatcher is
    made,      \* objects it has created
    d_run,     \* its g_running
    mstart,    \* where main is
    elapsed,   \* polls main has made
    cstart,    \* where each child is
    attached   \* objects that main and each child have found, in this order

dispatcherVars == <<dstart, made, d_run>>
mainVars == <<mstart, elapsed>>
vars == <<objects, values, dispatcherVars, mainVars, cstart, attached>>

(* 1 the shared memory, 2 the semaphores, 3 to 7 the queues: ticket and its
   responses, boarding and its responses, dispatch.                          *)
LAST == 7
Object == 1 .. LAST

Main == "main"
Process == Children \cup {Main}

(* born: before setup_signals; create: in ipc_create_all; created: before
   init_shared_state; undo: in ipc_cleanup_partial; cleanup: in
   ipc_cleanup_all; dead, killed: exited by itself, or by a signal.          *)
DispatcherPC == {"none", "born", "create", "created", "loop", "undo", "cleanup",
                 "dead", "killed"}
Ended == {"dead", "killed"}
(* wait, attach: in wait_for_ipc; terminate, kill: in terminate_children.      *)
MainPC == {"fork", "wait", "attach", "verify", "spawn", "up", "clean", "failed",
           "terminate", "kill", "timed_out"}
ChildPC == {"none", "unforked", "attach", "work", "exit"}

TypeOK ==
    /\ objects \subseteq Object
    /\ values \in BOOLEAN
    /\ dstart \in DispatcherPC
    /\ made \in 0 .. LAST
    /\ d_run \in BOOLEAN
    /\ mstart \in MainPC
    /\ elapsed \in 0 .. TRIES
    /\ cstart \in [Children -> ChildPC]
    /\ attached \in [Process -> 0 .. LAST]

(* No other run has left anything.                                             *)
Init ==
    /\ objects = {} /\ values = FALSE
    /\ dstart = "none" /\ made = 0 /\ d_run = TRUE
    /\ mstart = "fork" /\ elapsed = 0
    /\ cstart = [c \in Children |-> "none"]
    /\ attached = [p \in Process |-> 0]

DispatcherAt(from, to) == dstart = from /\ dstart' = to
MainAt(from, to) == mstart = from /\ mstart' = to

-----------------------------------------------------------------------------
(* The dispatcher. A failing execl or log_init ends it before it made anything.*)
SetUp ==
    /\ \/ DispatcherAt("born", "create")
       \/ "exec" \in Faults /\ DispatcherAt("born", "dead")
    /\ UNCHANGED <<objects, values, made, d_run, mainVars, cstart, attached>>

(* Mutant: the semaphores get their values after the queues are made.          *)
CreateLate ==
    /\ dstart = "create" /\ made < LAST
    /\ objects' = objects \cup {made + 1}
    /\ made' = made + 1
    /\ UNCHANGED <<values, dstart, d_run, mainVars, cstart, attached>>

(* One shmget, semget or msgget.                                               *)
Create ==
    /\ dstart = "create" /\ made < LAST
    /\ made = 2 => values
    /\ objects' = objects \cup {made + 1}
    /\ made' = made + 1
    /\ UNCHANGED <<values, dstart, d_run, mainVars, cstart, attached>>

SetValues ==
    /\ dstart = "create" /\ made >= 2 /\ ~values
    /\ values' = TRUE
    /\ UNCHANGED <<objects, dispatcherVars, mainVars, cstart, attached>>

(* Mutant: a failure returns without ipc_cleanup_partial.                      *)
GiveUp ==
    /\ "create" \in Faults /\ ~(made = LAST /\ values)
    /\ DispatcherAt("create", "dead")
    /\ UNCHANGED <<objects, values, made, d_run, mainVars, cstart, attached>>

CreateFails ==
    /\ "create" \in Faults /\ ~(made = LAST /\ values)
    /\ DispatcherAt("create", "undo")
    /\ UNCHANGED <<objects, values, made, d_run, mainVars, cstart, attached>>

CreateDone ==
    /\ made = LAST /\ values
    /\ DispatcherAt("create", "created")
    /\ UNCHANGED <<objects, values, made, d_run, mainVars, cstart, attached>>

(* init_shared_state; what follows is CityBus, or the end on SIGTERM.          *)
InitShared ==
    /\ DispatcherAt("created", "loop")
    /\ UNCHANGED <<objects, values, made, d_run, mainVars, cstart, attached>>

LoopEnd ==
    /\ ~d_run /\ DispatcherAt("loop", "cleanup")
    /\ UNCHANGED <<objects, values, made, d_run, mainVars, cstart, attached>>

(* The objects go in the order in which they came.                             *)
RemoveFirst == \E i \in objects : /\ \A j \in objects : i <= j
                                  /\ objects' = objects \ {i}

Remove ==
    /\ dstart \in {"undo", "cleanup"} /\ RemoveFirst
    /\ UNCHANGED <<values, dispatcherVars, mainVars, cstart, attached>>

RemoveDone ==
    /\ objects = {}
    /\ DispatcherAt("undo", "dead") \/ DispatcherAt("cleanup", "dead")
    /\ UNCHANGED <<objects, values, made, d_run, mainVars, cstart, attached>>

Crash ==
    /\ "crash" \in Faults
    /\ dstart \notin Ended \cup {"none"} /\ dstart' = "killed"
    /\ UNCHANGED <<objects, values, made, d_run, mainVars, cstart, attached>>

(* SIGTERM kills a process that has not set its handler yet.                   *)
TermDispatcher ==
    /\ d_run' = FALSE
    /\ dstart' = IF dstart = "born" THEN "killed" ELSE dstart

-----------------------------------------------------------------------------
(* main                                                                        *)
ForkDispatcher ==
    /\ \/ MainAt("fork", "wait") /\ dstart' = "born"
       \/ "fork" \in Faults /\ MainAt("fork", "failed") /\ UNCHANGED dstart
    /\ UNCHANGED <<objects, values, made, d_run, elapsed, cstart, attached>>

(* ipc_resources_exist looks for the shared memory only.                       *)
SeeMemory ==
    /\ 1 \in objects /\ MainAt("wait", "attach")
    /\ attached' = [attached EXCEPT ![Main] = 0]
    /\ UNCHANGED <<objects, values, dispatcherVars, elapsed, cstart>>

(* ipc_attach_all: one object after the other, in the order of creation.       *)
Found(p) == attached[p] + 1 \in objects
Find(p) ==
    /\ attached[p] < LAST /\ Found(p)
    /\ attached' = [attached EXCEPT ![p] = @ + 1]

MainFind ==
    /\ mstart = "attach" /\ Find(Main)
    /\ UNCHANGED <<objects, values, dispatcherVars, mainVars, cstart>>

MainFound ==
    /\ attached[Main] = LAST /\ MainAt("attach", "verify")
    /\ UNCHANGED <<objects, values, dispatcherVars, elapsed, cstart, attached>>

(* Mutants: a poll that fails is not counted; one poll too many is made.       *)
PollAgain ==
    /\ \/ mstart = "wait" /\ 1 \notin objects
       \/ mstart = "attach" /\ attached[Main] < LAST /\ ~Found(Main)
    /\ mstart' = "wait"
    /\ UNCHANGED <<objects, values, dispatcherVars, elapsed, cstart, attached>>

PollOnceMore ==
    /\ \/ mstart = "wait" /\ 1 \notin objects
       \/ mstart = "attach" /\ attached[Main] < LAST /\ ~Found(Main)
    /\ elapsed' = elapsed + 1
    /\ mstart' = IF elapsed' > TRIES THEN "terminate" ELSE "wait"
    /\ UNCHANGED <<objects, values, dispatcherVars, cstart, attached>>

(* A second later main polls again, ten times in all.                          *)
Poll ==
    /\ \/ mstart = "wait" /\ 1 \notin objects
       \/ mstart = "attach" /\ attached[Main] < LAST /\ ~Found(Main)
    /\ elapsed' = elapsed + 1
    /\ mstart' = IF elapsed' = TRIES THEN "terminate" ELSE "wait"
    /\ UNCHANGED <<objects, values, dispatcherVars, cstart, attached>>

(* After the last poll: SIGTERM, and SIGKILL two seconds later. Nobody removes
   what a dispatcher killed here has made.                                   *)
Terminate ==
    /\ MainAt("terminate", "kill") /\ TermDispatcher
    /\ UNCHANGED <<objects, values, made, elapsed, cstart, attached>>

KillAll ==
    /\ MainAt("kill", "timed_out")
    /\ dstart' = IF dstart \in Ended THEN dstart ELSE "killed"
    /\ UNCHANGED <<objects, values, made, d_run, elapsed, cstart, attached>>

(* A dispatcher that is gone by now is noticed, one that goes later is not.    *)
Verify ==
    /\ MainAt("verify", IF dstart \in Ended THEN "clean" ELSE "spawn")
    /\ UNCHANGED <<objects, values, dispatcherVars, elapsed, cstart, attached>>

MainClean ==
    /\ \/ mstart = "clean" /\ UNCHANGED mstart /\ RemoveFirst
       \/ objects = {} /\ MainAt("clean", "failed") /\ UNCHANGED objects
    /\ UNCHANGED <<values, dispatcherVars, elapsed, cstart, attached>>

(* An office or a driver that cannot be forked is done without.                *)
SpawnChild(c) ==
    /\ mstart = "spawn" /\ cstart[c] = "none"
    /\ \/ cstart' = [cstart EXCEPT ![c] = "attach"]
       \/ "fork" \in Faults /\ cstart' = [cstart EXCEPT ![c] = "unforked"]
    /\ UNCHANGED <<objects, values, dispatcherVars, mainVars, attached>>

SpawnDone ==
    /\ \A c \in Children : cstart[c] # "none"
    /\ MainAt("spawn", "up")
    /\ UNCHANGED <<objects, values, dispatcherVars, elapsed, cstart, attached>>

(* SIGINT or SIGTERM reaches main, which goes on and tells the dispatcher.     *)
Interrupt ==
    /\ "interrupt" \in Faults /\ d_run
    /\ mstart \notin {"fork", "failed", "timed_out"} /\ TermDispatcher
    /\ UNCHANGED <<objects, values, made, mainVars, cstart, attached>>

-----------------------------------------------------------------------------
(* An office or a driver.                                                      *)
ChildFind(c) ==
    /\ cstart[c] = "attach" /\ Find(c)
    /\ UNCHANGED <<objects, values, dispatcherVars, mainVars, cstart>>

ChildFound(c) ==
    /\ cstart[c] = "attach"
    /\ \/ attached[c] = LAST /\ cstart' = [cstart EXCEPT ![c] = "work"]
       \/ attached[c] < LAST /\ ~Found(c) /\ cstart' = [cstart EXCEPT ![c] = "exit"]
    /\ UNCHANGED <<objects, values, dispatcherVars, mainVars, attached>>

DispatcherStep ==
    \/ SetUp \/ Create \/ SetValues \/ CreateFails \/ CreateDone \/ InitShared
    \/ LoopEnd \/ Remove \/ RemoveDone

MainStep ==
    \/ ForkDispatcher \/ SeeMemory \/ MainFind \/ MainFound \/ Poll \/ Terminate
    \/ KillAll \/ Verify \/ MainClean \/ SpawnDone
    \/ \E c \in Children : SpawnChild(c)

ChildStep(c) == ChildFind(c) \/ ChildFound(c)

Next ==
    \/ DispatcherStep \/ MainStep \/ \E c \in Children : ChildStep(c)
    \/ Crash \/ Interrupt

Spec == Init /\ [][Next]_vars

(* Every process is scheduled; faults need not come.                           *)
FairSpec == /\ Spec /\ WF_vars(DispatcherStep) /\ WF_vars(MainStep)
            /\ \A c \in Children : WF_vars(ChildStep(c))

-----------------------------------------------------------------------------
(* Whoever has found all objects works with semaphores that have their values,
   although no process waits for the dispatcher to say so: the queue that is
   looked for last is made last, after every SETVAL, and once it is made
   ipc_create_all takes nothing back.                                        *)
AttachedSeesValues == \A p \in Process : attached[p] = LAST => values

(* A dispatcher or a main that gives up by itself leaves no object behind,
   whatever call of ipc_create_all failed and whoever was attaching. (A
   dispatcher that is killed may, and main does not clean up after a timeout.) *)
NothingLeft ==
    /\ dstart = "dead" => objects = {}
    /\ mstart = "failed" => objects = {}

(* The system is up, or main has given up, in the end: also when the dispatcher
   dies while main waits for its objects.                                    *)
BootEnds == <>(mstart \in {"up", "failed", "timed_out"})
=============================================================================
