------------------------------ MODULE ChildThread ------------------------------
(* The two threads of a passenger process with a child (passenger.c): the      *)
(* adult in main(), the child in child_thread_func, with g_board_mutex and     *)
(* g_board_cond between them. Every family is a process of its own.            *)
CONSTANT Families

VARIABLES
    adult,            \* where the adult is
    child,            \* where the child is
    owner,            \* who holds g_board_mutex
    g_adult_boarded,
    g_child_boarded,
    g_running

vars == <<adult, child, owner, g_adult_boarded, g_child_boarded, g_running>>

(* travel: before the outcome of the boarding loop is known; board_lock,
   board_signal: telling the child of the boarding; finish_lock,
   finish_signal, join: in wait_for_child_thread.                            *)
AdultPC == {"travel", "board_lock", "board_signal", "finish_lock",
            "finish_signal", "join", "gone"}

(* lock: before the mutex, for the first time or after a wake-up; test: holds
   it and tests the loop condition; waiting: in pthread_cond_wait; after: out
   of the loop, mutex released; returned: the thread has ended.              *)
ChildPC == {"lock", "test", "waiting", "after", "returned"}

TypeOK ==
    /\ adult \in [Families -> AdultPC]
    /\ child \in [Families -> ChildPC]
    /\ owner \in [Families -> {"nobody", "adult", "child"}]
    /\ g_adult_boarded \in [Families -> BOOLEAN]
    /\ g_child_boarded \in [Families -> BOOLEAN]
    /\ g_running \in [Families -> BOOLEAN]

Init ==
    /\ adult = [f \in Families |-> "travel"]
    /\ child = [f \in Families |-> "lock"]
    /\ owner = [f \in Families |-> "nobody"]
    /\ g_adult_boarded = [f \in Families |-> FALSE]
    /\ g_child_boarded = [f \in Families |-> FALSE]
    /\ g_running = [f \in Families |-> TRUE]

AdultAt(f, from, to) == adult[f] = from /\ adult' = [adult EXCEPT ![f] = to]
ChildAt(f, from, to) == child[f] = from /\ child' = [child EXCEPT ![f] = to]

(* Mutant: pthread_mutex_lock left out.                                        *)
AcquireAtOnce(f, who) == owner' = [owner EXCEPT ![f] = who]

Acquire(f, who) == owner[f] = "nobody" /\ owner' = [owner EXCEPT ![f] = who]
Release(f) == owner' = [owner EXCEPT ![f] = "nobody"]

(* Mutant: "if" for "while", the child does not test the flags again.         *)
SignalledEnds(f) == [child EXCEPT ![f] = IF @ = "waiting" THEN "after" ELSE @]

(* pthread_cond_signal: wakes the child if it waits, else nothing.             *)
Signalled(f) == [child EXCEPT ![f] = IF @ = "waiting" THEN "lock" ELSE @]

-----------------------------------------------------------------------------
(* The adult gets an approved response, or leaves without having boarded: no
   ticket, station closed, end of the simulation, or its own SIGTERM.        *)
Approved(f) ==
    /\ AdultAt(f, "travel", "board_lock")
    /\ UNCHANGED <<child, owner, g_adult_boarded, g_child_boarded, g_running>>

GiveUp(f) ==
    /\ AdultAt(f, "travel", "finish_lock")
    /\ UNCHANGED <<child, owner, g_adult_boarded, g_child_boarded, g_running>>

BoardLock(f) ==
    /\ AdultAt(f, "board_lock", "board_signal") /\ Acquire(f, "adult")
    /\ UNCHANGED <<child, g_adult_boarded, g_child_boarded, g_running>>

BoardSignal(f) ==
    /\ AdultAt(f, "board_signal", "finish_lock")
    /\ g_adult_boarded' = [g_adult_boarded EXCEPT ![f] = TRUE]
    /\ child' = Signalled(f)
    /\ Release(f)
    /\ UNCHANGED <<g_child_boarded, g_running>>

(* wait_for_child_thread: a signal, whatever the adult has done, and the join. *)
FinishLock(f) ==
    /\ AdultAt(f, "finish_lock", "finish_signal") /\ Acquire(f, "adult")
    /\ UNCHANGED <<child, g_adult_boarded, g_child_boarded, g_running>>

FinishSignal(f) ==
    /\ AdultAt(f, "finish_signal", "join")
    /\ child' = Signalled(f)
    /\ Release(f)
    /\ UNCHANGED <<g_adult_boarded, g_child_boarded, g_running>>

Join(f) ==
    /\ child[f] = "returned"
    /\ AdultAt(f, "join", "gone")
    /\ UNCHANGED <<child, owner, g_adult_boarded, g_child_boarded, g_running>>

-----------------------------------------------------------------------------
ChildLock(f) ==
    /\ ChildAt(f, "lock", "test") /\ Acquire(f, "child")
    /\ UNCHANGED <<adult, g_adult_boarded, g_child_boarded, g_running>>

(* Mutant: the child waits without looking at the flags.                       *)
AlwaysWait(f) == TRUE

(* The loop condition, and pthread_cond_wait, which releases the mutex as it
   begins to wait.                                                           *)
MustWait(f) == ~g_adult_boarded[f] /\ g_running[f]

ChildTest(f) ==
    /\ ChildAt(f, "test", IF MustWait(f) THEN "waiting" ELSE "after")
    /\ Release(f)
    /\ UNCHANGED <<adult, g_adult_boarded, g_child_boarded, g_running>>

(* pthread_cond_wait may return without a signal.                              *)
SpuriousWakeup(f) ==
    /\ ChildAt(f, "waiting", "lock")
    /\ UNCHANGED <<adult, owner, g_adult_boarded, g_child_boarded, g_running>>

ChildEnd(f) ==
    /\ ChildAt(f, "after", "returned")
    /\ g_child_boarded' = [g_child_boarded EXCEPT ![f] = @ \/ g_adult_boarded[f]]
    /\ UNCHANGED <<adult, owner, g_adult_boarded, g_running>>

(* handle_shutdown clears the flag and wakes nobody.                           *)
Terminate(f) ==
    /\ adult[f] # "gone" /\ g_running[f]
    /\ g_running' = [g_running EXCEPT ![f] = FALSE]
    /\ UNCHANGED <<adult, child, owner, g_adult_boarded, g_child_boarded>>

-----------------------------------------------------------------------------
Adult(f) == Approved(f) \/ GiveUp(f) \/ BoardLock(f) \/ BoardSignal(f)
              \/ FinishLock(f) \/ FinishSignal(f) \/ Join(f)
Child(f) == ChildLock(f) \/ ChildTest(f) \/ ChildEnd(f)

Next == \E f \in Families : Adult(f) \/ Child(f) \/ SpuriousWakeup(f) \/ Terminate(f)

Spec == Init /\ [][Next]_vars

(* Both threads are scheduled, and the mutex, which either side holds for a
   bounded time, is granted to a thread that asks for it again and again.    *)
Fairness == \A f \in Families : SF_vars(Adult(f)) /\ SF_vars(Child(f))
FairSpec == Spec /\ Fairness

-----------------------------------------------------------------------------
(* g_board_mutex keeps the two threads apart: its owner, and only its owner, is
   between the lock and the unlock.                                          *)
MutexIsExact ==
    \A f \in Families :
        /\ owner[f] = "adult" <=> adult[f] \in {"board_signal", "finish_signal"}
        /\ owner[f] = "child" <=> child[f] = "test"

(* Unless SIGTERM has come, a process with a child ends by itself only when
   both are aboard: no wake-up, in the loop or at the end, lets the child go
   before its adult, and none lets the adult go without it. (After SIGTERM the
   thread of the child may end before its adult gets an approved response.)   *)
FamilyBoardsTogether ==
    \A f \in Families : adult[f] = "gone" /\ g_running[f] =>
        g_adult_boarded[f] /\ g_child_boarded[f]

(* The wake-up is not lost, whichever thread comes first: when the adult has
   boarded, the join returns.                                                *)
JoinAfterBoarding == \A f \in Families : g_adult_boarded[f] ~> adult[f] = "gone"
=============================================================================
