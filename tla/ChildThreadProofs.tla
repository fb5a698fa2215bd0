--------------------------- MODULE ChildThreadProofs ---------------------------
(* The safety of the two threads of a family, for any number of families.      *)
EXTENDS ChildThread, TLAPS

(* What the end of a family rests on: while no SIGTERM has come, a child leaves
   its loop only when the adult has boarded, and then boards; and the adult
   ends after the child.                                                     *)
ChildFollows ==
    \A f \in Families :
        /\ child[f] \in {"after", "returned"} /\ g_running[f] => g_adult_boarded[f]
        /\ child[f] = "returned" /\ g_running[f] => g_child_boarded[f]
        /\ adult[f] = "gone" => child[f] = "returned"

IInv == TypeOK /\ MutexIsExact /\ ChildFollows

LEMMA InitHolds == Init => IInv
  BY DEF Init, IInv, TypeOK, MutexIsExact, ChildFollows, AdultPC, ChildPC

(* One step per action of the two threads and of the signal.                   *)
LEMMA NextHolds == IInv /\ [Next]_vars => IInv'
<1> SUFFICES ASSUME IInv, [Next]_vars PROVE IInv'
  OBVIOUS
<1> USE DEF IInv, TypeOK, MutexIsExact, ChildFollows, AdultPC, ChildPC,
        AdultAt, ChildAt, Acquire, Release, Signalled
<1>1. ASSUME NEW f \in Families, Approved(f) PROVE IInv'
  BY <1>1 DEF Approved
<1>2. ASSUME NEW f \in Families, GiveUp(f) PROVE IInv'
  BY <1>2 DEF GiveUp
<1>3. ASSUME NEW f \in Families, BoardLock(f) PROVE IInv'
  BY <1>3 DEF BoardLock
<1>4. ASSUME NEW f \in Families, BoardSignal(f) PROVE IInv'
  BY <1>4 DEF BoardSignal
<1>5. ASSUME NEW f \in Families, FinishLock(f) PROVE IInv'
  BY <1>5 DEF FinishLock
<1>6. ASSUME NEW f \in Families, FinishSignal(f) PROVE IInv'
  BY <1>6 DEF FinishSignal
<1>7. ASSUME NEW f \in Families, Join(f) PROVE IInv'
  BY <1>7 DEF Join
<1>8. ASSUME NEW f \in Families, ChildLock(f) PROVE IInv'
  BY <1>8 DEF ChildLock
<1>9. ASSUME NEW f \in Families, ChildTest(f) PROVE IInv'
  <2>1. /\ child[f] = "test" /\ (g_running[f] /\ child'[f] = "after" => g_adult_boarded[f])
        /\ owner' = [owner EXCEPT ![f] = "nobody"]
        /\ \E to \in {"waiting", "after"} : child' = [child EXCEPT ![f] = to]
        /\ UNCHANGED <<adult, g_adult_boarded, g_child_boarded, g_running>>
    BY <1>9 DEF ChildTest, MustWait
  <2> QED
    BY <2>1
<1>10. ASSUME NEW f \in Families, ChildEnd(f) PROVE IInv'
  BY <1>10 DEF ChildEnd
<1>11. ASSUME NEW f \in Families, SpuriousWakeup(f) PROVE IInv'
  BY <1>11 DEF SpuriousWakeup
<1>12. ASSUME NEW f \in Families, Terminate(f) PROVE IInv'
  BY <1>12 DEF Terminate
<1>13. CASE UNCHANGED vars
  BY <1>13 DEF vars
<1> QED
  BY <1>1, <1>2, <1>3, <1>4, <1>5, <1>6, <1>7, <1>8, <1>9, <1>10,
     <1>11, <1>12, <1>13
     DEF Next, Adult, Child

(* MutexIsExact: the threads of a family exclude each other, and the mutex is
   taken exactly while one of them is in its section.                        *)
THEOREM MutexTheorem == Spec => []MutexIsExact
<1>1. IInv => MutexIsExact
  BY DEF IInv
<1> QED
  BY <1>1, InitHolds, NextHolds, PTL DEF Spec

(* FamilyBoardsTogether: a process with a child that no SIGTERM has reached ends
   only with both on the bus, whatever wakes the child and in whatever order
   the threads take the mutex.                                               *)
THEOREM FamilyTheorem == Spec => []FamilyBoardsTogether
<1>1. IInv => FamilyBoardsTogether
  BY DEF IInv, ChildFollows, FamilyBoardsTogether
<1> QED
  BY <1>1, InitHolds, NextHolds, PTL DEF Spec
=============================================================================
