----------------------------- MODULE StartupProofs -----------------------------
(* What Startup promises of a run that finds nothing left from another, for    *)
(* any number of offices and drivers.                                          *)
EXTENDS Startup, TLAPS

(* The objects there are were made by the dispatcher, in order, with every
   SETVAL before the first queue; before it starts, and once it or main has
   given up, there are none; and main polls no more than TRIES times.        *)
MadeInOrder ==
    /\ made > 2 => values
    /\ objects \subseteq 1 .. made

Ends ==
    /\ mstart = "fork" => dstart = "none"
    /\ dstart \in {"none", "born"} => made = 0
    /\ mstart \in {"clean", "failed"} => dstart \in Ended \cup {"none"}
    /\ mstart = "clean" => dstart \in Ended
    /\ mstart \in {"fork", "wait", "attach"} => elapsed < TRIES

IInv == TypeOK /\ MadeInOrder /\ Ends /\ AttachedSeesValues /\ NothingLeft

USE TriesAssumption

LEMMA InitIInv == Init => IInv
<1> SUFFICES ASSUME Init PROVE IInv
  OBVIOUS
<1>1. cstart \in [Children -> ChildPC] /\ attached \in [Process -> 0 .. LAST]
  BY DEF Init, LAST, ChildPC
<1>2. values \in BOOLEAN /\ d_run \in BOOLEAN
  BY Zenon DEF Init
<1>3. objects \subseteq Object /\ dstart \in DispatcherPC /\ made \in 0 .. LAST
  BY DEF Init, Object, LAST, DispatcherPC
<1>4. mstart \in MainPC /\ elapsed \in 0 .. TRIES /\ elapsed < TRIES
  BY DEF Init, MainPC
<1>5. AttachedSeesValues
  BY DEF Init, AttachedSeesValues, LAST
<1> QED BY <1>1, <1>2, <1>3, <1>4, <1>5
        DEF Init, IInv, TypeOK, MadeInOrder, Ends, NothingLeft, Ended

(* The steps of the dispatcher alone leave who has found what.                 *)
LEMMA DispatcherKeeps == IInv /\ (DispatcherStep \/ Crash \/ Interrupt) => IInv'
<1> SUFFICES ASSUME IInv, DispatcherStep \/ Crash \/ Interrupt PROVE IInv'
  OBVIOUS
<1> USE DEF IInv, TypeOK, MadeInOrder, Ends, AttachedSeesValues, NothingLeft,
            Object, LAST, Ended, DispatcherPC, MainPC, ChildPC, dispatcherVars, mainVars,
            DispatcherAt
<1>1. CASE SetUp BY <1>1 DEF SetUp
<1>2. CASE Create BY <1>2 DEF Create
<1>3. CASE SetValues BY <1>3 DEF SetValues
<1>4. CASE CreateFails BY <1>4 DEF CreateFails
<1>5. CASE CreateDone \/ InitShared \/ LoopEnd BY <1>5 DEF CreateDone, InitShared, LoopEnd
<1>6. CASE Remove BY <1>6 DEF Remove, RemoveFirst
<1>7. CASE RemoveDone BY <1>7 DEF RemoveDone
<1>8. CASE Crash BY <1>8 DEF Crash
<1>9. CASE Interrupt BY <1>9 DEF Interrupt, TermDispatcher
<1> QED BY <1>1, <1>2, <1>3, <1>4, <1>5, <1>6, <1>7, <1>8, <1>9 DEF DispatcherStep

(* Finding the last object takes it to be there: then all are made.            *)
LEMMA FindKeeps ==
  ASSUME NEW p \in Process, IInv, Find(p), UNCHANGED values
  PROVE  /\ attached' \in [Process -> 0 .. LAST]
         /\ AttachedSeesValues'
<1>1. attached[p] \in 0 .. LAST /\ attached[p] + 1 \in 0 .. LAST
  BY DEF Find, IInv, TypeOK, LAST
<1>2. attached' \in [Process -> 0 .. LAST]
  BY <1>1 DEF Find, IInv, TypeOK
<1>3. attached[p] + 1 = LAST => values
  BY DEF Find, Found, IInv, TypeOK, MadeInOrder, LAST
<1>4. \A q \in Process : attached'[q] = IF q = p THEN attached[p] + 1 ELSE attached[q]
  BY DEF Find, IInv, TypeOK
<1> QED BY <1>2, <1>3, <1>4 DEF AttachedSeesValues, IInv

LEMMA MainKeeps == IInv /\ MainStep => IInv'
<1> SUFFICES ASSUME IInv, MainStep PROVE IInv'
  OBVIOUS
<1>m. Main \in Process
  BY DEF Process
<1> USE DEF IInv, TypeOK, MadeInOrder, Ends, NothingLeft, Object, LAST, Ended,
            DispatcherPC, MainPC, ChildPC, dispatcherVars, mainVars, MainAt
<1>1. CASE ForkDispatcher BY <1>1 DEF ForkDispatcher, AttachedSeesValues
<1>2. CASE SeeMemory
  <2>1. attached' \in [Process -> 0 .. LAST] /\ AttachedSeesValues'
    BY <1>2, <1>m DEF SeeMemory, AttachedSeesValues
  <2> QED BY <2>1, <1>2 DEF SeeMemory
<1>3. CASE MainFind
  <2>1. attached' \in [Process -> 0 .. LAST] /\ AttachedSeesValues'
    BY <1>3, <1>m, FindKeeps DEF MainFind
  <2> QED BY <2>1, <1>3 DEF MainFind
<1>4. CASE MainFound
  <2>1. AttachedSeesValues'
    BY <1>4 DEF MainFound, AttachedSeesValues
  <2> QED BY <2>1, <1>4 DEF MainFound
<1>5. CASE Poll BY <1>5 DEF Poll, AttachedSeesValues
<1>6. CASE Terminate BY <1>6 DEF Terminate, TermDispatcher, AttachedSeesValues
<1>7. CASE KillAll BY <1>7 DEF KillAll, AttachedSeesValues
<1>8. CASE Verify BY <1>8 DEF Verify, AttachedSeesValues
<1>9. CASE MainClean BY <1>9 DEF MainClean, RemoveFirst, AttachedSeesValues
<1>10. CASE SpawnDone BY <1>10 DEF SpawnDone, AttachedSeesValues
<1>11. ASSUME NEW c \in Children, SpawnChild(c) PROVE IInv'
  BY <1>11 DEF SpawnChild, AttachedSeesValues
<1> QED BY <1>1, <1>2, <1>3, <1>4, <1>5, <1>6, <1>7, <1>8, <1>9, <1>10, <1>11
        DEF MainStep

LEMMA ChildKeeps == ASSUME NEW c \in Children, IInv, ChildStep(c) PROVE IInv'
<1>c. c \in Process
  BY DEF Process
<1>1. CASE ChildFind(c)
  <2>1. attached' \in [Process -> 0 .. LAST] /\ AttachedSeesValues'
    BY <1>1, <1>c, FindKeeps DEF ChildFind
  <2> QED BY <2>1, <1>1 DEF ChildFind, IInv, TypeOK, MadeInOrder, Ends,
                            NothingLeft, dispatcherVars, mainVars
<1>2. CASE ChildFound(c)
  BY <1>2 DEF ChildFound, IInv, TypeOK, MadeInOrder, Ends, AttachedSeesValues,
              NothingLeft, dispatcherVars, mainVars, ChildPC
<1> QED BY <1>1, <1>2 DEF ChildStep

LEMMA NextKeeps == IInv /\ [Next]_vars => IInv'
<1>1. ASSUME IInv, UNCHANGED vars PROVE IInv'
  BY <1>1 DEF vars, dispatcherVars, mainVars, IInv, TypeOK, MadeInOrder, Ends,
              AttachedSeesValues, NothingLeft
<1> QED BY <1>1, DispatcherKeeps, MainKeeps, ChildKeeps DEF Next

(* ipc.c, ipc_create_all: whoever has attached works with semaphores that have
   their values.                                                             *)
THEOREM AttachedSeesValuesTheorem == Spec => []AttachedSeesValues
<1>1. IInv => AttachedSeesValues
  BY DEF IInv
<1> QED BY <1>1, InitIInv, NextKeeps, PTL DEF Spec

(* ipc.c, ipc_cleanup_partial, and main.c: a dispatcher or a main that gives up
   by itself leaves no object.                                               *)
THEOREM NothingLeftTheorem == Spec => []NothingLeft
<1>1. IInv => NothingLeft
  BY DEF IInv
<1> QED BY <1>1, InitIInv, NextKeeps, PTL DEF Spec

(* The types of the variables of Startup.                                      *)
THEOREM StartupTypeCorrect == Spec => []TypeOK
<1>1. IInv => TypeOK
  BY DEF IInv
<1> QED BY <1>1, InitIInv, NextKeeps, PTL DEF Spec
=============================================================================
