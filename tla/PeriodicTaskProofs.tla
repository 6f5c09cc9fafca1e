-------------------------- MODULE PeriodicTaskProofs --------------------------
(***************************************************************************)
(* Proofs about PeriodicTask for every bound: its steps keep it typed; an *)
(* owner that starts only a stopped task and stops only a started one     *)
(* keeps one live timer, the one self._handler names; and then the task   *)
(* implements Ticker.                                                      *)
(***************************************************************************)
EXTENDS PeriodicTask, TLAPS

(* Every step of the task and of its owner keeps the variables typed: the *)
(* counters and handles (SMT), then the two enumerated variables (Zenon).  *)
LEMMA TypeStep == TypeOK /\ [Next]_vars => TypeOK'
<1> SUFFICES ASSUME TypeOK, [Next]_vars PROVE TypeOK'
  OBVIOUS
<1> USE PeriodicAssumption DEF TypeOK, Schedule, Cancel
<1> DEFINE Counters == /\ pending \subseteq Nat /\ handler \in Nat
                       /\ next \in Nat /\ next > 0
                       /\ fired \in 0..MaxFires /\ calls \in 0..MaxCalls
<1>1. Counters'
  <2>1. CASE Start
    BY <2>1 DEF Start
  <2>2. CASE Stop
    BY <2>2 DEF Stop
  <2>3. CASE MethodStops
    BY <2>3 DEF MethodStops
  <2>4. CASE MethodStarts
    BY <2>4 DEF MethodStarts
  <2>5. ASSUME NEW h \in pending, Fire(h) PROVE Counters'
    BY <2>5 DEF Fire
  <2>6. CASE Resched
    BY <2>6 DEF Resched
  <2>7. CASE MethodRaises
    BY <2>7 DEF MethodRaises
  <2>8. CASE Finished \/ UNCHANGED vars
    BY <2>8 DEF Finished, vars
  <2>9. QED
    BY <2>1, <2>2, <2>3, <2>4, <2>5, <2>6, <2>7, <2>8 DEF Next, Loop
<1>2. rpc' \in {"none", "method"} /\ started' \in BOOLEAN
  <2>1. CASE Start \/ Stop \/ MethodStops \/ MethodStarts
    BY <2>1, Zenon DEF Start, Stop, MethodStops, MethodStarts
  <2>2. ASSUME NEW h \in pending, Fire(h) PROVE rpc' \in {"none", "method"} /\ started' \in BOOLEAN
    BY <2>2, Zenon DEF Fire
  <2>3. CASE Resched \/ MethodRaises \/ Finished \/ UNCHANGED vars
    BY <2>3, Zenon DEF Resched, MethodRaises, Finished, vars
  <2>4. QED
    BY <2>1, <2>2, <2>3 DEF Next, Loop
<1>3. QED
  BY <1>1, <1>2, Zenon

(* PeriodicTask is typed in every state: the counters stay within their   *)
(* bounds and the handles are natural numbers.                             *)
THEOREM TypeCorrect == Spec => []TypeOK
<1>1. Init => TypeOK
  <2> SUFFICES ASSUME Init PROVE TypeOK
    OBVIOUS
  <2>1. pending \subseteq Nat /\ handler \in Nat /\ next \in Nat /\ next > 0
    BY DEF Init
  <2>2. fired \in 0..MaxFires /\ calls \in 0..MaxCalls
    BY PeriodicAssumption DEF Init
  <2>3. rpc \in {"none", "method"} /\ started \in BOOLEAN
    BY Zenon DEF Init
  <2>4. QED
    BY <2>1, <2>2, <2>3, Zenon DEF TypeOK
<1>2. QED
  BY <1>1, TypeStep, PTL DEF Spec

(* With a well-behaved owner, each step keeps TickInv: Start schedules    *)
(* only when no timer is live, Stop cancels the one live timer, and a run *)
(* consumes its handle before scheduling the next.                         *)
LEMMA TickInvStep ==
    ASSUME ~CallerMisuse
    PROVE  TypeOK /\ TickInv /\ [Next]_vars => TickInv'
<1> SUFFICES ASSUME TypeOK, TickInv, [Next]_vars PROVE TickInv'
  OBVIOUS
<1> USE DEF TickInv, Schedule, Cancel
<1>1. CASE Start
  BY <1>1 DEF Start
<1>2. CASE Stop
  BY <1>2 DEF Stop
<1>3. CASE MethodStops \/ MethodStarts
  BY <1>3 DEF MethodStops, MethodStarts
<1>4. CASE Loop
  <2>1. ASSUME NEW h \in pending, Fire(h) PROVE TickInv'
    BY <2>1 DEF Fire
  <2>2. CASE Resched
    BY <2>2 DEF Resched
  <2>3. CASE MethodRaises
    BY <2>3 DEF MethodRaises
  <2>4. QED
    BY <1>4, <2>1, <2>2, <2>3 DEF Loop
<1>5. CASE Finished \/ UNCHANGED vars
  BY <1>5 DEF Finished, vars
<1>6. QED
  BY <1>1, <1>2, <1>3, <1>4, <1>5 DEF Next

(* With an owner that starts only a stopped task and stops only a started *)
(* one, never from the method, self._handler names the only live timer    *)
(* and the task runs only while started (the invariant run periodic       *)
(* checks).                                                                 *)
THEOREM TickInvHolds ==
    ASSUME ~CallerMisuse
    PROVE  Spec => []TickInv
<1>1. Init => TickInv
  BY DEF Init, TickInv
<1>2. TypeOK /\ TickInv /\ [Next]_vars => TickInv'
  BY TickInvStep
<1>3. QED
  BY <1>1, <1>2, TypeCorrect, PTL DEF Spec

(* Under the invariant, every step of PeriodicTask is a step of Ticker or *)
(* leaves `started` and `fired` alone.                                     *)
LEMMA RefinementStep ==
    ASSUME ~CallerMisuse
    PROVE  TypeOK /\ TickInv /\ [Next]_vars => [T!Next]_(T!vars)
<1> SUFFICES ASSUME TypeOK, TickInv, [Next]_vars PROVE [T!Next]_(T!vars)
  OBVIOUS
<1> USE DEF T!vars
<1>1. CASE Start
  BY <1>1 DEF Start, T!Next, T!Start
<1>2. CASE Stop
  BY <1>2 DEF Stop, T!Next, T!Stop
<1>3. CASE MethodStops \/ MethodStarts
  BY <1>3 DEF MethodStops, MethodStarts
<1>4. ASSUME NEW h \in pending, Fire(h) PROVE [T!Next]_(T!vars)
  <2>1. started
    BY <1>4 DEF TickInv
  <2>2. QED
    BY <1>4, <2>1 DEF Fire, T!Next, T!Tick
<1>5. CASE Resched \/ MethodRaises \/ Finished \/ UNCHANGED vars
  BY <1>5 DEF Resched, MethodRaises, Finished, vars
<1>6. QED
  BY <1>1, <1>2, <1>3, <1>4, <1>5 DEF Next, Loop

(* PeriodicTask implements Ticker under the mapping on <- started (the    *)
(* refinement run periodic checks): with a well-behaved owner, the method *)
(* is called only between start() and stop().                             *)
THEOREM Refinement ==
    ASSUME ~CallerMisuse
    PROVE  Spec => TickerSafety
<1>1. Init => T!Init
  BY DEF Init, T!Init
<1>2. TypeOK /\ TickInv /\ [Next]_vars => [T!Next]_(T!vars)
  BY RefinementStep
<1>3. QED
  BY <1>1, <1>2, TypeCorrect, TickInvHolds, PTL DEF Spec, TickerSafety, T!Spec
===============================================================================
