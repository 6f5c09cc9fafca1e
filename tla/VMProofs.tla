------------------------------- MODULE VMProofs -------------------------------
(***************************************************************************)
(* Proofs about the VM lifecycle controller (module VM) for every clock    *)
(* start, timeout, poll interval and bound on the owner's calls: get_ip    *)
(* gives up inside its window, and, when no command fails, shutdown and    *)
(* destroy delete the storage only under a stopped domain.                 *)
(***************************************************************************)
EXTENDS VM, TLAPS

(* The constants, one by one.                                              *)
LEMMA ConstNat ==
    /\ Epoch \in Nat /\ Horizon \in Nat /\ CmdTime \in Nat
    /\ IpTimeout \in Nat /\ ShutdownTimeout \in Nat /\ PollInterval \in Nat
    /\ SettleDelay \in Nat /\ MaxCalls \in Nat
    /\ Epoch <= Horizon /\ MayFail \in BOOLEAN
  BY VMAssumption, Zenon

(* The saturating clock never goes back and never passes Horizon.         *)
LEMMA LaterBound ==
    ASSUME TypeOK, NEW d \in Nat
    PROVE  /\ Later(d) \in Epoch..Horizon
           /\ Later(d) <= now + d
  BY ConstNat DEF TypeOK, Later

(* A remote command followed by s seconds of sleep: the clock moves by at *)
(* most CmdTime + s and stays in its range.                                 *)
LEMMA SpendBound ==
    ASSUME TypeOK, NEW s \in Nat, Spend(s)
    PROVE  /\ now' \in Epoch..Horizon
           /\ now' <= now + CmdTime + s
<1>1. PICK d \in 0..CmdTime : now' = Later(d + s)
  BY DEF Spend
<1>2. d + s \in Nat
  BY ConstNat
<1>3. Later(d + s) \in Epoch..Horizon /\ Later(d + s) <= now + (d + s)
  BY <1>2, LaterBound
<1>4. QED
  BY <1>1, <1>3, ConstNat DEF TypeOK

(* The VM starts idle at Epoch with nothing called.                        *)
LEMMA VInvInit == Init => VInv
<1> SUFFICES ASSUME Init PROVE VInv
  OBVIOUS
<1>1. now \in Epoch..Horizon /\ deadline \in Nat /\ sdeadline \in Nat
      /\ calls \in 0..MaxCalls
  BY ConstNat DEF Init
<1>2. QED
  BY <1>1, Zenon DEF Init, VInv, TypeOK, Ops, PCs, Outcomes

(* Every step keeps VInv: one case per action of the owner, the VM's       *)
(* coroutines, and the guest.                                              *)
LEMMA VInvStep == VInv /\ [Next]_vars => VInv'
<1> SUFFICES ASSUME VInv, [Next]_vars PROVE VInv'
  OBVIOUS
<1>0. TypeOK
  BY DEF VInv
<1> USE ConstNat DEF VInv, TypeOK, Ops, PCs, Outcomes
<1>1. ASSUME NEW o \in Ops, Call(o) PROVE VInv'
  BY <1>1 DEF Call
<1>2. CASE BootTransfer
  BY <1>2, <1>0, SpendBound DEF BootTransfer, Return, Status
<1>3. CASE BootCreate
  BY <1>3, <1>0, SpendBound DEF BootCreate, Return, Status
<1>4. CASE BootCreateFails
  BY <1>4, <1>0, SpendBound DEF BootCreateFails, Return, Status
<1>5. CASE GetIp
  BY <1>5 DEF GetIp, Cont
<1>6. CASE GetIpGivesUp
  BY <1>6 DEF GetIpGivesUp, Cont
<1>7. CASE GetIpWaits
  BY <1>7, <1>0, LaterBound DEF GetIpWaits
<1>8. CASE GetIpFound
  BY <1>8, <1>0, SpendBound DEF GetIpFound, Cont
<1>9. CASE GetIpNotFound
  BY <1>9, <1>0, SpendBound DEF GetIpNotFound
<1>10. CASE RunScript
  BY <1>10, <1>0, LaterBound DEF RunScript, Return
<1>11. CASE ShutdownNoAddress
  BY <1>11 DEF ShutdownNoAddress, Return
<1>12. CASE ShutdownCommand
  BY <1>12, <1>0, SpendBound DEF ShutdownCommand
<1>13. CASE ShutdownCommandFails
  BY <1>13, <1>0, SpendBound DEF ShutdownCommandFails, Return
<1>14. CASE ShutdownPollGone
  BY <1>14, <1>0, SpendBound DEF ShutdownPollGone, Return
<1>15. CASE ShutdownPollListed
  BY <1>15, <1>0, SpendBound DEF ShutdownPollListed
<1>16. CASE DestroyVirsh
  BY <1>16, <1>0, SpendBound DEF DestroyVirsh, Listed
<1>17. CASE DestroyVirshFails
  BY <1>17, <1>0, SpendBound DEF DestroyVirshFails
<1>18. CASE DestroyStorage
  BY <1>18, <1>0, SpendBound DEF DestroyStorage, Return
<1>19. CASE DestroyStorageFails
  BY <1>19, <1>0, SpendBound DEF DestroyStorageFails, Return
<1>20. CASE GuestLease
  <2>1. TypeOK'
    BY <1>20 DEF GuestLease
  <2>2. UNCHANGED <<now, domain, pc, op, deadline>>
    BY <1>20 DEF GuestLease
  <2>3. QED
    BY <2>1, <2>2 DEF Listed
<1>21. CASE GuestPowersOff
  BY <1>21 DEF GuestPowersOff, Listed
<1>22. CASE Finished \/ UNCHANGED vars
  <2>1. UNCHANGED vars
    BY <1>22 DEF Finished
  <2>2. QED
    BY <2>1 DEF vars, Listed
<1>23. QED
  BY <1>1, <1>2, <1>3, <1>4, <1>5, <1>6, <1>7, <1>8, <1>9, <1>10, <1>11,
     <1>12, <1>13, <1>14, <1>15, <1>16, <1>17, <1>18, <1>19, <1>20, <1>21,
     <1>22
  DEF Next, Step

(* VInv holds in every reachable state (runs vm and vm_clean check it).   *)
THEOREM VInvHolds == Spec => []VInv
  BY VInvInit, VInvStep, PTL DEF Spec

(* The clock stays in Epoch..Horizon and every variable in its type.      *)
THEOREM TypeCorrect == Spec => []TypeOK
<1>1. VInv => TypeOK
  BY DEF VInv
<1>2. QED
  BY <1>1, VInvHolds, PTL

-----------------------------------------------------------------------------
(* The action properties, from VInv.                                       *)

\* The steps GetIpHonoursDeadline constrains, and the three it allows.
GiveUpInWindow ==
    pc = "ip_check" /\ pc' \notin {"ip_check", "ip_poll"} =>
        /\ now > deadline
        /\ now <= deadline + PollInterval + CmdTime

ShutdownDown ==
    op = "shutdown" /\ pc # "idle" /\ pc' = "idle" /\ ret' = "ok"
        => ~(domain' \in {"running", "stopping"})

StorageAfter == storage /\ ~storage' => ~Listed

\* Only GetIpGivesUp leaves the check for the caller, and only past the
\* deadline; VInv bounds how far past.
LEMMA GiveUpStep == VInv /\ [Next]_vars => [GiveUpInWindow]_vars
<1> SUFFICES ASSUME VInv, [Next]_vars,
                    pc = "ip_check", pc' \notin {"ip_check", "ip_poll"}
             PROVE  now > deadline /\ now <= deadline + PollInterval + CmdTime
  BY DEF GiveUpInWindow
<1>1. CASE GetIpGivesUp
  BY <1>1 DEF GetIpGivesUp, VInv
<1>2. CASE GetIpWaits
  BY <1>2 DEF GetIpWaits
<1>3. CASE GuestLease \/ GuestPowersOff \/ Finished \/ UNCHANGED vars
  BY <1>3 DEF GuestLease, GuestPowersOff, Finished, vars
<1>4. CASE \/ \E o \in Ops : Call(o)
           \/ BootTransfer \/ BootCreate \/ BootCreateFails
           \/ GetIp \/ GetIpFound \/ GetIpNotFound \/ RunScript
           \/ ShutdownNoAddress \/ ShutdownCommand \/ ShutdownCommandFails
           \/ ShutdownPollGone \/ ShutdownPollListed
           \/ DestroyVirsh \/ DestroyVirshFails \/ DestroyStorage
           \/ DestroyStorageFails
  BY <1>4 DEF Call, BootTransfer, BootCreate, BootCreateFails, GetIp,
     GetIpFound, GetIpNotFound, RunScript, ShutdownNoAddress,
     ShutdownCommand, ShutdownCommandFails, ShutdownPollGone,
     ShutdownPollListed, DestroyVirsh, DestroyVirshFails, DestroyStorage,
     DestroyStorageFails
<1>5. QED
  BY <1>1, <1>2, <1>3, <1>4 DEF Next, Step

(* get_ip gives up only once its deadline has passed, and at most one poll *)
(* and one command after it, for every timeout and poll interval.         *)
THEOREM DeadlineHonoured == Spec => GetIpHonoursDeadline
  BY VInvHolds, GiveUpStep, PTL DEF Spec, GetIpHonoursDeadline, GiveUpInWindow

\* With no failing command, a call returns "ok" from shutdown only by the
\* poll finding the domain gone or by the forced destroy's storage delete,
\* and VInv says the domain is then down.
LEMMA DownStep ==
    ASSUME ~MayFail
    PROVE  VInv /\ [Next]_vars => [ShutdownDown]_vars
<1> SUFFICES ASSUME VInv, [Next]_vars,
                    op = "shutdown", pc # "idle", pc' = "idle", ret' = "ok"
             PROVE  ~(domain' \in {"running", "stopping"})
  BY DEF ShutdownDown
<1>1. CASE ShutdownPollGone
  BY <1>1, ~MayFail DEF ShutdownPollGone, Listed
<1>2. CASE DestroyStorage
  BY <1>2, ~MayFail DEF DestroyStorage, Return, VInv, Listed
<1>3. CASE BootTransfer \/ BootCreate \/ BootCreateFails
  BY <1>3 DEF BootTransfer, BootCreate, BootCreateFails, VInv
<1>4. CASE RunScript \/ ShutdownNoAddress \/ ShutdownCommandFails
           \/ DestroyStorageFails
  BY <1>4 DEF RunScript, ShutdownNoAddress, ShutdownCommandFails,
     DestroyStorageFails, Return
<1>5. CASE \/ \E o \in Ops : Call(o)
           \/ GetIp \/ GetIpGivesUp \/ GetIpWaits \/ GetIpFound \/ GetIpNotFound
           \/ ShutdownCommand \/ ShutdownPollListed
           \/ DestroyVirsh \/ DestroyVirshFails
           \/ GuestLease \/ GuestPowersOff \/ Finished \/ UNCHANGED vars
  BY <1>5 DEF Call, GetIp, GetIpGivesUp, GetIpWaits, GetIpFound,
     GetIpNotFound, Cont, ShutdownCommand, ShutdownPollListed, DestroyVirsh,
     DestroyVirshFails, GuestLease, GuestPowersOff, Finished, vars
<1>6. QED
  BY <1>1, <1>2, <1>3, <1>4, <1>5 DEF Next, Step

(* When no remote command fails, shutdown returns normally only with its  *)
(* domain stopped, for every timeout.                                      *)
THEOREM DomainDown ==
    ASSUME ~MayFail
    PROVE  Spec => ShutdownLeavesDomainDown
  BY DownStep, VInvHolds, PTL DEF Spec, ShutdownLeavesDomainDown, ShutdownDown

\* Only DestroyStorage deletes the storage; VInv says no domain is listed
\* at ds_storage when no command fails.
LEMMA StorageStep ==
    ASSUME ~MayFail
    PROVE  VInv /\ [Next]_vars => [StorageAfter]_vars
<1> SUFFICES ASSUME VInv, [Next]_vars, storage, ~storage'
             PROVE  ~Listed
  BY DEF StorageAfter
<1>1. CASE DestroyStorage
  BY <1>1, ~MayFail DEF DestroyStorage, VInv
<1>2. CASE ~DestroyStorage
  BY <1>2 DEF Next, Step, Call, BootTransfer, BootCreate, BootCreateFails,
     GetIp, GetIpGivesUp, GetIpWaits, GetIpFound, GetIpNotFound, RunScript,
     ShutdownNoAddress, ShutdownCommand, ShutdownCommandFails,
     ShutdownPollGone, ShutdownPollListed, DestroyVirsh, DestroyVirshFails,
     DestroyStorageFails, GuestLease, GuestPowersOff, Finished, vars
<1>3. QED
  BY <1>1, <1>2

(* When no remote command fails, destroy deletes the clone only once the  *)
(* domain using it is no longer listed.                                    *)
THEOREM StorageAfterDomain ==
    ASSUME ~MayFail
    PROVE  Spec => StorageReleasedAfterDomain
  BY StorageStep, VInvHolds, PTL DEF Spec, StorageReleasedAfterDomain, StorageAfter
===============================================================================
