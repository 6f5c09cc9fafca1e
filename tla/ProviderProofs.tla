---------------------------- MODULE ProviderProofs ----------------------------
(***************************************************************************)
(* Proofs about the host pool (module Provider) for every number of hosts, *)
(* set of jobs, requests and image configuration: releasing VMs never      *)
(* deletes a built image.                                                  *)
(***************************************************************************)
EXTENDS Provider, FiniteSetTheorems, TLAPS

-----------------------------------------------------------------------------
(* get_host's loop.  ChooseHost's local function best is the unique       *)
(* solution of BestEq; its value at k is the first least-loaded host among *)
(* the first k, which is what FirstLeastLoaded chooses for k = n.          *)

\* The equation that defines best in ChooseHost.
BestEq(loads, b) ==
    [k \in 0..Len(loads) |->
        IF k = 0 THEN <<1, loads[1]>>
        ELSE IF loads[k] < b[k - 1][2] THEN <<k, loads[k]>> ELSE b[k - 1]]

\* i is the first host of least load among hosts 1..k.
IsFirstLeast(loads, k, i) ==
    /\ i \in 1..k
    /\ \A j \in 1..k : loads[i] <= loads[j]
    /\ \A j \in 1..(i - 1) : loads[j] > loads[i]

FirstLeastUpTo(loads, k) == CHOOSE i : IsFirstLeast(loads, k, i)

\* The closed form of best.
BestClosed(loads) ==
    [k \in 0..Len(loads) |->
        IF k = 0 THEN <<1, loads[1]>>
        ELSE <<FirstLeastUpTo(loads, k), loads[FirstLeastUpTo(loads, k)]>>]

(* ChooseHost is the first component of best at n.                         *)
LEMMA ChooseHostUnfold ==
    ASSUME NEW loads
    PROVE  ChooseHost(loads) = (CHOOSE b : b = BestEq(loads, b))[Len(loads)][1]
  BY DEF ChooseHost, BestEq

(* The least-number principle: a nonempty set of naturals has a least      *)
(* element.                                                                 *)
LEMMA LeastNat ==
    ASSUME NEW T \in SUBSET Nat, T # {}
    PROVE  \E m \in T : \A k \in T : m <= k
<1>1. \E x \in T : \A y \in T : ~(<<y, x>> \in OpToRel(<, Nat))
  BY NatLessThanWellFounded, WFMin
<1>2. PICK x \in T : \A y \in T : ~(<<y, x>> \in OpToRel(<, Nat))
  BY <1>1
<1>3. ASSUME NEW y \in T PROVE x <= y
  <2>1. ~(<<y, x>> \in OpToRel(<, Nat))
    BY <1>2
  <2>2. <<y, x>> \in Nat \X Nat /\ <<y, x>>[1] = y /\ <<y, x>>[2] = x
    OBVIOUS
  <2>3. ~(y < x)
    BY <2>1, <2>2, Zenon DEF OpToRel
  <2>4. QED
    BY <2>3
<1>4. QED
  BY <1>3

(* A load vector is a sequence of its length.                              *)
LEMMA LoadsLen ==
    ASSUME NEW n \in Nat, NEW loads \in [1..n -> Nat]
    PROVE  Len(loads) = n
  OBVIOUS

(* Among hosts 1..k there is a first one of least load.                    *)
LEMMA FirstLeastExists ==
    ASSUME NEW n \in Nat, NEW loads \in [1..n -> Nat], NEW k \in 1..n
    PROVE  \E i : IsFirstLeast(loads, k, i)
<1> DEFINE V == {loads[j] : j \in 1..k}
<1>1. PICK v \in V : \A w \in V : v <= w
  <2>1. V \in SUBSET Nat /\ V # {}
    OBVIOUS
  <2>2. QED
    BY <2>1, LeastNat
<1> DEFINE I == {j \in 1..k : loads[j] = v}
<1>2. PICK i \in I : \A j \in I : i <= j
  <2>1. I \in SUBSET Nat /\ I # {}
    BY <1>1
  <2>2. QED
    BY <2>1, LeastNat
<1>3. i \in 1..k /\ loads[i] = v
  OBVIOUS
<1>4. \A j \in 1..k : loads[i] <= loads[j]
  BY <1>1, <1>3
<1>5. ASSUME NEW j \in 1..(i - 1) PROVE loads[j] > loads[i]
  <2>1. j \in 1..k /\ j < i
    BY <1>3
  <2>2. loads[j] # v
    BY <2>1, <1>2
  <2>3. loads[j] >= v
    BY <2>1, <1>1
  <2>4. QED
    BY <2>2, <2>3, <1>3
<1>6. IsFirstLeast(loads, k, i)
  BY <1>3, <1>4, <1>5 DEF IsFirstLeast
<1>7. QED
  BY <1>6

(* ... and only one.                                                        *)
LEMMA FirstLeastUnique ==
    ASSUME NEW n \in Nat, NEW loads \in [1..n -> Nat], NEW k \in 1..n,
           NEW i, NEW i2, IsFirstLeast(loads, k, i), IsFirstLeast(loads, k, i2)
    PROVE  i = i2
  BY DEF IsFirstLeast

(* So FirstLeastUpTo names it.                                             *)
LEMMA FirstLeastUpToSpec ==
    ASSUME NEW n \in Nat, NEW loads \in [1..n -> Nat], NEW k \in 1..n
    PROVE  /\ IsFirstLeast(loads, k, FirstLeastUpTo(loads, k))
           /\ \A i : IsFirstLeast(loads, k, i) => i = FirstLeastUpTo(loads, k)
<1>1. IsFirstLeast(loads, k, FirstLeastUpTo(loads, k))
  BY FirstLeastExists DEF FirstLeastUpTo
<1>2. QED
  BY <1>1, FirstLeastUnique

(* One more host: it replaces the candidate only when strictly less loaded.*)
LEMMA FirstLeastStep ==
    ASSUME NEW n \in Nat, NEW loads \in [1..n -> Nat], NEW k \in 2..n,
           NEW i, IsFirstLeast(loads, k - 1, i)
    PROVE  IsFirstLeast(loads, k, IF loads[k] < loads[i] THEN k ELSE i)
  BY DEF IsFirstLeast

(* The closed form solves best's equation.                                 *)
LEMMA BestClosedSolves ==
    ASSUME NEW n \in Nat \ {0}, NEW loads \in [1..n -> Nat]
    PROVE  BestClosed(loads) = BestEq(loads, BestClosed(loads))
<1> DEFINE G == BestClosed(loads)
           F(k) == FirstLeastUpTo(loads, k)
<1>1. Len(loads) = n
  BY LoadsLen
<1>2. ASSUME NEW k \in 0..n
      PROVE  G[k] = IF k = 0 THEN <<1, loads[1]>>
                    ELSE IF loads[k] < G[k - 1][2] THEN <<k, loads[k]>>
                                                   ELSE G[k - 1]
  <2>1. CASE k = 0
    BY <2>1, <1>1 DEF BestClosed
  <2>2. CASE k = 1
    <3>1. IsFirstLeast(loads, 1, 1)
      BY DEF IsFirstLeast
    <3>2. F(1) = 1
      BY <3>1, FirstLeastUpToSpec
    <3>3. G[1] = <<1, loads[1]>> /\ G[0] = <<1, loads[1]>>
      BY <3>2, <1>1 DEF BestClosed
    <3>4. QED
      BY <2>2, <3>3
  <2>3. CASE k \in 2..n
    <3>1. IsFirstLeast(loads, k - 1, F(k - 1))
      BY <2>3, FirstLeastUpToSpec
    <3>2. F(k) = IF loads[k] < loads[F(k - 1)] THEN k ELSE F(k - 1)
      BY <2>3, <3>1, FirstLeastStep, FirstLeastUpToSpec
    <3>3. G[k] = <<F(k), loads[F(k)]>> /\ G[k - 1] = <<F(k - 1), loads[F(k - 1)]>>
      BY <2>3, <1>1 DEF BestClosed
    <3>4. QED
      BY <2>3, <3>2, <3>3
  <2>4. QED
    BY <2>1, <2>2, <2>3
<1>3. QED
  BY <1>1, <1>2 DEF BestEq, BestClosed

(* Best's equation has one solution: two solutions agree at the least k    *)
(* where they would differ, since each value depends on the one before.   *)
LEMMA BestUnique ==
    ASSUME NEW n \in Nat \ {0}, NEW loads \in [1..n -> Nat],
           NEW b, b = BestEq(loads, b),
           NEW c, c = BestEq(loads, c)
    PROVE  b = c
<1>1. Len(loads) = n
  BY LoadsLen
<1> DEFINE D == {k \in 0..n : b[k] # c[k]}
<1>2. SUFFICES D = {}
  BY <1>1 DEF BestEq
<1>3. SUFFICES ASSUME D # {} PROVE FALSE
  OBVIOUS
<1>4. PICK m \in D : \A k \in D : m <= k
  <2>1. D \in SUBSET Nat
    OBVIOUS
  <2>2. QED
    BY <1>3, <2>1, LeastNat
<1>5. m = 0 \/ b[m - 1] = c[m - 1]
  BY <1>4
<1>6. b[m] = c[m]
  BY <1>1, <1>5 DEF BestEq
<1>7. QED
  BY <1>4, <1>6

(* ChooseHost(loads) is the first host of least load.                      *)
LEMMA ChooseHostFirstLeast ==
    ASSUME NEW n \in Nat \ {0}, NEW loads \in [1..n -> Nat]
    PROVE  IsFirstLeast(loads, n, ChooseHost(loads))
<1> DEFINE B == CHOOSE b : b = BestEq(loads, b)
<1>1. B = BestEq(loads, B)
  BY BestClosedSolves
<1>2. B = BestClosed(loads)
  BY <1>1, BestClosedSolves, BestUnique
<1>3. ChooseHost(loads) = FirstLeastUpTo(loads, n)
  BY <1>2, ChooseHostUnfold, LoadsLen DEF BestClosed
<1>4. QED
  BY <1>3, FirstLeastUpToSpec

-----------------------------------------------------------------------------------------------------------------------------------------------------
(* Typing, through PInv.                                                    *)

(* The inductive invariant of the typing proofs: TypeOK, and each job's position  *)
(* lies in its request while get_vms makes a VM (so Name(j) is one of the  *)
(* configured VMs and Vm(j) one the job can get), and one past its end at *)
(* most in cleanup; every host's list is finite, so len(h.vms) is a count. *)
PInv ==
    /\ TypeOK
    /\ \A h \in Hosts : IsFiniteSet(hostvms[h])
    /\ \A j \in Jobs :
          /\ jpc[j] = "start" => ji[j] = 1
          /\ jpc[j] \in {"build", "clone", "boot"} => ji[j] \in 1..Len(Request[j])
          /\ jpc[j] = "cleanup" => ji[j] \in 1..(Len(Request[j]) + 1)


\* len(h.vms) of every host is a natural number.
LEMMA LoadsType ==
    ASSUME \A h \in Hosts : IsFiniteSet(hostvms[h])
    PROVE  Loads \in [Hosts -> Nat]
  BY FS_CardinalityType DEF Loads

\* get_host returns one of the hosts.
LEMMA ChooseHostInHosts ==
    ASSUME NEW loads \in [Hosts -> Nat]
    PROVE  ChooseHost(loads) \in Hosts
<1>1. NHosts \in Nat \ {0}
  BY ProviderAssumption
<1>2. IsFirstLeast(loads, NHosts, ChooseHost(loads))
  BY <1>1, ChooseHostFirstLeast DEF Hosts
<1>3. QED
  BY <1>2 DEF IsFirstLeast, Hosts

\* While get_vms makes a VM, its name is configured and the VM is one the
\* job can get.
LEMMA VmInRequest ==
    ASSUME NEW j \in Jobs, ji[j] \in 1..Len(Request[j])
    PROVE  Name(j) \in VmNames /\ Vm(j) \in VmIds
<1>1. Request[j] \in Seq(VmNames)
  BY ProviderAssumption
<1>2. QED
  BY <1>1 DEF Name, Vm, VmIds

LEMMA PInvInit == Init => PInv
<1> SUFFICES ASSUME Init PROVE PInv
  OBVIOUS
<1>1. NHosts \in Nat \ {0}
  BY ProviderAssumption
<1>2. QED
  BY <1>1, FS_EmptySet DEF Init, PInv, TypeOK, Hosts, JPCs

LEMMA PInvStep == PInv /\ [Next]_vars => PInv'
<1> SUFFICES ASSUME PInv, [Next]_vars PROVE PInv'
  OBVIOUS
<1> USE DEF PInv, TypeOK, JPCs
<1>a. \A k \in Jobs : Request[k] \in Seq(VmNames)
  BY ProviderAssumption
<1>1. ASSUME NEW j \in Jobs, GetVms(j) PROVE PInv'
  <2>1. ChooseHost(Loads) \in Hosts
    BY LoadsType, ChooseHostInHosts
  <2>2. QED
    BY <1>1, <2>1, <1>a DEF GetVms
<1>2. ASSUME NEW j \in Jobs, BuildImage(j) PROVE PInv'
  <2>1. Name(j) \in VmNames
    BY <1>2, VmInRequest DEF BuildImage
  <2>2. QED
    BY <1>2, <2>1, ProviderAssumption DEF BuildImage
<1>3. ASSUME NEW j \in Jobs, Clone(j) PROVE PInv'
  <2>1. Vm(j) \in VmIds
    BY <1>3, VmInRequest DEF Clone
  <2>2. QED
    BY <1>3, <2>1 DEF Clone
<1>4. ASSUME NEW j \in Jobs, Boot(j) PROVE PInv'
  <2>1. Vm(j) \in VmIds /\ jhost[j] \in Hosts
    BY <1>4, VmInRequest DEF Boot
  <2>2. IsFiniteSet(hostvms'[jhost[j]])
    BY <1>4, <2>1, FS_AddElement DEF Boot
  <2>3. \A h \in Hosts : IsFiniteSet(hostvms'[h])
    BY <1>4, <2>1, <2>2 DEF Boot
  <2>0. jpc[j] = "boot" /\ ji[j] \in 1..Len(Request[j])
    BY <1>4 DEF Boot
  <2>4. hostvms' \in [Hosts -> SUBSET VmIds]
    BY <1>4, <2>1 DEF Boot
  <2>5. UNCHANGED <<present, clones, jhost>> /\ domains' \subseteq VmIds
    BY <1>4, <2>1 DEF Boot
  <2>6. CASE ji[j] < Len(Request[j])
    <3>1. jpc' = [jpc EXCEPT ![j] = "build"] /\ ji' = [ji EXCEPT ![j] = @ + 1]
      BY <1>4, <2>6 DEF Boot, NextName
    <3>2. QED
      BY <2>0, <2>3, <2>4, <2>5, <3>1, <2>6, <1>a
  <2>7. CASE ~(ji[j] < Len(Request[j]))
    <3>1. jpc' = [jpc EXCEPT ![j] = "cleanup"] /\ ji' = [ji EXCEPT ![j] = 1]
      BY <1>4, <2>7 DEF Boot, NextName
    <3>2. QED
      BY <2>0, <2>3, <2>4, <2>5, <3>1, <2>7, <1>a
  <2>8. QED
    BY <2>6, <2>7
<1>5. ASSUME NEW j \in Jobs, BootFails(j) PROVE PInv'
  <2>1. Vm(j) \in VmIds
    BY <1>5, VmInRequest DEF BootFails
  <2>2. QED
    BY <1>5, <2>1 DEF BootFails, Fail
<1>6. ASSUME NEW j \in Jobs, CloneFails(j) \/ CleanupDestroyFails(j)
      PROVE  PInv'
  BY <1>6 DEF CloneFails, CleanupDestroyFails, Fail
<1>11. ASSUME NEW j \in Jobs, BuildImageFails(j) PROVE PInv'
  <2>1. VmImage[Name(j)] \in Images
    BY <1>11, VmInRequest, ProviderAssumption DEF BuildImageFails
  <2>2. present' \subseteq Images \cup VmNames
    BY <1>11, <2>1 DEF BuildImageFails
  <2>3. QED
    BY <1>11, <2>2 DEF BuildImageFails, Fail
<1>7. ASSUME NEW j \in Jobs, CleanupDestroy(j) PROVE PInv'
  <2>1. hostvms' = hostvms /\ jpc' = jpc /\ jhost' = jhost
    BY <1>7 DEF CleanupDestroy
  <2>2. QED
    BY <1>7, <2>1 DEF CleanupDestroy
<1>10. ASSUME NEW j \in Jobs, CleanupDone(j) PROVE PInv'
  <2>1. hostvms' = hostvms /\ ji' = ji /\ jhost' = jhost
    BY <1>10 DEF CleanupDone
  <2>2. QED
    BY <1>10, <2>1 DEF CleanupDone
<1>8. CASE Finished \/ UNCHANGED vars
  <2>1. UNCHANGED vars
    BY <1>8 DEF Finished
  <2>2. QED
    BY <2>1 DEF vars
<1>9. QED
  BY <1>1, <1>2, <1>3, <1>4, <1>5, <1>6, <1>7, <1>10, <1>11, <1>8 DEF Next, Step

(* PInv holds in every reachable state.                                     *)
THEOREM PInvHolds == Spec => []PInv
  BY PInvInit, PInvStep, PTL DEF Spec

(* Every variable keeps its type, jhost a host once get_host has run: the *)
(* loop returns an index of a host for every number of hosts.              *)
THEOREM TypeCorrect == Spec => []TypeOK
<1>1. PInv => TypeOK
  BY DEF PInv
<1>2. QED
  BY <1>1, PInvHolds, PTL

(* get_host's loop picks the first host with the fewest VMs, for every    *)
(* number of hosts and every load vector, the live one included.          *)
THEOREM GetHostCorrect == Spec => []GetHostIsFirstLeastLoaded
<1>1. ASSUME NEW loads \in [Hosts -> Nat]
      PROVE  ChooseHost(loads) = FirstLeastLoaded(loads)
  <2>1. NHosts \in Nat \ {0}
    BY ProviderAssumption
  <2>2. IsFirstLeast(loads, NHosts, ChooseHost(loads))
    BY <2>1, ChooseHostFirstLeast DEF Hosts
  <2> DEFINE P(h) == /\ \A k \in DOMAIN loads : loads[h] <= loads[k]
                     /\ \A k \in 1..(h - 1) : loads[k] > loads[h]
  <2>3. \A h \in DOMAIN loads : P(h) <=> IsFirstLeast(loads, NHosts, h)
    BY DEF IsFirstLeast, Hosts
  <2>4. IsFirstLeast(loads, NHosts, FirstLeastLoaded(loads))
    BY <2>2, <2>3 DEF FirstLeastLoaded, Hosts, IsFirstLeast
  <2>5. QED
    BY <2>1, <2>2, <2>4, FirstLeastUnique DEF Hosts
<1>2. PInv => GetHostIsFirstLeastLoaded
  <2> SUFFICES ASSUME PInv PROVE GetHostIsFirstLeastLoaded
    OBVIOUS
  <2>1. Loads \in [Hosts -> Nat]
    BY LoadsType DEF PInv
  <2>2. [Hosts -> 0..2] \subseteq [Hosts -> Nat]
    OBVIOUS
  <2>3. QED
    BY <1>1, <2>1, <2>2 DEF GetHostIsFirstLeastLoaded
<1>3. QED
  BY <1>2, PInvHolds, PTL

=============================================================================
