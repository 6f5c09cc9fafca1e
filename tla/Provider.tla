------------------------------- MODULE Provider -------------------------------
(***************************************************************************)
(* The host pool and scheduler of the virsh provider: Provider.get_host,   *)
(* get_vms and cleanup, and Host.get_vm (src/rallyci/providers/virsh.py:   *)
(* 210-226, 312-340), driven by concurrent jobs that each ask get_vms for *)
(* their VMs and later hand them to cleanup.                               *)
(*                                                                         *)
(* The steps below these calls are taken whole: build_image (ImageBuild    *)
(* models it) returns with the image present or raises; vm.boot (VM       *)
(* models it) creates the domain or raises; vm.destroy stops the domain    *)
(* and deletes vm.storage_name.  Subvolumes named after an image or a VM  *)
(* are in `present`; the random clones get_vm makes are named by the VM    *)
(* they are for, <<job, position in the job's request>>.                   *)
(***************************************************************************)
EXTENDS Naturals, Sequences, FiniteSets

CONSTANTS
    NHosts,     \* len(self.hosts)
    Jobs,       \* the jobs asking for VMs
    Request,    \* Request[j]: the vm_names job j passes to get_vms
    VmImage,    \* config["vms"][name]["image"]
    Images,     \* the configured images
    MayFail     \* remote commands may fail for outside reasons

Hosts == 1..NHosts
VmNames == DOMAIN VmImage

ASSUME ProviderAssumption ==
    /\ NHosts \in Nat \ {0}
    /\ \A j \in Jobs : Request[j] \in Seq(VmNames)
    /\ \A n \in VmNames : VmImage[n] \in Images
    /\ MayFail \in BOOLEAN

\* The VMs a job can get: its position in its request.
VmIds == UNION {{<<j, i>> : i \in DOMAIN Request[j]} : j \in Jobs}

VARIABLES
    hostvms,   \* hostvms[h]: the VMs in host h's list host.vms
    present,   \* subvolumes named after images or VMs
    clones,    \* the random clones get_vm made that still exist
    domains,   \* VMs whose libvirt domain exists
    jpc,       \* where each job is
    jhost,     \* the host get_host chose for the job (0 before)
    ji         \* the position in the request (get_vms) or the list (cleanup)

vars == <<hostvms, present, clones, domains, jpc, jhost, ji>>

JPCs == {"start", "build", "clone", "boot", "cleanup", "done", "failed"}

TypeOK ==
    /\ hostvms \in [Hosts -> SUBSET VmIds]
    /\ present \subseteq Images \cup VmNames
    /\ clones \subseteq VmIds /\ domains \subseteq VmIds
    /\ jpc \in [Jobs -> JPCs]
    /\ jhost \in [Jobs -> {0} \cup Hosts]
    /\ \A j \in Jobs : jhost[j] \in IF jpc[j] = "start" THEN {0} ELSE Hosts
    /\ ji \in [Jobs -> Nat]

-----------------------------------------------------------------------------
(* get_host                                                                 *)

\* len(h.vms) of each host, as the list get_host iterates.
Loads == [h \in Hosts |-> Cardinality(hostvms[h])]

\* Mutant: the candidate starts as host 0, Python's index of hosts[0].
ChooseHostZeroBased(loads) ==
    LET n == Len(loads)
        best[k \in 0..n] ==
            IF k = 0 THEN <<0, loads[1]>>
            ELSE IF loads[k] < best[k - 1][2] THEN <<k, loads[k]>>
                                             ELSE best[k - 1]
    IN best[n][1]

\* Mutant: `if n_vms <= vms` -- ties go to the later host.
ChooseHostLe(loads) ==
    LET n == Len(loads)
        best[k \in 0..n] ==
            IF k = 0 THEN <<1, loads[1]>>
            ELSE IF loads[k] <= best[k - 1][2] THEN <<k, loads[k]>>
                                              ELSE best[k - 1]
    IN best[n][1]

\* get_host's loop: host = hosts[0], vms = len(host.vms); for each host, a
\* strictly smaller count replaces the candidate.  best[k] is (host, vms)
\* after the first k hosts.
ChooseHost(loads) ==
    LET n == Len(loads)
        best[k \in 0..n] ==
            IF k = 0 THEN <<1, loads[1]>>
            ELSE IF loads[k] < best[k - 1][2] THEN <<k, loads[k]>>
                                             ELSE best[k - 1]
    IN best[n][1]

\* The reference (spec sec. 4.4): the first host of least load.
FirstLeastLoaded(loads) ==
    CHOOSE h \in DOMAIN loads :
        /\ \A k \in DOMAIN loads : loads[h] <= loads[k]
        /\ \A k \in 1..(h - 1) : loads[k] > loads[h]

-----------------------------------------------------------------------------
(* The jobs                                                                 *)

Init ==
    /\ hostvms = [h \in Hosts |-> {}]
    /\ present = {}
    /\ clones = {} /\ domains = {}
    /\ jpc = [j \in Jobs |-> "start"]
    /\ jhost = [j \in Jobs |-> 0]
    /\ ji = [j \in Jobs |-> 1]

\* The VM name a job's get_vms is at.
Name(j) == Request[j][ji[j]]

\* The job's next step after the VM at ji[j] is done: the next name, or
\* get_vms returns its list and the job goes on to cleanup(vms).
NextName(j) ==
    IF ji[j] < Len(Request[j])
       THEN jpc' = [jpc EXCEPT ![j] = "build"] /\ ji' = [ji EXCEPT ![j] = @ + 1]
       ELSE jpc' = [jpc EXCEPT ![j] = "cleanup"] /\ ji' = [ji EXCEPT ![j] = 1]

\* An exception ends the job: get_vms or cleanup raises to it.
Fail(j) == jpc' = [jpc EXCEPT ![j] = "failed"] /\ UNCHANGED ji

\* get_vms: vms = []; host = self.get_host(), once for all the names.
GetVms(j) ==
    /\ jpc[j] = "start"
    /\ jhost' = [jhost EXCEPT ![j] = ChooseHost(Loads)]
    /\ jpc' = [jpc EXCEPT ![j] = IF Request[j] = <<>> THEN "cleanup" ELSE "build"]
    /\ UNCHANGED <<hostvms, present, clones, domains, ji>>

\* The VM get_vm is making for the job, named by its position.
Vm(j) == <<j, ji[j]>>

\* get_vm: build_image(conf["image"]) returns with the image present.
BuildImage(j) ==
    /\ jpc[j] = "build"
    /\ present' = present \cup {VmImage[Name(j)]}
    /\ jpc' = [jpc EXCEPT ![j] = "clone"]
    /\ UNCHANGED <<hostvms, clones, domains, jhost, ji>>

\* get_vm: build_image raises (a command of the build failed).  The build
\* may have left the image's subvolume behind (boot_image raised before the
\* try), or deleted it in its except branch (vm.destroy deletes
\* storage_name, the image), even after another job's build_image found it
\* present and returned.
BuildImageFails(j) ==
    /\ jpc[j] = "build" /\ MayFail
    /\ \E p \in {present, present \cup {VmImage[Name(j)]},
                  present \ {VmImage[Name(j)]}} :
          present' = p
    /\ Fail(j)
    /\ UNCHANGED <<hostvms, clones, domains, jhost>>

\* get_vm: storage.clone(name, rnd_name) -- the source is the subvolume
\* named after the VM, not its image.
Clone(j) ==
    /\ jpc[j] = "clone" /\ Name(j) \in present
    /\ clones' = clones \cup {Vm(j)}
    /\ jpc' = [jpc EXCEPT ![j] = "boot"]
    /\ UNCHANGED <<hostvms, present, domains, jhost, ji>>

\* get_vm: btrfs snapshot fails: no subvolume of that name, or the command.
CloneFails(j) ==
    /\ jpc[j] = "clone" /\ (Name(j) \notin present \/ MayFail)
    /\ Fail(j)
    /\ UNCHANGED <<hostvms, present, clones, domains, jhost>>

\* get_vm: VM(...), list_files(rnd_name), disks and nets, vm.boot(); then
\* self.vms.append(vm), vm.storage_name = rnd_name; get_vms appends it to
\* its list and goes on with the next name.
Boot(j) ==
    /\ jpc[j] = "boot"
    /\ domains' = domains \cup {Vm(j)}
    /\ hostvms' = [hostvms EXCEPT ![jhost[j]] = @ \cup {Vm(j)}]
    /\ NextName(j)
    /\ UNCHANGED <<present, clones, jhost>>

\* get_vm: vm.boot raises (before or after virsh create made the domain);
\* the clone and any domain are left behind.
BootFails(j) ==
    /\ jpc[j] = "boot" /\ MayFail
    /\ \E created \in BOOLEAN :
          domains' = IF created THEN domains \cup {Vm(j)} ELSE domains
    /\ Fail(j)
    /\ UNCHANGED <<hostvms, present, clones, jhost>>

\* cleanup: `for vm in vms: yield from vm.destroy()` -- virsh destroy,
\* then btrfs subvolume delete of the VM's clone; host.vms is untouched.
CleanupDestroy(j) ==
    /\ jpc[j] = "cleanup" /\ ji[j] <= Len(Request[j])
    /\ domains' = domains \ {Vm(j)}
    /\ clones' = clones \ {Vm(j)}
    /\ ji' = [ji EXCEPT ![j] = @ + 1]
    /\ UNCHANGED <<hostvms, present, jpc, jhost>>

\* cleanup: a destroy raises (virsh destroy's failure is ignored, the
\* delete's is not); the VMs after it in the list are not destroyed.
CleanupDestroyFails(j) ==
    /\ jpc[j] = "cleanup" /\ ji[j] <= Len(Request[j]) /\ MayFail
    /\ \E stopped \in BOOLEAN :
          domains' = IF stopped THEN domains \ {Vm(j)} ELSE domains
    /\ Fail(j)
    /\ UNCHANGED <<hostvms, present, clones, jhost>>

\* cleanup: asyncio.sleep(1) after the loop, and returns.
CleanupDone(j) ==
    /\ jpc[j] = "cleanup" /\ ji[j] > Len(Request[j])
    /\ jpc' = [jpc EXCEPT ![j] = "done"]
    /\ UNCHANGED <<hostvms, present, clones, domains, jhost, ji>>

\* Every job has returned or raised.
Finished ==
    /\ \A j \in Jobs : jpc[j] \in {"done", "failed"}
    /\ UNCHANGED vars

Step(j) ==
    \/ GetVms(j) \/ BuildImage(j) \/ BuildImageFails(j)
    \/ Clone(j) \/ CloneFails(j) \/ Boot(j) \/ BootFails(j)
    \/ CleanupDestroy(j) \/ CleanupDestroyFails(j) \/ CleanupDone(j)

Next == (\E j \in Jobs : Step(j)) \/ Finished

(* The event loop runs each job's task whenever its await completes.       *)
Spec == Init /\ [][Next]_vars /\ \A j \in Jobs : WF_vars(Step(j))

-----------------------------------------------------------------------------
(* Properties                                                               *)

(* get_host's loop picks the first host with the fewest VMs in its list,  *)
(* for the lists the hosts have now and every list of loads up to 2 (spec *)
(* sec. 8: [2,2,1,3] gives index 2 and [1,1] index 0).                     *)
GetHostIsFirstLeastLoaded ==
    \A loads \in [Hosts -> 0..2] \cup {Loads} :
        ChooseHost(loads) = FirstLeastLoaded(loads)

(* The spec (sec. 4.4, 8): with no failing command every job gets its VMs: *)
(* get_vm clones each VM from its image.                                   *)
GetVmsSucceedsWithoutFaults ==
    ~MayFail => \A j \in Jobs : jpc[j] # "failed"

(* The spec (sec. 3, 8): host.vms, the scheduler's only signal, lists the  *)
(* host's live VMs: it grows on boot and shrinks on destroy.               *)
LiveListAccurate ==
    \A h \in Hosts : \A v \in hostvms[h] : v \in domains

(* The spec (sec. 4.4): every VM is placed on a host of least load at the  *)
(* time it is added.                                                         *)
PlacementLeastLoaded ==
    [][\A h \in Hosts :
          hostvms'[h] # hostvms[h] => \A k \in Hosts : Loads[h] <= Loads[k]]_vars

(* A job that has ended leaves none of its VMs behind: no domain and no    *)
(* clone of its survives (spec sec. 4.4 release, and sec. 7: a failed     *)
(* provisioning destroys the VM it booted).                                 *)
JobReleasesItsVms ==
    \A j \in Jobs : jpc[j] \in {"done", "failed"} =>
        \A i \in DOMAIN Request[j] : <<j, i>> \notin domains \cup clones

=============================================================================
