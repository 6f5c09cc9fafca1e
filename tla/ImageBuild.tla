----------------------------- MODULE ImageBuild -----------------------------
(***************************************************************************)
(* The image build coordinator of the virsh provider:                      *)
(* Host.build_image (src/rallyci/providers/virsh.py:174-208) run by        *)
(* several asyncio tasks at once, over the BTRFS storage backend that      *)
(* Host.__init__ hard-wires (virsh.py:161).                                *)
(*                                                                         *)
(* A task's calls of build_image form a chain along the images' parents,   *)
(* so a task has at most one frame per image: fr[t][x] is the frame of     *)
(* build_image(x) in task t, or Idle.  The frame of x waits in "clone"     *)
(* while the frame of its parent runs.  Every await of the code is the     *)
(* end of a step; the code between two awaits runs atomically, as it does  *)
(* under the asyncio event loop.  Remote commands that can fail for        *)
(* reasons outside the model (wget, virsh create, a build script, zfs or   *)
(* btrfs destroy) fail nondeterministically when MayFail is TRUE.          *)
(***************************************************************************)
EXTENDS Naturals, FiniteSets

CONSTANTS
    Tasks,          \* asyncio tasks that call build_image
    Images,         \* image names of config["images"]
    NoParent,       \* image_conf.get("parent") is None
    Parent,         \* Parent[x]: the image x is cloned from, or NoParent
    Url,            \* images whose config has a "url"
    Scripts,        \* images whose config has "build-scripts"
    MaxCalls,       \* bound on the build_image calls a task makes
    MayFail,        \* whether remote commands may fail
    NoTask          \* an asyncio.Lock nobody holds

ASSUME ConstantsAssumption ==
    /\ Images # {}
    /\ NoParent \notin Images
    /\ Parent \in [Images -> Images \cup {NoParent}]
    /\ Url \subseteq Images
    /\ Scripts \subseteq Images
    /\ MaxCalls \in Nat
    /\ MayFail \in BOOLEAN
    /\ NoTask \notin Tasks

\* The parent chains of config["images"] end: no image is its own ancestor.
ASSUME ParentsAcyclic ==
    \E rank \in [Images -> 0..Cardinality(Images)] :
        \A x \in Images : Parent[x] # NoParent => rank[Parent[x]] < rank[x]

VARIABLES
    present,   \* subvolumes that exist on the host (`btrfs subvolume show` succeeds)
    good,      \* subvolumes holding a completely built image (ghost)
    lock,      \* IMAGE_LOCKS: lock[x] is the task holding the lock of x
    fr,        \* fr[t][x]: the frame of build_image(x) in task t
    target,    \* the image task t's current top-level call builds
    outcome,   \* "none", "running", "ok" or "failed": how that call ended
    calls      \* number of top-level calls task t has made

vars == <<present, good, lock, fr, target, outcome, calls>>

PCs == {"idle", "acquire", "exist", "clone", "create", "download", "scripts",
        "run", "destroy", "settle"}

(* A frame: where it is (pc), whether it created the subvolume and has not  *)
(* destroyed it (holds), and whether what it cloned from was completely     *)
(* built (base).                                                            *)
Frame == [pc: PCs, holds: BOOLEAN, base: BOOLEAN]

Idle == [pc |-> "idle", holds |-> FALSE, base |-> FALSE]

At(p) == [pc |-> p, holds |-> FALSE, base |-> FALSE]

TypeOK ==
    /\ present \subseteq Images
    /\ good \subseteq Images
    /\ lock \in [Images -> Tasks \cup {NoTask}]
    /\ fr \in [Tasks -> [Images -> Frame]]
    /\ target \in [Tasks -> Images]
    /\ outcome \in [Tasks -> {"none", "running", "ok", "failed"}]
    /\ calls \in [Tasks -> 0..MaxCalls]

-----------------------------------------------------------------------------
(* Helper state formulae                                                    *)

\* The frame of x in t is suspended in `yield from self.build_image(parent)`.
Waiting(t, x) ==
    /\ fr[t][x].pc = "clone"
    /\ fr[t][Parent[x]].pc # "idle"

\* The frame of x is the one task t is executing.
Running(t, x, p) ==
    /\ fr[t][x].pc = p
    /\ ~Waiting(t, x)

Busy(t) == \E x \in Images : fr[t][x].pc # "idle"

\* Task t's frame of x moves to pc p, keeping its other fields.
Goto(t, x, p) == fr' = [fr EXCEPT ![t][x].pc = p]

\* build_image(x) returns normally; the call of the caller's frame (if any)
\* resumes, and a top-level call ends with "ok".
Return(t, x) ==
    /\ fr' = [fr EXCEPT ![t][x] = Idle]
    /\ outcome' = IF x = target[t] THEN [outcome EXCEPT ![t] = "ok"]
                                   ELSE outcome

\* An exception leaves build_image(x): no frame of task t catches it, so the
\* whole chain of build_image calls of t is unwound.
Raise(t) ==
    /\ fr' = [fr EXCEPT ![t] = [x \in Images |-> Idle]]
    /\ outcome' = [outcome EXCEPT ![t] = "failed"]

-----------------------------------------------------------------------------
(* Initial state and the steps of build_image                               *)

Init ==
    /\ present = {}
    /\ good = {}
    /\ lock = [x \in Images |-> NoTask]
    /\ fr = [t \in Tasks |-> [x \in Images |-> Idle]]
    /\ target = [t \in Tasks |-> CHOOSE x \in Images : TRUE]
    /\ outcome = [t \in Tasks |-> "none"]
    /\ calls = [t \in Tasks |-> 0]

\* Mutant: a caller that is not held to its number of calls.
CallUnbounded(t, x) ==
    /\ ~Busy(t)
    /\ fr' = [fr EXCEPT ![t][x] = At("acquire")]
    /\ target' = [target EXCEPT ![t] = x]
    /\ outcome' = [outcome EXCEPT ![t] = "running"]
    /\ calls' = [calls EXCEPT ![t] = @ + 1]
    /\ UNCHANGED <<present, good, lock>>

\* A caller (Host.get_vm) starts build_image(x).
Call(t, x) ==
    /\ ~Busy(t)
    /\ calls[t] < MaxCalls
    /\ fr' = [fr EXCEPT ![t][x] = At("acquire")]
    /\ target' = [target EXCEPT ![t] = x]
    /\ outcome' = [outcome EXCEPT ![t] = "running"]
    /\ calls' = [calls EXCEPT ![t] = @ + 1]
    /\ UNCHANGED <<present, good, lock>>

\* IMAGE_LOCKS.setdefault(name, Lock()); `with (yield from IMAGE_LOCKS[name])`.
Acquire(t, x) ==
    /\ Running(t, x, "acquire")
    /\ lock[x] = NoTask
    /\ lock' = [lock EXCEPT ![x] = t]
    /\ Goto(t, x, "exist")
    /\ UNCHANGED <<present, good, target, outcome, calls>>

\* storage.exist(name) is true: the `return` leaves the with block, which
\* releases the lock.
ExistFound(t, x) ==
    /\ Running(t, x, "exist")
    /\ x \in present
    /\ lock' = [lock EXCEPT ![x] = NoTask]
    /\ Return(t, x)
    /\ UNCHANGED <<present, good, target, calls>>

\* Mutant: the url branch is dropped, so a downloaded image without a parent
\* goes on to the build scripts with no subvolume made.
ExistMissingSkipsUrl(t, x) ==
    /\ Running(t, x, "exist")
    /\ x \notin present
    /\ lock' = [lock EXCEPT ![x] = NoTask]
    /\ fr' = IF Parent[x] # NoParent
                THEN [fr EXCEPT ![t][x].pc = "clone",
                                ![t][Parent[x]] = At("acquire")]
             ELSE [fr EXCEPT ![t][x].pc = "scripts"]
    /\ UNCHANGED <<present, good, target, outcome, calls>>

\* Mutant: build_image(name) is called where build_image(parent) is meant.
ExistMissingCallsSelf(t, x) ==
    /\ Running(t, x, "exist")
    /\ x \notin present
    /\ lock' = [lock EXCEPT ![x] = NoTask]
    /\ fr' = IF Parent[x] # NoParent
                THEN [fr EXCEPT ![t][x] = At("acquire")]
             ELSE [fr EXCEPT ![t][x].pc = IF x \in Url THEN "create"
                                                         ELSE "scripts"]
    /\ UNCHANGED <<present, good, target, outcome, calls>>

\* storage.exist(name) is false: the with block ends and releases the lock,
\* and the build runs outside it.  With a parent, build_image(parent) is
\* called; else with a url the image is downloaded; else the code goes on
\* to the build scripts.
ExistMissing(t, x) ==
    /\ Running(t, x, "exist")
    /\ x \notin present
    /\ lock' = [lock EXCEPT ![x] = NoTask]
    /\ fr' = IF Parent[x] # NoParent
                THEN [fr EXCEPT ![t][x].pc = "clone",
                                ![t][Parent[x]] = At("acquire")]
             ELSE [fr EXCEPT ![t][x].pc = IF x \in Url THEN "create"
                                                         ELSE "scripts"]
    /\ UNCHANGED <<present, good, target, outcome, calls>>

\* storage.clone(parent, name): `btrfs subvolume snapshot` succeeds when the
\* source exists.  When the destination exists too, the snapshot is made
\* inside it (path/name/parent) and the build goes on over the subvolume
\* another frame created: this frame then holds nothing it made.
Clone(t, x) ==
    /\ Running(t, x, "clone")
    /\ Parent[x] \in present
    /\ present' = present \cup {x}
    /\ fr' = [fr EXCEPT ![t][x] = [pc |-> "scripts", holds |-> x \notin present,
                                   base |-> Parent[x] \in good]]
    /\ UNCHANGED <<good, lock, target, outcome, calls>>

\* storage.clone raises SSHError: the source is missing, or btrfs fails.
CloneFails(t, x) ==
    /\ Running(t, x, "clone")
    /\ Parent[x] \notin present \/ MayFail
    /\ Raise(t)
    /\ UNCHANGED <<present, good, lock, target, calls>>

\* Mutant: a create that succeeds on an existing subvolume (`mkdir -p`).
CreateOverwrites(t, x) ==
    /\ Running(t, x, "create")
    /\ present' = present \cup {x}
    /\ fr' = [fr EXCEPT ![t][x] = [pc |-> "download", holds |-> TRUE,
                                   base |-> TRUE]]
    /\ UNCHANGED <<good, lock, target, outcome, calls>>

\* storage.download(name, url), first command: `btrfs subvolume create`.
Create(t, x) ==
    /\ Running(t, x, "create")
    /\ x \notin present
    /\ present' = present \cup {x}
    /\ fr' = [fr EXCEPT ![t][x] = [pc |-> "download", holds |-> TRUE,
                                   base |-> TRUE]]
    /\ UNCHANGED <<good, lock, target, outcome, calls>>

CreateFails(t, x) ==
    /\ Running(t, x, "create")
    /\ x \in present
    /\ Raise(t)
    /\ UNCHANGED <<present, good, lock, target, calls>>

\* The rest of storage.download: wget and qemu-img resize succeed, and
\* build_image returns without a snapshot or build scripts.
Download(t, x) ==
    /\ Running(t, x, "download")
    /\ good' = good \cup {x}
    /\ Return(t, x)
    /\ UNCHANGED <<present, lock, target, calls>>

\* wget or qemu-img fails: the exception leaves the created subvolume.
DownloadFails(t, x) ==
    /\ MayFail
    /\ Running(t, x, "download")
    /\ Raise(t)
    /\ UNCHANGED <<present, good, lock, target, calls>>

\* Without build scripts, straight to the settle pause and snapshot.
NoBuildScripts(t, x) ==
    /\ Running(t, x, "scripts")
    /\ x \notin Scripts
    /\ Goto(t, x, "settle")
    /\ UNCHANGED <<present, good, lock, target, outcome, calls>>

\* boot_image(name): list_files of the subvolume and vm.boot().  `ls` runs
\* with return_output, which ignores its exit status, and boot reports the
\* status of `rm`, so a missing subvolume does not stop it.
BootImage(t, x) ==
    /\ Running(t, x, "scripts")
    /\ x \in Scripts
    /\ Goto(t, x, "run")
    /\ UNCHANGED <<present, good, lock, target, outcome, calls>>

\* boot_image raises (the `cat` of the domain XML fails); it is called
\* before the try, so nothing is destroyed.
BootImageFails(t, x) ==
    /\ Running(t, x, "scripts")
    /\ x \in Scripts
    /\ MayFail
    /\ Raise(t)
    /\ UNCHANGED <<present, good, lock, target, calls>>

(* vm.run_script raises for every script: get_ip returns None after its     *)
(* deadline without setting vm.ip, so AsyncSSH(..., self.ip) raises          *)
(* AttributeError; else ssh.run(..., user=...) raises TypeError, as          *)
(* AsyncSSH.run takes no `user` argument.  The except branch follows, and    *)
(* vm.shutdown is never reached.                                              *)
RunScriptsFails(t, x) ==
    /\ Running(t, x, "run")
    /\ Goto(t, x, "destroy")
    /\ UNCHANGED <<present, good, lock, target, outcome, calls>>

\* Mutant: the build VM's storage_name (a FIXME in boot_image) names the
\* parent image, so the except branch deletes the parent's subvolume.
DestroyWrongDataset(t, x) ==
    /\ Running(t, x, "destroy")
    /\ present' = present \ {Parent[x]}
    /\ good' = good \ {Parent[x]}
    /\ Raise(t)
    /\ UNCHANGED <<lock, target, calls>>

\* The except branch: vm.destroy() runs `virsh destroy` (errors ignored) and
\* storage.destroy(storage_name), the image's own subvolume; then `raise`.
Destroy(t, x) ==
    /\ Running(t, x, "destroy")
    /\ present' = present \ {x}
    /\ good' = good \ {x}
    /\ Raise(t)
    /\ UNCHANGED <<lock, target, calls>>

\* storage.destroy itself raises: the subvolume stays.
DestroyFails(t, x) ==
    /\ MayFail
    /\ Running(t, x, "destroy")
    /\ Raise(t)
    /\ UNCHANGED <<present, good, lock, target, calls>>

\* asyncio.sleep(2); storage.snapshot(name), a no-op for BTRFS; return.  The
\* subvolume holds a complete image when this frame cloned it from a
\* complete source (an image without parent, url and scripts gets none).
Settle(t, x) ==
    /\ Running(t, x, "settle")
    /\ good' = IF fr[t][x].holds /\ fr[t][x].base THEN good \cup {x}
                                                  ELSE good
    /\ Return(t, x)
    /\ UNCHANGED <<present, lock, target, calls>>

\* Every task has made its calls and they have all ended.
Finished ==
    /\ \A t \in Tasks : ~Busy(t) /\ calls[t] = MaxCalls
    /\ UNCHANGED vars

\* The steps a task takes inside build_image once the event loop resumes it.
Proceed(t, x) ==
    \/ Acquire(t, x)
    \/ ExistFound(t, x)
    \/ ExistMissing(t, x)
    \/ Clone(t, x)
    \/ CloneFails(t, x)
    \/ Create(t, x)
    \/ CreateFails(t, x)
    \/ Download(t, x)
    \/ DownloadFails(t, x)
    \/ NoBuildScripts(t, x)
    \/ BootImage(t, x)
    \/ BootImageFails(t, x)
    \/ RunScriptsFails(t, x)
    \/ Destroy(t, x)
    \/ DestroyFails(t, x)
    \/ Settle(t, x)

Next ==
    \/ \E t \in Tasks, x \in Images :
          Call(t, x) \/ Proceed(t, x)
    \/ Finished

(* The event loop resumes every ready task and every remote command returns *)
(* (weak fairness of each task's steps); callers need not call again.      *)
Spec == Init /\ [][Next]_vars /\ \A t \in Tasks : WF_vars(\E x \in Images : Proceed(t, x))

-----------------------------------------------------------------------------
(* Properties                                                               *)

\* Task t is provisioning x: its frame of x is past the create or clone of
\* the subvolume and has neither returned nor raised.
Provisioning(t, x) ==
    fr[t][x].pc \in {"download", "scripts", "run", "destroy", "settle"}

(* At most one task provisions an image at a time, and the image it          *)
(* provisions is not yet a complete one.  IMAGE_LOCKS guards only the exist *)
(* check of build_image; `btrfs subvolume create` refuses an existing       *)
(* destination, but `snapshot` nests into it, so two tasks that both found  *)
(* x missing both go on to build it.                                        *)
ExclusiveProvisioning ==
    \A x \in Images :
        /\ \A t, u \in Tasks : Provisioning(t, x) /\ Provisioning(u, x) => t = u
        /\ \A t \in Tasks : Provisioning(t, x) => x \notin good

(* A completely built image is never destroyed or rebuilt: no failing or    *)
(* timed-out build of some task removes a subvolume it did not create.      *)
BuiltImagesPersist == [][\A x \in good : x \in good' /\ x \in present']_vars

(* Every build_image call returns or raises: no task waits forever on an    *)
(* image lock or on the build of a parent.                                  *)
BuildTerminates == \A t \in Tasks : Busy(t) ~> ~Busy(t)

(* The spec (sec. 4.3, 7): a caller whose build_image(x) returns finds x    *)
(* present and completely built, never a half-built dataset.               *)
CallerSeesBuiltImage ==
    [][\A t \in Tasks : outcome[t] = "running" /\ outcome'[t] = "ok"
                          => target[t] \in good']_vars

(* The spec (sec. 4.3, 8): when no remote command fails, build_image of a   *)
(* configured image succeeds: it boots a VM from the new subvolume, runs    *)
(* each build script, shuts the VM down and snapshots.                       *)
BuildSucceedsWithoutFaults ==
    ~MayFail => \A t \in Tasks : outcome[t] # "failed"

=============================================================================
