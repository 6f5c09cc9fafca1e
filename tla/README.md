# Formal models of rally-ci's virsh provider

This directory holds TLA+ models of rally-ci's VM provider and the code it
runs on:

- `src/rallyci/providers/virsh.py`: the Host, VM, storage and Provider classes;
- `src/rallyci/common/asyncssh.py`: the remote command channel;
- `src/rallyci/common/periodictask.py`: the periodic timer.

It also holds the TLC configurations that model-check the models and the
TLAPS proofs of their main invariants.

## The system

All of this code runs as asyncio coroutines and callbacks on one event loop.
Code between two `yield from`s runs alone, so the interleavings that matter
happen at the awaits. The child processes, the guests and the hypervisor are
the only actors outside the loop.

| Part | Code | What it does |
|---|---|---|
| Remote command channel | `asyncssh.py` `AsyncSSH.run`, `scp_get` (39-108) | Spawns `ssh` (or `scp`) as a subprocess. It reads stdout until EOF, then returns the output or the exit status, or raises `SSHError`. On cancellation it terminates the child. |
| Storage backend | `virsh.py` `BTRFS`, `ZFS` (41-147) | Subvolume operations, each one remote command. `Host.__init__` always picks BTRFS (line 161). |
| Image build coordinator | `Host.build_image` (174-208) | Builds an image under the per-name lock `IMAGE_LOCKS[name]`, which covers the exist check only. It recurses into the parent and clones it, or downloads from a url, then runs build scripts in a VM and snapshots. |
| VM lifecycle | `VM` (374-438) | `boot`, `get_ip` (ARP polling against a deadline), `run_script`, `shutdown` (poll `virsh list`, force `destroy` on timeout) and `destroy`. |
| Host pool and scheduler | `Provider.get_host`, `get_vms`, `cleanup`; `Host.get_vm` (210-226, 312-340) | Picks the host with the fewest entries in `host.vms`, builds each VM's image, clones it, boots the VM, and later destroys a job's VMs. |
| Periodic task | `periodictask.py` | A `call_later` timer that re-arms itself after each call of its method. |
| Not modelled | `MetadataServer`, `config.py`, `XMLElement` and `VM.__init__`/`add_disk`/`add_net` | An HTTP server, the YAML loader and the domain-XML builder. |

The parts call each other as follows. `get_vms` calls `get_vm`, which calls
`build_image`, then the storage and `VM.boot`. `build_image` boots a build VM
and calls its `run_script` and `shutdown`. Every storage and VM operation is a
call of `AsyncSSH.run`. Each module models one part. A call into another part
is abstracted to the outcomes that part's module shows it can have.

## Modules

- **`ImageBuild.tla`** models `build_image` for several concurrent tasks, over BTRFS.
  - **State.** `present` is the set of subvolumes, `lock` is `IMAGE_LOCKS`, and `fr[t][x]` is the frame of `build_image(x)` in task `t`. A frame has a `pc`; `holds`, whether the frame created the subvolume (a clone into an existing subvolume nests inside it and creates nothing); and `base`, whether its clone source was complete. `good` is a ghost: the set of completely built subvolumes.
  - **Actions.** There is one action per await and per outcome of its remote command: `Acquire`, `ExistFound`/`ExistMissing`, `Clone`/`CloneFails`, `Create`/`CreateFails`, `Download`/`DownloadFails`, `NoBuildScripts`, `BootImage`/`BootImageFails`, `RunScriptsFails`, `Destroy`/`DestroyFails` (the except branch), and `Settle` (sleep, snapshot, return).
  - **Build scripts.** `run_script` always raises (see `VM`), so the only step from `run` is `RunScriptsFails`. An exception unwinds all of a task's frames (`Raise`).
- **`VM.tla`** models one VM object driven by its owner.
  - **State.** `now` is `time.time()`: sleeps advance it by their argument, and commands by up to `CmdTime`. `domain` is the libvirt domain (`none`/`running`/`stopping`/`off`). `arp` means the guest's address is in the ARP table, `ip` is `hasattr(vm, "ip")`, and `storage` means the clone exists. `pc` is the await the current call is at, and `deadline` and `sdeadline` are get_ip's and shutdown's deadlines.
  - **Actions.** There is one action per await: the two commands of `boot`; `get_ip`'s entry, deadline check, sleep and ARP query; `run_script`; `shutdown`'s command and its poll with both outcomes; and `destroy`'s two commands. `GuestLease` and `GuestPowersOff` are the guest's own steps.
- **`Provider.tla`** models concurrent jobs, each calling `get_vms(names)` and then `cleanup(vms)`.
  - **State.** `hostvms[h]` is `host.vms`. `present` is the set of image subvolumes, `clones` the VM clones, `domains` the running domains, and `jpc`, `jhost`, `ji` each job's position.
  - **Host choice.** `ChooseHost` is `get_host`'s loop, written as a recursive function over the host index. `FirstLeastLoaded` is the reference it is checked against.
  - **Abstraction.** `build_image` is abstracted to its result: the image is present, or the call raises. A raising build may leave the image's subvolume behind, or delete it in its except branch even after another job's build_image found it present.
- **`AsyncSSH.tla`** models one call of `run` or `scp_get`.
  - **Events.** The child's writes, its EOF, its exit (`process.returncode`) and the transport's `connection_lost` are independent events, in any order.
  - **The call.** `Start`/`Resume`/`ReadDone`/`Finish` are the code between awaits, and `CancelSpawn`/`CancelRead` are cancellation at each await. `CallFlags` gives the `return_output`/`raise_on_error` of the call sites.
  - **Data.** Output is a count of chunks, and the exit status is 0 or nonzero.
- **`PeriodicTask.tla`** models `start`, `stop` and `_run`.
  - **State.** `pending` is the set of live `call_later` handles and `handler` is `self._handler`; `rpc = "method"` while the method runs.
  - **Fault switches.** `CallerMisuse` lets the owner start twice, stop twice, or call start/stop from inside the method. `MethodMayRaise` lets the method raise.
- **`Ticker.tla`** is the abstract specification of a periodic task: `on` and a count of calls, where the count grows only while `on`.
- **`ImageBuildProofs.tla`**, **`AsyncSSHProofs.tla`**, **`VMProofs.tla`**, **`ProviderProofs.tla`** and **`PeriodicTaskProofs.tla`** hold the TLAPS proofs.
- **`MC*.tla`** give the constants for TLC.

## Runs

| Run (cfg) | Properties | Result | What it shows |
|---|---|---|---|
| `image_build` (`MCImageBuild.cfg`) | `TypeOK`, `IInv`, `BuiltImagesPersist`, `BuildTerminates` | pass, about 21k states | 2 tasks make 2 calls each, over 4 images, and every command may fail. The proofs' inductive invariant holds, a built image is never deleted (though two tasks may build one image at once, see below), and every call ends. |
| `asyncssh` (`MCAsyncSSH.cfg`) | `TypeOK`, `IInv`, `OutputCompleteAtReturn` | pass, about 2k states | The proofs' inductive invariant holds. Covers run and scp_get with each flag combination of the call sites, and cancellation at each await. A normal return comes after the whole output was read. |
| `vm` (`MCVM.cfg`) | `TypeOK`, `VInv`, `GetIpHonoursDeadline` | pass, about 62k states | The proofs' invariant `VInv` holds. Boot and then three calls, with failing commands. get_ip gives up only after its deadline, and at most one poll and one command after it. |
| `vm_clean` (`MCVM_clean.cfg`) | `ShutdownEnds`, `ShutdownLeavesDomainDown`, `StorageReleasedAfterDomain` | pass, about 23k states | With no failing command: shutdown always ends, even if the guest never powers off. A normal return leaves the domain down. The clone is deleted only after its domain stopped. |
| `provider` (`MCProvider.cfg`) | `TypeOK`, `GetHostIsFirstLeastLoaded` | pass, 253 states | 2 jobs on 3 hosts. get_host's loop picks the first least-loaded host for every load vector up to 2 and for the live loads. |
| `periodic` (`MCPeriodicTask.cfg`) | `TypeOK`, `TickInv`, `TickerSafety` | pass, 129 states | With an owner that starts only a stopped task and stops only a started one, and a method that may raise: one live timer, the one `_handler` names; the task refines `Ticker`. |
| `periodic_misuse` (`MCPeriodicTask_misuse.cfg`) | `KeepsTicking` | pass, about 4k states | Even with double start/stop and start/stop from the method, a started task whose method does not raise runs again or is stopped. |
| `lock_scope` (`MCImageBuild_lockscope.cfg`) | `CallerSeesBuiltImage` | violation | `t2`'s exist check sees `base` while `t1` is still downloading it. The lock covers only the exist check (line 177), not the whole build that spec 4.3 requires. |
| `failed_download_reused` (`MCImageBuild_retry.cfg`) | `CallerSeesBuiltImage` | violation | wget fails after `btrfs subvolume create`. A retry finds the subvolume and returns it as built (line 190; spec 7). |
| `unreaped_status` (`MCAsyncSSH_returncode.cfg`) | `RunHonoursExitStatus` | violation | stdout reaches EOF before the exit is reported. run reads `process.returncode` (line 79) as None and returns it, and the command then fails. |
| `shutdown_deadline` (`MCVM_deadline.cfg`) | `ShutdownRespectsDeadline` | violation | `time.time() > timeout` (line 398) compares against the duration 30, not the deadline. The forced destroy therefore comes at the first poll. |
| `clone_vm_name` (`MCProvider_clone.cfg`) | `GetVmsSucceedsWithoutFaults` | violation | get_vm clones the VM's name, not its image (line 215). With no faults, `get_vms(["worker"])` fails. |

Every property of a passing run has a mutant in `PROJECT.json`: a plausible
bug in one definition, which TLC finds. The mutants include:

- `ResumeAtExit`, a read loop that tests `returncode` instead of `at_eof`;
- `ShutdownPollListedNoTimeout`;
- `ChooseHostLe` (`<=`);
- `StopKeepsTimer`;
- `ExistMissingSkipsUrl`, a url image sent to the build scripts (breaks ImageBuild's `IInv`);
- `ExistMissingCallsSelf`, `build_image(name)` where `build_image(parent)` is meant (breaks `BuildTerminates`);
- `ReadDoneSkipsSink`, a read that skips self.cb for one chunk (breaks AsyncSSH's `IInv`);
- `GetIpStaleDeadline`, a deadline computed by the first get_ip only (breaks `VInv`).

### Known divergences outside the run set

These properties are in the modules. TLC finds each one violated with the cfg
named, which is kept for reproduction:

- **Two tasks build one image.** `ExclusiveProvisioning` (`MCImageBuild_exclusive.cfg`). Both tasks find `dev` missing under the lock and release it (line 177). The first clone creates the subvolume, and the second `btrfs subvolume snapshot` nests inside it and succeeds (line 116). Both tasks then boot, script and destroy or settle the same subvolume.
- **Scripted images never build.** `BuildSucceedsWithoutFaults` (`MCImageBuild_scripts.cfg`). `run_script` passes `user=` to `AsyncSSH.run` (line 384), a TypeError. So a scripted image never builds, even without faults.
- **Output returned before the exit status.** `RunHonoursExitStatus` (`MCAsyncSSH_capture.cfg`). With `return_output`, run returns the output without looking at the exit status, even before the child exited (line 74).
- **No streaming.** `StreamsOutput` (`MCAsyncSSH_stream.cfg`). `read()` waits for EOF (line 65), so the sink receives nothing while the command runs (spec 4.1, 9).
- **Undeclared exceptions.** `RaisesDeclaredErrors` (`MCAsyncSSH_errors.cfg`). A failed command whose stdout is at EOF before the loop raises `UnboundLocalError` (line 80, `line` unbound). Cancelling after `connection_lost` raises `ProcessLookupError` (line 70).
- **Boot reports rm's status.** `BootedDomainRuns` (`MCVM_boot.cfg`). boot's exit status is `rm`'s (line 438), so a failed `virsh create` returns normally.
- **Clone deleted under a live domain.** `StorageReleasedAfterDomain` (`MCVM_destroy.cfg`). A failed `virsh destroy` is ignored (line 405), and the clone is deleted under a running domain.
- **Stale live list.** `LiveListAccurate` (`MCProvider_livelist.cfg`). `host.vms` is never shrunk (line 224).
- **Placement ignores load.** `PlacementLeastLoaded` (`MCProvider_placement.cfg`). get_vms uses one host for all its VMs (line 336), chosen from stale loads.
- **Cleanup leaks VMs.** `JobReleasesItsVms` (`MCProvider_release.cfg`). A failing destroy ends cleanup (line 316). A failing get_vm leaves the VMs it already booted (line 338).
- **Double start.** `TickerSafety` (`MCPeriodicTask_stop.cfg`). `start(); start(); stop()` leaves the first timer live, so the method runs after stop (line 35).
- **A raising method stops the task.** `KeepsTicking` (`MCPeriodicTask_raise.cfg`). A method that raises ends `_run` before its `call_later` (line 28).

### Bounds

- **ImageBuild.** 2 tasks × 2 calls cover every two-party race on one image: lock, exist, create and clone. The second call is a retry. The 4 images give a shared parent, both build paths, and an image with scripts and neither parent nor url.
- **VM.** `MaxCalls = 3` allows boot, then any two of run_script, shutdown and destroy, including destroy twice. The timeouts (30), poll interval (4) and settle delay (30) are the code's values. `Horizon = 300` is above any time three calls reach, and TLC shows `now` never reaches it.
- **Provider.** 2 jobs, 3 hosts (for ties and a later minimum), and requests of up to 2 VMs. `GetHostIsFirstLeastLoaded` also checks every vector in `[1..3 -> 0..2]`.
- **AsyncSSH.** Up to 2 chunks of output separate "read some" from "read all".
- **PeriodicTask.** 5 calls of the method and 6 owner calls reach each order of start, stop and a firing timer.

### Fairness

The event loop resumes every ready coroutine, runs every due timer, and every
remote command returns. So each module has weak fairness on the code's own
steps:

| Module | Fair steps |
|---|---|
| ImageBuild | each task's `Proceed` |
| Provider | each job's `Step` |
| VM | `Step` |
| AsyncSSH | `Loop` and `connection_lost` |
| PeriodicTask | `Loop` |

The environment gets no fairness:

- callers need not call again;
- a child need not close its output or exit;
- a guest need not ever get an address or power off.

`ShutdownEnds` and `BuildTerminates` therefore hold without any cooperation
from the guest.

## Proofs (TLAPS)

| Module | Theorem | Statement | Assumptions |
|---|---|---|---|
| `ImageBuildProofs` | `TypeCorrect` | `Spec => []TypeOK` | `ConstantsAssumption` |
| | `IInvHolds` | `Spec => []IInv` | the same |
| | `BuiltPersist` | `Spec => BuiltImagesPersist` | the same |
| `AsyncSSHProofs` | `IInvHolds` | `Spec => []IInv` | `ChannelAssumption` |
| | `TypeCorrect` | `Spec => []TypeOK` | the same |
| | `OutputComplete` | `Spec => []OutputCompleteAtReturn` | the same |
| `VMProofs` | `VInvHolds` | `Spec => []VInv` | `VMAssumption` |
| | `TypeCorrect` | `Spec => []TypeOK` | the same |
| | `DeadlineHonoured` | `Spec => GetIpHonoursDeadline` | the same |
| | `DomainDown` | `Spec => ShutdownLeavesDomainDown` | plus `~MayFail` |
| | `StorageAfterDomain` | `Spec => StorageReleasedAfterDomain` | plus `~MayFail` |
| `ProviderProofs` | `TypeCorrect` | `Spec => []TypeOK` | the same |
| | `GetHostCorrect` | `Spec => []GetHostIsFirstLeastLoaded` | `ProviderAssumption` |
| `PeriodicTaskProofs` | `TypeCorrect` | `Spec => []TypeOK` | `PeriodicAssumption` |
| | `TickInvHolds` | `Spec => []TickInv` | plus `~CallerMisuse` |
| | `Refinement` | `Spec => TickerSafety`, that is, `T!Spec` under `on <- started` | plus `~CallerMisuse` |

**ImageBuild's IInv and BuiltImagesPersist.** `BuiltImagesPersist` is not
inductive on its own. The except branch deletes `storage_name`, the image
itself, whoever made its subvolume. Two tasks can build one image at once,
so nothing exclusive protects it. What protects a complete image is the shape
of the paths through `build_image`. `IInv` states it per frame (`FrameOK`):

- a frame holds a subvolume only past its create or clone;
- only images with a parent wait in `clone`;
- only downloaded images (no parent, a url) reach `create` and `download`,
  and they never reach the scripts;
- only images with build scripts reach `run` and `destroy`, and only images
  without them reach `settle`.

It adds:

- built images exist;
- a built image with build scripts is a downloaded one;
- the subvolume a frame may go on to mark complete exists (`PresentOK`).

So `Destroy` deletes an image with scripts that is not downloaded, which is
never complete. Every other step keeps `good` and `present` or adds to them.
`IInvStep` handles the two shapes of frame update once each: a frame
replaced, and a task's frames unwound. It then has one case per action.
TLC checks `IInv` in run `image_build`.

**AsyncSSH's IInv.** `OutputCompleteAtReturn` alone is not inductive: a chunk
in the stream buffer is counted nowhere. `IInv` accounts for every chunk
during a call: written = delivered to self.cb + buffered, and, with
return_output or for scp, written = captured + buffered. It also states:

- `pc = "done"` exactly when there is a result;
- a normal result comes with EOF and an empty buffer;
- an idle call has no child and zero counts.

`ReadDone` moves the buffer to both sinks at once. The `Finish` that follows
either returns at EOF or, for scp's first phase, starts a fresh child.

**VM's VInv.** `GetIpHonoursDeadline` needs the clock bounded while get_ip
polls. `VInv` states these bounds:

- at `ip_check`, now <= deadline + poll + one command;
- at `ip_poll`, now <= deadline + poll.

`GetIpWaits` is taken only when now <= deadline, and it adds at most one poll.
The ARP query adds at most one command. `LaterBound` and `SpendBound` are
lemmas about the saturating clock `Later`.

For the two shutdown/destroy properties, `VInv` adds:

- with no failing command, no domain is listed at the storage delete, because
  `DestroyVirsh` stops a listed domain;
- boot's commands run only in a boot call, which rules out a boot step
  returning "ok" for shutdown.

Both properties are false when commands may fail (`virsh destroy` errors are
ignored). Their theorems therefore assume `~MayFail`, as the `vm_clean` run
does.

**get_host and Provider's typing.** `ChooseHost` is get_host's loop,
written as the recursive function `best` inside a LET. The library's
induction theorems take an operator parameter, which the provers cannot
instantiate. The proof therefore uses only the least-number principle:

- `LeastNat` derives it from `WFMin` and `NatLessThanWellFounded`, neither of
  which has an operator parameter.
- `BestClosed` is a closed form of `best`. Its entry k is
  `FirstLeastUpTo(loads, k)`, the first host of least load among 1..k.
- `BestClosedSolves` shows that the closed form satisfies best's equation.
  The step lemma is `FirstLeastStep`: a new host replaces the candidate
  exactly when it is strictly less loaded.
- `BestUnique` shows that the equation has one solution: the least index
  where two solutions differ leads to a contradiction.
- So `ChooseHost(loads)` is the first least-loaded host for every n >= 1 and
  every natural load vector (`ChooseHostFirstLeast`). `GetHostCorrect` follows
  by the uniqueness of `FirstLeastLoaded`'s choice.

`TypeOK` is not inductive on its own for three reasons:

- `Boot` adds `<<j, ji[j]>>` to a host list;
- `BuildImage` reads `Request[j][ji[j]]`;
- `Loads` must be natural numbers.

`PInv` (in `ProviderProofs`) therefore adds two facts:

- every host list is finite;
- ji[j] lies in the request while get_vms makes a VM, and is at most one past
  its end in cleanup.

Writing the proof showed that `TypeOK` did not say `jhost` is a function on
the jobs. That conjunct was added.

**TickInv.** It is inductive together with `TypeOK`:

- `Start` schedules only when no timer is live (the owner starts only a stopped task, and a stopped task has none);
- `Stop` cancels the one live handle;
- `Fire` consumes it before `Resched` schedules the next.

**Refinement.** `RefinementStep` shows that under `TickInv`:

- `Start` and `Stop` are Ticker's;
- `Fire` is a `Tick`, because `TickInv` says a live timer means `started`;
- every other step leaves `started` and `fired` alone.

With `CallerMisuse` the theorem is false, and TLC shows it (double start above).

**Left to TLC.** These are outside what the prover handles here:

- liveness (`BuildTerminates`, `ShutdownEnds`, `KeepsTicking`), because
  TLAPS does not handle fairness or ENABLED here.

Every invariant and every action property of a passing run is proved.

## Not modelled, and why

- **ZFS.** It is dead code, because `Host.__init__` always builds BTRFS.
- **`MetadataServer`.** It is request/response I/O with no state the provider reads.
- **`config.py`.** It is YAML parsing and plugin import. Its result enters as constants: images, parents, urls, scripts and VM definitions.
- **The domain XML (`XMLElement`, `VM.__init__`, `add_disk`, `add_net`, `fd`).** This is serialization only.
- **`Provider.start`/`stop`.** They construct the hosts and start or stop the metadata server.
- **Inside `AsyncSSH.run`.** The stdin temporary file and the command-line construction are data.
- **The child after a cancel.** run terminates the child and schedules `process.wait()` without awaiting it (lines 70-71). Whether the child then exits and is reaped is up to the child, so no property states it.
- **Composition.** The modules are not composed: each abstracts the others to their outcomes. For example, ImageBuild's remote commands are atomic with a definite status, and the unreaped status is AsyncSSH's.
