---------------------------------- MODULE VM ----------------------------------
(***************************************************************************)
(* The VM lifecycle controller: one VM object of the virsh provider        *)
(* (src/rallyci/providers/virsh.py:374-438) -- boot, get_ip, run_script,   *)
(* shutdown and destroy -- called one at a time by its owner (Host.get_vm  *)
(* and the job that releases it, or build_image), against the guest and    *)
(* the hypervisor, which change state on their own.                        *)
(*                                                                         *)
(* Time is time.time() in seconds: sleeps advance it by their argument,    *)
(* every remote command by up to CmdTime.  It saturates at Horizon, which  *)
(* the MC module puts above every time a bounded owner can reach.         *)
(***************************************************************************)
EXTENDS Naturals

CONSTANTS
    Epoch,            \* time.time() when the VM is constructed
    Horizon,          \* the clock saturates here
    CmdTime,          \* the longest a remote command takes
    IpTimeout,        \* get_ip(timeout=30)
    ShutdownTimeout,  \* shutdown(timeout=30)
    PollInterval,     \* the asyncio.sleep(4) of both poll loops
    SettleDelay,      \* run_script's asyncio.sleep(30)
    MaxCalls,         \* calls the owner makes on the VM
    MayFail           \* remote commands may fail for outside reasons

ASSUME VMAssumption ==
    /\ \A c \in {Epoch, Horizon, CmdTime, IpTimeout, ShutdownTimeout,
                 PollInterval, SettleDelay, MaxCalls} : c \in Nat
    /\ Epoch <= Horizon
    /\ MayFail \in BOOLEAN

VARIABLES
    now,        \* time.time()
    domain,     \* the libvirt domain: "none", "running", "stopping", "off"
    arp,        \* the guest's address is in the host's ARP table
    ip,         \* hasattr(vm, "ip")
    storage,    \* the subvolume vm.storage_name exists
    op,         \* the call in progress (or the last one, when pc = "idle")
    pc,         \* where that call is
    deadline,   \* get_ip's deadline
    sdeadline,  \* shutdown's deadline
    calls,      \* calls made so far
    ret         \* how the last call ended

vars == <<now, domain, arp, ip, storage, op, pc, deadline, sdeadline, calls,
          ret>>

Ops == {"boot", "run_script", "shutdown", "destroy"}
Outcomes == {"none", "ok", "SSHError", "AttributeError", "TypeError"}
PCs == {"idle", "boot_xfer", "boot_create", "ip_enter", "ip_check", "ip_poll",
        "rs_settle", "sd_cmd", "sd_poll", "ds_virsh", "ds_storage"}

TypeOK ==
    /\ now \in Epoch..Horizon
    /\ domain \in {"none", "running", "stopping", "off"}
    /\ arp \in BOOLEAN /\ ip \in BOOLEAN /\ storage \in BOOLEAN
    /\ op \in Ops /\ pc \in PCs
    /\ deadline \in Nat /\ sdeadline \in Nat
    /\ calls \in 0..MaxCalls
    /\ ret \in Outcomes

-----------------------------------------------------------------------------
(* Helpers                                                                  *)

\* The clock after d more seconds.
Later(d) == IF now + d > Horizon THEN Horizon ELSE now + d

\* One remote command runs, taking up to CmdTime seconds, then s of sleep.
Spend(s) == \E d \in 0..CmdTime : now' = Later(d + s)

\* The domain is listed by `virsh list`.
Listed == domain \in {"running", "stopping"}

\* Where get_ip returns to: run_script or shutdown (through get_ssh).
Cont == IF op = "run_script" THEN "rs_settle" ELSE "sd_cmd"

\* The call ends.
Return(r) == /\ pc' = "idle" /\ ret' = r

-----------------------------------------------------------------------------
(* The owner's calls                                                        *)

\* The VM was constructed (its storage already cloned), nothing booted.
Init ==
    /\ now = Epoch
    /\ domain = "none"
    /\ arp = FALSE /\ ip = FALSE
    /\ storage = TRUE
    /\ op = "boot" /\ pc = "idle"
    /\ deadline = 0 /\ sdeadline = 0
    /\ calls = 0
    /\ ret = "none"

\* Mutant: the owner's calls are not counted against MaxCalls.
CallUnbounded(o) ==
    /\ pc = "idle"
    /\ calls = 0 <=> o = "boot"
    /\ ~(op = "boot" /\ ret = "SSHError")
    /\ op' = o
    /\ pc' = CASE o = "boot"    -> "boot_xfer"
               [] o = "destroy" -> "ds_virsh"
               [] OTHER         -> "ip_enter"
    /\ calls' = calls + 1
    /\ ret' = "none"
    /\ UNCHANGED <<now, domain, arp, ip, storage, deadline, sdeadline>>

\* The owner calls a method: boot first (get_vm, boot_image); a VM whose
\* boot raised is dropped by its owner.
Call(o) ==
    /\ pc = "idle" /\ calls < MaxCalls
    /\ calls = 0 <=> o = "boot"
    /\ ~(op = "boot" /\ ret = "SSHError")
    /\ op' = o
    /\ pc' = CASE o = "boot"    -> "boot_xfer"
               [] o = "destroy" -> "ds_virsh"
               [] OTHER         -> "ip_enter"
    /\ calls' = calls + 1
    /\ ret' = "none"
    /\ UNCHANGED <<now, domain, arp, ip, storage, deadline, sdeadline>>

\* The exit status of a command that may fail: "ok", or "SSHError" when
\* MayFail (run's raise_on_error=True).
Status == IF MayFail THEN {"ok", "SSHError"} ELSE {"ok"}

\* boot: `cat > conf` with the domain XML as stdin.
BootTransfer ==
    /\ pc = "boot_xfer"
    /\ \E r \in Status :
          IF r = "ok" THEN pc' = "boot_create" /\ UNCHANGED ret ELSE Return(r)
    /\ Spend(0)
    /\ UNCHANGED <<domain, arp, ip, storage, op, deadline, sdeadline, calls>>

\* boot: `virsh create c; rm c` creates the domain.  The exit status is
\* rm's: a failing rm raises though the domain runs.
BootCreate ==
    /\ pc = "boot_create"
    /\ domain' = "running"
    /\ \E r \in Status : Return(r)
    /\ Spend(0)
    /\ UNCHANGED <<arp, ip, storage, op, deadline, sdeadline, calls>>

\* boot: virsh create fails; the exit status is still rm's, so boot
\* returns normally unless rm fails too.
BootCreateFails ==
    /\ pc = "boot_create" /\ MayFail
    /\ \E r \in Status : Return(r)
    /\ Spend(0)
    /\ UNCHANGED <<domain, arp, ip, storage, op, deadline, sdeadline, calls>>

\* Mutant: the deadline is computed by the first get_ip only and kept.
GetIpStaleDeadline ==
    /\ pc = "ip_enter"
    /\ IF ip THEN pc' = Cont /\ UNCHANGED deadline
             ELSE /\ pc' = "ip_check"
                  /\ deadline' = IF deadline = 0 THEN now + IpTimeout ELSE deadline
    /\ UNCHANGED <<now, domain, arp, ip, storage, op, sdeadline, calls, ret>>

\* get_ip: with self.ip set it sleeps(0) and returns it; else the
\* deadline is time.time() + timeout and the poll loop starts.
GetIp ==
    /\ pc = "ip_enter"
    /\ IF ip THEN pc' = Cont /\ UNCHANGED deadline
             ELSE pc' = "ip_check" /\ deadline' = now + IpTimeout
    /\ UNCHANGED <<now, domain, arp, ip, storage, op, sdeadline, calls, ret>>

\* Mutant: `time.time() >= deadline`.
GetIpGivesUpEarly ==
    /\ pc = "ip_check" /\ now >= deadline
    /\ pc' = Cont
    /\ UNCHANGED <<now, domain, arp, ip, storage, op, deadline, sdeadline,
                   calls, ret>>

\* get_ip: `if time.time() > deadline: return None`.
GetIpGivesUp ==
    /\ pc = "ip_check" /\ now > deadline
    /\ pc' = Cont
    /\ UNCHANGED <<now, domain, arp, ip, storage, op, deadline, sdeadline,
                   calls, ret>>

\* get_ip: not past the deadline: sleep(4), then the ARP query.
GetIpWaits ==
    /\ pc = "ip_check" /\ now <= deadline
    /\ pc' = "ip_poll"
    /\ now' = Later(PollInterval)
    /\ UNCHANGED <<domain, arp, ip, storage, op, deadline, sdeadline, calls,
                   ret>>

\* get_ip: `egrep -i macs /proc/net/arp` (return_output=True: it never
\* raises) shows the guest: self.ip is set, sleep(4), return.
GetIpFound ==
    /\ pc = "ip_poll" /\ arp
    /\ ip' = TRUE /\ pc' = Cont
    /\ Spend(PollInterval)
    /\ UNCHANGED <<domain, arp, storage, op, deadline, sdeadline, calls, ret>>

\* get_ip: no line of the output matches: back to the deadline check.
GetIpNotFound ==
    /\ pc = "ip_poll" /\ ~arp
    /\ pc' = "ip_check"
    /\ Spend(0)
    /\ UNCHANGED <<domain, arp, ip, storage, op, deadline, sdeadline, calls,
                   ret>>

\* run_script: get_ip, sleep(30), then AsyncSSH(user, self.ip, ...):
\* AttributeError when get_ip gave up without setting self.ip; else
\* ssh.run(..., user=...) gets a keyword run does not take: TypeError.
RunScript ==
    /\ pc = "rs_settle"
    /\ now' = Later(SettleDelay)
    /\ Return(IF ip THEN "TypeError" ELSE "AttributeError")
    /\ UNCHANGED <<domain, arp, ip, storage, op, deadline, sdeadline, calls>>

\* shutdown: get_ssh's AsyncSSH("root", self.ip) without an address.
ShutdownNoAddress ==
    /\ pc = "sd_cmd" /\ ~ip
    /\ Return("AttributeError")
    /\ UNCHANGED <<now, domain, arp, ip, storage, op, deadline, sdeadline,
                   calls>>

\* shutdown: `shutdown -h now` on the guest; the guest starts powering
\* off; deadline = time.time() + timeout.
ShutdownCommand ==
    /\ pc = "sd_cmd" /\ ip /\ domain = "running"
    /\ domain' = "stopping"
    /\ Spend(0)
    /\ sdeadline' = now' + ShutdownTimeout
    /\ pc' = "sd_poll"
    /\ UNCHANGED <<arp, ip, storage, op, deadline, calls, ret>>

\* shutdown: the guest is not running (a stale address) or the command
\* fails: SSHError.
ShutdownCommandFails ==
    /\ pc = "sd_cmd" /\ ip /\ (domain # "running" \/ MayFail)
    /\ Return("SSHError")
    /\ Spend(0)
    /\ UNCHANGED <<domain, arp, ip, storage, op, deadline, sdeadline, calls>>

\* Mutant: `if not error: return`.
ShutdownPollGoneInverted ==
    /\ pc = "sd_poll" /\ Listed
    /\ Return("ok")
    /\ Spend(PollInterval)
    /\ UNCHANGED <<domain, arp, ip, storage, op, deadline, sdeadline, calls>>

\* shutdown: sleep(4); `virsh list | grep -q name` with raise_on_error=False
\* exits nonzero -- the domain is gone, or ssh to the host failed (255) --
\* and `if error: return`.
ShutdownPollGone ==
    /\ pc = "sd_poll" /\ (~Listed \/ MayFail)
    /\ Return("ok")
    /\ Spend(PollInterval)
    /\ UNCHANGED <<domain, arp, ip, storage, op, deadline, sdeadline, calls>>

\* Mutant: the poll loop without its timeout branch.
ShutdownPollListedNoTimeout ==
    /\ pc = "sd_poll"
    /\ Spend(PollInterval)
    /\ pc' = "sd_poll"
    /\ UNCHANGED <<domain, arp, ip, storage, op, deadline, sdeadline, calls,
                   ret>>

\* shutdown: the poll's status is falsy -- 0, grep found the domain, or None,
\* run read process.returncode before the child watcher set it -- then
\* `elif time.time() > timeout` (the duration 30, not the deadline) forces
\* destroy(); else the loop polls again.
ShutdownPollListed ==
    /\ pc = "sd_poll"
    /\ Spend(PollInterval)
    /\ pc' = IF now' > ShutdownTimeout THEN "ds_virsh" ELSE "sd_poll"
    /\ UNCHANGED <<domain, arp, ip, storage, op, deadline, sdeadline, calls,
                   ret>>

\* Mutant: `virsh destroy` names a domain that is not this VM's.
DestroyVirshWrongName ==
    /\ pc = "ds_virsh"
    /\ pc' = "ds_storage"
    /\ Spend(0)
    /\ UNCHANGED <<domain, arp, ip, storage, op, deadline, sdeadline, calls,
                   ret>>

\* destroy: `virsh destroy name` stops the domain (raise_on_error=False).
DestroyVirsh ==
    /\ pc = "ds_virsh"
    /\ domain' = IF Listed THEN "off" ELSE domain
    /\ pc' = "ds_storage"
    /\ Spend(0)
    /\ UNCHANGED <<arp, ip, storage, op, deadline, sdeadline, calls, ret>>

\* destroy: virsh destroy fails; raise_on_error=False ignores it.
DestroyVirshFails ==
    /\ pc = "ds_virsh" /\ MayFail
    /\ pc' = "ds_storage"
    /\ Spend(0)
    /\ UNCHANGED <<domain, arp, ip, storage, op, deadline, sdeadline, calls,
                   ret>>

\* destroy: storage.destroy(storage_name), `btrfs subvolume delete`; the
\* call (destroy, or shutdown after its forced destroy) returns.
DestroyStorage ==
    /\ pc = "ds_storage" /\ storage
    /\ storage' = FALSE
    /\ Return("ok")
    /\ Spend(0)
    /\ UNCHANGED <<domain, arp, ip, op, deadline, sdeadline, calls>>

\* destroy: the delete fails -- the subvolume is already gone (a second
\* destroy) or the command fails: SSHError.
DestroyStorageFails ==
    /\ pc = "ds_storage" /\ (~storage \/ MayFail)
    /\ Return("SSHError")
    /\ Spend(0)
    /\ UNCHANGED <<domain, arp, ip, storage, op, deadline, sdeadline, calls>>

-----------------------------------------------------------------------------
(* The guest and the hypervisor                                             *)

\* The guest's DHCP lease puts its address in the host's ARP table; the
\* entry outlives the guest.
GuestLease ==
    /\ domain = "running" /\ ~arp
    /\ arp' = TRUE
    /\ UNCHANGED <<now, domain, ip, storage, op, pc, deadline, sdeadline,
                   calls, ret>>

\* The guest completes `shutdown -h now` and the domain stops.
GuestPowersOff ==
    /\ domain = "stopping"
    /\ domain' = "off"
    /\ UNCHANGED <<now, arp, ip, storage, op, pc, deadline, sdeadline,
                   calls, ret>>

\* The owner has made its calls, or dropped a VM whose boot raised.
Finished ==
    /\ pc = "idle"
    /\ calls = MaxCalls \/ (op = "boot" /\ ret = "SSHError")
    /\ UNCHANGED vars

\* The steps of the VM's coroutines.
Step ==
    \/ BootTransfer \/ BootCreate \/ BootCreateFails
    \/ GetIp \/ GetIpGivesUp \/ GetIpWaits \/ GetIpFound \/ GetIpNotFound
    \/ RunScript
    \/ ShutdownNoAddress \/ ShutdownCommand \/ ShutdownCommandFails
    \/ ShutdownPollGone \/ ShutdownPollListed
    \/ DestroyVirsh \/ DestroyVirshFails \/ DestroyStorage \/ DestroyStorageFails

Next ==
    \/ \E o \in Ops : Call(o)
    \/ Step
    \/ GuestLease \/ GuestPowersOff
    \/ Finished

(* The event loop resumes the VM's coroutine whenever its sleep or command *)
(* is done; the owner need not call, and the guest need not ever get an   *)
(* address or power off.                                                    *)
Spec == Init /\ [][Next]_vars /\ WF_vars(Step)

-----------------------------------------------------------------------------
(* Properties                                                               *)

(* Every shutdown call returns or raises, whether or not the guest ever    *)
(* powers off: the poll loop at virsh.py:393 ends by its timeout branch.   *)
ShutdownEnds == op = "shutdown" /\ pc # "idle" ~> pc = "idle"

(* get_ip gives up only once its deadline has passed, and no later than    *)
(* one poll after it (spec sec. 8: a timeout of 8 with a poll interval of *)
(* 4 returns "no address" after ~8, not earlier and not indefinitely).     *)
GetIpHonoursDeadline ==
    [][pc = "ip_check" /\ pc' \notin {"ip_check", "ip_poll"} =>
          /\ now > deadline
          /\ now <= deadline + PollInterval + CmdTime]_vars

(* When shutdown returns normally the domain no longer runs: the guest    *)
(* powered off, or the forced destroy stopped it.                          *)
ShutdownLeavesDomainDown ==
    [][op = "shutdown" /\ pc # "idle" /\ pc' = "idle" /\ ret' = "ok"
          => ~(domain' \in {"running", "stopping"})]_vars

(* destroy deletes the VM's storage only after the domain using it has     *)
(* stopped (spec sec. 4.4, 4.5: destroyed means domain and clone removed). *)
StorageReleasedAfterDomain ==
    [][storage /\ ~storage' => ~Listed]_vars

(* The spec (sec. 4.5): shutdown forces destroy only once the deadline   *)
(* computed at its start has passed.                                       *)
ShutdownRespectsDeadline ==
    [][pc = "sd_poll" /\ pc' = "ds_virsh" => now' > sdeadline]_vars

(* boot returns normally only when the domain was created (spec sec. 7: a *)
(* required remote command that fails raises CommandError).               *)
BootedDomainRuns ==
    [][op = "boot" /\ pc = "boot_create" /\ pc' = "idle" /\ ret' = "ok"
          => domain' = "running"]_vars

(* The inductive invariant behind GetIpHonoursDeadline,                   *)
(* ShutdownLeavesDomainDown and StorageReleasedAfterDomain: inside         *)
(* get_ip's loop the clock is at most one poll and one command past the    *)
(* deadline (one poll at the ARP query), and, when commands do not fail,   *)
(* destroy reaches the storage delete only with the domain stopped; boot's *)
(* two commands run only inside a boot call.                               *)
VInv ==
    /\ TypeOK
    /\ pc = "ip_check" => now <= deadline + PollInterval + CmdTime
    /\ pc = "ip_poll" => now <= deadline + PollInterval
    /\ ~MayFail /\ pc = "ds_storage" => ~Listed
    /\ pc \in {"boot_xfer", "boot_create"} => op = "boot"

=============================================================================
