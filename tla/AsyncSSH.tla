------------------------------ MODULE AsyncSSH ------------------------------
(***************************************************************************)
(* The remote command channel: AsyncSSH.run and AsyncSSH.scp_get           *)
(* (src/rallyci/common/asyncssh.py:39-108), one call against the events    *)
(* of the asyncio subprocess it starts.                                     *)
(*                                                                         *)
(* The child writes chunks to its stdout pipe, closes it and exits; the    *)
(* event loop feeds the chunks and the EOF to process.stdout, and learns   *)
(* the exit status from the child watcher (process.returncode) -- three    *)
(* independent sources of events, in any order.  When both the exit and   *)
(* the EOF are in, the transport calls connection_lost, after which        *)
(* process.terminate() raises ProcessLookupError.  The caller's task can   *)
(* be cancelled at either await of run.  Output text is abstracted to a    *)
(* count of chunks and the exit status to 0 or 1 (nonzero).                *)
(***************************************************************************)
EXTENDS Naturals

CONSTANTS
    MaxChunks,   \* chunks of output a command writes
    CallFlags,   \* (return_output, raise_on_error) of the call sites
    Ops          \* "run" and/or "scp" (scp_get)

ASSUME ChannelAssumption ==
    /\ MaxChunks \in Nat
    /\ CallFlags \subseteq [return_output: BOOLEAN, raise_on_error: BOOLEAN]
    /\ Ops \subseteq {"run", "scp"}

VARIABLES
    op,         \* "run" or "scp": the call being made
    flags,      \* its return_output and raise_on_error arguments
    phase,      \* scp_get: 1 while `ls` runs, 2 while scp runs
    child,      \* "none", "running", or "exited" once the watcher reported it
    status,     \* the child's exit status: 0, or 1 for any nonzero status
    signalled,  \* the child was sent SIGTERM or SIGKILL
    written,    \* chunks the child wrote, fed to process.stdout
    buffered,   \* chunks in process.stdout not yet read
    eof,        \* feed_eof ran: the child's stdout is closed
    lost,       \* connection_lost ran: the transport dropped the process
    delivered,  \* chunks handed to self.cb
    captured,   \* chunks added to `output`
    line,       \* the local `line` is bound (the read loop ran)
    pc,         \* "idle", "spawned" (in create_subprocess_exec), "read", "done"
    result      \* how the call ended

vars == <<op, flags, phase, child, status, signalled, written, buffered, eof,
          lost, delivered, captured, line, pc, result>>

\* Normal returns and the exceptions run and scp_get can end with.
Returns == {"output", "rc0", "rc1", "None"}
Raises == {"SSHError", "UnboundLocalError", "CancelledError",
           "ProcessLookupError"}

TypeOK ==
    /\ op \in Ops
    /\ flags \in CallFlags
    /\ phase \in {1, 2}
    /\ child \in {"none", "running", "exited"}
    /\ status \in {0, 1}
    /\ signalled \in BOOLEAN
    /\ written \in 0..MaxChunks
    /\ buffered \in 0..MaxChunks
    /\ eof \in BOOLEAN
    /\ lost \in BOOLEAN
    /\ delivered \in 0..MaxChunks
    /\ captured \in 0..MaxChunks
    /\ line \in BOOLEAN
    /\ pc \in {"idle", "spawned", "read", "done"}
    /\ result \in {"none"} \cup Returns \cup Raises

-----------------------------------------------------------------------------
(* Helpers                                                                  *)

\* StreamReader.at_eof(): the EOF was fed and the buffer is empty.
AtEof == eof /\ buffered = 0

\* process.returncode: None until the watcher reported the exit.
ReturnCode == IF child = "exited" THEN (IF status = 0 THEN "rc0" ELSE "rc1")
                                  ELSE "None"

\* A new child process with its pipes connected.
Fresh == /\ child' = "running"
         /\ signalled' = FALSE
         /\ written' = 0
         /\ buffered' = 0
         /\ eof' = FALSE
         /\ lost' = FALSE

\* The process is one of run's: a call of run, or scp_get's `ls`.
InRun == op = "run" \/ phase = 1

Unchanged_Child == UNCHANGED <<child, status, signalled, written, eof, lost>>

-----------------------------------------------------------------------------
(* The call                                                                 *)

Init ==
    /\ op \in Ops
    /\ flags \in CallFlags
    /\ phase = 1
    /\ child = "none"
    /\ status = 0
    /\ signalled = FALSE
    /\ written = 0
    /\ buffered = 0
    /\ eof = FALSE
    /\ lost = FALSE
    /\ delivered = 0
    /\ captured = 0
    /\ line = FALSE
    /\ pc = "idle"
    /\ result = "none"

\* run builds the ssh command line and awaits create_subprocess_exec; for
\* scp_get, this is its `self.run("ls ...", return_output=True)`.
Start ==
    /\ pc = "idle"
    /\ Fresh
    /\ pc' = "spawned"
    /\ UNCHANGED <<op, flags, phase, status, delivered, captured, line, result>>

\* The code after the read loop (no await in it).  With return_output the
\* output is returned whatever the exit status; else a set nonzero
\* returncode raises SSHError when raise_on_error (LOG.error formats
\* `line`, unbound if the loop never ran); else process.returncode is
\* returned, None if the watcher has not reported the exit yet.  scp_get
\* goes on from `ls` to the scp process, and returns its returncode.
Finish ==
    LET ro == op = "scp" \/ flags.return_output
        re == op = "run" /\ flags.raise_on_error
    IN
    \/ /\ op = "scp" /\ phase = 1
       /\ Fresh
       /\ phase' = 2
       /\ pc' = "spawned"
       /\ UNCHANGED <<op, flags, status, result>>
    \/ /\ ~(op = "scp" /\ phase = 1)
       /\ pc' = "done"
       /\ result' = IF ro /\ op = "run" THEN "output"
                    ELSE IF child = "exited" /\ status = 1 /\ re
                         THEN (IF line' THEN "SSHError" ELSE "UnboundLocalError")
                         ELSE ReturnCode
       /\ Unchanged_Child
       /\ UNCHANGED <<op, flags, phase>>

\* Mutant: the loop runs while process.returncode is None.
ResumeAtExit ==
    /\ pc = "spawned"
    /\ IF child = "exited"
          THEN /\ UNCHANGED <<delivered, captured, line>>
               /\ Finish
          ELSE /\ pc' = "read"
               /\ Unchanged_Child
               /\ UNCHANGED <<op, flags, phase, delivered, captured, line,
                              result>>
    /\ UNCHANGED <<buffered>>

\* create_subprocess_exec returns; `while not process.stdout.at_eof()` is
\* tested: the loop starts its read, or is skipped.
Resume ==
    /\ pc = "spawned"
    /\ IF AtEof
          THEN /\ UNCHANGED <<delivered, captured, line>>
               /\ Finish
          ELSE /\ pc' = "read"
               /\ Unchanged_Child
               /\ UNCHANGED <<op, flags, phase, delivered, captured, line,
                              result>>
    /\ UNCHANGED <<buffered>>

\* Mutant: self.cb is skipped when the output is captured.
ReadDoneSkipsSink ==
    /\ pc = "read"
    /\ eof
    /\ buffered' = 0
    /\ delivered' = IF InRun /\ ~flags.return_output
                       THEN delivered + buffered ELSE delivered
    /\ captured' = IF InRun /\ (flags.return_output \/ op = "scp")
                      THEN captured + buffered ELSE captured
    /\ line' = TRUE
    /\ Finish

\* `line = yield from process.stdout.read()` returns everything up to the
\* EOF; self.cb(line); `output += line` with return_output; at_eof() now
\* holds and the loop ends.
ReadDone ==
    /\ pc = "read"
    /\ eof
    /\ buffered' = 0
    /\ delivered' = IF InRun THEN delivered + buffered ELSE delivered
    /\ captured' = IF InRun /\ (flags.return_output \/ op = "scp")
                      THEN captured + buffered ELSE captured
    /\ line' = TRUE
    /\ Finish

\* The caller's task is cancelled while suspended in create_subprocess_exec:
\* asyncio closes the new transport, which kills the child, and re-raises.
CancelSpawn ==
    /\ pc = "spawned"
    /\ signalled' = (child = "running")
    /\ pc' = "done"
    /\ result' = "CancelledError"
    /\ UNCHANGED <<op, flags, phase, child, status, written, buffered, eof,
                   lost, delivered, captured, line>>

\* Cancelled in the read: `except asyncio.CancelledError`: terminate() (a
\* no-op for an exited child, ProcessLookupError once connection_lost has
\* dropped it), schedule process.wait(), re-raise.
CancelRead ==
    /\ pc = "read"
    /\ pc' = "done"
    /\ signalled' = (child = "running" \/ signalled)
    /\ result' = IF lost THEN "ProcessLookupError" ELSE "CancelledError"
    /\ UNCHANGED <<op, flags, phase, child, status, written, buffered, eof,
                   lost, delivered, captured, line>>

-----------------------------------------------------------------------------
(* The child and the event loop's transport                                 *)

\* Mutant: a child that writes without end.
WriteUnbounded ==
    /\ child = "running" /\ ~eof /\ ~signalled
    /\ written' = written + 1
    /\ buffered' = buffered + 1
    /\ UNCHANGED <<op, flags, phase, child, status, signalled, eof, lost,
                   delivered, captured, line, pc, result>>

\* The child writes a chunk; the pipe protocol feeds it to process.stdout.
Write ==
    /\ child = "running" /\ ~eof /\ ~signalled
    /\ written < MaxChunks
    /\ written' = written + 1
    /\ buffered' = buffered + 1
    /\ UNCHANGED <<op, flags, phase, child, status, signalled, eof, lost,
                   delivered, captured, line, pc, result>>

\* The child's stdout is closed: feed_eof.
CloseStdout ==
    /\ child # "none" /\ ~eof
    /\ eof' = TRUE
    /\ UNCHANGED <<op, flags, phase, child, status, signalled, written,
                   buffered, lost, delivered, captured, line, pc, result>>

\* The child exits and the watcher sets process.returncode; a signalled
\* child exits with a nonzero status.
Exit ==
    /\ child = "running"
    /\ child' = "exited"
    /\ status' \in IF signalled THEN {1} ELSE {0, 1}
    /\ UNCHANGED <<op, flags, phase, signalled, written, buffered, eof, lost,
                   delivered, captured, line, pc, result>>

\* Exit and EOF both in: the transport's connection_lost drops the process.
ConnectionLost ==
    /\ child = "exited" /\ eof /\ ~lost
    /\ lost' = TRUE
    /\ UNCHANGED <<op, flags, phase, child, status, signalled, written,
                   buffered, eof, delivered, captured, line, pc, result>>

\* The call has ended and the child is gone.
Finished ==
    /\ pc = "done" /\ ((child = "exited" /\ eof) \/ child = "none")
    /\ UNCHANGED vars

Loop == Start \/ Resume \/ ReadDone
Cancel == CancelSpawn \/ CancelRead
Child == Write \/ CloseStdout \/ Exit \/ ConnectionLost

Next == Loop \/ Cancel \/ Child \/ Finished

(* The event loop runs every ready callback and task (weak fairness of    *)
(* the loop's steps and of connection_lost); the child need not ever close *)
(* its output or exit, and the caller need not cancel.                      *)
Spec == Init /\ [][Next]_vars /\ WF_vars(Loop) /\ WF_vars(ConnectionLost)

-----------------------------------------------------------------------------
(* Properties                                                               *)

(* When run or scp_get returns normally, the child's whole output has been *)
(* read: every chunk it wrote went to self.cb (run) and, with               *)
(* return_output, into the returned output.                                  *)
OutputCompleteAtReturn ==
    result \in Returns =>
        /\ buffered = 0 /\ eof
        /\ op = "run" => delivered = written
        /\ op = "run" /\ flags.return_output => captured = written

(* The spec (sec. 4.1, 7): run with raise_on_error returns only for a     *)
(* command that exited 0; without it, it returns the exit code for the    *)
(* caller to interpret (exist() reads nonzero as absent).                  *)
RunHonoursExitStatus ==
    [][op = "run" /\ result = "none" /\ result' \in Returns =>
          /\ child = "exited"
          /\ flags.raise_on_error => status = 0
          /\ ~flags.return_output => result' = ReturnCode]_vars

(* The spec (sec. 4.1): output is streamed, the sink receives data as the *)
(* process produces it, not only once the process has closed its output.  *)
StreamsOutput ==
    \A k \in 1..MaxChunks :
        op = "run" /\ written >= k ~> delivered >= k \/ result \in Raises

(* The spec (sec. 7): a failed command raises a CommandError (SSHError),  *)
(* and a cancelled one raises the cancellation to the caller.              *)
RaisesDeclaredErrors ==
    result \in Raises => result \in {"SSHError", "CancelledError"}


(* The inductive invariant behind OutputCompleteAtReturn: a call has a    *)
(* result exactly when it is done; while the process is one of run's,     *)
(* every chunk the child wrote is                                          *)
(* either still in process.stdout or was handed to self.cb (and, when     *)
(* captured, added to `output`); a normal return comes only after the EOF *)
(* with the buffer drained; before the call starts no child exists.       *)
IInv ==
    /\ TypeOK
    /\ (pc = "done") = (result # "none")
    /\ buffered <= written
    /\ InRun => delivered + buffered = written
    /\ InRun /\ (flags.return_output \/ op = "scp") => captured + buffered = written
    /\ result \in Returns => eof /\ buffered = 0
    /\ pc = "idle" => (child = "none" /\ phase = 1 /\ written = 0
                        /\ delivered = 0 /\ captured = 0)

=============================================================================
