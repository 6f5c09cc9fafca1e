---------------------------- MODULE AsyncSSHProofs ----------------------------
(***************************************************************************)
(* Proofs about the remote command channel (module AsyncSSH) for every     *)
(* bound on the output and every set of call flags: a normal return of    *)
(* run comes after the child's whole output was read.                      *)
(***************************************************************************)
EXTENDS AsyncSSH, TLAPS

(* The call starts with no child, nothing written and nothing read.       *)
LEMMA IInvInit == Init => IInv
<1> SUFFICES ASSUME Init PROVE IInv
  OBVIOUS
<1>1. /\ written \in 0..MaxChunks /\ buffered \in 0..MaxChunks
      /\ delivered \in 0..MaxChunks /\ captured \in 0..MaxChunks
      /\ buffered <= written /\ delivered + buffered = written
      /\ captured + buffered = written
  BY ChannelAssumption DEF Init
<1>2. QED
  BY <1>1, Zenon
  DEF Init, IInv, TypeOK, InRun, Returns, Raises

(* Every step keeps IInv: one case per action of the call and of the      *)
(* child.                                                                   *)
LEMMA IInvStep == IInv /\ [Next]_vars => IInv'
<1> SUFFICES ASSUME IInv, [Next]_vars PROVE IInv'
  OBVIOUS
<1> USE ChannelAssumption
    DEF IInv, TypeOK, InRun, Returns, Raises
\* The counts of chunks, and the rest of IInv.
<1> DEFINE Num ==
      /\ written \in 0..MaxChunks /\ buffered \in 0..MaxChunks
      /\ delivered \in 0..MaxChunks /\ captured \in 0..MaxChunks
      /\ buffered <= written
      /\ InRun => delivered + buffered = written
      /\ InRun /\ (flags.return_output \/ op = "scp") => captured + buffered = written
    Rest ==
      /\ op \in Ops /\ flags \in CallFlags /\ phase \in {1, 2}
      /\ child \in {"none", "running", "exited"} /\ status \in {0, 1}
      /\ signalled \in BOOLEAN /\ eof \in BOOLEAN /\ lost \in BOOLEAN
      /\ line \in BOOLEAN /\ pc \in {"idle", "spawned", "read", "done"}
      /\ result \in {"none"} \cup Returns \cup Raises
      /\ (pc = "done") = (result # "none")
      /\ result \in Returns => eof /\ buffered = 0
      /\ pc = "idle" => (child = "none" /\ phase = 1 /\ written = 0
                          /\ delivered = 0 /\ captured = 0)
<1>1. CASE Start
  <2>1. Num'
    BY <1>1 DEF Start, Fresh, Num
  <2>2. Rest'
    BY <1>1 DEF Start, Fresh, Rest
  <2>3. QED
    BY <2>1, <2>2, Zenon DEF Num, Rest
<1>2. CASE Resume
  <2>1. Num'
    BY <1>2 DEF Resume, Finish, AtEof, Fresh, Unchanged_Child, Num
  <2>2. Rest'
    BY <1>2 DEF Resume, Finish, AtEof, Fresh, Unchanged_Child, ReturnCode, Rest
  <2>3. QED
    BY <2>1, <2>2, Zenon DEF Num, Rest
<1>3. CASE ReadDone
  <2>1. Num'
    <3>1. CASE op = "scp" /\ phase = 1
      <4>1. written' = 0 /\ buffered' = 0 /\ ~InRun'
        BY <1>3, <3>1 DEF ReadDone, Finish, Fresh
      <4>2. delivered' = delivered + buffered /\ captured' = captured + buffered
        BY <1>3, <3>1 DEF ReadDone
      <4>3. QED
        BY <4>1, <4>2, <3>1 DEF Num
    <3>2. CASE ~(op = "scp" /\ phase = 1)
      <4>1. /\ written' = written /\ buffered' = 0
            /\ op' = op /\ phase' = phase /\ flags' = flags
        BY <1>3, <3>2 DEF ReadDone, Finish, Unchanged_Child
      <4>2. /\ delivered' = IF InRun THEN delivered + buffered ELSE delivered
            /\ captured' = IF InRun /\ (flags.return_output \/ op = "scp")
                             THEN captured + buffered ELSE captured
        BY <1>3 DEF ReadDone
      <4>3. QED
        BY <4>1, <4>2 DEF Num
    <3>3. QED
      BY <3>1, <3>2
  <2>2. Rest'
    BY <1>3 DEF ReadDone, Finish, Fresh, Unchanged_Child, ReturnCode, Rest
  <2>3. QED
    BY <2>1, <2>2, Zenon DEF Num, Rest
<1>4. CASE CancelSpawn
  BY <1>4 DEF CancelSpawn
<1>5. CASE CancelRead
  BY <1>5 DEF CancelRead
<1>6. CASE Write
  BY <1>6 DEF Write
<1>7. CASE CloseStdout
  BY <1>7 DEF CloseStdout
<1>8. CASE Exit
  BY <1>8 DEF Exit
<1>9. CASE ConnectionLost
  BY <1>9 DEF ConnectionLost
<1>10. CASE Finished \/ UNCHANGED vars
  BY <1>10 DEF Finished, vars
<1>11. QED
  BY <1>1, <1>2, <1>3, <1>4, <1>5, <1>6, <1>7, <1>8, <1>9, <1>10
  DEF Next, Loop, Cancel, Child

(* IInv holds in every reachable state.                                     *)
THEOREM IInvHolds == Spec => []IInv
  BY IInvInit, IInvStep, PTL DEF Spec

(* The variables keep their types for every bound and set of flags.       *)
THEOREM TypeCorrect == Spec => []TypeOK
<1>1. IInv => TypeOK
  BY DEF IInv
<1>2. QED
  BY <1>1, IInvHolds, PTL

(* When run or scp_get returns normally, every chunk the child wrote went *)
(* to self.cb and, with return_output, into the returned output: the      *)
(* read loop never stops before the EOF.                                   *)
THEOREM OutputComplete == Spec => []OutputCompleteAtReturn
<1>1. IInv => OutputCompleteAtReturn
  BY DEF IInv, TypeOK, OutputCompleteAtReturn, InRun
<1>2. QED
  BY <1>1, IInvHolds, PTL

===============================================================================
