------------------------------ MODULE MCAsyncSSH ------------------------------
(* Model: the three kinds of call the provider makes -- a plain command   *)
(* (create, clone, destroy, wget), an existence probe (exist, the         *)
(* shutdown poll: raise_on_error=False) and a captured one (list_files,   *)
(* get_ip: return_output=True) -- and scp_get.                             *)
EXTENDS AsyncSSH, TLC

MCPlain == [return_output |-> FALSE, raise_on_error |-> TRUE]
MCProbe == [return_output |-> FALSE, raise_on_error |-> FALSE]
MCCapture == [return_output |-> TRUE, raise_on_error |-> TRUE]

MCFlags == {MCPlain, MCProbe, MCCapture}
MCPlainOnly == {MCPlain}
MCCaptureOnly == {MCCapture}
===============================================================================
