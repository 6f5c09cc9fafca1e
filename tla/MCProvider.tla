------------------------------ MODULE MCProvider ------------------------------
(* Model: two hosts (three for the scheduler's loop); jobs asking for "base" *)
(* -- a VM named like its image, which get_vm's clone of the VM name      *)
(* happens to find -- and for "worker", a VM of image "base".               *)
EXTENDS Provider, TLC

CONSTANTS j1, j2

MCJobs == {j1, j2}
MCImages == {"base"}
MCVmImage == [n \in {"base", "worker"} |-> "base"]
MCRequestBase == [j \in MCJobs |-> <<"base">>]
MCRequestTwo == [j \in MCJobs |-> IF j = j1 THEN <<"base", "base">> ELSE <<"base">>]
MCRequestMixed == [j \in MCJobs |-> IF j = j1 THEN <<"base", "worker">> ELSE <<"base">>]
MCRequestWorker == [j \in MCJobs |-> IF j = j1 THEN <<"worker">> ELSE <<"base">>]
===============================================================================
