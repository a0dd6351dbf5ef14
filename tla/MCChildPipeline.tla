-------------------------- MODULE MCChildPipeline --------------------------
(***************************************************************************)
(* ChildPipeline for TLC.  Every combination of profile switches, with the *)
(* root and an ordinary target, and small environments and descriptor      *)
(* tables that contain each case once.                                     *)
(***************************************************************************)
EXTENDS ChildPipeline

CONSTANTS RawEnvironments, Tables

Empty == [k \in Keys |-> 0]
Once  == [k \in Keys |-> IF k \in {"LOGNAME", "SHELL"} THEN 0 ELSE 1]
Twice == [Once EXCEPT !["PATH"] = 2]
OnceOnly == {Empty, Once}
WithDuplicates == {Once, Twice}

(* Descriptors inherited: the standard ones, 4 and 5; standard input       *)
(* closed and 3 in use.  The soft limit is 5.                              *)
SomeTables == {{0, 1, 2, 4, 5}, {1, 2, 3}}
OneTable   == {{0, 1, 2}}

Confs == [retain : BOOLEAN, seccomp : BOOLEAN, limits : BOOLEAN, scrub : BOOLEAN,
          fullenv : {FALSE}, mode : Modes]
MCJobs ==
    { j \in [caller : 0..2, uid : {0, 2}, gid : {1, 2}, groups : {{}, {2, 3}},
             named : BOOLEAN, conf : Confs, unconfined : BOOLEAN, seccompOn : {TRUE},
             keepenv : BOOLEAN, home : {FALSE}, login : BOOLEAN,
             envlist : {{}, {"PATH"}}, raw : RawEnvironments,
             open : Tables, lowLimits : BOOLEAN, soft : {5}] :
        /\ j.envlist # {} => ~j.lowLimits
        /\ ~j.named => j.conf = [retain |-> FALSE, seccomp |-> TRUE, limits |-> TRUE,
                                 scrub |-> TRUE, fullenv |-> FALSE, mode |-> "blacklist"] }
====
