------------------------ MODULE ChildPipelineProofs ------------------------
(***************************************************************************)
(* Proofs about ChildPipeline, for all jobs and any number of descriptors. *)
(*                                                                         *)
(* The stages run in one order, so what a stage needs and what it leaves   *)
(* behind is a fact about the place reached: the inductive invariant says, *)
(* stage by stage, what the kernel state is from there on.                 *)
(***************************************************************************)
EXTENDS ChildPipeline, TLAPS

(* The stages that follow "groups", "gid", ... up to the running command.  *)
(* A child that exited or was killed is not among them.                    *)
FromExec   == {"exec", "running"}
FromConfine == FromExec \cup {"confine"}
FromDescriptors == FromConfine \cup {"descriptors"}
FromLimits == FromDescriptors \cup {"limits"}
FromEnvironment == FromLimits \cup {"environment"}
FromDrop   == FromEnvironment \cup {"drop"}
FromUid    == FromDrop \cup {"uid"}
FromGid    == FromUid \cup {"gid"}
FromGroups == FromGid \cup {"groups"}
BeforeUid  == {"signals", "prepare", "groups", "gid", "uid"}

(***************************************************************************)
(* The inductive invariant                                                 *)
(***************************************************************************)

(* Until setuid() the child is root with every capability: this is why the *)
(* three identity calls are permitted.                                     *)
Privileged == stage \in BeforeUid => caps = Caps

(* Each identity call leaves the target's value behind for good. *)
IdentityKept ==
    /\ stage \in FromGid => (job.groups # {} => groups = job.groups)
    /\ stage \in FromUid => gid = job.gid
    /\ stage \in FromDrop => ruid = job.uid /\ euid = job.uid /\ suid = job.uid

(* On the restricted tier the capabilities are gone after the drop and, by *)
(* no_new_privs, do not come back.                                         *)
ConfinementKept ==
    ~profile.retain =>
        /\ stage \in FromEnvironment => caps = {}
        /\ stage \in FromExec =>
             /\ nnp /\ profile.mode # "unknown"
             /\ filter = Filter(job, profile)

DescriptorsKept ==
    stage \in FromConfine /\ ~profile.retain =>
        /\ exefd = 3
        /\ \A f \in Fds : f > 3 /\ fds[f] # "closed" => ~ranged /\ f >= job.soft

(* The entries kept are those of the filter, and so is what came of them.  *)
EnvironmentKept ==
    /\ stage \in FromGroups => saved = sanitize_environment(job, profile)
    /\ stage \in FromLimits =>
         \A k \in Keys : /\ env[k] = "caller" => Keeps(job, profile, k)
                         /\ job.raw[k] <= 1 /\ build_environment(job, profile, k) # "unset"
                              => env[k] = build_environment(job, profile, k)

(* A child that gave up had a reason outside the pipeline. *)
Inv ==
    /\ TypeOK
    /\ Privileged
    /\ IdentityKept
    /\ ConfinementKept
    /\ DescriptorsKept
    /\ EnvironmentKept
    /\ OrderWorks

(***************************************************************************)
(* The stages                                                              *)
(***************************************************************************)

(* Where Command::execute goes from each stage, and the places there are.  *)
LEMMA StageFacts ==
    /\ Order["signals"] = "prepare" /\ Order["prepare"] = "groups"
    /\ Order["groups"] = "gid" /\ Order["gid"] = "uid" /\ Order["uid"] = "drop"
    /\ Order["drop"] = "environment" /\ Order["environment"] = "limits"
    /\ Order["limits"] = "descriptors" /\ Order["descriptors"] = "confine"
    /\ Order["confine"] = "exec"
    /\ Stages = {"signals", "prepare", "groups", "gid", "uid", "drop", "environment",
                 "limits", "descriptors", "confine", "exec", "running", "exited", "killed"}
BY DEF Order, Stages

(* The job, the parent's, never changes; what resolve_profile() and the    *)
(* filter return has the right type.                                       *)
LEMMA Resolved ==
    ASSUME NEW j \in Job, NEW pr \in Profile
    PROVE  /\ resolve_profile(j) \in Profile
           /\ sanitize_environment(j, pr) \in [Keys -> Nat]
<1>1. System \in Profile
  BY DEF System, Profile, Modes
<1>2. j.conf \in Profile /\ j.unconfined \in BOOLEAN /\ j.raw \in [Keys -> Nat]
  BY DEF Job
<1>3. resolve_profile(j) \in Profile
  BY <1>1, <1>2 DEF resolve_profile, Profile
<1>4. sanitize_environment(j, pr) \in [Keys -> Nat]
  BY <1>2 DEF sanitize_environment
<1> QED
  BY <1>3, <1>4

(* The ids of a job are numbers. *)
LEMMA Ids ==
    ASSUME NEW j \in Job
    PROVE  j.uid \in Nat /\ j.gid \in Nat /\ j.groups \subseteq Nat
BY DEF Job

(* Types survive every step; each action is looked at alone. *)
LEMMA TypeStep ==
    ASSUME TypeOK, [Next]_vars
    PROVE  TypeOK'
<1> USE StageFacts DEF TypeOK, identity, Advance, Die
<1>1. job \in Job
  BY JobsAssumption
<1>2. CASE reset_child_signals_and_umask
  BY <1>2 DEF reset_child_signals_and_umask
<1>3. CASE Prepare
  <2>1. profile' \in Profile
    BY <1>1, <1>3, Resolved DEF Prepare
  <2>2. saved' \in [Keys -> Nat]
    BY <1>1, <1>3, <2>1, Resolved DEF Prepare
  <2> QED
    BY <1>3, <2>1, <2>2 DEF Prepare
<1>4. CASE SetGroups
  <2>1. groups' \subseteq Nat
    BY <1>1, <1>4, Ids DEF SetGroups
  <2> QED
    BY <1>4, <2>1 DEF SetGroups
<1>5. CASE SetGid
  <2>1. {ruid', euid', suid', gid'} \subseteq Nat
    BY <1>1, <1>5, Ids DEF SetGid
  <2> QED
    BY <1>5, <2>1 DEF SetGid
<1>6. CASE SetUid
  <2>1. ruid' \in Nat /\ euid' \in Nat /\ suid' \in Nat
    BY <1>1, <1>6, Ids DEF SetUid, Assigned
  <2>2. caps' \subseteq Caps
    BY <1>6 DEF SetUid
  <2> QED
    BY <1>6, <2>1, <2>2 DEF SetUid
<1>7. CASE apply_capability_drop
  BY <1>7 DEF apply_capability_drop
<1>8. CASE apply_environment
  <2>1. \A k \in Keys : build_environment(job, profile, k) \in Sources \cup {"unset"}
    BY DEF build_environment, Sources
  <2>2. env' \in [Keys -> Sources \cup {"unset"}]
    BY <1>8, <2>1 DEF apply_environment, Sources
  <2> QED
    BY <1>8, <2>2 DEF apply_environment
<1>9. CASE SetLimits
  BY <1>9 DEF SetLimits
<1>10. CASE close_fds
  <2>1. 3 \in Fds
    BY JobsAssumption DEF Fds
  <2>2. Moved \in [Fds -> {"closed", "open", "exe"}] /\ Moved[3] = "exe"
    BY <2>1 DEF Moved
  <2>3. \A whole \in BOOLEAN : ~Closes(3, whole)
    BY DEF Closes
  <2>4. fds' \in [Fds -> {"closed", "open", "exe"}] /\ exefd' \in Fds /\ fds'[exefd'] = "exe"
    BY <1>10, <2>1, <2>2, <2>3 DEF close_fds
  <2> QED
    BY <1>10, <2>4 DEF close_fds
<1>11. CASE apply_kernel_confinement
  <2>1. Filter(job, profile) \in {"none", "blacklist", "allowlist"}
    BY DEF Filter
  <2>2. SetsNoNewPrivs(profile) \in BOOLEAN
    BY DEF SetsNoNewPrivs
  <2> QED
    BY <1>11, <2>1, <2>2 DEF apply_kernel_confinement
<1>12. CASE do_exec
  BY <1>12 DEF do_exec, Gained
<1>13. CASE Killed
  BY <1>13 DEF Killed
<1>14. CASE UNCHANGED vars
  BY <1>14 DEF vars
<1> QED
  BY <1>2, <1>3, <1>4, <1>5, <1>6, <1>7, <1>8, <1>9, <1>10, <1>11, <1>12, <1>13, <1>14 DEF Next

(* Nothing before setuid() takes a capability away. *)
LEMMA PrivilegedStep ==
    ASSUME TypeOK, Privileged, [Next]_vars
    PROVE  Privileged'
<1> USE StageFacts DEF Privileged, BeforeUid, TypeOK, identity, Advance, Die
<1>1. CASE reset_child_signals_and_umask
  BY <1>1 DEF reset_child_signals_and_umask
<1>2. CASE Prepare
  BY <1>2 DEF Prepare
<1>3. CASE SetGroups
  BY <1>3 DEF SetGroups
<1>4. CASE SetGid
  BY <1>4 DEF SetGid
<1>5. CASE SetUid
  BY <1>5 DEF SetUid
<1>6. CASE apply_capability_drop
  BY <1>6 DEF apply_capability_drop
<1>7. CASE apply_environment
  BY <1>7 DEF apply_environment
<1>8. CASE SetLimits
  BY <1>8 DEF SetLimits
<1>9. CASE close_fds
  BY <1>9 DEF close_fds
<1>10. CASE apply_kernel_confinement
  BY <1>10 DEF apply_kernel_confinement
<1>11. CASE do_exec
  BY <1>11 DEF do_exec
<1>12. CASE Killed
  BY <1>12 DEF Killed
<1>13. CASE UNCHANGED vars
  BY <1>13 DEF vars
<1> QED
  BY <1>1, <1>2, <1>3, <1>4, <1>5, <1>6, <1>7, <1>8, <1>9, <1>10, <1>11, <1>12, <1>13 DEF Next

(* The three identity calls are the only ones that touch an id, and a     *)
(* failure of one ends the child.  setuid() sets all three uids because    *)
(* the child still has CAP_SETUID.                                         *)
LEMMA IdentityStep ==
    ASSUME TypeOK, Privileged, IdentityKept, [Next]_vars
    PROVE  IdentityKept'
<1> USE StageFacts DEF IdentityKept, TypeOK, FromGid, FromUid, FromDrop, FromEnvironment, FromLimits,
    FromDescriptors, FromConfine, FromExec, identity, Advance, Die
<1>1. CASE reset_child_signals_and_umask
  BY <1>1 DEF reset_child_signals_and_umask
<1>2. CASE Prepare
  BY <1>2 DEF Prepare
<1>3. CASE SetGroups
  BY <1>3 DEF SetGroups
<1>4. CASE SetGid
  BY <1>4 DEF SetGid
<1>5. CASE SetUid
  <2>1. "CAP_SETUID" \in caps
    BY <1>5 DEF SetUid, Privileged, BeforeUid, Caps
  <2> QED
    BY <1>5, <2>1 DEF SetUid, Assigned
<1>6. CASE apply_capability_drop
  BY <1>6 DEF apply_capability_drop
<1>7. CASE apply_environment
  BY <1>7 DEF apply_environment
<1>8. CASE SetLimits
  BY <1>8 DEF SetLimits
<1>9. CASE close_fds
  BY <1>9 DEF close_fds
<1>10. CASE apply_kernel_confinement
  BY <1>10 DEF apply_kernel_confinement
<1>11. CASE do_exec
  BY <1>11 DEF do_exec
<1>12. CASE Killed
  BY <1>12 DEF Killed
<1>13. CASE UNCHANGED vars
  BY <1>13 DEF vars
<1> QED
  BY <1>1, <1>2, <1>3, <1>4, <1>5, <1>6, <1>7, <1>8, <1>9, <1>10, <1>11, <1>12, <1>13 DEF Next

(* After the drop no capability comes back; no_new_privs and the filter    *)
(* are set in the one stage before fexecve(), or the child ends there.     *)
LEMMA ConfinementStep ==
    ASSUME TypeOK, ConfinementKept, [Next]_vars
    PROVE  ConfinementKept'
<1> USE StageFacts DEF ConfinementKept, TypeOK, FromEnvironment, FromLimits, FromDescriptors,
    FromConfine, FromExec, identity, Advance, Die
<1>1. CASE reset_child_signals_and_umask
  BY <1>1 DEF reset_child_signals_and_umask
<1>2. CASE Prepare
  BY <1>2 DEF Prepare
<1>3. CASE SetGroups
  BY <1>3 DEF SetGroups
<1>4. CASE SetGid
  BY <1>4 DEF SetGid
<1>5. CASE SetUid
  BY <1>5 DEF SetUid
<1>6. CASE apply_capability_drop
  BY <1>6 DEF apply_capability_drop
<1>7. CASE apply_environment
  BY <1>7 DEF apply_environment
<1>8. CASE SetLimits
  BY <1>8 DEF SetLimits
<1>9. CASE close_fds
  BY <1>9 DEF close_fds
<1>10. CASE apply_kernel_confinement
  <2>1. UNCHANGED <<job, profile, caps>> /\ stage = "confine" /\ stage' \in {"exec", "exited"}
    BY <1>10 DEF apply_kernel_confinement
  <2>2. ASSUME ~profile.retain, stage' = "exec"
        PROVE  nnp' /\ profile.mode # "unknown" /\ filter' = Filter(job, profile)
    BY <1>10, <2>2 DEF apply_kernel_confinement, SetsNoNewPrivs, FailsClosed
  <2> QED
    BY <2>1, <2>2
<1>11. CASE do_exec
  BY <1>11 DEF do_exec
<1>12. CASE Killed
  BY <1>12 DEF Killed
<1>13. CASE UNCHANGED vars
  BY <1>13 DEF vars
<1> QED
  BY <1>1, <1>2, <1>3, <1>4, <1>5, <1>6, <1>7, <1>8, <1>9, <1>10, <1>11, <1>12, <1>13 DEF Next

(* Only the scrub changes the descriptor table. *)
LEMMA DescriptorsStep ==
    ASSUME TypeOK, DescriptorsKept, [Next]_vars
    PROVE  DescriptorsKept'
<1> USE StageFacts DEF DescriptorsKept, TypeOK, FromConfine, FromExec, identity, Advance, Die
<1>1. CASE reset_child_signals_and_umask
  BY <1>1 DEF reset_child_signals_and_umask
<1>2. CASE Prepare
  BY <1>2 DEF Prepare
<1>3. CASE SetGroups
  BY <1>3 DEF SetGroups
<1>4. CASE SetGid
  BY <1>4 DEF SetGid
<1>5. CASE SetUid
  BY <1>5 DEF SetUid
<1>6. CASE apply_capability_drop
  BY <1>6 DEF apply_capability_drop
<1>7. CASE apply_environment
  BY <1>7 DEF apply_environment
<1>8. CASE SetLimits
  BY <1>8 DEF SetLimits
<1>9. CASE close_fds
  <2>1. UNCHANGED <<job, profile>> /\ stage = "descriptors" /\ stage' \in {"confine", "exited"}
    BY <1>9 DEF close_fds
  <2>2. ASSUME ~profile.retain, stage' = "confine"
        PROVE  /\ exefd' = 3
               /\ \A f \in Fds : f > 3 /\ fds'[f] # "closed" => ~ranged' /\ f >= job.soft
    <3>1. job.soft \in Nat /\ Fds \subseteq Nat
      BY JobsAssumption DEF Job, Fds
    <3>2. PICK whole \in BOOLEAN :
            /\ fds' = [f \in Fds |-> IF Closes(f, whole) THEN "closed" ELSE Moved[f]]
            /\ ranged' = whole
      BY <1>9, <2>2 DEF close_fds
    <3>3. exefd' = 3
      BY <1>9, <2>2 DEF close_fds
    <3> QED
      BY <3>1, <3>2, <3>3 DEF Closes
  <2> QED
    BY <2>1, <2>2
<1>10. CASE apply_kernel_confinement
  BY <1>10 DEF apply_kernel_confinement
<1>11. CASE do_exec
  BY <1>11 DEF do_exec
<1>12. CASE Killed
  BY <1>12 DEF Killed
<1>13. CASE UNCHANGED vars
  BY <1>13 DEF vars
<1> QED
  BY <1>1, <1>2, <1>3, <1>4, <1>5, <1>6, <1>7, <1>8, <1>9, <1>10, <1>11, <1>12, <1>13 DEF Next

(* The environment is computed once, from the entries that were kept. *)
LEMMA EnvironmentStep ==
    ASSUME TypeOK, EnvironmentKept, [Next]_vars
    PROVE  EnvironmentKept'
<1> USE StageFacts DEF EnvironmentKept, TypeOK, FromGroups, FromGid, FromUid, FromDrop, FromEnvironment,
    FromLimits, FromDescriptors, FromConfine, FromExec, identity, Advance, Die
<1>1. CASE reset_child_signals_and_umask
  BY <1>1 DEF reset_child_signals_and_umask
<1>2. CASE Prepare
  <2>1. saved' = sanitize_environment(job, profile') /\ UNCHANGED job /\ stage' = "groups"
    BY <1>2 DEF Prepare
  <2> QED
    BY <2>1 DEF sanitize_environment, Keeps, Sanitized
<1>3. CASE SetGroups
  BY <1>3 DEF SetGroups
<1>4. CASE SetGid
  BY <1>4 DEF SetGid
<1>5. CASE SetUid
  BY <1>5 DEF SetUid
<1>6. CASE apply_capability_drop
  BY <1>6 DEF apply_capability_drop
<1>7. CASE apply_environment
  <2>1. /\ UNCHANGED <<job, profile, saved>> /\ stage' = "limits"
        /\ saved = sanitize_environment(job, profile)
    BY <1>7 DEF apply_environment
  <2>2. job.raw \in [Keys -> Nat]
    BY JobsAssumption DEF Job
  <2>3. ASSUME NEW k \in Keys
        PROVE  /\ env'[k] = "caller" => Keeps(job, profile, k)
               /\ job.raw[k] <= 1 /\ build_environment(job, profile, k) # "unset"
                    => env'[k] = build_environment(job, profile, k)
    <3>1. saved[k] = IF Keeps(job, profile, k) THEN job.raw[k] ELSE 0
      BY <2>1 DEF sanitize_environment
    <3>2. build_environment(job, profile, k) # "caller"
      BY DEF build_environment
    <3> DEFINE b == build_environment(job, profile, k)
    <3>3. env'[k] = IF saved[k] > 1 THEN "caller" ELSE IF b # "unset" THEN b
                    ELSE IF saved[k] = 1 THEN "caller" ELSE "unset"
      BY <1>7 DEF apply_environment
    <3> QED
      BY <2>2, <3>1, <3>2, <3>3
  <2> QED
    BY <2>1, <2>3
<1>8. CASE SetLimits
  BY <1>8 DEF SetLimits
<1>9. CASE close_fds
  BY <1>9 DEF close_fds
<1>10. CASE apply_kernel_confinement
  BY <1>10 DEF apply_kernel_confinement
<1>11. CASE do_exec
  BY <1>11 DEF do_exec
<1>12. CASE Killed
  BY <1>12 DEF Killed
<1>13. CASE UNCHANGED vars
  BY <1>13 DEF vars, Sanitized
<1> QED
  BY <1>1, <1>2, <1>3, <1>4, <1>5, <1>6, <1>7, <1>8, <1>9, <1>10, <1>11, <1>12, <1>13 DEF Next

(* A child that ends before fexecve() ends in a call that failed for a     *)
(* reason of its own, or because a limit or the profile says so: what the  *)
(* stages take away is never what a later one needs.                       *)
LEMMA OrderStep ==
    ASSUME TypeOK, Privileged, OrderWorks, [Next]_vars
    PROVE  OrderWorks'
<1> USE StageFacts DEF OrderWorks, TypeOK, identity, Advance, Die
<1>1. CASE reset_child_signals_and_umask
  BY <1>1 DEF reset_child_signals_and_umask
<1>2. CASE Prepare
  BY <1>2 DEF Prepare
<1>3. CASE SetGroups
  <2>1. "CAP_SETGID" \in caps
    BY <1>3 DEF SetGroups, Privileged, BeforeUid, Caps
  <2> QED
    BY <1>3, <2>1 DEF SetGroups
<1>4. CASE SetGid
  <2>1. "CAP_SETGID" \in caps
    BY <1>4 DEF SetGid, Privileged, BeforeUid, Caps
  <2> QED
    BY <1>4, <2>1 DEF SetGid, MaySetGid
<1>5. CASE SetUid
  <2>1. "CAP_SETUID" \in caps
    BY <1>5 DEF SetUid, Privileged, BeforeUid, Caps
  <2> QED
    BY <1>5, <2>1 DEF SetUid, MaySetUid
<1>6. CASE apply_capability_drop
  BY <1>6 DEF apply_capability_drop
<1>7. CASE apply_environment
  BY <1>7 DEF apply_environment
<1>8. CASE SetLimits
  BY <1>8 DEF SetLimits, MayLimit
<1>9. CASE close_fds
  BY <1>9 DEF close_fds
<1>10. CASE apply_kernel_confinement
  BY <1>10 DEF apply_kernel_confinement, FailsClosed
<1>11. CASE do_exec
  BY <1>11 DEF do_exec
<1>12. CASE Killed
  BY <1>12 DEF Killed
<1>13. CASE UNCHANGED vars
  BY <1>13 DEF vars
<1> QED
  BY <1>1, <1>2, <1>3, <1>4, <1>5, <1>6, <1>7, <1>8, <1>9, <1>10, <1>11, <1>12, <1>13 DEF Next

(***************************************************************************)
(* The theorems                                                            *)
(***************************************************************************)

(* The child starts as a set-uid root process with everything still to do. *)
LEMMA Start == Init => Inv
<1> SUFFICES ASSUME Init PROVE Inv
  OBVIOUS
<1>1. job \in Job /\ job.conf \in Profile /\ job.caller \in Nat
  BY JobsAssumption DEF Init, Job
<1>2. TypeOK
  <2>1. exefd \in Fds /\ fds \in [Fds -> {"closed", "open", "exe"}] /\ fds[exefd] = "exe"
    BY DEF Init
  <2>2. saved \in [Keys -> Nat] /\ env \in [Keys -> Sources \cup {"unset"}]
    BY DEF Init
  <2>3. {ruid, euid, suid, gid} \subseteq Nat /\ groups \subseteq Nat
    BY <1>1 DEF Init
  <2> QED
    BY <1>1, <2>1, <2>2, <2>3, StageFacts DEF TypeOK, Init
<1>3. Privileged /\ IdentityKept /\ ConfinementKept /\ DescriptorsKept
  BY DEF Init, Privileged, IdentityKept, ConfinementKept, DescriptorsKept, FromGid, FromUid,
         FromDrop, FromEnvironment, FromLimits, FromDescriptors, FromConfine, FromExec
<1>4. EnvironmentKept /\ OrderWorks
  BY DEF Init, EnvironmentKept, OrderWorks, FromGroups, FromGid, FromUid,
         FromDrop, FromEnvironment, FromLimits, FromDescriptors, FromConfine, FromExec
<1> QED
  BY <1>2, <1>3, <1>4 DEF Inv

(* The inductive invariant holds of the child for every job. *)
LEMMA Invariance == Spec => []Inv
<1>1. Inv /\ [Next]_vars => Inv'
  BY TypeStep, PrivilegedStep, IdentityStep, ConfinementStep, DescriptorsStep,
     EnvironmentStep, OrderStep DEF Inv
<1> QED
  BY Start, <1>1, PTL DEF Spec

(* Every variable keeps its type, and the descriptor do_exec() is given is *)
(* at all times one of the executable.                                     *)
THEOREM TypeCorrect == Spec => []TypeOK
<1>1. Inv => TypeOK
  BY DEF Inv
<1> QED
  BY Invariance, <1>1, PTL

(* The command of Command::execute runs with the ids and groups of the     *)
(* target and with none of the caller's or root's: apply_privilege_        *)
(* transition() succeeded in full or do_exec() was not reached.            *)
THEOREM IdentityComplete == Spec => []RunsAsTarget
<1>1. Inv => RunsAsTarget
  BY DEF Inv, IdentityKept, RunsAsTarget, FromGid, FromUid, FromDrop, FromEnvironment,
         FromLimits, FromDescriptors, FromConfine, FromExec
<1> QED
  BY Invariance, <1>1, PTL

(* On the restricted tier execve() finds no capability and no_new_privs    *)
(* set, so it restores none, and the profile's filter is in force.         *)
THEOREM ConfinementComplete == Spec => []RunsConfined
<1>1. ASSUME Inv, stage = "running", ~profile.retain
      PROVE  /\ caps = {} /\ nnp /\ profile.mode # "unknown"
             /\ filter = Filter(job, profile)
  BY <1>1 DEF Inv, ConfinementKept, FromEnvironment, FromLimits, FromDescriptors,
              FromConfine, FromExec
<1>2. Inv => RunsConfined
  BY <1>1 DEF RunsConfined, Filter
<1> QED
  BY Invariance, <1>2, PTL

(* Above 3, the executable, the command inherits only what lies beyond the *)
(* soft limit, and that only without close_range().                        *)
THEOREM DescriptorsScrubbed == Spec => []OnlyPinnedDescriptor
<1>1. Inv => OnlyPinnedDescriptor
  BY DEF Inv, DescriptorsKept, OnlyPinnedDescriptor, FromConfine, FromExec
<1> QED
  BY Invariance, <1>1, PTL

(* Command::execute calls the stages in an order in which none of them     *)
(* makes a later one fail.                                                 *)
THEOREM OrderSound == Spec => []OrderWorks
<1>1. Inv => OrderWorks
  BY DEF Inv
<1> QED
  BY Invariance, <1>1, PTL

(* sanitize_environment() and build_environment() together let no          *)
(* dangerous variable through, and under the default only the whitelist.   *)
THEOREM EnvironmentSound == Spec => []EnvironmentFiltered
<1>1. ASSUME Inv, stage = "running", NEW k \in Keys, env[k] = "caller"
      PROVE  Keeps(job, profile, k)
  BY <1>1 DEF Inv, EnvironmentKept, FromLimits, FromDescriptors, FromConfine, FromExec
<1>2. Whitelist \cap Dangerous = {}
  BY DEF Whitelist, Dangerous
<1>3. Inv => EnvironmentFiltered
  BY <1>1, <1>2 DEF EnvironmentFiltered, Keeps
<1> QED
  BY Invariance, <1>3, PTL

(* Where no name occurs twice in the inherited environment, PATH, HOME,    *)
(* SHELL, USER and LOGNAME are what voix or the rule sets.  Run child_env  *)
(* shows that the hypothesis is needed: set_entry() overwrites the first   *)
(* entry of a name only.                                                   *)
THEOREM VariablesForced ==
    ASSUME \A j \in Jobs, k \in Keys : j.raw[k] <= 1
    PROVE  Spec => []ForcedVariables
<1>1. ASSUME Inv, stage = "running", NEW k \in Keys,
             build_environment(job, profile, k) # "unset"
      PROVE  env[k] = build_environment(job, profile, k)
  BY <1>1 DEF Inv, TypeOK, EnvironmentKept, FromLimits, FromDescriptors, FromConfine, FromExec
<1>2. {"PATH", "HOME", "SHELL", "USER", "LOGNAME"} \subseteq Keys
  BY DEF Keys, Whitelist
<1>3. Inv => ForcedVariables
  <2> SUFFICES ASSUME Inv, stage = "running" PROVE ForcedVariables
    BY DEF ForcedVariables
  <2>1. ~profile.fullenv /\ ~Sanitized(job, profile) => env["PATH"] \in {"config", "rule"}
    BY <1>1, <1>2 DEF build_environment, OfTarget
  <2>2. job.login => {env["HOME"], env["SHELL"]} \subseteq {"target", "rule"}
    BY <1>1, <1>2 DEF build_environment, OfTarget
  <2>3. {env["USER"], env["LOGNAME"]} \subseteq {"target", "rule"}
    BY <1>1, <1>2 DEF build_environment, OfTarget
  <2> QED
    BY <2>1, <2>2, <2>3 DEF ForcedVariables
<1> QED
  BY Invariance, <1>3, PTL
====
