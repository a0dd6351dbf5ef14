--------------------------- MODULE ChildPipeline ---------------------------
(***************************************************************************)
(* The child of Command::execute between fork() and fexecve()              *)
(* (command.cpp, Security::dropCapabilities and the seccomp functions of   *)
(* security.cpp).                                                          *)
(*                                                                         *)
(* The stages run once, in a fixed order, and each relies on what earlier  *)
(* ones left in the kernel: changing the identity needs capabilities that  *)
(* the next stage drops; capabilities that were dropped come back when     *)
(* uid 0 executes a file, unless no_new_privs is set; raising a hard limit *)
(* needs a capability; the descriptor scrub must not close the file that   *)
(* is about to be executed.  The module keeps that kernel state and lets   *)
(* every system call fail.                                                 *)
(***************************************************************************)
EXTENDS Integers

CONSTANTS
    Jobs,       \* what the parent hands to the child
    MaxFd       \* bound: descriptors are 0..MaxFd

Caps == {"CAP_SETUID", "CAP_SETGID", "CAP_SYS_RESOURCE", "CAP_OTHER"}
Fds  == 0..MaxFd

(* Environment variables, one name for each way the code treats them: in   *)
(* the whitelist (PATH, TERM), dangerous, set by voix, or none of these.   *)
Whitelist == {"PATH", "TERM"}
Dangerous == {"LD_PRELOAD"}
Keys      == Whitelist \cup Dangerous \cup {"USER", "LOGNAME", "HOME", "SHELL", "EDITOR"}
Sources   == {"caller", "config", "target", "rule"}     \* where a value comes from

Modes   == {"blacklist", "allowlist", "unknown"}
Profile == [retain : BOOLEAN,       \* retain_full_capabilities
            seccomp : BOOLEAN,      \* enable_seccomp
            limits : BOOLEAN,       \* enable_resource_limits
            scrub : BOOLEAN,        \* scrub_environment
            fullenv : BOOLEAN,      \* preserve_full_environment
            mode : Modes]           \* seccomp_mode ("unknown": load() refuses it, and so does the child)

(***************************************************************************)
(* A job: the caller's uid (and group), the target with the groups the     *)
(* parent resolved, the rule and options, and what the process inherited:  *)
(* the environment, the open descriptors, whether its hard limits are      *)
(* below those voix sets, and the soft limit on descriptors.               *)
(***************************************************************************)
Job == [caller : Nat, uid : Nat, gid : Nat, groups : SUBSET Nat,
        named : BOOLEAN,            \* the rule names a profile
        conf : Profile,             \* what get_profile() returns for it
        unconfined : BOOLEAN,       \* is_unconfined_target()
        seccompOn : BOOLEAN,        \* is_seccomp_enabled()
        keepenv : BOOLEAN, home : BOOLEAN, login : BOOLEAN,
        envlist : SUBSET Keys,      \* the names the rule sets
        raw : [Keys -> Nat],        \* how often a name occurs in the inherited environment
        open : SUBSET Fds, lowLimits : BOOLEAN, soft : Nat]

ASSUME JobsAssumption ==
    /\ MaxFd \in Nat /\ MaxFd > 3
    /\ Jobs \subseteq Job
    /\ \A j \in Jobs : j.open # Fds

VARIABLES
    job,        \* what the parent handed over
    stage,      \* the next stage, or how the child ended
    code,       \* its exit status
    profile,    \* the resolved security profile
    ruid, euid, suid, gid, groups,  \* identity
    caps,       \* permitted capabilities
    nnp,        \* no_new_privs
    filter,     \* the seccomp filter
    fds,        \* the descriptor table: "closed", "open" or "exe"
    exefd,      \* the descriptor do_exec() is given
    saved,      \* how often a name occurs among the entries that were kept
    env,        \* name -> where its value comes from
    ranged,     \* close_range() worked
    fault       \* history: a call failed for a reason outside the pipeline

identity == <<ruid, euid, suid, gid, groups>>
vars == <<job, stage, code, profile, ruid, euid, suid, gid, groups, caps, nnp,
          filter, fds, exefd, saved, env, ranged, fault>>

(* The order in which Command::execute calls the stages. *)
(* Mutated form: capabilities are dropped before the identity changes. *)
DropFirst == [signals |-> "prepare", prepare |-> "drop", drop |-> "groups",
              groups |-> "gid", gid |-> "uid", uid |-> "environment",
              environment |-> "limits", limits |-> "descriptors",
              descriptors |-> "confine", confine |-> "exec"]
Order == [signals |-> "prepare", prepare |-> "groups", groups |-> "gid",
          gid |-> "uid", uid |-> "drop", drop |-> "environment",
          environment |-> "limits", limits |-> "descriptors",
          descriptors |-> "confine", confine |-> "exec"]
Stages == DOMAIN Order \cup {"exec", "running", "exited", "killed"}

TypeOK ==
    /\ job \in Jobs
    /\ stage \in Stages
    /\ code \in {"none", "failure", "software", "config", "no-exec"}
    /\ (stage = "exited") = (code # "none")
    /\ profile \in Profile
    /\ {ruid, euid, suid, gid} \subseteq Nat /\ groups \subseteq Nat
    /\ caps \subseteq Caps
    /\ nnp \in BOOLEAN /\ ranged \in BOOLEAN /\ fault \in BOOLEAN
    /\ filter \in {"none", "blacklist", "allowlist"}
    /\ fds \in [Fds -> {"closed", "open", "exe"}]
    /\ exefd \in Fds /\ fds[exefd] = "exe"
    /\ saved \in [Keys -> Nat]
    /\ env \in [Keys -> Sources \cup {"unset"}]

(* voix is setuid root: it is the only installation that can load a        *)
(* configuration (module Config).  open() in the parent took the lowest    *)
(* free descriptor.                                                        *)
Init ==
    /\ job \in Jobs
    /\ stage = "signals" /\ code = "none"
    /\ profile = job.conf
    /\ ruid = job.caller /\ gid = job.caller /\ groups = {job.caller}
    /\ euid = 0 /\ suid = 0 /\ caps = Caps
    /\ nnp = FALSE /\ filter = "none" /\ ranged = FALSE /\ fault = FALSE
    /\ exefd \in Fds \ job.open /\ \A f \in Fds \ job.open : exefd <= f
    /\ fds = [f \in Fds |-> IF f = exefd THEN "exe"
                            ELSE IF f \in job.open THEN "open" ELSE "closed"]
    /\ saved = [k \in Keys |-> 0]
    /\ env = [k \in Keys |-> "unset"]

Advance == stage' = Order[stage] /\ UNCHANGED code
(* _exit(); e says that the cause was outside the pipeline. *)
Die(c, e) ==
    /\ stage' = "exited" /\ code' = c
    /\ fault' = (fault \/ e)

(***************************************************************************)
(* Signals, profile, environment snapshot                                  *)
(***************************************************************************)
reset_child_signals_and_umask ==
    /\ stage = "signals"
    /\ \/ Advance /\ UNCHANGED fault
       \/ Die("software", TRUE)
    /\ UNCHANGED <<job, profile, identity, caps, nnp, filter, fds, exefd, saved, env, ranged>>

System == [retain |-> TRUE, seccomp |-> FALSE, limits |-> FALSE, scrub |-> FALSE,
           fullenv |-> TRUE, mode |-> "blacklist"]
resolve_profile(j) ==
    [ (IF ~j.named /\ j.unconfined THEN System ELSE j.conf)
      EXCEPT !.fullenv = @ \/ j.unconfined ]

(* The caller's variables survive the filter of dangerous names. *)
Sanitized(j, pr) == ~pr.fullenv /\ (j.keepenv \/ ~pr.scrub)
(* Mutated form: keepenv means everything. *)
KeepsEverything(j, pr, k) == Sanitized(j, pr) \/ pr.fullenv \/ k \in Whitelist
Keeps(j, pr, k) ==
    \/ pr.fullenv
    \/ Sanitized(j, pr) /\ k \notin Dangerous
    \/ ~Sanitized(j, pr) /\ k \in Whitelist
sanitize_environment(j, pr) == [k \in Keys |-> IF Keeps(j, pr, k) THEN j.raw[k] ELSE 0]

Prepare ==
    /\ stage = "prepare"
    /\ profile' = resolve_profile(job)
    /\ saved' = sanitize_environment(job, profile')
    /\ Advance
    /\ UNCHANGED <<job, identity, caps, nnp, filter, fds, exefd, env, ranged, fault>>

(***************************************************************************)
(* apply_privilege_transition: setgroups unless the list is empty, setgid, *)
(* setuid, with the kernel's permission rules                              *)
(***************************************************************************)
(* Mutated form: setgroups() failing is ignored. *)
GroupsUnchecked ==
    /\ stage = "groups"
    /\ groups' \in IF "CAP_SETGID" \in caps /\ job.groups # {} THEN {groups, job.groups} ELSE {groups}
    /\ Advance /\ UNCHANGED fault
    /\ UNCHANGED <<job, profile, ruid, euid, suid, gid, caps, nnp, filter, fds, exefd,
                   saved, env, ranged>>
SetGroups ==
    /\ stage = "groups"
    /\ \/ /\ job.groups = {}
          /\ Advance /\ UNCHANGED <<groups, fault>>
       \/ /\ job.groups # {} /\ "CAP_SETGID" \in caps
          /\ groups' = job.groups
          /\ Advance /\ UNCHANGED fault
       \/ /\ job.groups # {}
          /\ Die("no-exec", "CAP_SETGID" \in caps) /\ UNCHANGED groups
    /\ UNCHANGED <<job, profile, ruid, euid, suid, gid, caps, nnp, filter, fds, exefd,
                   saved, env, ranged>>

MaySetGid == "CAP_SETGID" \in caps \/ gid = job.gid
SetGid ==
    /\ stage = "gid"
    /\ \/ /\ MaySetGid
          /\ gid' = job.gid
          /\ Advance /\ UNCHANGED fault
       \/ Die("no-exec", MaySetGid) /\ UNCHANGED gid
    /\ UNCHANGED <<job, profile, ruid, euid, suid, groups, caps, nnp, filter, fds, exefd,
                   saved, env, ranged>>

(* Without CAP_SETUID the kernel changes the effective uid only.  A        *)
(* process whose last uid 0 goes away loses its capabilities.              *)
MaySetUid == "CAP_SETUID" \in caps \/ job.uid \in {ruid, suid}
Assigned(id) == IF "CAP_SETUID" \in caps THEN job.uid ELSE id
SetUid ==
    /\ stage = "uid"
    /\ \/ /\ MaySetUid
          /\ euid' = job.uid /\ ruid' = Assigned(ruid) /\ suid' = Assigned(suid)
          /\ caps' = IF 0 \in {ruid, euid, suid} /\ 0 \notin {ruid', euid', suid'}
                     THEN {} ELSE caps
          /\ Advance /\ UNCHANGED fault
       \/ Die("no-exec", MaySetUid) /\ UNCHANGED <<ruid, euid, suid, caps>>
    /\ UNCHANGED <<job, profile, gid, groups, nnp, filter, fds, exefd, saved, env, ranged>>

apply_capability_drop ==
    /\ stage = "drop"
    /\ \/ /\ caps' = IF profile.retain THEN caps ELSE {}
          /\ Advance /\ UNCHANGED fault
       \/ ~profile.retain /\ Die("failure", TRUE) /\ UNCHANGED caps
    /\ UNCHANGED <<job, profile, identity, nnp, filter, fds, exefd, saved, env, ranged>>

(***************************************************************************)
(* build_environment and apply_environment.  Only entries of the same name *)
(* meet: set_entry() overwrites the first entry of its name or appends     *)
(* one, and of several entries setenv() leaves the last.  The rule's come  *)
(* after the identity's, which come after PATH.                            *)
(***************************************************************************)
(* Mutated form: only -H sets HOME. *)
HomeOnRequestOnly(j) ==
    {"USER", "LOGNAME"} \cup (IF j.home THEN {"HOME"} ELSE {})
                        \cup (IF j.login THEN {"SHELL"} ELSE {})
OfTarget(j) ==
    {"USER", "LOGNAME"} \cup (IF j.home \/ j.login THEN {"HOME"} ELSE {})
                        \cup (IF j.login THEN {"SHELL"} ELSE {})
(* What set_entry() is last called with for name k *)
build_environment(j, pr, k) ==
    IF k \in j.envlist THEN "rule"
    ELSE IF k \in OfTarget(j) THEN "target"
    ELSE IF k = "PATH" /\ ~pr.fullenv /\ ~Sanitized(j, pr) THEN "config"
    ELSE "unset"

apply_environment ==
    /\ stage = "environment"
    /\ env' = [k \in Keys |->
                 IF saved[k] > 1 THEN "caller"      \* the first was overwritten, not the last
                 ELSE IF build_environment(job, profile, k) # "unset"
                      THEN build_environment(job, profile, k)
                 ELSE IF saved[k] = 1 THEN "caller" ELSE "unset"]
    /\ Advance
    /\ UNCHANGED <<job, profile, identity, caps, nnp, filter, fds, exefd, saved, ranged, fault>>

(***************************************************************************)
(* Resource limits and descriptors                                         *)
(***************************************************************************)

(* setResourceLimits: raising a hard limit needs CAP_SYS_RESOURCE *)
MayLimit == ~job.lowLimits \/ "CAP_SYS_RESOURCE" \in caps
SetLimits ==
    /\ stage = "limits"
    /\ \/ /\ profile.limits => MayLimit
          /\ Advance /\ UNCHANGED fault
       \/ profile.limits /\ Die("no-exec", MayLimit)
    /\ UNCHANGED <<job, profile, identity, caps, nnp, filter, fds, exefd, saved, env, ranged>>

(* The executable moves to descriptor 3 and the rest is closed, by         *)
(* close_range() or up to the soft limit.                                  *)
(* Mutated form: the scrub starts one too late.                            *)
ClosesFromFive(f, whole) == f > 4 /\ (whole \/ f < job.soft)
Closes(f, whole) == f > 3 /\ (whole \/ f < job.soft)
(* Mutated form: the descriptor is closed after dup2() also when it is 3. *)
MovedAlways == [fds EXCEPT ![3] = "exe", ![exefd] = "closed"]
Moved == IF exefd = 3 THEN fds ELSE [fds EXCEPT ![3] = "exe", ![exefd] = "closed"]
close_fds ==
    /\ stage = "descriptors"
    /\ \/ /\ profile.retain
          /\ Advance /\ UNCHANGED <<fds, exefd, ranged, fault>>
       \/ /\ ~profile.retain
          /\ \E whole \in BOOLEAN :
               /\ fds' = [f \in Fds |-> IF Closes(f, whole) THEN "closed" ELSE Moved[f]]
               /\ ranged' = whole
          /\ exefd' = 3
          /\ Advance /\ UNCHANGED fault
       \/ /\ ~profile.retain /\ exefd # 3
          /\ Die("no-exec", TRUE) /\ UNCHANGED <<fds, exefd, ranged>>
    /\ UNCHANGED <<job, profile, identity, caps, nnp, filter, saved, env>>

(***************************************************************************)
(* apply_kernel_confinement                                                *)
(***************************************************************************)

(* Mutated form: no_new_privs only where a filter needs it. *)
OnlyForFilter(pr) == ~pr.retain /\ (pr.seccomp \/ pr.mode = "allowlist")
SetsNoNewPrivs(pr) == ~pr.retain
FailsClosed(pr) == pr.mode = "unknown"
Filter(j, pr) ==
    CASE pr.mode = "allowlist" -> "allowlist"
      [] pr.mode = "blacklist" /\ j.seccompOn /\ pr.seccomp -> "blacklist"
      [] OTHER -> "none"
apply_kernel_confinement ==
    /\ stage = "confine"
    /\ \/ /\ profile.retain
          /\ Advance /\ UNCHANGED <<nnp, filter, fault>>
       \/ /\ ~profile.retain /\ ~FailsClosed(profile)
          /\ nnp' = SetsNoNewPrivs(profile)
          /\ filter' = Filter(job, profile)
          /\ Advance /\ UNCHANGED fault
       \/ /\ ~profile.retain /\ FailsClosed(profile)
          /\ nnp' = SetsNoNewPrivs(profile)
          /\ Die("config", FALSE) /\ UNCHANGED filter
       \/ /\ ~profile.retain
          /\ \E set \in BOOLEAN : nnp' = set
          /\ Die("no-exec", TRUE) /\ UNCHANGED filter
    /\ UNCHANGED <<job, profile, identity, caps, fds, exefd, saved, env, ranged>>

(***************************************************************************)
(* do_exec: clear close-on-exec, fexecve().  The kernel gives uid 0 all    *)
(* capabilities and everyone else none (the file has no capabilities of    *)
(* its own); under no_new_privs nothing is gained.                         *)
(***************************************************************************)
Gained  == IF euid = 0 THEN Caps ELSE {}
do_exec ==
    /\ stage = "exec"
    /\ \/ /\ stage' = "running"
          /\ caps' = IF nnp THEN Gained \cap caps ELSE Gained
          /\ UNCHANGED <<code, fault>>
       \/ Die("no-exec", TRUE) /\ UNCHANGED caps
    /\ UNCHANGED <<job, profile, identity, nnp, filter, fds, exefd, saved, env, ranged>>

(* The caller's mask is back and every handler is SIG_DFL: a signal from   *)
(* the terminal kills the child in the middle of the pipeline.             *)
Killed ==
    /\ stage \in Stages \ {"signals", "running", "exited", "killed"}
    /\ stage' = "killed"
    /\ UNCHANGED <<job, code, profile, identity, caps, nnp, filter, fds, exefd, saved,
                   env, ranged, fault>>

Next ==
    \/ reset_child_signals_and_umask \/ Prepare
    \/ SetGroups \/ SetGid \/ SetUid \/ apply_capability_drop
    \/ apply_environment \/ SetLimits \/ close_fds
    \/ apply_kernel_confinement \/ do_exec \/ Killed

Spec == Init /\ [][Next]_vars

(***************************************************************************)
(* Properties                                                              *)
(***************************************************************************)

(* The command runs with the target's real, effective and saved uid and    *)
(* group, and with the target's supplementary groups whenever the parent   *)
(* could resolve them: no id of the caller or of root is left behind to    *)
(* return to.                                                              *)
RunsAsTarget ==
    stage = "running" =>
        /\ {ruid, euid, suid} = {job.uid} /\ gid = job.gid
        /\ job.groups # {} => groups = job.groups

(* On the restricted tier the running command has no capability, also when *)
(* it runs as uid 0, whose execve() would bring them all back, and it has  *)
(* the filter its profile asks for.                                        *)
RunsConfined ==
    stage = "running" /\ ~profile.retain =>
        /\ caps = {} /\ nnp
        /\ profile.mode # "unknown"
        /\ profile.mode = "allowlist" => filter = "allowlist"
        /\ profile.mode = "blacklist" /\ profile.seccomp /\ job.seccompOn =>
             filter = "blacklist"

(* On the restricted tier the command starts with at most the standard     *)
(* descriptors and the pinned executable on 3.  Only where close_range()   *)
(* is missing can a descriptor above the soft limit survive.               *)
OnlyPinnedDescriptor ==
    stage = "running" /\ ~profile.retain =>
        /\ exefd = 3
        /\ \A f \in Fds : f > 3 /\ fds[f] # "closed" => ~ranged /\ f >= job.soft

(* The order of the stages is never the reason for a failure: with known   *)
(* seccomp modes and hard limits that need not be raised, the child fails  *)
(* only when a system call does.                                           *)
OrderWorks ==
    stage = "exited" /\ ~job.lowLimits /\ profile.mode # "unknown" => fault

(* No dangerous variable of the caller reaches the command unless the      *)
(* profile preserves the full environment; under the default, nothing but  *)
(* the whitelist does.                                                     *)
EnvironmentFiltered ==
    stage = "running" /\ ~profile.fullenv =>
        \A k \in Keys : env[k] = "caller" =>
            k \notin Dangerous /\ (~Sanitized(job, profile) => k \in Whitelist)

(* "PATH overridden to trusted directories", "HOME/SHELL are always forced *)
(* for login shells": what voix sets is what the command sees, unless the  *)
(* rule's own entries say otherwise.                                       *)
ForcedVariables ==
    stage = "running" =>
        /\ ~profile.fullenv /\ ~Sanitized(job, profile) => env["PATH"] \in {"config", "rule"}
        /\ job.login => {env["HOME"], env["SHELL"]} \subseteq {"target", "rule"}
        /\ {env["USER"], env["LOGNAME"]} \subseteq {"target", "rule"}
====
