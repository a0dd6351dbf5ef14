--------------------------- MODULE PolicyAnalyzer ---------------------------
(***************************************************************************)
(* What --check-config says about the rules of a policy (the checks of     *)
(* policy_analyzer.cpp that read the acl section), next to what permit()   *)
(* does with the same rules.  A finding is a warning: it changes neither   *)
(* the exit status nor any decision, so there are no actions here.         *)
(***************************************************************************)
EXTENDS PermissionChecker

(* What Config::load derives from a text is the same wherever the text     *)
(* stands: uid and gid of an identity, uid of a target (one state of the   *)
(* user database), and whether an argument is a pattern.                   *)
ASSUME DerivedFromText ==
    \A rs \in Policies : \A i, j \in 1..Len(rs) :
        /\ rs[i].ident = rs[j].ident =>
             rs[i].ident_uid = rs[j].ident_uid /\ rs[i].ident_gid = rs[j].ident_gid
        /\ rs[i].target = rs[j].target => rs[i].target_uid = rs[j].target_uid
        /\ rs[i].cmdargs = rs[j].cmdargs => rs[i].pattern = rs[j].pattern

check_empty_acl(rs) == IF rs = <<>> THEN {<<"empty">>} ELSE {}

(* Mutated form: the target of the rules is not compared. *)
SameButTarget(r, s) == r.ident = s.ident /\ r.cmd = s.cmd /\ r.action = s.action
(* The comparison of check_redundant_rules: arguments, options, profile    *)
(* and environment of the rules are not looked at.                         *)
Same(r, s) ==
    /\ r.ident = s.ident /\ r.cmd = s.cmd
    /\ r.action = s.action /\ r.target = s.target
check_redundant_rules(rs) ==
    { <<"redundant", x[1], x[2]>> :
        x \in { y \in (1..Len(rs)) \X (1..Len(rs)) : y[1] < y[2] /\ Same(rs[y[1]], rs[y[2]]) } }

check_open_permissions(rs) ==
    { <<"open", k>> : k \in { j \in 1..Len(rs) : rs[j].action = "PERMIT" /\ rs[j].cmd = NoText } }

analyze(rs) == check_empty_acl(rs) \cup check_redundant_rules(rs) \cup check_open_permissions(rs)

(***************************************************************************)
(* Properties                                                              *)
(***************************************************************************)

(* What the warnings are good for.  A request is granted only by a policy  *)
(* that is not called empty.  Of a pair called redundant, the later rule   *)
(* never grants anything, whoever asks, if the earlier one has no          *)
(* arguments or the same ones: an administrator may delete it.  And a rule *)
(* that grants without being called open restricts its user to the command *)
(* it names, under whatever name it was called.                            *)
WarningsCanBeTrusted ==
    verdict # <<>> /\ verdict.at # 0 =>
        LET k == verdict.at
            r == rules[k]
        IN  /\ <<"empty">> \notin analyze(rules)
            /\ \A i \in 1..(k - 1) :
                 <<"redundant", i, k>> \in analyze(rules) =>
                     rules[i].cmdargs \notin {<<>>, r.cmdargs}
            /\ <<"open", k>> \notin analyze(rules) =>
                 CommandOf(caller, r) = canonical_command_for_match(verdict.req.command)
====
