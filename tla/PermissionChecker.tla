------------------------- MODULE PermissionChecker -------------------------
(***************************************************************************)
(* The policy decision of Voix (permission_checker.cpp): permit(), which   *)
(* decides a request by the first rule that matches it, and                *)
(* list_permitted_entries(), which must tell a user what permit() would    *)
(* say without having a request: it compares the scopes of whole rules     *)
(* (scope_coverage) and keeps, drops or qualifies each permit.             *)
(*                                                                         *)
(* Texts (arguments, patterns, commands) are values; what a pattern        *)
(* matches and what a variable expands to are given by constants.          *)
(***************************************************************************)
EXTENDS Policy

CONSTANTS
    Policies,       \* the rule lists Config may have loaded
    Callers,        \* what get_user_by_name() may say of the caller
    NoIdentity,     \* the caller is not in the user database
    Requests,       \* [command, args, uid] handed to permit()
    Denote,         \* text -> the texts it matches when read as a pattern
    Subst,          \* (user name, text) -> the text with %u replaced
    Canonical       \* command text -> policy_path of resolve_executable()

Scope == [uid : Ids, command : AnyText, args : Seq(AnyText), pattern : BOOLEAN]
Caller == [name : Texts, uid : Ids, groups : SUBSET Ids]

(* A text without glob characters matches itself and nothing else. *)
ASSUME PolicyAssumption ==
    /\ Policies \subseteq Seq(Rule)
    /\ Callers \subseteq Caller /\ NoIdentity \notin Callers
    /\ Requests \subseteq [command : Texts, args : Seq(AnyText), uid : Ids]
    /\ Denote \in [AnyText -> SUBSET AnyText]
    /\ \A t \in AnyText \ Globs : Denote[t] = {t}
    /\ Subst \in [{c.name : c \in Callers} \X AnyText -> AnyText]
    /\ \A c \in Callers, t \in Texts : Subst[<<c.name, t>>] \in Texts
    /\ Canonical \in [Texts -> Texts]

VARIABLES
    caller,     \* the identity of the invoking user
    rules,      \* the loaded rules
    next,       \* list: the rule the loop is at
    denied,     \* list: denied_scopes, the deny rules met so far
    listed,     \* list: the entries kept so far
    verdict     \* permit: the last request and the position of its rule

vars == <<caller, rules, next, denied, listed, verdict>>

(***************************************************************************)
(* Matching one rule                                                       *)
(***************************************************************************)
canonical_command_for_match(t) == Canonical[t]
resolve_variables(c, t) == Subst[<<c.name, t>>]
match_pattern(pattern, text) == text \in Denote[pattern]

(* One argument, and the whole list *)
ArgMatches(pattern, a, text) == IF pattern THEN match_pattern(a, text) ELSE a = text
ArgsMatch(pattern, argv, texts) ==
    /\ Len(argv) = Len(texts)
    /\ \A i \in 1..Len(argv) : ArgMatches(pattern, argv[i], texts[i])

Expanded(c, argv) == [i \in 1..Len(argv) |-> resolve_variables(c, argv[i])]
CommandOf(c, r) == IF r.cmd = NoText THEN NoText
                   ELSE canonical_command_for_match(resolve_variables(c, r.cmd))

(* An empty command means any command with any arguments, an empty list of *)
(* arguments means any arguments.                                          *)
matchRule(r, c, q) ==
    /\ identity_matches(r, c)
    /\ rule_target_uid(r) = q.uid
    /\ r.cmd # NoText =>
         /\ CommandOf(c, r) = canonical_command_for_match(q.command)
         /\ r.cmdargs # <<>> => ArgsMatch(r.pattern, Expanded(c, r.cmdargs), q.args)

(***************************************************************************)
(* permit(): the first rule that matches decides                           *)
(***************************************************************************)

Decides(rs, c, q, k) ==
    /\ k \in 1..Len(rs)
    /\ matchRule(rs[k], c, q)
    /\ \A j \in 1..(k - 1) : ~matchRule(rs[j], c, q)

Permits(rs, c, q, k) == c # NoIdentity /\ Decides(rs, c, q, k) /\ rs[k].action = "PERMIT"

(***************************************************************************)
(* list_permitted_entries()                                                *)
(***************************************************************************)
normalize_scope(c, r) ==
    [uid |-> rule_target_uid(r), command |-> CommandOf(c, r),
     args |-> Expanded(c, r.cmdargs), pattern |-> r.pattern]

(* Where the arguments of two patterned rules cannot both be matched *)
ArgsDisjoint(d, p) ==
    CASE ~has_glob(d) /\ ~has_glob(p) -> d # p
      [] ~has_glob(d) /\ has_glob(p)  -> ~match_pattern(p, d)
      [] has_glob(d) /\ ~has_glob(p)  -> ~match_pattern(d, p)
      [] OTHER -> FALSE

(* How much of the permit's scope the earlier deny covers *)
args_coverage(deny, permit) ==
    LET All(Ok(_, _)) == \A i \in 1..Len(deny.args) : Ok(deny.args[i], permit.args[i]) IN
    CASE ~deny.pattern /\ ~permit.pattern -> IF deny.args = permit.args THEN "Full" ELSE "None"
      [] deny.pattern /\ ~permit.pattern  -> IF All(match_pattern) THEN "Full" ELSE "None"
      [] ~deny.pattern /\ permit.pattern  ->
           IF All(LAMBDA d, p : match_pattern(p, d)) THEN "Partial" ELSE "None"
      [] deny.pattern /\ permit.pattern   ->
           IF deny.args = permit.args THEN "Full"
           ELSE IF All(LAMBDA d, p : ~ArgsDisjoint(d, p)) THEN "Partial" ELSE "None"

(* Mutated form: a deny with arguments is taken to cover the permit of the *)
(* whole command.                                                          *)
CommandDecides(deny, permit) ==
    CASE deny.uid # permit.uid -> "None"
      [] deny.uid = permit.uid /\ deny.command = NoText -> "Full"
      [] deny.uid = permit.uid /\ deny.command # NoText /\ permit.command = NoText -> "Partial"
      [] OTHER -> IF deny.command = permit.command THEN "Full" ELSE "None"
(* Mutated form: a permit of every command is not seen to be restricted by *)
(* a deny of one command.                                                  *)
AnyCommandIsFree(deny, permit) ==
    CASE deny.uid # permit.uid -> "None"
      [] deny.uid = permit.uid /\ deny.command = NoText -> "Full"
      [] deny.uid = permit.uid /\ deny.command # NoText /\ deny.command # permit.command -> "None"
      [] OTHER -> IF deny.args = <<>> THEN "Full"
                  ELSE IF permit.args = <<>> THEN "Partial"
                  ELSE IF Len(deny.args) # Len(permit.args) THEN "None"
                  ELSE args_coverage(deny, permit)
scope_coverage(deny, permit) ==
    IF deny.uid # permit.uid THEN "None"
    ELSE IF deny.command = NoText THEN "Full"
    ELSE IF permit.command = NoText THEN "Partial"
    ELSE IF deny.command # permit.command THEN "None"
    ELSE IF deny.args = <<>> THEN "Full"
    ELSE IF permit.args = <<>> THEN "Partial"
    ELSE IF Len(deny.args) # Len(permit.args) THEN "None"
    ELSE args_coverage(deny, permit)

(* Some deny met so far covers the scope to this degree. *)
Met(cov, s) == \E i \in 1..Len(denied) : scope_coverage(denied[i], s) = cov

Entry == [at : Nat, conditional : BOOLEAN]

TypeOK ==
    /\ caller \in Callers \cup {NoIdentity}
    /\ rules \in Policies
    /\ next \in 1..(Len(rules) + 1)
    /\ denied \in Seq(Scope)
    /\ listed \in Seq(Entry)
    /\ \A i \in 1..Len(listed) : listed[i].at < next
    /\ verdict \in [req : Requests, at : Nat] \cup {<<>>}

Init ==
    /\ caller \in Callers \cup {NoIdentity}
    /\ rules \in Policies
    /\ next = 1 /\ denied = <<>> /\ listed = <<>>
    /\ verdict = <<>>

(* A rule for another user, and a rule whose target names nobody, are      *)
(* passed over.                                                            *)
(* Mutated form: the target of the rule is not looked at.                  *)
AppliesByIdentity(r) == identity_matches(r, caller)
Applies(r) == identity_matches(r, caller) /\ rule_target_uid(r) # NoId

(* One round of the loop *)
ListRule ==
    /\ caller # NoIdentity /\ next <= Len(rules)
    /\ next' = next + 1
    /\ LET r == rules[next]
           s == normalize_scope(caller, r)
       IN  \/ /\ ~Applies(r)
              /\ UNCHANGED <<denied, listed>>
           \/ /\ Applies(r) /\ r.action = "DENY"
              /\ denied' = Append(denied, s)
              /\ UNCHANGED listed
           \/ /\ Applies(r) /\ r.action = "PERMIT"
              /\ listed' = IF Met("Full", s) THEN listed
                           ELSE Append(listed, [at |-> next, conditional |-> Met("Partial", s)])
              /\ UNCHANGED denied
    /\ UNCHANGED <<caller, rules, verdict>>

(* permit() is asked about a request; 0 stands for nullopt. *)
Permit ==
    /\ verdict = <<>>
    /\ \E q \in Requests : \E k \in 0..Len(rules) :
         /\ IF k = 0 THEN \A j \in 1..Len(rules) : ~Permits(rules, caller, q, j)
                     ELSE Permits(rules, caller, q, k)
         /\ verdict' = [req |-> q, at |-> k]
    /\ UNCHANGED <<caller, rules, next, denied, listed>>

Next == ListRule \/ Permit

Spec == Init /\ [][Next]_vars

(***************************************************************************)
(* Properties                                                              *)
(***************************************************************************)
Listed(k, conditional) ==
    \E i \in 1..Len(listed) : listed[i] = [at |-> k, conditional |-> conditional]

(* What -l shows without the remark "partially restricted" is permitted:   *)
(* permit() refuses no request in the scope of such a rule.                *)
UnqualifiedIsPermitted ==
    verdict # <<>> /\ verdict.at = 0 =>
        \A k \in 1..Len(rules) :
            Listed(k, FALSE) => ~matchRule(rules[k], caller, verdict.req)

(* -l hides nothing: once the loop is over, the rule by which permit()     *)
(* grants a request is one of those listed.                                *)
GrantedIsListed ==
    verdict # <<>> /\ verdict.at # 0 /\ next = Len(rules) + 1 =>
        Listed(verdict.at, TRUE) \/ Listed(verdict.at, FALSE)
====
