-------------------------- MODULE PermissionProofs --------------------------
(***************************************************************************)
(* Proofs about PermissionChecker for every policy, every caller and every *)
(* set of requests.  The argument rests on two facts about scope_coverage: *)
(* "Full" means that the deny matches whatever the permit matches, "None"  *)
(* that no request is matched by both.                                     *)
(***************************************************************************)
EXTENDS PolicyAnalyzer, TLAPS, WellFoundedInduction

(* The requests a normalized scope stands for *)
InScope(s, q) ==
    /\ s.uid = q.uid
    /\ s.command # NoText =>
         /\ s.command = canonical_command_for_match(q.command)
         /\ s.args # <<>> => ArgsMatch(s.pattern, s.args, q.args)

(***************************************************************************)
(* Scopes                                                                  *)
(***************************************************************************)

(* Variables expand to texts, and a text that is not empty to such a text. *)
LEMMA ResolvedType ==
    ASSUME NEW c \in Callers, NEW t \in AnyText
    PROVE  /\ resolve_variables(c, t) \in AnyText
           /\ t \in Texts => resolve_variables(c, t) \in Texts
<1>1. Subst \in [{x.name : x \in Callers} \X AnyText -> AnyText]
  BY PolicyAssumption
<1>2. <<c.name, t>> \in {x.name : x \in Callers} \X AnyText
  OBVIOUS
<1>3. Subst[<<c.name, t>>] \in AnyText
  BY <1>1, <1>2
<1> QED BY <1>3, PolicyAssumption DEF resolve_variables

(* A command that is not empty stays so. *)
LEMMA CommandType ==
    ASSUME NEW c \in Callers, NEW r \in Rule
    PROVE  /\ CommandOf(c, r) \in AnyText
           /\ (CommandOf(c, r) = NoText) <=> (r.cmd = NoText)
<1>1. r.cmd \in AnyText
  BY DEF Rule
<1>2. Canonical \in [Texts -> Texts] /\ NoText \notin Texts
  BY PolicyAssumption, VocabularyAssumption
<1>3. CASE r.cmd = NoText
  BY <1>3 DEF CommandOf, AnyText
<1>4. CASE r.cmd \in Texts
  <2>1. resolve_variables(c, r.cmd) \in Texts
    BY <1>4, ResolvedType DEF AnyText
  <2>2. Canonical[resolve_variables(c, r.cmd)] \in Texts
    BY <2>1, <1>2
  <2> QED BY <1>2, <1>4, <2>2 DEF CommandOf, canonical_command_for_match, AnyText
<1> QED BY <1>1, <1>3, <1>4 DEF AnyText

(* The arguments of a normalized scope: texts, as many as the rule has. *)
LEMMA ExpandedType ==
    ASSUME NEW c \in Callers, NEW argv \in Seq(AnyText)
    PROVE  /\ Expanded(c, argv) \in Seq(AnyText)
           /\ (Expanded(c, argv) = <<>>) <=> (argv = <<>>)
<1>1. \A i \in 1..Len(argv) : resolve_variables(c, argv[i]) \in AnyText
  BY ResolvedType
<1>2. Len(argv) \in Nat
  OBVIOUS
<1>3. Expanded(c, argv) \in Seq(AnyText)
  BY <1>1, <1>2 DEF Expanded
<1>4. Len(Expanded(c, argv)) = Len(argv)
  BY <1>2 DEF Expanded
<1> QED BY <1>3, <1>4

(* A rule with a known target has a normalized scope. *)
LEMMA ScopeType ==
    ASSUME NEW c \in Callers, NEW r \in Rule, rule_target_uid(r) # NoId
    PROVE  normalize_scope(c, r) \in Scope
<1>1. rule_target_uid(r) \in Ids
  <2>1. r.target_uid \in Ids \cup {NoId} /\ r.target \in AnyText
    BY DEF Rule
  <2>2. UidModulus \in Nat \ {0} /\ Number \in [Texts -> Int \cup {NoId}]
    BY VocabularyAssumption
  <2>3. ASSUME NEW n \in Int PROVE n % UidModulus \in Ids
    BY <2>2 DEF Ids
  <2>4. 0 \in Ids
    BY <2>2 DEF Ids
  <2> QED BY <2>1, <2>2, <2>3, <2>4 DEF AnyText, rule_target_uid, ToUid
<1>2. CommandOf(c, r) \in AnyText
  BY CommandType
<1>3. Expanded(c, r.cmdargs) \in Seq(AnyText)
  BY ExpandedType DEF Rule
<1>4. r.pattern \in BOOLEAN
  BY DEF Rule
<1> QED BY <1>1, <1>2, <1>3, <1>4 DEF normalize_scope, Scope

(* A rule matches the requests of its caller that lie in its scope. *)
LEMMA MatchIsScope ==
    ASSUME NEW c \in Callers, NEW r \in Rule, NEW q \in Requests
    PROVE  matchRule(r, c, q) <=>
             identity_matches(r, c) /\ InScope(normalize_scope(c, r), q)
<1>1. (CommandOf(c, r) = NoText) <=> (r.cmd = NoText)
  BY CommandType
<1>3. (Expanded(c, r.cmdargs) = <<>>) <=> (r.cmdargs = <<>>)
  BY ExpandedType DEF Rule
<1> QED BY <1>1, <1>3 DEF matchRule, InScope, normalize_scope

(* A matched rule has a target. *)
LEMMA MatchedApplies ==
    ASSUME NEW c, NEW r, NEW q \in Requests, matchRule(r, c, q)
    PROVE  identity_matches(r, c) /\ rule_target_uid(r) # NoId
BY PolicyAssumption, VocabularyAssumption DEF matchRule

(* What literal texts match *)
LEMMA Literal ==
    ASSUME NEW d \in AnyText, NEW p \in AnyText, NEW t \in AnyText, ArgsDisjoint(d, p)
    PROVE  ~(match_pattern(d, t) /\ match_pattern(p, t))
BY PolicyAssumption DEF ArgsDisjoint, has_glob, match_pattern

(* "Full" for argument lists of equal length: what fits the permit fits the deny. *)
LEMMA ArgsFull ==
    ASSUME NEW d \in Scope, NEW p \in Scope, NEW ts \in Seq(AnyText),
           Len(d.args) = Len(p.args), args_coverage(d, p) = "Full",
           ArgsMatch(p.pattern, p.args, ts)
    PROVE  ArgsMatch(d.pattern, d.args, ts)
<1> USE DEF args_coverage, ArgsMatch, ArgMatches
<1>0. d.pattern \in BOOLEAN /\ p.pattern \in BOOLEAN
  BY DEF Scope
<1>1. CASE ~d.pattern /\ ~p.pattern
  BY <1>1
<1>2. CASE d.pattern /\ ~p.pattern
  BY <1>2
<1>3. CASE ~d.pattern /\ p.pattern
  BY <1>3
<1>4. CASE d.pattern /\ p.pattern
  BY <1>4
<1> QED BY <1>0, <1>1, <1>2, <1>3, <1>4

(* "None" for argument lists of equal length: no list fits both. *)
LEMMA ArgsNone ==
    ASSUME NEW d \in Scope, NEW p \in Scope, NEW ts \in Seq(AnyText),
           Len(d.args) = Len(p.args), args_coverage(d, p) = "None",
           ArgsMatch(p.pattern, p.args, ts), ArgsMatch(d.pattern, d.args, ts)
    PROVE  FALSE
<1> USE DEF args_coverage, ArgsMatch, ArgMatches
<1>0. /\ d.pattern \in BOOLEAN /\ p.pattern \in BOOLEAN
      /\ d.args \in Seq(AnyText) /\ p.args \in Seq(AnyText)
  BY DEF Scope
<1>1. CASE ~d.pattern /\ ~p.pattern
  <2>1. \A i \in 1..Len(d.args) : d.args[i] = p.args[i]
    BY <1>1
  <2>2. d.args = p.args
    BY <1>0, <2>1
  <2> QED BY <1>1, <2>2
<1>2. CASE d.pattern /\ ~p.pattern
  BY <1>2
<1>3. CASE ~d.pattern /\ p.pattern
  BY <1>3
<1>4. CASE d.pattern /\ p.pattern
  <2>1. PICK i \in 1..Len(d.args) : ArgsDisjoint(d.args[i], p.args[i])
    BY <1>4
  <2>2. d.args[i] \in AnyText /\ p.args[i] \in AnyText /\ ts[i] \in AnyText
    BY <1>0, <2>1
  <2> QED BY <1>4, <2>1, <2>2, Literal
<1> QED BY <1>0, <1>1, <1>2, <1>3, <1>4

(* "Full": the deny matches every request the permit matches. *)
LEMMA FullCovers ==
    ASSUME NEW d \in Scope, NEW p \in Scope, NEW q \in Requests,
           scope_coverage(d, p) = "Full", InScope(p, q)
    PROVE  InScope(d, q)
<1>1. q.args \in Seq(AnyText)
  BY PolicyAssumption
<1> QED BY <1>1, ArgsFull DEF scope_coverage, InScope

(* "None": no request is matched by both. *)
LEMMA NoneIsDisjoint ==
    ASSUME NEW d \in Scope, NEW p \in Scope, NEW q \in Requests,
           scope_coverage(d, p) = "None", InScope(p, q), InScope(d, q)
    PROVE  FALSE
<1>1. q.args \in Seq(AnyText)
  BY PolicyAssumption
<1>2. d.command # NoText /\ p.command # NoText /\ d.args # <<>> /\ p.args # <<>>
  BY DEF scope_coverage, InScope
<1>3. /\ ArgsMatch(p.pattern, p.args, q.args)
      /\ ArgsMatch(d.pattern, d.args, q.args)
  BY <1>2 DEF InScope
<1>4. Len(d.args) = Len(p.args)
  BY <1>3 DEF ArgsMatch
<1>5. args_coverage(d, p) = "None"
  BY <1>2, <1>4 DEF scope_coverage, InScope
<1> QED BY <1>1, <1>3, <1>4, <1>5, ArgsNone

(* scope_coverage() has three answers. *)
LEMMA CoverageType ==
    ASSUME NEW d \in Scope, NEW p \in Scope
    PROVE  scope_coverage(d, p) \in {"None", "Partial", "Full"}
<1>1. d.pattern \in BOOLEAN /\ p.pattern \in BOOLEAN
  BY DEF Scope
<1> QED BY <1>1 DEF scope_coverage, args_coverage

(***************************************************************************)
(* The inductive invariant                                                 *)
(***************************************************************************)

(* The rules among the first n that apply to the caller c, by action *)
Acting(rs, c, n, a) ==
    { j \in 1..n : /\ identity_matches(rs[j], c) /\ rule_target_uid(rs[j]) # NoId
                   /\ rs[j].action = a }
ScopeAt(rs, c, j) == normalize_scope(c, rs[j])

(* The denies among the first n rules cover s to the given degree. *)
Covered(rs, c, n, s, cov) ==
    \E j \in Acting(rs, c, n, "DENY") : scope_coverage(ScopeAt(rs, c, j), s) = cov

(* denied holds exactly the scopes of the denies met so far. *)
DeniesMet ==
    /\ \A j \in Acting(rules, caller, next - 1, "DENY") :
         \E i \in 1..Len(denied) : denied[i] = ScopeAt(rules, caller, j)
    /\ \A i \in 1..Len(denied) :
         \E j \in Acting(rules, caller, next - 1, "DENY") : denied[i] = ScopeAt(rules, caller, j)

(* An entry without the remark has a scope apart from every earlier deny. *)
EntrySound(rs, c, e) ==
    ~e.conditional =>
        \A j \in Acting(rs, c, e.at - 1, "DENY") :
            scope_coverage(ScopeAt(rs, c, j), ScopeAt(rs, c, e.at)) = "None"
EntriesSound ==
    \A i \in 1..Len(listed) :
        /\ listed[i].at \in Acting(rules, caller, next - 1, "PERMIT")
        /\ EntrySound(rules, caller, listed[i])

(* A permit that is not listed is covered by an earlier deny. *)
OthersCovered ==
    \A k \in Acting(rules, caller, next - 1, "PERMIT") :
        \/ \E i \in 1..Len(listed) : listed[i].at = k
        \/ Covered(rules, caller, k - 1, ScopeAt(rules, caller, k), "Full")

(* What permit() answered *)
VerdictSound ==
    verdict # <<>> =>
        IF verdict.at = 0
        THEN \A j \in 1..Len(rules) : ~Permits(rules, caller, verdict.req, j)
        ELSE Permits(rules, caller, verdict.req, verdict.at)

Unlisted == caller = NoIdentity => next = 1 /\ denied = <<>> /\ listed = <<>>

IInv == /\ TypeOK /\ Unlisted
        /\ DeniesMet /\ EntriesSound /\ OthersCovered /\ VerdictSound

(* Every rule of a loaded policy is a rule. *)
LEMMA RuleType ==
    ASSUME NEW rs \in Policies, NEW j \in 1..Len(rs)
    PROVE  rs \in Seq(Rule) /\ Len(rs) \in Nat /\ rs[j] \in Rule
<1>1. rs \in Seq(Rule)
  BY PolicyAssumption
<1> QED BY <1>1

(* The scope of an acting rule is a scope. *)
LEMMA ActingScope ==
    ASSUME NEW rs \in Policies, NEW c \in Callers, NEW n \in Nat, n <= Len(rs),
           NEW a, NEW j \in Acting(rs, c, n, a)
    PROVE  ScopeAt(rs, c, j) \in Scope /\ j \in 1..Len(rs)
<1>1. rs \in Seq(Rule)
  BY PolicyAssumption
<1>2. j \in 1..Len(rs) /\ rule_target_uid(rs[j]) # NoId
  BY <1>1 DEF Acting
<1>3. rs[j] \in Rule
  BY <1>2, RuleType
<1> QED BY <1>2, <1>3, ScopeType DEF ScopeAt

(* The loop variable denied answers Met() like the rules themselves. *)
LEMMA MetIsCovered ==
    ASSUME DeniesMet, NEW s, NEW cov
    PROVE  Met(cov, s) <=> Covered(rules, caller, next - 1, s, cov)
BY DEF DeniesMet, Met, Covered

(* Before the first round nothing is denied, listed or answered. *)
LEMMA InitIInv == Init => IInv
<1> SUFFICES ASSUME Init PROVE IInv
  OBVIOUS
<1>1. rules \in Seq(Rule)
  BY PolicyAssumption DEF Init
<1>2. TypeOK
  BY <1>1 DEF Init, TypeOK
<1>3. \A a : Acting(rules, caller, next - 1, a) = {}
  BY DEF Init, Acting
<1>4. DeniesMet /\ EntriesSound /\ OthersCovered
  BY <1>3 DEF Init, DeniesMet, EntriesSound, OthersCovered
<1> QED BY <1>2, <1>4 DEF Init, IInv, Unlisted, VerdictSound

(* permit() changes its own answer only. *)
LEMMA PermitIInv == IInv /\ Permit => IInv'
<1> SUFFICES ASSUME IInv, Permit PROVE IInv'
  OBVIOUS
<1>1. UNCHANGED <<caller, rules, next, denied, listed>>
  BY DEF Permit
<1>2. PICK q \in Requests, k \in 0..Len(rules) :
        /\ IF k = 0 THEN \A j \in 1..Len(rules) : ~Permits(rules, caller, q, j)
                    ELSE Permits(rules, caller, q, k)
        /\ verdict' = [req |-> q, at |-> k]
  BY DEF Permit
<1>3. rules \in Seq(Rule)
  BY PolicyAssumption DEF IInv, TypeOK
<1>4. k \in Nat
  BY <1>3
<1>5. TypeOK'
  BY <1>1, <1>2, <1>4 DEF IInv, TypeOK
<1>6. VerdictSound'
  BY <1>1, <1>2 DEF VerdictSound
<1>7. (Unlisted /\ DeniesMet /\ EntriesSound /\ OthersCovered)'
  BY <1>1 DEF IInv, Unlisted, DeniesMet, EntriesSound, OthersCovered
<1> QED BY <1>5, <1>6, <1>7 DEF IInv

(* One round of the loop of list_permitted_entries() *)
LEMMA ListIInv == IInv /\ ListRule => IInv'
<1> SUFFICES ASSUME IInv, ListRule PROVE IInv'
  OBVIOUS
<1> DEFINE r == rules[next]
           s == normalize_scope(caller, r)
<1>1. /\ caller \in Callers /\ rules \in Policies /\ rules \in Seq(Rule)
      /\ next \in 1..Len(rules) /\ Len(rules) \in Nat
      /\ denied \in Seq(Scope) /\ listed \in Seq(Entry)
      /\ r \in Rule
  BY PolicyAssumption, RuleType DEF IInv, TypeOK, ListRule
<1>2. caller' = caller /\ rules' = rules /\ verdict' = verdict /\ next' = next + 1
  BY DEF ListRule
<1>3. ASSUME NEW a
      PROVE  Acting(rules, caller, next, a) =
               IF Applies(r) /\ r.action = a
               THEN Acting(rules, caller, next - 1, a) \cup {next}
               ELSE Acting(rules, caller, next - 1, a)
  <2>1. 1..next = (1..(next - 1)) \cup {next}
    BY <1>1
  <2> QED BY <2>1 DEF Acting, Applies
<1>4. next' - 1 = next
  BY <1>1, <1>2
<1>5. VerdictSound' /\ Unlisted'
  BY <1>1, <1>2, PolicyAssumption, VocabularyAssumption DEF IInv, VerdictSound, Unlisted
<1>6. \A i \in 1..Len(listed) : listed[i].at < next'
  <2> SUFFICES ASSUME NEW i \in 1..Len(listed) PROVE listed[i].at < next'
    OBVIOUS
  <2>1. listed[i] \in Entry
    BY <1>1
  <2>2. listed[i].at \in Nat
    BY <2>1 DEF Entry
  <2>3. listed[i].at < next
    BY DEF IInv, TypeOK
  <2> QED BY <1>1, <1>2, <2>2, <2>3
<1>7. next' \in 1..(Len(rules') + 1)
  BY <1>1, <1>2
<1>8. CASE ~Applies(r) /\ UNCHANGED <<denied, listed>>
  <2>1. \A a : Acting(rules, caller, next, a) = Acting(rules, caller, next - 1, a)
    BY <1>3, <1>8
  <2>2. TypeOK'
    BY <1>1, <1>2, <1>8, <1>6, <1>7 DEF IInv, TypeOK
  <2>3. (DeniesMet /\ EntriesSound /\ OthersCovered)'
    BY <1>2, <1>4, <1>8, <2>1 DEF IInv, DeniesMet, EntriesSound, OthersCovered
  <2> QED BY <1>5, <2>2, <2>3 DEF IInv
<1>9. CASE Applies(r) /\ r.action = "DENY" /\ denied' = Append(denied, s) /\ UNCHANGED listed
  <2>1. /\ Acting(rules, caller, next, "PERMIT") = Acting(rules, caller, next - 1, "PERMIT")
        /\ Acting(rules, caller, next, "DENY") = Acting(rules, caller, next - 1, "DENY") \cup {next}
    BY <1>3, <1>9
  <2>2. s \in Scope
    BY <1>1, <1>9, ScopeType DEF Applies
  <2>3. TypeOK'
    BY <1>1, <1>2, <1>9, <1>6, <1>7, <2>2 DEF IInv, TypeOK
  <2>4. (EntriesSound /\ OthersCovered)'
    BY <1>2, <1>4, <1>9, <2>1 DEF IInv, EntriesSound, OthersCovered
  <2>5. /\ Len(denied') = Len(denied) + 1 /\ denied'[Len(denied) + 1] = s
        /\ \A i \in 1..Len(denied) : denied'[i] = denied[i]
        /\ Len(denied) \in Nat /\ s = ScopeAt(rules, caller, next)
    BY <1>1, <1>9, <2>2 DEF ScopeAt
  <2>6. ASSUME NEW j \in Acting(rules, caller, next, "DENY")
        PROVE  \E i \in 1..Len(denied') : denied'[i] = ScopeAt(rules, caller, j)
    <3>1. CASE j = next
      BY <2>5, <3>1
    <3>2. CASE j \in Acting(rules, caller, next - 1, "DENY")
      <4>1. PICK i \in 1..Len(denied) : denied[i] = ScopeAt(rules, caller, j)
        BY <3>2 DEF IInv, DeniesMet
      <4> QED BY <2>5, <4>1
    <3> QED BY <2>1, <3>1, <3>2
  <2>7. ASSUME NEW i \in 1..Len(denied')
        PROVE  \E j \in Acting(rules, caller, next, "DENY") : denied'[i] = ScopeAt(rules, caller, j)
    <3>1. CASE i = Len(denied) + 1
      BY <2>1, <2>5, <3>1
    <3>2. CASE i \in 1..Len(denied)
      BY <2>1, <2>5, <3>2 DEF IInv, DeniesMet
    <3> QED BY <2>5, <3>1, <3>2
  <2>8. DeniesMet'
    BY <1>2, <1>4, <2>6, <2>7 DEF DeniesMet
  <2> QED BY <1>5, <2>3, <2>4, <2>8 DEF IInv
<1>10. CASE /\ Applies(r) /\ r.action = "PERMIT" /\ UNCHANGED denied
           /\ listed' = IF Met("Full", s) THEN listed
                        ELSE Append(listed, [at |-> next, conditional |-> Met("Partial", s)])
  <2>1. /\ Acting(rules, caller, next, "DENY") = Acting(rules, caller, next - 1, "DENY")
        /\ Acting(rules, caller, next, "PERMIT") = Acting(rules, caller, next - 1, "PERMIT") \cup {next}
    BY <1>3, <1>10
  <2>2. s \in Scope /\ s = ScopeAt(rules, caller, next)
    BY <1>1, <1>10, ScopeType DEF Applies, ScopeAt
  <2>3. DeniesMet'
    BY <1>2, <1>4, <1>10, <2>1 DEF IInv, DeniesMet
  <2>4. CASE Met("Full", s)
    <3>1. listed' = listed /\ Covered(rules, caller, next - 1, ScopeAt(rules, caller, next), "Full")
      BY <1>10, <2>2, <2>4, MetIsCovered DEF IInv
    <3>2. TypeOK'
      BY <1>1, <1>2, <1>10, <1>6, <1>7, <3>1 DEF IInv, TypeOK
    <3>3. (EntriesSound /\ OthersCovered)'
      BY <1>2, <1>4, <2>1, <3>1 DEF IInv, EntriesSound, OthersCovered
    <3> QED BY <1>5, <2>3, <3>2, <3>3 DEF IInv
  <2>5. CASE ~Met("Full", s)
    <3> DEFINE e == [at |-> next, conditional |-> Met("Partial", s)]
    <3>1. e \in Entry
      BY <1>1 DEF Entry, Met
    <3>2. /\ listed' = Append(listed, e) /\ Len(listed) \in Nat
          /\ Len(listed') = Len(listed) + 1 /\ listed'[Len(listed) + 1] = e
          /\ \A i \in 1..Len(listed) : listed'[i] = listed[i]
      BY <1>1, <1>10, <2>5, <3>1
    <3>3. TypeOK'
      <4>1. listed' \in Seq(Entry)
        BY <1>1, <3>1, <3>2
      <4>2. \A i \in 1..Len(listed') : listed'[i].at < next'
        BY <1>1, <1>2, <1>6, <3>2
      <4> QED BY <1>1, <1>2, <1>10, <1>7, <4>1, <4>2 DEF IInv, TypeOK
    <3>4. EntrySound(rules, caller, e)
      <4> SUFFICES ASSUME ~Met("Partial", s), NEW j \in Acting(rules, caller, next - 1, "DENY")
                   PROVE  scope_coverage(ScopeAt(rules, caller, j), s) = "None"
        BY <2>2 DEF EntrySound
      <4>1. scope_coverage(ScopeAt(rules, caller, j), s) \notin {"Full", "Partial"}
        BY <2>5, MetIsCovered DEF IInv, Covered
      <4>2. ScopeAt(rules, caller, j) \in Scope
        BY <1>1, ActingScope
      <4> QED BY <2>2, <4>1, <4>2, CoverageType
    <3>5. EntriesSound'
      <4> SUFFICES ASSUME NEW i \in 1..Len(listed')
                   PROVE  /\ listed'[i].at \in Acting(rules, caller, next, "PERMIT")
                          /\ EntrySound(rules, caller, listed'[i])
        BY <1>2, <1>4 DEF EntriesSound
      <4>1. CASE i = Len(listed) + 1
        BY <2>1, <3>2, <3>4, <4>1
      <4>2. CASE i \in 1..Len(listed)
        BY <2>1, <3>2, <4>2 DEF IInv, EntriesSound
      <4> QED BY <3>2, <4>1, <4>2
    <3>6. OthersCovered'
      <4> SUFFICES ASSUME NEW k \in Acting(rules, caller, next, "PERMIT")
                   PROVE  \/ \E i \in 1..Len(listed') : listed'[i].at = k
                          \/ Covered(rules, caller, k - 1, ScopeAt(rules, caller, k), "Full")
        BY <1>2, <1>4 DEF OthersCovered
      <4>1. CASE k = next
        BY <3>2, <4>1
      <4>2. CASE k \in Acting(rules, caller, next - 1, "PERMIT")
        <5>1. CASE \E i \in 1..Len(listed) : listed[i].at = k
          BY <3>2, <5>1
        <5> QED BY <4>2, <5>1 DEF IInv, OthersCovered
      <4> QED BY <2>1, <4>1, <4>2
    <3> QED BY <1>5, <2>3, <3>3, <3>5, <3>6 DEF IInv
  <2> QED BY <2>4, <2>5
<1> QED BY <1>8, <1>9, <1>10 DEF ListRule

(***************************************************************************)
(* Theorems                                                                *)
(***************************************************************************)

(* The inductive invariant holds of every run of the two algorithms. *)
THEOREM Invariance == Spec => []IInv
<1>1. IInv /\ [Next]_vars => IInv'
  <2> SUFFICES ASSUME IInv, [Next]_vars PROVE IInv'
    OBVIOUS
  <2>1. CASE UNCHANGED vars
    BY <2>1 DEF vars, IInv, TypeOK, Unlisted, DeniesMet, EntriesSound, OthersCovered, VerdictSound
  <2> QED BY <2>1, PermitIInv, ListIInv DEF Next
<1> QED BY <1>1, InitIInv, PTL DEF Spec

(* denied_scopes holds scopes with a known target uid, and -l lists rules  *)
(* it has passed: the types of the loop's variables.                       *)
THEOREM Typing == Spec => []TypeOK
<1>1. IInv => TypeOK
  BY DEF IInv
<1> QED BY <1>1, Invariance, PTL

(* The smallest element of a set of positions *)
LEMMA FirstOf ==
    ASSUME NEW T \in SUBSET Nat, T # {}
    PROVE  \E m \in T : \A n \in T : m <= n
<1>1. PICK m \in T : \A n \in T : ~(<<n, m>> \in OpToRel(<, Nat))
  BY NatLessThanWellFounded, WFMin
<1>2. ASSUME NEW n \in T PROVE m <= n
  <2>1. m \in Nat /\ n \in Nat
    OBVIOUS
  <2>2. n < m => <<n, m>> \in OpToRel(<, Nat)
    BY <2>1, Zenon DEF OpToRel
  <2>3. ~(n < m)
    BY <1>1, <2>2
  <2> QED BY <2>1, <2>3
<1> QED BY <1>2

(* If one of the first k rules matches, one of them is the first match. *)
LEMMA SomeRuleDecides ==
    ASSUME NEW rs \in Policies, NEW c, NEW q, NEW k \in 1..Len(rs), matchRule(rs[k], c, q)
    PROVE  \E j \in 1..k : Decides(rs, c, q, j)
<1> DEFINE T == { j \in 1..k : matchRule(rs[j], c, q) }
<1>1. rs \in Seq(Rule) /\ Len(rs) \in Nat
  BY RuleType
<1>2. T \in SUBSET Nat /\ T # {}
  BY <1>1
<1>3. PICK m \in T : \A n \in T : m <= n
  BY <1>2, FirstOf
<1>4. \A n \in 1..(m - 1) : ~matchRule(rs[n], c, q)
  BY <1>1, <1>3
<1>5. m \in 1..k /\ m \in 1..Len(rs) /\ matchRule(rs[m], c, q)
  BY <1>1, <1>3
<1> QED BY <1>4, <1>5 DEF Decides

(* What voix -l shows without a remark, voix permits: no request that such *)
(* a rule matches is refused by permit(), whatever denies precede it.      *)
THEOREM UnqualifiedPermitted == Spec => []UnqualifiedIsPermitted
<1>1. IInv => UnqualifiedIsPermitted
  <2> SUFFICES ASSUME IInv, verdict # <<>>, verdict.at = 0,
                      NEW k \in 1..Len(rules), Listed(k, FALSE),
                      matchRule(rules[k], caller, verdict.req)
               PROVE  FALSE
    BY DEF UnqualifiedIsPermitted
  <2> DEFINE q == verdict.req
  <2>1. /\ q \in Requests /\ rules \in Policies /\ Len(rules) \in Nat
        /\ caller \in Callers /\ caller # NoIdentity
    <3>1. listed # <<>>
      BY DEF Listed, IInv, TypeOK
    <3> QED BY <3>1, RuleType, PolicyAssumption DEF IInv, TypeOK, Unlisted
  <2>2. PICK i \in 1..Len(listed) : listed[i] = [at |-> k, conditional |-> FALSE]
    BY DEF Listed
  <2>3. /\ k \in Acting(rules, caller, next - 1, "PERMIT")
        /\ EntrySound(rules, caller, listed[i])
    BY <2>2 DEF IInv, EntriesSound
  <2>4. PICK j \in 1..k : Decides(rules, caller, q, j)
    BY <2>1, SomeRuleDecides
  <2>5. j \in 1..Len(rules) /\ matchRule(rules[j], caller, q) /\ rules[j] \in Rule /\ rules[k] \in Rule
    BY <2>1, <2>4, RuleType DEF Decides
  <2>6. rules[j].action # "PERMIT"
    BY <2>1, <2>4, <2>5 DEF IInv, VerdictSound, Permits
  <2>7. rules[j].action = "DENY"
    BY <2>5, <2>6 DEF Rule
  <2>8. j # k
    BY <2>3, <2>6 DEF Acting
  <2>9. j \in Acting(rules, caller, k - 1, "DENY")
    <3>1. j \in 1..(k - 1)
      BY <2>1, <2>8
    <3>2. identity_matches(rules[j], caller) /\ rule_target_uid(rules[j]) # NoId
      BY <2>1, <2>5, MatchedApplies
    <3> QED BY <2>7, <3>1, <3>2 DEF Acting
  <2>10. scope_coverage(ScopeAt(rules, caller, j), ScopeAt(rules, caller, k)) = "None"
    BY <2>2, <2>3, <2>9 DEF EntrySound
  <2>11. InScope(ScopeAt(rules, caller, j), q) /\ InScope(ScopeAt(rules, caller, k), q)
    BY <2>1, <2>5, MatchIsScope DEF ScopeAt
  <2>12. ScopeAt(rules, caller, j) \in Scope /\ ScopeAt(rules, caller, k) \in Scope
    <3>1. rule_target_uid(rules[j]) # NoId /\ rule_target_uid(rules[k]) # NoId
      BY <2>1, <2>5, MatchedApplies
    <3> QED BY <2>1, <2>5, <3>1, ScopeType DEF ScopeAt
  <2> QED BY <2>1, <2>10, <2>11, <2>12, NoneIsDisjoint
<1> QED BY <1>1, Invariance, PTL

(* voix -l hides nothing: the rule by which permit() grants a request is   *)
(* never one that the listing drops as covered by an earlier deny.         *)
THEOREM GrantedListed == Spec => []GrantedIsListed
<1>1. IInv => GrantedIsListed
  <2> SUFFICES ASSUME IInv, verdict # <<>>, verdict.at # 0, next = Len(rules) + 1
               PROVE  Listed(verdict.at, TRUE) \/ Listed(verdict.at, FALSE)
    BY DEF GrantedIsListed
  <2> DEFINE q == verdict.req
             k == verdict.at
  <2>1. Permits(rules, caller, q, k)
    BY DEF IInv, VerdictSound
  <2>2. /\ q \in Requests /\ rules \in Policies /\ caller \in Callers
        /\ k \in 1..Len(rules) /\ matchRule(rules[k], caller, q) /\ rules[k].action = "PERMIT"
        /\ \A j \in 1..(k - 1) : ~matchRule(rules[j], caller, q)
    BY <2>1 DEF IInv, TypeOK, Permits, Decides
  <2>3. Len(rules) \in Nat /\ rules[k] \in Rule
    BY <2>2, RuleType
  <2>4. k \in Acting(rules, caller, next - 1, "PERMIT")
    <3>1. identity_matches(rules[k], caller) /\ rule_target_uid(rules[k]) # NoId
      BY <2>2, MatchedApplies
    <3>2. k \in 1..(next - 1)
      BY <2>2, <2>3
    <3> QED BY <2>2, <3>1, <3>2 DEF Acting
  <2>5. CASE \E i \in 1..Len(listed) : listed[i].at = k
    <3>1. PICK i \in 1..Len(listed) : listed[i].at = k
      BY <2>5
    <3>2. listed[i] \in Entry
      BY DEF IInv, TypeOK
    <3>3. listed[i] = [at |-> k, conditional |-> TRUE] \/ listed[i] = [at |-> k, conditional |-> FALSE]
      BY <3>1, <3>2 DEF Entry
    <3> QED BY <3>3 DEF Listed
  <2>6. CASE Covered(rules, caller, k - 1, ScopeAt(rules, caller, k), "Full")
    <3>1. PICK j \in Acting(rules, caller, k - 1, "DENY") :
            scope_coverage(ScopeAt(rules, caller, j), ScopeAt(rules, caller, k)) = "Full"
      BY <2>6 DEF Covered
    <3>2. j \in 1..(k - 1) /\ identity_matches(rules[j], caller) /\ rule_target_uid(rules[j]) # NoId
      BY DEF Acting
    <3>3. j \in 1..Len(rules)
      BY <2>2, <2>3, <3>2
    <3>4. rules[j] \in Rule
      BY <2>2, <3>3, RuleType
    <3>5. ScopeAt(rules, caller, j) \in Scope /\ ScopeAt(rules, caller, k) \in Scope
      BY <2>2, <2>3, <2>4, <3>2, <3>4, ScopeType DEF ScopeAt, Acting
    <3>6. InScope(ScopeAt(rules, caller, k), q)
      BY <2>2, <2>3, MatchIsScope DEF ScopeAt
    <3>7. InScope(ScopeAt(rules, caller, j), q)
      BY <2>2, <3>1, <3>5, <3>6, FullCovers
    <3>8. matchRule(rules[j], caller, q)
      BY <2>2, <3>2, <3>4, <3>7, MatchIsScope DEF ScopeAt
    <3> QED BY <2>2, <3>2, <3>8
  <2> QED BY <2>4, <2>5, <2>6 DEF IInv, OthersCovered
<1> QED BY <1>1, Invariance, PTL

(* Rules that say the same, the earlier one without arguments or with the  *)
(* same ones: whatever the later one matches, the earlier one matches.     *)
LEMMA SameCovers ==
    ASSUME NEW rs \in Policies, NEW i \in 1..Len(rs), NEW k \in 1..Len(rs),
           Same(rs[i], rs[k]), rs[i].cmdargs \in {<<>>, rs[k].cmdargs},
           NEW c, NEW q, matchRule(rs[k], c, q)
    PROVE  matchRule(rs[i], c, q)
<1>1. /\ rs[i].ident_uid = rs[k].ident_uid /\ rs[i].ident_gid = rs[k].ident_gid
      /\ rs[i].target_uid = rs[k].target_uid
      /\ rs[i].cmdargs = rs[k].cmdargs => rs[i].pattern = rs[k].pattern
  BY DerivedFromText DEF Same
<1>2. identity_matches(rs[i], c) /\ rule_target_uid(rs[i]) = q.uid
  BY <1>1 DEF Same, matchRule, identity_matches, rule_target_uid
<1>3. CommandOf(c, rs[i]) = CommandOf(c, rs[k])
  BY DEF Same, CommandOf
<1>4. rs[i].cmd = rs[k].cmd
  BY DEF Same
<1> QED BY <1>1, <1>2, <1>3, <1>4 DEF matchRule

(* What --check-config calls redundant can be deleted, and what it does    *)
(* not call open names the one command it grants: for every policy, every  *)
(* caller and every request, provided the earlier rule of the pair has no  *)
(* arguments or the same ones.                                             *)
THEOREM WarningsTrusted == Spec => []WarningsCanBeTrusted
<1>1. IInv => WarningsCanBeTrusted
  <2> SUFFICES ASSUME IInv, verdict # <<>>, verdict.at # 0
               PROVE  /\ <<"empty">> \notin analyze(rules)
                      /\ \A i \in 1..(verdict.at - 1) :
                           <<"redundant", i, verdict.at>> \in analyze(rules) =>
                               rules[i].cmdargs \notin {<<>>, rules[verdict.at].cmdargs}
                      /\ <<"open", verdict.at>> \notin analyze(rules) =>
                           CommandOf(caller, rules[verdict.at])
                             = canonical_command_for_match(verdict.req.command)
    BY DEF WarningsCanBeTrusted
  <2> DEFINE q == verdict.req
             k == verdict.at
  <2>1. Permits(rules, caller, q, k)
    BY DEF IInv, VerdictSound
  <2>2. /\ rules \in Policies /\ k \in 1..Len(rules) /\ Len(rules) \in Nat
        /\ matchRule(rules[k], caller, q) /\ rules[k].action = "PERMIT"
        /\ \A j \in 1..(k - 1) : ~matchRule(rules[j], caller, q)
    BY <2>1, RuleType DEF IInv, TypeOK, Permits, Decides
  <2>3. <<"empty">> \notin analyze(rules)
    <3>1. rules # <<>>
      BY <2>2
    <3> QED BY <3>1 DEF analyze, check_empty_acl, check_redundant_rules, check_open_permissions
  <2>4. ASSUME NEW i \in 1..(k - 1), <<"redundant", i, k>> \in analyze(rules)
        PROVE  rules[i].cmdargs \notin {<<>>, rules[k].cmdargs}
    <3>1. <<"redundant", i, k>> \in check_redundant_rules(rules)
      BY <2>4 DEF analyze, check_empty_acl, check_open_permissions
    <3>2. Same(rules[i], rules[k])
      BY <3>1 DEF check_redundant_rules
    <3>3. i \in 1..Len(rules)
      BY <2>2
    <3> QED BY <2>2, <3>2, <3>3, SameCovers
  <2>5. ASSUME <<"open", k>> \notin analyze(rules)
        PROVE  CommandOf(caller, rules[k]) = canonical_command_for_match(q.command)
    <3>1. rules[k].cmd # NoText
      BY <2>2, <2>5 DEF analyze, check_open_permissions
    <3> QED BY <2>2, <3>1 DEF matchRule
  <2> QED BY <2>3, <2>4, <2>5
<1> QED BY <1>1, Invariance, PTL
====
