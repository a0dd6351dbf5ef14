------------------------------- MODULE Policy -------------------------------
(***************************************************************************)
(* The vocabulary of a Voix policy: the rules Config::load makes of the    *)
(* acl section (rule.hpp) and the parts of permission_checker.cpp that say *)
(* whom a rule is about.  Texts (names, commands, arguments, patterns) are *)
(* values; what the C library makes of them is given by constants.         *)
(***************************************************************************)
EXTENDS Integers, Sequences

CONSTANTS
    Texts,          \* the texts that are not empty
    NoText,         \* the empty text
    Globs,          \* the texts with a * or a ?
    Number,         \* text -> what strtol() makes of it, or NoId
    NoId,           \* an empty optional<uid_t> or optional<gid_t>
    UidModulus      \* 2^32: uid_t is 32 bits wide

AnyText == Texts \cup {NoText}
Ids     == 0..(UidModulus - 1)
Options == {"NOPASS", "KEEPENV", "PERSIST", "NOLOG"}
Rule == [action : {"PERMIT", "DENY"},
         options : SUBSET Options,
         ident : AnyText,                   \* as written in the acl section
         ident_uid : Ids \cup {NoId},       \* set for a known user
         ident_gid : Ids \cup {NoId},       \* set for a known group
         target : AnyText,
         target_uid : Ids \cup {NoId},
         profile : AnyText,
         envlist : Seq(AnyText),
         cmd : AnyText,
         cmdargs : Seq(AnyText),
         pattern : BOOLEAN]                 \* Rule::PATTERN

ASSUME VocabularyAssumption ==
    /\ UidModulus \in Nat \ {0}
    /\ NoText \notin Texts /\ NoId \notin Ids
    /\ Globs \subseteq Texts
    /\ Number \in [Texts -> Int \cup {NoId}]

has_glob(t) == t \in Globs

(* strtol() returns a long, which the cast to uid_t truncates. *)
ToUid(n) == IF n = NoId THEN NoId ELSE n % UidModulus

rule_target_uid(r) ==
    IF r.target_uid # NoId THEN r.target_uid
    ELSE IF r.target = NoText THEN 0 ELSE ToUid(Number[r.target])

identity_matches(r, c) ==
    IF r.ident_uid # NoId THEN r.ident_uid = c.uid
    ELSE IF r.ident_gid # NoId THEN r.ident_gid \in c.groups
    ELSE r.ident # NoText => ToUid(Number[r.ident]) = c.uid
====
