------------------------------- MODULE Config -------------------------------
(***************************************************************************)
(* Config::load (config.cpp) with is_trusted_path and read_file_secure     *)
(* (file_utils.cpp): from the path of the configuration to the settings    *)
(* the rest of the program uses.                                           *)
(*                                                                         *)
(* The path is looked at component by component with one lstat() each,     *)
(* then opened by name, while other users and the administrator go on      *)
(* changing the tree; the sanctuary named by the file is walked the same   *)
(* way.  One action is one system call with the code up to the next one.   *)
(* What the YAML library hands over is a record with optional fields.      *)
(***************************************************************************)
EXTENDS Policy, SequencesExt

CONSTANTS
    Depth,          \* components of a path below "/"
    Scenarios,      \* the hosts and invocations considered
    UserDb,         \* SystemUtils::getUidByName
    GroupDb,        \* SystemUtils::getGidByName
    Colon,          \* name -> the text ":" + name
    GoodEnv,        \* texts of the form KEY=VALUE
    Syscalls,       \* texts that name a system call
    Regexes,        \* texts std::regex compiles
    Absolute,       \* texts that start with "/"
    DefaultSanctuary, DefaultPaths      \* of the Config constructor

Trees == {"config", "sanctuary"}
Node  == [kind : {"dir", "file", "link", "none"},
          uid : {0, 1},                  \* root's, or some other user's
          open : BOOLEAN,                \* group or world writable
          by : {"root", "user"}]         \* history: who put it there
(* Users other than root decide what is below such a component. *)
Loose(n) == n.kind = "link" \/ n.uid # 0 \/ n.open
Chains == { c \in [1..Depth -> Node] :
              /\ \A d \in 1..(Depth - 1) :
                   c[d].kind \in {"file", "none"} => c[d + 1].kind = "none"
              /\ \A d \in 1..Depth : c[d].kind = "none" => c[d].uid = 0 /\ ~c[d].open }
(* The chains that agree with c above component d. *)
Below(c, d) == { e \in Chains : \A i \in 1..(d - 1) : e[i] = c[i] }

(* The sections the YAML library hands over are sequences; names and       *)
(* commands are texts.                                                     *)
IsSequence(q) == q \in Seq(ToSet(q))
IsSection(q) ==
    /\ IsSequence(q)
    /\ \A e \in ToSet(q) : e.name \in AnyText /\ IsSequence(e.rules)
    /\ \A e \in ToSet(q) : \A n \in ToSet(e.rules) :
         "command" \in DOMAIN n => n.command \in AnyText

(* A group's text is no number: strtol() stops at the colon.  Nobody but   *)
(* root can have put something into a tree that root keeps to itself.      *)
ASSUME ConfigAssumption ==
    /\ Depth \in Nat \ {0}
    /\ UserDb \in [AnyText -> Ids \cup {NoId}]
    /\ GroupDb \in [AnyText -> Ids \cup {NoId}]
    /\ Colon \in [AnyText -> Texts]
    /\ \A t \in AnyText : Number[Colon[t]] = NoId
    /\ UserDb[NoText] = NoId
    /\ \A s \in Scenarios :
         /\ s.host.euid \in {0, 1} /\ s.host.op \in {"run", "check"}
         /\ s.host.caller.uid \in Ids
         /\ \A k \in {"user", "group"} \cap DOMAIN s.host.doc : IsSection(s.host.doc[k])
         /\ s.edits \in [load : Nat, exe : Nat]
         /\ s.tree \in [Trees -> Chains]
         /\ \A p \in Trees, d \in 1..Depth :
              s.tree[p][d].by = "user" => \E e \in 1..(d - 1) : Loose(s.tree[p][e])

VARIABLES
    host,       \* what stays: the invocation and the text of the file
    tree,       \* what lstat() says of each component of the two paths
    edits,      \* bound: changes others will still make in each phase
    load,       \* where load() is
    at,         \* the component is_trusted_path() looks at
    file,       \* the opened configuration file
    cfg,        \* the settings
    care        \* history: what root did to the trees since load() began

loadVars == <<host, tree, edits, load, at, file, cfg, care>>

(***************************************************************************)
(* From the document to the settings                                       *)
(***************************************************************************)
Has(n, k) == k \in DOMAIN n
Get(n, k, default) == IF Has(n, k) THEN n[k] ELSE default

Option == [trust |-> "NOPASS", nopass |-> "NOPASS", keepenv |-> "KEEPENV",
           persist |-> "PERSIST", nolog |-> "NOLOG"]

(* A rule without an action permits; an unknown option is ignored; an      *)
(* unknown target is only logged.                                          *)
parse_rule(n) ==
    [action |-> IF Get(n, "action", "permit") = "permit" THEN "PERMIT" ELSE "DENY",
     options |-> { Option[o] : o \in ToSet(Get(n, "options", <<>>)) \cap DOMAIN Option },
     ident |-> NoText, ident_uid |-> NoId, ident_gid |-> NoId,
     target |-> Get(n, "target", NoText),
     target_uid |-> IF Has(n, "target") THEN UserDb[n.target] ELSE NoId,
     profile |-> Get(n, "profile", NoText),
     envlist |-> Get(n, "env", <<>>),
     cmd |-> Get(n, "command", NoText),
     cmdargs |-> Get(n, "args", <<>>),
     pattern |-> \E a \in ToSet(Get(n, "args", <<>>)) : has_glob(a)]
RuleThrows(n) == ~(ToSet(Get(n, "env", <<>>)) \subseteq GoodEnv)

OfUser(r, name) == [r EXCEPT !.ident = name, !.ident_uid = UserDb[name]]
(* Mutated form: the group keeps its bare name. *)
OfGroupBare(r, name) == [r EXCEPT !.ident = name, !.ident_gid = GroupDb[name]]
OfGroup(r, name) == [r EXCEPT !.ident = Colon[name], !.ident_gid = GroupDb[name]]

(* A section is a sequence of [name, rules]; group stands for the callback *)
(* that sets the identity.                                                 *)
parse_acl_section(section, group) ==
    FlattenSeq([i \in 1..Len(section) |->
        [k \in 1..Len(section[i].rules) |->
            IF group THEN OfGroup(parse_rule(section[i].rules[k]), section[i].name)
            ELSE OfUser(parse_rule(section[i].rules[k]), section[i].name)]])

(* Mutated form: the mode is not looked at. *)
ModeUnchecked(pr) ==
    \/ ~(ToSet(pr.allow) \subseteq Syscalls)
    \/ pr.allow # <<>> /\ pr.mode # "allowlist"
profile_error(pr) ==
    \/ pr.mode \notin {"blacklist", "allowlist"}
    \/ ~(ToSet(pr.allow) \subseteq Syscalls)
    \/ pr.allow # <<>> /\ pr.mode # "allowlist"

ParsedProfile(n) == [mode |-> Get(n, "mode", "blacklist"), allow |-> Get(n, "allow", <<>>)]

(* A document that is no YAML or has a value of the wrong kind (field      *)
(* "valid"), a bad env entry, a bad profile or regex: load() fails.        *)
SectionThrows(section) ==
    \E i \in 1..Len(section) : \E k \in 1..Len(section[i].rules) :
        RuleThrows(section[i].rules[k])
DocumentFails(doc) ==
    \/ ~doc.valid
    \/ SectionThrows(Get(doc, "user", <<>>)) \/ SectionThrows(Get(doc, "group", <<>>))
    \/ \E n \in DOMAIN Get(doc, "profiles", <<>>) : profile_error(ParsedProfile(doc.profiles[n]))
    \/ ~(ToSet(Get(doc, "regexes", <<>>)) \subseteq Regexes)

parse(doc) ==
    [sanctuary |-> Get(doc, "sanctuary", DefaultSanctuary),
     paths |-> Get(doc, "paths", DefaultPaths),
     unconfined |-> Get(doc, "unconfined_targets", Get(doc, "privileged_users", <<>>)),
     rules |-> parse_acl_section(Get(doc, "user", <<>>), FALSE)
               \o parse_acl_section(Get(doc, "group", <<>>), TRUE),
     profiles |-> [n \in DOMAIN Get(doc, "profiles", <<>>) |-> ParsedProfile(doc.profiles[n])],
     blocklist |-> Get(doc, "blocklist", <<>>),
     regexes |-> Get(doc, "regexes", <<>>)]
Defaults == parse([valid |-> TRUE])

(* A name nobody defined gets the restricted defaults. *)
get_profile(c, name) ==
    IF name \in DOMAIN c.profiles THEN c.profiles[name]
    ELSE [mode |-> "blacklist", allow |-> <<>>]

(* validate(), for --check-config only *)
Validates(c) ==
    /\ ToSet(c.paths) \subseteq Absolute
    /\ \A r \in ToSet(c.rules) : r.ident # NoText \/ r.ident_uid # NoId \/ r.ident_gid # NoId
    /\ \A r \in ToSet(c.rules) : r.cmd # NoText => NoText \notin ToSet(r.cmdargs)
    /\ NoText \notin ToSet(c.blocklist)
    /\ \A n \in DOMAIN c.profiles : ~profile_error(c.profiles[n])

(***************************************************************************)
(* load()                                                                  *)
(***************************************************************************)
LoadEnd == {"loaded", "valid", "failed", "unreadable"}
Loading == {"exists", "walk", "symlink", "open", "read", "directory", "sanctuary", "validate"}
NoFile  == [kind |-> "none", uid |-> 0, open |-> FALSE, by |-> "root"]
Leaf(p) == tree[p][Depth]
Hosts   == { s.host : s \in Scenarios }

LoadTypeOK ==
    /\ host \in Hosts
    /\ tree \in [Trees -> Chains]
    /\ edits \in [load : Nat, exe : Nat]
    /\ load \in Loading \cup LoadEnd
    /\ at \in 1..Depth
    /\ file \in Node
    /\ cfg \in {Defaults, parse(host.doc)}
    /\ care \in {"untouched", "kept", "loosened"}

(* The state of a scenario; Executable adds the rest of the file system. *)
LoadInit(s) ==
    /\ host = s.host /\ tree = s.tree /\ edits = s.edits
    /\ load = "exists" /\ at = 1 /\ file = NoFile
    /\ cfg = Defaults /\ care = "untouched"

Turn(b, l) == load' = IF b THEN l ELSE "failed"

(* fileExists() follows links, which may dangle. *)
Exists ==
    /\ load = "exists"
    /\ \E b \in BOOLEAN :
         /\ Leaf("config").kind # "link" => b = (Leaf("config").kind # "none")
         /\ Turn(b, "walk")
    /\ UNCHANGED <<host, tree, edits, at, file, cfg, care>>

(* Mutated form: only the last component is looked at closely. *)
TrustedLast(n, last) == n.kind \notin {"link", "none"} /\ (last => n.uid = 0 /\ ~n.open)
(* Mutated form: every component must be a directory. *)
TrustedDirectory(n, last) == n.kind = "dir" /\ n.uid = 0 /\ ~n.open
Trusted(n, last) ==
    /\ n.kind \notin {"link", "none"}
    /\ n.uid = 0 /\ ~n.open
    /\ last \/ n.kind = "dir"

(* is_trusted_path(): one lstat() *)
is_trusted_path(p, next) ==
    /\ IF at < Depth
       THEN /\ Turn(Trusted(tree[p][at], FALSE), load)
            /\ at' = at + 1
       ELSE /\ Turn(Trusted(tree[p][at], TRUE), next)
            /\ at' = 1
    /\ UNCHANGED <<host, tree, edits, file, cfg, care>>
WalkConfig    == load = "walk" /\ is_trusted_path("config", "symlink")
WalkSanctuary == load = "sanctuary" /\ is_trusted_path("sanctuary",
                    IF host.op = "check" THEN "validate" ELSE "loaded")

Symlink ==
    /\ load = "symlink"
    /\ Turn(Leaf("config").kind # "link", "open")
    /\ UNCHANGED <<host, tree, edits, at, file, cfg, care>>

(* Mutated form: the owner of the opened file is not checked. *)
AnyOwner(n) == n.kind = "file" /\ ~n.open
is_file_safe(n) == n.kind = "file" /\ n.uid = host.euid /\ ~n.open

(* open(O_NOFOLLOW) and fstat() of read_file_secure() *)
Open ==
    /\ load = "open"
    /\ Turn(Leaf("config").kind \notin {"link", "none"} /\ is_file_safe(Leaf("config")), "read")
    /\ file' = Leaf("config")
    /\ UNCHANGED <<host, tree, edits, at, cfg, care>>

(* The content is read, which may fail, and turned into settings; both     *)
(* callers abandon a Config whose load() failed half way.                  *)
Read ==
    /\ load = "read"
    /\ \/ load' = "unreadable" /\ UNCHANGED cfg
       \/ /\ Turn(~DocumentFails(host.doc), "directory")
          /\ cfg' = IF DocumentFails(host.doc) THEN cfg ELSE parse(host.doc)
    /\ UNCHANGED <<host, tree, edits, at, file, care>>

(* validate_sanctuary_path(): is_directory() follows links; a path that is *)
(* empty or relative is refused.                                           *)
IsDirectory(l) ==
    \E b \in BOOLEAN :
        /\ Leaf("sanctuary").kind # "link" => b = (Leaf("sanctuary").kind = "dir")
        /\ Turn(b /\ l, IF load = "validate" THEN "valid" ELSE "sanctuary")
Directory ==
    /\ load = "directory"
    /\ IsDirectory(cfg.sanctuary \in Absolute)
    /\ UNCHANGED <<host, tree, edits, at, file, cfg, care>>

(* --check-config asks validate() as well. *)
Validate ==
    /\ load = "validate"
    /\ IsDirectory(Validates(cfg))
    /\ UNCHANGED <<host, tree, edits, at, file, cfg, care>>

(***************************************************************************)
(* Everybody else                                                          *)
(***************************************************************************)

(* A user who may write a directory rebinds what is below it, and may      *)
(* change the mode of what is his.                                         *)
UserEdit ==
    /\ load \notin LoadEnd /\ edits.load > 0
    /\ \E p \in Trees, d \in 1..Depth :
         \/ /\ d > 1 /\ tree[p][d - 1].kind \in {"dir", "link"} /\ Loose(tree[p][d - 1])
            /\ \E c \in Below(tree[p], d) :
                 /\ \A e \in d..Depth : c[e].by = "user"
                 /\ tree' = [tree EXCEPT ![p] = c]
         \/ /\ tree[p][d].uid # 0
            /\ tree' = [tree EXCEPT ![p][d].open = ~@]
    /\ edits' = [edits EXCEPT !.load = @ - 1]
    /\ UNCHANGED <<host, load, at, file, cfg, care>>

(* The administrator edits, replaces or rebuilds part of a path. *)
RootEdit ==
    /\ load \notin LoadEnd /\ edits.load > 0
    /\ \E p \in Trees, d \in 1..Depth : \E c \in Below(tree[p], d) :
         /\ \A e \in d..Depth : c[e].by = "root"
         /\ tree' = [tree EXCEPT ![p] = c]
         /\ care' = IF care = "loosened" \/ (\E e \in d..Depth : Loose(c[e]))
                    THEN "loosened" ELSE "kept"
    /\ edits' = [edits EXCEPT !.load = @ - 1]
    /\ UNCHANGED <<host, load, at, file, cfg>>

LoadStep == Exists \/ WalkConfig \/ Symlink \/ Open \/ Read \/ Directory \/ WalkSanctuary \/ Validate
LoadNext == LoadStep \/ UserEdit \/ RootEdit

(***************************************************************************)
(* Properties                                                              *)
(***************************************************************************)
Accepted == load \in {"validate", "loaded", "valid"}

(* Unless root itself opens the tree to others while load() runs, the file *)
(* that was read and the sanctuary that will hold the tickets were put     *)
(* there by root, every component of them, whatever other users renamed,   *)
(* linked or created between the separate looks at the path.               *)
ConfigTrusted ==
    Accepted /\ care # "loosened" =>
        file.by = "root" /\ \A d \in 1..Depth : tree["sanctuary"][d].by = "root"

(* is_trusted_path() wants root's file and is_file_safe() the effective    *)
(* user's: together they only let a process with effective uid 0 load.     *)
LoadsOnlyAsRoot == Accepted /\ care # "loosened" => host.euid = 0

(* The checks refuse nothing they need not refuse: with two well kept      *)
(* paths and a sound document, load() as root fails only if a read does.   *)
Kept(p, kind) == \A d \in 1..Depth :
    ~Loose(tree[p][d]) /\ tree[p][d].kind = IF d = Depth THEN kind ELSE "dir"
WellKeptLoads ==
    load = "failed" /\ care = "untouched" /\ host.euid = 0
    /\ Kept("config", "file") /\ Kept("sanctuary", "dir") =>
        \/ DocumentFails(host.doc)
        \/ parse(host.doc).sanctuary \notin Absolute
        \/ host.op = "check" /\ ~Validates(parse(host.doc))

(* Some rule applies to the caller exactly if an entry of the file names   *)
(* him: by his user name, by his uid where no such user exists, or by a    *)
(* group he is in.  The name of a group is never taken for a uid.          *)
NamesUser(name, c) ==
    IF UserDb[name] # NoId THEN UserDb[name] = c.uid
    ELSE name = NoText \/ ToUid(Number[name]) = c.uid
NamesGroup(name, c) == GroupDb[name] # NoId /\ GroupDb[name] \in c.groups
EntriesMeanWhatTheySay ==
    Accepted =>
        ( (\E r \in ToSet(cfg.rules) : identity_matches(r, host.caller))
          <=> \/ \E e \in ToSet(Get(host.doc, "user", <<>>)) :
                   e.rules # <<>> /\ NamesUser(e.name, host.caller)
              \/ \E e \in ToSet(Get(host.doc, "group", <<>>)) :
                   e.rules # <<>> /\ NamesGroup(e.name, host.caller) )

(* Whatever profile a rule names, defined or not, the child can apply it:  *)
(* its seccomp mode is known and extra system calls come with an allowlist *)
(* only.                                                                   *)
ProfilesUsable ==
    Accepted => \A r \in ToSet(cfg.rules) :
        LET pr == get_profile(cfg, r.profile) IN
        /\ pr.mode \in {"blacklist", "allowlist"}
        /\ pr.allow # <<>> => pr.mode = "allowlist" /\ ToSet(pr.allow) \subseteq Syscalls
====
