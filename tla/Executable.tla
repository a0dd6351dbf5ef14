----------------------------- MODULE Executable -----------------------------
(***************************************************************************)
(* From the loaded configuration to the opened executable:                 *)
(* resolve_executable and open_executable (file_utils.cpp) as              *)
(* Voix::execute uses them, isCatastrophicCommand (security.cpp) and the   *)
(* part of permit() that compares commands (permission_checker.cpp).       *)
(*                                                                         *)
(* The command is looked up three times, by the search, by the gate and by *)
(* the policy, and opened by name at the end, while users change their own *)
(* directories and root installs software.  A path is <<directory, name>>; *)
(* a bare name has the directory NoDir.  Directories may be links to       *)
(* others (/bin to /usr/bin), names may be links to paths.                 *)
(***************************************************************************)
EXTENDS Config

CONSTANTS
    Dirs, NoDir,    \* directories by the names they are reached under
    UserDirs,       \* those other users may change; a relative name of
                    \* core.paths is one, for the caller chooses where he is
    Cwd,            \* the caller's current directory
    Names,          \* file names
    Inodes, Nothing,    \* inode numbers; no directory entry
    MaxLinks,       \* SYMLOOP_MAX
    Spell,          \* command text -> path
    Destructive,    \* k_destructive_basenames and mkfs*
    RegexHits,      \* regex text -> the policy paths it is found in
    Programs        \* what a file may hold

Path == (Dirs \cup {NoDir}) \X Names
(* An inode: is it a regular file, root's, writable by others, executable; *)
(* and which program it holds.                                             *)
Attributes == [regular : BOOLEAN, uid : {0, 1}, open : BOOLEAN, exec : BOOLEAN,
               program : Programs]

(* Directory entries, inodes and "nothing there" are different things; a   *)
(* directory realpath() has arrived at is its own real name.               *)
ASSUME ExecutableAssumption ==
    /\ NoDir \notin Dirs /\ UserDirs \subseteq Dirs /\ Cwd \in Dirs
    /\ MaxLinks \in Nat
    /\ Inodes \cap (Dirs \X Names) = {}
    /\ Nothing \notin Inodes /\ Nothing \notin Dirs \X Names
    /\ Spell \in [Texts -> Path]
    /\ DefaultPaths \in Seq(Dirs)
    /\ \A s \in Scenarios :
         /\ "paths" \in DOMAIN s.host.doc => s.host.doc.paths \in Seq(Dirs)
         /\ "blocklist" \in DOMAIN s.host.doc => s.host.doc.blocklist \in Seq(AnyText)
         /\ s.host.request.cmd \in Path
         /\ s.real \in [Dirs -> Dirs \cup {NoDir}]
         /\ \A d \in Dirs : s.real[d] # NoDir => s.real[s.real[d]] = s.real[d]
         /\ s.entry \in [Dirs \X Names -> Inodes \cup (Dirs \X Names) \cup {Nothing}]
         /\ s.ino \in [Inodes -> Attributes]

VARIABLES
    real,       \* directory -> the directory realpath() makes of it
    entry,      \* <<real directory, name>> -> inode, path of a link, Nothing
    ino,        \* inode -> attributes
    exe,        \* where execute() is
    cand,       \* the candidate the search looks at, later the rule
    error,      \* first_error of the search
    info        \* ExecutableInfo, as far as it is known

(* History *)
VARIABLES
    disturbed,  \* directories changed since the search began
    reused      \* inodes allocated anew or rewritten since then

disk    == <<real, entry, ino>>
exeVars == <<real, entry, ino, exe, cand, error, info, disturbed, reused>>
vars    == <<loadVars, exeVars>>

request == host.request     \* [cmd : Path, args, uid]

(***************************************************************************)
(* The file system                                                         *)
(***************************************************************************)
InReal(p) == IF p[1] = NoDir \/ real[p[1]] = NoDir THEN p ELSE <<real[p[1]], p[2]>>
Present(p) == p[1] # NoDir /\ real[p[1]] # NoDir /\ entry[InReal(p)] # Nothing
IsLink(p)  == Present(p) /\ entry[InReal(p)] \notin Inodes

(* Where following p for k links ends, and the directories on the way.     *)
(* The end may be a link itself: too many of them.                         *)
Follow(p) ==
    LET F[k \in 0..MaxLinks] ==
          IF k = 0 THEN [end |-> p, via |-> {p[1]}]
          ELSE LET q == F[k - 1] IN
               IF IsLink(q.end)
               THEN [end |-> entry[InReal(q.end)],
                     via |-> q.via \cup {entry[InReal(q.end)][1]}]
               ELSE q
    IN F[MaxLinks]
realpath(p) == InReal(Follow(p).end)
(* The directories that decide where p leads *)
Via(p) == LET v == Follow(p).via \ {NoDir} IN (v \cup {real[d] : d \in v}) \ {NoDir}

(* errno of realpath() and stat(), by errno_to_file_error() *)
LookupError(p) == CASE ~Present(Follow(p).end) -> "NotFound"
                    [] IsLink(Follow(p).end) -> "PermissionDenied"
                    [] OTHER -> "none"
Inode(p) == entry[realpath(p)]

(***************************************************************************)
(* resolve_executable                                                      *)
(***************************************************************************)
SafeExecutable(a) == a.regular /\ a.uid = 0 /\ ~a.open /\ a.exec

(* A path is its own only candidate, a bare name is searched for. *)
Candidates(c) ==
    IF c[1] # NoDir THEN <<c>> ELSE [i \in 1..Len(cfg.paths) |-> <<cfg.paths[i], c[2]>>]
check_candidate(p) ==
    IF LookupError(p) # "none" THEN LookupError(p)
    ELSE IF SafeExecutable(ino[Inode(p)]) THEN "none" ELSE "PermissionDenied"
(* Directory links resolved, the last component kept *)
policy_path(p) == InReal(p)

(* The whole of it at once, as the policy uses it: a command that cannot   *)
(* be resolved is compared as it is written.                               *)
Resolves(c, p) ==
    \E i \in 1..Len(Candidates(c)) :
        /\ p = Candidates(c)[i] /\ check_candidate(p) = "none"
        /\ \A j \in 1..(i - 1) : check_candidate(Candidates(c)[j]) # "none"
canonical_command_for_match(c) ==
    IF \E p \in Path : Resolves(c, p)
    THEN policy_path(CHOOSE p \in Path : Resolves(c, p)) ELSE c

(***************************************************************************)
(* isCatastrophicCommand                                                   *)
(***************************************************************************)

(* weakly_canonical(): what cannot be followed keeps its spelling; a bare  *)
(* name is taken to be in the current directory.                           *)
absolute(p) == IF p[1] = NoDir THEN <<Cwd, p[2]>> ELSE p
canonicalize_policy_path(p) == InReal(absolute(p))
canonicalize_blocklist_path(p) == IF LookupError(p) = "none" THEN realpath(p) ELSE InReal(p)

(* Mutated form: only the name the command was called by counts. *)
BuiltinByName(p, args) ==
    IF p[2] = "rm" THEN args = "wipes root"
    ELSE IF p[2] = "dd" THEN args = "names device" ELSE p[2] \in Destructive
(* The built-in list: rm and dd by their arguments, the rest by name *)
Builtin(p, args) ==
    LET bases == {p[2], canonicalize_blocklist_path(p)[2]} IN
    IF "rm" \in bases THEN args = "wipes root"
    ELSE IF "dd" \in bases THEN args = "names device"
    ELSE bases \cap Destructive # {}
(* The configured list *)
Blocked(p, e) ==
    \/ e \in {p, canonicalize_policy_path(p), canonicalize_blocklist_path(p)}
    \/ canonicalize_policy_path(p) = canonicalize_policy_path(e)
isCatastrophicCommand(p, args) ==
    \/ Builtin(p, args)
    \/ \E t \in ToSet(cfg.blocklist) : t # NoText /\ Blocked(p, Spell[t])
    \/ \E x \in ToSet(cfg.regexes) : p \in RegexHits[x]

(***************************************************************************)
(* Voix::execute                                                           *)
(***************************************************************************)
ExeEnd == {"opened", "rejected", "blocked", "denied", "refused"}
(* The fields of ExecutableInfo, the command as permit() sees it, the rule *)
(* that decided, the opened inode; history: the program that was validated *)
NoInfo == [path |-> Nothing, policy |-> Nothing, inode |-> Nothing, canon |-> Nothing,
           rule |-> 0, fd |-> Nothing, program |-> Nothing]

Init ==
    /\ \E s \in Scenarios :
         LoadInit(s) /\ real = s.real /\ entry = s.entry /\ ino = s.ino
    /\ exe = "realpath" /\ cand = 1 /\ error = "NotFound" /\ info = NoInfo
    /\ disturbed = {} /\ reused = {}

Running(l) == load = "loaded" /\ exe = l
(* The candidate fails with e: remember the first error that says more     *)
(* than NotFound and go on with the next one.                              *)
(* Mutated form: the failure does not end the candidate. *)
FallThrough(e) == exe' = "parent" /\ UNCHANGED <<cand, error, info>>
Skip(e) ==
    /\ exe' = "realpath" /\ cand' = cand + 1
    /\ error' = IF error = "NotFound" THEN e ELSE error
    /\ info' = NoInfo

Realpath ==
    /\ Running("realpath")
    /\ IF cand > Len(Candidates(request.cmd))
       THEN exe' = "rejected" /\ UNCHANGED <<cand, error, info>>
       ELSE LET p == Candidates(request.cmd)[cand] IN
            IF LookupError(p) # "none" THEN Skip(LookupError(p))
            ELSE /\ exe' = "stat" /\ info' = [info EXCEPT !.path = realpath(p)]
                 /\ UNCHANGED <<cand, error>>
    /\ UNCHANGED <<loadVars, disk, disturbed, reused>>

(* stat() of the path realpath() gave, which may have changed meanwhile    *)
Validated == [info EXCEPT !.inode = Inode(info.path), !.program = ino[Inode(info.path)].program]
(* Mutated form: an unsafe candidate ends the search. *)
StatOrStop ==
    /\ Running("stat")
    /\ IF check_candidate(info.path) # "none"
       THEN exe' = "rejected" /\ error' = check_candidate(info.path) /\ UNCHANGED <<cand, info>>
       ELSE /\ exe' = "parent" /\ info' = Validated
            /\ UNCHANGED <<cand, error>>
    /\ UNCHANGED <<loadVars, disk, disturbed, reused>>
Stat ==
    /\ Running("stat")
    /\ IF check_candidate(info.path) # "none" THEN Skip(check_candidate(info.path))
       ELSE /\ exe' = "parent" /\ info' = Validated
            /\ UNCHANGED <<cand, error>>
    /\ UNCHANGED <<loadVars, disk, disturbed, reused>>

Parent ==
    /\ Running("parent")
    /\ exe' = "gate"
    /\ info' = [info EXCEPT !.policy = policy_path(Candidates(request.cmd)[cand])]
    /\ UNCHANGED <<loadVars, disk, cand, error, disturbed, reused>>

Gate ==
    /\ Running("gate")
    /\ exe' = IF isCatastrophicCommand(info.policy, request.args) THEN "blocked" ELSE "permit"
    /\ UNCHANGED <<loadVars, disk, cand, error, info, disturbed, reused>>

(* permit() canonicalizes the policy path again... *)
Permit ==
    /\ Running("permit")
    /\ info' = [info EXCEPT !.canon = canonical_command_for_match(info.policy)]
    /\ exe' = "match" /\ cand' = 1
    /\ UNCHANGED <<loadVars, disk, error, disturbed, reused>>

(* ...and then the command of each rule in turn.  Whether the arguments of *)
(* a rule fit is PermissionChecker's subject.                              *)
(* Mutated form: the names of rule and command are compared. *)
CommandMatchesByName(r) ==
    r.cmd = NoText \/ Spell[r.cmd][2] = info.canon[2]
CommandMatches(r) ==
    r.cmd = NoText \/ canonical_command_for_match(Spell[r.cmd]) = info.canon
Match ==
    /\ Running("match")
    /\ IF cand > Len(cfg.rules)
       THEN exe' = "denied" /\ UNCHANGED <<cand, info>>
       ELSE LET r == cfg.rules[cand] IN
            \/ /\ identity_matches(r, host.caller) /\ rule_target_uid(r) = request.uid
               /\ CommandMatches(r)
               /\ exe' = IF r.action = "PERMIT" THEN "pin" ELSE "denied"
               /\ info' = [info EXCEPT !.rule = cand]
               /\ UNCHANGED cand
            \/ /\ \/ ~identity_matches(r, host.caller) \/ rule_target_uid(r) # request.uid
                  \/ ~CommandMatches(r) \/ (r.cmd # NoText /\ r.cmdargs # <<>>)
               /\ cand' = cand + 1
               /\ UNCHANGED <<exe, info>>
    /\ UNCHANGED <<loadVars, disk, error, disturbed, reused>>

(* open_executable(), after authentication: by name, without following     *)
(* Mutated form: the inode is not compared. *)
PinsAnything(p) == Present(p) /\ ~IsLink(p) /\ SafeExecutable(ino[entry[InReal(p)]])
Pins(p) ==
    /\ Present(p) /\ ~IsLink(p)
    /\ entry[InReal(p)] = info.inode
    /\ SafeExecutable(ino[info.inode])
Pin ==
    /\ Running("pin")
    /\ exe' = IF Pins(info.path) THEN "opened" ELSE "refused"
    /\ info' = IF Pins(info.path) THEN [info EXCEPT !.fd = entry[InReal(info.path)]] ELSE info
    /\ UNCHANGED <<loadVars, disk, cand, error, disturbed, reused>>

(***************************************************************************)
(* Everybody else.  What was changed before the search began is part of    *)
(* the initial state.                                                      *)
(***************************************************************************)
Free == { i \in Inodes : \A q \in DOMAIN entry : entry[q] # i }
Change(d, edit) ==
    /\ load = "loaded" /\ exe \notin ExeEnd /\ edits.exe > 0
    /\ edit /\ edits' = [edits EXCEPT !.exe = @ - 1]
    /\ disturbed' = disturbed \cup d
    /\ UNCHANGED <<host, tree, load, at, file, cfg, care, exe, cand, error, info>>
At(i) == { d \in Dirs : \E n \in Names : entry[<<d, n>>] = i }

(* A user turns one of his directories into a link to another one, or back *)
UserMoves ==
    \E d \in UserDirs, to \in Dirs :
        Change({d}, /\ real[d] # real[to] /\ real' = [real EXCEPT ![d] = real[to]]
                    /\ UNCHANGED <<entry, ino, reused>>)
(* A user makes a link or a hard link of a name, or removes it *)
UserLinks ==
    \E d \in UserDirs, n \in Names :
        Change({d}, /\ \E e \in (Dirs \X Names) \cup {Nothing} \cup (Inodes \ Free) :
                         entry' = [entry EXCEPT ![<<d, n>>] = e]
                    /\ UNCHANGED <<real, ino, reused>>)
UserCreates ==
    \E d \in UserDirs, n \in Names, i \in Free, p \in Programs :
        Change({d}, /\ entry' = [entry EXCEPT ![<<d, n>>] = i]
                    /\ ino' = [ino EXCEPT ![i] = [regular |-> TRUE, uid |-> 1, open |-> FALSE,
                                                  exec |-> TRUE, program |-> p]]
                    /\ reused' = reused \cup {i}
                    /\ UNCHANGED real)

(* Root installs a program under a new inode, which may be an old number   *)
(* that became free, or removes one.                                       *)
RootInstalls ==
    \E d \in Dirs \ UserDirs, n \in Names, i \in Free, p \in Programs :
        Change({d}, /\ real[d] = d
                    /\ entry' = [entry EXCEPT ![<<d, n>>] = i]
                    /\ ino' = [ino EXCEPT ![i] = [regular |-> TRUE, uid |-> 0, open |-> FALSE,
                                                  exec |-> TRUE, program |-> p]]
                    /\ reused' = reused \cup {i}
                    /\ UNCHANGED real)
RootRemoves ==
    \E d \in Dirs \ UserDirs, n \in Names :
        Change({d}, /\ entry[<<d, n>>] # Nothing
                    /\ entry' = [entry EXCEPT ![<<d, n>>] = Nothing]
                    /\ UNCHANGED <<real, ino, reused>>)
(* Root changes the mode of a file, or writes into it. *)
RootChanges ==
    \E i \in Inodes \ Free, a \in Attributes :
        Change(At(i), /\ ino[i].uid = 0 /\ a.uid = 0 /\ a.regular = ino[i].regular /\ a # ino[i]
                      /\ ino' = [ino EXCEPT ![i] = a]
                      /\ reused' = IF a.program = ino[i].program THEN reused ELSE reused \cup {i}
                      /\ UNCHANGED <<real, entry>>)

ExeStep == Realpath \/ Stat \/ Parent \/ Gate \/ Permit \/ Match \/ Pin
Others  == UserMoves \/ UserLinks \/ UserCreates \/ RootInstalls \/ RootRemoves \/ RootChanges
Next ==
    \/ LoadNext /\ UNCHANGED exeVars
    \/ ExeStep
    \/ Others

Spec == Init /\ [][Next]_vars

TypeOK ==
    /\ LoadTypeOK
    /\ real \in [Dirs -> Dirs \cup {NoDir}]
    /\ entry \in [Dirs \X Names -> Inodes \cup (Dirs \X Names) \cup {Nothing}]
    /\ ino \in [Inodes -> Attributes]
    /\ exe \in {"realpath", "stat", "parent", "gate", "permit", "match", "pin"} \cup ExeEnd
    /\ cand \in Nat \ {0}
    /\ error \in {"NotFound", "PermissionDenied"}
    /\ exe \in {"parent", "gate", "permit", "match", "pin", "opened"} => info.inode \in Inodes
    /\ disturbed \subseteq Dirs /\ reused \subseteq Inodes

(***************************************************************************)
(* Properties                                                              *)
(***************************************************************************)

(* Nothing that decides where these commands lead changed meanwhile. *)
Settled(cs) ==
    \A c \in cs : \A i \in 1..Len(Candidates(c)) : Via(Candidates(c)[i]) \cap disturbed = {}

(* The step-by-step search, each step on a file system that others change, *)
(* finds the first candidate that is safe and goes past unsafe ones; when  *)
(* there is none it says so, and PermissionDenied if an unsafe one exists. *)
(* Changes elsewhere make no difference.                                   *)
SearchFindsFirst ==
    load = "loaded" /\ Settled({request.cmd}) =>
        /\ exe \in {"gate", "permit", "match", "pin", "opened"} =>
             \E p \in Path : /\ Resolves(request.cmd, p)
                             /\ info.path = realpath(p) /\ info.inode = Inode(p)
                             /\ info.policy = policy_path(p)
        /\ exe = "rejected" =>
             LET results == { check_candidate(p) : p \in ToSet(Candidates(request.cmd)) } IN
             /\ "none" \notin results
             /\ error = IF "PermissionDenied" \in results THEN "PermissionDenied" ELSE "NotFound"

(* The descriptor handed to fexecve() holds the program that was           *)
(* validated, whatever was renamed, linked or installed between the two,   *)
(* as long as root neither wrote into that file nor gave its inode number  *)
(* to a new one.                                                           *)
SameProgram ==
    exe = "opened" /\ info.inode \notin reused =>
        ino[info.fd].program = info.program /\ SafeExecutable(ino[info.fd])

(* The rule that permitted a command names the very file that is executed  *)
(* and under the same name, although rule and request are resolved         *)
(* separately.                                                             *)
PermitNamesExecuted ==
    LET r == cfg.rules[info.rule] IN
    exe = "opened" /\ r.cmd # NoText /\ Settled({request.cmd, Spell[r.cmd]}) =>
        \E p \in Path : /\ Resolves(Spell[r.cmd], p)
                        /\ Inode(p) = info.fd /\ p[2] = request.cmd[2]

(* What is executed is not what the gate must stop: it is no blocked path, *)
(* under whatever directory name, nor a destructive tool under another     *)
(* name, except that a command called rm or dd is judged by its arguments. *)
GateSeesExecuted ==
    LET blocked == { Spell[t] : t \in ToSet(cfg.blocklist) \ {NoText} }
        bases   == {info.path[2], info.policy[2]}
    IN  exe = "opened" /\ Settled({request.cmd} \cup { absolute(e) : e \in blocked }) =>
            /\ \A e \in blocked : e # info.path /\ canonicalize_policy_path(e) # info.policy
            /\ \A x \in ToSet(cfg.regexes) : info.policy \notin RegexHits[x]
            /\ bases \cap {"rm", "dd"} = {} => bases \cap Destructive = {}
            /\ "rm" \in bases => request.args # "wipes root"
====
