-------------------------- MODULE ExecutableProofs --------------------------
(***************************************************************************)
(* Proofs about Executable, for all directories, links, inodes, rules and  *)
(* requests and any number of concurrent changes.                          *)
(*                                                                         *)
(* Search, gate and policy look the command up separately.  The argument   *)
(* is a frame: a step of somebody else changes what it adds to disturbed   *)
(* and nothing of the way a path takes through other directories, so that  *)
(* each look that comes later sees what the earlier ones saw.              *)
(***************************************************************************)
EXTENDS ConfigProofs

(***************************************************************************)
(* The inductive invariant                                                 *)
(***************************************************************************)

(* ExecutableInfo keeps its fields.                                        *)
Shape == DOMAIN info = DOMAIN NoInfo

(* execute() begins when load() has ended. *)
NotBefore ==
    load # "loaded" => exe = "realpath" /\ cand = 1 /\ error = "NotFound"

(* What realpath() makes of a directory is real, unless somebody moved it. *)
RealKept ==
    \A d \in Dirs : real[d] # NoDir /\ real[d] \notin disturbed => real[real[d]] = real[d]

(* The inode that was validated still holds what it held; only that one is *)
(* opened.                                                                 *)
Validating == {"parent", "gate", "permit", "match", "pin", "opened"}
Held ==
    /\ exe \in Validating /\ info.inode \notin reused => ino[info.inode].program = info.program
    /\ exe = "opened" => info.fd = info.inode /\ SafeExecutable(ino[info.fd])

(* The search has been through the candidates before the n-th, and e, the  *)
(* first error that says more than NotFound, is remembered...              *)
Failed(n, e) ==
    LET C == Candidates(request.cmd) IN
    /\ \A j \in 1..(n - 1) : check_candidate(C[j]) # "none"
    /\ e = IF \E j \in 1..(n - 1) : check_candidate(C[j]) = "PermissionDenied"
           THEN "PermissionDenied" ELSE "NotFound"
(* ...the n-th one leads to x...                                           *)
Found(n, x) ==
    LET C == Candidates(request.cmd) IN
    n <= Len(C) /\ LookupError(C[n]) = "none" /\ x = realpath(C[n])
(* ...where the inode y is safe.                                           *)
Chosen(n, y) ==
    LET C == Candidates(request.cmd) IN check_candidate(C[n]) = "none" /\ y = Inode(C[n])
Searching ==
    load = "loaded" /\ Settled({request.cmd}) =>
        /\ exe \in {"realpath", "stat", "parent"} =>
             cand <= Len(Candidates(request.cmd)) + 1 /\ Failed(cand, error)
        /\ exe \in {"stat", "parent"} => Found(cand, info.path)
        /\ exe = "parent" => Chosen(cand, info.inode)

(* How the search can end                                                  *)
FoundFirst(i) ==
    \E p \in Path : /\ Resolves(request.cmd, p)
                    /\ i.path = realpath(p) /\ i.inode = Inode(p) /\ i.policy = policy_path(p)
Exhausted(e) ==
    LET results == { check_candidate(p) : p \in ToSet(Candidates(request.cmd)) } IN
    /\ "none" \notin results
    /\ e = IF "PermissionDenied" \in results THEN "PermissionDenied" ELSE "NotFound"

(* The policy sees the same name as the gate...                            *)
Canonical == exe = "match" /\ Settled({request.cmd}) => info.canon = info.policy

(* ...and the rule that permitted the command names the validated inode.   *)
Decided ==
    LET r == cfg.rules[info.rule] IN
    exe \in {"pin", "opened"} =>
        /\ info.rule \in 1..Len(cfg.rules)
        /\ r.cmd # NoText /\ Settled({request.cmd, Spell[r.cmd]}) =>
             \E p \in Path : /\ Resolves(Spell[r.cmd], p)
                             /\ Inode(p) = info.inode /\ p[2] = request.cmd[2]

(* What the gate has let pass it would still let pass: the blocked         *)
(* commands, as they are compared, and what it has made sure of.           *)
BlockedPaths == { Spell[t] : t \in ToSet(cfg.blocklist) \ {NoText} }
Clear(i) ==
    LET bases == {i.path[2], i.policy[2]} IN
    /\ \A e \in BlockedPaths : e # i.path /\ canonicalize_policy_path(e) # i.policy
    /\ \A x \in ToSet(cfg.regexes) : i.policy \notin RegexHits[x]
    /\ bases \cap {"rm", "dd"} = {} => bases \cap Destructive = {}
    /\ "rm" \in bases => request.args # "wipes root"
Gated ==
    exe \in {"permit", "match", "pin", "opened"}
    /\ Settled({request.cmd} \cup { absolute(e) : e \in BlockedPaths }) => Clear(info)

ExeInv ==
    /\ TypeOK
    /\ Shape
    /\ NotBefore
    /\ RealKept
    /\ Held
    /\ Searching
    /\ SearchFindsFirst
    /\ Canonical
    /\ Decided
    /\ Gated

(***************************************************************************)
(* Types                                                                   *)
(***************************************************************************)

(* A setting is the constructor's or the document's. *)
LEMMA PathsListed ==
    ASSUME LoadTypeOK
    PROVE  cfg.paths \in Seq(Dirs)
<1>1. PICK s \in Scenarios : host = s.host
  BY DEF LoadTypeOK, Hosts
<1>2. parse(host.doc).paths = Get(host.doc, "paths", DefaultPaths)
  BY DEF parse
<1>3. Defaults.paths = DefaultPaths
  BY DEF Defaults, parse, Get, Has
<1>4. cfg = Defaults \/ cfg = parse(host.doc)
  BY DEF LoadTypeOK
<1> QED
  BY <1>1, <1>2, <1>3, <1>4, ExecutableAssumption DEF Get, Has

(* What is asked for is a path, wherever it is looked for. *)
LEMMA Requested == LoadTypeOK => request.cmd \in Path
<1> SUFFICES ASSUME LoadTypeOK PROVE request.cmd \in Path
  OBVIOUS
<1>1. PICK s \in Scenarios : host = s.host
  BY DEF LoadTypeOK, Hosts
<1> QED
  BY <1>1, ExecutableAssumption DEF request

(* The search list of a command is a sequence of paths. *)
LEMMA CandidatesListed ==
    LoadTypeOK => \A c \in Path : /\ Len(Candidates(c)) \in Nat
                                  /\ \A i \in 1..Len(Candidates(c)) : Candidates(c)[i] \in Path
                                  /\ Candidates(c) \in Seq(Path)
<1> SUFFICES ASSUME LoadTypeOK, NEW c \in Path PROVE Candidates(c) \in Seq(Path)
  OBVIOUS
<1>1. CASE c[1] # NoDir
  BY <1>1 DEF Candidates
<1>2. CASE c[1] = NoDir
  <2> DEFINE f == [i \in 1..Len(cfg.paths) |-> <<cfg.paths[i], c[2]>>]
  <2>1. Len(cfg.paths) \in Nat /\ \A i \in 1..Len(cfg.paths) : cfg.paths[i] \in Dirs
    BY PathsListed
  <2>2. c[2] \in Names
    BY DEF Path
  <2>3. f \in [1..Len(cfg.paths) -> Path]
    BY <2>1, <2>2 DEF Path
  <2>4. Candidates(c) = f
    BY <1>2 DEF Candidates
  <2> HIDE DEF f
  <2> QED
    BY <2>1, <2>3, <2>4, Listed
<1> QED
  BY <1>1, <1>2

(* The request's search list has a length. *)
LEMMA HowMany == LoadTypeOK => Len(Candidates(request.cmd)) \in Nat
BY Requested, CandidatesListed

(* The commands of the rules are texts. *)
LEMMA RuleCommands ==
    ASSUME LoadTypeOK
    PROVE  /\ Len(cfg.rules) \in Nat
           /\ \A i \in 1..Len(cfg.rules) : cfg.rules[i].cmd \in AnyText
<1> DEFINE Sections(doc) == /\ IsSection(Get(doc, "user", <<>>))
                            /\ IsSection(Get(doc, "group", <<>>))
<1>1. PICK doc : cfg = parse(doc) /\ Sections(doc)
  <2>1. CASE cfg = parse(host.doc)
    BY <2>1, SectionsOfDocument
  <2>2. CASE cfg = Defaults
    <3>1. Sections([valid |-> TRUE])
      BY DEF IsSection, IsSequence, ToSet, Get, Has
    <3> QED
      BY <2>2, <3>1 DEF Defaults
  <2> QED
    BY <2>1, <2>2 DEF LoadTypeOK
<1> DEFINE A == parse_acl_section(Get(doc, "user", <<>>), FALSE)
           B == parse_acl_section(Get(doc, "group", <<>>), TRUE)
<1>2. cfg.rules = A \o B
  BY <1>1 DEF parse
<1>3. ASSUME NEW q, IsSection(q), NEW g \in BOOLEAN, NEW r \in ToSet(parse_acl_section(q, g))
      PROVE  r.cmd \in AnyText
  <2>1. PICK e \in ToSet(q) : \E n \in ToSet(e.rules) : r = RuleOf(n, e.name, g)
    BY <1>3, SectionRules
  <2> PICK node \in ToSet(e.rules) : r = RuleOf(node, e.name, g)
    BY <2>1
  <2>2. r.cmd = Get(node, "command", NoText)
    BY DEF RuleOf, OfUser, OfGroup, parse_rule
  <2> QED
    BY <1>3, <2>2 DEF IsSection, Get, Has, AnyText
<1>4. PICK V, W : A \in Seq(V) /\ B \in Seq(W)
  BY <1>1, SectionRules
<1>5. A \in Seq(V \cup W) /\ B \in Seq(V \cup W)
  <2> HIDE DEF A, B
  <2> QED
    BY <1>4, Widened
<1>6. A \o B \in Seq(V \cup W) /\ ToSet(A \o B) = ToSet(A) \cup ToSet(B)
  <2> HIDE DEF A, B
  <2> QED
    BY <1>5, ConcatElements
<1>7. \A r \in ToSet(A) \cup ToSet(B) : r.cmd \in AnyText
  BY <1>1, <1>3
<1> HIDE DEF A, B
<1>8. Len(cfg.rules) \in Nat /\ DOMAIN cfg.rules = 1..Len(cfg.rules)
  BY <1>2, <1>6
<1>9. \A i \in 1..Len(cfg.rules) : cfg.rules[i] \in ToSet(cfg.rules)
  BY <1>8 DEF ToSet
<1> QED
  BY <1>2, <1>6, <1>7, <1>8, <1>9

(* The part of TypeOK the file system's operators need *)
DiskOK ==
    /\ real \in [Dirs -> Dirs \cup {NoDir}]
    /\ entry \in [Dirs \X Names -> Inodes \cup (Dirs \X Names) \cup {Nothing}]

(* A path without an error leads to an inode. *)
LEMMA LookupFinds ==
    ASSUME NEW p, LookupError(p) = "none"
    PROVE  Inode(p) \in Inodes
BY DEF LookupError, Inode, realpath, IsLink

(* The looks give one of three answers, and a candidate without an error   *)
(* is safe to execute.                                                     *)
LEMMA Errors ==
    ASSUME NEW p
    PROVE  /\ LookupError(p) \in {"none", "NotFound", "PermissionDenied"}
           /\ check_candidate(p) \in {"none", "NotFound", "PermissionDenied"}
           /\ check_candidate(p) = "none" =>
                LookupError(p) = "none" /\ SafeExecutable(ino[Inode(p)])
BY DEF LookupError, check_candidate

(* Assigning one field leaves the others. *)
SameFile(i) == i.path = info.path /\ i.inode = info.inode /\ i.program = info.program
LEMMA Fields ==
    ASSUME Shape, NEW x
    PROVE  /\ [info EXCEPT !.path = x].path = x
           /\ SameFile([info EXCEPT !.policy = x]) /\ SameFile([info EXCEPT !.canon = x])
           /\ SameFile([info EXCEPT !.rule = x]) /\ SameFile([info EXCEPT !.fd = x])
           /\ [info EXCEPT !.policy = x].policy = x
           /\ [info EXCEPT !.canon = x].policy = info.policy /\ [info EXCEPT !.canon = x].canon = x
           /\ [info EXCEPT !.rule = x].policy = info.policy /\ [info EXCEPT !.rule = x].rule = x
           /\ [info EXCEPT !.fd = x].policy = info.policy /\ [info EXCEPT !.fd = x].rule = info.rule
           /\ [info EXCEPT !.fd = x].fd = x
BY DEF Shape, NoInfo, SameFile

(* stat() fills in the path, the inode and the program it found. *)
LEMMA ValidatedFields ==
    ASSUME Shape
    PROVE  /\ Validated.path = info.path /\ Validated.inode = Inode(info.path)
           /\ Validated.program = ino[Inode(info.path)].program
BY DEF Shape, NoInfo, Validated

(* info keeps its fields. *)
LEMMA ShapeStep ==
    ASSUME Shape, [Next]_vars
    PROVE  Shape'
<1>1. CASE ExeStep
  BY <1>1 DEF Shape, NoInfo, ExeStep, Realpath, Stat, Validated, Parent, Gate, Permit, Match, Pin,
              Skip
<1>2. CASE Others
  BY <1>2 DEF Shape, Others, UserMoves, UserLinks, UserCreates, RootInstalls, RootRemoves,
              RootChanges, Change
<1>3. CASE UNCHANGED exeVars
  BY <1>3 DEF Shape, exeVars
<1> QED
  BY <1>1, <1>2, <1>3 DEF Next, vars

(* Nothing is looked up before the configuration is loaded. *)
LEMMA NotBeforeStep ==
    ASSUME NotBefore, [Next]_vars
    PROVE  NotBefore'
<1>1. CASE ExeStep
  BY <1>1, OtherSteps DEF ExeStep, Realpath, Stat, Parent, Gate, Permit, Match, Pin, Running,
                          NotBefore
<1>2. CASE Others
  BY <1>2, OtherSteps DEF Others, UserMoves, UserLinks, UserCreates, RootInstalls, RootRemoves,
                          RootChanges, Change, NotBefore
<1>3. CASE LoadNext /\ UNCHANGED exeVars
  <2>1. load # "loaded"
    BY <1>3 DEF LoadNext, LoadStep, Exists, WalkConfig, WalkSanctuary, Symlink, Open, Read,
                Directory, Validate, UserEdit, RootEdit, LoadEnd
  <2> QED
    BY <1>3, <2>1 DEF NotBefore, exeVars
<1>4. CASE UNCHANGED vars
  BY <1>4 DEF NotBefore, vars, loadVars, exeVars
<1> QED
  BY <1>1, <1>2, <1>3, <1>4 DEF Next

(* The steps of execute() change no file.                                  *)
LEMMA ExeSteps ==
    ASSUME ExeStep
    PROVE  load = "loaded" /\ exe \notin ExeEnd /\ UNCHANGED <<disk, disturbed, reused>>
BY DEF ExeStep, Realpath, Stat, Parent, Gate, Permit, Match, Pin, Running, ExeEnd

(* What a step changes in the file system is in the directories it adds to *)
(* disturbed: elsewhere directories, entries and the files they name are   *)
(* as they were.                                                           *)
Frame(D) ==
    \A d \in Dirs \ D :
        /\ real'[d] = real[d]
        /\ \A n \in Names :
             /\ entry'[<<d, n>>] = entry[<<d, n>>]
             /\ entry[<<d, n>>] \in Inodes => ino'[entry[<<d, n>>]] = ino[entry[<<d, n>>]]
Disturbs(D) ==
    /\ disturbed' = disturbed \cup D /\ D \subseteq Dirs
    /\ DiskOK' /\ ino' \in [Inodes -> Attributes]
    /\ \A d \in Dirs : \E to \in Dirs : real'[d] = real[to]
    /\ Frame(D)
(* The history of the inodes: which programs are still the same            *)
Reuses ==
    /\ reused' \subseteq Inodes
    /\ \A i \in Inodes : i \notin reused' => i \notin reused /\ ino'[i].program = ino[i].program

(* One step of somebody else.                                              *)
LEMMA Disturbances ==
    ASSUME TypeOK, Others
    PROVE  /\ \E D : Disturbs(D)
           /\ Reuses
           /\ exe \notin ExeEnd /\ load = "loaded" /\ UNCHANGED <<exe, cand, error, info>>
<1> DEFINE What(D) == Disturbs(D) /\ Reuses
<1>0. exe \notin ExeEnd /\ load = "loaded" /\ UNCHANGED <<exe, cand, error, info>>
  BY DEF Others, UserMoves, UserLinks, UserCreates, RootInstalls, RootRemoves, RootChanges,
         Change
<1>1. CASE UserMoves
  <2>1. PICK d \in UserDirs, to \in Dirs :
              /\ disturbed' = disturbed \cup {d}
              /\ real' = [real EXCEPT ![d] = real[to]] /\ UNCHANGED <<entry, ino, reused>>
    BY <1>1 DEF UserMoves, Change
  <2>2. d \in Dirs /\ DiskOK'
    BY <2>1, ExecutableAssumption DEF TypeOK, DiskOK
  <2>3. What({d})
    BY <2>1, <2>2 DEF TypeOK, Disturbs, Frame, Reuses
  <2> QED
    BY <1>0, <2>3
<1>2. CASE UserLinks
  <2>1. PICK d \in UserDirs, n \in Names : \E e \in (Dirs \X Names) \cup {Nothing} \cup Inodes :
              /\ disturbed' = disturbed \cup {d}
              /\ entry' = [entry EXCEPT ![<<d, n>>] = e] /\ UNCHANGED <<real, ino, reused>>
    BY <1>2 DEF UserLinks, Change
  <2>2. d \in Dirs /\ DiskOK'
    BY <2>1, ExecutableAssumption DEF TypeOK, DiskOK
  <2>3. What({d})
    BY <2>1, <2>2 DEF TypeOK, Disturbs, Frame, Reuses
  <2> QED
    BY <1>0, <2>3
<1>3. CASE UserCreates \/ RootInstalls
  <2>1. PICK d \in Dirs, n \in Names, i \in Free : \E a \in Attributes :
              /\ disturbed' = disturbed \cup {d}
              /\ entry' = [entry EXCEPT ![<<d, n>>] = i]
              /\ ino' = [ino EXCEPT ![i] = a]
              /\ reused' = reused \cup {i} /\ UNCHANGED real
    <3>1. \A u \in {0, 1}, p \in Programs :
            [regular |-> TRUE, uid |-> u, open |-> FALSE, exec |-> TRUE, program |-> p] \in Attributes
      BY DEF Attributes
    <3> QED
      BY <1>3, <3>1, ExecutableAssumption DEF UserCreates, RootInstalls, Change
  <2>2. PICK a \in Attributes : ino' = [ino EXCEPT ![i] = a]
    BY <2>1
  <2>3. i \in Inodes /\ \A q \in Dirs \X Names : entry[q] # i
    BY DEF Free, TypeOK
  <2>4. DiskOK' /\ ino' \in [Inodes -> Attributes]
    BY <2>1, <2>2, <2>3 DEF TypeOK, DiskOK
  <2>5. Frame({d})
    BY <2>1, <2>2, <2>3 DEF TypeOK, Frame
  <2>6. Reuses
    BY <2>1, <2>2, <2>3 DEF TypeOK, Reuses
  <2>7. What({d})
    BY <2>1, <2>4, <2>5, <2>6 DEF Disturbs
  <2> QED
    BY <1>0, <2>7
<1>4. CASE RootRemoves
  <2>1. PICK d \in Dirs, n \in Names :
              /\ disturbed' = disturbed \cup {d}
              /\ entry' = [entry EXCEPT ![<<d, n>>] = Nothing] /\ UNCHANGED <<real, ino, reused>>
    BY <1>4 DEF RootRemoves, Change
  <2>2. DiskOK'
    BY <2>1 DEF TypeOK, DiskOK
  <2>3. What({d})
    BY <2>1, <2>2 DEF TypeOK, Disturbs, Frame, Reuses
  <2> QED
    BY <1>0, <2>3
<1>5. CASE RootChanges
  <2>1. PICK i \in Inodes, a \in Attributes :
              /\ disturbed' = disturbed \cup At(i)
              /\ ino' = [ino EXCEPT ![i] = a]
              /\ reused' = IF a.program = ino[i].program THEN reused ELSE reused \cup {i}
              /\ UNCHANGED <<real, entry>>
    BY <1>5 DEF RootChanges, Change
  <2>2. At(i) \subseteq Dirs /\ \A d \in Dirs \ At(i), n \in Names : entry[<<d, n>>] # i
    BY DEF At
  <2>3. DiskOK' /\ ino' \in [Inodes -> Attributes]
    BY <2>1 DEF TypeOK, DiskOK
  <2>4. Frame(At(i))
    BY <2>1, <2>2 DEF TypeOK, Frame
  <2>5. Reuses
    BY <2>1 DEF TypeOK, Reuses
  <2>6. What(At(i))
    BY <2>1, <2>2, <2>3, <2>4, <2>5 DEF Disturbs
  <2> QED
    BY <1>0, <2>6
<1> QED
  BY <1>0, <1>1, <1>2, <1>3, <1>4, <1>5 DEF Others

(* The steps of execute() disturb nothing. *)
LEMMA NoDisturbance ==
    ASSUME TypeOK, UNCHANGED <<disk, disturbed>>
    PROVE  Disturbs({})
BY DEF TypeOK, DiskOK, Disturbs, Frame, disk

(* What permit() does with one rule                                        *)
LEMMA OneRule ==
    ASSUME Match
    PROVE  /\ exe = "match"
           /\ \/ cand > Len(cfg.rules) /\ exe' = "denied" /\ UNCHANGED <<cand, info>>
              \/ /\ ~(cand > Len(cfg.rules)) /\ CommandMatches(cfg.rules[cand])
                 /\ exe' \in {"pin", "denied"}
                 /\ info' = [info EXCEPT !.rule = cand] /\ UNCHANGED cand
              \/ ~(cand > Len(cfg.rules)) /\ cand' = cand + 1 /\ UNCHANGED <<exe, info>>
BY DEF Match, Running

(* After the search the file stays the one that was found.                 *)
LEMMA FileKept ==
    ASSUME Shape, Gate \/ Permit \/ Match \/ Pin
    PROVE  SameFile(info') /\ info'.policy = info.policy
<1>1. CASE Gate
  BY <1>1 DEF Gate, SameFile
<1>2. CASE Permit
  BY <1>2, Fields DEF Permit
<1>3. CASE Match
  <2>1. CASE info' = info
    BY <2>1 DEF SameFile
  <2>2. CASE info' = [info EXCEPT !.rule = cand]
    <3>1. SameFile([info EXCEPT !.rule = cand]) /\ [info EXCEPT !.rule = cand].policy = info.policy
      BY Fields
    <3> QED
      BY <2>2, <3>1
  <2> QED
    BY <1>3, <2>1, <2>2 DEF Match
<1>4. CASE Pin
  <2>1. CASE info' = info
    BY <2>1 DEF SameFile
  <2>2. CASE \E x : info' = [info EXCEPT !.fd = x]
    <3>1. PICK x : info' = [info EXCEPT !.fd = x]
      BY <2>2
    <3>2. SameFile([info EXCEPT !.fd = x]) /\ [info EXCEPT !.fd = x].policy = info.policy
      BY Fields
    <3> QED
      BY <3>1, <3>2
  <2> QED
    BY <1>4, <2>1, <2>2 DEF Pin
<1> QED
  BY <1>1, <1>2, <1>3, <1>4

(* Every step keeps the types, of the disk too. *)
LEMMA ExeTypeStep ==
    ASSUME TypeOK, Shape, [Next]_vars
    PROVE  TypeOK'
<1>1. LoadTypeOK'
  BY LoadTypeStep DEF TypeOK
<1>2. CASE ExeStep
  <2>1. UNCHANGED <<real, entry, ino, disturbed, reused>>
    BY <1>2, ExeSteps DEF disk
  <2>2. exe' \in {"realpath", "stat", "parent", "gate", "permit", "match", "pin"} \cup ExeEnd
    BY <1>2 DEF ExeStep, Realpath, Stat, Parent, Gate, Permit, Match, Pin, Skip, ExeEnd, TypeOK
  <2>3. cand' \in Nat \ {0}
    BY <1>2 DEF ExeStep, Realpath, Stat, Parent, Gate, Permit, Match, Pin, Skip, TypeOK
  <2>4. error' \in {"NotFound", "PermissionDenied"}
    BY <1>2, Errors DEF ExeStep, Realpath, Stat, Parent, Gate, Permit, Match, Pin, Skip, TypeOK
  <2>5. exe' \in Validating => info'.inode \in Inodes
    <3>1. CASE Realpath
      BY <3>1 DEF Realpath, Validating, Skip
    <3>2. CASE Stat
      <4>1. CASE check_candidate(info.path) = "none"
        BY <3>2, <4>1, Errors, LookupFinds, ValidatedFields DEF Stat
      <4>2. CASE check_candidate(info.path) # "none"
        BY <3>2, <4>2 DEF Stat, Skip, Validating
      <4> QED
        BY <4>1, <4>2
    <3>3. CASE Parent
      BY <3>3 DEF Parent, Running, TypeOK, Validating
    <3>4. CASE Gate
      BY <3>4 DEF Gate, Running, TypeOK, Validating
    <3>5. CASE Permit
      BY <3>5 DEF Permit, Running, TypeOK, Validating
    <3>6. CASE Match
      BY <3>6, OneRule, FileKept DEF TypeOK, Validating, SameFile
    <3>7. CASE Pin
      BY <3>7 DEF Pin, Running, TypeOK, Validating
    <3> QED
      BY <1>2, <3>1, <3>2, <3>3, <3>4, <3>5, <3>6, <3>7 DEF ExeStep
  <2> QED
    BY <1>1, <2>1, <2>2, <2>3, <2>4, <2>5 DEF TypeOK, Validating
<1>3. CASE Others
  BY <1>1, <1>3, Disturbances DEF TypeOK, Disturbs, DiskOK, Reuses
<1>4. CASE UNCHANGED exeVars
  BY <1>1, <1>4 DEF TypeOK, exeVars
<1> QED
  BY <1>2, <1>3, <1>4 DEF Next, vars

(* A change of a file's content or a new file under its number is in       *)
(* reused; the inode pinned is the one that was validated.                 *)
LEMMA HeldStep ==
    ASSUME TypeOK, Shape, Held, [Next]_vars
    PROVE  Held'
<1>1. CASE ExeStep
  <2>0. UNCHANGED <<ino, reused>> /\ exe # "opened"
    BY <1>1, ExeSteps DEF disk, ExeEnd
  <2>1. CASE Realpath
    BY <2>1 DEF Realpath, Skip, Held, Validating
  <2>2. CASE Stat
    BY <2>0, <2>2, ValidatedFields DEF Stat, Skip, Held, Validating
  <2>3. CASE Parent
    BY <2>0, <2>3 DEF Parent, Running, Held, Validating
  <2>4. CASE Gate
    BY <2>0, <2>4 DEF Gate, Running, Held, Validating
  <2>5. CASE Permit
    BY <2>0, <2>5 DEF Permit, Running, Held, Validating
  <2>6. CASE Match
    BY <2>0, <2>6, OneRule, FileKept DEF Held, Validating, SameFile
  <2>7. CASE Pin
    BY <2>0, <2>7, Fields DEF Pin, Pins, Running, Held, Validating, SameFile
  <2> QED
    BY <1>1, <2>1, <2>2, <2>3, <2>4, <2>5, <2>6, <2>7 DEF ExeStep
<1>2. CASE Others
  <2>1. UNCHANGED <<exe, info>> /\ exe # "opened" /\ Reuses
    BY <1>2, Disturbances DEF ExeEnd
  <2> QED
    BY <2>1 DEF Held, TypeOK, Validating, Reuses
<1>3. CASE UNCHANGED exeVars
  BY <1>3 DEF Held, exeVars
<1> QED
  BY <1>1, <1>2, <1>3 DEF Next, vars

(* A directory that is moved or replaced is disturbed from then on. *)
LEMMA RealKeptStep ==
    ASSUME TypeOK, RealKept, [Next]_vars
    PROVE  RealKept'
<1>1. ASSUME NEW D, Disturbs(D)
      PROVE  RealKept'
  <2> SUFFICES ASSUME NEW d \in Dirs, real'[d] # NoDir, real'[d] \notin disturbed'
               PROVE  real'[real'[d]] = real'[d]
    BY DEF RealKept
  <2>1. PICK to \in Dirs : real'[d] = real[to]
    BY <1>1 DEF Disturbs
  <2>2. real[to] \in Dirs
    BY <2>1 DEF TypeOK
  <2>3. real[real[to]] = real[to]
    BY <1>1, <2>1 DEF RealKept, Disturbs
  <2>4. real'[real[to]] = real[real[to]]
    BY <1>1, <2>1, <2>2 DEF Disturbs, Frame
  <2> QED
    BY <2>1, <2>3, <2>4
<1>2. CASE Others
  BY <1>1, <1>2, Disturbances
<1>3. CASE UNCHANGED <<disk, disturbed>>
  BY <1>3 DEF RealKept, disk
<1> QED
  BY <1>2, <1>3, ExeSteps DEF Next, vars, exeVars, disk

(***************************************************************************)
(* Following links                                                         *)
(***************************************************************************)

(* One link                                                                *)
Ways == [end : Path, via : SUBSET (Dirs \cup {NoDir})]
OneLink(q) ==
    IF IsLink(q.end)
    THEN [end |-> entry[InReal(q.end)], via |-> q.via \cup {entry[InReal(q.end)][1]}]
    ELSE q

(* A path that is a link is a link to a path. *)
LEMMA LinkTo ==
    ASSUME DiskOK, NEW p \in Path
    PROVE  /\ InReal(p) \in Path
           /\ Present(p) => /\ p[1] \in Dirs /\ real[p[1]] \in Dirs
                            /\ InReal(p) = <<real[p[1]], p[2]>> /\ InReal(p) \in Dirs \X Names
           /\ IsLink(p) => /\ entry[InReal(p)] \in Dirs \X Names
                           /\ entry[InReal(p)] \in Path /\ entry[InReal(p)][1] \in Dirs
<1>1. PICK d \in Dirs \cup {NoDir}, n \in Names : p = <<d, n>>
  BY DEF Path
<1>2. InReal(p) \in Path
  BY <1>1 DEF InReal, DiskOK, Path
<1>3. ASSUME Present(p)
      PROVE  /\ p[1] \in Dirs /\ real[p[1]] \in Dirs
             /\ InReal(p) = <<real[p[1]], p[2]>> /\ InReal(p) \in Dirs \X Names
  BY <1>1, <1>3 DEF Present, InReal, DiskOK
<1>4. ASSUME IsLink(p)
      PROVE  /\ entry[InReal(p)] \in Dirs \X Names
             /\ entry[InReal(p)] \in Path /\ entry[InReal(p)][1] \in Dirs
  <2>1. entry[InReal(p)] \in Dirs \X Names
    BY <1>3, <1>4 DEF IsLink, Present, DiskOK
  <2> QED
    BY <2>1 DEF Path
<1> QED
  BY <1>2, <1>3, <1>4

(* Following one link more is a way again, and forgets no directory. *)
LEMMA OneLinkType ==
    ASSUME DiskOK, NEW q \in Ways, q.end[1] \in q.via
    PROVE  OneLink(q) \in Ways /\ OneLink(q).end[1] \in OneLink(q).via /\ q.via \subseteq OneLink(q).via
<1>1. q.end \in Path
  BY DEF Ways
<1>2. CASE IsLink(q.end)
  BY <1>1, <1>2, LinkTo DEF OneLink, Ways
<1>3. CASE ~IsLink(q.end)
  BY <1>3 DEF OneLink
<1> QED
  BY <1>2, <1>3

(* The stations of the way from p, and the directories passed on it *)
Way(f, p) ==
    /\ f \in [0..MaxLinks -> Ways]
    /\ f[0] = [end |-> p, via |-> {p[1]}]
    /\ \A k \in 1..MaxLinks : f[k] = OneLink(f[k - 1])
    /\ \A k \in 0..MaxLinks : f[k].end[1] \in f[k].via /\ f[k].via \subseteq f[MaxLinks].via
    /\ Follow(p) = f[MaxLinks]

(* Follow() takes these stations: its recursive function exists.           *)
LEMMA WayExists == DiskOK => \A p \in Path : \E f : Way(f, p)
<1> SUFFICES ASSUME DiskOK, NEW p \in Path PROVE \E f : Way(f, p)
  OBVIOUS
<1> DEFINE n == MaxLinks
           b == [end |-> p, via |-> {p[1]}]
           W == {q \in Ways : q.end[1] \in q.via}
           G == [x \in (1..n) \X W |-> OneLink(x[2])]
           Equation(f) == f = [k \in 0..n |-> IF k = 0 THEN b ELSE OneLink(f[k - 1])]
<1>0. n \in Nat
  BY ExecutableAssumption
<1>1. b \in W
  BY DEF Ways, Path
<1>2. G \in [(1..n) \X W -> W]
  BY OneLinkType
<1>3. PICK f \in [0..n -> W] : Iteration(f, n, b, G)
  <2> HIDE DEF n, b, W, G
  <2> QED
    BY <1>0, <1>1, <1>2, Iterates
<1>4. ASSUME NEW k \in 1..n
      PROVE  k - 1 \in 0..n /\ f[k] = OneLink(f[k - 1])
  <2>1. k - 1 \in 0..n
    BY <1>0
  <2>2. f[k] = G[<<k, f[k - 1]>>]
    <3> HIDE DEF G
    <3> QED
      BY <1>3 DEF Iteration
  <2>3. f[k - 1] \in W
    <3> HIDE DEF W
    <3> QED
      BY <2>1
  <2> QED
    BY <2>1, <2>2, <2>3
<1>5. Equation(f)
  <2>1. \A k \in 0..n : f[k] = IF k = 0 THEN b ELSE OneLink(f[k - 1])
    <3> HIDE DEF b
    <3> QED
      BY <1>0, <1>3, <1>4 DEF Iteration
  <2> QED
    BY <2>1
<1> DEFINE F == CHOOSE g : Equation(g)
<1>6. Equation(F)
  BY <1>5
<1>7. Follow(p) = F[n]
  BY DEF Follow, OneLink
<1> HIDE DEF F
<1>8. F \in [0..n -> W] /\ F[0] = b /\ \A k \in 1..n : F[k] = OneLink(F[k - 1])
  <2>1. DOMAIN F = 0..n /\ F[0] = b
    BY <1>0, <1>6
  <2>2. ASSUME NEW k \in 1..n
        PROVE  k \in 0..n /\ k # 0 /\ F[k] = OneLink(F[k - 1])
    <3>1. k \in 0..n /\ k # 0
      BY <1>0
    <3> HIDE DEF b
    <3> QED
      BY <1>6, <3>1
  <2> DEFINE T == {k \in 0..n : F[k] \in W}
  <2>3. 0 \in T
    <3> HIDE DEF W, b
    <3> QED
      BY <1>0, <1>1, <2>1
  <2>4. ASSUME NEW k \in 0..(n - 1), k \in T
        PROVE  k + 1 \in T
    <3>1. k + 1 \in 1..n /\ (k + 1) - 1 = k
      BY <1>0
    <3>2. F[k + 1] = OneLink(F[k])
      BY <2>2, <3>1
    <3>3. OneLink(F[k]) \in W
      BY <2>4, OneLinkType
    <3> HIDE DEF W
    <3> QED
      BY <1>0, <3>1, <3>2, <3>3
  <2>5. 0..n \subseteq T
    <3> HIDE DEF T, n
    <3> QED
      BY <1>0, <2>3, <2>4, UpTo
  <2> HIDE DEF W, b
  <2>6. F = [k \in 0..n |-> F[k]]
    BY <1>6
  <2> QED
    BY <2>1, <2>2, <2>5, <2>6
<1> HIDE DEF b
<1>9. ASSUME NEW j \in 0..n
      PROVE  F[j].via \subseteq F[n].via
  <2> DEFINE T == {k \in 0..n : j <= k => F[j].via \subseteq F[k].via}
  <2>1. 0 \in T
    <3>1. j <= 0 => j = 0
      OBVIOUS
    <3> QED
      BY <1>0, <3>1
  <2>2. ASSUME NEW k \in 0..(n - 1), k \in T
        PROVE  k + 1 \in T
    <3>1. k + 1 \in 1..n /\ (k + 1) - 1 = k /\ k \in 0..n /\ k + 1 \in 0..n
      BY <1>0
    <3>2. F[k + 1] = OneLink(F[k])
      BY <1>8, <3>1
    <3>3. F[k].via \subseteq F[k + 1].via
      BY <1>8, <3>1, <3>2, OneLinkType
    <3>4. j <= k + 1 => j <= k \/ j = k + 1
      OBVIOUS
    <3> QED
      BY <2>2, <3>1, <3>3, <3>4
  <2>3. 0..n \subseteq T
    <3> HIDE DEF T, n
    <3> QED
      BY <1>0, <2>1, <2>2, UpTo
  <2> QED
    BY <1>0, <2>3
<1>10. \A k \in 0..n : F[k] \in Ways /\ F[k].end[1] \in F[k].via
  BY <1>8
<1> HIDE DEF W
<1>11. Way(F, p)
  <2>1. F \in [0..n -> Ways]
    BY <1>8, <1>10
  <2> QED
    BY <1>7, <1>8, <1>9, <1>10, <2>1 DEF Way, b
<1> QED
  BY <1>11

(* The same of the state after a step                                      *)
LEMMA NextWayExists == (DiskOK => \A p \in Path : \E f : Way(f, p))'
BY WayExists, PTL

(* Where a way ends decides what a path is.                                *)
SamePlace(p, q) ==
    /\ Present(p) <=> Present(q)
    /\ Present(p) => InReal(p) = InReal(q)

(* Ways that end in the same place give the same answers. *)
LEMMA Ends ==
    ASSUME NEW p, NEW q, SamePlace(Follow(p).end, Follow(q).end), LookupError(p) = "none"
    PROVE  /\ realpath(p) = realpath(q) /\ Inode(p) = Inode(q)
           /\ LookupError(q) = "none" /\ check_candidate(q) = check_candidate(p)
<1>1. Present(Follow(p).end) /\ ~IsLink(Follow(p).end)
  BY DEF LookupError
<1>2. realpath(p) = realpath(q) /\ Inode(p) = Inode(q)
  BY <1>1 DEF SamePlace, realpath, Inode
<1>3. LookupError(q) = "none"
  BY <1>1 DEF SamePlace, LookupError, IsLink
<1> QED
  BY <1>2, <1>3 DEF check_candidate

(* What is no link leads to itself, and a path that leads somewhere is     *)
(* there itself.                                                           *)
LEMMA NoLink ==
    ASSUME DiskOK, NEW p \in Path, ~IsLink(p)
    PROVE  Follow(p) = [end |-> p, via |-> {p[1]}]
<1> DEFINE n == MaxLinks
           b == [end |-> p, via |-> {p[1]}]
<1>0. n \in Nat
  BY ExecutableAssumption
<1>1. PICK f : Way(f, p)
  BY WayExists
<1>2. OneLink(b) = b
  BY DEF OneLink
<1>3. f[0] = b /\ (\A k \in 1..n : f[k] = OneLink(f[k - 1])) /\ Follow(p) = f[n]
  BY <1>1 DEF Way
<1> HIDE DEF b
<1> DEFINE T == {k \in 0..n : f[k] = b}
<1>4. 0 \in T
  BY <1>0, <1>3
<1>5. ASSUME NEW k \in 0..(n - 1), k \in T
      PROVE  k + 1 \in T
  <2>1. k + 1 \in 1..n /\ (k + 1) - 1 = k /\ k + 1 \in 0..n
    BY <1>0
  <2> QED
    BY <1>2, <1>3, <1>5, <2>1
<1>6. 0..n \subseteq T
  <2> HIDE DEF T, n
  <2> QED
    BY <1>0, <1>4, <1>5, UpTo
<1> QED
  BY <1>0, <1>3, <1>6 DEF b

(* A path without an error has a directory that exists. *)
LEMMA LeadsSomewhere ==
    ASSUME DiskOK, NEW p \in Path, LookupError(p) = "none"
    PROVE  Present(p) /\ p[1] \in Dirs /\ real[p[1]] \in Dirs
<1>1. ASSUME ~Present(p)
      PROVE  FALSE
  <2>1. Follow(p).end = p
    BY <1>1, NoLink DEF IsLink
  <2> QED
    BY <1>1, <2>1 DEF LookupError
<1> QED
  BY <1>1, LinkTo

(* The directories on the way are those that decide where a path leads.    *)
LEMMA OnTheWay ==
    ASSUME DiskOK, NEW p \in Path, NEW f, Way(f, p), NEW k \in 0..MaxLinks
    PROVE  /\ f[k].end \in Path
           /\ f[k].end[1] # NoDir =>
                /\ f[k].end[1] \in Via(p)
                /\ real[f[k].end[1]] # NoDir => real[f[k].end[1]] \in Via(p)
           /\ p[1] # NoDir => p[1] \in Via(p) /\ (real[p[1]] # NoDir => real[p[1]] \in Via(p))
<1>0. MaxLinks \in Nat
  BY ExecutableAssumption
<1>1. f[k] \in Ways /\ f[k].end[1] \in Follow(p).via
  BY DEF Way
<1>2. p[1] \in Follow(p).via
  BY <1>0 DEF Way
<1> QED
  BY <1>1, <1>2 DEF Via, Ways

(* realpath() of what realpath() gave is the same path.                    *)
LEMMA RealName ==
    ASSUME DiskOK, RealKept, NEW p \in Path, LookupError(p) = "none", Via(p) \cap disturbed = {}
    PROVE  LET r == realpath(p) IN
           /\ r \in Path /\ realpath(r) = r
           /\ Inode(r) = Inode(p) /\ LookupError(r) = "none"
           /\ check_candidate(r) = check_candidate(p)
<1> DEFINE e == Follow(p).end
           r == realpath(p)
<1>0. MaxLinks \in 0..MaxLinks
  BY ExecutableAssumption
<1>1. Present(e) /\ ~IsLink(e)
  BY DEF LookupError
<1>2. PICK f : Way(f, p)
  BY WayExists
<1>3. e \in Path /\ (e[1] # NoDir /\ real[e[1]] # NoDir => real[e[1]] \in Via(p))
  BY <1>0, <1>2, OnTheWay DEF Way
<1> HIDE DEF e
<1>4. /\ e[1] \in Dirs /\ real[e[1]] \in Dirs /\ real[e[1]] \notin disturbed
      /\ InReal(e) = <<real[e[1]], e[2]>> /\ InReal(e) \in Path
  BY <1>1, <1>3, LinkTo, ExecutableAssumption
<1>5. real[real[e[1]]] = real[e[1]]
  BY <1>4, ExecutableAssumption DEF RealKept
<1>6. r = InReal(e)
  BY DEF realpath, e
<1> HIDE DEF r
<1>7. InReal(r) = r
  BY <1>4, <1>5, <1>6 DEF InReal
<1>8. SamePlace(e, r)
  BY <1>1, <1>4, <1>5, <1>6, <1>7, ExecutableAssumption DEF SamePlace, Present
<1>9. ~IsLink(r)
  BY <1>1, <1>8 DEF IsLink, SamePlace
<1>10. Follow(r).end = r
  BY <1>4, <1>6, <1>9, NoLink
<1>11. SamePlace(Follow(p).end, Follow(r).end)
  BY <1>8, <1>10 DEF e
<1>12. Inode(r) = Inode(p) /\ LookupError(r) = "none" /\ check_candidate(r) = check_candidate(p)
  BY <1>11, Ends
<1>13. realpath(r) = r
  BY <1>7, <1>10 DEF realpath
<1> QED
  BY <1>4, <1>6, <1>12, <1>13 DEF r

(* The policy path leads where the candidate leads, and is its own policy  *)
(* path.                                                                   *)
LEMMA PolicyName ==
    ASSUME DiskOK, RealKept, NEW p \in Path, LookupError(p) = "none", Via(p) \cap disturbed = {}
    PROVE  LET q == policy_path(p) IN
           /\ q \in Path /\ q[1] # NoDir /\ q[2] = p[2] /\ policy_path(q) = q
           /\ realpath(q) = realpath(p) /\ Inode(q) = Inode(p)
           /\ LookupError(q) = "none" /\ check_candidate(q) = check_candidate(p)
<1> DEFINE q == policy_path(p)
           n == MaxLinks
<1>0. n \in Nat
  BY ExecutableAssumption
<1>1. Present(p) /\ p[1] \in Dirs /\ real[p[1]] \in Dirs
  BY LeadsSomewhere
<1>2. PICK f : Way(f, p)
  BY WayExists
<1>3. real[p[1]] \notin disturbed
  <2>1. 0 \in 0..MaxLinks /\ p[1] # NoDir /\ real[p[1]] # NoDir
    BY <1>0, <1>1, ExecutableAssumption
  <2>2. real[p[1]] \in Via(p)
    BY <1>2, <2>1, OnTheWay
  <2> QED
    BY <2>2
<1>4. real[real[p[1]]] = real[p[1]]
  BY <1>1, <1>3, ExecutableAssumption DEF RealKept
<1>5. q = <<real[p[1]], p[2]>> /\ q \in Path
  BY <1>1, LinkTo DEF policy_path
<1> HIDE DEF q
<1>6. q[1] # NoDir /\ q[2] = p[2] /\ InReal(q) = q
  BY <1>1, <1>4, <1>5, ExecutableAssumption DEF InReal
<1>7. SamePlace(p, q)
  BY <1>1, <1>4, <1>5, <1>6, LinkTo, ExecutableAssumption DEF SamePlace, Present
<1>8. PICK g : Way(g, q)
  BY <1>5, WayExists
<1> DEFINE T == {k \in 0..n : SamePlace(f[k].end, g[k].end)}
<1>9. 0 \in T
  BY <1>0, <1>2, <1>7, <1>8 DEF Way
<1>10. ASSUME NEW k \in 0..(n - 1), k \in T
       PROVE  k + 1 \in T
  <2>1. k + 1 \in 1..n /\ (k + 1) - 1 = k /\ k + 1 \in 0..n
    BY <1>0
  <2>2. f[k + 1] = OneLink(f[k]) /\ g[k + 1] = OneLink(g[k])
    BY <1>2, <1>8, <2>1 DEF Way
  <2>3. SamePlace(f[k].end, g[k].end)
    BY <1>10
  <2>4. IsLink(f[k].end) <=> IsLink(g[k].end)
    BY <2>3 DEF SamePlace, IsLink
  <2>5. CASE IsLink(f[k].end)
    <3>1. f[k + 1].end = g[k + 1].end
      BY <2>2, <2>3, <2>4, <2>5 DEF OneLink, SamePlace, IsLink
    <3>2. SamePlace(f[k + 1].end, g[k + 1].end)
      BY <3>1 DEF SamePlace
    <3> QED
      BY <2>1, <3>2
  <2>6. CASE ~IsLink(f[k].end)
    <3>1. f[k + 1] = f[k] /\ g[k + 1] = g[k]
      BY <2>2, <2>4, <2>6 DEF OneLink
    <3> QED
      BY <2>1, <2>3, <3>1
  <2> QED
    BY <2>5, <2>6
<1>11. n \in T
  <2> HIDE DEF T, n
  <2>1. 0..n \subseteq T
    BY <1>0, <1>9, <1>10, UpTo
  <2> QED
    BY <1>0, <2>1
<1>12. SamePlace(Follow(p).end, Follow(q).end)
  BY <1>2, <1>8, <1>11 DEF Way
<1>13. /\ realpath(p) = realpath(q) /\ Inode(p) = Inode(q)
       /\ LookupError(q) = "none" /\ check_candidate(q) = check_candidate(p)
  BY <1>12, Ends
<1> QED
  BY <1>5, <1>6, <1>13 DEF q, policy_path

(***************************************************************************)
(* What others cannot disturb                                              *)
(***************************************************************************)

(* A path looks the same after a step.                                     *)
SameEntry(p) ==
    /\ InReal(p)' = InReal(p) /\ Present(p)' = Present(p) /\ IsLink(p)' = IsLink(p)
    /\ Present(p) => entry'[InReal(p)] = entry[InReal(p)]
    /\ Present(p) /\ ~IsLink(p) => ino'[entry[InReal(p)]] = ino[entry[InReal(p)]]

(* A path whose directories were left alone looks the same. *)
LEMMA SameEntries ==
    ASSUME DiskOK, DiskOK', NEW D, Frame(D), NEW p \in Path,
           p[1] # NoDir => p[1] \notin D,
           p[1] # NoDir /\ real'[p[1]] # NoDir => real'[p[1]] \notin D
    PROVE  SameEntry(p)
<1>1. PICK d \in Dirs \cup {NoDir}, n \in Names : p = <<d, n>>
  BY DEF Path
<1>2. CASE d = NoDir
  BY <1>1, <1>2 DEF SameEntry, InReal, Present, IsLink
<1>3. CASE d # NoDir
  <2>1. d \in Dirs \ D /\ real'[d] = real[d]
    BY <1>1, <1>3 DEF Frame
  <2>2. CASE real[d] = NoDir
    BY <1>1, <1>3, <2>1, <2>2 DEF SameEntry, InReal, Present, IsLink
  <2>3. CASE real[d] # NoDir
    <3>1. real[d] \in Dirs \ D
      BY <1>1, <1>3, <2>1, <2>3 DEF DiskOK
    <3>2. InReal(p) = <<real[d], n>> /\ InReal(p)' = <<real[d], n>>
      BY <1>1, <1>3, <2>1, <2>3 DEF InReal
    <3>3. /\ entry'[<<real[d], n>>] = entry[<<real[d], n>>]
          /\ entry[<<real[d], n>>] \in Inodes =>
               ino'[entry[<<real[d], n>>]] = ino[entry[<<real[d], n>>]]
      BY <3>1 DEF Frame
    <3>4. Present(p)' = Present(p) /\ IsLink(p)' = IsLink(p)
      BY <1>1, <1>3, <2>1, <2>3, <3>2, <3>3 DEF Present, IsLink
    <3> QED
      BY <3>2, <3>3, <3>4 DEF SameEntry, IsLink
  <2> QED
    BY <2>2, <2>3
<1> QED
  BY <1>2, <1>3

(* A way that avoids the directories a step disturbs is not changed by it. *)
LEMMA SameWay ==
    ASSUME DiskOK, DiskOK', NEW D, Frame(D), NEW p \in Path, Via(p)' \cap D = {}
    PROVE  /\ Follow(p)' = Follow(p) /\ Via(p)' = Via(p)
           /\ \E e \in Path : Follow(p).end = e /\ SameEntry(e)
           /\ SameEntry(p)
<1> DEFINE n == MaxLinks
<1>0. n \in Nat
  BY ExecutableAssumption
<1>1. PICK f : Way(f, p)
  BY WayExists
<1>2. PICK g : Way(g, p)'
  BY NextWayExists
<1>3. /\ f[0] = [end |-> p, via |-> {p[1]}] /\ g[0] = [end |-> p, via |-> {p[1]}]
      /\ \A k \in 1..n : f[k] = OneLink(f[k - 1]) /\ g[k] = OneLink(g[k - 1])'
      /\ \A k \in 0..n : g[k] \in Ways /\ g[k].end[1] \in g[n].via
      /\ Follow(p) = f[n] /\ Follow(p)' = g[n]
  BY <1>1, <1>2 DEF Way
<1>4. Via(p)' = LET v == g[n].via \ {NoDir} IN (v \cup {real'[d] : d \in v}) \ {NoDir}
  BY <1>3 DEF Via
<1>5. ASSUME NEW e \in Path, e[1] \in g[n].via
      PROVE  SameEntry(e)
  <2>1. e[1] # NoDir => e[1] \in Via(p)'
    BY <1>4, <1>5
  <2>2. e[1] # NoDir /\ real'[e[1]] # NoDir => real'[e[1]] \in Via(p)'
    BY <1>4, <1>5
  <2> QED
    BY <1>5, <2>1, <2>2, SameEntries
<1> DEFINE T == {k \in 0..n : f[k] = g[k]}
<1>6. 0 \in T
  BY <1>0, <1>3
<1>7. ASSUME NEW k \in 0..(n - 1), k \in T
      PROVE  k + 1 \in T
  <2>1. k + 1 \in 1..n /\ (k + 1) - 1 = k /\ k \in 0..n /\ k + 1 \in 0..n
    BY <1>0
  <2>2. f[k + 1] = OneLink(f[k]) /\ g[k + 1] = OneLink(g[k])' /\ f[k] = g[k]
    BY <1>3, <1>7, <2>1
  <2>3. SameEntry(g[k].end)
    BY <1>3, <1>5, <2>1 DEF Ways
  <2>4. OneLink(g[k])' = OneLink(g[k])
    BY <2>3 DEF OneLink, SameEntry, IsLink
  <2> QED
    BY <2>1, <2>2, <2>4
<1>8. n \in T
  <2> HIDE DEF T, n
  <2>1. 0..n \subseteq T
    BY <1>0, <1>6, <1>7, UpTo
  <2> QED
    BY <1>0, <2>1
<1>9. Follow(p)' = Follow(p) /\ Follow(p) = g[n]
  BY <1>3, <1>8
<1>10. ASSUME NEW d \in g[n].via \ {NoDir}
       PROVE  real'[d] = real[d]
  <2>1. d \in Dirs /\ d \in Via(p)'
    BY <1>0, <1>3, <1>4 DEF Ways
  <2> QED
    BY <2>1 DEF Frame
<1>11. Via(p)' = Via(p)
  BY <1>4, <1>9, <1>10 DEF Via
<1>12. Follow(p).end = g[n].end /\ g[n].end \in Path /\ SameEntry(g[n].end)
  <2>1. n \in 0..n
    BY <1>0
  <2> QED
    BY <1>3, <1>5, <1>9, <2>1 DEF Ways
<1>13. SameEntry(p)
  <2>1. 0 \in 0..n /\ g[0].end = p
    BY <1>0, <1>3
  <2> QED
    BY <1>3, <1>5, <2>1
<1> QED
  BY <1>9, <1>11, <1>12, <1>13

(* Every look at a path gives what it gave before.                         *)
SameLook(p) ==
    /\ InReal(p)' = InReal(p) /\ realpath(p)' = realpath(p)
    /\ LookupError(p)' = LookupError(p) /\ check_candidate(p)' = check_candidate(p)
    /\ LookupError(p) = "none" => Inode(p)' = Inode(p)

(* A path whose way leads through no disturbed directory gives the same    *)
(* answers, by the same way.                                               *)
LEMMA SameLooks ==
    ASSUME DiskOK, DiskOK', NEW D, Frame(D), NEW p \in Path, Via(p)' \cap D = {}
    PROVE  SameLook(p) /\ Via(p)' = Via(p)
<1>1. PICK e \in Path : Follow(p).end = e /\ SameEntry(e)
  BY SameWay
<1>2. Follow(p)' = Follow(p) /\ Via(p)' = Via(p) /\ SameEntry(p)
  BY SameWay
<1>3. Follow(p)'.end = e
  BY <1>1, <1>2
<1>4. InReal(p)' = InReal(p)
  BY <1>2 DEF SameEntry
<1>5. realpath(p)' = InReal(e)' /\ realpath(p) = InReal(e)
  BY <1>1, <1>3 DEF realpath, InReal
<1>6. realpath(p)' = realpath(p)
  BY <1>1, <1>5 DEF SameEntry
<1>7. LookupError(p)' = LookupError(p)
  BY <1>1, <1>3 DEF LookupError, SameEntry, Present, IsLink, InReal
<1>8. ASSUME LookupError(p) = "none"
      PROVE  Inode(p)' = Inode(p) /\ ino'[Inode(p)] = ino[Inode(p)]
  <2>1. Present(e) /\ ~IsLink(e)
    BY <1>1, <1>8 DEF LookupError
  <2>2. Inode(p)' = entry'[InReal(e)] /\ Inode(p) = entry[InReal(e)]
    BY <1>1, <1>5, <1>6 DEF Inode
  <2> QED
    BY <1>1, <2>1, <2>2 DEF SameEntry
<1>9. check_candidate(p)' = check_candidate(p)
  BY <1>7, <1>8 DEF check_candidate, SafeExecutable
<1> QED
  BY <1>2, <1>4, <1>6, <1>7, <1>8, <1>9 DEF SameLook

(* If nothing on the ways of a command was disturbed up to now, the step   *)
(* before did not disturb them either.                                     *)
LEMMA SettledSame ==
    ASSUME TypeOK, NEW D, Disturbs(D), cfg' = cfg, NEW c \in Path, Settled({c})'
    PROVE  /\ Settled({c}) /\ Candidates(c)' = Candidates(c)
           /\ \A i \in 1..Len(Candidates(c)), p \in Path : p = Candidates(c)[i] => SameLook(p)
           /\ \A i \in 1..Len(Candidates(c)) :
                check_candidate(Candidates(c)[i])' = check_candidate(Candidates(c)[i])
           /\ \A p \in Path : Resolves(c, p)' <=> Resolves(c, p)
<1> DEFINE C == Candidates(c)
<1>1. C' = C
  BY DEF Candidates
<1>2. LoadTypeOK /\ DiskOK /\ DiskOK' /\ Frame(D) /\ disturbed' = disturbed \cup D
  BY DEF TypeOK, DiskOK, Disturbs
<1>3. Len(C) \in Nat /\ \A i \in 1..Len(C) : C[i] \in Path
  BY <1>2, CandidatesListed
<1> HIDE DEF C
<1>4. ASSUME NEW i \in 1..Len(C), NEW p \in Path, p = C[i]
      PROVE  SameLook(p) /\ Via(p) \cap disturbed = {}
  <2>1. p = C'[i]
    BY <1>1, <1>4
  <2>2. Via(p)' \cap disturbed' = {}
    BY <1>1, <2>1 DEF Settled, C
  <2>3. SameLook(p) /\ Via(p)' = Via(p)
    BY <1>2, <2>2, SameLooks
  <2> QED
    BY <1>2, <2>2, <2>3
<1>5. \A i \in 1..Len(C) : Via(C[i]) \cap disturbed = {}
  BY <1>3, <1>4
<1>6. Settled({c})
  BY <1>5 DEF Settled, C
<1>7. \A i \in 1..Len(C) : check_candidate(C[i])' = check_candidate(C[i])
  <2> SUFFICES ASSUME NEW i \in 1..Len(C)
               PROVE  check_candidate(C[i])' = check_candidate(C[i])
    OBVIOUS
  <2>1. PICK p \in Path : p = C[i]
    BY <1>3
  <2>2. check_candidate(p)' = check_candidate(p)
    BY <1>4, <2>1 DEF SameLook
  <2>3. p = C'[i]
    BY <1>1, <2>1
  <2>4. check_candidate(C[i])' = check_candidate(p)'
    <3>1. LookupError(C[i])' = LookupError(p)'
      BY <2>3 DEF LookupError, Follow, InReal, IsLink, Present
    <3>2. realpath(C[i])' = realpath(p)'
      BY <2>3 DEF Follow, realpath, InReal, IsLink, Present
    <3>3. Inode(C[i])' = Inode(p)'
      BY <3>2 DEF Inode
    <3> QED
      BY <3>1, <3>3 DEF check_candidate
  <2> QED
    BY <2>1, <2>2, <2>4
<1>8. ASSUME NEW p \in Path
      PROVE  Resolves(c, p)' <=> Resolves(c, p)
  <2> DEFINE First(i) == /\ p = C[i] /\ check_candidate(p) = "none"
                         /\ \A j \in 1..(i - 1) : check_candidate(C[j]) # "none"
  <2>1. Resolves(c, p) <=> \E i \in 1..Len(C) : First(i)
    BY DEF Resolves, C
  <2>2. Resolves(c, p)' <=> \E i \in 1..Len(C) : First(i)'
    BY <1>1 DEF Resolves, C
  <2>3. ASSUME NEW i \in 1..Len(C)
        PROVE  First(i)' <=> First(i)
    <3>1. \A j \in 1..(i - 1) : j \in 1..Len(C)
      BY <1>3
    <3>2. p = C[i] <=> p = C'[i]
      BY <1>1
    <3>3. p = C[i] => check_candidate(p)' = check_candidate(p)
      BY <1>4 DEF SameLook
    <3> QED
      BY <1>7, <3>1, <3>2, <3>3
  <2> QED
    BY <2>1, <2>2, <2>3
<1> QED
  BY <1>1, <1>4, <1>6, <1>7, <1>8 DEF C

(***************************************************************************)
(* The search                                                              *)
(***************************************************************************)
LEMMA ResultsOfSearch ==
    ASSUME LoadTypeOK, NEW e
    PROVE  Exhausted(e) <=> Failed(Len(Candidates(request.cmd)) + 1, e)
<1> DEFINE C == Candidates(request.cmd)
<1>1. Len(C) \in Nat /\ DOMAIN C = 1..Len(C)
  <2>1. request.cmd \in Path
    BY Requested
  <2>2. C \in Seq(Path)
    BY <2>1, CandidatesListed
  <2> HIDE DEF C
  <2> QED
    BY <2>2
<1>2. (Len(C) + 1) - 1 = Len(C)
  BY <1>1
<1>3. ToSet(C) = {C[i] : i \in 1..Len(C)}
  BY <1>1 DEF ToSet
<1>4. \A y : y \in {check_candidate(p) : p \in ToSet(C)} <=>
             \E i \in 1..Len(C) : y = check_candidate(C[i])
  BY <1>3
<1> HIDE DEF C
<1> QED
  BY <1>2, <1>4 DEF Exhausted, Failed, C

(* What the search has found out does not change if nothing on its ways    *)
(* was disturbed.                                                          *)
LEMMA SearchSame ==
    ASSUME TypeOK, NEW D, Disturbs(D), UNCHANGED <<host, cfg>>, Settled({request.cmd})'
    PROVE  /\ Settled({request.cmd})
           /\ Candidates(request.cmd)' = Candidates(request.cmd)
           /\ \A e : \A n \in 1..(Len(Candidates(request.cmd)) + 1) : Failed(n, e)' <=> Failed(n, e)
           /\ \A x, y : \A n \in Nat \ {0} :
                /\ Found(n, x)' <=> Found(n, x)
                /\ Found(n, x) => (Chosen(n, y)' <=> Chosen(n, y))
           /\ \A i : FoundFirst(i) => FoundFirst(i)'
<1>1. PICK c \in Path : c = request.cmd /\ c = request'.cmd
  <2>1. request.cmd \in Path
    BY Requested DEF TypeOK
  <2> QED
    BY <2>1 DEF request
<1> DEFINE C == Candidates(c)
<1>2. Settled({c})'
  BY <1>1 DEF Settled, Candidates
<1>3. /\ Settled({c}) /\ C' = C
      /\ \A i \in 1..Len(C), p \in Path : p = C[i] => SameLook(p)
      /\ \A i \in 1..Len(C) : check_candidate(C[i])' = check_candidate(C[i])
      /\ \A p \in Path : Resolves(c, p)' <=> Resolves(c, p)
  BY <1>2, SettledSame
<1>4. Len(C) \in Nat /\ \A i \in 1..Len(C) : C[i] \in Path
  BY CandidatesListed DEF TypeOK
<1>5. C = Candidates(request.cmd) /\ C' = Candidates(request.cmd)'
  BY <1>1 DEF Candidates
<1> HIDE DEF C
<1>6. ASSUME NEW n \in 1..(Len(C) + 1), NEW e
      PROVE  Failed(n, e)' <=> Failed(n, e)
  <2>1. \A j \in 1..(n - 1) : j \in 1..Len(C)
    BY <1>4
  <2> QED
    BY <1>3, <1>5, <2>1 DEF Failed
<1>7. ASSUME NEW n \in 1..Len(C)
      PROVE  /\ LookupError(C[n])' = LookupError(C[n]) /\ realpath(C[n])' = realpath(C[n])
             /\ LookupError(C[n]) = "none" => Inode(C[n])' = Inode(C[n])
  <2>1. PICK p \in Path : p = C[n]
    BY <1>4
  <2>2. SameLook(p)
    BY <1>3, <2>1
  <2>3. p = C'[n]
    BY <1>3, <2>1
  <2>4. LookupError(C[n])' = LookupError(p)'
    BY <2>3 DEF LookupError, Follow, InReal, IsLink, Present
  <2>5. realpath(C[n])' = realpath(p)'
    BY <2>3 DEF Follow, realpath, InReal, IsLink, Present
  <2>6. Inode(C[n])' = Inode(p)'
    BY <2>5 DEF Inode
  <2> QED
    BY <2>1, <2>2, <2>4, <2>5, <2>6 DEF SameLook
<1>8. ASSUME NEW n \in Nat \ {0}, NEW x, NEW y
      PROVE  /\ Found(n, x)' <=> Found(n, x)
             /\ Found(n, x) => (Chosen(n, y)' <=> Chosen(n, y))
  <2>1. n <= Len(C) <=> n \in 1..Len(C)
    BY <1>4
  <2>2. Found(n, x)' <=> Found(n, x)
    BY <1>3, <1>5, <1>7, <2>1 DEF Found
  <2>3. Found(n, x) => (Chosen(n, y)' <=> Chosen(n, y))
    BY <1>3, <1>5, <1>7, <2>1 DEF Found, Chosen
  <2> QED
    BY <2>2, <2>3
<1>9. ASSUME NEW i, FoundFirst(i)
      PROVE  FoundFirst(i)'
  <2>1. PICK p \in Path : /\ Resolves(c, p) /\ i.path = realpath(p)
                          /\ i.inode = Inode(p) /\ i.policy = policy_path(p)
    BY <1>1, <1>9 DEF FoundFirst
  <2>2. SameLook(p) /\ LookupError(p) = "none"
    BY <1>3, <2>1, Errors DEF Resolves, C
  <2>3. Resolves(c, p)' /\ i.path = realpath(p)' /\ i.inode = Inode(p)' /\ i.policy = policy_path(p)'
    BY <1>3, <2>1, <2>2 DEF SameLook, policy_path
  <2>4. Resolves(request.cmd, p)' <=> Resolves(c, p)'
    BY <1>1, <1>3, <1>5 DEF Resolves, C
  <2> QED
    BY <2>3, <2>4 DEF FoundFirst
<1>10. Settled({request.cmd})
  BY <1>1, <1>3
<1> QED
  BY <1>3, <1>5, <1>6, <1>8, <1>9, <1>10

(* The search goes on with the next candidate, or ends with the first that *)
(* is safe.                                                                *)
LEMMA NextCandidate ==
    ASSUME NEW n \in Nat \ {0}, NEW e, Failed(n, e),
           NEW y, y = check_candidate(Candidates(request.cmd)[n]),
           y \in {"NotFound", "PermissionDenied"}, e \in {"NotFound", "PermissionDenied"}
    PROVE  Failed(n + 1, IF e = "NotFound" THEN y ELSE e)
<1>1. \A j : j \in 1..((n + 1) - 1) <=> j \in 1..(n - 1) \/ j = n
  OBVIOUS
<1> QED
  BY <1>1 DEF Failed

(* The candidate that was chosen, after all before it failed, is the       *)
(* first one that can be executed.                                         *)
LEMMA FirstCandidate ==
    ASSUME LoadTypeOK, NEW n \in Nat \ {0}, NEW e, NEW i,
           Failed(n, e), Found(n, i.path), Chosen(n, i.inode),
           i.policy = policy_path(Candidates(request.cmd)[n])
    PROVE  FoundFirst(i)
<1> DEFINE C == Candidates(request.cmd)
<1>1. n \in 1..Len(C) /\ C[n] \in Path
  BY Requested, CandidatesListed DEF Found
<1>2. Resolves(request.cmd, C[n])
  BY <1>1 DEF Failed, Chosen, Resolves
<1> QED
  BY <1>1, <1>2 DEF FoundFirst, Found, Chosen

(* What the search knows, for the settled command                          *)
SearchKnows ==
    /\ exe \in {"realpath", "stat", "parent"} =>
         cand <= Len(Candidates(request.cmd)) + 1 /\ Failed(cand, error)
    /\ exe \in {"stat", "parent"} => Found(cand, info.path)
    /\ exe = "parent" => Chosen(cand, info.inode)
    /\ exe \in {"gate", "permit", "match", "pin", "opened"} => FoundFirst(info)
    /\ exe = "rejected" => Failed(Len(Candidates(request.cmd)) + 1, error)

(* The two conjuncts of the invariant on the search are SearchKnows, where *)
(* the configuration is loaded and the command settled.                    *)
LEMMA SearchMeans ==
    LoadTypeOK =>
        (Searching /\ SearchFindsFirst <=> (load = "loaded" /\ Settled({request.cmd}) => SearchKnows))
<1> SUFFICES ASSUME LoadTypeOK
             PROVE  Searching /\ SearchFindsFirst
                      <=> (load = "loaded" /\ Settled({request.cmd}) => SearchKnows)
  OBVIOUS
<1>1. Exhausted(error) <=> Failed(Len(Candidates(request.cmd)) + 1, error)
  BY ResultsOfSearch
<1>2. SearchFindsFirst <=>
        (load = "loaded" /\ Settled({request.cmd}) =>
            /\ exe \in {"gate", "permit", "match", "pin", "opened"} => FoundFirst(info)
            /\ exe = "rejected" => Exhausted(error))
  BY DEF SearchFindsFirst, FoundFirst, Exhausted
<1> QED
  BY <1>1, <1>2 DEF Searching, SearchKnows

(* The same of the next state. *)
LEMMA NextSearchMeans ==
    (LoadTypeOK =>
        (Searching /\ SearchFindsFirst
            <=> (load = "loaded" /\ Settled({request.cmd}) => SearchKnows)))'
BY SearchMeans, PTL

(* What was known of the search is known after a step that disturbed       *)
(* nothing on its ways.                                                    *)
LEMMA SearchKept ==
    ASSUME TypeOK, SearchKnows, NEW D, Disturbs(D), UNCHANGED <<host, cfg>>,
           Settled({request.cmd})', UNCHANGED <<exe, cand, error, info>>
    PROVE  SearchKnows'
<1>1. PICK n \in Nat \ {0} : n = cand /\ n = cand'
  BY DEF TypeOK
<1>2. PICK e : e = error /\ e = error'
  OBVIOUS
<1>3. PICK i : i = info /\ i = info'
  OBVIOUS
<1>4. PICK L \in Nat : L = Len(Candidates(request.cmd)) /\ L = Len(Candidates(request.cmd))'
  BY Requested, CandidatesListed, SearchSame DEF TypeOK
<1>5. /\ \A m \in 1..(L + 1) : Failed(m, e)' <=> Failed(m, e)
      /\ Found(n, i.path)' <=> Found(n, i.path)
      /\ Found(n, i.path) => (Chosen(n, i.inode)' <=> Chosen(n, i.inode))
      /\ FoundFirst(i) => FoundFirst(i)'
  BY <1>4, SearchSame
<1>6. exe \in {"realpath", "stat", "parent"} => n <= L + 1 /\ Failed(n, e)'
  <2>1. n <= L + 1 => n \in 1..(L + 1)
    BY <1>4
  <2>2. exe \in {"realpath", "stat", "parent"} => n <= L + 1 /\ Failed(n, e)
    BY <1>1, <1>2, <1>4 DEF SearchKnows
  <2> QED
    BY <1>5, <2>1, <2>2
<1>7. exe \in {"stat", "parent"} => Found(n, i.path)'
  BY <1>1, <1>3, <1>5 DEF SearchKnows
<1>8. exe = "parent" => Chosen(n, i.inode)'
  BY <1>1, <1>3, <1>5 DEF SearchKnows
<1>9. exe \in {"gate", "permit", "match", "pin", "opened"} => FoundFirst(i)'
  BY <1>3, <1>5 DEF SearchKnows
<1>10. exe = "rejected" => Failed(L + 1, e)'
  <2>1. L + 1 \in 1..(L + 1)
    BY <1>4
  <2>2. exe = "rejected" => Failed(L + 1, e)
    BY <1>2, <1>4 DEF SearchKnows
  <2> QED
    BY <1>5, <2>1, <2>2
<1>11. /\ Failed(cand, error)' <=> Failed(n, e)'
       /\ Found(cand, info.path)' <=> Found(n, i.path)'
       /\ Chosen(cand, info.inode)' <=> Chosen(n, i.inode)'
       /\ FoundFirst(info)' <=> FoundFirst(i)'
       /\ Failed(Len(Candidates(request.cmd)) + 1, error)' <=> Failed(L + 1, e)'
  BY <1>1, <1>2, <1>3, <1>4 DEF Failed, Found, Chosen, FoundFirst
<1> QED
  BY <1>1, <1>4, <1>6, <1>7, <1>8, <1>9, <1>10, <1>11 DEF SearchKnows

(* What a step leaves of what the lookups depend on *)
LEMMA Kinds ==
    ASSUME TypeOK, [Next]_vars
    PROVE  \/ load # "loaded" /\ UNCHANGED exeVars
           \/ UNCHANGED <<load, host, cfg>> /\ (\E D : Disturbs(D))
              /\ (ExeStep \/ UNCHANGED <<exe, cand, error, info>>)
<1>1. CASE LoadNext /\ UNCHANGED exeVars
  BY <1>1 DEF LoadNext, LoadStep, Exists, WalkConfig, WalkSanctuary, Symlink, Open, Read,
              Directory, Validate, UserEdit, RootEdit, LoadEnd
<1>2. CASE ExeStep
  BY <1>2, ExeSteps, OtherSteps, NoDisturbance
<1>3. CASE Others
  BY <1>3, OtherSteps, Disturbances
<1>4. CASE UNCHANGED vars
  BY <1>4, NoDisturbance DEF vars, loadVars, exeVars, disk
<1> QED
  BY <1>1, <1>2, <1>3, <1>4 DEF Next

(* A step of the search extends what is known by one candidate; a step of  *)
(* others disturbs nothing that a settled command leads through.           *)
LEMMA SearchStep ==
    ASSUME TypeOK, TypeOK', Shape, NotBefore, RealKept, Searching, SearchFindsFirst, [Next]_vars
    PROVE  Searching' /\ SearchFindsFirst'
<1>0. LoadTypeOK /\ LoadTypeOK' /\ DiskOK
  BY DEF TypeOK, DiskOK
<1> SUFFICES ASSUME load' = "loaded", Settled({request.cmd})'
             PROVE  SearchKnows'
  BY <1>0, NextSearchMeans
<1>1. CASE load # "loaded" /\ UNCHANGED exeVars
  <2>1. exe' = "realpath" /\ cand' = 1 /\ error' = "NotFound"
    BY <1>1 DEF NotBefore, exeVars
  <2>2. Len(Candidates(request.cmd))' \in Nat
    <3>1. (LoadTypeOK => Len(Candidates(request.cmd)) \in Nat)'
      BY HowMany, PTL
    <3> QED
      BY <1>0, <3>1
  <2>3. Failed(cand, error)'
    BY <2>1 DEF Failed
  <2> QED
    BY <2>1, <2>2, <2>3 DEF SearchKnows
<1>2. ASSUME UNCHANGED <<load, host, cfg>>, NEW D, Disturbs(D),
             UNCHANGED <<exe, cand, error, info>>
      PROVE  SearchKnows'
  <2>1. Settled({request.cmd})
    BY <1>2, SearchSame
  <2>2. SearchKnows
    BY <1>0, <1>2, <2>1, SearchMeans
  <2> QED
    BY <1>2, <2>2, SearchKept
<1>3. CASE UNCHANGED <<load, host, cfg>> /\ ExeStep
  <2>1. Disturbs({}) /\ UNCHANGED <<host, cfg>>
    BY <1>3, ExeSteps, NoDisturbance
  <2>2. Settled({request.cmd}) /\ load = "loaded"
    BY <1>3, <2>1, SearchSame
  <2>3. SearchKnows
    BY <1>0, <2>2, SearchMeans
  <2>4. PICK L \in Nat : L = Len(Candidates(request.cmd)) /\ L = Len(Candidates(request.cmd))'
    BY <1>0, <2>1, HowMany, SearchSame
  <2>5. /\ \A e : \A m \in 1..(L + 1) : Failed(m, e) => Failed(m, e)'
        /\ \A x : \A m \in 1..L : Found(m, x) => Found(m, x)'
        /\ \A x, y : \A m \in 1..L : Found(m, x) /\ Chosen(m, y) => Chosen(m, y)'
        /\ \A i : FoundFirst(i) => FoundFirst(i)'
    <3>1. \A m \in 1..L : m \in Nat \ {0}
      OBVIOUS
    <3> QED
      BY <2>1, <2>4, <3>1, SearchSame
  <2>6. PICK n \in Nat \ {0} : n = cand
    BY DEF TypeOK
  <2>7. PICK e \in {"NotFound", "PermissionDenied"} : e = error
    BY DEF TypeOK
  <2>8. PICK C : C = Candidates(request.cmd) /\ C \in Seq(Path) /\ Len(C) = L
    BY <1>0, <2>4, Requested, CandidatesListed
  <2>9. PICK i2 : i2 = info'
    OBVIOUS
  <2>10. n <= L => n \in 1..L /\ n \in 1..(L + 1) /\ C[n] \in Path /\ n + 1 \in 1..(L + 1)
    BY <2>8
  <2>11. n <= L => Via(C[n]) \cap disturbed = {}
    BY <2>2, <2>8, <2>10 DEF Settled
  <2>12. ASSUME n <= L, NEW y, y = check_candidate(C[n]), y # "none", Skip(y), Failed(n, e)
         PROVE  SearchKnows'
    <3>1. y \in {"NotFound", "PermissionDenied"}
      BY <2>12, Errors
    <3>2. PICK z : z = IF e = "NotFound" THEN y ELSE e
      OBVIOUS
    <3>3. Failed(n + 1, z)
      BY <2>8, <2>12, <3>1, <3>2, NextCandidate
    <3>4. Failed(n + 1, z)' /\ n + 1 <= L + 1
      BY <2>5, <2>10, <2>12, <3>3
    <3>5. exe' = "realpath" /\ cand' = n + 1 /\ error' = z
      BY <2>6, <2>7, <2>12, <3>2 DEF Skip
    <3>6. Failed(cand, error)'
      BY <3>4, <3>5 DEF Failed
    <3> QED
      BY <2>4, <3>4, <3>5, <3>6 DEF SearchKnows
  <2>13. CASE Realpath
    <3>1. exe = "realpath" /\ n <= L + 1 /\ Failed(n, e)
      BY <2>3, <2>4, <2>6, <2>7, <2>13 DEF Realpath, Running, SearchKnows
    <3>2. CASE n > L
      <4>1. n = L + 1 /\ n \in 1..(L + 1)
        BY <3>1, <3>2
      <4>2. exe' = "rejected" /\ error' = e
        BY <2>4, <2>6, <2>7, <2>13, <3>2 DEF Realpath
      <4>3. Failed(n, e)'
        BY <2>5, <3>1, <4>1
      <4>4. Failed(Len(Candidates(request.cmd)) + 1, error)'
        BY <2>4, <4>1, <4>2, <4>3 DEF Failed
      <4> QED
        BY <4>2, <4>4 DEF SearchKnows
    <3>3. CASE ~(n > L)
      <4>0. n <= L
        BY <3>3
      <4>1. CASE LookupError(C[n]) # "none"
        <5>1. Skip(LookupError(C[n]))
          BY <2>4, <2>6, <2>8, <2>13, <3>3, <4>1 DEF Realpath
        <5>2. check_candidate(C[n]) = LookupError(C[n])
          BY <4>1 DEF check_candidate
        <5> QED
          BY <2>12, <3>1, <4>0, <4>1, <5>1, <5>2
      <4>2. CASE LookupError(C[n]) = "none"
        <5>1. /\ exe' = "stat" /\ cand' = n /\ error' = e
              /\ i2 = [info EXCEPT !.path = realpath(C[n])]
          BY <2>4, <2>6, <2>7, <2>8, <2>9, <2>13, <3>3, <4>2 DEF Realpath
        <5>2. i2.path = realpath(C[n])
          BY <5>1, Fields
        <5>3. Found(n, i2.path)
          BY <2>4, <2>8, <4>0, <4>2, <5>2 DEF Found
        <5>4. Found(n, i2.path)' /\ Failed(n, e)'
          BY <2>5, <2>10, <3>1, <4>0, <5>3
        <5>5. Found(cand, info.path)' /\ Failed(cand, error)'
          BY <2>9, <5>1, <5>4 DEF Found, Failed
        <5> QED
          BY <2>4, <3>1, <5>1, <5>5 DEF SearchKnows
      <4> QED
        BY <4>1, <4>2
    <3> QED
      BY <3>2, <3>3
  <2>14. CASE Stat
    <3>1. exe = "stat" /\ Failed(n, e) /\ Found(n, info.path)
      BY <2>3, <2>6, <2>7, <2>14 DEF Stat, Running, SearchKnows
    <3>2. n <= L /\ LookupError(C[n]) = "none" /\ info.path = realpath(C[n])
      BY <2>4, <2>8, <3>1 DEF Found
    <3>3. Inode(info.path) = Inode(C[n]) /\ check_candidate(info.path) = check_candidate(C[n])
      BY <1>0, <2>10, <2>11, <3>2, RealName
    <3>4. CASE check_candidate(info.path) # "none"
      <4>1. Skip(check_candidate(C[n]))
        BY <2>14, <3>3, <3>4 DEF Stat
      <4> QED
        BY <2>12, <3>1, <3>2, <3>3, <3>4, <4>1
    <3>5. CASE check_candidate(info.path) = "none"
      <4>1. exe' = "parent" /\ i2 = Validated /\ cand' = n /\ error' = e
        BY <2>6, <2>7, <2>9, <2>14, <3>5 DEF Stat
      <4>2. i2.path = info.path /\ i2.inode = Inode(C[n])
        BY <3>3, <4>1, ValidatedFields
      <4>3. Found(n, i2.path) /\ Chosen(n, i2.inode)
        BY <2>8, <3>1, <3>3, <3>5, <4>2 DEF Chosen
      <4>4. Found(n, i2.path)' /\ Chosen(n, i2.inode)' /\ Failed(n, e)' /\ n <= L + 1
        BY <2>5, <2>10, <3>1, <3>2, <4>3
      <4>5. Found(cand, info.path)' /\ Chosen(cand, info.inode)' /\ Failed(cand, error)'
        BY <2>9, <4>1, <4>4 DEF Found, Chosen, Failed
      <4> QED
        BY <2>4, <4>1, <4>4, <4>5 DEF SearchKnows
    <3> QED
      BY <3>4, <3>5
  <2>15. CASE Parent
    <3>1. exe = "parent" /\ Failed(n, e) /\ Found(n, info.path) /\ Chosen(n, info.inode)
      BY <2>3, <2>6, <2>7, <2>15 DEF Parent, Running, SearchKnows
    <3>2. exe' = "gate" /\ i2 = [info EXCEPT !.policy = policy_path(C[n])]
      BY <2>6, <2>8, <2>9, <2>15 DEF Parent
    <3>3. /\ i2.path = info.path /\ i2.inode = info.inode
          /\ i2.policy = policy_path(Candidates(request.cmd)[n])
      BY <2>8, <3>2, Fields DEF SameFile
    <3>4. FoundFirst(i2)
      BY <1>0, <3>1, <3>3, FirstCandidate
    <3>5. FoundFirst(i2)'
      BY <2>5, <3>4
    <3>6. FoundFirst(info)'
      BY <2>9, <3>5 DEF FoundFirst
    <3> QED
      BY <3>2, <3>6 DEF SearchKnows
  <2>16. CASE Gate \/ Permit \/ Match \/ Pin
    <3>1. exe \in {"gate", "permit", "match", "pin"}
      BY <2>16 DEF Gate, Permit, Match, Pin, Running
    <3>2. exe' \notin {"realpath", "stat", "parent", "rejected"}
      BY <2>16 DEF Gate, Permit, Match, Pin, Running
    <3>3. FoundFirst(info)
      BY <2>3, <3>1 DEF SearchKnows
    <3>4. i2.path = info.path /\ i2.inode = info.inode /\ i2.policy = info.policy
      BY <2>9, <2>16, FileKept DEF SameFile
    <3>5. FoundFirst(i2)'
      BY <2>5, <3>3, <3>4 DEF FoundFirst
    <3>6. FoundFirst(info)'
      BY <2>9, <3>5 DEF FoundFirst
    <3> QED
      BY <3>2, <3>6 DEF SearchKnows
  <2> QED
    BY <1>3, <2>13, <2>14, <2>15, <2>16 DEF ExeStep
<1> QED
  BY <1>1, <1>2, <1>3, Kinds

(***************************************************************************)
(* The policy                                                              *)
(***************************************************************************)

(* A command resolves to one path only, and to its name there.             *)
LEMMA OneResult ==
    ASSUME LoadTypeOK, NEW c \in Path, NEW p \in Path, Resolves(c, p)
    PROVE  /\ p[2] = c[2] /\ check_candidate(p) = "none" /\ LookupError(p) = "none"
           /\ Settled({c}) => Via(p) \cap disturbed = {}
           /\ canonical_command_for_match(c) = policy_path(p)
<1> DEFINE C == Candidates(c)
<1>1. Len(C) \in Nat
  BY CandidatesListed
<1>2. ASSUME NEW q \in Path, Resolves(c, q)
      PROVE  p = q
  <2>1. PICK i \in 1..Len(C) : /\ p = C[i] /\ check_candidate(p) = "none"
                               /\ \A j \in 1..(i - 1) : check_candidate(C[j]) # "none"
    BY DEF Resolves
  <2>2. PICK k \in 1..Len(C) : /\ q = C[k] /\ check_candidate(q) = "none"
                               /\ \A j \in 1..(k - 1) : check_candidate(C[j]) # "none"
    BY <1>2 DEF Resolves
  <2> HIDE DEF C
  <2>3. ~(i < k) /\ ~(k < i)
    BY <1>1, <2>1, <2>2
  <2> QED
    BY <1>1, <2>1, <2>2, <2>3
<1>3. canonical_command_for_match(c) = policy_path(p)
  BY <1>2 DEF canonical_command_for_match
<1>4. PICK i \in 1..Len(C) : p = C[i] /\ check_candidate(p) = "none"
  BY DEF Resolves
<1>5. p[2] = c[2]
  <2>1. CASE c[1] # NoDir
    BY <1>4, <2>1 DEF Candidates
  <2>2. CASE c[1] = NoDir
    <3>1. Len(cfg.paths) \in Nat
      BY PathsListed
    <3>2. Len(C) = Len(cfg.paths)
      BY <2>2, <3>1 DEF Candidates
    <3> QED
      BY <1>4, <2>2, <3>1, <3>2 DEF Candidates
  <2> QED
    BY <2>1, <2>2
<1> QED
  BY <1>3, <1>4, <1>5, Errors DEF Settled

(* The policy path of a candidate is resolved to itself. *)
LEMMA PolicyResolves ==
    ASSUME TypeOK, RealKept, NEW c \in Path, NEW p \in Path, Resolves(c, p), Settled({c})
    PROVE  LET q == policy_path(p) IN
           /\ q \in Path /\ q[1] # NoDir /\ q[2] = p[2] /\ policy_path(q) = q
           /\ realpath(q) = realpath(p) /\ Inode(q) = Inode(p) /\ LookupError(q) = "none"
           /\ Resolves(q, q) /\ canonical_command_for_match(q) = q
<1> DEFINE q == policy_path(p)
<1>0. LoadTypeOK /\ DiskOK
  BY DEF TypeOK, DiskOK
<1>1. check_candidate(p) = "none" /\ LookupError(p) = "none" /\ Via(p) \cap disturbed = {}
  BY <1>0, OneResult
<1>2. /\ q \in Path /\ q[1] # NoDir /\ q[2] = p[2] /\ policy_path(q) = q
      /\ realpath(q) = realpath(p) /\ Inode(q) = Inode(p)
      /\ LookupError(q) = "none" /\ check_candidate(q) = "none"
  BY <1>0, <1>1, PolicyName
<1> HIDE DEF q
<1>3. Candidates(q) = <<q>>
  BY <1>2 DEF Candidates
<1>4. Resolves(q, q)
  BY <1>2, <1>3 DEF Resolves
<1>5. canonical_command_for_match(q) = q
  BY <1>0, <1>2, <1>4, OneResult
<1> QED
  BY <1>2, <1>4, <1>5 DEF q

(* What gate and policy see of a settled command                           *)
LEMMA FoundPath ==
    ASSUME TypeOK, RealKept, Searching, SearchFindsFirst, Settled({request.cmd}),
           load = "loaded", exe \in {"gate", "permit", "match", "pin", "opened"}
    PROVE  \E p \in Path :
             /\ Resolves(request.cmd, p) /\ p[2] = request.cmd[2]
             /\ info.path = realpath(p) /\ info.inode = Inode(p)
             /\ LET q == info.policy IN
                /\ q \in Path /\ q[1] # NoDir /\ q[2] = p[2] /\ policy_path(q) = q
                /\ realpath(q) = realpath(p) /\ Inode(q) = Inode(p) /\ LookupError(q) = "none"
                /\ Resolves(q, q) /\ canonical_command_for_match(q) = q
<1>1. LoadTypeOK /\ request.cmd \in Path
  BY Requested DEF TypeOK
<1>2. PICK p \in Path : /\ Resolves(request.cmd, p) /\ info.path = realpath(p)
                        /\ info.inode = Inode(p) /\ info.policy = policy_path(p)
  BY <1>1 DEF SearchFindsFirst
<1> QED
  BY <1>1, <1>2, OneResult, PolicyResolves

(* The canonical name the policy is matched with is the policy path the    *)
(* search found.                                                           *)
LEMMA CanonicalStep ==
    ASSUME TypeOK, Shape, NotBefore, RealKept, Searching, SearchFindsFirst, Canonical, [Next]_vars
    PROVE  Canonical'
<1> SUFFICES ASSUME exe' = "match", Settled({request.cmd})'
             PROVE  info'.canon = info'.policy
  BY DEF Canonical
<1>1. CASE load # "loaded" /\ UNCHANGED exeVars
  BY <1>1 DEF NotBefore, exeVars
<1>2. CASE UNCHANGED <<host, cfg>> /\ (\E D : Disturbs(D)) /\ UNCHANGED <<exe, info>>
  BY <1>2, SearchSame DEF Canonical
<1>3. CASE UNCHANGED <<host, cfg>> /\ ExeStep
  <2>1. Settled({request.cmd}) /\ load = "loaded"
    BY <1>3, ExeSteps, NoDisturbance, SearchSame
  <2>2. CASE Permit
    <3>1. exe = "permit" /\ info' = [info EXCEPT !.canon = canonical_command_for_match(info.policy)]
      BY <2>2 DEF Permit, Running
    <3>2. canonical_command_for_match(info.policy) = info.policy
      BY <2>1, <3>1, FoundPath
    <3> QED
      BY <3>1, <3>2, Fields
  <2>3. CASE Match
    BY <2>1, <2>3, OneRule DEF Canonical
  <2> QED
    BY <1>3, <2>2, <2>3 DEF ExeStep, Realpath, Skip, Stat, Parent, Gate, Pin
<1> QED
  BY <1>1, <1>2, <1>3, Kinds

(* A rule whose command is, canonically, the command asked for leads to    *)
(* the file that was validated.                                            *)
LEMMA SameCommand ==
    ASSUME TypeOK, RealKept, Searching, SearchFindsFirst, Settled({request.cmd}),
           load = "loaded", exe \in {"gate", "permit", "match", "pin", "opened"},
           NEW s \in Path, Settled({s}), canonical_command_for_match(s) = info.policy
    PROVE  \E p \in Path : Resolves(s, p) /\ Inode(p) = info.inode /\ p[2] = request.cmd[2]
<1>0. LoadTypeOK
  BY DEF TypeOK
<1>1. /\ info.policy \in Path /\ info.policy[2] = request.cmd[2]
      /\ Resolves(info.policy, info.policy) /\ Inode(info.policy) = info.inode
  BY FoundPath
<1>2. CASE \E p \in Path : Resolves(s, p)
  <2>1. PICK p \in Path : Resolves(s, p)
    BY <1>2
  <2>2. policy_path(p) = info.policy
    BY <1>0, <2>1, OneResult
  <2>3. Inode(p) = info.inode /\ p[2] = request.cmd[2]
    BY <1>1, <2>1, <2>2, PolicyResolves
  <2> QED
    BY <2>1, <2>3
<1>3. CASE ~(\E p \in Path : Resolves(s, p))
  <2>1. s = info.policy
    BY <1>3 DEF canonical_command_for_match
  <2> QED
    BY <1>1, <1>3, <2>1
<1> QED
  BY <1>2, <1>3

(* The rule that granted the request still names the file that is opened. *)
LEMMA DecidedStep ==
    ASSUME TypeOK, Shape, NotBefore, RealKept, Searching, SearchFindsFirst, Canonical, Decided,
           [Next]_vars
    PROVE  Decided'
<1> SUFFICES ASSUME exe' \in {"pin", "opened"}
             PROVE  Decided'
  BY DEF Decided
<1>0. LoadTypeOK
  BY DEF TypeOK
<1> DEFINE Leads(s, inode) ==
             s \in Path /\ Settled({request.cmd}) /\ Settled({s}) =>
               \E p \in Path : Resolves(s, p) /\ Inode(p) = inode /\ p[2] = request.cmd[2]
           Decision(n, inode) ==
             /\ n \in 1..Len(cfg.rules)
             /\ cfg.rules[n].cmd # NoText => Leads(Spell[cfg.rules[n].cmd], inode)
<1>1. \A n \in 1..Len(cfg.rules) : cfg.rules[n].cmd # NoText => Spell[cfg.rules[n].cmd] \in Path
  BY <1>0, RuleCommands, ExecutableAssumption DEF AnyText
<1>2. exe \in {"pin", "opened"} => Decision(info.rule, info.inode)
  BY <1>1 DEF Decided, Settled
<1>3. ASSUME UNCHANGED <<load, host, cfg>>, NEW D, Disturbs(D),
             NEW n, NEW y, Decision(n, y), info'.rule = n, info'.inode = y
      PROVE  Decided'
  <2>1. PICK s : s = Spell[cfg.rules[n].cmd] /\ s = Spell[cfg'.rules[n].cmd]
    BY <1>3
  <2>2. PICK m : m = request.cmd /\ m = request'.cmd
    BY <1>3 DEF request
  <2>3. n \in 1..Len(cfg'.rules)
    BY <1>3
  <2>4. ASSUME cfg.rules[n].cmd # NoText, Settled({m})', Settled({s})'
        PROVE  \E p \in Path : Resolves(s, p)' /\ Inode(p)' = y /\ p[2] = m[2]
    <3>1. m \in Path /\ s \in Path
      BY <1>0, <1>1, <1>3, <2>1, <2>2, <2>4, Requested
    <3>2. Settled({m}) /\ Settled({s})
      BY <1>3, <2>4, <3>1, SettledSame
    <3>3. PICK p \in Path : Resolves(s, p) /\ Inode(p) = y /\ p[2] = m[2]
      BY <1>3, <2>1, <2>2, <2>4, <3>1, <3>2
    <3>4. PICK i \in 1..Len(Candidates(s)) : p = Candidates(s)[i]
      BY <3>3 DEF Resolves
    <3>5. SameLook(p) /\ Resolves(s, p)'
      BY <1>3, <2>4, <3>1, <3>3, <3>4, SettledSame
    <3>6. LookupError(p) = "none"
      BY <1>0, <3>1, <3>3, OneResult
    <3> QED
      BY <3>3, <3>5, <3>6 DEF SameLook
  <2>5. Settled({request.cmd, s})' => Settled({m})' /\ Settled({s})'
    BY <2>2 DEF Settled
  <2> QED
    BY <1>3, <2>1, <2>2, <2>3, <2>4, <2>5 DEF Decided
<1> HIDE DEF Decision
<1>4. CASE load # "loaded" /\ UNCHANGED exeVars
  BY <1>4 DEF NotBefore, exeVars
<1>5. ASSUME UNCHANGED <<load, host, cfg>>, NEW D, Disturbs(D), UNCHANGED <<exe, info>>
      PROVE  Decided'
  BY <1>2, <1>3, <1>5
<1>6. CASE UNCHANGED <<load, host, cfg>> /\ ExeStep
  <2>1. Disturbs({}) /\ load = "loaded"
    BY <1>6, ExeSteps, NoDisturbance
  <2>2. CASE Match
    <3>1. /\ exe = "match" /\ ~(cand > Len(cfg.rules)) /\ CommandMatches(cfg.rules[cand])
          /\ info' = [info EXCEPT !.rule = cand]
      BY <2>2, OneRule
    <3>2. PICK n : n = cand
      OBVIOUS
    <3>3. n \in 1..Len(cfg.rules)
      <4>1. n \in Nat \ {0} /\ ~(n > Len(cfg.rules)) /\ Len(cfg.rules) \in Nat
        BY <1>0, <3>1, <3>2, RuleCommands DEF TypeOK
      <4> QED
        BY <4>1
    <3>4. info'.rule = n /\ info'.inode = info.inode
      BY <3>1, <3>2, Fields DEF SameFile
    <3>5. ASSUME cfg.rules[n].cmd # NoText, Spell[cfg.rules[n].cmd] \in Path,
                 Settled({request.cmd}), Settled({Spell[cfg.rules[n].cmd]})
          PROVE  \E p \in Path : /\ Resolves(Spell[cfg.rules[n].cmd], p)
                                 /\ Inode(p) = info.inode /\ p[2] = request.cmd[2]
      <4>1. canonical_command_for_match(Spell[cfg.rules[n].cmd]) = info.policy
        BY <3>1, <3>2, <3>5 DEF CommandMatches, Canonical
      <4> QED
        BY <2>1, <3>1, <3>5, <4>1, SameCommand
    <3>6. Decision(n, info.inode)
      BY <3>3, <3>5 DEF Decision
    <3>7. PICK y : y = info.inode
      OBVIOUS
    <3> QED
      BY <1>3, <1>6, <2>1, <3>4, <3>6, <3>7
  <2>3. CASE Pin
    <3>1. exe = "pin" /\ (info' = info \/ \E x : info' = [info EXCEPT !.fd = x])
      BY <2>3 DEF Pin, Running
    <3>2. info'.rule = info.rule /\ info'.inode = info.inode
      <4>1. CASE info' = info
        BY <4>1
      <4>2. CASE \E x : info' = [info EXCEPT !.fd = x]
        BY <4>2, Fields DEF SameFile
      <4> QED
        BY <3>1, <4>1, <4>2
    <3>3. PICK n, y : n = info.rule /\ y = info.inode
      OBVIOUS
    <3> QED
      BY <1>2, <1>3, <1>6, <2>1, <3>1, <3>2, <3>3
  <2> QED
    BY <1>6, <2>2, <2>3 DEF ExeStep, Realpath, Skip, Stat, Parent, Gate, Permit
<1> QED
  BY <1>4, <1>5, <1>6, Kinds

(***************************************************************************)
(* The gate                                                                *)
(***************************************************************************)

(* The entries of the blocklist are paths, absolute ones after absolute(). *)
LEMMA BlockedPathsTyped ==
    ASSUME LoadTypeOK, NEW e \in BlockedPaths
    PROVE  e \in Path /\ absolute(e) \in Path /\ absolute(e)[1] # NoDir
<1>1. PICK s \in Scenarios : host = s.host
  BY DEF LoadTypeOK, Hosts
<1>2. parse(host.doc).blocklist = Get(host.doc, "blocklist", <<>>)
  BY DEF parse
<1>3. Defaults.blocklist = <<>>
  BY DEF Defaults, parse, Get, Has
<1>4. cfg.blocklist \in Seq(AnyText)
  <2>1. <<>> \in Seq(AnyText)
    OBVIOUS
  <2>2. Get(host.doc, "blocklist", <<>>) \in Seq(AnyText)
    BY <1>1, <2>1, ExecutableAssumption DEF Get, Has
  <2> QED
    BY <1>2, <1>3, <2>1, <2>2 DEF LoadTypeOK
<1>5. ToSet(cfg.blocklist) \subseteq AnyText
  BY <1>4 DEF ToSet
<1>6. e \in Path
  BY <1>5, ExecutableAssumption DEF BlockedPaths, AnyText
<1> QED
  BY <1>6, ExecutableAssumption DEF absolute, Path

(* What the gate let through is none of the things it refuses. *)
LEMMA GateClears ==
    ASSUME TypeOK, RealKept, Searching, SearchFindsFirst, Settled({request.cmd}),
           load = "loaded", exe = "gate", ~isCatastrophicCommand(info.policy, request.args)
    PROVE  Clear(info)
<1> DEFINE q == info.policy
           bases == {info.path[2], info.policy[2]}
<1>1. q \in Path /\ q[1] # NoDir /\ policy_path(q) = q /\ LookupError(q) = "none"
      /\ realpath(q) = info.path
  BY FoundPath
<1>2. canonicalize_blocklist_path(q) = info.path /\ canonicalize_policy_path(q) = q
  BY <1>1 DEF canonicalize_blocklist_path, canonicalize_policy_path, absolute, policy_path
<1>3. /\ ~Builtin(q, request.args)
      /\ \A t \in ToSet(cfg.blocklist) : t # NoText => ~Blocked(q, Spell[t])
      /\ \A x \in ToSet(cfg.regexes) : q \notin RegexHits[x]
  BY DEF isCatastrophicCommand
<1>4. ASSUME NEW e \in BlockedPaths
      PROVE  e # info.path /\ canonicalize_policy_path(e) # info.policy
  <2>1. ~Blocked(q, e)
    BY <1>3 DEF BlockedPaths
  <2> QED
    BY <1>2, <2>1 DEF Blocked
<1>5. /\ bases \cap {"rm", "dd"} = {} => bases \cap Destructive = {}
      /\ "rm" \in bases => request.args # "wipes root"
  BY <1>2, <1>3 DEF Builtin
<1> QED
  BY <1>3, <1>4, <1>5 DEF Clear

(* The names of settled blocked paths stay. *)
LEMMA ClearSame ==
    ASSUME TypeOK, NEW D, Disturbs(D), UNCHANGED <<host, cfg>>,
           NEW i, \A e \in BlockedPaths : Settled({absolute(e)})'
    PROVE  /\ \A e \in BlockedPaths : Settled({absolute(e)})
           /\ Clear(i) => Clear(i)'
<1>0. LoadTypeOK
  BY DEF TypeOK
<1>1. BlockedPaths' = BlockedPaths
  BY DEF BlockedPaths
<1>2. ASSUME NEW e \in BlockedPaths
      PROVE  /\ Settled({absolute(e)})
             /\ canonicalize_policy_path(e)' = canonicalize_policy_path(e)
  <2>1. PICK a \in Path : a = absolute(e) /\ a[1] # NoDir
    BY <1>0, BlockedPathsTyped
  <2>2. Settled({a})'
    BY <2>1 DEF absolute
  <2>3. 1 \in 1..Len(Candidates(a)) /\ a = Candidates(a)[1]
    BY <2>1 DEF Candidates
  <2>4. SameLook(a) /\ Settled({a})
    <3>1. cfg' = cfg
      OBVIOUS
    <3> QED
      BY <2>2, <2>3, <3>1, SettledSame
  <2> QED
    BY <2>1, <2>4 DEF SameLook, canonicalize_policy_path, absolute
<1>3. request' = request
  BY DEF request
<1> QED
  BY <1>1, <1>2, <1>3 DEF Clear

(* A file the gate cleared stays cleared while nothing on the way to it or *)
(* to a blocked path is disturbed.                                         *)
LEMMA GatedStep ==
    ASSUME TypeOK, Shape, NotBefore, RealKept, Searching, SearchFindsFirst, Gated, [Next]_vars
    PROVE  Gated'
<1> DEFINE Quiet == Settled({request.cmd}) /\ \A e \in BlockedPaths : Settled({absolute(e)})
<1>0. Settled({request.cmd} \cup { absolute(e) : e \in BlockedPaths }) <=> Quiet
  BY DEF Settled
<1>1. Settled({request.cmd} \cup { absolute(e) : e \in BlockedPaths })' <=> Quiet'
  BY DEF Settled
<1> HIDE DEF Quiet
<1> SUFFICES ASSUME exe' \in {"permit", "match", "pin", "opened"}, Quiet'
             PROVE  Clear(info)'
  BY <1>1 DEF Gated
<1>2. ASSUME UNCHANGED <<host, cfg>>, NEW D, Disturbs(D),
             NEW i, Quiet => Clear(i), info'.path = i.path, info'.policy = i.policy
      PROVE  Clear(info)'
  <2>1. Settled({request.cmd})' /\ \A e \in BlockedPaths : Settled({absolute(e)})'
    BY <1>2 DEF Quiet, BlockedPaths
  <2>2. Quiet /\ (Clear(i) => Clear(i)')
    BY <1>2, <2>1, SearchSame, ClearSame DEF Quiet
  <2>3. Clear(i)'
    BY <1>2, <2>2
  <2> QED
    BY <1>2, <2>3 DEF Clear
<1>3. exe \in {"permit", "match", "pin", "opened"} /\ Quiet => Clear(info)
  BY <1>0 DEF Gated
<1>4. CASE load # "loaded" /\ UNCHANGED exeVars
  BY <1>4 DEF NotBefore, exeVars
<1>5. ASSUME UNCHANGED <<load, host, cfg>>, NEW D, Disturbs(D), UNCHANGED <<exe, info>>
      PROVE  Clear(info)'
  BY <1>2, <1>3, <1>5
<1>6. CASE UNCHANGED <<load, host, cfg>> /\ ExeStep
  <2>1. Disturbs({}) /\ load = "loaded"
    BY <1>6, ExeSteps, NoDisturbance
  <2>2. PICK i : i = info
    OBVIOUS
  <2>3. CASE Gate
    <3>1. exe = "gate" /\ ~isCatastrophicCommand(info.policy, request.args) /\ info' = info
      BY <2>3 DEF Gate, Running
    <3>2. Quiet => Clear(i)
      BY <2>1, <2>2, <3>1, GateClears DEF Quiet
    <3> QED
      BY <1>2, <1>6, <2>1, <2>2, <3>1, <3>2
  <2>4. CASE Permit \/ Match \/ Pin
    <3>1. exe \in {"permit", "match", "pin"}
      BY <2>4 DEF Permit, Match, Pin, Running
    <3>2. Quiet => Clear(i)
      BY <1>3, <2>2, <3>1
    <3>3. info'.path = i.path /\ info'.policy = i.policy
      BY <2>2, <2>4, FileKept DEF SameFile
    <3> QED
      BY <1>2, <1>6, <2>1, <3>2, <3>3
  <2> QED
    BY <1>6, <2>3, <2>4 DEF ExeStep, Realpath, Skip, Stat, Parent
<1> QED
  BY <1>4, <1>5, <1>6, Kinds

(***************************************************************************)
(* The theorems                                                            *)
(***************************************************************************)
LEMMA ExeStarts == Init => ExeInv
<1> SUFFICES ASSUME Init PROVE ExeInv
  OBVIOUS
<1>0. /\ exe = "realpath" /\ cand = 1 /\ error = "NotFound" /\ info = NoInfo
      /\ disturbed = {} /\ reused = {} /\ load = "exists"
  BY DEF Init, LoadInit
<1>1. PICK s \in Scenarios : real = s.real /\ entry = s.entry /\ ino = s.ino
  BY DEF Init
<1>2. TypeOK
  <2>1. LoadTypeOK
    BY LoadStarts DEF LoadInv
  <2>2. /\ real \in [Dirs -> Dirs \cup {NoDir}]
        /\ entry \in [Dirs \X Names -> Inodes \cup (Dirs \X Names) \cup {Nothing}]
        /\ ino \in [Inodes -> Attributes]
    BY <1>1, ExecutableAssumption
  <2> QED
    BY <1>0, <2>1, <2>2 DEF TypeOK
<1>3. RealKept
  BY <1>1, ExecutableAssumption DEF RealKept
<1> QED
  BY <1>0, <1>2, <1>3 DEF ExeInv, Shape, NotBefore, Held, Validating, Searching, SearchFindsFirst,
                          Canonical, Decided, Gated

(* The inductive invariant holds throughout every behaviour.               *)
LEMMA ExeInvariance == Spec => []ExeInv
<1>1. ExeInv /\ [Next]_vars => ExeInv'
  <2> SUFFICES ASSUME ExeInv, [Next]_vars PROVE ExeInv'
    OBVIOUS
  <2>1. TypeOK'
    BY ExeTypeStep DEF ExeInv
  <2>2. Shape' /\ NotBefore' /\ RealKept' /\ Held'
    BY ShapeStep, NotBeforeStep, RealKeptStep, HeldStep DEF ExeInv
  <2>3. Searching' /\ SearchFindsFirst'
    BY <2>1, SearchStep DEF ExeInv
  <2>4. Canonical' /\ Decided' /\ Gated'
    BY CanonicalStep, DecidedStep, GatedStep DEF ExeInv
  <2> QED
    BY <2>1, <2>2, <2>3, <2>4 DEF ExeInv
<1> QED
  BY ExeStarts, <1>1, PTL DEF Spec

(* The variables of the lookup keep their types.                           *)
THEOREM ExeTypeCorrect == Spec => []TypeOK
<1>1. ExeInv => TypeOK
  BY DEF ExeInv
<1> QED
  BY ExeInvariance, <1>1, PTL

(* resolve_executable() ends with the first safe candidate, or with the    *)
(* error that says why there is none, whatever others change elsewhere     *)
(* between its system calls.                                               *)
THEOREM SearchCorrect == Spec => []SearchFindsFirst
<1>1. ExeInv => SearchFindsFirst
  BY DEF ExeInv
<1> QED
  BY ExeInvariance, <1>1, PTL

(* What open_executable() pins is the program that was validated, unless   *)
(* root wrote into the file or its inode number was given away.            *)
THEOREM PinnedIsValidated == Spec => []SameProgram
<1>1. ExeInv => SameProgram
  BY DEF ExeInv, Held, Validating, SameProgram
<1> QED
  BY ExeInvariance, <1>1, PTL

(* The command of the rule that permitted is resolved to the very inode    *)
(* that is executed.                                                       *)
THEOREM PermittedIsExecuted == Spec => []PermitNamesExecuted
<1>1. ExeInv => PermitNamesExecuted
  BY DEF ExeInv, Held, Decided, PermitNamesExecuted
<1> QED
  BY ExeInvariance, <1>1, PTL

(* What isCatastrophicCommand() let pass is, when it is opened, still not  *)
(* what it had to stop.                                                    *)
THEOREM GateIsNotFooled == Spec => []GateSeesExecuted
<1>1. ExeInv => GateSeesExecuted
  BY DEF ExeInv, Gated, Clear, BlockedPaths, GateSeesExecuted
<1> QED
  BY ExeInvariance, <1>1, PTL
====
