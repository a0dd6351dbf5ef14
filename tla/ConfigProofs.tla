---------------------------- MODULE ConfigProofs ----------------------------
(***************************************************************************)
(* Proofs about Config, for all hosts, documents, path lengths and numbers *)
(* of concurrent changes; the specification is that of Executable, whose   *)
(* other steps leave load() alone.                                         *)
(*                                                                         *)
(* is_trusted_path() looks at one component after the other, and what it   *)
(* saw may be gone when it looks at the next.  The argument is that a      *)
(* component above which everything is root's and closed to others can     *)
(* only be changed by root: what the walk has passed stays as it was seen, *)
(* and what lies at its end was put there by root.                         *)
(***************************************************************************)
EXTENDS Executable, NatFacts, TLAPS

(***************************************************************************)
(* The inductive invariant                                                 *)
(***************************************************************************)

(* The upper k components of a path are root's and closed to others. *)
Closed(t, k) == \A d \in 1..k : ~Loose(t[d])

(* What another user put there lies below a component he could change. *)
Provenance ==
    \A p \in Trees, d \in 1..Depth :
        tree[p][d].by = "user" => \E e \in 1..(d - 1) : Loose(tree[p][e])

(* Every walk starts at the top. *)
FromTheTop == load \notin {"walk", "sanctuary", "failed"} => at = 1

(* Unless root loosens a tree, the components a walk has passed stay       *)
(* closed, and the file that was opened is root's.                         *)
FromRead == {"read", "directory", "sanctuary", "validate", "loaded", "valid"}
Walked ==
    care # "loosened" =>
        /\ load = "walk" => Closed(tree["config"], at - 1)
        /\ load \in {"symlink", "open"} => Closed(tree["config"], Depth)
        /\ load \in FromRead => file.by = "root" /\ host.euid = 0
        /\ load = "sanctuary" => Closed(tree["sanctuary"], at - 1)
        /\ Accepted => Closed(tree["sanctuary"], Depth)

(* Past the document the settings are its settings. *)
Parsed ==
    /\ load \in FromRead \ {"read"} => cfg = parse(host.doc) /\ ~DocumentFails(host.doc)
    /\ load = "validate" => host.op = "check"

LoadInv ==
    /\ LoadTypeOK
    /\ Provenance
    /\ FromTheTop
    /\ Walked
    /\ Parsed
    /\ WellKeptLoads

(***************************************************************************)
(* The steps of the rest of the program                                    *)
(***************************************************************************)

(* execute() and those who change the file system around it touch nothing  *)
(* load() has left behind.                                                 *)
LEMMA OtherSteps ==
    ASSUME ExeStep \/ Others
    PROVE  /\ UNCHANGED <<host, tree, load, at, file, cfg, care>>
           /\ \/ UNCHANGED edits
              \/ load = "loaded" /\ edits.exe > 0 /\ edits' = [edits EXCEPT !.exe = @ - 1]
<1>1. CASE ExeStep
  BY <1>1 DEF ExeStep, Realpath, Stat, Parent, Gate, Permit, Match, Pin, loadVars
<1>2. CASE Others
  BY <1>2 DEF Others, UserMoves, UserLinks, UserCreates, RootInstalls, RootRemoves,
              RootChanges, Change
<1> QED
  BY <1>1, <1>2

(* A step of load(), a change to its trees, or none of its business *)
LEMMA Steps ==
    ASSUME [Next]_vars
    PROVE  \/ LoadStep \/ UserEdit \/ RootEdit
           \/ UNCHANGED <<host, tree, load, at, file, cfg, care>>
<1>1. CASE LoadNext
  BY <1>1 DEF LoadNext
<1>2. CASE ExeStep \/ Others
  BY <1>2, OtherSteps
<1>3. CASE UNCHANGED vars
  BY <1>3 DEF vars, loadVars
<1> QED
  BY <1>1, <1>2, <1>3 DEF Next

(***************************************************************************)
(* Types                                                                   *)
(***************************************************************************)
LEMMA Components ==
    ASSUME LoadTypeOK, NEW p \in Trees
    PROVE  /\ Depth \in 1..Depth /\ Leaf(p) = tree[p][Depth]
           /\ \A d \in 1..Depth : tree[p][d] \in Node
<1>1. tree[p] \in [1..Depth -> Node]
  BY DEF LoadTypeOK, Chains
<1>2. Depth \in 1..Depth
  BY ConfigAssumption
<1> QED
  BY <1>1, <1>2 DEF Leaf

(* What makes a path a possible path *)
LEMMA ChainIntro ==
    ASSUME NEW c \in [1..Depth -> Node],
           \A d \in 1..(Depth - 1) :
               c[d].kind \in {"file", "none"} => c[d + 1].kind = "none",
           \A d \in 1..Depth : c[d].kind = "none" => c[d].uid = 0 /\ ~c[d].open
    PROVE  c \in Chains
BY Zenon DEF Chains

(* Changing the mode of a component makes a possible path of a possible    *)
(* path.                                                                   *)
LEMMA Reopened ==
    ASSUME NEW c \in Chains, NEW d \in 1..Depth, c[d].uid # 0
    PROVE  [c EXCEPT ![d].open = ~@] \in Chains
<1> DEFINE e == [c EXCEPT ![d].open = ~@]
<1>1. c \in [1..Depth -> Node]
  BY DEF Chains
<1>2. e[d] = [c[d] EXCEPT !.open = ~@] /\ \A i \in 1..Depth : i # d => e[i] = c[i]
  BY <1>1
<1>3. e[d] \in Node /\ e[d].kind = c[d].kind
  BY <1>1, <1>2 DEF Node
<1>4. e \in [1..Depth -> Node]
  BY <1>1, <1>3
<1>5. c[d].kind # "none"
  BY DEF Chains
<1>6. \A i \in 1..Depth : e[i].kind = c[i].kind
  BY <1>2, <1>3
<1>7. \A i \in 1..(Depth - 1) : i \in 1..Depth /\ i + 1 \in 1..Depth
  BY ConfigAssumption
<1>8. \A i \in 1..(Depth - 1) : e[i].kind \in {"file", "none"} => e[i + 1].kind = "none"
  BY <1>6, <1>7 DEF Chains
<1>9. \A i \in 1..Depth : e[i].kind = "none" => e[i].uid = 0 /\ ~e[i].open
  BY <1>2, <1>5, <1>6 DEF Chains
<1>10. e \in Chains
  <2> HIDE DEF e
  <2> QED
    BY <1>4, <1>8, <1>9, ChainIntro
<1> QED
  BY <1>10

(* Every step of load(), and of anyone else, keeps the types. *)
LEMMA LoadTypeStep ==
    ASSUME LoadTypeOK, [Next]_vars
    PROVE  LoadTypeOK'
<1>1. CASE LoadStep
  <2>1. UNCHANGED <<host, tree, edits, care>>
    BY <1>1 DEF LoadStep, Exists, WalkConfig, WalkSanctuary, is_trusted_path, Symlink, Open,
                Read, Directory, Validate
  <2>2. load' \in Loading \cup LoadEnd
    BY <1>1 DEF LoadTypeOK, LoadStep, Exists, WalkConfig, WalkSanctuary, is_trusted_path, Symlink,
                Open, Read, Directory, Validate, IsDirectory, Turn, Loading, LoadEnd
  <2>3. at' \in 1..Depth
    <3>1. at \in 1..Depth /\ Depth \in Nat \ {0}
      BY ConfigAssumption DEF LoadTypeOK
    <3>2. at < Depth => at + 1 \in 1..Depth
      BY <3>1
    <3>3. at' \in {at, 1} \/ (at < Depth /\ at' = at + 1)
      <4>1. CASE WalkConfig \/ WalkSanctuary
        BY <4>1 DEF WalkConfig, WalkSanctuary, is_trusted_path
      <4>2. CASE ~(WalkConfig \/ WalkSanctuary)
        BY <1>1, <4>2 DEF LoadStep, Exists, Symlink, Open, Read, Directory, Validate
      <4> QED
        BY <4>1, <4>2
    <3> QED
      BY <3>1, <3>2, <3>3
  <2>4. file' \in Node
    <3>1. Leaf("config") \in Node
      BY Components DEF Trees
    <3> QED
      BY <1>1, <3>1 DEF LoadTypeOK, LoadStep, Exists, WalkConfig, WalkSanctuary, is_trusted_path,
                        Symlink, Open, Read, Directory, Validate
  <2>5. cfg' \in {Defaults, parse(host'.doc)}
    BY <1>1, <2>1 DEF LoadTypeOK, LoadStep, Exists, WalkConfig, WalkSanctuary, is_trusted_path,
                      Symlink, Open, Read, Directory, Validate
  <2> QED
    BY <2>1, <2>2, <2>3, <2>4, <2>5 DEF LoadTypeOK
<1>2. CASE UserEdit
  <2>1. edits' \in [load : Nat, exe : Nat]
    BY <1>2 DEF LoadTypeOK, UserEdit
  <2>2. tree' \in [Trees -> Chains]
    <3>1. PICK p \in Trees, d \in 1..Depth :
            \/ \E c \in Below(tree[p], d) : tree' = [tree EXCEPT ![p] = c]
            \/ tree[p][d].uid # 0 /\ tree' = [tree EXCEPT ![p][d].open = ~@]
      BY <1>2 DEF UserEdit
    <3>2. tree \in [Trees -> Chains]
      BY DEF LoadTypeOK
    <3>3. CASE \E c \in Below(tree[p], d) : tree' = [tree EXCEPT ![p] = c]
      BY <3>2, <3>3 DEF Below
    <3>4. CASE tree[p][d].uid # 0 /\ tree' = [tree EXCEPT ![p][d].open = ~@]
      <4>1. [tree[p] EXCEPT ![d].open = ~@] \in Chains
        BY <3>2, <3>4, Reopened
      <4>2. tree' = [tree EXCEPT ![p] = [tree[p] EXCEPT ![d].open = ~@]]
        BY <3>4
      <4> QED
        BY <3>2, <4>1, <4>2
    <3> QED
      BY <3>1, <3>3, <3>4
  <2> QED
    BY <1>2, <2>1, <2>2 DEF LoadTypeOK, UserEdit
<1>3. CASE RootEdit
  <2>1. edits' \in [load : Nat, exe : Nat]
    BY <1>3 DEF LoadTypeOK, RootEdit
  <2>2. PICK p \in Trees, d \in 1..Depth :
          \E c \in Below(tree[p], d) :
              /\ tree' = [tree EXCEPT ![p] = c]
              /\ care' \in {"kept", "loosened"}
    BY <1>3 DEF RootEdit
  <2>3. tree' \in [Trees -> Chains]
    BY <2>2 DEF LoadTypeOK, Below
  <2> QED
    BY <1>3, <2>1, <2>2, <2>3 DEF LoadTypeOK, RootEdit
<1>4. CASE ExeStep \/ Others
  <2>1. edits' \in [load : Nat, exe : Nat]
    BY <1>4, OtherSteps DEF LoadTypeOK
  <2> QED
    BY <1>4, <2>1, OtherSteps DEF LoadTypeOK
<1>5. CASE UNCHANGED vars
  BY <1>5 DEF LoadTypeOK, vars, loadVars
<1> QED
  BY <1>1, <1>2, <1>3, <1>4, <1>5 DEF Next, LoadNext

(***************************************************************************)
(* Changes to the trees                                                    *)
(***************************************************************************)

(* How another user can have changed a path: below a component that is     *)
(* open to him or the mode of one that is his.                             *)
LEMMA UserEditCases ==
    ASSUME LoadTypeOK, UserEdit
    PROVE  \E p \in Trees, d \in 1..Depth :
              /\ \A q \in Trees : q # p => tree'[q] = tree[q]
              /\ \A i \in 1..(d - 1) : tree'[p][i] = tree[p][i]
              /\ \/ /\ d > 1 /\ Loose(tree[p][d - 1])
                    /\ \A i \in d..Depth : tree'[p][i].by = "user"
                 \/ /\ tree[p][d].uid # 0 /\ tree'[p][d].uid # 0
                    /\ tree'[p][d].by = tree[p][d].by
                    /\ \A i \in 1..Depth : i # d => tree'[p][i] = tree[p][i]
<1>1. PICK p \in Trees, d \in 1..Depth :
        \/ /\ d > 1 /\ tree[p][d - 1].kind \in {"dir", "link"} /\ Loose(tree[p][d - 1])
           /\ \E c \in Below(tree[p], d) :
                /\ \A e \in d..Depth : c[e].by = "user"
                /\ tree' = [tree EXCEPT ![p] = c]
        \/ /\ tree[p][d].uid # 0
           /\ tree' = [tree EXCEPT ![p][d].open = ~@]
  BY DEF UserEdit
<1>2. tree \in [Trees -> Chains] /\ tree[p] \in [1..Depth -> Node]
  BY DEF LoadTypeOK, Chains
<1>3. CASE d > 1 /\ Loose(tree[p][d - 1])
           /\ \E c \in Below(tree[p], d) :
                /\ \A e \in d..Depth : c[e].by = "user"
                /\ tree' = [tree EXCEPT ![p] = c]
  <2>1. PICK c \in Below(tree[p], d) :
          (\A e \in d..Depth : c[e].by = "user") /\ tree' = [tree EXCEPT ![p] = c]
    BY <1>3
  <2>2. tree'[p] = c /\ \A q \in Trees : q # p => tree'[q] = tree[q]
    BY <1>2, <2>1
  <2>3. \A i \in 1..(d - 1) : c[i] = tree[p][i]
    BY DEF Below
  <2> QED
    BY <1>3, <2>1, <2>2, <2>3
<1>4. CASE tree[p][d].uid # 0 /\ tree' = [tree EXCEPT ![p][d].open = ~@]
  <2>1. tree'[p] = [tree[p] EXCEPT ![d] = [tree[p][d] EXCEPT !.open = ~@]]
    BY <1>2, <1>4
  <2>2. tree'[p][d] = [tree[p][d] EXCEPT !.open = ~@] /\ tree[p][d] \in Node
    BY <1>2, <2>1
  <2>3. tree'[p][d].uid = tree[p][d].uid /\ tree'[p][d].by = tree[p][d].by
    BY <2>2 DEF Node
  <2>4. \A i \in 1..Depth : i # d => tree'[p][i] = tree[p][i]
    BY <1>2, <2>1
  <2>5. \A i \in 1..(d - 1) : i \in 1..Depth /\ i # d
    BY ConfigAssumption
  <2>6. \A q \in Trees : q # p => tree'[q] = tree[q]
    BY <1>2, <1>4
  <2> QED
    BY <1>4, <2>3, <2>4, <2>5, <2>6
<1> QED
  BY <1>1, <1>3, <1>4

(* How root can have changed one. *)
LEMMA RootEditCases ==
    ASSUME LoadTypeOK, RootEdit
    PROVE  \E p \in Trees, d \in 1..Depth :
              /\ \A q \in Trees : q # p => tree'[q] = tree[q]
              /\ \A i \in 1..(d - 1) : tree'[p][i] = tree[p][i]
              /\ \A i \in d..Depth : tree'[p][i].by = "root"
              /\ care' # "loosened" =>
                    care # "loosened" /\ \A i \in d..Depth : ~Loose(tree'[p][i])
<1>0. PICK p \in Trees, d \in 1..Depth : \E c \in Below(tree[p], d) :
        /\ \A e \in d..Depth : c[e].by = "root"
        /\ tree' = [tree EXCEPT ![p] = c]
        /\ care' = IF care = "loosened" \/ (\E e \in d..Depth : Loose(c[e]))
                   THEN "loosened" ELSE "kept"
  BY DEF RootEdit
<1>1. PICK c \in Below(tree[p], d) :
        /\ \A e \in d..Depth : c[e].by = "root"
        /\ tree' = [tree EXCEPT ![p] = c]
        /\ care' = IF care = "loosened" \/ (\E e \in d..Depth : Loose(c[e]))
                   THEN "loosened" ELSE "kept"
  BY <1>0
<1>2. tree \in [Trees -> Chains]
  BY DEF LoadTypeOK
<1>3. tree'[p] = c /\ \A q \in Trees : q # p => tree'[q] = tree[q]
  BY <1>1, <1>2
<1>4. \A i \in 1..(d - 1) : c[i] = tree[p][i]
  BY DEF Below
<1> QED
  BY <1>1, <1>3, <1>4

(* A closed upper part of a path stays as it is unless root loosens one:   *)
(* nobody else can change anything of it, and root keeps it closed.        *)
LEMMA ClosedStays ==
    ASSUME LoadTypeOK, UserEdit \/ RootEdit, care' # "loosened",
           NEW q \in Trees, NEW k \in 0..Depth, Closed(tree[q], k)
    PROVE  Closed(tree'[q], k)
<1>1. Depth \in Nat
  BY ConfigAssumption
<1>2. CASE UserEdit
  <2>1. PICK p \in Trees, d \in 1..Depth :
              /\ \A r \in Trees : r # p => tree'[r] = tree[r]
              /\ \A i \in 1..(d - 1) : tree'[p][i] = tree[p][i]
              /\ \/ d > 1 /\ Loose(tree[p][d - 1])
                 \/ /\ tree[p][d].uid # 0
                    /\ \A i \in 1..Depth : i # d => tree'[p][i] = tree[p][i]
    BY <1>2, UserEditCases
  <2>2. CASE p # q
    BY <2>1, <2>2 DEF Closed
  <2>3. CASE p = q /\ d > 1 /\ Loose(tree[p][d - 1])
    <3>1. d - 1 \notin 1..k
      BY <2>3 DEF Closed
    <3>2. \A i \in 1..k : i \in 1..(d - 1)
      BY <1>1, <2>3, <3>1
    <3> QED
      BY <2>1, <2>3, <3>2 DEF Closed
  <2>4. CASE p = q /\ tree[p][d].uid # 0 /\ \A i \in 1..Depth : i # d => tree'[p][i] = tree[p][i]
    <3>1. d \notin 1..k
      BY <2>4 DEF Closed, Loose
    <3>2. \A i \in 1..k : i \in 1..Depth /\ i # d
      BY <1>1, <3>1
    <3> QED
      BY <2>4, <3>2 DEF Closed
  <2> QED
    BY <2>1, <2>2, <2>3, <2>4
<1>3. CASE RootEdit
  <2>1. PICK p \in Trees, d \in 1..Depth :
              /\ \A r \in Trees : r # p => tree'[r] = tree[r]
              /\ \A i \in 1..(d - 1) : tree'[p][i] = tree[p][i]
              /\ \A i \in d..Depth : ~Loose(tree'[p][i])
    BY <1>3, RootEditCases
  <2>2. CASE p # q
    BY <2>1, <2>2 DEF Closed
  <2>3. CASE p = q
    <3>1. \A i \in 1..k : i \in 1..(d - 1) \/ i \in d..Depth
      BY <1>1
    <3> QED
      BY <2>1, <2>3, <3>1 DEF Closed
  <2> QED
    BY <2>2, <2>3
<1> QED
  BY <1>2, <1>3

(* What other users put somewhere stays below something they could change. *)
LEMMA ProvenanceStep ==
    ASSUME LoadTypeOK, Provenance, [Next]_vars
    PROVE  Provenance'
<1>1. Depth \in Nat
  BY ConfigAssumption
<1>2. CASE UserEdit
  <2>1. PICK p \in Trees, d \in 1..Depth :
              /\ \A q \in Trees : q # p => tree'[q] = tree[q]
              /\ \A i \in 1..(d - 1) : tree'[p][i] = tree[p][i]
              /\ \/ d > 1 /\ Loose(tree[p][d - 1])
                 \/ /\ tree[p][d].uid # 0 /\ tree'[p][d].uid # 0
                    /\ tree'[p][d].by = tree[p][d].by
                    /\ \A i \in 1..Depth : i # d => tree'[p][i] = tree[p][i]
    BY <1>2, UserEditCases
  <2> SUFFICES ASSUME NEW q \in Trees, NEW i \in 1..Depth, tree'[q][i].by = "user"
               PROVE  \E e \in 1..(i - 1) : Loose(tree'[q][e])
    BY DEF Provenance
  <2>2. CASE q # p
    BY <2>1, <2>2 DEF Provenance
  <2>3. CASE q = p /\ i < d
    <3>1. i \in 1..(d - 1) /\ \A e \in 1..(i - 1) : e \in 1..(d - 1)
      BY <1>1, <2>3
    <3> QED
      BY <2>1, <2>3, <3>1 DEF Provenance
  <2>4. CASE q = p /\ ~(i < d) /\ d > 1 /\ Loose(tree[p][d - 1])
    <3>1. d - 1 \in 1..(i - 1) /\ d - 1 \in 1..(d - 1)
      BY <1>1, <2>4
    <3> QED
      BY <2>1, <2>4, <3>1
  <2>5. CASE /\ q = p /\ tree[p][d].uid # 0 /\ tree'[p][d].uid # 0
             /\ tree'[p][d].by = tree[p][d].by
             /\ \A j \in 1..Depth : j # d => tree'[p][j] = tree[p][j]
    <3>1. PICK e \in 1..(i - 1) : Loose(tree[p][e])
      BY <2>5 DEF Provenance
    <3>2. e \in 1..Depth
      BY <1>1
    <3>3. CASE e = d
      BY <2>5, <3>3 DEF Loose
    <3>4. CASE e # d
      BY <2>5, <3>1, <3>2, <3>4
    <3> QED
      BY <3>3, <3>4
  <2> QED
    BY <2>1, <2>2, <2>3, <2>4, <2>5
<1>3. CASE RootEdit
  <2>1. PICK p \in Trees, d \in 1..Depth :
              /\ \A q \in Trees : q # p => tree'[q] = tree[q]
              /\ \A i \in 1..(d - 1) : tree'[p][i] = tree[p][i]
              /\ \A i \in d..Depth : tree'[p][i].by = "root"
    BY <1>3, RootEditCases
  <2> SUFFICES ASSUME NEW q \in Trees, NEW i \in 1..Depth, tree'[q][i].by = "user"
               PROVE  \E e \in 1..(i - 1) : Loose(tree'[q][e])
    BY DEF Provenance
  <2>2. CASE q # p
    BY <2>1, <2>2 DEF Provenance
  <2>3. CASE q = p
    <3>1. i \in 1..(d - 1)
      BY <1>1, <2>1, <2>3
    <3>2. \A e \in 1..(i - 1) : e \in 1..(d - 1)
      BY <1>1, <3>1
    <3> QED
      BY <2>1, <2>3, <3>1, <3>2 DEF Provenance
  <2> QED
    BY <2>2, <2>3
<1>4. CASE UNCHANGED tree
  BY <1>4 DEF Provenance, Loose
<1>5. CASE LoadStep
  BY <1>4, <1>5 DEF LoadStep, Exists, WalkConfig, WalkSanctuary, is_trusted_path, Symlink, Open,
                    Read, Directory, Validate
<1> QED
  BY <1>2, <1>3, <1>4, <1>5, Steps

(***************************************************************************)
(* The walk                                                                *)
(***************************************************************************)
LEMMA FromTheTopStep ==
    ASSUME FromTheTop, [Next]_vars
    PROVE  FromTheTop'
<1> USE DEF FromTheTop
<1>1. CASE WalkConfig \/ WalkSanctuary
  BY <1>1 DEF WalkConfig, WalkSanctuary, is_trusted_path, Turn
<1>2. CASE Exists \/ Symlink \/ Open \/ Read \/ Directory \/ Validate
  BY <1>2 DEF Exists, Symlink, Open, Read, Directory, Validate
<1>3. CASE UserEdit \/ RootEdit
  BY <1>3 DEF UserEdit, RootEdit
<1>4. CASE UNCHANGED <<load, at>>
  BY <1>4
<1> QED
  BY <1>1, <1>2, <1>3, <1>4, Steps DEF LoadStep

(* Read makes cfg from the document; the steps after it leave it alone. *)
LEMMA ParsedStep ==
    ASSUME Parsed, [Next]_vars
    PROVE  Parsed'
<1> USE DEF Parsed, FromRead
<1>1. CASE Exists \/ WalkConfig \/ Symlink \/ Open
  BY <1>1 DEF Exists, WalkConfig, is_trusted_path, Symlink, Open, Turn
<1>2. CASE Read
  BY <1>2 DEF Read, Turn
<1>3. CASE Directory \/ Validate
  BY <1>3 DEF Directory, Validate, IsDirectory, Turn
<1>4. CASE WalkSanctuary
  <2>1. load = "sanctuary" /\ UNCHANGED <<host, cfg>>
    BY <1>4 DEF WalkSanctuary, is_trusted_path
  <2>2. load' \in {"failed", "sanctuary", "loaded"} \/ (load' = "validate" /\ host.op = "check")
    BY <1>4 DEF WalkSanctuary, is_trusted_path, Turn
  <2> QED
    BY <2>1, <2>2
<1>5. CASE UserEdit \/ RootEdit
  BY <1>5 DEF UserEdit, RootEdit
<1>6. CASE UNCHANGED <<host, load, cfg>>
  BY <1>6
<1> QED
  BY <1>1, <1>2, <1>3, <1>4, <1>5, <1>6, Steps DEF LoadStep

(* One look of is_trusted_path() extends what is known to be closed by one *)
(* component, the last of which leads to the next stage.                   *)
LEMMA OneLook ==
    ASSUME LoadTypeOK, NEW p \in Trees, NEW next, is_trusted_path(p, next),
           Closed(tree[p], at - 1)
    PROVE  /\ UNCHANGED <<host, tree, file, care>>
           /\ \/ load' = "failed"
              \/ load' = load /\ at' = at + 1 /\ Closed(tree'[p], at' - 1)
              \/ load' = next /\ Closed(tree'[p], Depth)
<1>1. at \in 1..Depth /\ Depth \in Nat
  BY ConfigAssumption DEF LoadTypeOK
<1>2. UNCHANGED <<host, tree, file, care>>
  BY DEF is_trusted_path
<1>3. ASSUME Trusted(tree[p][at], TRUE) \/ Trusted(tree[p][at], FALSE)
      PROVE  Closed(tree'[p], at)
  <2>1. ~Loose(tree[p][at])
    BY <1>3 DEF Trusted, Loose
  <2>2. \A d \in 1..at : d = at \/ d \in 1..(at - 1)
    BY <1>1
  <2> QED
    BY <1>2, <2>1, <2>2 DEF Closed, Loose
<1>4. CASE at < Depth
  <2>1. load' = "failed" \/ (load' = load /\ at' = at + 1 /\ Trusted(tree[p][at], FALSE))
    BY <1>4 DEF is_trusted_path, Turn
  <2>2. at' = at + 1 => at' - 1 = at
    BY <1>1
  <2>3. Closed(tree'[p], at) /\ at' - 1 = at => Closed(tree'[p], at' - 1)
    BY <1>2 DEF Closed, Loose
  <2> QED
    BY <1>2, <1>3, <2>1, <2>2, <2>3
<1>5. CASE ~(at < Depth)
  <2>1. load' = "failed" \/ (load' = next /\ Trusted(tree[p][at], TRUE))
    BY <1>5 DEF is_trusted_path, Turn
  <2>2. at = Depth
    BY <1>1, <1>5
  <2> QED
    BY <1>2, <1>3, <2>1, <2>2
<1> QED
  BY <1>4, <1>5

(* At the end of a closed path lies what root put there. *)
LEMMA RootsOwn ==
    ASSUME LoadTypeOK, Provenance, NEW p \in Trees, Closed(tree[p], Depth), NEW d \in 1..Depth
    PROVE  tree[p][d].by = "root"
<1>1. tree[p][d].by \in {"root", "user"}
  BY Components DEF Node
<1>2. \A e \in 1..(d - 1) : e \in 1..Depth
  BY ConfigAssumption
<1> QED
  BY <1>1, <1>2 DEF Provenance, Closed

(* A step of the walk adds the component it looked at to those that are    *)
(* closed to users, who cannot open them again; root may, and care says so. *)
LEMMA WalkedStep ==
    ASSUME LoadTypeOK, Provenance, FromTheTop, Walked, [Next]_vars
    PROVE  Walked'
<1> SUFFICES ASSUME care' # "loosened" PROVE Walked'
  BY DEF Walked
<1>0. Depth \in Nat \ {0} /\ {"config", "sanctuary"} = Trees
  BY ConfigAssumption DEF Trees
<1>1. CASE Exists
  <2>1. load = "exists" /\ load' \in {"walk", "failed"} /\ at' = at /\ at = 1
    BY <1>1 DEF Exists, Turn, FromTheTop
  <2>2. Closed(tree'["config"], at' - 1)
    BY <2>1 DEF Closed
  <2> QED
    BY <2>1, <2>2 DEF Walked, FromRead, Accepted
<1>2. CASE WalkConfig
  <2>1. load = "walk" /\ is_trusted_path("config", "symlink") /\ care # "loosened"
    BY <1>2 DEF WalkConfig, is_trusted_path
  <2>2. Closed(tree["config"], at - 1)
    BY <2>1 DEF Walked
  <2>3. \/ load' = "failed"
        \/ load' = load /\ Closed(tree'["config"], at' - 1)
        \/ load' = "symlink" /\ Closed(tree'["config"], Depth)
    BY <1>0, <2>1, <2>2, OneLook
  <2> QED
    BY <2>1, <2>3 DEF Walked, FromRead, Accepted
<1>3. CASE Symlink
  <2>1. load = "symlink" /\ load' \in {"open", "failed"} /\ UNCHANGED <<tree, care>>
    BY <1>3 DEF Symlink, Turn
  <2>2. Closed(tree'["config"], Depth)
    BY <2>1 DEF Walked, Closed, Loose
  <2> QED
    BY <2>1, <2>2 DEF Walked, FromRead, Accepted
<1>4. CASE Open
  <2>1. /\ load = "open" /\ load' \in {"read", "failed"} /\ UNCHANGED <<host, tree, care>>
        /\ file' = Leaf("config")
        /\ load' = "read" => Leaf("config").uid = host.euid
    BY <1>4 DEF Open, Turn, is_file_safe
  <2>2. Closed(tree["config"], Depth)
    BY <2>1 DEF Walked
  <2>3. Leaf("config") = tree["config"][Depth] /\ Depth \in 1..Depth
    BY <1>0, Components
  <2>4. Leaf("config").by = "root"
    BY <1>0, <2>2, <2>3, RootsOwn
  <2>5. Leaf("config").uid = 0
    BY <2>2, <2>3 DEF Closed, Loose
  <2>6. load' = "read" => file'.by = "root" /\ host'.euid = 0
    BY <2>1, <2>4, <2>5
  <2> QED
    BY <2>1, <2>6 DEF Walked, FromRead, Accepted
<1>5. CASE Read
  <2>1. load = "read" /\ load' \in {"unreadable", "directory", "failed"}
        /\ UNCHANGED <<host, file, care>>
    BY <1>5 DEF Read, Turn
  <2> QED
    BY <2>1 DEF Walked, FromRead, Accepted
<1>6. CASE Directory
  <2>1. load = "directory" /\ load' \in {"sanctuary", "failed"}
        /\ UNCHANGED <<host, at, file, care>>
    BY <1>6 DEF Directory, IsDirectory, Turn
  <2>2. Closed(tree'["sanctuary"], at' - 1)
    BY <2>1 DEF FromTheTop, Closed
  <2> QED
    BY <2>1, <2>2 DEF Walked, FromRead, Accepted
<1>7. CASE WalkSanctuary
  <2> DEFINE next == IF host.op = "check" THEN "validate" ELSE "loaded"
  <2>1. load = "sanctuary" /\ is_trusted_path("sanctuary", next) /\ care # "loosened"
    BY <1>7 DEF WalkSanctuary, is_trusted_path
  <2>2. Closed(tree["sanctuary"], at - 1) /\ file.by = "root" /\ host.euid = 0
    BY <2>1 DEF Walked, FromRead
  <2>3. /\ UNCHANGED <<host, file>>
        /\ \/ load' = "failed"
           \/ load' = load /\ Closed(tree'["sanctuary"], at' - 1)
           \/ load' \in {"validate", "loaded"} /\ Closed(tree'["sanctuary"], Depth)
    <3> HIDE DEF next
    <3>1. next \in {"validate", "loaded"}
      BY DEF next
    <3> QED
      BY <1>0, <2>1, <2>2, <3>1, OneLook
  <2> QED
    BY <2>1, <2>2, <2>3 DEF Walked, FromRead, Accepted
<1>8. CASE Validate
  <2>1. load = "validate" /\ load' \in {"valid", "failed"}
        /\ UNCHANGED <<host, tree, file, care>>
    BY <1>8 DEF Validate, IsDirectory, Turn
  <2>2. Closed(tree'["sanctuary"], Depth)
    BY <2>1 DEF Walked, Accepted, Closed, Loose
  <2> QED
    BY <2>1, <2>2 DEF Walked, FromRead, Accepted
<1>9. CASE UserEdit \/ RootEdit
  <2>1. UNCHANGED <<host, load, at, file>> /\ care # "loosened"
    BY <1>9 DEF UserEdit, RootEdit
  <2>2. ASSUME NEW p \in Trees, NEW k \in 0..Depth, Closed(tree[p], k)
        PROVE  Closed(tree'[p], k)
    BY <1>9, <2>2, ClosedStays
  <2>3. at - 1 \in 0..Depth /\ Depth \in 0..Depth
    BY <1>0 DEF LoadTypeOK
  <2>4. ASSUME NEW p \in Trees
        PROVE  /\ Closed(tree[p], at - 1) => Closed(tree'[p], at' - 1)
               /\ Closed(tree[p], Depth) => Closed(tree'[p], Depth)
    BY <2>1, <2>2, <2>3
  <2>5. /\ load = "walk" => Closed(tree'["config"], at' - 1)
        /\ load \in {"symlink", "open"} => Closed(tree'["config"], Depth)
        /\ load = "sanctuary" => Closed(tree'["sanctuary"], at' - 1)
        /\ Accepted => Closed(tree'["sanctuary"], Depth)
    BY <1>0, <2>1, <2>4 DEF Walked
  <2> QED
    BY <2>1, <2>5 DEF Walked, FromRead, Accepted
<1>10. CASE UNCHANGED <<host, tree, load, at, file, cfg, care>>
  BY <1>10 DEF Walked, FromRead, Accepted, Closed, Loose
<1> QED
  BY <1>1, <1>2, <1>3, <1>4, <1>5, <1>6, <1>7, <1>8, <1>9, <1>10, Steps DEF LoadStep

(***************************************************************************)
(* What load() refuses                                                     *)
(***************************************************************************)

(* Why a look at a well kept path succeeds *)
LEMMA KeptIsTrusted ==
    ASSUME NEW p \in Trees, NEW kind \in {"dir", "file"}, Kept(p, kind), at \in 1..Depth
    PROVE  /\ at < Depth => Trusted(tree[p][at], FALSE)
           /\ ~(at < Depth) => Trusted(tree[p][at], TRUE)
<1>1. at = Depth \/ at < Depth
  BY ConfigAssumption
<1> QED
  BY <1>1 DEF Kept, Trusted, Loose

(* No step of load() fails on a configuration that is well kept, and once  *)
(* it is not, care says so.                                                *)
LEMMA WellKeptStep ==
    ASSUME LoadTypeOK, Parsed, WellKeptLoads, [Next]_vars
    PROVE  WellKeptLoads'
<1>0. Depth \in Nat \ {0} /\ {"config", "sanctuary"} = Trees /\ at \in 1..Depth
  BY ConfigAssumption DEF Trees, LoadTypeOK
<1>1. CASE UNCHANGED <<host, tree, load, at, file, cfg, care>>
  BY <1>1 DEF WellKeptLoads, Kept, Loose
<1>2. CASE UserEdit \/ RootEdit
  BY <1>2 DEF UserEdit, RootEdit, LoadEnd, WellKeptLoads
<1>3. CASE LoadStep
  <2> SUFFICES ASSUME load' = "failed", host'.euid = 0,
                      Kept("config", "file")', Kept("sanctuary", "dir")'
               PROVE  \/ DocumentFails(host.doc)
                      \/ parse(host.doc).sanctuary \notin Absolute
                      \/ host.op = "check" /\ ~Validates(parse(host.doc))
    BY <1>3 DEF WellKeptLoads, LoadStep, Exists, WalkConfig, WalkSanctuary, is_trusted_path,
                Symlink, Open, Read, Directory, Validate
  <2>1. UNCHANGED <<host, tree, care>>
    BY <1>3 DEF LoadStep, Exists, WalkConfig, WalkSanctuary, is_trusted_path, Symlink, Open,
                Read, Directory, Validate
  <2>2. host.euid = 0 /\ Kept("config", "file") /\ Kept("sanctuary", "dir")
    BY <2>1 DEF Kept, Loose
  <2>3. /\ Leaf("config").kind = "file" /\ Leaf("config").uid = 0 /\ ~Leaf("config").open
        /\ Leaf("sanctuary").kind = "dir"
    BY <1>0, <2>2 DEF Kept, Leaf, Loose
  <2>4. CASE Exists
    BY <2>3, <2>4 DEF Exists, Turn
  <2>5. CASE WalkConfig
    <3>1. /\ at < Depth => Trusted(tree["config"][at], FALSE)
          /\ ~(at < Depth) => Trusted(tree["config"][at], TRUE)
      BY <1>0, <2>2, KeptIsTrusted
    <3> QED
      BY <2>5, <3>1 DEF WalkConfig, is_trusted_path, Turn
  <2>6. CASE Symlink
    BY <2>3, <2>6 DEF Symlink, Turn
  <2>7. CASE Open
    BY <2>2, <2>3, <2>7 DEF Open, Turn, is_file_safe
  <2>8. CASE Read
    BY <2>8 DEF Read, Turn
  <2>9. CASE Directory
    BY <2>3, <2>9 DEF Directory, IsDirectory, Turn, Parsed, FromRead
  <2>10. CASE WalkSanctuary
    <3>1. /\ at < Depth => Trusted(tree["sanctuary"][at], FALSE)
          /\ ~(at < Depth) => Trusted(tree["sanctuary"][at], TRUE)
      BY <1>0, <2>2, KeptIsTrusted
    <3> QED
      BY <2>10, <3>1 DEF WalkSanctuary, is_trusted_path, Turn
  <2>11. CASE Validate
    BY <2>3, <2>11 DEF Validate, IsDirectory, Turn, Parsed, FromRead
  <2> QED
    BY <1>3, <2>4, <2>5, <2>6, <2>7, <2>8, <2>9, <2>10, <2>11 DEF LoadStep
<1> QED
  BY <1>1, <1>2, <1>3, Steps

(***************************************************************************)
(* The theorems                                                            *)
(***************************************************************************)
LEMMA LoadStarts == Init => LoadInv
<1> SUFFICES ASSUME Init PROVE LoadInv
  OBVIOUS
<1>1. PICK s \in Scenarios : LoadInit(s)
  BY DEF Init
<1>2. LoadTypeOK
  <2>1. 1 \in 1..Depth
    BY ConfigAssumption
  <2>2. NoFile \in Node
    BY DEF NoFile, Node
  <2>3. host \in Hosts
    BY <1>1 DEF LoadInit, Hosts
  <2>4. tree \in [Trees -> Chains] /\ edits \in [load : Nat, exe : Nat]
    BY <1>1, ConfigAssumption DEF LoadInit
  <2> QED
    BY <1>1, <2>1, <2>2, <2>3, <2>4 DEF LoadInit, LoadTypeOK, Loading
<1>3. Provenance
  BY <1>1, ConfigAssumption DEF LoadInit, Provenance
<1>4. FromTheTop /\ Walked /\ Parsed /\ WellKeptLoads
  BY <1>1 DEF LoadInit, FromTheTop, Walked, Parsed, WellKeptLoads, FromRead, Accepted
<1> QED
  BY <1>2, <1>3, <1>4 DEF LoadInv

(* The inductive invariant of load() holds throughout every behaviour. *)
LEMMA LoadInvariance == Spec => []LoadInv
<1>1. LoadInv /\ [Next]_vars => LoadInv'
  BY LoadTypeStep, ProvenanceStep, FromTheTopStep, WalkedStep, ParsedStep, WellKeptStep
     DEF LoadInv
<1> QED
  BY LoadStarts, <1>1, PTL DEF Spec

(* The variables of Config::load keep their types. *)
THEOREM LoadTypeCorrect == Spec => []LoadTypeOK
<1>1. LoadInv => LoadTypeOK
  BY DEF LoadInv
<1> QED
  BY LoadInvariance, <1>1, PTL

(* Whatever other users do to the two paths between the looks of           *)
(* is_trusted_path() and the open(), a configuration that is accepted was  *)
(* put there by root and so was every component of the sanctuary.          *)
THEOREM OnlyTrustedConfig == Spec => []ConfigTrusted
<1>1. LoadInv => ConfigTrusted
  <2> SUFFICES ASSUME LoadInv, Accepted, care # "loosened"
               PROVE  file.by = "root" /\ \A d \in 1..Depth : tree["sanctuary"][d].by = "root"
    BY DEF ConfigTrusted
  <2>1. file.by = "root" /\ Closed(tree["sanctuary"], Depth)
    BY DEF LoadInv, Walked, Accepted, FromRead
  <2> QED
    BY <2>1, RootsOwn DEF LoadInv, Trees
<1> QED
  BY LoadInvariance, <1>1, PTL

(* is_trusted_path() and is_file_safe() agree for effective uid 0 only.    *)
THEOREM RootLoads == Spec => []LoadsOnlyAsRoot
<1>1. LoadInv => LoadsOnlyAsRoot
  BY DEF LoadInv, Walked, Accepted, FromRead, LoadsOnlyAsRoot
<1> QED
  BY LoadInvariance, <1>1, PTL

(* load() as root refuses two well kept paths only for what the document   *)
(* says.                                                                   *)
THEOREM NothingElseRefused == Spec => []WellKeptLoads
<1>1. LoadInv => WellKeptLoads
  BY DEF LoadInv
<1> QED
  BY LoadInvariance, <1>1, PTL

(* What get_profile() returns for any name is a profile the child can      *)
(* apply.                                                                  *)
THEOREM UsableProfiles == Spec => []ProfilesUsable
<1>1. ASSUME LoadInv, Accepted, NEW name
      PROVE  ~profile_error(get_profile(cfg, name))
  <2>1. cfg = parse(host.doc) /\ ~DocumentFails(host.doc)
    BY <1>1 DEF LoadInv, Parsed, Accepted, FromRead
  <2> DEFINE names == DOMAIN Get(host.doc, "profiles", <<>>)
  <2>2. cfg.profiles = [n \in names |-> ParsedProfile(host.doc.profiles[n])]
    BY <2>1 DEF parse
  <2>3. \A n \in names : ~profile_error(ParsedProfile(host.doc.profiles[n]))
    BY <2>1 DEF DocumentFails
  <2>4. ~profile_error([mode |-> "blacklist", allow |-> <<>>])
    BY DEF profile_error, ToSet
  <2> HIDE DEF names
  <2> QED
    BY <2>2, <2>3, <2>4 DEF get_profile
<1>2. LoadInv => ProfilesUsable
  BY <1>1 DEF ProfilesUsable, profile_error
<1> QED
  BY LoadInvariance, <1>2, PTL

(***************************************************************************)
(* The sections of the document                                            *)
(***************************************************************************)

(* A function on 1..m is a sequence.                                       *)
LEMMA Listed ==
    ASSUME NEW V, NEW m \in Nat, NEW f \in [1..m -> V]
    PROVE  f \in Seq(V) /\ Len(f) = m
OBVIOUS

(* A sequence over a set is one over every larger set.                     *)
LEMMA Widened ==
    ASSUME NEW V, NEW W, V \subseteq W, NEW s \in Seq(V)
    PROVE  s \in Seq(W)
<1>1. Len(s) \in Nat /\ s \in [1..Len(s) -> V]
  OBVIOUS
<1>2. s \in [1..Len(s) -> W]
  BY <1>1
<1> QED
  BY <1>1, <1>2, Listed

(* A sequence is empty if it has no elements.                              *)
LEMMA Elements ==
    ASSUME NEW V, NEW s \in Seq(V)
    PROVE  /\ Len(s) \in Nat /\ DOMAIN s = 1..Len(s)
           /\ s # <<>> <=> ToSet(s) # {}
<1>1. Len(s) \in Nat /\ DOMAIN s = 1..Len(s) /\ (s # <<>> <=> Len(s) # 0)
  OBVIOUS
<1>2. Len(s) # 0 <=> 1 \in DOMAIN s
  BY <1>1
<1>3. DOMAIN s # {} <=> 1 \in DOMAIN s
  BY <1>1
<1>4. ToSet(s) # {} <=> DOMAIN s # {}
  BY DEF ToSet
<1> QED
  BY <1>1, <1>2, <1>3, <1>4

(* The elements of two sequences one after the other *)
LEMMA ConcatElements ==
    ASSUME NEW V, NEW s \in Seq(V), NEW t \in Seq(V)
    PROVE  s \o t \in Seq(V) /\ ToSet(s \o t) = ToSet(s) \cup ToSet(t)
<1>1. s \o t \in Seq(V) /\ Len(s \o t) = Len(s) + Len(t) /\ Len(s) \in Nat /\ Len(t) \in Nat
  OBVIOUS
<1>2. DOMAIN s = 1..Len(s) /\ DOMAIN t = 1..Len(t) /\ DOMAIN (s \o t) = 1..(Len(s) + Len(t))
  BY <1>1
<1>3. \A i \in 1..Len(s) : (s \o t)[i] = s[i] /\ i \in DOMAIN (s \o t)
  BY <1>1, <1>2
<1>4. ASSUME NEW i \in 1..Len(t)
      PROVE  (s \o t)[Len(s) + i] = t[i] /\ Len(s) + i \in DOMAIN (s \o t)
  BY <1>1, <1>2
<1>5. ASSUME NEW i \in DOMAIN (s \o t)
      PROVE  (s \o t)[i] \in ToSet(s) \cup ToSet(t)
  <2>1. CASE i \in 1..Len(s)
    BY <1>2, <1>3, <2>1 DEF ToSet
  <2>2. CASE i \notin 1..Len(s)
    <3>1. i - Len(s) \in 1..Len(t) /\ Len(s) + (i - Len(s)) = i
      BY <1>1, <1>2, <2>2
    <3>2. (s \o t)[i] = t[i - Len(s)]
      BY <1>4, <3>1
    <3> QED
      BY <1>2, <3>1, <3>2 DEF ToSet
  <2> QED
    BY <2>1, <2>2
<1>6. ToSet(s \o t) \subseteq ToSet(s) \cup ToSet(t)
  BY <1>5 DEF ToSet
<1>7. ToSet(s) \subseteq ToSet(s \o t) /\ ToSet(t) \subseteq ToSet(s \o t)
  BY <1>2, <1>3, <1>4 DEF ToSet
<1> QED
  BY <1>1, <1>6, <1>7

(* The elements of all sequences of a sequence, which FlattenSeq() puts    *)
(* one after the other in a loop                                           *)
LEMMA FlattenElements ==
    ASSUME NEW V, NEW ss \in Seq(Seq(V))
    PROVE  /\ FlattenSeq(ss) \in Seq(V)
           /\ ToSet(FlattenSeq(ss)) = UNION { ToSet(ss[i]) : i \in 1..Len(ss) }
<1> DEFINE n == Len(ss)
           All(i) == UNION { ToSet(ss[j]) : j \in 1..i }
           Equation(f) == f = [i \in 1..n |-> IF i = 1 THEN ss[i] ELSE f[i - 1] \o ss[i]]
<1>0. n \in Nat /\ \A i \in 1..n : ss[i] \in Seq(V)
  OBVIOUS
<1>1. CASE n = 0
  <2>1. FlattenSeq(ss) = ss /\ ss = <<>>
    BY <1>1 DEF FlattenSeq
  <2>2. ToSet(ss) = {} /\ 1..n = {}
    BY <1>1, <2>1 DEF ToSet
  <2> QED
    BY <2>1, <2>2
<1>2. CASE n # 0
  <2>1. \E f : Equation(f)
    <3> DEFINE W == Seq(V)
               G == [x \in (1..n) \X W |-> x[2] \o ss[x[1]]]
    <3>1. G \in [(1..n) \X W -> W]
      BY <1>0, ConcatElements
    <3>2. <<>> \in W
      OBVIOUS
    <3>3. PICK f \in [0..n -> W] : Iteration(f, n, <<>>, G)
      <4>1. n \in Nat
        OBVIOUS
      <4> HIDE DEF G, n, W
      <4> QED
        BY <3>1, <3>2, <4>1, Iterates
    <3> DEFINE g == [i \in 1..n |-> f[i]]
    <3>4. ASSUME NEW i \in 1..n
          PROVE  g[i] = IF i = 1 THEN ss[i] ELSE g[i - 1] \o ss[i]
      <4>1. i - 1 \in 0..n
        BY <1>0
      <4>2. f[i] = f[i - 1] \o ss[i]
        BY <3>3, <4>1 DEF Iteration
      <4>3. CASE i = 1
        BY <1>0, <3>3, <4>2, <4>3 DEF Iteration
      <4>4. CASE i # 1
        <5>1. i - 1 \in 1..n
          BY <1>0, <4>4
        <5> QED
          BY <4>2, <4>4, <5>1
      <4> QED
        BY <4>3, <4>4
    <3>5. Equation(g)
      BY <3>4
    <3> QED
      BY <3>5
  <2> DEFINE flatten == CHOOSE f : Equation(f)
  <2>2. Equation(flatten)
    BY <2>1
  <2>3. FlattenSeq(ss) = flatten[n]
    BY <1>2 DEF FlattenSeq
  <2> HIDE DEF flatten
  <2>4. \A i \in 1..n : flatten[i] = IF i = 1 THEN ss[i] ELSE flatten[i - 1] \o ss[i]
    BY <2>2
  <2> DEFINE T == {i \in Nat : i = 0 \/ (flatten[i] \in Seq(V) /\ ToSet(flatten[i]) = All(i))}
  <2>5. ASSUME NEW i \in 0..(n - 1), i \in T
        PROVE  i + 1 \in T
    <3>1. i + 1 \in 1..n /\ ss[i + 1] \in Seq(V)
      BY <1>0
    <3>2. All(i + 1) = All(i) \cup ToSet(ss[i + 1])
      <4>1. 1..(i + 1) = (1..i) \cup {i + 1}
        OBVIOUS
      <4> QED
        BY <4>1
    <3>3. CASE i = 0
      <4>1. flatten[i + 1] = ss[i + 1]
        BY <2>4, <3>1, <3>3
      <4>2. All(i) = {}
        BY <3>3
      <4>3. All(i + 1) = ToSet(ss[i + 1])
        BY <3>2, <4>2
      <4> HIDE DEF All
      <4> QED
        BY <3>1, <4>1, <4>3
    <3>4. CASE i # 0
      <4>0. (i + 1) - 1 = i /\ i + 1 # 1
        BY <3>4
      <4>1. flatten[i + 1] = flatten[i] \o ss[i + 1]
        BY <2>4, <3>1, <4>0
      <4>2. flatten[i] \in Seq(V) /\ ToSet(flatten[i]) = All(i)
        BY <2>5, <3>4
      <4>3. /\ flatten[i + 1] \in Seq(V)
            /\ ToSet(flatten[i + 1]) = ToSet(flatten[i]) \cup ToSet(ss[i + 1])
        BY <3>1, <4>1, <4>2, ConcatElements
      <4>4. ToSet(flatten[i + 1]) = All(i + 1)
        BY <3>2, <4>2, <4>3
      <4> HIDE DEF All
      <4> QED
        BY <3>1, <4>3, <4>4
    <3> QED
      BY <3>3, <3>4
  <2>6. 0..n \subseteq T
    <3>1. 0 \in T
      OBVIOUS
    <3> HIDE DEF T, n
    <3> QED
      BY <1>0, <2>5, <3>1, UpTo
  <2>7. n \in T
    <3> HIDE DEF T, n
    <3> QED
      BY <1>0, <2>6
  <2>8. flatten[n] \in Seq(V) /\ ToSet(flatten[n]) = All(n)
    <3> HIDE DEF All, n
    <3> QED
      BY <1>2, <2>7
  <2> QED
    BY <2>3, <2>8
<1> QED
  BY <1>1, <1>2

(* The rule parse_acl_section() makes of one node *)
RuleOf(node, name, group) ==
    IF group THEN OfGroup(parse_rule(node), name) ELSE OfUser(parse_rule(node), name)

(* A section gives one rule for each node of each of its entries. *)
LEMMA SectionRules ==
    ASSUME NEW q, IsSection(q), NEW group \in BOOLEAN
    PROVE  /\ \E V : parse_acl_section(q, group) \in Seq(V)
           /\ \A r : r \in ToSet(parse_acl_section(q, group)) <=>
                 \E e \in ToSet(q) : \E node \in ToSet(e.rules) : r = RuleOf(node, e.name, group)
<1> DEFINE n == Len(q)
           ss == [i \in 1..n |-> [k \in 1..Len(q[i].rules) |->
                     IF group THEN OfGroup(parse_rule(q[i].rules[k]), q[i].name)
                     ELSE OfUser(parse_rule(q[i].rules[k]), q[i].name)]]
           Of(e) == { RuleOf(node, e.name, group) : node \in ToSet(e.rules) }
           V == UNION { Of(e) : e \in ToSet(q) }
<1>1. n \in Nat /\ DOMAIN q = 1..n
  BY Elements DEF IsSection, IsSequence
<1>2. \A e : e \in ToSet(q) <=> \E i \in 1..n : e = q[i]
  BY <1>1 DEF ToSet
<1>3. ASSUME NEW i \in 1..n
      PROVE  /\ ss[i] \in Seq(V)
             /\ \A r : r \in ToSet(ss[i]) <=>
                   \E node \in ToSet(q[i].rules) : r = RuleOf(node, q[i].name, group)
  <2> DEFINE rules == q[i].rules
             m == Len(rules)
             s == ss[i]
  <2>1. rules \in Seq(ToSet(rules)) /\ q[i] \in ToSet(q)
    BY <1>2 DEF IsSection, IsSequence
  <2>2. m \in Nat /\ DOMAIN rules = 1..m
    BY <2>1, Elements
  <2>3. \A node : node \in ToSet(rules) <=> \E k \in 1..m : node = rules[k]
    BY <2>2 DEF ToSet
  <2>4. s = [k \in 1..m |-> RuleOf(rules[k], q[i].name, group)]
    BY DEF RuleOf
  <2> HIDE DEF s, m, rules
  <2>5. DOMAIN s = 1..m /\ \A k \in 1..m : s[k] = RuleOf(rules[k], q[i].name, group)
    BY <2>4
  <2>6. \A r : r \in ToSet(s) <=> \E k \in 1..m : r = RuleOf(rules[k], q[i].name, group)
    BY <2>5 DEF ToSet
  <2>7. \A r : r \in ToSet(s) <=> \E node \in ToSet(rules) : r = RuleOf(node, q[i].name, group)
    BY <2>3, <2>6
  <2>8. \A k \in 1..m : s[k] \in V
    <3>1. \A node \in ToSet(rules) : RuleOf(node, q[i].name, group) \in Of(q[i])
      BY DEF rules
    <3>2. Of(q[i]) \subseteq V
      <4> HIDE DEF Of
      <4> QED
        BY <2>1
    <3> HIDE DEF V, Of
    <3> QED
      BY <2>3, <2>5, <3>1, <3>2
  <2>9. s \in [1..m -> V]
    <3> HIDE DEF V
    <3> QED
      BY <2>4, <2>5, <2>8
  <2>10. s \in Seq(V)
    <3> HIDE DEF V
    <3> QED
      BY <2>2, <2>9, Listed
  <2> QED
    BY <2>7, <2>10 DEF s, rules
<1>4. ss \in Seq(Seq(V)) /\ Len(ss) = n
  <2>1. ss \in [1..n -> Seq(V)]
    <3>1. \A i \in 1..n : ss[i] \in Seq(V)
      BY <1>3
    <3> HIDE DEF V
    <3> QED
      BY <3>1
  <2> HIDE DEF ss, V, n
  <2> QED
    BY <1>1, <2>1, Listed
<1>5. parse_acl_section(q, group) = FlattenSeq(ss)
  BY DEF parse_acl_section
<1>6. /\ FlattenSeq(ss) \in Seq(V)
      /\ ToSet(FlattenSeq(ss)) = UNION { ToSet(ss[i]) : i \in 1..n }
  <2> HIDE DEF ss, V, n
  <2> QED
    BY <1>4, FlattenElements
<1>7. \A r : r \in ToSet(FlattenSeq(ss)) <=> \E i \in 1..n : r \in ToSet(ss[i])
  <2> HIDE DEF ss, n
  <2> QED
    BY <1>6
<1>8. \A r : r \in ToSet(FlattenSeq(ss)) <=>
         \E e \in ToSet(q) : \E node \in ToSet(e.rules) : r = RuleOf(node, e.name, group)
  <2> DEFINE Made(r, e) == \E node \in ToSet(e.rules) : r = RuleOf(node, e.name, group)
  <2>1. \A i \in 1..n : \A r : r \in ToSet(ss[i]) <=> Made(r, q[i])
    BY <1>3
  <2> HIDE DEF ss, n, Made
  <2>2. \A r : r \in ToSet(FlattenSeq(ss)) <=> \E e \in ToSet(q) : Made(r, e)
    <3>1. ASSUME NEW r \in ToSet(FlattenSeq(ss))
          PROVE  \E e \in ToSet(q) : Made(r, e)
      <4>1. PICK i \in 1..n : r \in ToSet(ss[i])
        BY <1>7
      <4> QED
        BY <1>2, <2>1, <4>1
    <3>2. ASSUME NEW r, NEW e \in ToSet(q), Made(r, e)
          PROVE  r \in ToSet(FlattenSeq(ss))
      <4>1. PICK i \in 1..n : e = q[i]
        BY <1>2
      <4> QED
        BY <1>7, <2>1, <3>2, <4>1
    <3> QED
      BY <3>1, <3>2
  <2> QED
    BY <2>2 DEF Made
<1> QED
  BY <1>5, <1>6, <1>8

(* Whom one rule of a section is about: the colon in front of the name of  *)
(* a group keeps identity_matches() from reading it as a uid.              *)
LEMMA RuleNames ==
    ASSUME NEW node, NEW name \in AnyText, NEW c, c.uid \in Ids
    PROVE  /\ identity_matches(RuleOf(node, name, FALSE), c) <=> NamesUser(name, c)
           /\ identity_matches(RuleOf(node, name, TRUE), c) <=> NamesGroup(name, c)
<1>1. parse_rule(node).ident_uid = NoId /\ parse_rule(node).ident_gid = NoId
  BY DEF parse_rule
<1>2. /\ RuleOf(node, name, FALSE).ident = name
      /\ RuleOf(node, name, FALSE).ident_uid = UserDb[name]
      /\ RuleOf(node, name, FALSE).ident_gid = NoId
  BY <1>1 DEF RuleOf, OfUser, parse_rule
<1>3. /\ RuleOf(node, name, TRUE).ident = Colon[name]
      /\ RuleOf(node, name, TRUE).ident_gid = GroupDb[name]
      /\ RuleOf(node, name, TRUE).ident_uid = NoId
  BY <1>1 DEF RuleOf, OfGroup, parse_rule
<1>4. identity_matches(RuleOf(node, name, FALSE), c) <=> NamesUser(name, c)
  BY <1>2 DEF identity_matches, NamesUser
<1>5. Colon[name] # NoText /\ ToUid(Number[Colon[name]]) = NoId /\ NoId # c.uid
  BY ConfigAssumption, VocabularyAssumption DEF ToUid
<1>6. identity_matches(RuleOf(node, name, TRUE), c) <=> NamesGroup(name, c)
  BY <1>3, <1>5 DEF identity_matches, NamesGroup
<1> QED
  BY <1>4, <1>6

(* A section without entries stands for one that is missing.               *)
LEMMA SectionsOfDocument ==
    ASSUME LoadTypeOK, NEW k \in {"user", "group"}
    PROVE  IsSection(Get(host.doc, k, <<>>)) /\ host.caller.uid \in Ids
<1>1. PICK s \in Scenarios : host = s.host
  BY DEF LoadTypeOK, Hosts
<1>2. IsSection(<<>>)
  BY DEF IsSection, IsSequence, ToSet
<1> QED
  BY <1>1, <1>2, ConfigAssumption DEF Get, Has

(* A rule for the caller exists exactly where an entry of the document     *)
(* names him: parse_acl_section() loses no entry and invents none.         *)
THEOREM EntriesAreRules == Spec => []EntriesMeanWhatTheySay
<1> DEFINE user == Get(host.doc, "user", <<>>)
           group == Get(host.doc, "group", <<>>)
           A == parse_acl_section(user, FALSE)
           B == parse_acl_section(group, TRUE)
           c == host.caller
<1>1. ASSUME LoadInv, Accepted
      PROVE  (\E r \in ToSet(cfg.rules) : identity_matches(r, c))
               <=> \/ \E e \in ToSet(user) : e.rules # <<>> /\ NamesUser(e.name, c)
                   \/ \E e \in ToSet(group) : e.rules # <<>> /\ NamesGroup(e.name, c)
  <2>1. cfg.rules = A \o B
    <3>1. cfg = parse(host.doc)
      BY <1>1 DEF LoadInv, Parsed, Accepted, FromRead
    <3>2. parse(host.doc).rules = A \o B
      BY DEF parse
    <3> QED
      BY <3>1, <3>2
  <2>2. IsSection(user) /\ IsSection(group) /\ c.uid \in Ids
    BY <1>1, SectionsOfDocument DEF LoadInv
  <2>3. \A r : r \in ToSet(A) <=>
          \E e \in ToSet(user) : \E node \in ToSet(e.rules) : r = RuleOf(node, e.name, FALSE)
    BY <2>2, SectionRules
  <2>4. \A r : r \in ToSet(B) <=>
          \E e \in ToSet(group) : \E node \in ToSet(e.rules) : r = RuleOf(node, e.name, TRUE)
    BY <2>2, SectionRules
  <2>5. ToSet(cfg.rules) = ToSet(A) \cup ToSet(B)
    <3>1. PICK V1 : A \in Seq(V1)
      BY <2>2, SectionRules
    <3>2. PICK V2 : B \in Seq(V2)
      BY <2>2, SectionRules
    <3> HIDE DEF A, B
    <3>3. A \in Seq(V1 \cup V2) /\ B \in Seq(V1 \cup V2)
      BY <3>1, <3>2, Widened
    <3> QED
      BY <2>1, <3>3, ConcatElements
  <2>6. ASSUME NEW q, IsSection(q), NEW e \in ToSet(q)
        PROVE  e.name \in AnyText /\ (e.rules # <<>> <=> ToSet(e.rules) # {})
    <3>1. e.name \in AnyText /\ e.rules \in Seq(ToSet(e.rules))
      BY <2>6 DEF IsSection, IsSequence
    <3> QED
      BY <3>1, Elements
  <2>7. (\E r \in ToSet(A) : identity_matches(r, c))
          <=> \E e \in ToSet(user) : e.rules # <<>> /\ NamesUser(e.name, c)
    <3>1. \A e \in ToSet(user) : \A node : identity_matches(RuleOf(node, e.name, FALSE), c)
                                             <=> NamesUser(e.name, c)
      BY <2>2, <2>6, RuleNames
    <3>2. \A e \in ToSet(user) : e.rules # <<>> <=> ToSet(e.rules) # {}
      BY <2>2, <2>6
    <3> HIDE DEF A, user, c
    <3>3. ASSUME NEW r \in ToSet(A), identity_matches(r, c)
          PROVE  \E e \in ToSet(user) : e.rules # <<>> /\ NamesUser(e.name, c)
      <4>1. PICK e \in ToSet(user) : \E node \in ToSet(e.rules) : r = RuleOf(node, e.name, FALSE)
        BY <2>3
      <4> QED
        BY <3>1, <3>2, <3>3, <4>1
    <3>4. ASSUME NEW e \in ToSet(user), e.rules # <<>>, NamesUser(e.name, c)
          PROVE  \E r \in ToSet(A) : identity_matches(r, c)
      <4>1. PICK node : node \in ToSet(e.rules)
        BY <3>2, <3>4
      <4>2. RuleOf(node, e.name, FALSE) \in ToSet(A)
        BY <2>3, <4>1
      <4> QED
        BY <3>1, <3>4, <4>2
    <3> QED
      BY <3>3, <3>4
  <2>8. (\E r \in ToSet(B) : identity_matches(r, c))
          <=> \E e \in ToSet(group) : e.rules # <<>> /\ NamesGroup(e.name, c)
    <3>1. \A e \in ToSet(group) : \A node : identity_matches(RuleOf(node, e.name, TRUE), c)
                                              <=> NamesGroup(e.name, c)
      BY <2>2, <2>6, RuleNames
    <3>2. \A e \in ToSet(group) : e.rules # <<>> <=> ToSet(e.rules) # {}
      BY <2>2, <2>6
    <3> HIDE DEF B, group, c
    <3>3. ASSUME NEW r \in ToSet(B), identity_matches(r, c)
          PROVE  \E e \in ToSet(group) : e.rules # <<>> /\ NamesGroup(e.name, c)
      <4>1. PICK e \in ToSet(group) : \E node \in ToSet(e.rules) : r = RuleOf(node, e.name, TRUE)
        BY <2>4
      <4> QED
        BY <3>1, <3>2, <3>3, <4>1
    <3>4. ASSUME NEW e \in ToSet(group), e.rules # <<>>, NamesGroup(e.name, c)
          PROVE  \E r \in ToSet(B) : identity_matches(r, c)
      <4>1. PICK node : node \in ToSet(e.rules)
        BY <3>2, <3>4
      <4>2. RuleOf(node, e.name, TRUE) \in ToSet(B)
        BY <2>4, <4>1
      <4> QED
        BY <3>1, <3>4, <4>2
    <3> QED
      BY <3>3, <3>4
  <2> HIDE DEF A, B, user, group, c
  <2> QED
    BY <2>5, <2>7, <2>8
<1>2. LoadInv => EntriesMeanWhatTheySay
  BY <1>1 DEF EntriesMeanWhatTheySay
<1> QED
  BY LoadInvariance, <1>2, PTL
====
