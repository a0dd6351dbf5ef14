------------------------- MODULE TicketStoreProofs -------------------------
(***************************************************************************)
(* Proofs about TicketStore, for every number of processes, callers,       *)
(* targets and inodes and every clock.                                     *)
(***************************************************************************)
EXTENDS TicketStore, TLAPS

(***************************************************************************)
(* File names                                                              *)
(***************************************************************************)

(* The text of a uid is a nonempty sequence of digits. *)
LEMMA UidText ==
    ASSUME NEW u \in Callers \cup Targets
    PROVE  /\ to_string(u) \in Seq(Digit)
           /\ Len(to_string(u)) \in Nat
           /\ \A k \in 1..Len(to_string(u)) : to_string(u)[k] # Dash
<1>1. to_string(u) \in Seq(Digit)
  BY TextAssumption
<1>2. ASSUME NEW k \in 1..Len(to_string(u)) PROVE to_string(u)[k] \in Digit
  BY <1>1
<1> QED BY <1>1, <1>2 DEF Digit, Dash

(* Two texts of uids, each followed by a dash, that agree up to the        *)
(* shorter one are texts of the same uid: the separator delimits the uid.  *)
LEMMA DashDelimits ==
    ASSUME NEW c \in Callers, NEW q \in Pairs, HasCallerPrefix(path_for(q), c)
    PROVE  q[1] = c
<1> DEFINE s == to_string(c)
           t == to_string(q[1])
           u == to_string(q[2])
<1>0. q[1] \in Callers /\ q[2] \in Targets
  BY DEF Pairs
<1>1. /\ s \in Seq(Digit) /\ t \in Seq(Digit) /\ u \in Seq(Digit)
      /\ Len(s) \in Nat /\ Len(t) \in Nat /\ Len(u) \in Nat
      /\ \A k \in 1..Len(s) : s[k] # Dash
      /\ \A k \in 1..Len(t) : t[k] # Dash
  BY <1>0, UidText
<1>a. Digit \subseteq Char /\ Dash \in Char
  BY DEF Digit, Dash, Char
<1>2. s \in Seq(Char) /\ t \in Seq(Char) /\ u \in Seq(Char) /\ <<Dash>> \in Seq(Char)
  BY <1>1, <1>a
<1> HIDE DEF s, t, u
<1> DEFINE a == s \o <<Dash>>
           b == t \o <<Dash>> \o u
<1>3. /\ a \in Seq(Char) /\ Len(a) = Len(s) + 1
      /\ \A k \in 1..Len(s) : a[k] = s[k]
      /\ a[Len(s) + 1] = Dash
  BY <1>1, <1>2
<1>4. /\ b \in Seq(Char) /\ Len(b) = Len(t) + 1 + Len(u)
      /\ \A k \in 1..Len(t) : b[k] = t[k]
      /\ b[Len(t) + 1] = Dash
  BY <1>1, <1>2
<1>5. /\ Len(a) <= Len(b)
      /\ \A k \in 1..Len(a) : a[k] = b[k]
  <2>1. IsPrefix(a, b)
    BY DEF HasCallerPrefix, path_for, s, t, u
  <2> HIDE DEF a, b
  <2>2. /\ Len(a) <= Len(b)
        /\ SubSeq(a, 1, Len(a)) = SubSeq(b, 1, Len(a))
    BY <2>1, <1>3, <1>4 DEF IsPrefix
  <2>3. ASSUME NEW k \in 1..Len(a) PROVE a[k] = b[k]
    BY <2>2, <1>3, <1>4
  <2> QED BY <2>2, <2>3
<1> HIDE DEF a, b
<1>6. Len(s) = Len(t)
  <2>1. CASE Len(s) < Len(t)
    <3>1. Len(s) + 1 \in 1..Len(a) /\ Len(s) + 1 \in 1..Len(t)
      BY <2>1, <1>1, <1>3
    <3> QED BY <3>1, <1>1, <1>3, <1>4, <1>5
  <2>2. CASE Len(t) < Len(s)
    <3>1. Len(t) + 1 \in 1..Len(s) /\ Len(t) + 1 \in 1..Len(a)
      BY <2>2, <1>1, <1>3
    <3> QED BY <3>1, <1>1, <1>3, <1>4, <1>5
  <2> QED BY <2>1, <2>2, <1>1
<1>7. ASSUME NEW k \in 1..Len(s) PROVE s[k] = t[k]
  <2>1. k \in 1..Len(a) /\ k \in 1..Len(t)
    BY <1>1, <1>3, <1>6
  <2> QED BY <2>1, <1>3, <1>4, <1>5
<1>8. s = t
  BY <1>1, <1>6, <1>7
<1> QED BY <1>0, <1>8, TextAssumption DEF s, t

(* The layout of a file name. *)
LEMMA Layout ==
    ASSUME NEW q \in Pairs
    PROVE  LET t == to_string(q[1]) u == to_string(q[2]) b == path_for(q) IN
           /\ q[1] \in Callers /\ q[2] \in Targets
           /\ t \in Seq(Char) /\ u \in Seq(Char) /\ b \in Seq(Char)
           /\ Len(t) \in Nat /\ Len(u) \in Nat
           /\ Len(b) = Len(t) + 1 + Len(u)
           /\ \A k \in 1..Len(t) : b[k] = t[k]
           /\ b[Len(t) + 1] = Dash
           /\ \A k \in 1..Len(u) : b[Len(t) + 1 + k] = u[k]
<1> DEFINE t == to_string(q[1])
           u == to_string(q[2])
<1>0. q[1] \in Callers /\ q[2] \in Targets
  BY DEF Pairs
<1>1. t \in Seq(Digit) /\ u \in Seq(Digit) /\ Len(t) \in Nat /\ Len(u) \in Nat
  BY <1>0, UidText
<1>a. Digit \subseteq Char /\ Dash \in Char
  BY DEF Digit, Dash, Char
<1>2. t \in Seq(Char) /\ u \in Seq(Char) /\ <<Dash>> \in Seq(Char)
  BY <1>1, <1>a
<1> HIDE DEF t, u
<1> DEFINE b == t \o <<Dash>> \o u
<1>4. /\ b \in Seq(Char) /\ Len(b) = Len(t) + 1 + Len(u)
      /\ \A k \in 1..Len(t) : b[k] = t[k]
      /\ b[Len(t) + 1] = Dash
      /\ \A k \in 1..Len(u) : b[Len(t) + 1 + k] = u[k]
  BY <1>1, <1>2
<1>5. path_for(q) = b
  BY DEF path_for, t, u
<1> QED BY <1>0, <1>1, <1>2, <1>4, <1>5 DEF t, u

(* The names -k looks for include all of the caller's own. *)
LEMMA OwnPrefix ==
    ASSUME NEW q \in Pairs
    PROVE  HasCallerPrefix(path_for(q), q[1])
<1> DEFINE t == to_string(q[1])
           u == to_string(q[2])
           a == t \o <<Dash>>
           b == path_for(q)
<1>1. /\ t \in Seq(Char) /\ b \in Seq(Char) /\ Len(t) \in Nat /\ Len(u) \in Nat
      /\ Len(b) = Len(t) + 1 + Len(u)
      /\ \A k \in 1..Len(t) : b[k] = t[k]
      /\ b[Len(t) + 1] = Dash
  BY Layout
<1>2. <<Dash>> \in Seq(Char)
  BY DEF Dash, Char
<1> HIDE DEF t, u, b
<1>3. /\ a \in Seq(Char) /\ Len(a) = Len(t) + 1
      /\ \A k \in 1..Len(t) : a[k] = t[k]
      /\ a[Len(t) + 1] = Dash
  BY <1>1, <1>2
<1> HIDE DEF a
<1>4. ASSUME NEW k \in 1..Len(a) PROVE a[k] = b[k]
  <2>1. k \in 1..Len(t) \/ k = Len(t) + 1
    BY <1>1, <1>3
  <2> QED BY <2>1, <1>1, <1>3
<1>5. Len(a) <= Len(b)
  BY <1>1, <1>3
<1>6. SubSeq(a, 1, Len(a)) = SubSeq(b, 1, Len(a))
  <2>1. /\ Len(SubSeq(a, 1, Len(a))) = Len(a) /\ Len(SubSeq(b, 1, Len(a))) = Len(a)
        /\ SubSeq(a, 1, Len(a)) \in Seq(Char) /\ SubSeq(b, 1, Len(a)) \in Seq(Char)
        /\ \A k \in 1..Len(a) : SubSeq(a, 1, Len(a))[k] = a[k] /\ SubSeq(b, 1, Len(a))[k] = b[k]
    BY <1>1, <1>3, <1>5
  <2> QED BY <2>1, <1>4
<1>7. IsPrefix(a, b)
  BY <1>5, <1>6 DEF IsPrefix
<1> QED BY <1>7 DEF HasCallerPrefix, a, b, t

(* Different pairs have different files. *)
LEMMA PathInjective ==
    ASSUME NEW q \in Pairs, NEW r \in Pairs, path_for(q) = path_for(r)
    PROVE  q = r
<1>1. q[1] = r[1]
  <2>1. HasCallerPrefix(path_for(q), r[1])
    BY OwnPrefix
  <2>2. r[1] \in Callers
    BY DEF Pairs
  <2> QED BY <2>1, <2>2, DashDelimits
<1> DEFINE t == to_string(q[1])
           u == to_string(q[2])
           v == to_string(r[2])
           b == path_for(q)
<1>2. /\ q[2] \in Targets /\ u \in Seq(Char) /\ Len(t) \in Nat /\ Len(u) \in Nat
      /\ Len(b) = Len(t) + 1 + Len(u)
      /\ \A k \in 1..Len(u) : b[Len(t) + 1 + k] = u[k]
  BY Zenon, Layout
<1>3. /\ r[2] \in Targets /\ v \in Seq(Char) /\ Len(v) \in Nat
      /\ Len(b) = Len(t) + 1 + Len(v)
      /\ \A k \in 1..Len(v) : b[Len(t) + 1 + k] = v[k]
  BY <1>1, Layout
<1> HIDE DEF t, u, v, b
<1>4. u = v
  <2>1. Len(u) = Len(v)
    BY <1>2, <1>3
  <2>2. \A k \in 1..Len(u) : u[k] = v[k]
    BY <1>2, <1>3, <2>1
  <2> QED BY <1>2, <1>3, <2>1, <2>2
<1>5. q[2] = r[2]
  BY <1>2, <1>3, <1>4, TextAssumption DEF u, v
<1> QED BY <1>1, <1>5 DEF Pairs

(***************************************************************************)
(* Types                                                                   *)
(***************************************************************************)

(* A stamp is a text of digits. *)
LEMMA StampText == ASSUME NEW t \in Time PROVE to_string(t) \in Seq(Char) /\ t \in Nat
<1>1. to_string(t) \in Seq(Digit) /\ t \in Nat
  BY TextAssumption
<1>2. Digit \subseteq Char
  BY DEF Digit, Char
<1> QED BY <1>1, <1>2

(* Writing characters into a file leaves characters. *)
LEMMA OverwriteType ==
    ASSUME NEW old \in Seq(Char), NEW s \in Seq(Char), NEW off \in Int
    PROVE  Overwrite(old, off, s) \in Seq(Char)
<1> DEFINE n == IF off + Len(s) > Len(old) THEN off + Len(s) ELSE Len(old)
<1>1. n \in Nat
  OBVIOUS
<1>2. ASSUME NEW k \in 1..n
      PROVE  (IF k > off /\ k <= off + Len(s) THEN s[k - off]
              ELSE IF k <= Len(old) THEN old[k] ELSE Nul) \in Char
  <2>1. CASE k > off /\ k <= off + Len(s)
    <3>1. k - off \in 1..Len(s)
      BY <2>1
    <3> QED BY <2>1, <3>1
  <2>2. CASE ~(k > off /\ k <= off + Len(s)) /\ k <= Len(old)
    BY <2>2
  <2>3. CASE ~(k > off /\ k <= off + Len(s)) /\ ~(k <= Len(old))
    BY <2>3 DEF Nul, Char
  <2> QED BY <2>1, <2>2, <2>3
<1>3. Overwrite(old, off, s) \in [1..n -> Char]
  BY <1>2 DEF Overwrite
<1> HIDE DEF n
<1> QED BY <1>1, <1>3

(* Leave closes whatever the process had open. *)
LEMMA LeaveType ==
    ASSUME TypeOK, NEW p \in Procs, Leave(p)
    PROVE  /\ ProcessOK'
           /\ torn' \subseteq Procs
           /\ reopened' \in [Procs -> SUBSET Pairs]
           /\ skipped' \in [Procs -> SUBSET Pairs]
           /\ \A r \in Procs : r # p => pc'[r] = pc[r] /\ fd'[r] = fd[r] /\ clk'[r] = clk[r]
           /\ pc'[p] = "idle"
BY DEF TypeOK, Leave, ProcessOK, HistoryOK, PC

(* record() *)
LEMMA RecordType ==
    ASSUME TypeOK, NEW p \in Procs,
           (\E q \in Pairs : RecordBegin(p, q)) \/ RecordOpen(p) \/ RecordWrite(p)
    PROVE  TypeOK'
<1> USE DEF TypeOK, KernelOK, ProcessOK, HistoryOK
<1>1. ASSUME NEW q \in Pairs, RecordBegin(p, q) PROVE TypeOK'
  BY <1>1, StampText DEF RecordBegin, Goto, PC
<1>2. CASE RecordOpen(p)
  <2>1. who[p] \in Pairs /\ path_for(who[p]) \in Names
    BY <1>2 DEF RecordOpen, Names
  <2>2. PICK i \in IF dir[path_for(who[p])] # NoInode
                   THEN {dir[path_for(who[p])]} ELSE FreeInodes :
         /\ dir' = [dir EXCEPT ![path_for(who[p])] = i]
         /\ data' = [data EXCEPT ![i] = <<>>]
         /\ fd' = [fd EXCEPT ![p] = i]
         /\ mixed' = IF Holders(i, {"rec_write"}) = {}
                     THEN mixed \ {i} ELSE mixed \cup {i}
         /\ torn' = torn \cup { r \in Holders(i, {"val_read"}) : buf[r] # <<>> }
    BY <1>2 DEF RecordOpen
  <2>3. i \in Inodes
    BY <2>1, <2>2 DEF FreeInodes
  <2>4. KernelOK'
    BY <1>2, <2>1, <2>2, <2>3 DEF RecordOpen
  <2>5. ProcessOK'
    BY <1>2, <2>2, <2>3 DEF RecordOpen, Goto, PC
  <2>6. HistoryOK'
    <3>1. mixed' \subseteq Inodes /\ torn' \subseteq Procs
      BY <2>2, <2>3 DEF Holders
    <3>2. reopened' \in [Procs -> SUBSET Pairs]
      BY <1>2, <2>1 DEF RecordOpen
    <3> QED BY <1>2, <3>1, <3>2 DEF RecordOpen
  <2> QED BY <1>2, <2>2, <2>3, <2>4, <2>5, <2>6 DEF RecordOpen, Goto
<1>3. CASE RecordWrite(p)
  <2> DEFINE off == Len(to_string(clk[p])) - Len(buf[p])
  <2>0. pc[p] = "rec_write" /\ fd[p] \in Inodes /\ clk[p] \in Time
    BY <1>3 DEF RecordWrite
  <2>1. off \in Int
    BY <2>0, StampText
  <2>2. PICK n \in 1..Len(buf[p]) :
         /\ data' = [data EXCEPT ![fd[p]] = Overwrite(@, off, SubSeq(buf[p], 1, n))]
         /\ IF n = Len(buf[p])
            THEN Leave(p)
            ELSE /\ buf' = [buf EXCEPT ![p] = SubSeq(@, n + 1, Len(@))]
                 /\ UNCHANGED <<pc, who, fd, clk, size, todo, torn, reopened, skipped>>
    BY <1>3 DEF RecordWrite
  <2> HIDE DEF off
  <2>3. KernelOK'
    <3>1. SubSeq(buf[p], 1, n) \in Seq(Char)
      BY <2>2
    <3>2. Overwrite(data[fd[p]], off, SubSeq(buf[p], 1, n)) \in Seq(Char)
      BY <2>0, <2>1, <3>1, OverwriteType
    <3> QED BY <1>3, <2>0, <2>2, <3>2 DEF RecordWrite
  <2>4. CASE n = Len(buf[p])
    BY <1>3, <2>2, <2>3, <2>4, LeaveType DEF RecordWrite
  <2>5. CASE n # Len(buf[p])
    <3>1. SubSeq(buf[p], n + 1, Len(buf[p])) \in Seq(Char)
      BY <2>2
    <3>2. /\ buf' = [buf EXCEPT ![p] = SubSeq(buf[p], n + 1, Len(buf[p]))]
          /\ UNCHANGED <<pc, who, fd, clk, size, todo, minted, mixed, torn,
                         reopened, skipped, revoked>>
      BY <1>3, <2>2, <2>5 DEF RecordWrite
    <3>3. buf' \in [Procs -> Seq(Char)]
      BY <3>1, <3>2
    <3> QED BY <2>3, <3>2, <3>3
  <2> QED BY <2>4, <2>5
<1> QED BY <1>1, <1>2, <1>3

(* valid() *)
LEMMA ValidType ==
    ASSUME TypeOK, NEW p \in Procs,
           \/ \E q \in Pairs : ValidBegin(p, q)
           \/ ValidOpen(p) \/ ValidSize(p) \/ ValidRead(p) \/ ValidJudge(p)
    PROVE  TypeOK'
<1> USE DEF TypeOK, KernelOK, ProcessOK, HistoryOK
<1>1. ASSUME NEW q \in Pairs, ValidBegin(p, q) PROVE TypeOK'
  BY <1>1 DEF ValidBegin, Goto, PC, kernel, history
<1>2. ASSUME Leave(p), UNCHANGED <<kernel, minted, mixed, revoked>> PROVE TypeOK'
  BY <1>2, LeaveType DEF kernel
<1>3. CASE ValidOpen(p)
  <2>1. who[p] \in Pairs /\ path_for(who[p]) \in Names
    BY <1>3 DEF ValidOpen, Names
  <2>2. CASE dir[path_for(who[p])] # NoInode
    BY <1>3, <2>1, <2>2 DEF ValidOpen, Goto, PC, kernel
  <2>3. CASE dir[path_for(who[p])] = NoInode
    BY <1>2, <1>3, <2>3 DEF ValidOpen
  <2> QED BY <2>2, <2>3
<1>4. CASE ValidSize(p)
  <2>1. CASE data[fd[p]] # <<>>
    <3>1. /\ pc[p] = "val_size" /\ pc' = [pc EXCEPT ![p] = "val_read"]
          /\ size' = [size EXCEPT ![p] = Len(data[fd[p]])]
          /\ UNCHANGED <<now, dir, data, who, fd, clk, buf, todo, minted, mixed, torn,
                         reopened, skipped, revoked>>
      BY <1>4, <2>1 DEF ValidSize, Leave, Goto, kernel
    <3>2. Len(data[fd[p]]) \in Nat
      BY <3>1
    <3>3. ProcessOK'
      BY <3>1, <3>2 DEF PC
    <3> QED BY <3>1, <3>3
  <2>2. CASE data[fd[p]] = <<>>
    BY <1>2, <1>4, <2>2 DEF ValidSize
  <2> QED BY <2>1, <2>2
<1>5. CASE ValidRead(p)
  <2>0. fd[p] \in Inodes /\ data[fd[p]] \in Seq(Char) /\ size[p] \in Nat /\ buf[p] \in Seq(Char)
    BY <1>5 DEF ValidRead
  <2>1. Available(p) \in Seq(Char)
    BY <2>0 DEF Available
  <2>2. CASE Available(p) # <<>>
    <3>1. buf[p] \o Available(p) \in Seq(Char)
      BY <2>0, <2>1
    <3>2. /\ buf' = [buf EXCEPT ![p] = buf[p] \o Available(p)]
          /\ pc' = [pc EXCEPT ![p] = IF Len(buf'[p]) = size[p] THEN "val_judge" ELSE @]
          /\ torn' \subseteq Procs /\ pc[p] = "val_read"
          /\ UNCHANGED <<now, dir, data, who, fd, clk, size, todo, minted, mixed,
                         reopened, skipped, revoked>>
      BY <1>5, <2>2 DEF ValidRead, kernel
    <3>3. buf' \in [Procs -> Seq(Char)]
      BY <3>1, <3>2
    <3>4. pc' \in [Procs -> PC] /\ \A r \in Procs : pc'[r] # "idle" => pc[r] # "idle"
      BY <3>2 DEF PC
    <3> QED BY <3>2, <3>3, <3>4
  <2>3. CASE Available(p) = <<>>
    BY <1>2, <1>5, <2>3 DEF ValidRead
  <2> QED BY <2>2, <2>3
<1>6. CASE ValidJudge(p)
  <2>1. CASE Leave(p)
    BY <1>2, <1>6, <2>1 DEF ValidJudge
  <2>2. CASE ~Leave(p)
    <3>1. now \in Nat
      BY StampText
    <3>2. /\ pc[p] = "val_judge" /\ pc' = [pc EXCEPT ![p] = "accepted"]
          /\ clk' = [clk EXCEPT ![p] = now] /\ fd' = [fd EXCEPT ![p] = NoInode]
          /\ UNCHANGED <<now, dir, data, who, buf, size, todo, minted, mixed, torn,
                         reopened, skipped, revoked>>
      BY <1>6, <2>2 DEF ValidJudge, Goto, kernel
    <3>3. ProcessOK'
      BY <3>1, <3>2 DEF PC
    <3> QED BY <3>2, <3>3
  <2> QED BY <2>1, <2>2
<1> QED BY <1>1, <1>3, <1>4, <1>5, <1>6

(* clear_all_for_caller(), giving up, and the clock *)
LEMMA ClearType ==
    ASSUME TypeOK, NEW p \in Procs,
           \/ \E q \in Pairs : ClearBegin(p, q)
           \/ ClearRemove(p) \/ ClearSkip(p) \/ ClearEnd(p) \/ Abandon(p)
    PROVE  TypeOK'
<1> USE DEF TypeOK, KernelOK, ProcessOK, HistoryOK
<1>1. ASSUME NEW q \in Pairs, ClearBegin(p, q) PROVE TypeOK'
  BY <1>1 DEF ClearBegin, Goto, PC, kernel, history
<1>2. CASE ClearRemove(p)
  BY <1>2 DEF ClearRemove, history
<1>3. CASE ClearSkip(p)
  BY <1>3 DEF ClearSkip, kernel
<1>4. CASE ClearEnd(p)
  BY <1>4 DEF ClearEnd, Goto, PC, kernel
<1>5. CASE Abandon(p)
  BY <1>5, LeaveType DEF Abandon, kernel
<1> QED BY <1>1, <1>2, <1>3, <1>4, <1>5

(***************************************************************************)
(* The inductive invariant.  RevokedIsGone is about finished clears; what  *)
(* makes it inductive is what is true in the middle of one: a file of the  *)
(* caller that is in the directory is still to be visited, or was recorded *)
(* or skipped since the clear began.                                       *)
(***************************************************************************)
Scanned ==
    \A p \in Procs : pc[p] = "clr_scan" =>
        \A q \in Pairs : q[1] = who[p][1] /\ dir[path_for(q)] # NoInode =>
            path_for(q) \in todo[p] \/ q \in reopened[p] \/ q \in skipped[p]

IInv == TypeOK /\ Scanned /\ RevokedIsGone

(* Steps that touch neither the directory nor a clear in progress. *)
LEMMA Quiet ==
    ASSUME Scanned, RevokedIsGone, dir' = dir, revoked' = revoked,
           \A r \in Procs : pc'[r] = "clr_scan" =>
               /\ pc[r] = "clr_scan" /\ who'[r] = who[r] /\ todo'[r] = todo[r]
               /\ reopened'[r] = reopened[r] /\ skipped'[r] = skipped[r]
    PROVE  Scanned' /\ RevokedIsGone'
BY DEF Scanned, RevokedIsGone

(* Leave is quiet. *)
LEMMA LeaveQuiet ==
    ASSUME IInv, NEW p \in Procs, Leave(p), dir' = dir, revoked' = revoked
    PROVE  Scanned' /\ RevokedIsGone'
<1>1. ASSUME NEW r \in Procs, pc'[r] = "clr_scan"
      PROVE  /\ pc[r] = "clr_scan" /\ who'[r] = who[r] /\ todo'[r] = todo[r]
             /\ reopened'[r] = reopened[r] /\ skipped'[r] = skipped[r]
  <2>1. r # p
    BY <1>1 DEF Leave, IInv, TypeOK, ProcessOK
  <2> QED BY <1>1, <2>1 DEF Leave, IInv, TypeOK, ProcessOK, HistoryOK
<1> QED BY <1>1, Quiet DEF IInv

(* record() never loses sight of a clear: opening the file takes its pair  *)
(* out of the revoked ones and tells every clear in progress.              *)
LEMMA RecordKeeps ==
    ASSUME IInv, NEW p \in Procs,
           (\E q \in Pairs : RecordBegin(p, q)) \/ RecordOpen(p) \/ RecordWrite(p)
    PROVE  Scanned' /\ RevokedIsGone'
<1> USE DEF IInv, TypeOK, KernelOK, ProcessOK, HistoryOK
<1>1. ASSUME NEW q \in Pairs, RecordBegin(p, q) PROVE Scanned' /\ RevokedIsGone'
  <2>1. ASSUME NEW r \in Procs, pc'[r] = "clr_scan"
        PROVE  /\ pc[r] = "clr_scan" /\ who'[r] = who[r] /\ todo'[r] = todo[r]
               /\ reopened'[r] = reopened[r] /\ skipped'[r] = skipped[r]
    BY <1>1, <2>1 DEF RecordBegin, Goto
  <2> QED BY <1>1, <2>1, Quiet DEF RecordBegin
<1>2. CASE RecordOpen(p)
  <2>0. pc[p] = "rec_open" /\ who[p] \in Pairs
    BY <1>2 DEF RecordOpen
  <2>1. ASSUME NEW q \in Pairs, q # who[p] PROVE dir'[path_for(q)] = dir[path_for(q)]
    <3>1. path_for(q) # path_for(who[p])
      BY <2>0, <2>1, PathInjective
    <3>2. PICK i : dir' = [dir EXCEPT ![path_for(who[p])] = i]
      BY <1>2 DEF RecordOpen
    <3>3. path_for(q) \in Names
      BY DEF Names
    <3> QED BY <3>1, <3>2, <3>3
  <2>2. RevokedIsGone'
    BY <1>2, <2>1 DEF RecordOpen, RevokedIsGone
  <2>3. ASSUME NEW r \in Procs, pc'[r] = "clr_scan", NEW q \in Pairs,
               q[1] = who'[r][1], dir'[path_for(q)] # NoInode
        PROVE  path_for(q) \in todo'[r] \/ q \in reopened'[r] \/ q \in skipped'[r]
    <3>1. r # p /\ pc[r] = "clr_scan"
      BY <1>2, <2>3 DEF RecordOpen, Goto
    <3>2. /\ who'[r] = who[r] /\ todo'[r] = todo[r] /\ skipped'[r] = skipped[r]
          /\ reopened'[r] = reopened[r] \cup {who[p]}
      BY <1>2, <3>1 DEF RecordOpen
    <3>3. CASE q = who[p]
      BY <3>2, <3>3
    <3>4. CASE q # who[p]
      BY <2>1, <2>3, <3>1, <3>2, <3>4 DEF Scanned
    <3> QED BY <3>3, <3>4
  <2> QED BY <2>2, <2>3 DEF Scanned
<1>3. CASE RecordWrite(p)
  <2>1. dir' = dir /\ revoked' = revoked /\ pc[p] = "rec_write"
    BY <1>3 DEF RecordWrite
  <2>2. Leave(p) \/ UNCHANGED <<pc, who, todo, reopened, skipped>>
    BY <1>3 DEF RecordWrite
  <2>3. CASE Leave(p)
    BY <2>1, <2>3, LeaveQuiet
  <2>4. CASE UNCHANGED <<pc, who, todo, reopened, skipped>>
    BY <2>1, <2>4, Quiet
  <2> QED BY <2>2, <2>3, <2>4
<1> QED BY <1>1, <1>2, <1>3

(* valid() only reads. *)
LEMMA ValidKeeps ==
    ASSUME IInv, NEW p \in Procs,
           \/ \E q \in Pairs : ValidBegin(p, q)
           \/ ValidOpen(p) \/ ValidSize(p) \/ ValidRead(p) \/ ValidJudge(p)
    PROVE  Scanned' /\ RevokedIsGone'
<1>0. dir' = dir /\ revoked' = revoked
  BY DEF ValidBegin, ValidOpen, ValidSize, ValidRead, ValidJudge, kernel, history
<1>1. \/ Leave(p)
      \/ \E l \in PC \ {"clr_scan"} : /\ pc' = [pc EXCEPT ![p] = l]
                                      /\ \A r \in Procs : r # p => who'[r] = who[r]
                                      /\ UNCHANGED <<todo, reopened, skipped>>
  <2> USE DEF IInv, TypeOK, ProcessOK
  <2>1. ASSUME NEW q \in Pairs, ValidBegin(p, q) PROVE <1>1!2
    BY <2>1 DEF ValidBegin, Goto, PC, history
  <2>2. CASE ValidOpen(p)
    BY <2>2 DEF ValidOpen, Goto, PC
  <2>3. CASE ValidSize(p)
    BY <2>3 DEF ValidSize, Goto, PC
  <2>4. CASE ValidRead(p)
    BY <2>4 DEF ValidRead, PC
  <2>5. CASE ValidJudge(p)
    BY <2>5 DEF ValidJudge, Goto, PC
  <2> QED BY <2>1, <2>2, <2>3, <2>4, <2>5
<1>2. CASE Leave(p)
  BY <1>0, <1>2, LeaveQuiet
<1>3. CASE \E l \in PC \ {"clr_scan"} : /\ pc' = [pc EXCEPT ![p] = l]
                                       /\ \A r \in Procs : r # p => who'[r] = who[r]
                                       /\ UNCHANGED <<todo, reopened, skipped>>
  <2>1. ASSUME NEW r \in Procs, pc'[r] = "clr_scan" PROVE r # p /\ pc[r] = "clr_scan"
    BY <1>3, <2>1 DEF IInv, TypeOK, ProcessOK
  <2> QED BY <1>0, <1>3, <2>1, Quiet DEF IInv
<1> QED BY <1>1, <1>2, <1>3

(* A clear visits every name it must before it ends. *)
LEMMA ClearKeeps ==
    ASSUME IInv, NEW p \in Procs,
           \/ \E q \in Pairs : ClearBegin(p, q)
           \/ ClearRemove(p) \/ ClearSkip(p) \/ ClearEnd(p) \/ Abandon(p)
    PROVE  Scanned' /\ RevokedIsGone'
<1> USE DEF IInv, TypeOK, KernelOK, ProcessOK, HistoryOK
<1>a. \A q \in Pairs : path_for(q) \in Names
  BY DEF Names
<1>1. ASSUME NEW q \in Pairs, ClearBegin(p, q) PROVE Scanned' /\ RevokedIsGone'
  <2>1. RevokedIsGone'
    BY <1>1 DEF ClearBegin, RevokedIsGone, kernel, history
  <2>2. ASSUME NEW r \in Procs, pc'[r] = "clr_scan", NEW x \in Pairs,
               x[1] = who'[r][1], dir'[path_for(x)] # NoInode
        PROVE  path_for(x) \in todo'[r] \/ x \in reopened'[r] \/ x \in skipped'[r]
    <3>1. CASE r = p
      <4>1. who'[r] = q /\ dir' = dir
        BY <1>1, <3>1 DEF ClearBegin, kernel
      <4>2. HasCallerPrefix(path_for(x), q[1])
        BY <2>2, <4>1, OwnPrefix
      <4> QED BY <1>1, <1>a, <2>2, <3>1, <4>1, <4>2 DEF ClearBegin
    <3>2. CASE r # p
      BY <1>1, <2>2, <3>2 DEF ClearBegin, Goto, Scanned, kernel, history
    <3> QED BY <3>1, <3>2
  <2> QED BY <2>1, <2>2 DEF Scanned
<1>2. CASE ClearRemove(p)
  <2>1. PICK n \in Names : /\ dir' = [dir EXCEPT ![n] = NoInode]
                           /\ todo' = [todo EXCEPT ![p] = @ \ {n}]
    BY <1>2 DEF ClearRemove
  <2>2. UNCHANGED <<pc, who, reopened, skipped, revoked>>
    BY <1>2 DEF ClearRemove, history
  <2>3. RevokedIsGone'
    BY <1>a, <2>1, <2>2 DEF RevokedIsGone
  <2>4. ASSUME NEW r \in Procs, pc'[r] = "clr_scan", NEW x \in Pairs,
               x[1] = who'[r][1], dir'[path_for(x)] # NoInode
        PROVE  path_for(x) \in todo'[r] \/ x \in reopened'[r] \/ x \in skipped'[r]
    <3>1. path_for(x) # n /\ dir[path_for(x)] # NoInode
      BY <1>a, <2>1, <2>4
    <3>2. path_for(x) \in todo[r] \/ x \in reopened[r] \/ x \in skipped[r]
      BY <2>2, <2>4, <3>1 DEF Scanned
    <3> QED BY <2>1, <2>2, <3>1, <3>2
  <2> QED BY <2>3, <2>4 DEF Scanned
<1>3. CASE ClearSkip(p)
  <2>1. PICK q \in Pairs : /\ todo' = [todo EXCEPT ![p] = @ \ {path_for(q)}]
                           /\ skipped' = [skipped EXCEPT ![p] = @ \cup {q}]
    BY <1>3 DEF ClearSkip
  <2>2. UNCHANGED <<dir, pc, who, reopened, revoked>>
    BY <1>3 DEF ClearSkip, kernel
  <2>3. RevokedIsGone'
    BY <2>2 DEF RevokedIsGone
  <2>4. ASSUME NEW r \in Procs, pc'[r] = "clr_scan", NEW x \in Pairs,
               x[1] = who'[r][1], dir'[path_for(x)] # NoInode
        PROVE  path_for(x) \in todo'[r] \/ x \in reopened'[r] \/ x \in skipped'[r]
    <3>1. path_for(x) \in todo[r] \/ x \in reopened[r] \/ x \in skipped[r]
      BY <2>2, <2>4 DEF Scanned
    <3>2. path_for(x) = path_for(q) => x = q
      BY PathInjective
    <3> QED BY <2>1, <2>2, <3>1, <3>2
  <2> QED BY <2>3, <2>4 DEF Scanned
<1>4. CASE ClearEnd(p)
  <2>1. /\ pc[p] = "clr_scan" /\ todo[p] = {} /\ pc' = [pc EXCEPT ![p] = "cleared"]
        /\ UNCHANGED <<dir, who, todo, reopened, skipped>>
        /\ revoked' = revoked \cup
             { q \in Pairs : q[1] = who[p][1] /\ q \notin reopened[p] \cup skipped[p] }
    BY <1>4 DEF ClearEnd, Goto, kernel
  <2>2. RevokedIsGone'
    <3>1. ASSUME NEW q \in revoked' PROVE dir[path_for(q)] = NoInode
      <4>1. CASE q \in revoked
        BY <4>1 DEF RevokedIsGone
      <4>2. CASE q \in Pairs /\ q[1] = who[p][1] /\ q \notin reopened[p] \cup skipped[p]
        BY <2>1, <4>2 DEF Scanned
      <4> QED BY <2>1, <4>1, <4>2
    <3> QED BY <2>1, <3>1 DEF RevokedIsGone
  <2>3. Scanned'
    BY <2>1 DEF Scanned
  <2> QED BY <2>2, <2>3
<1>5. CASE Abandon(p)
  BY <1>5, LeaveQuiet DEF Abandon, kernel
<1> QED BY <1>1, <1>2, <1>3, <1>4, <1>5

(* No file, no process and no revocation at the start. *)
LEMMA InitIInv == Init => IInv
<1> SUFFICES ASSUME Init PROVE IInv
  OBVIOUS
<1>1. <<>> \in Seq(Char)
  OBVIOUS
<1>2. KernelOK /\ ProcessOK /\ HistoryOK
  BY <1>1 DEF Init, KernelOK, ProcessOK, HistoryOK, PC
<1>3. TypeOK
  BY <1>2 DEF Init, TypeOK
<1>4. Scanned /\ RevokedIsGone
  BY DEF Init, Scanned, RevokedIsGone
<1> QED BY <1>3, <1>4 DEF IInv

(* Every step of every interleaving keeps the invariant. *)
LEMMA NextIInv == IInv /\ [Next]_vars => IInv'
<1> SUFFICES ASSUME IInv, [Next]_vars PROVE IInv'
  OBVIOUS
<1>0. TypeOK
  BY DEF IInv
<1>1. ASSUME NEW p \in Procs,
             (\E q \in Pairs : RecordBegin(p, q)) \/ RecordOpen(p) \/ RecordWrite(p)
      PROVE  IInv'
  BY <1>0, <1>1, RecordType, RecordKeeps DEF IInv
<1>2. ASSUME NEW p \in Procs,
             \/ \E q \in Pairs : ValidBegin(p, q)
             \/ ValidOpen(p) \/ ValidSize(p) \/ ValidRead(p) \/ ValidJudge(p)
      PROVE  IInv'
  BY <1>0, <1>2, ValidType, ValidKeeps DEF IInv
<1>3. ASSUME NEW p \in Procs,
             \/ \E q \in Pairs : ClearBegin(p, q)
             \/ ClearRemove(p) \/ ClearSkip(p) \/ ClearEnd(p) \/ Abandon(p)
      PROVE  IInv'
  BY <1>0, <1>3, ClearType, ClearKeeps DEF IInv
<1>4. CASE Tick
  BY <1>0, <1>4 DEF Tick, process, history, IInv, TypeOK, KernelOK, ProcessOK, HistoryOK,
                    Scanned, RevokedIsGone
<1>5. CASE UNCHANGED vars
  BY <1>0, <1>5 DEF vars, IInv, TypeOK, KernelOK, ProcessOK, HistoryOK, Scanned, RevokedIsGone
<1> QED BY <1>1, <1>2, <1>3, <1>4, <1>5 DEF Next

(* The inductive invariant holds of every behaviour. *)
THEOREM Invariance == Spec => []IInv
BY InitIInv, NextIInv, PTL DEF Spec

(* Names, inodes, descriptors and buffers keep their types under every     *)
(* interleaving of system calls.                                           *)
THEOREM Typing == Spec => []TypeOK
<1>1. IInv => TypeOK
  BY DEF IInv
<1> QED BY <1>1, Invariance, PTL

(* clear_all_for_caller() revokes: whatever ran at the same time, a pair   *)
(* that a finished clear covered has no file until it is recorded again.   *)
THEOREM Revocation == Spec => []RevokedIsGone
<1>1. IInv => RevokedIsGone
  BY DEF IInv
<1> QED BY <1>1, Invariance, PTL

(* The dash in the file name keeps -k from touching anyone else's tickets, *)
(* for all uids, the ones whose text is a prefix of another's included.    *)
THEOREM OwnTicketsOnly == Spec => OnlyOwnTicketsRemoved
<1> DEFINE Removal == \A q \in Pairs :
          dir[path_for(q)] # NoInode /\ dir'[path_for(q)] = NoInode =>
          \E p \in Procs : pc[p] = "clr_scan" /\ who[p][1] = q[1]
<1>1. TypeOK /\ [Next]_vars => [Removal]_vars
  <2> SUFFICES ASSUME TypeOK, Next PROVE Removal
    OBVIOUS
  <2> USE DEF TypeOK, KernelOK, ProcessOK
  <2>1. ASSUME NEW p \in Procs, ClearRemove(p) PROVE Removal
    <3>1. PICK n \in Names : HasCallerPrefix(n, who[p][1]) /\ dir' = [dir EXCEPT ![n] = NoInode]
      BY <2>1 DEF ClearRemove
    <3>2. pc[p] = "clr_scan" /\ who[p][1] \in Callers
      BY <2>1 DEF ClearRemove, Pairs
    <3>3. ASSUME NEW q \in Pairs, dir[path_for(q)] # NoInode, dir'[path_for(q)] = NoInode
          PROVE  who[p][1] = q[1]
      <4>1. path_for(q) = n
        BY <3>1, <3>3
      <4> QED BY <3>1, <3>2, <4>1, DashDelimits
    <3> QED BY <3>2, <3>3
  <2>2. ASSUME NEW p \in Procs, RecordOpen(p) PROVE Removal
    <3>1. who[p] \in Pairs /\ path_for(who[p]) \in Names
      BY <2>2 DEF RecordOpen, Names
    <3>2. PICK i \in IF dir[path_for(who[p])] # NoInode
                     THEN {dir[path_for(who[p])]} ELSE FreeInodes :
            dir' = [dir EXCEPT ![path_for(who[p])] = i]
      BY <2>2 DEF RecordOpen
    <3>3. i # NoInode
      BY <3>1, <3>2, MiscAssumption DEF FreeInodes
    <3> QED BY <3>2, <3>3
  <2>3. ASSUME UNCHANGED dir PROVE Removal
    BY <2>3
  <2>4. CASE Tick
    BY <2>3, <2>4 DEF Tick
  <2>5. ASSUME NEW p \in Procs, NEW q \in Pairs,
               RecordBegin(p, q) \/ ValidBegin(p, q) \/ ClearBegin(p, q)
        PROVE  Removal
    BY <2>3, <2>5 DEF RecordBegin, ValidBegin, ClearBegin, kernel
  <2>6. ASSUME NEW p \in Procs,
               \/ RecordWrite(p) \/ ValidOpen(p) \/ ValidSize(p) \/ ValidRead(p)
               \/ ValidJudge(p) \/ ClearSkip(p) \/ ClearEnd(p) \/ Abandon(p)
        PROVE  Removal
    BY <2>3, <2>6 DEF RecordWrite, ValidOpen, ValidSize, ValidRead, ValidJudge,
                      ClearSkip, ClearEnd, Abandon, kernel
  <2> HIDE DEF Removal
  <2> QED BY <2>1, <2>2, <2>4, <2>5, <2>6 DEF Next
<1> QED BY <1>1, Typing, PTL DEF Spec, OnlyOwnTicketsRemoved

(***************************************************************************)
(* Accepted tickets are fresh.  What makes it inductive is what an inode   *)
(* holds while nobody has mixed two stamps in it: the beginning of a stamp *)
(* of the one pair the inode belongs to, exactly as far as its only writer *)
(* has come; and that what a reader has so far is the beginning of that.   *)
(***************************************************************************)
Begins(s, t) == \E k \in 0..Len(t) : s = SubSeq(t, 1, k)

(* The pair's name, or a process at work for the pair, refers to inode i. *)
Belongs(i, q) == \/ dir[path_for(q)] = i
                 \/ \E p \in Procs : fd[p] = i /\ who[p] = q
OnePair == \A i \in Inodes : \A q, r \in Pairs : Belongs(i, q) /\ Belongs(i, r) => q = r

Stamp(q, s) == \E t \in minted[q] : Begins(s, to_string(t))
Contents == \A i \in Inodes \ mixed : \A q \in Pairs : Belongs(i, q) => Stamp(q, data[i])

(* What each process knows. *)
Descriptor(p) == fd[p] # NoInode => pc[p] \in {"rec_write", "val_size", "val_read", "val_judge"}
OwnText(p) ==
    LET text == to_string(clk[p]) IN
    /\ pc[p] \in {"rec_open", "rec_write"} => clk[p] \in minted[who[p]]
    /\ pc[p] = "rec_open" => buf[p] = text
    /\ pc[p] = "rec_write" => \E k \in 0..Len(text) : buf[p] = SubSeq(text, k + 1, Len(text))
Alone(p) ==
    LET text == to_string(clk[p]) IN
    pc[p] = "rec_write" /\ fd[p] \notin mixed =>
        /\ data[fd[p]] = SubSeq(text, 1, Len(text) - Len(buf[p]))
        /\ \A r \in Procs : pc[r] = "rec_write" /\ fd[r] = fd[p] => r = p
HasRead(p) ==
    /\ pc[p] \in {"idle", "val_open", "val_size"} => buf[p] = <<>>
    /\ pc[p] = "val_read" /\ p \notin torn /\ buf[p] # <<>> =>
         fd[p] \notin mixed /\ Begins(buf[p], data[fd[p]])
    /\ pc[p] = "val_judge" /\ p \notin torn => buf[p] # <<>> /\ Stamp(who[p], buf[p])
Accepted(p) ==
    pc[p] = "accepted" /\ p \notin torn =>
        \E s \in minted[who[p]] : s <= clk[p] /\ clk[p] - s <= TTL

StampInv ==
    /\ OnePair
    /\ Contents
    /\ \A p \in Procs : Descriptor(p) /\ OwnText(p) /\ Alone(p) /\ HasRead(p) /\ Accepted(p)

(***************************************************************************)
(* Beginnings of texts                                                     *)
(***************************************************************************)

(* Parts of a sequence, and two sequences in a row. *)
LEMMA Part ==
    ASSUME NEW s \in Seq(Char), NEW m \in Nat, m <= Len(s), NEW k \in 0..m
    PROVE  /\ SubSeq(s, k + 1, m) \in Seq(Char) /\ Len(SubSeq(s, k + 1, m)) = m - k
           /\ \A e \in 1..(m - k) : SubSeq(s, k + 1, m)[e] = s[k + e]
<1>1. \A e \in (k + 1)..m : e \in 1..Len(s)
  OBVIOUS
<1>2. SubSeq(s, k + 1, m) \in Seq(Char) /\ Len(SubSeq(s, k + 1, m)) = m - k
  BY <1>1
<1>3. ASSUME NEW e \in 1..(m - k)
      PROVE  SubSeq(s, k + 1, m)[e] = s[k + e]
  BY <1>1
<1> QED
  BY <1>2, <1>3
LEMMA Joined ==
    ASSUME NEW a \in Seq(Char), NEW b \in Seq(Char)
    PROVE  /\ a \o b \in Seq(Char) /\ Len(a \o b) = Len(a) + Len(b)
           /\ \A e \in 1..Len(a) : (a \o b)[e] = a[e]
           /\ \A e \in 1..Len(b) : (a \o b)[Len(a) + e] = b[e]
OBVIOUS

(* The beginning of a beginning, and how long it is. *)
LEMMA BeginsAgain ==
    ASSUME NEW s \in Seq(Char), NEW m \in 0..Len(s), NEW k \in 0..m
    PROVE  /\ SubSeq(s, 1, k) \in Seq(Char) /\ Len(SubSeq(s, 1, k)) = k
           /\ SubSeq(SubSeq(s, 1, m), 1, k) = SubSeq(s, 1, k)
<1>1. Len(s) \in Nat /\ m \in Nat /\ k \in Nat /\ k <= m /\ m <= Len(s) /\ k <= Len(s)
  OBVIOUS
<1> DEFINE b == SubSeq(s, 1, m)
           a == SubSeq(s, 1, k)
           c == SubSeq(b, 1, k)
<1>2. b \in Seq(Char) /\ Len(b) = m /\ \A e \in 1..m : b[e] = s[e]
  BY <1>1
<1>3. a \in Seq(Char) /\ Len(a) = k /\ \A e \in 1..k : a[e] = s[e]
  BY <1>1
<1> HIDE DEF b
<1>4. c \in Seq(Char) /\ Len(c) = k /\ \A e \in 1..k : c[e] = b[e]
  BY <1>1, <1>2
<1> HIDE DEF a, c
<1>5. \A e \in 1..k : c[e] = a[e]
  BY <1>1, <1>2, <1>3, <1>4
<1>6. c = a
  BY <1>3, <1>4, <1>5
<1> QED
  BY <1>3, <1>6 DEF a, b, c

(* Reading on from the end of a beginning gives a longer beginning. *)
LEMMA ReadsOn ==
    ASSUME NEW s \in Seq(Char), NEW m \in 0..Len(s), NEW k \in 0..m
    PROVE  SubSeq(s, 1, k) \o SubSeq(s, k + 1, m) = SubSeq(s, 1, m)
<1>1. Len(s) \in Nat /\ m \in Nat /\ k \in Nat /\ k <= m /\ m <= Len(s)
  OBVIOUS
<1> DEFINE a == SubSeq(s, 1, k)
           b == SubSeq(s, k + 1, m)
           c == SubSeq(s, 1, m)
           d == a \o b
<1>2. /\ a \in Seq(Char) /\ Len(a) = k /\ \A e \in 1..k : a[e] = s[e]
      /\ c \in Seq(Char) /\ Len(c) = m /\ \A e \in 1..m : c[e] = s[e]
  BY <1>1
<1>3. b \in Seq(Char) /\ Len(b) = m - k /\ \A e \in 1..(m - k) : b[e] = s[k + e]
  BY <1>1, Part
<1> HIDE DEF a, b, c
<1>4. /\ d \in Seq(Char) /\ Len(d) = m
      /\ \A e \in 1..k : d[e] = a[e]
      /\ \A e \in 1..(m - k) : d[k + e] = b[e]
  <2>1. /\ d \in Seq(Char) /\ Len(d) = Len(a) + Len(b)
        /\ \A e \in 1..Len(a) : d[e] = a[e]
        /\ \A e \in 1..Len(b) : d[Len(a) + e] = b[e]
    BY <1>2, <1>3, Joined
  <2> HIDE DEF d
  <2> QED
    BY <1>1, <1>2, <1>3, <2>1
<1> HIDE DEF d
<1>5. ASSUME NEW e \in 1..m
      PROVE  d[e] = c[e]
  <2>1. CASE e <= k
    <3>1. e \in 1..k
      BY <1>1, <2>1
    <3> QED
      BY <1>2, <1>4, <3>1
  <2>2. CASE e > k
    <3>1. e - k \in 1..(m - k) /\ k + (e - k) = e
      BY <1>1, <2>2
    <3>2. b[e - k] = s[e] /\ d[e] = b[e - k]
      BY <1>3, <1>4, <3>1
    <3> QED
      BY <1>2, <3>2
  <2> QED
    BY <1>1, <2>1, <2>2
<1>6. d = c
  BY <1>2, <1>4, <1>5
<1> QED
  BY <1>6 DEF a, b, c, d

(* write(2) of the next n characters of a text, at the end of what is      *)
(* there, makes it n characters longer and leaves the rest to write.       *)
LEMMA WritesOn ==
    ASSUME NEW s \in Seq(Char), NEW k \in 0..Len(s), NEW n \in 1..(Len(s) - k)
    PROVE  LET rest == SubSeq(s, k + 1, Len(s)) IN
           /\ Overwrite(SubSeq(s, 1, k), k, SubSeq(rest, 1, n)) = SubSeq(s, 1, k + n)
           /\ SubSeq(rest, n + 1, Len(rest)) = SubSeq(s, k + n + 1, Len(s))
           /\ Len(rest) = Len(s) - k
<1>1. Len(s) \in Nat /\ k \in Nat /\ n \in Nat \ {0} /\ k + n <= Len(s)
  OBVIOUS
<1> DEFINE l == Len(s)
           rest == SubSeq(s, k + 1, l)
           new == SubSeq(rest, 1, n)
           old == SubSeq(s, 1, k)
           c == SubSeq(s, 1, k + n)
<1>2. /\ old \in Seq(Char) /\ Len(old) = k /\ \A e \in 1..k : old[e] = s[e]
      /\ c \in Seq(Char) /\ Len(c) = k + n /\ \A e \in 1..(k + n) : c[e] = s[e]
  BY <1>1
<1>3. rest \in Seq(Char) /\ Len(rest) = l - k /\ \A e \in 1..(l - k) : rest[e] = s[k + e]
  BY <1>1
<1> HIDE DEF rest, old, c
<1>4. new \in Seq(Char) /\ Len(new) = n /\ \A e \in 1..n : new[e] = rest[e]
  BY <1>1, <1>3
<1> HIDE DEF new
<1>5. Overwrite(old, k, new) = c
  <2>1. (IF k + Len(new) > Len(old) THEN k + Len(new) ELSE Len(old)) = k + n
    BY <1>1, <1>2, <1>4
  <2>2. Overwrite(old, k, new) =
          [ e \in 1..(k + n) |-> IF e > k /\ e <= k + Len(new) THEN new[e - k]
                                 ELSE IF e <= Len(old) THEN old[e] ELSE Nul ]
    BY <2>1 DEF Overwrite
  <2>3. ASSUME NEW e \in 1..(k + n)
        PROVE  (IF e > k /\ e <= k + Len(new) THEN new[e - k]
                ELSE IF e <= Len(old) THEN old[e] ELSE Nul) = c[e]
    <3>1. CASE e > k
      <4>1. e - k \in 1..n /\ e - k \in 1..(l - k) /\ k + (e - k) = e /\ e <= k + n
        BY <1>1, <3>1
      <4>2. new[e - k] = s[e]
        BY <1>3, <1>4, <4>1
      <4> QED
        BY <1>2, <1>4, <3>1, <4>1, <4>2
    <3>2. CASE ~(e > k)
      <4>1. e \in 1..k
        BY <1>1, <3>2
      <4> QED
        BY <1>2, <3>2, <4>1
    <3> QED
      BY <3>1, <3>2
  <2>4. c = [e \in 1..(k + n) |-> c[e]]
    BY <1>2
  <2> QED
    BY <2>2, <2>3, <2>4
<1>6. SubSeq(rest, n + 1, Len(rest)) = SubSeq(s, k + n + 1, l)
  <2> DEFINE a == SubSeq(rest, n + 1, l - k)
             b == SubSeq(s, k + n + 1, l)
  <2>1. /\ a \in Seq(Char) /\ Len(a) = l - k - n
        /\ \A e \in 1..(l - k - n) : a[e] = rest[n + e]
    <3>1. l - k \in Nat /\ l - k <= Len(rest) /\ n \in 0..(l - k)
      BY <1>1, <1>3
    <3> QED
      BY <1>3, <3>1, Part
  <2>2. /\ b \in Seq(Char) /\ Len(b) = l - k - n
        /\ \A e \in 1..(l - k - n) : b[e] = s[k + n + e]
    <3> DEFINE j == k + n
    <3>1. j \in 0..l /\ l \in Nat /\ l <= Len(s) /\ l - j = l - k - n
      BY <1>1
    <3> HIDE DEF j
    <3>2. /\ SubSeq(s, j + 1, l) \in Seq(Char) /\ Len(SubSeq(s, j + 1, l)) = l - j
          /\ \A e \in 1..(l - j) : SubSeq(s, j + 1, l)[e] = s[j + e]
      BY <3>1, Part
    <3> QED
      BY <3>1, <3>2 DEF j
  <2> HIDE DEF a, b
  <2>3. ASSUME NEW e \in 1..(l - k - n)
        PROVE  a[e] = b[e]
    <3>1. n + e \in 1..(l - k) /\ k + (n + e) = k + n + e
      BY <1>1
    <3> QED
      BY <1>3, <2>1, <2>2, <3>1
  <2>4. a = b
    BY <2>1, <2>2, <2>3
  <2> QED
    BY <1>3, <2>4 DEF a, b
<1> QED
  BY <1>3, <1>5, <1>6 DEF rest, new, old, c

(* What starts a stamp and passes the check of its age is that stamp, and  *)
(* young enough: the last digits are never missing (TornAssumption).       *)
LEMMA FreshStamp ==
    ASSUME NEW t \in Time, NEW n \in Time, NEW s, s # <<>>, Begins(s, to_string(t)),
           Fresh(strtoull(s), n)
    PROVE  Fresh(t, n)
<1> DEFINE text == to_string(t)
<1>0. text \in Seq(Char) /\ Len(text) \in Nat
  BY StampText
<1>1. PICK k \in 0..Len(text) : s = SubSeq(text, 1, k)
  BY DEF Begins
<1>2. k # 0
  BY <1>0, <1>1
<1>3. CASE k = Len(text)
  <2>1. s = text
    BY <1>0, <1>1, <1>3
  <2> QED
    BY <2>1, TextAssumption
<1>4. CASE k # Len(text)
  <2>1. k \in 1..(Len(text) - 1)
    BY <1>0, <1>2, <1>4
  <2> QED
    BY <1>1, <2>1, TornAssumption DEF Fresh
<1> QED
  BY <1>3, <1>4

(***************************************************************************)
(* Steps that write nothing                                                *)
(***************************************************************************)

(* What another process knows does not change when the files, the stamps   *)
(* and its own variables do not.                                           *)
Same(r) ==
    /\ pc'[r] = pc[r] /\ who'[r] = who[r] /\ fd'[r] = fd[r]
    /\ clk'[r] = clk[r] /\ buf'[r] = buf[r] /\ (r \in torn' <=> r \in torn)
Knows(p) == Descriptor(p) /\ OwnText(p) /\ HasRead(p) /\ Accepted(p)

(* Stamps are only added. *)
LEMMA StampStays ==
    ASSUME \A q \in Pairs : minted[q] \subseteq minted'[q], NEW q \in Pairs, NEW s, Stamp(q, s)
    PROVE  Stamp(q, s)'
BY DEF Stamp, Begins

(* Steps after which every file belongs to whom it belonged to. *)
LEMMA BelongsStays ==
    ASSUME TypeOK, OnePair, Contents,
           \A i \in Inodes : \A q \in Pairs : Belongs(i, q)' => Belongs(i, q),
           data' = data, mixed' = mixed, \A q \in Pairs : minted[q] \subseteq minted'[q]
    PROVE  OnePair' /\ Contents'
<1>1. OnePair'
  BY DEF OnePair
<1>2. ASSUME NEW i \in Inodes \ mixed, NEW q \in Pairs, Belongs(i, q)'
      PROVE  Stamp(q, data[i])'
  <2>1. Stamp(q, data[i])
    BY <1>2 DEF Contents
  <2>2. PICK s : s = data[i] /\ s = data'[i]
    OBVIOUS
  <2>3. Stamp(q, s)'
    BY <2>1, <2>2, StampStays
  <2> QED
    BY <2>2, <2>3 DEF Stamp
<1> QED
  BY <1>1, <1>2 DEF Contents

(* Steps of one process that write nothing: all but open() and write() in  *)
(* record().                                                               *)
LEMMA OneProcess ==
    ASSUME TypeOK, StampInv, NEW p \in Procs,
           \A n \in Names : dir'[n] \in {dir[n], NoInode},
           data' = data, mixed' = mixed, \A q \in Pairs : minted[q] \subseteq minted'[q],
           \A r \in Procs \ {p} : Same(r),
           fd'[p] \in Inodes => Belongs(fd'[p], who'[p]),
           pc'[p] # "rec_write", Knows(p)'
    PROVE  StampInv'
<1>1. ASSUME NEW i \in Inodes, NEW q \in Pairs, Belongs(i, q)'
      PROVE  Belongs(i, q)
  <2>1. CASE dir'[path_for(q)] = i
    BY <2>1, MiscAssumption DEF Belongs, Names
  <2>2. CASE \E r \in Procs : fd'[r] = i /\ who'[r] = q
    BY <2>2 DEF Belongs, Same
  <2> QED
    BY <1>1, <2>1, <2>2 DEF Belongs
<1>2. OnePair' /\ Contents'
  BY <1>1, BelongsStays DEF StampInv
<1>3. ASSUME NEW r \in Procs \ {p}
      PROVE  Knows(r)' /\ Alone(r)'
  <2>0. Same(r) /\ Descriptor(r) /\ OwnText(r) /\ Alone(r) /\ HasRead(r) /\ Accepted(r)
    BY DEF StampInv
  <2>1. pc[r] # "idle" => who[r] \in Pairs
    BY DEF TypeOK, ProcessOK
  <2>2. Descriptor(r)'
    BY <2>0 DEF Same, Descriptor
  <2>3. OwnText(r)'
    BY <2>0, <2>1 DEF Same, OwnText
  <2>4. Accepted(r)'
    BY <2>0, <2>1 DEF Same, Accepted
  <2>5. HasRead(r)'
    <3>1. pc[r] \in {"val_judge"} /\ Stamp(who[r], buf[r]) => Stamp(who[r], buf[r])'
      <4>1. PICK q, s : q = who[r] /\ q = who'[r] /\ s = buf[r] /\ s = buf'[r]
        BY <2>0 DEF Same
      <4>2. q \in Pairs /\ Stamp(q, s) => Stamp(q, s)'
        BY StampStays
      <4> QED
        BY <2>1, <4>1, <4>2 DEF Stamp
    <3> QED
      BY <2>0, <3>1 DEF Same, HasRead, Begins
  <2>6. Alone(r)'
    <3>1. \A x \in Procs : pc'[x] = "rec_write" => x # p
      OBVIOUS
    <3> QED
      BY <2>0, <3>1 DEF Same, Alone
  <2> QED
    BY <2>2, <2>3, <2>4, <2>5, <2>6 DEF Knows
<1>4. Alone(p)'
  BY DEF Alone
<1> QED
  BY <1>2, <1>3, <1>4 DEF StampInv, Knows

(* The process is done, for whatever reason. *)
LEMMA LeaveKnows ==
    ASSUME TypeOK, StampInv, NEW p \in Procs, Leave(p), UNCHANGED <<dir, data, minted, mixed>>
    PROVE  StampInv'
<1>1. \A r \in Procs \ {p} : Same(r)
  BY DEF TypeOK, ProcessOK, Leave, Same
<1>2. pc'[p] = "idle" /\ fd'[p] = NoInode /\ buf'[p] = <<>>
  BY DEF TypeOK, ProcessOK, Leave
<1>3. Knows(p)'
  BY <1>2 DEF Knows, Descriptor, OwnText, HasRead, Accepted
<1> QED
  BY <1>1, <1>2, <1>3, OneProcess, MiscAssumption

(* record() reads the clock. *)
LEMMA RecordBeginKnows ==
    ASSUME TypeOK, StampInv, NEW p \in Procs, NEW q \in Pairs, RecordBegin(p, q)
    PROVE  StampInv'
<1> USE DEF TypeOK, KernelOK, ProcessOK, HistoryOK
<1>1. /\ pc[p] = "idle" /\ pc'[p] = "rec_open" /\ who'[p] = q /\ clk'[p] = now
      /\ buf'[p] = to_string(now) /\ minted'[q] = minted[q] \cup {now} /\ fd'[p] = fd[p]
      /\ \A x \in Pairs : minted[x] \subseteq minted'[x]
      /\ UNCHANGED <<dir, data, mixed>>
  BY DEF RecordBegin, Goto
<1>2. \A r \in Procs \ {p} : Same(r)
  BY DEF RecordBegin, Goto, Same
<1>3. fd[p] = NoInode
  BY <1>1 DEF StampInv, Descriptor
<1>4. Knows(p)'
  BY <1>1, <1>3 DEF Knows, Descriptor, OwnText, HasRead, Accepted
<1> QED
  BY <1>1, <1>2, <1>3, <1>4, OneProcess, MiscAssumption

(* The system calls of valid() up to the first read. *)
LEMMA ValidOpenKnows ==
    ASSUME TypeOK, StampInv, NEW p \in Procs,
           (\E q \in Pairs : ValidBegin(p, q)) \/ ValidOpen(p) \/ ValidSize(p)
    PROVE  StampInv'
<1> USE DEF TypeOK, KernelOK, ProcessOK, HistoryOK
<1>0. UNCHANGED <<dir, data, minted, mixed>>
  BY DEF ValidBegin, ValidOpen, ValidSize, kernel, history
<1>1. CASE Leave(p)
  BY <1>0, <1>1, LeaveKnows
<1>2. CASE \E q \in Pairs : ValidBegin(p, q)
  <2>1. pc[p] = "idle" /\ pc'[p] = "val_open" /\ fd'[p] = fd[p] /\ buf'[p] = buf[p]
    BY <1>2 DEF ValidBegin, Goto
  <2>2. \A r \in Procs \ {p} : Same(r)
    BY <1>2 DEF ValidBegin, Goto, history, Same
  <2>3. fd[p] = NoInode /\ buf[p] = <<>>
    BY <2>1 DEF StampInv, Descriptor, HasRead
  <2>4. Knows(p)'
    BY <2>1, <2>3 DEF Knows, Descriptor, OwnText, HasRead, Accepted
  <2> QED
    BY <1>0, <2>1, <2>2, <2>3, <2>4, OneProcess, MiscAssumption
<1>3. CASE ValidOpen(p) /\ ~Leave(p)
  <2>1. /\ pc[p] = "val_open" /\ pc'[p] = "val_size" /\ buf'[p] = buf[p] /\ who'[p] = who[p]
        /\ fd'[p] = dir[path_for(who[p])]
    BY <1>3 DEF ValidOpen, Goto
  <2>2. \A r \in Procs \ {p} : Same(r)
    BY <1>3 DEF ValidOpen, Goto, Same
  <2>3. buf[p] = <<>>
    BY <2>1 DEF StampInv, HasRead
  <2>4. Knows(p)'
    BY <2>1, <2>3 DEF Knows, Descriptor, OwnText, HasRead, Accepted
  <2>5. Belongs(fd'[p], who'[p])
    BY <2>1 DEF Belongs
  <2> QED
    BY <1>0, <2>1, <2>2, <2>4, <2>5, OneProcess
<1>4. CASE ValidSize(p) /\ ~Leave(p)
  <2>1. /\ pc[p] = "val_size" /\ pc'[p] = "val_read" /\ buf'[p] = buf[p] /\ who'[p] = who[p]
        /\ fd'[p] = fd[p]
    BY <1>4 DEF ValidSize, Goto
  <2>2. \A r \in Procs \ {p} : Same(r)
    BY <1>4 DEF ValidSize, Goto, Same
  <2>3. buf[p] = <<>>
    BY <2>1 DEF StampInv, HasRead
  <2>4. Knows(p)'
    BY <2>1, <2>3 DEF Knows, Descriptor, OwnText, HasRead, Accepted
  <2>5. Belongs(fd'[p], who'[p])
    BY <2>1 DEF Belongs
  <2> QED
    BY <1>0, <2>1, <2>2, <2>4, <2>5, OneProcess
<1> QED
  BY <1>1, <1>2, <1>3, <1>4

(* One read(2): what came so far and what comes now are the beginning of   *)
(* what the file holds now, unless the file was mixed or rewritten.        *)
LEMMA ValidReadKnows ==
    ASSUME TypeOK, StampInv, NEW p \in Procs, ValidRead(p)
    PROVE  StampInv'
<1> USE DEF TypeOK, KernelOK, ProcessOK, HistoryOK
<1>0. UNCHANGED <<dir, data, minted, mixed>>
  BY DEF ValidRead, kernel
<1>1. CASE Leave(p)
  BY <1>0, <1>1, LeaveKnows
<1>2. CASE ~Leave(p)
  <2>1. /\ pc[p] = "val_read" /\ who'[p] = who[p] /\ fd'[p] = fd[p]
        /\ pc'[p] \in {"val_read", "val_judge"}
        /\ Available(p) # <<>> /\ buf'[p] = buf[p] \o Available(p)
        /\ p \notin torn' => p \notin torn /\ fd[p] \notin mixed
    BY <1>2 DEF ValidRead
  <2>2. \A r \in Procs \ {p} : Same(r)
    BY <1>2 DEF ValidRead, Same
  <2> DEFINE q == who[p]
             f == data[fd[p]]
             e == IF size[p] < Len(f) THEN size[p] ELSE Len(f)
  <2>3. q \in Pairs /\ fd[p] \in Inodes /\ f \in Seq(Char) /\ size[p] \in Nat /\ buf[p] \in Seq(Char)
    BY <2>1
  <2>4. e \in 0..Len(f)
    BY <2>3
  <2>5. ASSUME p \notin torn'
        PROVE  buf'[p] # <<>> /\ Begins(buf'[p], f) /\ Stamp(q, buf'[p])
    <3>1. fd[p] \notin mixed /\ p \notin torn
      BY <2>1, <2>5
    <3>2. PICK k \in 0..Len(f) : buf[p] = SubSeq(f, 1, k)
      <4>1. CASE buf[p] = <<>>
        <5>1. 0 \in 0..Len(f) /\ SubSeq(f, 1, 0) = <<>>
          BY <2>3
        <5> QED
          BY <4>1, <5>1
      <4>2. CASE buf[p] # <<>>
        BY <2>1, <3>1, <4>2 DEF StampInv, HasRead, Begins
      <4> QED
        BY <4>1, <4>2
    <3>3. Len(buf[p]) = k
      BY <2>3, <3>2, BeginsAgain
    <3>4. Available(p) = SubSeq(f, k + 1, e)
      BY <3>3 DEF Available
    <3> HIDE DEF e
    <3>5. k < e
      <4>1. CASE k >= e
        <5>1. SubSeq(f, k + 1, e) = <<>>
          BY <2>3, <2>4, <4>1
        <5> QED
          BY <2>1, <3>4, <5>1
      <4> QED
        BY <2>3, <2>4, <3>2, <4>1
    <3>6. buf'[p] = SubSeq(f, 1, e) /\ Len(SubSeq(f, 1, e)) = e
      <4>1. k \in 0..e
        BY <2>3, <2>4, <3>5
      <4>2. SubSeq(f, 1, k) \o SubSeq(f, k + 1, e) = SubSeq(f, 1, e)
        BY <2>3, <2>4, <4>1, ReadsOn
      <4>3. Len(SubSeq(f, 1, e)) = e
        BY <2>3, <2>4
      <4> QED
        BY Zenon, <2>1, <3>2, <3>4, <4>2, <4>3
    <3>7. Begins(buf'[p], f)
      BY <2>4, <3>6 DEF Begins
    <3>8. buf'[p] # <<>>
      <4>1. Len(buf'[p]) # 0
        BY <2>4, <3>2, <3>5, <3>6
      <4> QED
        BY <4>1
    <3>9. Belongs(fd[p], q)
      BY DEF Belongs
    <3>10. PICK t \in minted[q] : Begins(f, to_string(t))
      BY <2>3, <3>1, <3>9 DEF StampInv, Contents, Stamp
    <3>11. to_string(t) \in Seq(Char)
      BY <2>3, StampText
    <3> DEFINE text == to_string(t)
    <3>12. PICK m \in 0..Len(text) : f = SubSeq(text, 1, m)
      BY <3>10 DEF Begins
    <3>13. Len(f) = m /\ m \in Nat /\ Len(text) \in Nat /\ m <= Len(text)
      BY <3>11, <3>12, BeginsAgain
    <3>14. e \in 0..m /\ e \in 0..Len(text)
      BY <2>4, <3>13
    <3>15. SubSeq(f, 1, e) = SubSeq(text, 1, e)
      BY <3>11, <3>12, <3>14, BeginsAgain
    <3>16. Begins(buf'[p], text)
      BY <3>6, <3>14, <3>15 DEF Begins
    <3> QED
      BY <3>7, <3>8, <3>10, <3>16 DEF Stamp
  <2>6. Knows(p)'
    <3>1. Descriptor(p)' /\ OwnText(p)' /\ Accepted(p)'
      BY <2>1 DEF Descriptor, OwnText, Accepted
    <3>2. HasRead(p)'
      BY <1>0, <2>1, <2>5 DEF HasRead, Stamp, Begins
    <3> QED
      BY <3>1, <3>2 DEF Knows
  <2>7. Belongs(fd'[p], who'[p])
    BY <2>1 DEF Belongs
  <2> QED
    BY <1>0, <2>1, <2>2, <2>6, <2>7, OneProcess
<1> QED
  BY <1>1, <1>2

(* The verdict: a stamp of the pair, or the beginning of one, that passes  *)
(* the check of its age is a second at which record() was called.          *)
LEMMA ValidJudgeKnows ==
    ASSUME TypeOK, StampInv, NEW p \in Procs, ValidJudge(p)
    PROVE  StampInv'
<1> USE DEF TypeOK, KernelOK, ProcessOK, HistoryOK
<1>0. UNCHANGED <<dir, data, minted, mixed>>
  BY DEF ValidJudge, kernel
<1>1. CASE Leave(p)
  BY <1>0, <1>1, LeaveKnows
<1>2. CASE ~Leave(p)
  <2>1. /\ pc[p] = "val_judge" /\ pc'[p] = "accepted" /\ who'[p] = who[p] /\ fd'[p] = NoInode
        /\ clk'[p] = now /\ Fresh(strtoull(buf[p]), now) /\ torn' = torn
    BY <1>2 DEF ValidJudge, Goto
  <2>2. \A r \in Procs \ {p} : Same(r)
    BY <1>2 DEF ValidJudge, Goto, Same
  <2>3. who[p] \in Pairs /\ now \in Time
    BY <2>1
  <2>4. ASSUME p \notin torn
        PROVE  \E s \in minted[who[p]] : s <= now /\ now - s <= TTL
    <3>1. buf[p] # <<>> /\ Stamp(who[p], buf[p])
      BY <2>1, <2>4 DEF StampInv, HasRead
    <3>2. PICK t \in minted[who[p]] : Begins(buf[p], to_string(t))
      BY <3>1 DEF Stamp
    <3>3. t \in Time
      BY <2>3
    <3>4. Fresh(t, now)
      BY <2>1, <2>3, <3>1, <3>2, <3>3, FreshStamp
    <3> QED
      BY <3>4 DEF Fresh
  <2>5. Knows(p)'
    BY <1>0, <2>1, <2>4 DEF Knows, Descriptor, OwnText, HasRead, Accepted
  <2> QED
    BY <1>0, <2>1, <2>2, <2>5, OneProcess, MiscAssumption
<1> QED
  BY <1>1, <1>2

(* A clear removes names; giving up leaves everything. *)
LEMMA ClearKnows ==
    ASSUME TypeOK, StampInv, NEW p \in Procs,
           \/ \E q \in Pairs : ClearBegin(p, q)
           \/ ClearRemove(p) \/ ClearSkip(p) \/ ClearEnd(p) \/ Abandon(p)
    PROVE  StampInv'
<1> USE DEF TypeOK, KernelOK, ProcessOK, HistoryOK
<1>1. CASE Abandon(p)
  BY <1>1, LeaveKnows DEF Abandon, kernel
<1>2. CASE (\E q \in Pairs : ClearBegin(p, q)) \/ ClearRemove(p) \/ ClearSkip(p) \/ ClearEnd(p)
  <2>1. /\ pc[p] \in {"idle", "clr_scan"} /\ pc'[p] \in {"clr_scan", "cleared"}
        /\ fd'[p] = fd[p] /\ UNCHANGED <<data, minted, mixed>>
    BY <1>2 DEF ClearBegin, ClearRemove, ClearSkip, ClearEnd, Goto, kernel, history
  <2>2. \A r \in Procs \ {p} : Same(r)
    BY <1>2 DEF ClearBegin, ClearRemove, ClearSkip, ClearEnd, Goto, Same, kernel, history
  <2>3. \A n \in Names : dir'[n] \in {dir[n], NoInode}
    BY <1>2 DEF ClearBegin, ClearRemove, ClearSkip, ClearEnd, kernel
  <2>4. fd[p] = NoInode
    BY <2>1 DEF StampInv, Descriptor
  <2>5. Knows(p)'
    BY <2>1, <2>4 DEF Knows, Descriptor, OwnText, HasRead, Accepted
  <2> QED
    BY <2>1, <2>2, <2>3, <2>4, <2>5, OneProcess, MiscAssumption
<1> QED
  BY <1>1, <1>2

(***************************************************************************)
(* The steps that write                                                    *)
(***************************************************************************)

(* open() with O_CREAT and O_TRUNC empties the file of the pair, or takes  *)
(* an inode of nobody's; who was reading it, or still writes to it, is     *)
(* remembered in torn and mixed.                                           *)
LEMMA RecordOpenKnows ==
    ASSUME TypeOK, StampInv, NEW p \in Procs, RecordOpen(p)
    PROVE  StampInv'
<1> USE DEF TypeOK, KernelOK, ProcessOK, HistoryOK
<1> DEFINE q == who[p]
           name == path_for(who[p])
<1>1. /\ pc[p] = "rec_open" /\ pc' = [pc EXCEPT ![p] = "rec_write"]
      /\ UNCHANGED <<who, clk, buf, minted>> /\ q \in Pairs /\ name \in Names
  BY DEF RecordOpen, Goto, Names
<1>2. PICK i \in IF dir[name] # NoInode THEN {dir[name]} ELSE FreeInodes :
         /\ dir' = [dir EXCEPT ![name] = i]
         /\ data' = [data EXCEPT ![i] = <<>>]
         /\ fd' = [fd EXCEPT ![p] = i]
         /\ mixed' = IF Holders(i, {"rec_write"}) = {} THEN mixed \ {i} ELSE mixed \cup {i}
         /\ torn' = torn \cup { r \in Holders(i, {"val_read"}) : buf[r] # <<>> }
  BY DEF RecordOpen
<1>3. i \in Inodes
  BY <1>1, <1>2 DEF FreeInodes
<1>4. ASSUME NEW x \in Pairs, Belongs(i, x)
      PROVE  x = q
  <2>1. CASE dir[name] # NoInode
    <3>1. Belongs(i, q)
      BY <1>2, <2>1 DEF Belongs
    <3> QED
      BY <1>1, <1>3, <1>4, <3>1 DEF StampInv, OnePair
  <2>2. CASE dir[name] = NoInode
    <3>1. i \in FreeInodes
      BY <1>2, <2>2
    <3> QED
      BY <1>4, <3>1 DEF FreeInodes, Belongs, Names
  <2> QED
    BY <2>1, <2>2
<1>5. ASSUME NEW j \in Inodes, NEW x \in Pairs, Belongs(j, x)'
      PROVE  IF j = i THEN x = q ELSE Belongs(j, x)
  <2>0. path_for(x) \in Names /\ (path_for(x) = name => x = q)
    BY <1>1, PathInjective DEF Names
  <2>1. CASE dir'[path_for(x)] = j
    <3>1. CASE path_for(x) = name
      BY <1>2, <1>3, <1>1, <2>0, <2>1, <3>1
    <3>2. CASE path_for(x) # name
      <4>1. Belongs(j, x)
        BY <1>1, <1>2, <2>0, <2>1, <3>2 DEF Belongs
      <4> QED
        BY <1>4, <4>1
    <3> QED
      BY <3>1, <3>2
  <2>2. CASE \E r \in Procs : fd'[r] = j /\ who'[r] = x
    <3>1. PICK r \in Procs : fd'[r] = j /\ who[r] = x
      BY <1>1, <2>2
    <3>2. CASE r = p
      BY <1>2, <1>3, <3>1, <3>2
    <3>3. CASE r # p
      <4>1. Belongs(j, x)
        BY <1>2, <3>1, <3>3 DEF Belongs
      <4> QED
        BY <1>4, <4>1
    <3> QED
      BY <3>2, <3>3
  <2> QED
    BY <1>5, <2>1, <2>2 DEF Belongs
<1>6. OnePair'
  BY <1>5 DEF StampInv, OnePair
<1>7. clk[p] \in minted[q] /\ buf[p] = to_string(clk[p]) /\ to_string(clk[p]) \in Seq(Char)
  BY <1>1, StampText DEF StampInv, OwnText
<1>8. Contents'
  <2>1. ASSUME NEW j \in Inodes, j \notin mixed', NEW x \in Pairs, Belongs(j, x)'
        PROVE  Stamp(x, data'[j])
    <3>1. CASE j = i
      <4>1. x = q /\ data'[j] = <<>>
        BY <1>2, <1>3, <1>5, <2>1, <3>1
      <4>2. 0 \in 0..Len(to_string(clk[p])) /\ SubSeq(to_string(clk[p]), 1, 0) = <<>>
        BY <1>7
      <4> QED
        BY <1>7, <4>1, <4>2 DEF Stamp, Begins
    <3>2. CASE j # i
      <4>1. Belongs(j, x) /\ j \notin mixed /\ data'[j] = data[j]
        BY <1>2, <1>5, <2>1, <3>2
      <4> QED
        BY <4>1 DEF StampInv, Contents
    <3> QED
      BY <3>1, <3>2
  <2> QED
    BY <1>1, <2>1 DEF Contents, Stamp, Begins
<1>9. ASSUME NEW r \in Procs \ {p}
      PROVE  Knows(r)' /\ Alone(r)'
  <2>0. Descriptor(r) /\ OwnText(r) /\ Alone(r) /\ HasRead(r) /\ Accepted(r)
    BY DEF StampInv
  <2>1. /\ pc'[r] = pc[r] /\ who'[r] = who[r] /\ fd'[r] = fd[r] /\ clk'[r] = clk[r]
        /\ buf'[r] = buf[r] /\ (r \notin torn' => r \notin torn)
    BY <1>1, <1>2
  <2>2. Descriptor(r)' /\ OwnText(r)' /\ Accepted(r)'
    BY <1>1, <2>0, <2>1 DEF Descriptor, OwnText, Accepted
  <2>3. HasRead(r)'
    <3>1. pc[r] = "val_judge" /\ Stamp(who[r], buf[r]) => Stamp(who[r], buf[r])'
      BY <1>1, <2>1 DEF Stamp, Begins
    <3>2. ASSUME pc[r] = "val_read", r \notin torn', buf[r] # <<>>
          PROVE  fd'[r] \notin mixed' /\ Begins(buf[r], data'[fd[r]])
      <4>1. fd[r] # i
        BY <1>2, <3>2 DEF Holders
      <4>2. fd[r] \in Inodes /\ data'[fd[r]] = data[fd[r]]
        BY <1>2, <3>2, <4>1
      <4> QED
        BY <1>2, <2>0, <2>1, <3>2, <4>1, <4>2 DEF HasRead
    <3> QED
      BY <2>0, <2>1, <3>1, <3>2 DEF HasRead, Begins
  <2>4. Alone(r)'
    <3>1. ASSUME pc[r] = "rec_write", fd[r] \notin mixed'
          PROVE  /\ fd[r] # i /\ fd[r] \notin mixed /\ data'[fd[r]] = data[fd[r]]
                 /\ \A x \in Procs : pc'[x] = "rec_write" /\ fd'[x] = fd[r] =>
                                     pc[x] = "rec_write" /\ fd[x] = fd[r]
      <4>1. fd[r] # i
        BY <1>2, <3>1 DEF Holders
      <4>2. fd[r] \in Inodes
        BY <3>1
      <4> QED
        BY <1>1, <1>2, <3>1, <4>1, <4>2
    <3> QED
      BY <2>0, <2>1, <3>1 DEF Alone
  <2> QED
    BY <2>2, <2>3, <2>4 DEF Knows
<1>10. Knows(p)' /\ Alone(p)'
  <2>1. /\ pc'[p] = "rec_write" /\ fd'[p] = i /\ who'[p] = q /\ clk'[p] = clk[p]
        /\ buf'[p] = to_string(clk[p])
    BY <1>1, <1>2, <1>7
  <2>2. OwnText(p)'
    <3>1. 0 \in 0..Len(to_string(clk[p]))
          /\ SubSeq(to_string(clk[p]), 0 + 1, Len(to_string(clk[p]))) = to_string(clk[p])
      BY <1>7
    <3> QED
      BY <1>1, <1>7, <2>1, <3>1 DEF OwnText
  <2>3. Alone(p)'
    <3>1. ASSUME i \notin mixed'
          PROVE  /\ data'[i] = <<>>
                 /\ \A r \in Procs : pc'[r] = "rec_write" /\ fd'[r] = i => r = p
      BY <1>1, <1>2, <1>3, <3>1 DEF Holders
    <3>2. SubSeq(to_string(clk[p]), 1, Len(to_string(clk[p])) - Len(to_string(clk[p]))) = <<>>
      BY <1>7
    <3> QED
      BY <2>1, <3>1, <3>2 DEF Alone
  <2>4. Descriptor(p)' /\ HasRead(p)' /\ Accepted(p)'
    BY <2>1 DEF Descriptor, HasRead, Accepted
  <2> QED
    BY <2>2, <2>3, <2>4 DEF Knows
<1> QED
  BY <1>6, <1>8, <1>9, <1>10 DEF StampInv, Knows

(* write(): the only writer of an unmixed file extends the beginning of    *)
(* its own stamp; what readers have of it is still a beginning of it.      *)
LEMMA RecordWriteKnows ==
    ASSUME TypeOK, StampInv, NEW p \in Procs, RecordWrite(p)
    PROVE  StampInv'
<1> USE DEF TypeOK, KernelOK, ProcessOK, HistoryOK
<1> DEFINE i == fd[p]
           q == who[p]
           text == to_string(clk[p])
           l == Len(text)
<1>1. /\ pc[p] = "rec_write" /\ i \in Inodes /\ q \in Pairs /\ clk[p] \in minted[q]
      /\ UNCHANGED <<dir, minted, mixed>> /\ clk[p] \in Time
  BY DEF RecordWrite, StampInv, OwnText
<1>2. text \in Seq(Char) /\ l \in Nat
  BY <1>1, StampText
<1>3. PICK n \in 1..Len(buf[p]) :
         /\ data' = [data EXCEPT ![i] = Overwrite(@, l - Len(buf[p]), SubSeq(buf[p], 1, n))]
         /\ IF n = Len(buf[p])
            THEN Leave(p)
            ELSE /\ buf' = [buf EXCEPT ![p] = SubSeq(@, n + 1, Len(@))]
                 /\ UNCHANGED <<pc, who, fd, clk, size, todo, torn, reopened, skipped>>
  BY DEF RecordWrite
<1>4. PICK k \in 0..l : buf[p] = SubSeq(text, k + 1, l)
  BY <1>1 DEF StampInv, OwnText
<1> HIDE DEF text
<1>5. Len(buf[p]) = l - k
  BY <1>2, <1>4, Part
<1> HIDE DEF l
<1>6. n \in 1..(l - k) /\ k + n \in 0..l /\ k \in 0..(k + n) /\ l - (l - k) = k
  BY <1>2, <1>3, <1>5
<1>7. Overwrite(SubSeq(text, 1, k), k, SubSeq(buf[p], 1, n)) = SubSeq(text, 1, k + n)
      /\ SubSeq(buf[p], n + 1, Len(buf[p])) = SubSeq(text, k + n + 1, l)
  BY <1>2, <1>4, <1>6, WritesOn DEF l
<1>8. ASSUME i \notin mixed
      PROVE  /\ data[i] = SubSeq(text, 1, k) /\ data'[i] = SubSeq(text, 1, k + n)
             /\ \A r \in Procs : pc[r] = "rec_write" /\ fd[r] = i => r = p
  <2>1. Alone(p)
    BY DEF StampInv
  <2>2. /\ data[i] = SubSeq(text, 1, l - Len(buf[p]))
        /\ \A r \in Procs : pc[r] = "rec_write" /\ fd[r] = i => r = p
    BY <1>1, <1>8, <2>1 DEF Alone, text, l
  <2>3. data[i] = SubSeq(text, 1, k)
    BY <1>5, <1>6, <2>2
  <2>4. data'[i] = Overwrite(data[i], k, SubSeq(buf[p], 1, n))
    BY <1>1, <1>3, <1>5, <1>6
  <2> QED
    BY <1>7, <2>2, <2>3, <2>4
<1>9. \A j \in Inodes \ {i} : data'[j] = data[j]
  BY <1>3
<1>10. /\ \A r \in Procs \ {p} : Same(r)
       /\ fd'[p] \in {fd[p], NoInode} /\ (fd'[p] = fd[p] => who'[p] = who[p])
  <2>1. CASE Leave(p)
    BY <1>1, <2>1, MiscAssumption DEF Leave, Same
  <2>2. CASE ~Leave(p)
    BY <1>3, <2>2 DEF Same
  <2> QED
    BY <2>1, <2>2
<1>11. ASSUME NEW j \in Inodes, NEW x \in Pairs, Belongs(j, x)'
       PROVE  Belongs(j, x)
  <2>1. CASE dir'[path_for(x)] = j
    BY <1>1, <2>1 DEF Belongs
  <2>2. CASE \E r \in Procs : fd'[r] = j /\ who'[r] = x
    BY <1>10, <2>2, MiscAssumption DEF Same, Belongs
  <2> QED
    BY <1>11, <2>1, <2>2 DEF Belongs
<1>12. OnePair'
  BY <1>11 DEF StampInv, OnePair
<1>13. Contents'
  <2>1. ASSUME NEW j \in Inodes \ mixed, NEW x \in Pairs, Belongs(j, x)'
        PROVE  Stamp(x, data'[j])
    <3>1. CASE j = i
      <4>1. Belongs(i, q)
        BY DEF Belongs
      <4>2. x = q
        BY <1>1, <1>11, <2>1, <3>1, <4>1 DEF StampInv, OnePair
      <4>3. data'[j] = SubSeq(text, 1, k + n)
        BY <1>8, <2>1, <3>1
      <4> QED
        BY <1>1, <1>6, <4>2, <4>3 DEF Stamp, Begins, text, l
    <3>2. CASE j # i
      BY <1>9, <1>11, <2>1, <3>2 DEF StampInv, Contents
    <3> QED
      BY <3>1, <3>2
  <2> QED
    BY <1>1, <2>1 DEF Contents, Stamp, Begins
<1>14. ASSUME NEW r \in Procs \ {p}
       PROVE  Knows(r)' /\ Alone(r)'
  <2>0. Same(r) /\ Descriptor(r) /\ OwnText(r) /\ Alone(r) /\ HasRead(r) /\ Accepted(r)
    BY <1>10 DEF StampInv
  <2>1. Descriptor(r)' /\ OwnText(r)' /\ Accepted(r)'
    BY <1>1, <2>0 DEF Same, Descriptor, OwnText, Accepted
  <2>2. HasRead(r)'
    <3>1. pc[r] = "val_judge" /\ Stamp(who[r], buf[r]) => Stamp(who[r], buf[r])'
      BY <1>1, <2>0 DEF Same, Stamp, Begins
    <3>2. ASSUME fd[r] \in Inodes, fd[r] \notin mixed, Begins(buf[r], data[fd[r]])
          PROVE  Begins(buf[r], data'[fd[r]])
      <4>1. CASE fd[r] # i
        BY <1>9, <3>2, <4>1
      <4>2. CASE fd[r] = i
        <5>1. data[i] = SubSeq(text, 1, k) /\ data'[i] = SubSeq(text, 1, k + n)
          BY <1>8, <3>2, <4>2
        <5>2. k \in 0..l /\ Len(SubSeq(text, 1, k)) = k
          BY <1>2, <1>6, BeginsAgain DEF l
        <5>3. PICK e \in 0..k : buf[r] = SubSeq(SubSeq(text, 1, k), 1, e)
          BY <3>2, <4>2, <5>1, <5>2 DEF Begins
        <5>4. e \in 0..(k + n)
          BY <1>6, <5>3
        <5>5. SubSeq(SubSeq(text, 1, k), 1, e) = SubSeq(text, 1, e)
          BY <1>2, <5>2, <5>3, BeginsAgain DEF l
        <5>6. SubSeq(SubSeq(text, 1, k + n), 1, e) = SubSeq(text, 1, e)
          BY <1>2, <1>6, <5>4, BeginsAgain DEF l
        <5>7. Len(SubSeq(text, 1, k + n)) = k + n
          BY <1>2, <1>6, BeginsAgain DEF l
        <5> QED
          BY <4>2, <5>1, <5>3, <5>4, <5>5, <5>6, <5>7 DEF Begins
      <4> QED
        BY <4>1, <4>2
    <3>3. pc[r] = "val_read" => fd[r] \in Inodes
      OBVIOUS
    <3> QED
      BY <1>1, <2>0, <3>1, <3>2, <3>3 DEF Same, HasRead, Begins
  <2>3. Alone(r)'
    <3>1. ASSUME pc[r] = "rec_write", fd[r] \notin mixed
          PROVE  data'[fd[r]] = data[fd[r]]
      BY <1>8, <1>9, <3>1
    <3>2. \A x \in Procs : pc'[x] = "rec_write" => pc[x] = "rec_write" /\ fd'[x] = fd[x]
      <4>1. pc'[p] = "rec_write" => pc[p] = "rec_write" /\ fd'[p] = fd[p]
        BY <1>3 DEF Leave
      <4> QED
        BY <1>10, <4>1 DEF Same
    <3> QED
      BY <1>1, <2>0, <3>1, <3>2 DEF Same, Alone
  <2> QED
    BY <2>1, <2>2, <2>3 DEF Knows
<1>15. Knows(p)' /\ Alone(p)'
  <2>1. CASE n = Len(buf[p])
    <3>1. pc'[p] = "idle" /\ fd'[p] = NoInode /\ buf'[p] = <<>>
      BY <1>3, <2>1 DEF Leave
    <3> QED
      BY <3>1 DEF Knows, Descriptor, OwnText, HasRead, Accepted, Alone
  <2>2. CASE n # Len(buf[p])
    <3>1. /\ buf'[p] = SubSeq(text, k + n + 1, l)
          /\ UNCHANGED <<pc, who, fd, clk, torn>>
      BY <1>3, <1>7, <2>2
    <3>2. OwnText(p)'
      BY <1>1, <1>6, <3>1 DEF OwnText, text, l
    <3>3. Len(buf'[p]) = l - (k + n) /\ l - (l - (k + n)) = k + n
      <4> DEFINE m == k + n
      <4>1. m \in 0..l
        BY <1>6
      <4> HIDE DEF m
      <4>2. Len(SubSeq(text, m + 1, l)) = l - m /\ l - (l - m) = m
        BY <1>2, <4>1, Part DEF l
      <4> QED
        BY <3>1, <4>2 DEF m
    <3>4. Alone(p)'
      BY <1>1, <1>8, <3>1, <3>3 DEF Alone, text, l
    <3>5. Descriptor(p)' /\ HasRead(p)' /\ Accepted(p)'
      BY <1>1, <3>1 DEF Descriptor, HasRead, Accepted
    <3> QED
      BY <3>2, <3>4, <3>5 DEF Knows
  <2> QED
    BY <2>1, <2>2
<1> QED
  BY <1>12, <1>13, <1>14, <1>15 DEF StampInv, Knows

(***************************************************************************)
(* The theorem                                                             *)
(***************************************************************************)

(* No file and no stamp at the start. *)
LEMMA InitStampInv == Init => StampInv
<1> SUFFICES ASSUME Init PROVE StampInv
  OBVIOUS
<1>1. \A i \in Inodes : \A q \in Pairs : ~Belongs(i, q)
  BY MiscAssumption DEF Init, Belongs, Names
<1>2. OnePair /\ Contents
  BY <1>1 DEF OnePair, Contents
<1>3. ASSUME NEW p \in Procs
      PROVE  Descriptor(p) /\ OwnText(p) /\ Alone(p) /\ HasRead(p) /\ Accepted(p)
  BY DEF Init, Descriptor, OwnText, Alone, HasRead, Accepted
<1> QED
  BY <1>2, <1>3 DEF StampInv

(* Every step of every interleaving keeps it. *)
LEMMA NextStampInv == TypeOK /\ StampInv /\ [Next]_vars => StampInv'
<1> SUFFICES ASSUME TypeOK, StampInv, [Next]_vars PROVE StampInv'
  OBVIOUS
<1>1. ASSUME NEW p \in Procs,
             \/ \E q \in Pairs : RecordBegin(p, q) \/ ValidBegin(p, q) \/ ClearBegin(p, q)
             \/ RecordOpen(p) \/ RecordWrite(p)
             \/ ValidOpen(p) \/ ValidSize(p) \/ ValidRead(p) \/ ValidJudge(p)
             \/ ClearRemove(p) \/ ClearSkip(p) \/ ClearEnd(p)
             \/ Abandon(p)
      PROVE  StampInv'
  BY <1>1, RecordBeginKnows, RecordOpenKnows, RecordWriteKnows, ValidOpenKnows, ValidReadKnows,
     ValidJudgeKnows, ClearKnows
<1>2. CASE Tick \/ UNCHANGED vars
  <2>1. UNCHANGED <<dir, data, pc, who, fd, clk, buf, minted, mixed, torn>>
    BY <1>2 DEF Tick, vars, process, history
  <2>2. OnePair' /\ Contents'
    BY <2>1 DEF StampInv, OnePair, Contents, Belongs, Stamp, Begins
  <2>3. \A p \in Procs : Descriptor(p)' /\ OwnText(p)' /\ Accepted(p)'
    BY <2>1 DEF StampInv, Descriptor, OwnText, Accepted
  <2>4. \A p \in Procs : Alone(p)'
    BY <2>1 DEF StampInv, Alone
  <2>5. \A p \in Procs : HasRead(p)'
    BY <2>1 DEF StampInv, HasRead, Stamp, Begins
  <2> QED
    BY <2>2, <2>3, <2>4, <2>5 DEF StampInv
<1> QED
  BY <1>1, <1>2 DEF Next

(* Whatever other processes record, check and clear in the meantime, and   *)
(* however the clock is stepped: valid() accepts only what record() was    *)
(* called for, at a second that is not in the future and at most TTL ago,  *)
(* unless two record() calls overlapped in the file or one overlapped the  *)
(* read.                                                                   *)
THEOREM AcceptedFresh == Spec => []AcceptedIsFresh
<1>1. Spec => []StampInv
  BY InitStampInv, NextStampInv, Typing, PTL DEF Spec
<1>2. StampInv => AcceptedIsFresh
  BY DEF StampInv, Accepted, AcceptedIsFresh
<1> QED
  BY <1>1, <1>2, PTL

(***************************************************************************)
(* TicketStore implements Tickets                                          *)
(***************************************************************************)

(* A process on its way to the file has called record() for its pair. *)
Recording == \A p \in Procs : pc[p] = "rec_open" => minted[who[p]] # {}

(* Only record() leads to rec_open, and it mints the second it read. *)
LEMMA NextRecording == TypeOK /\ Recording /\ [Next]_vars => Recording'
<1> SUFFICES ASSUME TypeOK, Recording, [Next]_vars PROVE Recording'
  OBVIOUS
<1> USE DEF Recording, TypeOK, ProcessOK, HistoryOK
<1>1. ASSUME NEW p \in Procs, NEW q \in Pairs, RecordBegin(p, q) PROVE Recording'
  <2>1. /\ pc' = [pc EXCEPT ![p] = "rec_open"] /\ who' = [who EXCEPT ![p] = q]
        /\ minted' = [minted EXCEPT ![q] = @ \cup {now}]
    BY <1>1 DEF RecordBegin, Goto
  <2>2. \A r \in Pairs : minted[r] # {} => minted'[r] # {}
    BY <2>1
  <2>3. minted'[q] # {}
    BY <2>1
  <2> QED BY <2>1, <2>2, <2>3
<1>2. ASSUME NEW p \in Procs, NEW l \in PC \ {"rec_open"}, pc' = [pc EXCEPT ![p] = l],
             \A r \in Procs \ {p} : who'[r] = who[r], UNCHANGED minted
      PROVE  Recording'
  BY <1>2
<1>3. ASSUME NEW p \in Procs, Leave(p), UNCHANGED minted PROVE Recording'
  BY <1>2, <1>3 DEF Leave, PC
<1>4. ASSUME UNCHANGED <<pc, who, minted>> PROVE Recording'
  BY <1>4
<1>5. ASSUME NEW p \in Procs, NEW q \in Pairs, ValidBegin(p, q) \/ ClearBegin(p, q)
      PROVE  Recording'
  BY <1>2, <1>5 DEF ValidBegin, ClearBegin, Goto, history, PC
<1>6. ASSUME NEW p \in Procs, RecordOpen(p) \/ ClearEnd(p) PROVE Recording'
  BY <1>2, <1>6 DEF RecordOpen, ClearEnd, Goto, PC
<1>7. ASSUME NEW p \in Procs, RecordWrite(p) PROVE Recording'
  BY <1>3, <1>4, <1>7 DEF RecordWrite
<1>8. ASSUME NEW p \in Procs, ValidOpen(p) \/ ValidSize(p) \/ ValidJudge(p) PROVE Recording'
  <2>1. CASE Leave(p)
    BY <1>3, <1>8, <2>1 DEF ValidOpen, ValidSize, ValidJudge
  <2>2. CASE ~Leave(p)
    BY <1>2, <1>8, <2>2 DEF ValidOpen, ValidSize, ValidJudge, Goto, PC
  <2> QED BY <2>1, <2>2
<1>9. ASSUME NEW p \in Procs, ValidRead(p) PROVE Recording'
  <2>1. CASE Leave(p)
    BY <1>3, <1>9, <2>1 DEF ValidRead
  <2>2. CASE ~Leave(p)
    <3>1. pc[p] = "val_read" /\ UNCHANGED <<who, minted>>
      BY <1>9, <2>2 DEF ValidRead
    <3>2. pc' = [pc EXCEPT ![p] = "val_judge"] \/ pc' = pc
      BY <1>9, <2>2 DEF ValidRead
    <3> QED BY <1>2, <1>4, <3>1, <3>2 DEF PC
  <2> QED BY <2>1, <2>2
<1>10. ASSUME NEW p \in Procs, ClearRemove(p) \/ ClearSkip(p) PROVE Recording'
  BY <1>4, <1>10 DEF ClearRemove, ClearSkip, history
<1>11. ASSUME NEW p \in Procs, Abandon(p) PROVE Recording'
  BY <1>3, <1>11 DEF Abandon
<1>12. CASE Tick
  BY <1>4, <1>12 DEF Tick, process, history
<1>13. CASE UNCHANGED vars
  BY <1>4, <1>13 DEF vars
<1> HIDE DEF Recording, TypeOK
<1> QED BY <1>1, <1>5, <1>6, <1>7, <1>8, <1>9, <1>10, <1>11, <1>12, <1>13 DEF Next

(* The pair a process holds in Tickets *)
Held(p) == IF pc[p] \in {"val_size", "val_read", "val_judge", "accepted"}
           THEN who[p] ELSE NoPair

(* A step that touches neither files nor records and moves one process is  *)
(* a Drop or nothing.                                                      *)
LEMMA DropOrStutter ==
    ASSUME TypeOK, NEW p \in Procs, UNCHANGED <<dir, minted>>,
           \A r \in Procs \ {p} : Held(r)' = Held(r),
           Held(p)' = Held(p) \/ Held(p)' = NoPair
    PROVE  Abstract!Drop(p) \/ UNCHANGED Abstract!vars
<1>1. CASE Held(p)' = Held(p)
  <2>1. \A r \in Procs : Held(r)' = Held(r)
    BY <1>1
  <2>2. UNCHANGED Abstract!vars
    BY <2>1 DEF Abstract!vars, Held
  <2> QED BY <2>2
<1>2. CASE Held(p)' = NoPair
  <2>1. [r \in Procs |-> Held(r)]' = [[r \in Procs |-> Held(r)] EXCEPT ![p] = NoPair]
    BY <1>2
  <2>2. Abstract!Drop(p)
    BY <2>1 DEF Abstract!Drop, Abstract!NoPair, NoPair, Held
  <2> QED BY <2>2
<1> QED BY <1>1, <1>2

(* Leaving the ticket store is a Drop or nothing. *)
LEMMA LeaveDrops ==
    ASSUME TypeOK, NEW p \in Procs, Leave(p), UNCHANGED <<dir, minted>>
    PROVE  Abstract!Drop(p) \/ UNCHANGED Abstract!vars
<1>1. /\ pc' = [pc EXCEPT ![p] = "idle"] /\ who' = [who EXCEPT ![p] = NoPair]
      /\ pc \in [Procs -> PC] /\ who \in [Procs -> Pairs \cup {NoPair}]
  BY DEF Leave, TypeOK, ProcessOK
<1>2. Held(p)' = NoPair
  BY <1>1 DEF Held
<1>3. \A r \in Procs \ {p} : Held(r)' = Held(r)
  BY <1>1 DEF Held
<1> QED BY <1>2, <1>3, DropOrStutter

(* Every system call is a step of Tickets or none. *)
LEMMA Simulation ==
    TypeOK /\ Recording /\ [Next]_vars => [Abstract!Next]_(Abstract!vars)
<1> SUFFICES ASSUME TypeOK, Recording, [Next]_vars
             PROVE  Abstract!Next \/ UNCHANGED Abstract!vars
  OBVIOUS
<1>0. /\ pc \in [Procs -> PC] /\ who \in [Procs -> Pairs \cup {NoPair}]
      /\ dir \in [Names -> Inodes \cup {NoInode}]
      /\ minted \in [Pairs -> SUBSET Time] /\ now \in Time
      /\ \A p \in Procs : pc[p] # "idle" => who[p] \in Pairs
  BY DEF TypeOK, ProcessOK, KernelOK, HistoryOK
<1>1. ASSUME NEW p \in Procs, Abstract!Drop(p) \/ UNCHANGED Abstract!vars
      PROVE  Abstract!Next \/ UNCHANGED Abstract!vars
  BY <1>1 DEF Abstract!Next
<1>2. ASSUME NEW p \in Procs, Leave(p), UNCHANGED <<dir, minted>>
      PROVE  Abstract!Next \/ UNCHANGED Abstract!vars
  BY <1>1, <1>2, LeaveDrops
<1>3. ASSUME NEW p \in Procs, UNCHANGED <<dir, minted>>, NEW l \in PC,
             pc' = [pc EXCEPT ![p] = l], \A r \in Procs \ {p} : who'[r] = who[r],
             \/ l \notin {"val_size", "val_read", "val_judge", "accepted"}
             \/ pc[p] \in {"val_size", "val_read", "val_judge"} /\ who'[p] = who[p]
      PROVE  Abstract!Next \/ UNCHANGED Abstract!vars
  <2>1. Held(p)' = Held(p) \/ Held(p)' = NoPair
    BY <1>0, <1>3 DEF Held
  <2>2. \A r \in Procs \ {p} : Held(r)' = Held(r)
    BY <1>0, <1>3 DEF Held
  <2> QED BY <1>1, <1>3, <2>1, <2>2, DropOrStutter
<1>4. ASSUME UNCHANGED <<pc, who, dir, minted>> PROVE UNCHANGED Abstract!vars
  BY <1>4 DEF Abstract!vars
<1>5. ASSUME NEW p \in Procs, NEW q \in Pairs, RecordBegin(p, q)
      PROVE  Abstract!Earn(q)
  <2>1. /\ pc[p] = "idle" /\ pc' = [pc EXCEPT ![p] = "rec_open"]
        /\ who' = [who EXCEPT ![p] = q] /\ dir' = dir
        /\ minted' = [minted EXCEPT ![q] = @ \cup {now}]
    BY <1>5 DEF RecordBegin, Goto
  <2>2. { r \in Pairs : minted'[r] # {} } = { r \in Pairs : minted[r] # {} } \cup {q}
    BY <1>0, <2>1
  <2>3. \A r \in Procs : Held(r)' = Held(r)
    BY <1>0, <2>1 DEF Held
  <2> QED BY <2>1, <2>2, <2>3 DEF Abstract!Earn, Held
<1>6. ASSUME NEW p \in Procs, RecordOpen(p) PROVE Abstract!Grant(who[p])
  <2>1. /\ pc[p] = "rec_open" /\ pc' = [pc EXCEPT ![p] = "rec_write"]
        /\ who' = who /\ minted' = minted /\ who[p] \in Pairs
    BY <1>0, <1>6 DEF RecordOpen, Goto
  <2>2. path_for(who[p]) \in Names
    BY <2>1 DEF Names
  <2>3. PICK i \in IF dir[path_for(who[p])] # NoInode
                   THEN {dir[path_for(who[p])]} ELSE FreeInodes :
          dir' = [dir EXCEPT ![path_for(who[p])] = i]
    BY <1>6 DEF RecordOpen
  <2>4. i # NoInode
    BY <2>3, MiscAssumption DEF FreeInodes
  <2>5. \A q \in Pairs : path_for(q) \in Names
    BY DEF Names
  <2>6. { q \in Pairs : dir'[path_for(q)] # NoInode }
          = { q \in Pairs : dir[path_for(q)] # NoInode } \cup {who[p]}
    <3>1. ASSUME NEW q \in Pairs
          PROVE  dir'[path_for(q)] # NoInode <=> dir[path_for(q)] # NoInode \/ q = who[p]
      <4>1. CASE q = who[p]
        BY <1>0, <2>2, <2>3, <2>4, <4>1
      <4>2. CASE q # who[p]
        <5>1. path_for(q) # path_for(who[p])
          BY <2>1, <4>2, PathInjective
        <5> QED BY <1>0, <2>3, <2>5, <4>2, <5>1
      <4> QED BY <4>1, <4>2
    <3> QED BY <2>1, <3>1
  <2>7. \A r \in Procs : Held(r)' = Held(r)
    BY <1>0, <2>1 DEF Held
  <2>8. minted[who[p]] # {}
    BY <2>1 DEF Recording
  <2> QED BY <2>1, <2>6, <2>7, <2>8 DEF Abstract!Grant, Held
<1>7. ASSUME NEW p \in Procs, ValidOpen(p)
      PROVE  Abstract!Find(p, who[p]) \/ (Leave(p) /\ UNCHANGED <<dir, minted>>)
  <2>1. CASE Leave(p)
    BY <1>7, <2>1 DEF ValidOpen, kernel
  <2>2. CASE ~Leave(p)
    <3>1. /\ pc[p] = "val_open" /\ pc' = [pc EXCEPT ![p] = "val_size"]
          /\ UNCHANGED <<who, dir, minted>> /\ who[p] \in Pairs
          /\ dir[path_for(who[p])] # NoInode
      BY <1>0, <1>7, <2>2 DEF ValidOpen, Goto, kernel
    <3>2. [r \in Procs |-> Held(r)]' = [[r \in Procs |-> Held(r)] EXCEPT ![p] = who[p]]
      BY <1>0, <3>1 DEF Held
    <3> QED BY <3>1, <3>2 DEF Abstract!Find, Held
  <2> QED BY <2>1, <2>2
<1>8. ASSUME NEW p \in Procs, ClearRemove(p) PROVE Abstract!Revoke(who[p][1])
  <2>1. PICK n \in Names : HasCallerPrefix(n, who[p][1]) /\ dir' = [dir EXCEPT ![n] = NoInode]
    BY <1>8 DEF ClearRemove
  <2>2. pc[p] = "clr_scan" /\ UNCHANGED <<pc, who, minted>> /\ who[p] \in Pairs
    BY <1>0, <1>8 DEF ClearRemove, history
  <2>3. PICK q \in Pairs : n = path_for(q)
    BY DEF Names
  <2>4. q[1] = who[p][1]
    BY <2>1, <2>2, <2>3, DashDelimits DEF Pairs
  <2>5. \A r \in Pairs : path_for(r) \in Names /\ (path_for(r) = n => r = q)
    BY <2>3, PathInjective DEF Names
  <2> DEFINE T == { r \in Pairs : dir[path_for(r)] # NoInode }
             S == { r \in T : r = q }
  <2>6. { r \in Pairs : dir'[path_for(r)] # NoInode } = T \ S
    BY <1>0, <2>1, <2>3, <2>5
  <2>7. S \in SUBSET { r \in T : r[1] = who[p][1] }
    BY <2>4
  <2> HIDE DEF S
  <2> QED BY <2>2, <2>6, <2>7 DEF Abstract!Revoke
<1>9. ASSUME NEW p \in Procs, NEW q \in Pairs,
             RecordBegin(p, q) \/ ValidBegin(p, q) \/ ClearBegin(p, q)
      PROVE  Abstract!Next \/ UNCHANGED Abstract!vars
  <2>1. CASE RecordBegin(p, q)
    BY <1>5, <2>1 DEF Abstract!Next, Abstract!Pairs, Pairs
  <2>2. CASE ValidBegin(p, q) \/ ClearBegin(p, q)
    BY <1>0, <1>3, <2>2 DEF ValidBegin, ClearBegin, Goto, kernel, history, PC
  <2> QED BY <1>9, <2>1, <2>2
<1>10. ASSUME NEW p \in Procs, RecordOpen(p) PROVE Abstract!Next
  <2>1. who[p] \in Pairs
    BY <1>0, <1>10 DEF RecordOpen
  <2> QED BY <1>6, <1>10, <2>1 DEF Abstract!Next, Abstract!Pairs, Pairs
<1>11. ASSUME NEW p \in Procs, RecordWrite(p)
       PROVE  Abstract!Next \/ UNCHANGED Abstract!vars
  <2>1. Leave(p) \/ UNCHANGED <<pc, who>>
    BY <1>11 DEF RecordWrite
  <2> QED BY <1>2, <1>4, <1>11, <2>1 DEF RecordWrite
<1>12. ASSUME NEW p \in Procs, ValidOpen(p)
       PROVE  Abstract!Next \/ UNCHANGED Abstract!vars
  <2>1. who[p] \in Pairs
    BY <1>0, <1>12 DEF ValidOpen
  <2>2. CASE Abstract!Find(p, who[p])
    <3>1. \E q \in Abstract!Pairs : Abstract!Find(p, q)
      BY <2>1, <2>2 DEF Abstract!Pairs, Pairs, Abstract!Find
    <3> QED BY <3>1, Zenon DEF Abstract!Next
  <2> QED BY <1>2, <1>7, <1>12, <2>2
<1>13. ASSUME NEW p \in Procs, ValidSize(p) \/ ValidRead(p) \/ ValidJudge(p)
       PROVE  Abstract!Next \/ UNCHANGED Abstract!vars
  <2>1. UNCHANGED <<dir, minted>>
    <3>1. CASE ValidSize(p)
      BY <3>1 DEF ValidSize, kernel
    <3>2. CASE ValidRead(p)
      BY <3>2 DEF ValidRead, kernel
    <3>3. CASE ValidJudge(p)
      BY <3>3 DEF ValidJudge, kernel
    <3> QED BY <1>13, <3>1, <3>2, <3>3
  <2>2. CASE Leave(p)
    BY <1>2, <2>1, <2>2
  <2>3. CASE ~Leave(p)
    <3>1. pc[p] \in {"val_size", "val_read", "val_judge"} /\ who' = who
      BY <1>13, <2>3 DEF ValidSize, ValidRead, ValidJudge
    <3>2. \E l \in PC : pc' = [pc EXCEPT ![p] = l]
      <4>1. CASE ValidSize(p)
        BY <2>3, <4>1 DEF ValidSize, Goto, PC
      <4>2. CASE ValidRead(p)
        BY <1>0, <2>3, <4>2 DEF ValidRead, PC
      <4>3. CASE ValidJudge(p)
        BY <2>3, <4>3 DEF ValidJudge, Goto, PC
      <4> QED BY <1>13, <4>1, <4>2, <4>3
    <3> QED BY <1>3, <2>1, <3>1, <3>2
  <2> QED BY <2>2, <2>3
<1>14. ASSUME NEW p \in Procs, ClearRemove(p) PROVE Abstract!Next
  <2>1. who[p][1] \in Callers
    BY <1>0, <1>14 DEF ClearRemove, Pairs
  <2> QED BY <1>8, <1>14, <2>1 DEF Abstract!Next
<1>15. ASSUME NEW p \in Procs, ClearSkip(p) PROVE UNCHANGED Abstract!vars
  BY <1>4, <1>15 DEF ClearSkip, kernel
<1>16. ASSUME NEW p \in Procs, ClearEnd(p)
       PROVE  Abstract!Next \/ UNCHANGED Abstract!vars
  BY <1>0, <1>3, <1>16 DEF ClearEnd, Goto, kernel, PC
<1>17. ASSUME NEW p \in Procs, Abandon(p)
       PROVE  Abstract!Next \/ UNCHANGED Abstract!vars
  BY <1>2, <1>17 DEF Abandon, kernel
<1>18. CASE Tick
  BY <1>4, <1>18 DEF Tick, process, history
<1>19. CASE UNCHANGED vars
  BY <1>4, <1>19 DEF vars
<1> QED BY <1>9, <1>10, <1>11, <1>12, <1>13, <1>14, <1>15, <1>16, <1>17, <1>18, <1>19 DEF Next

(* The files implement the set of tickets: only a pair that record() was   *)
(* called for gets one, only its caller's -k takes it away, and valid()    *)
(* reads no other pair's file, for every number of processes and every set *)
(* of uids.                                                                *)
THEOREM Refinement == Spec => ImplementsTickets
<1>1. Init => Abstract!Init /\ Recording
  <2> SUFFICES ASSUME Init PROVE Abstract!Init /\ Recording
    OBVIOUS
  <2>1. \A q \in Pairs : path_for(q) \in Names
    BY DEF Names
  <2>2. { q \in Pairs : minted[q] # {} } = {} /\ { q \in Pairs : dir[path_for(q)] # NoInode } = {}
    BY <2>1 DEF Init
  <2>3. Recording
    BY DEF Init, Recording
  <2> QED BY <2>2, <2>3 DEF Init, Abstract!Init, Abstract!NoPair, NoPair
<1>2. Spec => []Recording
  BY <1>1, NextRecording, Typing, PTL DEF Spec
<1> QED BY <1>1, <1>2, Simulation, Typing, PTL DEF Spec, ImplementsTickets, Abstract!Spec
====
