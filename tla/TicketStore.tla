---------------------------- MODULE TicketStore ----------------------------
(***************************************************************************)
(* The persisted authentication tickets of Voix (ticket_store.cpp, with    *)
(* read_file_secure, write_file_secure and ensure_private_directory of     *)
(* file_utils.cpp).                                                        *)
(*                                                                         *)
(* A ticket is a file <sanctuary>/timestamp/<caller uid>-<target uid> that *)
(* holds the decimal text of the second at which the caller's credential   *)
(* was verified.  Every voix process opens, truncates, writes, reads and   *)
(* unlinks these files with plain system calls and no lock, so the module  *)
(* keeps what the kernel keeps: directory entries, inodes that outlive     *)
(* their name while a descriptor is open, file offsets, and a clock that   *)
(* an administrator or NTP may step either way.  One action is one system  *)
(* call (or one step of a loop of them); a process may be killed, or have  *)
(* its call fail, between any two.                                         *)
(***************************************************************************)
EXTENDS Integers, Sequences, SequencesExt

CONSTANTS
    Procs,          \* process slots: each runs one voix invocation at a time
    Callers,        \* real uids that may invoke voix
    Targets,        \* uids of target accounts
    Inodes,         \* inodes of the timestamp directory's file system
    NoInode,        \* a name without a directory entry, a closed descriptor
    Time,           \* the seconds the system clock may show
    TTL,            \* ticket lifetime (15 minutes in the code)
    to_string(_),   \* std::to_string
    strtoull(_)     \* std::strtoull: the value of the leading digits

Digit == 0..9
Dash  == 10
Nul   == 11         \* what a read returns for a hole in the file
Char  == 0..11

(***************************************************************************)
(* What the proofs need to know about the two library conversions: decimal *)
(* digits only, different uids have different texts, and parsing inverts   *)
(* printing.                                                               *)
(***************************************************************************)
ASSUME TextAssumption ==
    /\ Callers \subseteq Nat /\ Targets \subseteq Nat /\ Time \subseteq Nat
    /\ \A n \in Callers \cup Targets \cup Time :
          to_string(n) \in Seq(Digit) /\ to_string(n) # <<>>
    /\ \A m, n \in Callers \cup Targets : to_string(m) = to_string(n) => m = n
    /\ \A t \in Time : strtoull(to_string(t)) = t

(***************************************************************************)
(* A stamp that lost its last digits is at most a tenth of the real one.   *)
(* The assumption says that such a value is never a recent second, which   *)
(* for ten-digit epochs and a lifetime of 900 seconds holds from 2004 on.  *)
(***************************************************************************)
ASSUME TornAssumption ==
    \A t \in Time : \A k \in 1..(Len(to_string(t)) - 1) : \A n \in Time :
        LET v == strtoull(SubSeq(to_string(t), 1, k)) IN
        /\ v \in Nat
        /\ ~(v <= n /\ n - v <= TTL)

ASSUME MiscAssumption == NoInode \notin Inodes /\ TTL \in Nat

Pairs  == Callers \X Targets
NoPair == <<>>

VARIABLES
    now,        \* system_clock, in seconds
    dir,        \* directory entries: file name -> inode
    data,       \* inode -> characters of the file
    pc,         \* where each process is
    who,        \* its (caller uid, target uid)
    fd,         \* the inode behind its open descriptor
    clk,        \* the clock reading it uses
    buf,        \* record: characters still to write; valid: characters read
    size,       \* valid: the size lseek() reported
    todo        \* clear: names the directory iterator must still return

(* History, read by the properties only *)
VARIABLES
    minted,     \* pair -> seconds at which record() was called for it
    mixed,      \* inodes with bytes of two overlapping record() calls
    torn,       \* processes whose file was truncated in the middle of a read
    reopened,   \* pairs recorded again since the process's clear began
    skipped,    \* pairs the process's clear failed to unlink
    revoked     \* pairs revoked by a finished clear and not recorded since

kernel  == <<now, dir, data>>
process == <<pc, who, fd, clk, buf, size, todo>>
history == <<minted, mixed, torn, reopened, skipped, revoked>>
vars    == <<now, dir, data, pc, who, fd, clk, buf, size, todo,
             minted, mixed, torn, reopened, skipped, revoked>>

(* Mutated form: the caller is left out of the file name. *)
PathByTarget(q) == to_string(q[2])
path_for(q) == to_string(q[1]) \o <<Dash>> \o to_string(q[2])
Names       == { path_for(q) : q \in Pairs }

(* The file names -k removes: those that start with "<caller uid>-". *)
(* Mutated forms: the separator is forgotten; the uid is compared with the *)
(* target's half of the name.                                              *)
BareUidPrefix(name, c) == IsPrefix(to_string(c), name)
TargetHalf(name, c) == IsSuffix(<<Dash>> \o to_string(c), name)
HasCallerPrefix(name, c) == IsPrefix(to_string(c) \o <<Dash>>, name)

PC == {"idle", "rec_open", "rec_write", "val_open", "val_size", "val_read",
       "val_judge", "accepted", "clr_scan", "cleared"}

KernelOK ==
    /\ now \in Time
    /\ dir \in [Names -> Inodes \cup {NoInode}]
    /\ data \in [Inodes -> Seq(Char)]

ProcessOK ==
    /\ pc \in [Procs -> PC]
    /\ who \in [Procs -> Pairs \cup {NoPair}]
    /\ \A p \in Procs : pc[p] # "idle" => who[p] \in Pairs
    /\ fd \in [Procs -> Inodes \cup {NoInode}]
    /\ clk \in [Procs -> Nat]
    /\ buf \in [Procs -> Seq(Char)]
    /\ size \in [Procs -> Nat]
    /\ todo \in [Procs -> SUBSET Names]

HistoryOK ==
    /\ minted \in [Pairs -> SUBSET Time]
    /\ mixed \subseteq Inodes
    /\ torn \subseteq Procs
    /\ reopened \in [Procs -> SUBSET Pairs]
    /\ skipped \in [Procs -> SUBSET Pairs]
    /\ revoked \subseteq Pairs

(* Descriptors are open where they are used, and a stamp being written is  *)
(* a second of the clock.                                                  *)
TypeOK ==
    /\ KernelOK /\ ProcessOK /\ HistoryOK
    /\ \A p \in Procs :
         /\ pc[p] \in {"rec_write", "val_size", "val_read", "val_judge"} => fd[p] \in Inodes
         /\ pc[p] \in {"rec_open", "rec_write"} => clk[p] \in Time

Init ==
    /\ now \in Time
    /\ dir = [n \in Names |-> NoInode]
    /\ data = [i \in Inodes |-> <<>>]
    /\ pc = [p \in Procs |-> "idle"]
    /\ who = [p \in Procs |-> NoPair]
    /\ fd = [p \in Procs |-> NoInode]
    /\ clk = [p \in Procs |-> 0]
    /\ buf = [p \in Procs |-> <<>>]
    /\ size = [p \in Procs |-> 0]
    /\ todo = [p \in Procs |-> {}]
    /\ minted = [q \in Pairs |-> {}]
    /\ mixed = {}
    /\ torn = {}
    /\ reopened = [p \in Procs |-> {}]
    /\ skipped = [p \in Procs |-> {}]
    /\ revoked = {}

(***************************************************************************)
(* Steps shared by the operations                                          *)
(***************************************************************************)

(* Mutated form: the operation gives up but the process carries on in it.  *)
LeaveInPlace(p) ==
    /\ who' = [who EXCEPT ![p] = NoPair]
    /\ fd' = [fd EXCEPT ![p] = NoInode]
    /\ UNCHANGED <<pc, clk, buf, size, todo, torn, reopened, skipped>>
(* The process leaves the ticket store: descriptors are closed. *)
Leave(p) ==
    /\ pc' = [pc EXCEPT ![p] = "idle"]
    /\ who' = [who EXCEPT ![p] = NoPair]
    /\ fd' = [fd EXCEPT ![p] = NoInode]
    /\ clk' = [clk EXCEPT ![p] = 0]
    /\ buf' = [buf EXCEPT ![p] = <<>>]
    /\ size' = [size EXCEPT ![p] = 0]
    /\ todo' = [todo EXCEPT ![p] = {}]
    /\ torn' = torn \ {p}
    /\ reopened' = [reopened EXCEPT ![p] = {}]
    /\ skipped' = [skipped EXCEPT ![p] = {}]

Goto(p, l) == pc' = [pc EXCEPT ![p] = l]

(* An inode nobody refers to, for O_CREAT. *)
FreeInodes == { i \in Inodes : /\ \A n \in Names : dir[n] # i
                               /\ \A p \in Procs : fd[p] # i }

(* write(2) of s at offset off: the gap past the end reads as NUL. *)
Overwrite(old, off, s) ==
    [ k \in 1..(IF off + Len(s) > Len(old) THEN off + Len(s) ELSE Len(old)) |->
        IF k > off /\ k <= off + Len(s) THEN s[k - off]
        ELSE IF k <= Len(old) THEN old[k] ELSE Nul ]

(***************************************************************************)
(* record(): ensure_private_directory, read the clock, open with O_CREAT   *)
(* and O_TRUNC, write until every character is out.                        *)
(***************************************************************************)
RecordBegin(p, q) ==
    /\ pc[p] = "idle"
    /\ Goto(p, "rec_open")
    /\ who' = [who EXCEPT ![p] = q]
    /\ clk' = [clk EXCEPT ![p] = now]
    /\ buf' = [buf EXCEPT ![p] = to_string(now)]
    /\ minted' = [minted EXCEPT ![q] = @ \cup {now}]
    /\ UNCHANGED <<now, dir, data, fd, size, todo, mixed, torn, reopened, skipped, revoked>>

(* Processes with inode i open in one of the given places. *)
Holders(i, places) == { r \in Procs : fd[r] = i /\ pc[r] \in places }

RecordOpen(p) ==
    /\ pc[p] = "rec_open"
    /\ \E i \in IF dir[path_for(who[p])] # NoInode
                THEN {dir[path_for(who[p])]} ELSE FreeInodes :
         /\ dir' = [dir EXCEPT ![path_for(who[p])] = i]
         /\ data' = [data EXCEPT ![i] = <<>>]
         /\ fd' = [fd EXCEPT ![p] = i]
         /\ mixed' = IF Holders(i, {"rec_write"}) = {}
                     THEN mixed \ {i} ELSE mixed \cup {i}
         /\ torn' = torn \cup { r \in Holders(i, {"val_read"}) : buf[r] # <<>> }
    /\ Goto(p, "rec_write")
    /\ revoked' = revoked \ {who[p]}
    /\ reopened' = [r \in Procs |-> IF pc[r] \in {"clr_scan", "cleared"}
                                    THEN reopened[r] \cup {who[p]} ELSE reopened[r]]
    /\ UNCHANGED <<now, who, clk, buf, size, todo, minted, skipped>>

RecordWrite(p) ==
    /\ pc[p] = "rec_write"
    /\ \E n \in 1..Len(buf[p]) :
         LET off == Len(to_string(clk[p])) - Len(buf[p]) IN
         /\ data' = [data EXCEPT ![fd[p]] = Overwrite(@, off, SubSeq(buf[p], 1, n))]
         /\ IF n = Len(buf[p])
            THEN Leave(p)
            ELSE /\ buf' = [buf EXCEPT ![p] = SubSeq(@, n + 1, Len(@))]
                 /\ UNCHANGED <<pc, who, fd, clk, size, todo, torn, reopened, skipped>>
    /\ UNCHANGED <<now, dir, minted, mixed, revoked>>

(***************************************************************************)
(* valid(): open, fstat and lseek for the size, read until size characters *)
(* or end of file, parse, compare with the clock.  A missing, empty, short *)
(* or unparsable file is refused.                                          *)
(***************************************************************************)
ValidBegin(p, q) ==
    /\ pc[p] = "idle"
    /\ Goto(p, "val_open")
    /\ who' = [who EXCEPT ![p] = q]
    /\ UNCHANGED <<kernel, fd, clk, buf, size, todo, history>>

ValidOpen(p) ==
    /\ pc[p] = "val_open"
    /\ \/ /\ dir[path_for(who[p])] = NoInode
          /\ Leave(p)
       \/ /\ dir[path_for(who[p])] # NoInode
          /\ fd' = [fd EXCEPT ![p] = dir[path_for(who[p])]]
          /\ Goto(p, "val_size")
          /\ UNCHANGED <<who, clk, buf, size, todo, torn, reopened, skipped>>
    /\ UNCHANGED <<kernel, minted, mixed, revoked>>

ValidSize(p) ==
    /\ pc[p] = "val_size"
    /\ \/ /\ data[fd[p]] = <<>>
          /\ Leave(p)
       \/ /\ data[fd[p]] # <<>>
          /\ size' = [size EXCEPT ![p] = Len(data[fd[p]])]
          /\ Goto(p, "val_read")
          /\ UNCHANGED <<who, fd, clk, buf, todo, torn, reopened, skipped>>
    /\ UNCHANGED <<kernel, minted, mixed, revoked>>

(* One read(2) gives what lies between the offset and the smaller of the   *)
(* reported size and the present end of file.  At end of file the loop     *)
(* stops and the size check refuses the ticket.                            *)
Available(p) == SubSeq(data[fd[p]], Len(buf[p]) + 1,
                       IF size[p] < Len(data[fd[p]]) THEN size[p] ELSE Len(data[fd[p]]))
ValidRead(p) ==
    /\ pc[p] = "val_read"
    /\ \/ /\ Available(p) = <<>>
          /\ Leave(p)
       \/ /\ Available(p) # <<>>
          /\ buf' = [buf EXCEPT ![p] = @ \o Available(p)]
          /\ pc' = [pc EXCEPT ![p] = IF Len(buf'[p]) = size[p] THEN "val_judge" ELSE @]
          /\ torn' = IF fd[p] \in mixed THEN torn \cup {p} ELSE torn
          /\ UNCHANGED <<who, fd, clk, size, todo, reopened, skipped>>
    /\ UNCHANGED <<kernel, minted, mixed, revoked>>

(* Mutated form: a stamp from the future passes, its negative age being    *)
(* less than the lifetime.                                                 *)
YoungEnough(written, t) == t - written <= TTL
Fresh(written, t) == written <= t /\ t - written <= TTL

ValidJudge(p) ==
    /\ pc[p] = "val_judge"
    /\ \/ /\ buf[p][1] \in Digit
          /\ Fresh(strtoull(buf[p]), now)
          /\ Goto(p, "accepted")
          /\ clk' = [clk EXCEPT ![p] = now]
          /\ fd' = [fd EXCEPT ![p] = NoInode]
          /\ UNCHANGED <<who, buf, size, todo, torn, reopened, skipped>>
       \/ /\ \/ buf[p][1] \notin Digit
             \/ ~Fresh(strtoull(buf[p]), now)
          /\ Leave(p)
    /\ UNCHANGED <<kernel, minted, mixed, revoked>>

(***************************************************************************)
(* clear_all_for_caller(): iterate over the directory and unlink every     *)
(* name with the caller's prefix.  Entries present for the whole iteration *)
(* are returned; an entry added meanwhile may or may not be.  An unlink    *)
(* that fails, and an iterator that stops with an error, are ignored.      *)
(***************************************************************************)
ClearBegin(p, q) ==
    /\ pc[p] = "idle"
    /\ Goto(p, "clr_scan")
    /\ who' = [who EXCEPT ![p] = q]
    /\ todo' = [todo EXCEPT ![p] = { n \in Names : dir[n] # NoInode
                                                   /\ HasCallerPrefix(n, q[1]) }]
    /\ UNCHANGED <<kernel, fd, clk, buf, size, history>>

ClearRemove(p) ==
    /\ pc[p] = "clr_scan"
    /\ \E n \in Names :
         /\ n \in todo[p] \/ dir[n] # NoInode
         /\ HasCallerPrefix(n, who[p][1])
         /\ dir' = [dir EXCEPT ![n] = NoInode]
         /\ todo' = [todo EXCEPT ![p] = @ \ {n}]
    /\ UNCHANGED <<now, data, pc, who, fd, clk, buf, size, history>>

ClearSkip(p) ==
    /\ pc[p] = "clr_scan"
    /\ \E q \in Pairs :
         /\ path_for(q) \in todo[p]
         /\ todo' = [todo EXCEPT ![p] = @ \ {path_for(q)}]
         /\ skipped' = [skipped EXCEPT ![p] = @ \cup {q}]
    /\ UNCHANGED <<kernel, pc, who, fd, clk, buf, size,
                   minted, mixed, torn, reopened, revoked>>

(* The loop ends and "Cleared persisted authentication timestamps" is logged. *)
ClearEnd(p) ==
    /\ pc[p] = "clr_scan"
    /\ todo[p] = {}
    /\ Goto(p, "cleared")
    /\ revoked' = revoked \cup
         { q \in Pairs : q[1] = who[p][1] /\ q \notin reopened[p] \cup skipped[p] }
    /\ UNCHANGED <<kernel, who, fd, clk, buf, size, todo,
                   minted, mixed, torn, reopened, skipped>>

(***************************************************************************)
(* The result is used and the process goes on, a system call fails and the *)
(* operation gives up, or the process is killed: all close the descriptor  *)
(* and leave the file as it is.                                            *)
(***************************************************************************)
Abandon(p) ==
    /\ pc[p] # "idle"
    /\ Leave(p)
    /\ UNCHANGED <<kernel, minted, mixed, revoked>>

Tick ==
    /\ \E t \in Time \ {now} : now' = t
    /\ UNCHANGED <<dir, data, process, history>>

Next ==
    \/ Tick
    \/ \E p \in Procs :
         \/ \E q \in Pairs : RecordBegin(p, q) \/ ValidBegin(p, q) \/ ClearBegin(p, q)
         \/ RecordOpen(p) \/ RecordWrite(p)
         \/ ValidOpen(p) \/ ValidSize(p) \/ ValidRead(p) \/ ValidJudge(p)
         \/ ClearRemove(p) \/ ClearSkip(p) \/ ClearEnd(p)
         \/ Abandon(p)

Spec == Init /\ [][Next]_vars

(***************************************************************************)
(* Properties                                                              *)
(***************************************************************************)

(* valid() answers yes only if record() was called for exactly this caller *)
(* and target at a second that is not in the future and at most TTL ago:   *)
(* a torn, truncated, stale, clock-skewed or foreign file is never taken   *)
(* for a ticket.  The one exception is a file that two record() calls for  *)
(* the same pair wrote at the same time, or that one rewrote between two   *)
(* reads: record() rewrites the file in place, so its bytes may then come  *)
(* from two stamps.                                                        *)
AcceptedIsFresh ==
    \A p \in Procs : pc[p] = "accepted" /\ p \notin torn =>
        \E s \in minted[who[p]] : s <= clk[p] /\ clk[p] - s <= TTL

(* After a clear for a caller has finished, none of the caller's names is  *)
(* in the directory until record() is called again, whatever lookups,      *)
(* records and clears ran at the same time; so a later valid() says no.    *)
RevokedIsGone == \A q \in revoked : dir[path_for(q)] = NoInode

(* A ticket disappears only because its own caller asked for it: the clear *)
(* for uid 1 leaves the files of uid 10 alone.                             *)
OnlyOwnTicketsRemoved ==
    [][\A q \in Pairs :
          dir[path_for(q)] # NoInode /\ dir'[path_for(q)] = NoInode =>
          \E p \in Procs : pc[p] = "clr_scan" /\ who[p][1] = q[1]]_vars

(* TicketStore implements Tickets.  A pair has a ticket while its name is  *)
(* in the directory, whatever the file holds, and a process found it from  *)
(* the moment it has the file open: the single system calls of record(),   *)
(* valid() and the clear are each a step of that set, or none, and no file *)
(* name stands for two pairs.                                              *)
Abstract == INSTANCE Tickets WITH
    Clients <- Procs,
    earned  <- { q \in Pairs : minted[q] # {} },
    tickets <- { q \in Pairs : dir[path_for(q)] # NoInode },
    holds   <- [p \in Procs |->
                  IF pc[p] \in {"val_size", "val_read", "val_judge", "accepted"}
                  THEN who[p] ELSE NoPair]
ImplementsTickets == Abstract!Spec

(* What -k promises ("removes all of the invoking user's tickets"): when   *)
(* it reports success, only a ticket recorded meanwhile can exist.         *)
ClearedMeansGone ==
    \A p \in Procs : pc[p] = "cleared" =>
        \A q \in Pairs : q[1] = who[p][1] /\ q \notin reopened[p] =>
            dir[path_for(q)] = NoInode
====
