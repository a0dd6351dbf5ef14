----------------------------- MODULE VoixProofs -----------------------------
(***************************************************************************)
(* Proofs about Voix, for every number of invocations, every policy and    *)
(* every set of accounts.  Every step that moves an invocation replaces    *)
(* one record, so the argument is about records: Sound(i) says what has    *)
(* been established when an invocation is at each place, and one lemma per *)
(* action shows that the record it produces is again Sound.                *)
(***************************************************************************)
EXTENDS Voix, TLAPS

(***************************************************************************)
(* The inductive invariant                                                 *)
(***************************************************************************)

(* The places reached only after the check named in the operator. *)
PastTargetAcct == {"record", "setcred", "open"} \cup Guarded \cup Masked
PastCallerAcct == {"target_acct"} \cup PastTargetAcct
PastCredential == {"caller_acct"} \cup PastCallerAcct
PastLookup     == {"pam_start", "prompt"} \cup PastCredential
PastPermit     == {"lookup"} \cup PastLookup
PastGate       == {"target", "permit"} \cup PastPermit
PastResolve    == {"gate"} \cup PastGate

(* What main() established before execute() runs: there is a command, and  *)
(* the entry point is "run". *)
Parsed(i) ==
    /\ i.pc \in {"load", "clear"} => i.req.cmd # NoCmd \/ i.req.op # "run" \/ i.req.k
    /\ i.pc = "clear" => i.req.op # "check"
    /\ i.pc \in {"resolve"} \cup PastResolve => i.req.cmd \in Commands

Checked(i) ==
    /\ i.pc \in PastResolve => "resolve" \in i.passed
    /\ i.pc \in PastGate => "gate" \in i.passed /\ i.req.cmd \notin Catastrophic
    /\ i.pc = "permit" => i.polUid \in Uids
    /\ i.pc \in PastPermit => /\ "permit" \in i.passed
                              /\ i.rule # NoRule
                              /\ i.rule = Policy[<<i.req.cmd, i.polUid>>]
    /\ i.pc \in PastCallerAcct => "caller_acct" \in i.passed
    /\ i.pc \in PastTargetAcct => "target_acct" \in i.passed

(* What the credential mode stands for; pairs is the set proved. *)
Trusted(i, pairs) ==
    /\ i.pc \in PastLookup =>
         /\ i.tickUid \in Uids
         /\ \/ i.mode = "SkipTrusted" /\ (i.rule.nopass \/ i.req.caller = Root)
            \/ i.mode = "UseTicket" /\ i.rule.persist /\ "ticket" \in i.passed
            \/ i.mode = "RequireInteractive" /\ ~i.req.n
    /\ i.pc \in {"prompt", "record"} => i.mode = "RequireInteractive"
    /\ i.pc \in PastCredential /\ i.mode = "RequireInteractive" =>
         "verified" \in i.passed /\ TicketOf(i) \in pairs

(* -n and the order of ticket and prompt. *)
Asked(i) ==
    /\ i.req.n => "prompted" \notin i.passed
    /\ i.pc \notin PastLookup \cup {"close", "leave", "exited", "killed"} =>
         i.mode = "none" /\ "ticket" \notin i.passed
    /\ i.mode = "RejectNonInteractive" => "ticket" \notin i.passed

(* The PAM session spans the child. *)
Bracketed(i) ==
    /\ i.pc \in Guarded \cup Masked \cup {"close"} => i.sess
    /\ i.pc \in {"idle", "leave", "exited"} \cup BeforeSession => ~i.sess
    /\ i.pc = "exited" => ~i.pamh
    /\ i.child # "none" => i.pc \in {"wait", "report", "close", "leave", "exited", "killed"}
    /\ i.child \in {"setup", "running"} => i.pc = "wait"
    /\ i.child # "none" => Authorised(i)

(* A result is on record before main() returns. *)
Recorded(i) ==
    /\ /\ i.pc \in {"leave", "exited"} /\ i.code \notin {"software", "config"}
       /\ i.req.op = "run" /\ i.req.cmd # NoCmd
       => i.audit \cap Outcomes # {}
    /\ /\ i.pc = "close" \/ (i.pc \in {"leave", "exited"} /\ i.child # "none")
       /\ i.code \notin {"software", "config"}
       => i.audit \cap {"command.executed", "command.withheld"} # {}

(* Where established credentials may be, and what an exit status stands    *)
(* for once Command::execute returned.                                     *)
Ended(i) ==
    /\ i.cred => \/ i.pc \in {"open", "close", "killed"} \cup Guarded \cup Masked
                 \/ /\ i.pc \in {"leave", "exited"} /\ i.child = "none"
                    /\ "session.open-failed" \in i.audit \/ i.code = "software"
    /\ i.pc \in {"report", "close", "leave", "exited"} =>
         /\ i.code \in CommandStatus => i.child = i.code
         /\ i.child # "none" => i.code \in {i.child, "software"}

Sound(i, pairs) ==
    /\ Parsed(i) /\ Checked(i) /\ Trusted(i, pairs)
    /\ Asked(i) /\ Bracketed(i) /\ Recorded(i) /\ Ended(i)

IInv == TypeOK /\ TicketsAreProved /\ \A p \in Procs : Sound(inv[p], proved)

(* A record of the right type about which everything above holds. *)
Ok(i, pairs) == i \in Invocation /\ Sound(i, pairs)

(***************************************************************************)
(* Types                                                                   *)
(***************************************************************************)

(* The names used by the actions belong to their sets. *)
LEMMA Vocabulary ==
    /\ {"idle", "close", "leave", "exited", "killed"} \cup BeforeSession
         \cup Guarded \cup Masked \subseteq PC
    /\ {"none", "success", "failure", "usage", "software", "not-permitted",
        "config", "no-exec", "not-found"} \subseteq Codes
    /\ CommandStatus \cup SetupStatus \subseteq Codes
    /\ Outcomes \cup {"command.requested", "auth.ok", "auth.account-failed"} \subseteq AuditCodes
BY DEF PC, Codes, AuditCodes, Outcomes, SetupStatus

(* Every way an action changes a record keeps its type. *)
LEMMA Fields ==
    ASSUME NEW i \in Invocation
    PROVE  /\ \A l \in PC : Goto(i, l) \in Invocation
           /\ \A l \in PC, c \in Checks : Pass(i, l, c) \in Invocation
           /\ \A S \in SUBSET AuditCodes : Emit(i, S) \in Invocation
           /\ \A b \in BOOLEAN : Named(i, b) \in Invocation
           /\ \A c \in Codes : Return(i, c) \in Invocation
           /\ \A c \in Codes : Result(i, c) \in Invocation
           /\ Die(i) \in Invocation
           /\ \A c \in Codes : Unmask(i, c) \in Invocation
           /\ \A S \in SUBSET AuditCodes : AuthFailed(i, S) \in Invocation
           /\ SessionFailed(i) \in Invocation
<1> USE DEF Invocation
<1>1. ASSUME NEW l \in PC PROVE Goto(i, l) \in Invocation
  BY DEF Goto
<1>2. ASSUME NEW l \in PC, NEW c \in Checks PROVE Pass(i, l, c) \in Invocation
  BY DEF Pass
<1>3. ASSUME NEW S \in SUBSET AuditCodes PROVE Emit(i, S) \in Invocation
  BY DEF Emit
<1>4. ASSUME NEW b \in BOOLEAN PROVE Named(i, b) \in Invocation
  BY DEF Named
<1>5. ASSUME NEW c \in Codes PROVE Return(i, c) \in Invocation
  BY Vocabulary DEF Return
<1>6. ASSUME NEW c \in Codes PROVE Result(i, c) \in Invocation
  BY Vocabulary DEF Result, Guarded
<1>7. Die(i) \in Invocation
  BY Vocabulary DEF Die
<1>8. ASSUME NEW c \in Codes PROVE Unmask(i, c) \in Invocation
  BY <1>6, <1>7 DEF Unmask
<1>9. ASSUME NEW S \in SUBSET AuditCodes PROVE AuthFailed(i, S) \in Invocation
  BY Vocabulary DEF AuthFailed, Emit, Return, Outcomes
<1>10. SessionFailed(i) \in Invocation
  BY Vocabulary DEF SessionFailed, Emit, Return, Outcomes
<1> QED BY <1>1, <1>2, <1>3, <1>4, <1>5, <1>6, <1>7, <1>8, <1>9, <1>10

(***************************************************************************)
(* What each kind of step does to a Sound record                           *)
(***************************************************************************)

(* Giving up before the session is open: execute() returned a result that  *)
(* is on record, or an exception is on its way to main().                  *)
LEMMA LeaveSound ==
    ASSUME NEW i \in Invocation, NEW j \in Invocation, NEW pairs, Sound(i, pairs),
           i.pc \in {"idle"} \cup BeforeSession,
           j.pc = "leave", j.req = i.req, j.child = i.child, j.sess = i.sess,
           j.cred = i.cred, j.code \notin CommandStatus,
           i.pc = "open" => "session.open-failed" \in j.audit \/ j.code = "software",
           j.req.n => "prompted" \notin j.passed,
           j.mode = "RejectNonInteractive" => "ticket" \notin j.passed,
           \/ j.code \in {"software", "config"}
           \/ j.req.op # "run" \/ j.req.cmd = NoCmd
           \/ j.audit \cap Outcomes # {}
    PROVE  Sound(j, pairs)
<1> USE DEF PastTargetAcct, PastCallerAcct, PastCredential, PastLookup, PastPermit,
            PastGate, PastResolve, Guarded, Masked, BeforeSession
<1>1. i.child = "none"
  BY DEF Sound, Bracketed
<1>2. ~i.sess
  BY DEF Sound, Bracketed
<1>3. Parsed(j) /\ Checked(j) /\ Trusted(j, pairs)
  BY DEF Parsed, Checked, Trusted
<1>4. Asked(j)
  BY DEF Asked
<1>5. Bracketed(j)
  BY <1>1, <1>2 DEF Bracketed
<1>6. Recorded(j)
  BY <1>1 DEF Recorded
<1>7. Ended(j)
  BY <1>1 DEF Sound, Ended
<1> QED BY <1>3, <1>4, <1>5, <1>6, <1>7 DEF Sound

(* Death by a signal, whatever was open. *)
LEMMA DieSound ==
    ASSUME NEW i \in Invocation, NEW pairs, Sound(i, pairs),
           i.child \notin {"setup", "running"}
    PROVE  Sound(Die(i), pairs)
<1> USE DEF PastTargetAcct, PastCallerAcct, PastCredential, PastLookup, PastPermit,
            PastGate, PastResolve, Guarded, Masked, BeforeSession, Invocation, Die
<1>1. Parsed(Die(i)) /\ Checked(Die(i)) /\ Trusted(Die(i), pairs)
  BY DEF Parsed, Checked, Trusted
<1>2. Asked(Die(i)) /\ Recorded(Die(i)) /\ Ended(Die(i))
  BY DEF Sound, Asked, Recorded, Ended
<1>3. Bracketed(Die(i))
  BY DEF Sound, Bracketed, Authorised
<1> QED BY <1>1, <1>2, <1>3 DEF Sound

(* main() and the decision of the policy *)
LEMMA DecisionSound ==
    ASSUME NEW i \in Invocation, NEW pairs, Sound(i, pairs)
    PROVE  /\ i.pc = "idle" /\ (i.req.cmd # NoCmd \/ i.req.op # "run" \/ i.req.k)
                => Sound(Goto(i, "load"), pairs)
           /\ i.pc = "load" /\ i.req.op # "check" => Sound(Goto(i, "clear"), pairs)
           /\ i.pc = "clear" /\ ~((i.req.k /\ i.req.cmd = NoCmd) \/ i.req.op = "list")
                => Sound(Goto(i, "resolve"), pairs)
           /\ i.pc = "resolve" => Sound(Pass(i, "gate", "resolve"), pairs)
           /\ i.pc = "gate" /\ ~isCatastrophicCommand(i)
                => Sound(Pass(i, "target", "gate"), pairs)
           /\ i.pc = "target" => \A u \in Uids :
                 Sound([Goto(i, "permit") EXCEPT !.polUid = u], pairs)
           /\ i.pc = "permit" => \A r \in Rules :
                 r = Policy[<<i.req.cmd, i.polUid>>] => Sound(Permitted(i, r), pairs)
<1> USE DEF PastTargetAcct, PastCallerAcct, PastCredential, PastLookup, PastPermit,
            PastGate, PastResolve, Guarded, Masked, BeforeSession, Invocation,
            Sound, Parsed, Checked, Trusted, Asked, Bracketed, Recorded, Ended, CommandStatus,
            Outcomes
<1>1. ASSUME i.pc = "idle", i.req.cmd # NoCmd \/ i.req.op # "run" \/ i.req.k
      PROVE  Sound(Goto(i, "load"), pairs)
  BY <1>1 DEF Goto
<1>2. ASSUME i.pc = "load", i.req.op # "check" PROVE Sound(Goto(i, "clear"), pairs)
  BY <1>2 DEF Goto
<1>3. ASSUME i.pc = "clear", ~((i.req.k /\ i.req.cmd = NoCmd) \/ i.req.op = "list")
      PROVE  Sound(Goto(i, "resolve"), pairs)
  <2>1. i.req \in RequestType
    BY ConstantsAssumption
  <2>2. i.req.cmd \in Commands
    BY <1>3, <2>1 DEF RequestType, Ops
  <2> QED BY <1>3, <2>2 DEF Goto
<1>4. ASSUME i.pc = "resolve" PROVE Sound(Pass(i, "gate", "resolve"), pairs)
  BY <1>4 DEF Pass
<1>5. ASSUME i.pc = "gate", ~isCatastrophicCommand(i)
      PROVE  Sound(Pass(i, "target", "gate"), pairs)
  BY <1>5 DEF Pass, isCatastrophicCommand
<1>6. ASSUME i.pc = "target", NEW u \in Uids
      PROVE  Sound([Goto(i, "permit") EXCEPT !.polUid = u], pairs)
  BY <1>6 DEF Goto
<1>7. ASSUME i.pc = "permit", NEW r \in Rules, r = Policy[<<i.req.cmd, i.polUid>>]
      PROVE  Sound(Permitted(i, r), pairs)
  BY <1>7, ConstantsAssumption DEF Permitted, Named, Emit, Pass
<1> HIDE DEF PastTargetAcct, PastCallerAcct, PastCredential, PastLookup, PastPermit,
             PastGate, PastResolve, Guarded, Masked, BeforeSession, Invocation,
             Sound, Parsed, Checked, Trusted, Asked, Bracketed, Recorded, Ended, CommandStatus,
             Outcomes
<1> QED BY <1>1, <1>2, <1>3, <1>4, <1>5, <1>6, <1>7

(* authenticate() up to the session *)
LEMMA AuthSound ==
    ASSUME NEW i \in Invocation, NEW pairs, Sound(i, pairs)
    PROVE  /\ i.pc = "lookup" => \A u \in Uids, valid \in BOOLEAN :
                 Sound(Chosen(i, u, valid), pairs)
           /\ i.pc = "pam_start" => Sound([i EXCEPT !.pamh = TRUE, !.pc =
                 IF i.mode = "RequireInteractive" THEN "prompt" ELSE "caller_acct"], pairs)
           /\ i.pc = "prompt" =>
                 Sound(Pass(Pass(i, "caller_acct", "prompted"), "caller_acct", "verified"),
                       pairs \cup {TicketOf(i)})
           /\ i.pc = "caller_acct" => Sound(Pass(i, "target_acct", "caller_acct"), pairs)
           /\ i.pc = "target_acct" /\ MintsTicket(i) =>
                 Sound(Pass(i, "record", "target_acct"), pairs)
           /\ i.pc = "target_acct" =>
                 Sound(Emit(Pass(i, "setcred", "target_acct"), {"auth.ok"}), pairs)
           /\ i.pc = "record" => Sound(Emit(Goto(i, "setcred"), {"auth.ok"}), pairs)
           /\ i.pc = "setcred" => Sound([Goto(i, "open") EXCEPT !.cred = TRUE], pairs)
           /\ i.pc = "open" => Sound([Goto(i, "identity") EXCEPT !.sess = TRUE], pairs)
<1> USE DEF PastTargetAcct, PastCallerAcct, PastCredential, PastLookup, PastPermit,
            PastGate, PastResolve, Guarded, Masked, BeforeSession, Invocation,
            Sound, Parsed, Checked, Trusted, Asked, Bracketed, Recorded, Ended, CommandStatus,
            Outcomes, TicketOf
<1>1. ASSUME i.pc = "lookup", NEW u \in Uids, NEW valid \in BOOLEAN
      PROVE  Sound(Chosen(i, u, valid), pairs)
  BY <1>1 DEF Chosen, select_credential_mode, AuthFailed, Emit, Return, Goto
<1>2. ASSUME i.pc = "pam_start"
      PROVE  Sound([i EXCEPT !.pamh = TRUE, !.pc =
                 IF i.mode = "RequireInteractive" THEN "prompt" ELSE "caller_acct"], pairs)
  BY <1>2
<1>3. ASSUME i.pc = "prompt"
      PROVE  Sound(Pass(Pass(i, "caller_acct", "prompted"), "caller_acct", "verified"),
                   pairs \cup {TicketOf(i)})
  BY <1>3 DEF Pass
<1>4. ASSUME i.pc = "caller_acct" PROVE Sound(Pass(i, "target_acct", "caller_acct"), pairs)
  BY <1>4 DEF Pass
<1>5. ASSUME i.pc = "target_acct", MintsTicket(i)
      PROVE  Sound(Pass(i, "record", "target_acct"), pairs)
  BY <1>5 DEF Pass, MintsTicket
<1>6. ASSUME i.pc = "target_acct"
      PROVE  Sound(Emit(Pass(i, "setcred", "target_acct"), {"auth.ok"}), pairs)
  BY <1>6 DEF Pass, Emit
<1>7. ASSUME i.pc = "record" PROVE Sound(Emit(Goto(i, "setcred"), {"auth.ok"}), pairs)
  BY <1>7 DEF Goto, Emit
<1>8. ASSUME i.pc = "setcred" PROVE Sound([Goto(i, "open") EXCEPT !.cred = TRUE], pairs)
  BY <1>8 DEF Goto
<1>9. ASSUME i.pc = "open" PROVE Sound([Goto(i, "identity") EXCEPT !.sess = TRUE], pairs)
  BY <1>9 DEF Goto
<1> HIDE DEF PastTargetAcct, PastCallerAcct, PastCredential, PastLookup, PastPermit,
             PastGate, PastResolve, Guarded, Masked, BeforeSession, Invocation,
             Sound, Parsed, Checked, Trusted, Asked, Bracketed, Recorded, Ended, CommandStatus,
             Outcomes, TicketOf
<1> QED BY <1>1, <1>2, <1>3, <1>4, <1>5, <1>6, <1>7, <1>8, <1>9

(* The session, the fork and the end *)
LEMMA RunSound ==
    ASSUME NEW i \in Invocation, NEW pairs, Sound(i, pairs)
    PROVE  /\ i.pc = "identity" => \A u \in Uids :
                 Sound([Goto(i, "pin") EXCEPT !.runUid = u], pairs)
           /\ i.pc = "identity" =>
                 Sound([Emit(Goto(i, "close"), {"auth.invalid-target"})
                        EXCEPT !.code = "software"], pairs)
           /\ i.pc = "pin" => Sound(Goto(i, "mask"), pairs)
           /\ i.pc = "pin" => \A b \in BOOLEAN :
                 Sound(Named(Result(i, "no-exec"), b), pairs)
           /\ i.pc = "mask" => Sound(Goto(i, "fork"), pairs)
           /\ i.pc \in {"mask", "fork"} \/ (i.pc = "wait" /\ Reapable(i)) =>
                 Sound(Result(i, "software"), pairs)
           /\ i.pc = "wait" /\ Reapable(i) => Sound(Result(i, i.child), pairs)
           /\ i.pc = "fork" => Sound([Goto(i, "wait") EXCEPT !.child = "setup"], pairs)
           /\ i.pc = "report" => \A b \in BOOLEAN :
                 \A S \in {{"command.withheld"}, {"command.executed"}} :
                     Sound(Named(Emit(Goto(i, "close"), S), b), pairs)
           /\ i.pc = "close" => Sound([Goto(i, "leave") EXCEPT
                 !.pamh = FALSE, !.cred = FALSE, !.sess = FALSE], pairs)
           /\ i.pc = "leave" => Sound([Goto(i, "exited") EXCEPT !.pamh = FALSE], pairs)
           /\ i.pc = "leave" => Sound([Die(i) EXCEPT !.code = "failure"], pairs)
           /\ i.pc \in Guarded =>
                 Sound([i EXCEPT !.pc = "close", !.code = "software"], pairs)
           /\ i.pc \in Masked => Sound([i EXCEPT !.pending = TRUE], pairs)
<1> USE DEF PastTargetAcct, PastCallerAcct, PastCredential, PastLookup, PastPermit,
            PastGate, PastResolve, Guarded, Masked, BeforeSession, Invocation,
            Sound, Parsed, Checked, Trusted, Asked, Bracketed, Recorded, Ended, CommandStatus,
            Outcomes, TicketOf
<1>1. ASSUME i.pc = "identity", NEW u \in Uids
      PROVE  Sound([Goto(i, "pin") EXCEPT !.runUid = u], pairs)
  BY <1>1 DEF Goto
<1>2. ASSUME i.pc = "identity"
      PROVE  Sound([Emit(Goto(i, "close"), {"auth.invalid-target"})
                    EXCEPT !.code = "software"], pairs)
  BY <1>2 DEF Goto, Emit
<1>3. ASSUME i.pc = "pin" PROVE Sound(Goto(i, "mask"), pairs)
  BY <1>3 DEF Goto
<1>4. ASSUME i.pc = "pin", NEW b \in BOOLEAN
      PROVE  Sound(Named(Result(i, "no-exec"), b), pairs)
  BY <1>4 DEF Named, Result
<1>5. ASSUME i.pc = "mask" PROVE Sound(Goto(i, "fork"), pairs)
  BY <1>5 DEF Goto
<1>6. ASSUME i.pc \in {"mask", "fork"} \/ (i.pc = "wait" /\ Reapable(i))
      PROVE  Sound(Result(i, "software"), pairs)
  BY <1>6 DEF Result, Reapable, SetupStatus, Authorised
<1>14. ASSUME i.pc = "wait", Reapable(i) PROVE Sound(Result(i, i.child), pairs)
  BY <1>14 DEF Result, Reapable, SetupStatus, Authorised
<1>7. ASSUME i.pc = "fork" PROVE Sound([Goto(i, "wait") EXCEPT !.child = "setup"], pairs)
  <2>1. Authorised(i)
    BY <1>7 DEF Authorised
  <2> QED BY <1>7, <2>1 DEF Goto, Authorised
<1>8. ASSUME i.pc = "report", NEW b \in BOOLEAN,
             NEW S \in {{"command.withheld"}, {"command.executed"}}
      PROVE  Sound(Named(Emit(Goto(i, "close"), S), b), pairs)
  BY <1>8 DEF Goto, Emit, Named, Authorised
<1>9. ASSUME i.pc = "close"
      PROVE  Sound([Goto(i, "leave") EXCEPT
                    !.pamh = FALSE, !.cred = FALSE, !.sess = FALSE], pairs)
  BY <1>9 DEF Goto, Authorised
<1>10. ASSUME i.pc = "leave" PROVE Sound([Goto(i, "exited") EXCEPT !.pamh = FALSE], pairs)
  BY <1>10 DEF Goto, Authorised
<1>11. ASSUME i.pc \in Guarded
       PROVE  Sound([i EXCEPT !.pc = "close", !.code = "software"], pairs)
  BY <1>11 DEF Authorised
<1>12. ASSUME i.pc \in Masked PROVE Sound([i EXCEPT !.pending = TRUE], pairs)
  BY <1>12 DEF Authorised
<1>13. ASSUME i.pc = "leave" PROVE Sound([Die(i) EXCEPT !.code = "failure"], pairs)
  BY <1>13 DEF Die, Authorised
<1> HIDE DEF PastTargetAcct, PastCallerAcct, PastCredential, PastLookup, PastPermit,
             PastGate, PastResolve, Guarded, Masked, BeforeSession, Invocation,
             Sound, Parsed, Checked, Trusted, Asked, Bracketed, Recorded, Ended, CommandStatus,
             Outcomes
<1> QED BY <1>1, <1>2, <1>3, <1>4, <1>5, <1>6, <1>7, <1>8, <1>9, <1>10, <1>11, <1>12, <1>13, <1>14

(* The child moves while its parent waits. *)
LEMMA ChildSound ==
    ASSUME NEW i \in Invocation, NEW pairs, Sound(i, pairs), i.child \in {"setup", "running"},
           NEW s \in Child \ {"none", "setup"}, NEW b \in BOOLEAN
    PROVE  /\ Sound([i EXCEPT !.child = s], pairs)
           /\ Sound(Named([i EXCEPT !.child = s], b), pairs)
<1> USE DEF PastTargetAcct, PastCallerAcct, PastCredential, PastLookup, PastPermit,
            PastGate, PastResolve, Guarded, Masked, BeforeSession, Invocation,
            Sound, Parsed, Checked, Trusted, Asked, Bracketed, Recorded, Ended, CommandStatus,
            Outcomes, TicketOf
<1>1. Sound([i EXCEPT !.child = s], pairs)
  BY DEF Authorised
<1>2. Sound(Named([i EXCEPT !.child = s], b), pairs)
  BY DEF Authorised, Named
<1> QED BY <1>1, <1>2

(***************************************************************************)
(* From records to states                                                  *)
(***************************************************************************)

(* Sound only gets easier when more credentials have been verified. *)
LEMMA MoreProved ==
    ASSUME NEW i, NEW A, NEW B, A \subseteq B, Sound(i, A)
    PROVE  Sound(i, B)
BY DEF Sound, Trusted

(* A step that replaces the record of one invocation by an Ok one. *)
LEMMA OneMoves ==
    ASSUME IInv, NEW p \in Procs, NEW i, Becomes(p, i), Ok(i, proved'),
           passwd' \in [Names -> Uids \cup {NoUid}],
           proved \subseteq proved', proved' \subseteq Uids \X Uids,
           tickets' \subseteq proved'
    PROVE  IInv'
<1>1. inv' \in [Procs -> Invocation]
  BY DEF IInv, TypeOK, Becomes, Ok
<1>2. ASSUME NEW q \in Procs PROVE Sound(inv'[q], proved')
  <2>1. CASE q = p
    BY <2>1 DEF IInv, TypeOK, Becomes, Ok
  <2>2. CASE q # p
    <3>1. inv'[q] = inv[q]
      BY <2>2 DEF IInv, TypeOK, Becomes
    <3> QED BY <3>1, MoreProved DEF IInv
  <2> QED BY <2>1, <2>2
<1>3. tickets' \subseteq Uids \X Uids
  OBVIOUS
<1> QED BY <1>1, <1>2, <1>3 DEF IInv, TypeOK, TicketsAreProved

(* The common case: only the record changes. *)
LEMMA OnlyRecord ==
    ASSUME IInv, NEW p \in Procs, NEW i, Becomes(p, i), Ok(i, proved),
           UNCHANGED <<passwd, tickets, proved>>
    PROVE  IInv'
BY OneMoves DEF IInv, TypeOK, TicketsAreProved

(* What an action may assume of the record it replaces. *)
LEMMA Before ==
    ASSUME IInv, NEW p \in Procs
    PROVE  inv[p] \in Invocation /\ Sound(inv[p], proved)
BY DEF IInv, TypeOK

(***************************************************************************)
(* One lemma per group of actions, one step per action                     *)
(***************************************************************************)

(* A return before the session is open. *)
LEMMA LeaveOk ==
    ASSUME NEW i \in Invocation, NEW pairs, Sound(i, pairs),
           i.pc \in {"idle"} \cup BeforeSession
    PROVE  /\ \A c \in Codes \ CommandStatus :
                 /\ c \in {"software", "config"} \/ i.req.op # "run" \/ i.req.cmd = NoCmd
                 /\ c = "software" \/ i.pc # "open"
                 => Ok(Return(i, c), pairs)
           /\ i.pc # "open" =>
                 \A c \in Codes \ CommandStatus, S \in SUBSET AuditCodes : S \cap Outcomes # {} =>
                     /\ Ok(Emit(Return(i, c), S), pairs)
                     /\ \A b \in BOOLEAN : Ok(Named(Emit(Return(i, c), S), b), pairs)
           /\ i.pc # "open" => \A S \in SUBSET AuditCodes : Ok(AuthFailed(i, S), pairs)
           /\ Ok(SessionFailed(i), pairs)
           /\ Ok([i EXCEPT !.pc = "leave", !.code = "software"], pairs)
<1>0. /\ i.req.n => "prompted" \notin i.passed
      /\ i.mode = "RejectNonInteractive" => "ticket" \notin i.passed
  BY DEF Sound, Asked
<1>1. ASSUME NEW c \in Codes \ CommandStatus, c = "software" \/ i.pc # "open",
             c \in {"software", "config"} \/ i.req.op # "run" \/ i.req.cmd = NoCmd
      PROVE  Ok(Return(i, c), pairs)
  <2>1. Return(i, c) \in Invocation
    BY Fields
  <2> DEFINE j == Return(i, c)
  <2>2. /\ j.pc = "leave" /\ j.req = i.req /\ j.child = i.child /\ j.sess = i.sess
        /\ j.passed = i.passed /\ j.mode = i.mode /\ j.cred = i.cred /\ j.code = c
    BY DEF Return, Invocation
  <2>3. Sound(j, pairs)
    <3> HIDE DEF j
    <3> QED BY <1>0, <1>1, <2>1, <2>2, LeaveSound DEF j
  <2> QED BY <2>1, <2>3 DEF Ok
<1>2. ASSUME NEW c \in Codes \ CommandStatus, NEW S \in SUBSET AuditCodes, S \cap Outcomes # {},
             i.pc # "open"
      PROVE  Ok(Emit(Return(i, c), S), pairs)
  <2>1. Emit(Return(i, c), S) \in Invocation
    BY Fields
  <2>2. Sound(Emit(Return(i, c), S), pairs)
    BY <1>0, <1>2, <2>1, LeaveSound DEF Return, Emit, Invocation
  <2> QED BY <2>1, <2>2 DEF Ok
<1>3. ASSUME NEW c \in Codes \ CommandStatus, NEW S \in SUBSET AuditCodes, S \cap Outcomes # {},
             i.pc # "open", NEW b \in BOOLEAN
      PROVE  Ok(Named(Emit(Return(i, c), S), b), pairs)
  <2>1. Named(Emit(Return(i, c), S), b) \in Invocation
    <3>1. Emit(Return(i, c), S) \in Invocation
      BY Fields
    <3> QED BY <3>1, Fields
  <2> DEFINE j == Named(Emit(Return(i, c), S), b)
  <2>2. /\ j.pc = "leave" /\ j.req = i.req /\ j.child = i.child /\ j.sess = i.sess
        /\ j.passed = i.passed /\ j.mode = i.mode /\ j.audit = i.audit \cup S
        /\ j.cred = i.cred /\ j.code = c
    BY DEF Return, Emit, Named, Invocation
  <2>3. Sound(j, pairs)
    <3> HIDE DEF j
    <3> QED BY <1>0, <1>3, <2>1, <2>2, LeaveSound DEF j
  <2> QED BY <2>1, <2>3 DEF Ok
<1>4. ASSUME NEW S \in SUBSET AuditCodes, i.pc # "open" PROVE Ok(AuthFailed(i, S), pairs)
  <2>1. AuthFailed(i, S) \in Invocation
    BY Fields
  <2> DEFINE j == AuthFailed(i, S)
  <2>2. /\ j.pc = "leave" /\ j.req = i.req /\ j.child = i.child /\ j.sess = i.sess
        /\ j.passed = i.passed /\ j.mode = i.mode /\ "auth.failed" \in j.audit
        /\ j.cred = i.cred /\ j.code = "failure"
    BY DEF AuthFailed, Return, Emit, Invocation
  <2>3. Sound(j, pairs)
    <3> HIDE DEF j
    <3>1. j.audit \cap Outcomes # {} /\ j.code \notin CommandStatus
      BY <2>2 DEF Outcomes, CommandStatus
    <3> QED BY <1>0, <1>4, <2>1, <2>2, <3>1, LeaveSound DEF j
  <2> QED BY <2>1, <2>3 DEF Ok
<1>5. Ok(SessionFailed(i), pairs)
  <2>1. SessionFailed(i) \in Invocation
    BY Fields
  <2> DEFINE j == SessionFailed(i)
  <2>2. /\ j.pc = "leave" /\ j.req = i.req /\ j.child = i.child /\ j.sess = i.sess
        /\ j.passed = i.passed /\ j.mode = i.mode /\ "session.open-failed" \in j.audit
        /\ j.cred = i.cred /\ j.code = "failure"
    BY DEF SessionFailed, Return, Emit, Invocation
  <2>3. Sound(j, pairs)
    <3> HIDE DEF j
    <3>1. j.audit \cap Outcomes # {} /\ j.code \notin CommandStatus
      BY <2>2 DEF Outcomes, CommandStatus
    <3> QED BY <1>0, <2>1, <2>2, <3>1, LeaveSound DEF j
  <2> QED BY <2>1, <2>3 DEF Ok
<1>6. Ok([i EXCEPT !.pc = "leave", !.code = "software"], pairs)
  BY <1>1, Vocabulary DEF Return, CommandStatus
<1> QED BY <1>1, <1>2, <1>3, <1>4, <1>5, <1>6

(* Start, Load, Clear, Resolve, Gate, Target, Permit *)
LEMMA DecisionStep ==
    ASSUME IInv, NEW p \in Procs,
           Start(p) \/ Load(p) \/ Clear(p) \/ Resolve(p) \/ Gate(p) \/ Target(p) \/ Permit(p)
    PROVE  IInv'
<1> DEFINE i == inv[p]
<1>0. i \in Invocation /\ Sound(i, proved)
  BY Before
<1>a. /\ {"leave", "load", "clear", "resolve", "gate", "target", "permit", "lookup"} \subseteq PC
      /\ {"success", "usage", "config", "not-permitted", "not-found", "no-exec"}
           \subseteq Codes \ CommandStatus
      /\ {"resolve", "gate", "permit"} \subseteq Checks
      /\ {"command.rejected", "command.blocked", "command.denied", "command.requested",
          "auth.invalid-target"} \subseteq AuditCodes
  BY Vocabulary DEF BeforeSession, Checks, Outcomes, CommandStatus
<1>1. CASE Start(p)
  <2>0. i.pc = "idle"
    BY <1>1 DEF Start, At
  <2>1. i.req.cmd # NoCmd \/ i.req.op # "run" \/ i.req.k => Ok(Goto(i, "load"), proved)
    BY <1>0, <1>a, <2>0, DecisionSound, Fields DEF Ok
  <2>2. i.req.cmd = NoCmd => Ok(Return(i, "usage"), proved)
    BY <1>0, <1>a, <2>0, LeaveOk
  <2> QED BY <1>1, <2>1, <2>2, OnlyRecord DEF Start
<1>2. CASE Load(p)
  <2>0. i.pc = "load" /\ i.pc \in BeforeSession
    BY <1>2 DEF Load, At, BeforeSession
  <2>1. Ok(Return(i, "config"), proved)
    BY <1>0, <1>a, <2>0, LeaveOk
  <2>2. i.req.op = "check" => Ok(Return(i, "success"), proved)
    BY <1>0, <1>a, <2>0, LeaveOk
  <2>3. i.req.op # "check" => Ok(Goto(i, "clear"), proved)
    BY <1>0, <1>a, <2>0, DecisionSound, Fields DEF Ok
  <2> QED BY <1>2, <2>1, <2>2, <2>3, OnlyRecord DEF Load
<1>3. CASE Clear(p)
  <2>0. i.pc = "clear" /\ i.pc \in BeforeSession
    BY <1>3 DEF Clear, At, BeforeSession
  <2> DEFINE ends == (i.req.k /\ i.req.cmd = NoCmd) \/ i.req.op = "list"
  <2>1. ends => Ok(Return(i, "success"), proved)
    BY <1>0, <1>a, <2>0, LeaveOk
  <2>2. ~ends => Ok(Goto(i, "resolve"), proved)
    BY <1>0, <1>a, <2>0, DecisionSound, Fields DEF Ok
  <2>3. tickets' \subseteq tickets
    BY <1>3 DEF Clear
  <2>4. tickets' \subseteq proved' /\ proved' = proved /\ proved' \subseteq Uids \X Uids
        /\ passwd' \in [Names -> Uids \cup {NoUid}]
    BY <1>3, <2>3 DEF Clear, IInv, TypeOK, TicketsAreProved
  <2>5. PICK j : Becomes(p, j) /\ j = IF ends THEN Return(i, "success") ELSE Goto(i, "resolve")
    BY <1>3 DEF Clear
  <2> HIDE DEF ends
  <2>6. Ok(j, proved')
    BY <2>1, <2>2, <2>4, <2>5
  <2> QED BY <2>4, <2>5, <2>6, OneMoves
<1>4. CASE Resolve(p)
  <2>0. i.pc = "resolve" /\ i.pc \in BeforeSession
    BY <1>4 DEF Resolve, At, BeforeSession
  <2>1. Ok(Pass(i, "gate", "resolve"), proved)
    BY <1>0, <1>a, <2>0, DecisionSound, Fields DEF Ok
  <2>2. ASSUME NEW c \in {"not-found", "not-permitted", "no-exec"}
        PROVE  Ok(Named(Emit(Return(i, c), {"command.rejected"}), TRUE), proved)
    BY <1>0, <1>a, <2>0, LeaveOk DEF Outcomes
  <2> QED BY <1>4, <2>1, <2>2, OnlyRecord DEF Resolve
<1>5. CASE Gate(p)
  <2>0. i.pc = "gate" /\ i.pc \in BeforeSession
    BY <1>5 DEF Gate, At, BeforeSession
  <2>1. ~isCatastrophicCommand(i) => Ok(Pass(i, "target", "gate"), proved)
    BY <1>0, <1>a, <2>0, DecisionSound, Fields DEF Ok
  <2>2. Ok(Named(Emit(Return(i, "not-permitted"), {"command.blocked"}), TRUE), proved)
    BY <1>0, <1>a, <2>0, LeaveOk DEF Outcomes
  <2> QED BY <1>5, <2>1, <2>2, OnlyRecord DEF Gate
<1>6. CASE Target(p)
  <2>0. i.pc = "target" /\ i.pc \in BeforeSession
    BY <1>6 DEF Target, At, BeforeSession
  <2>1. Entry(i) \in Uids \cup {NoUid}
    BY <1>0, ConstantsAssumption DEF Entry, IInv, TypeOK, Invocation, RequestType
  <2>2. Ok(Emit(Return(i, "usage"), {"auth.invalid-target"}), proved)
    BY <1>0, <1>a, <2>0, LeaveOk DEF Outcomes
  <2>3. Entry(i) # NoUid => Ok([Goto(i, "permit") EXCEPT !.polUid = Entry(i)], proved)
    <3> SUFFICES ASSUME Entry(i) # NoUid
                 PROVE  Ok([Goto(i, "permit") EXCEPT !.polUid = Entry(i)], proved)
      OBVIOUS
    <3>1. [Goto(i, "permit") EXCEPT !.polUid = Entry(i)] \in Invocation
      BY <1>0, <1>a, <2>1 DEF Goto, Invocation
    <3> QED BY <1>0, <2>0, <2>1, <3>1, DecisionSound DEF Ok
  <2> QED BY <1>6, <2>2, <2>3, OnlyRecord DEF Target
<1>7. CASE Permit(p)
  <2>0. i.pc = "permit" /\ i.pc \in BeforeSession
    BY <1>7 DEF Permit, At, BeforeSession
  <2>1. Ok(Denied(i), proved)
    BY <1>0, <1>a, <2>0, LeaveOk DEF Outcomes, Denied
  <2>2. i.polUid \in Uids /\ i.req.cmd \in Commands
    BY <1>0, <2>0 DEF Sound, Checked, Parsed, PastResolve, PastGate
  <2>3. Policy[<<i.req.cmd, i.polUid>>] \in Rules \cup {NoRule}
    BY <2>2, ConstantsAssumption
  <2>4. ASSUME NEW r, r = Policy[<<i.req.cmd, i.polUid>>], r # NoRule
        PROVE  Ok(Permitted(i, r), proved)
    <3>1. r \in Rules /\ r \in RuleType
      BY <2>3, <2>4, ConstantsAssumption
    <3>2. Permitted(i, r) \in Invocation
      <4> DEFINE S == IF r.nolog THEN {} ELSE {"command.requested"}
                 b == ~r.nolog
                 j == Pass(i, "lookup", "permit")
                 k == Emit(j, S)
                 m == Named(k, b)
      <4>1. j \in Invocation
        BY <1>0, Fields DEF PC, BeforeSession, Checks
      <4>2. S \in SUBSET AuditCodes /\ b \in BOOLEAN
        BY DEF AuditCodes
      <4>3. Permitted(i, r) = [m EXCEPT !.rule = r]
        BY DEF Permitted
      <4> HIDE DEF S, b, j
      <4>4. k \in Invocation
        BY <4>1, <4>2, Fields
      <4> HIDE DEF k
      <4>5. m \in Invocation
        BY <4>2, <4>4, Fields
      <4> HIDE DEF m
      <4> QED BY <3>1, <4>3, <4>5 DEF Invocation
    <3> QED BY <1>0, <2>0, <2>4, <3>1, <3>2, DecisionSound DEF Ok
  <2> QED BY <1>7, <2>1, <2>4, OnlyRecord DEF Permit
<1> QED BY <1>1, <1>2, <1>3, <1>4, <1>5, <1>6, <1>7

(* Lookup, PamStart, Prompt, CallerAccount, TargetAccount, Record, SetCred, *)
(* OpenSession *)
LEMMA AuthStep ==
    ASSUME IInv, NEW p \in Procs,
           \/ Lookup(p) \/ PamStart(p) \/ Prompt(p) \/ CallerAccount(p)
           \/ TargetAccount(p) \/ Record(p) \/ SetCred(p) \/ OpenSession(p)
    PROVE  IInv'
<1> DEFINE i == inv[p]
<1>0. i \in Invocation /\ Sound(i, proved)
  BY Before
<1>a. /\ {"leave", "pam_start", "prompt", "caller_acct", "target_acct", "record",
          "setcred", "open", "identity"} \subseteq PC
      /\ {"prompted", "verified", "ticket", "caller_acct", "target_acct"} \subseteq Checks
      /\ {"auth.ok", "auth.failed", "auth.account-failed", "auth.invalid-target"}
           \subseteq AuditCodes
  BY Vocabulary DEF BeforeSession, Guarded, Checks, Outcomes
<1>1. CASE Lookup(p)
  <2>0. i.pc = "lookup" /\ i.pc \in BeforeSession
    BY <1>1 DEF Lookup, At, BeforeSession
  <2>1. Entry(i) \in Uids \cup {NoUid}
    BY <1>0, ConstantsAssumption DEF Entry, IInv, TypeOK, Invocation, RequestType
  <2>2. Ok(AuthFailed(i, {"auth.invalid-target"}), proved)
    BY <1>0, <1>a, <2>0, LeaveOk
  <2>3. ASSUME Entry(i) # NoUid, NEW valid \in BOOLEAN
        PROVE  Ok(Chosen(i, Entry(i), valid), proved)
    <3>1. Sound(Chosen(i, Entry(i), valid), proved)
      BY <1>0, <2>0, <2>1, <2>3, AuthSound
    <3> DEFINE m == select_credential_mode(i.rule, i.req.caller = Root, valid, i.req.n)
               j == [i EXCEPT !.tickUid = Entry(i), !.mode = m,
                       !.passed = @ \cup IF i.rule.persist /\ valid THEN {"ticket"} ELSE {}]
    <3>2. m \in Modes
      BY DEF select_credential_mode, Modes
    <3>3. j \in Invocation
      <4> HIDE DEF m
      <4> QED BY <1>0, <1>a, <2>1, <2>3, <3>2 DEF Invocation
    <3>4. AuthFailed(j, {}) \in Invocation /\ Goto(j, "pam_start") \in Invocation
      <4> HIDE DEF j
      <4> QED BY <1>a, <3>3, Fields
    <3>5. Chosen(i, Entry(i), valid) \in Invocation
      BY <3>4 DEF Chosen
    <3> QED BY <3>1, <3>5 DEF Ok
  <2>4. PICK valid \in BOOLEAN :
          Becomes(p, IF Entry(i) = NoUid THEN AuthFailed(i, {"auth.invalid-target"})
                     ELSE Chosen(i, Entry(i), valid))
    BY <1>1 DEF Lookup
  <2>5. Ok(IF Entry(i) = NoUid THEN AuthFailed(i, {"auth.invalid-target"})
           ELSE Chosen(i, Entry(i), valid), proved)
    BY <2>2, <2>3
  <2> QED BY <1>1, <2>4, <2>5, OnlyRecord DEF Lookup
<1>2. CASE PamStart(p)
  <2>0. i.pc = "pam_start" /\ i.pc \in BeforeSession
    BY <1>2 DEF PamStart, At, BeforeSession
  <2> DEFINE j == [i EXCEPT !.pamh = TRUE, !.pc =
              IF i.mode = "RequireInteractive" THEN "prompt" ELSE "caller_acct"]
  <2>1. Ok(j, proved)
    <3>1. j \in Invocation
      BY <1>0, <1>a DEF Invocation
    <3> QED BY <1>0, <2>0, <3>1, AuthSound DEF Ok
  <2>2. Ok(AuthFailed(i, {}), proved)
    BY <1>0, <2>0, LeaveOk
  <2>3. Becomes(p, j) \/ Becomes(p, AuthFailed(i, {}))
    BY <1>2 DEF PamStart
  <2> HIDE DEF j
  <2> QED BY <1>2, <2>1, <2>2, <2>3, OnlyRecord DEF PamStart
<1>3. CASE Prompt(p)
  <2>0. i.pc = "prompt" /\ i.pc \in BeforeSession
    BY <1>3 DEF Prompt, At, BeforeSession
  <2> DEFINE yes == Pass(Pass(i, "caller_acct", "prompted"), "caller_acct", "verified")
             no == AuthFailed(Pass(i, "leave", "prompted"), {})
  <2>1. CASE Becomes(p, yes) /\ proved' = proved \cup {TicketOf(i)}
    <3>1. yes \in Invocation
      <4>1. Pass(i, "caller_acct", "prompted") \in Invocation
        BY <1>0, <1>a, Fields
      <4> QED BY <4>1, <1>a, Fields
    <3>2. Ok(yes, proved')
      BY <1>0, <2>0, <2>1, <3>1, AuthSound DEF Ok
    <3>3. TicketOf(i) \in Uids \X Uids
      <4>1. i.tickUid \in Uids
        BY <1>0, <2>0 DEF Sound, Trusted, PastLookup
      <4> QED BY <1>0, <4>1, ConstantsAssumption DEF Invocation, RequestType, TicketOf
    <3>4. /\ passwd' \in [Names -> Uids \cup {NoUid}] /\ tickets' \subseteq proved'
          /\ proved \subseteq proved' /\ proved' \subseteq Uids \X Uids
      BY <1>3, <2>1, <3>3 DEF Prompt, IInv, TypeOK, TicketsAreProved
    <3> HIDE DEF yes
    <3> QED BY <2>1, <3>2, <3>4, OneMoves
  <2>2. CASE Becomes(p, no) /\ UNCHANGED proved
    <3>1. Pass(i, "leave", "prompted") \in Invocation
      BY <1>0, <1>a, Fields
    <3>2. no \in Invocation
      BY <3>1, Fields
    <3>3. ~i.req.n /\ i.mode = "RequireInteractive"
      BY <1>0, <2>0 DEF Sound, Trusted, PastLookup
    <3>4. /\ no.pc = "leave" /\ no.req = i.req /\ no.child = i.child /\ no.sess = i.sess
          /\ no.mode = i.mode /\ "auth.failed" \in no.audit
          /\ no.cred = i.cred /\ no.code \notin CommandStatus
      BY <1>0 DEF Pass, AuthFailed, Emit, Return, Invocation, CommandStatus
    <3>5. Sound(no, proved)
      <4> HIDE DEF no
      <4>1. no.audit \cap Outcomes # {}
        BY <3>4 DEF Outcomes
      <4> QED BY <1>0, <2>0, <3>2, <3>3, <3>4, <4>1, LeaveSound
    <3> HIDE DEF no
    <3> QED BY <1>3, <2>2, <3>2, <3>5, OnlyRecord DEF Prompt, Ok
  <2> QED BY <1>3, <2>1, <2>2 DEF Prompt
<1>4. CASE CallerAccount(p)
  <2>0. i.pc = "caller_acct" /\ i.pc \in BeforeSession
    BY <1>4 DEF CallerAccount, At, BeforeSession
  <2>1. Ok(Pass(i, "target_acct", "caller_acct"), proved)
    BY <1>0, <1>a, <2>0, AuthSound, Fields DEF Ok
  <2>2. Ok(AuthFailed(i, {}), proved)
    BY <1>0, <2>0, LeaveOk
  <2> QED BY <1>4, <2>1, <2>2, OnlyRecord DEF CallerAccount
<1>5. CASE TargetAccount(p)
  <2>0. i.pc = "target_acct" /\ i.pc \in BeforeSession
    BY <1>5 DEF TargetAccount, At, BeforeSession
  <2>1. MintsTicket(i) => Ok(Pass(i, "record", "target_acct"), proved)
    BY <1>0, <1>a, <2>0, AuthSound, Fields DEF Ok
  <2>2. Ok(Emit(Pass(i, "setcred", "target_acct"), {"auth.ok"}), proved)
    <3>1. Pass(i, "setcred", "target_acct") \in Invocation
      BY <1>0, <1>a, Fields
    <3>2. Emit(Pass(i, "setcred", "target_acct"), {"auth.ok"}) \in Invocation
      BY <1>a, <3>1, Fields
    <3> QED BY <1>0, <2>0, <3>2, AuthSound DEF Ok
  <2>3. Ok(AuthFailed(i, {"auth.account-failed"}), proved)
    BY <1>0, <1>a, <2>0, LeaveOk
  <2> QED BY <1>5, <2>1, <2>2, <2>3, OnlyRecord DEF TargetAccount
<1>6. CASE Record(p)
  <2>0. i.pc = "record" /\ i.pc \in BeforeSession
    BY <1>6 DEF Record, At, BeforeSession
  <2>1. TicketOf(i) \in proved
    BY <1>0, <2>0 DEF Sound, Trusted, PastCredential, PastCallerAcct, PastTargetAcct
  <2>2. Ok(Emit(Goto(i, "setcred"), {"auth.ok"}), proved)
    <3>1. Goto(i, "setcred") \in Invocation
      BY <1>0, <1>a, Fields
    <3>2. Emit(Goto(i, "setcred"), {"auth.ok"}) \in Invocation
      BY <1>a, <3>1, Fields
    <3> QED BY <1>0, <2>0, <3>2, AuthSound DEF Ok
  <2>3. /\ passwd' \in [Names -> Uids \cup {NoUid}] /\ tickets' \subseteq proved'
        /\ proved' = proved /\ proved' \subseteq Uids \X Uids
    BY <1>6, <2>1 DEF Record, IInv, TypeOK, TicketsAreProved
  <2> QED BY <1>6, <2>2, <2>3, OneMoves DEF Record
<1>7. CASE SetCred(p)
  <2>0. i.pc = "setcred" /\ i.pc \in BeforeSession
    BY <1>7 DEF SetCred, At, BeforeSession
  <2>1. [Goto(i, "open") EXCEPT !.cred = TRUE] \in Invocation
    BY <1>0, <1>a DEF Goto, Invocation
  <2>2. Ok([Goto(i, "open") EXCEPT !.cred = TRUE], proved)
    BY <1>0, <2>0, <2>1, AuthSound DEF Ok
  <2>3. Ok(SessionFailed(i), proved)
    BY <1>0, <2>0, LeaveOk
  <2> QED BY <1>7, <2>2, <2>3, OnlyRecord DEF SetCred
<1>8. CASE OpenSession(p)
  <2>0. i.pc = "open" /\ i.pc \in BeforeSession
    BY <1>8 DEF OpenSession, At, BeforeSession
  <2>1. [Goto(i, "identity") EXCEPT !.sess = TRUE] \in Invocation
    BY <1>0, <1>a DEF Goto, Invocation
  <2>2. Ok([Goto(i, "identity") EXCEPT !.sess = TRUE], proved)
    BY <1>0, <2>0, <2>1, AuthSound DEF Ok
  <2>3. Ok(SessionFailed(i), proved)
    BY <1>0, <2>0, LeaveOk
  <2> QED BY <1>8, <2>2, <2>3, OnlyRecord DEF OpenSession
<1> QED BY <1>1, <1>2, <1>3, <1>4, <1>5, <1>6, <1>7, <1>8

(* Identity, Pin, Mask, Fork, Wait, Report, Close, Exit *)
LEMMA RunStep ==
    ASSUME IInv, NEW p \in Procs,
           \/ Identity(p) \/ Pin(p) \/ Mask(p) \/ Fork(p) \/ Wait(p)
           \/ Report(p) \/ Close(p) \/ Exit(p)
    PROVE  IInv'
<1> DEFINE i == inv[p]
<1>0. i \in Invocation /\ Sound(i, proved)
  BY Before
<1>a. /\ {"identity", "pin", "mask", "fork", "wait", "report", "close", "leave", "exited"} \subseteq PC
      /\ {"software", "no-exec"} \subseteq Codes
      /\ {"auth.invalid-target", "command.withheld", "command.executed"} \subseteq AuditCodes
  BY Vocabulary DEF Guarded, Masked, Outcomes
<1>b. ASSUME NEW c \in Codes, i.pc \in {"fork", "wait"}, i.pc = "wait" => Reapable(i),
             c = "software" \/ (i.pc = "wait" /\ c = i.child)
      PROVE  Ok(Unmask(i, c), proved)
  <2>1. i.child \notin {"setup", "running"}
    BY <1>0, <1>b DEF Sound, Bracketed, Reapable, CommandStatus, SetupStatus
  <2>2. Sound(Die(i), proved) /\ Sound(Result(i, c), proved)
    BY <1>0, <1>b, <2>1, DieSound, RunSound
  <2>3. Unmask(i, c) \in Invocation
    BY <1>0, Fields
  <2> QED BY <2>2, <2>3 DEF Unmask, Ok
<1>1. CASE Identity(p)
  <2>0. i.pc = "identity"
    BY <1>1 DEF Identity, At
  <2>1. Entry(i) \in Uids \cup {NoUid}
    BY <1>0, ConstantsAssumption DEF Entry, IInv, TypeOK, Invocation, RequestType
  <2> DEFINE gone == [Emit(Goto(i, "close"), {"auth.invalid-target"}) EXCEPT !.code = "software"]
             found == [Goto(i, "pin") EXCEPT !.runUid = Entry(i)]
  <2>2. Ok(gone, proved)
    <3>1. gone \in Invocation
      BY <1>0, <1>a DEF Goto, Emit, Invocation
    <3> QED BY <1>0, <2>0, <3>1, RunSound DEF Ok
  <2>3. Entry(i) # NoUid => Ok(found, proved)
    <3>1. found \in Invocation
      BY <1>0, <1>a, <2>1 DEF Goto, Invocation
    <3> QED BY <1>0, <2>0, <2>1, <3>1, RunSound DEF Ok
  <2>4. Becomes(p, gone) \/ (Entry(i) # NoUid /\ Becomes(p, found))
    BY <1>1 DEF Identity
  <2> HIDE DEF gone, found
  <2> QED BY <1>1, <2>2, <2>3, <2>4, OnlyRecord DEF Identity
<1>2. CASE Pin(p)
  <2>0. i.pc = "pin"
    BY <1>2 DEF Pin, At
  <2>1. Ok(Goto(i, "mask"), proved)
    BY <1>0, <1>a, <2>0, RunSound, Fields DEF Ok
  <2>2. ASSUME NEW text \in BOOLEAN PROVE Ok(Named(Result(i, "no-exec"), text), proved)
    <3>1. Result(i, "no-exec") \in Invocation
      BY <1>0, <1>a, Fields
    <3>2. Named(Result(i, "no-exec"), text) \in Invocation
      BY <3>1, Fields
    <3> QED BY <1>0, <1>a, <2>0, <3>2, RunSound DEF Ok
  <2> QED BY <1>2, <2>1, <2>2, OnlyRecord DEF Pin
<1>3. CASE Mask(p)
  <2>0. i.pc = "mask"
    BY <1>3 DEF Mask, At
  <2>1. Ok(Goto(i, "fork"), proved) /\ Ok(Result(i, "software"), proved)
    BY <1>0, <1>a, <2>0, RunSound, Fields DEF Ok
  <2> QED BY <1>3, <2>1, OnlyRecord DEF Mask
<1>4. CASE Fork(p)
  <2>0. i.pc = "fork"
    BY <1>4 DEF Fork, At
  <2>1. [Goto(i, "wait") EXCEPT !.child = "setup"] \in Invocation
    BY <1>0, <1>a DEF Goto, Invocation, Child
  <2>2. Ok([Goto(i, "wait") EXCEPT !.child = "setup"], proved)
    BY <1>0, <2>0, <2>1, RunSound DEF Ok
  <2>3. Ok(Unmask(i, "software"), proved)
    BY <1>a, <1>b, <2>0
  <2> QED BY <1>4, <2>2, <2>3, OnlyRecord DEF Fork
<1>5. CASE Wait(p)
  <2>0. i.pc = "wait" /\ Reapable(i)
    BY <1>5 DEF Wait, At
  <2>1. {i.child, "software"} \subseteq Codes
    BY <2>0, <1>a, Vocabulary DEF Reapable
  <2>2. ASSUME NEW c \in {i.child, "software"} PROVE Ok(Unmask(i, c), proved)
    BY <1>b, <2>0, <2>1
  <2> QED BY <1>5, <2>2, OnlyRecord DEF Wait
<1>6. CASE Report(p)
  <2>0. i.pc = "report"
    BY <1>6 DEF Report, At
  <2>1. ASSUME NEW b \in BOOLEAN, NEW S \in {{"command.withheld"}, {"command.executed"}}
        PROVE  Ok(Named(Emit(Goto(i, "close"), S), b), proved)
    <3>1. Goto(i, "close") \in Invocation
      BY <1>0, <1>a, Fields
    <3>2. Emit(Goto(i, "close"), S) \in Invocation
      BY <1>a, <3>1, Fields
    <3>3. Named(Emit(Goto(i, "close"), S), b) \in Invocation
      BY <3>2, Fields
    <3> QED BY <1>0, <2>0, <3>3, RunSound DEF Ok
  <2>2. CASE Nolog(i)
    <3>1. Becomes(p, Named(Emit(Goto(i, "close"), {"command.withheld"}), FALSE))
      BY <1>6, <2>2 DEF Report
    <3> QED BY <1>6, <2>1, <3>1, OnlyRecord DEF Report
  <2>3. CASE ~Nolog(i)
    <3>1. Becomes(p, Named(Emit(Goto(i, "close"), {"command.executed"}), TRUE))
      BY <1>6, <2>3 DEF Report
    <3> QED BY <1>6, <2>1, <3>1, OnlyRecord DEF Report
  <2> QED BY <2>2, <2>3
<1>7. CASE Close(p)
  <2>0. i.pc = "close"
    BY <1>7 DEF Close, At
  <2> DEFINE j == [Goto(i, "leave") EXCEPT !.pamh = FALSE, !.cred = FALSE, !.sess = FALSE]
  <2>1. j \in Invocation
    BY <1>0, <1>a DEF Goto, Invocation
  <2>2. Ok(j, proved)
    BY <1>0, <2>0, <2>1, RunSound DEF Ok
  <2>3. Becomes(p, j)
    BY <1>7 DEF Close
  <2> HIDE DEF j
  <2> QED BY <1>7, <2>2, <2>3, OnlyRecord DEF Close
<1>8. CASE Exit(p)
  <2>0. i.pc = "leave"
    BY <1>8 DEF Exit, At
  <2>1. [Goto(i, "exited") EXCEPT !.pamh = FALSE] \in Invocation
    BY <1>0, <1>a DEF Goto, Invocation
  <2>2. Ok([Goto(i, "exited") EXCEPT !.pamh = FALSE], proved)
    BY <1>0, <2>0, <2>1, RunSound DEF Ok
  <2>3. [Die(i) EXCEPT !.code = "failure"] \in Invocation
    BY <1>0, Vocabulary DEF Die, Invocation
  <2>4. Ok([Die(i) EXCEPT !.code = "failure"], proved)
    BY <1>0, <2>0, <2>3, RunSound DEF Ok
  <2>5. CASE Becomes(p, [Goto(i, "exited") EXCEPT !.pamh = FALSE])
    BY <1>8, <2>2, <2>5, OnlyRecord DEF Exit
  <2>6. CASE Becomes(p, [Die(i) EXCEPT !.code = "failure"])
    BY <1>8, <2>4, <2>6, OnlyRecord DEF Exit
  <2> QED BY <1>8, <2>5, <2>6 DEF Exit
<1> QED BY <1>1, <1>2, <1>3, <1>4, <1>5, <1>6, <1>7, <1>8

(* Throw, ChildSetup, ChildEnds, Signal *)
LEMMA EventStep ==
    ASSUME IInv, NEW p \in Procs,
           Throw(p) \/ ChildSetup(p) \/ ChildEnds(p) \/ Signal(p)
    PROVE  IInv'
<1> DEFINE i == inv[p]
<1>0. i \in Invocation /\ Sound(i, proved)
  BY Before
<1>1. CASE Throw(p)
  <2> DEFINE j == [i EXCEPT !.pc = UnwindTo(i.pc), !.code = "software"]
  <2>1. CASE i.pc \in BeforeSession
    <3>1. UnwindTo(i.pc) = "leave"
      BY <2>1 DEF UnwindTo, BeforeSession, Guarded
    <3>2. Ok([i EXCEPT !.pc = "leave", !.code = "software"], proved)
      BY <1>0, <2>1, LeaveOk
    <3> QED BY <1>1, <3>1, <3>2, OnlyRecord DEF Throw
  <2>2. CASE i.pc \in Guarded
    <3>1. UnwindTo(i.pc) = "close"
      BY <2>2 DEF UnwindTo
    <3>2. [i EXCEPT !.pc = "close", !.code = "software"] \in Invocation
      BY <1>0, Vocabulary DEF Invocation
    <3>3. Ok([i EXCEPT !.pc = "close", !.code = "software"], proved)
      BY <1>0, <2>2, <3>2, RunSound DEF Ok
    <3> QED BY <1>1, <3>1, <3>3, OnlyRecord DEF Throw
  <2> QED BY <1>1, <2>1, <2>2 DEF Throw
<1>2. ASSUME i.child \in {"setup", "running"}, NEW s \in Child \ {"none", "setup"}
      PROVE  /\ Ok([i EXCEPT !.child = s], proved)
             /\ \A b \in BOOLEAN : Ok(Named([i EXCEPT !.child = s], b), proved)
  <2>1. [i EXCEPT !.child = s] \in Invocation
    BY <1>0 DEF Invocation
  <2>2. ASSUME NEW b \in BOOLEAN PROVE Named([i EXCEPT !.child = s], b) \in Invocation
    BY <2>1, Fields
  <2> QED BY <1>0, <1>2, <2>1, <2>2, ChildSound DEF Ok
<1>3. CASE ChildSetup(p)
  <2>0. i.child = "setup"
    BY <1>3 DEF ChildSetup
  <2>1. {"running"} \cup SetupStatus \cup {"cmd-signal"} \subseteq Child \ {"none", "setup"}
    BY DEF Child, SetupStatus, CommandStatus
  <2>2. PICK s \in {"running"} \cup SetupStatus \cup {"cmd-signal"}, b \in BOOLEAN :
          Becomes(p, Named([i EXCEPT !.child = s], b))
    BY <1>3 DEF ChildSetup
  <2>3. Ok(Named([i EXCEPT !.child = s], b), proved)
    BY <1>2, <2>0, <2>1
  <2> QED BY <1>3, <2>2, <2>3, OnlyRecord DEF ChildSetup
<1>4. CASE ChildEnds(p)
  <2>0. i.child = "running"
    BY <1>4 DEF ChildEnds
  <2>1. CommandStatus \subseteq Child \ {"none", "setup"}
    BY DEF Child, CommandStatus
  <2>2. ASSUME NEW s \in CommandStatus PROVE Ok([i EXCEPT !.child = s], proved)
    BY <1>2, <2>0, <2>1
  <2> QED BY <1>4, <2>2, OnlyRecord DEF ChildEnds
<1>5. CASE Signal(p)
  <2>1. CASE i.pc \in Masked
    <3>1. [i EXCEPT !.pending = TRUE] \in Invocation
      BY <1>0 DEF Invocation
    <3>2. Ok([i EXCEPT !.pending = TRUE], proved)
      BY <1>0, <2>1, <3>1, RunSound DEF Ok
    <3> QED BY <1>5, <2>1, <3>2, OnlyRecord DEF Signal
  <2>2. CASE i.pc \notin Masked
    <3>1. i.child \notin {"setup", "running"}
      BY <1>0, <2>2 DEF Sound, Bracketed, Masked
    <3>2. Ok(Die(i), proved)
      BY <1>0, <3>1, DieSound, Fields DEF Ok
    <3> QED BY <1>5, <2>2, <3>2, OnlyRecord DEF Signal
  <2> QED BY <2>1, <2>2
<1> QED BY <1>1, <1>3, <1>4, <1>5

(* EditPasswd and stuttering leave every record alone. *)
LEMMA OutsideStep ==
    ASSUME IInv, EditPasswd \/ UNCHANGED vars
    PROVE  IInv'
<1>2. CASE EditPasswd
  <2>1. passwd' \in [Names -> Uids \cup {NoUid}]
    BY <1>2, ConstantsAssumption DEF EditPasswd, IInv, TypeOK
  <2> QED BY <1>2, <2>1 DEF EditPasswd, IInv, TypeOK, TicketsAreProved
<1>3. CASE UNCHANGED vars
  BY <1>3 DEF vars, IInv, TypeOK, TicketsAreProved
<1> QED BY <1>2, <1>3

(***************************************************************************)
(* The theorems                                                            *)
(***************************************************************************)

(* A freshly started process is Sound. *)
LEMMA InitIInv == Init => IInv
<1> SUFFICES ASSUME Init PROVE IInv
  OBVIOUS
<1>1. passwd \in [Names -> Uids \cup {NoUid}]
  BY ConstantsAssumption DEF Init
<1>2. PICK r \in [Procs -> Requests] : inv = [p \in Procs |-> Fresh(r[p])]
  BY DEF Init
<1>3. ASSUME NEW q \in Requests PROVE Fresh(q) \in Invocation /\ Sound(Fresh(q), {})
  <2>1. Fresh(q) \in Invocation
    BY DEF Fresh, Invocation, PC, Codes, Modes, Child
  <2> USE DEF Fresh, PastTargetAcct, PastCallerAcct, PastCredential, PastLookup, PastPermit,
              PastGate, PastResolve, Guarded, Masked, BeforeSession
  <2>2. Parsed(Fresh(q)) /\ Checked(Fresh(q)) /\ Trusted(Fresh(q), {})
    BY DEF Parsed, Checked, Trusted
  <2>3. Asked(Fresh(q)) /\ Bracketed(Fresh(q)) /\ Recorded(Fresh(q)) /\ Ended(Fresh(q))
    BY DEF Asked, Bracketed, Recorded, Ended
  <2> QED BY <2>1, <2>2, <2>3 DEF Sound
<1>4. inv \in [Procs -> Invocation] /\ \A p \in Procs : Sound(inv[p], proved)
  BY <1>2, <1>3 DEF Init
<1> QED BY <1>1, <1>4 DEF Init, IInv, TypeOK, TicketsAreProved

(* Every step of every interleaving keeps the invariant. *)
LEMMA NextIInv == IInv /\ [Next]_vars => IInv'
<1> SUFFICES ASSUME IInv, [Next]_vars PROVE IInv'
  OBVIOUS
<1>1. ASSUME NEW p \in Procs, Step(p) PROVE IInv'
  BY <1>1, DecisionStep, AuthStep, RunStep DEF Step
<1>2. ASSUME NEW p \in Procs, Throw(p) \/ ChildSetup(p) \/ ChildEnds(p) \/ Signal(p)
      PROVE  IInv'
  BY <1>2, EventStep
<1> QED BY <1>1, <1>2, OutsideStep DEF Next

(* The inductive invariant holds of every behaviour. *)
THEOREM Invariance == Spec => []IInv
BY InitIInv, NextIInv, PTL DEF Spec

(* Every field of every invocation, the user database and the tickets keep *)
(* their types: in particular permit() is only ever asked about a real     *)
(* command and a real uid.                                                 *)
THEOREM Typing == Spec => []TypeOK
<1>1. IInv => TypeOK
  BY DEF IInv
<1> QED BY <1>1, Invariance, PTL

(* Whatever fails, throws or races, Command::execute forks a child only    *)
(* for a resolved, non-catastrophic, permitted command whose caller has    *)
(* the authority that the matching rule asks for.                          *)
THEOREM OnlyAuthorisedRun == Spec => []RunsOnlyAuthorised
<1>1. IInv => RunsOnlyAuthorised
  BY DEF IInv, RunsOnlyAuthorised, Sound, Bracketed
<1> QED BY <1>1, Invariance, PTL

(* No interleaving of record(), valid() and -k makes a ticket for a pair   *)
(* whose credential was never verified.                                    *)
THEOREM TicketsProved == Spec => []TicketsAreProved
<1>1. IInv => TicketsAreProved
  BY DEF IInv
<1> QED BY <1>1, Invariance, PTL

(* select_credential_mode keeps -n from ever reaching pam_authenticate.    *)
THEOREM NonInteractive == Spec => []NonInteractiveNeverPrompts
<1>1. IInv => NonInteractiveNeverPrompts
  BY DEF IInv, Sound, Asked, NonInteractiveNeverPrompts
<1> QED BY <1>1, Invariance, PTL

(* select_credential_mode looks at the ticket before it rejects for -n:    *)
(* only who has no usable ticket is told that a prompt would be needed.    *)
THEOREM TicketFirst == Spec => []TicketBeatsNonInteractive
<1>1. IInv => TicketBeatsNonInteractive
  BY DEF IInv, Sound, Asked, TicketBeatsNonInteractive
<1> QED BY <1>1, Invariance, PTL

(* SessionCloser and ~PamAuthenticator: whoever returns has closed what it *)
(* opened, and the session outlives the child.                             *)
THEOREM SessionsClosed == Spec => []ReturnClosesSession
<1>1. IInv => ReturnClosesSession
  BY DEF IInv, Sound, Bracketed, ReturnClosesSession, BeforeSession, Guarded, Masked
<1> QED BY <1>1, Invariance, PTL

(* Every execute() that returned a verdict of its own left it in the audit *)
(* log, and every run left its outcome.                                    *)
THEOREM OutcomesAudited == Spec => []OutcomeAudited
<1>1. IInv => OutcomeAudited
  BY DEF IInv, Sound, Recorded, OutcomeAudited
<1> QED BY <1>1, Invariance, PTL

(* Whatever fails between pam_setcred() and pam_open_session(), and        *)
(* whoever throws, no command ever ran with credentials that voix leaves   *)
(* behind.                                                                 *)
THEOREM CredentialsDeleted == Spec => []CredentialsLeftOnlyUnused
<1>1. IInv => CredentialsLeftOnlyUnused
  BY DEF IInv, Sound, Ended, CredentialsLeftOnlyUnused, Guarded, Masked
<1> QED BY <1>1, Invariance, PTL

(* The exit status of voix is that of the child once there was one, unless *)
(* voix itself failed.                                                     *)
THEOREM StatusReported == Spec => []StatusTellsWhatRan
<1>1. IInv => StatusTellsWhatRan
  BY DEF IInv, Sound, Ended, StatusTellsWhatRan
<1> QED BY <1>1, Invariance, PTL

(***************************************************************************)
(* Voix implements Tickets                                                 *)
(***************************************************************************)

(* A record that holds the same ticket as another one *)
Like(i, j) ==
    /\ j.req = i.req /\ j.tickUid = i.tickUid
    /\ "ticket" \in j.passed <=> "ticket" \in i.passed

(* What the mapping makes of a step that replaces one record *)
LEMMA HoldsAfter ==
    ASSUME IInv, NEW p \in Procs, NEW j, Becomes(p, j)
    PROVE  /\ Like(inv[p], j) => UNCHANGED [q \in Procs |-> Held(inv[q])]
           /\ [q \in Procs |-> Held(inv[q])]'
                = [[q \in Procs |-> Held(inv[q])] EXCEPT ![p] = Held(j)]
<1>1. inv \in [Procs -> Invocation] /\ inv' = [inv EXCEPT ![p] = j]
  BY DEF IInv, TypeOK, Becomes
<1>2. inv'[p] = j /\ \A q \in Procs \ {p} : inv'[q] = inv[q]
  BY <1>1
<1>3. Like(inv[p], j) => Held(j) = Held(inv[p])
  BY DEF Like, Held, TicketOf
<1>4. \A q \in Procs \ {p} : Held(inv'[q]) = Held(inv[q])
  BY <1>2
<1>5. Held(inv'[p]) = Held(j)
  BY <1>2
<1> HIDE DEF Held
<1> QED BY <1>3, <1>4, <1>5

(* A step that leaves the tickets, the proofs and what an invocation holds *)
(* is no step of Tickets.                                                  *)
LEMMA Stutters ==
    ASSUME IInv, NEW p \in Procs, \E j : Becomes(p, j), Like(inv[p], inv'[p]),
           UNCHANGED <<tickets, proved>>
    PROVE  UNCHANGED Abstract!vars
<1>1. PICK j : Becomes(p, j)
  OBVIOUS
<1>2. inv'[p] = j
  BY <1>1 DEF Becomes, IInv, TypeOK
<1> QED BY <1>1, <1>2, HoldsAfter DEF Abstract!vars

(* The steps that neither grant, revoke, verify nor look up a ticket *)
LEMMA OtherStep ==
    ASSUME IInv, NEW p \in Procs,
           \/ Start(p) \/ Load(p) \/ Resolve(p) \/ Gate(p) \/ Target(p) \/ Permit(p)
           \/ PamStart(p) \/ CallerAccount(p) \/ TargetAccount(p) \/ SetCred(p) \/ OpenSession(p)
           \/ Identity(p) \/ Pin(p) \/ Mask(p) \/ Fork(p) \/ Wait(p) \/ Report(p) \/ Close(p)
           \/ Exit(p) \/ Throw(p) \/ ChildSetup(p) \/ ChildEnds(p) \/ Signal(p)
    PROVE  UNCHANGED Abstract!vars
<1> DEFINE i == inv[p]
<1>0. i \in Invocation /\ inv \in [Procs -> Invocation]
  BY DEF IInv, TypeOK
<1>a. ASSUME NEW j, Becomes(p, j), Like(i, j) PROVE Like(i, inv'[p])
  BY <1>0, <1>a DEF Becomes
<1>1. CASE Start(p)
  <2>1. Like(i, inv'[p])
    <3>1. Like(i, Return(i, "usage"))
      BY <1>0 DEF Like, Invocation, Return
    <3>2. Like(i, Goto(i, "load"))
      BY <1>0 DEF Like, Invocation, Goto
    <3> QED BY <1>a, <1>1, <3>1, <3>2 DEF Start
  <2>2. \E j : Becomes(p, j)
    BY <1>1, Zenon DEF Start
  <2> QED BY <1>1, <2>1, <2>2, Stutters DEF Start
<1>2. CASE Load(p)
  <2>1. Like(i, inv'[p])
    <3>1. \A c \in {"config", "success"} : Like(i, Return(i, c))
      BY <1>0 DEF Like, Invocation, Return
    <3>2. Like(i, Goto(i, "clear"))
      BY <1>0 DEF Like, Invocation, Goto
    <3> QED BY <1>a, <1>2, <3>1, <3>2 DEF Load
  <2>2. \E j : Becomes(p, j)
    BY <1>2, Zenon DEF Load
  <2> QED BY <1>2, <2>1, <2>2, Stutters DEF Load
<1>3. CASE Resolve(p)
  <2>1. Like(i, inv'[p])
    <3>1. Like(i, Pass(i, "gate", "resolve"))
      BY <1>0 DEF Like, Invocation, Pass
    <3>2. ASSUME NEW c \in {"not-found", "not-permitted", "no-exec"}
          PROVE  Like(i, Named(Emit(Return(i, c), {"command.rejected"}), TRUE))
      BY <1>0 DEF Like, Invocation, Named, Emit, Return
    <3> QED BY <1>a, <1>3, <3>1, <3>2 DEF Resolve
  <2>2. \E j : Becomes(p, j)
    BY <1>3, Zenon DEF Resolve
  <2> QED BY <1>3, <2>1, <2>2, Stutters DEF Resolve
<1>4. CASE Gate(p)
  <2>1. Like(i, inv'[p])
    <3>1. Like(i, Named(Emit(Return(i, "not-permitted"), {"command.blocked"}), TRUE))
      BY <1>0 DEF Like, Invocation, Named, Emit, Return
    <3>2. Like(i, Pass(i, "target", "gate"))
      BY <1>0 DEF Like, Invocation, Pass
    <3> QED BY <1>a, <1>4, <3>1, <3>2 DEF Gate
  <2>2. \E j : Becomes(p, j)
    BY <1>4, Zenon DEF Gate
  <2> QED BY <1>4, <2>1, <2>2, Stutters DEF Gate
<1>5. CASE Target(p)
  <2>1. Like(i, inv'[p])
    <3>1. Like(i, Emit(Return(i, "usage"), {"auth.invalid-target"}))
      BY <1>0 DEF Like, Invocation, Emit, Return
    <3>2. Like(i, [Goto(i, "permit") EXCEPT !.polUid = Entry(i)])
      BY <1>0 DEF Like, Invocation, Goto
    <3> QED BY <1>a, <1>5, <3>1, <3>2 DEF Target
  <2>2. \E j : Becomes(p, j)
    BY <1>5, Zenon DEF Target
  <2> QED BY <1>5, <2>1, <2>2, Stutters DEF Target
<1>6. CASE Permit(p)
  <2>1. Like(i, inv'[p])
    <3>1. Like(i, Denied(i))
      BY <1>0 DEF Like, Invocation, Denied, Named, Emit, Return
    <3>2. \A r : Like(i, Permitted(i, r))
      BY <1>0 DEF Like, Invocation, Permitted, Named, Emit, Pass
    <3> QED BY <1>a, <1>6, <3>1, <3>2 DEF Permit
  <2>2. \E j : Becomes(p, j)
    BY <1>6, Zenon DEF Permit
  <2> QED BY <1>6, <2>1, <2>2, Stutters DEF Permit
<1>7. CASE PamStart(p)
  <2>1. Like(i, inv'[p])
    <3>1. Like(i, [i EXCEPT !.pamh = TRUE, !.pc =
              IF i.mode = "RequireInteractive" THEN "prompt" ELSE "caller_acct"])
      BY <1>0 DEF Like, Invocation
    <3>2. Like(i, AuthFailed(i, {}))
      BY <1>0 DEF Like, Invocation, AuthFailed, Emit, Return
    <3> QED BY <1>a, <1>7, <3>1, <3>2 DEF PamStart
  <2>2. \E j : Becomes(p, j)
    BY <1>7, Zenon DEF PamStart
  <2> QED BY <1>7, <2>1, <2>2, Stutters DEF PamStart
<1>8. CASE CallerAccount(p)
  <2>1. Like(i, inv'[p])
    <3>1. Like(i, Pass(i, "target_acct", "caller_acct"))
      BY <1>0 DEF Like, Invocation, Pass
    <3>2. Like(i, AuthFailed(i, {}))
      BY <1>0 DEF Like, Invocation, AuthFailed, Emit, Return
    <3> QED BY <1>a, <1>8, <3>1, <3>2 DEF CallerAccount
  <2>2. \E j : Becomes(p, j)
    BY <1>8, Zenon DEF CallerAccount
  <2> QED BY <1>8, <2>1, <2>2, Stutters DEF CallerAccount
<1>9. CASE TargetAccount(p)
  <2>1. Like(i, inv'[p])
    <3>1. Like(i, Pass(i, "record", "target_acct"))
      BY <1>0 DEF Like, Invocation, Pass
    <3>2. Like(i, Emit(Pass(i, "setcred", "target_acct"), {"auth.ok"}))
      BY <1>0 DEF Like, Invocation, Pass, Emit
    <3>3. Like(i, AuthFailed(i, {"auth.account-failed"}))
      BY <1>0 DEF Like, Invocation, AuthFailed, Emit, Return
    <3> QED BY <1>a, <1>9, <3>1, <3>2, <3>3 DEF TargetAccount
  <2>2. \E j : Becomes(p, j)
    BY <1>9, Zenon DEF TargetAccount
  <2> QED BY <1>9, <2>1, <2>2, Stutters DEF TargetAccount
<1>10. CASE SetCred(p)
  <2>1. Like(i, inv'[p])
    <3>1. Like(i, [Goto(i, "open") EXCEPT !.cred = TRUE])
      BY <1>0 DEF Like, Invocation, Goto
    <3>2. Like(i, SessionFailed(i))
      BY <1>0 DEF Like, Invocation, SessionFailed, Emit, Return
    <3> QED BY <1>a, <1>10, <3>1, <3>2 DEF SetCred
  <2>2. \E j : Becomes(p, j)
    BY <1>10, Zenon DEF SetCred
  <2> QED BY <1>10, <2>1, <2>2, Stutters DEF SetCred
<1>11. CASE OpenSession(p)
  <2>1. Like(i, inv'[p])
    <3>1. Like(i, [Goto(i, "identity") EXCEPT !.sess = TRUE])
      BY <1>0 DEF Like, Invocation, Goto
    <3>2. Like(i, SessionFailed(i))
      BY <1>0 DEF Like, Invocation, SessionFailed, Emit, Return
    <3> QED BY <1>a, <1>11, <3>1, <3>2 DEF OpenSession
  <2>2. \E j : Becomes(p, j)
    BY <1>11, Zenon DEF OpenSession
  <2> QED BY <1>11, <2>1, <2>2, Stutters DEF OpenSession
<1>12. CASE Identity(p)
  <2>1. Like(i, inv'[p])
    <3>1. Like(i, [Emit(Goto(i, "close"), {"auth.invalid-target"}) EXCEPT !.code = "software"])
      BY <1>0 DEF Like, Invocation, Emit, Goto
    <3>2. Like(i, [Goto(i, "pin") EXCEPT !.runUid = Entry(i)])
      BY <1>0 DEF Like, Invocation, Goto
    <3> QED BY <1>a, <1>12, <3>1, <3>2 DEF Identity
  <2>2. \E j : Becomes(p, j)
    BY <1>12, Zenon DEF Identity
  <2> QED BY <1>12, <2>1, <2>2, Stutters DEF Identity
<1>13. CASE Pin(p)
  <2>1. Like(i, inv'[p])
    <3>1. Like(i, Goto(i, "mask"))
      BY <1>0 DEF Like, Invocation, Goto
    <3>2. ASSUME NEW text \in BOOLEAN PROVE Like(i, Named(Result(i, "no-exec"), text))
      BY <1>0 DEF Like, Invocation, Named, Result
    <3> QED BY <1>a, <1>13, <3>1, <3>2 DEF Pin
  <2>2. \E j : Becomes(p, j)
    BY <1>13, Zenon DEF Pin
  <2> QED BY <1>13, <2>1, <2>2, Stutters DEF Pin
<1>14. CASE Mask(p)
  <2>1. Like(i, inv'[p])
    <3>1. Like(i, Goto(i, "fork"))
      BY <1>0 DEF Like, Invocation, Goto
    <3>2. Like(i, Result(i, "software"))
      BY <1>0 DEF Like, Invocation, Result
    <3> QED BY <1>a, <1>14, <3>1, <3>2 DEF Mask
  <2>2. \E j : Becomes(p, j)
    BY <1>14, Zenon DEF Mask
  <2> QED BY <1>14, <2>1, <2>2, Stutters DEF Mask
<1>15. CASE Fork(p)
  <2>1. Like(i, inv'[p])
    <3>1. Like(i, [Goto(i, "wait") EXCEPT !.child = "setup"])
      BY <1>0 DEF Like, Invocation, Goto
    <3>2. Like(i, Unmask(i, "software"))
      BY <1>0 DEF Like, Invocation, Unmask, Die, Result
    <3> QED BY <1>a, <1>15, <3>1, <3>2 DEF Fork
  <2>2. \E j : Becomes(p, j)
    BY <1>15, Zenon DEF Fork
  <2> QED BY <1>15, <2>1, <2>2, Stutters DEF Fork
<1>16. CASE Wait(p)
  <2>1. Like(i, inv'[p])
    <3>1. \A c : Like(i, Unmask(i, c))
      BY <1>0 DEF Like, Invocation, Unmask, Die, Result
    <3> QED BY <1>a, <1>16, <3>1 DEF Wait
  <2>2. \E j : Becomes(p, j)
    BY <1>16, Zenon DEF Wait
  <2> QED BY <1>16, <2>1, <2>2, Stutters DEF Wait
<1>17. CASE Report(p)
  <2>1. Like(i, inv'[p])
    <3>1. \A S : Like(i, Named(Emit(Goto(i, "close"), S), ~Nolog(i)))
      BY <1>0 DEF Like, Invocation, Named, Emit, Goto
    <3> QED BY <1>a, <1>17, <3>1 DEF Report
  <2>2. \E j : Becomes(p, j)
    BY <1>17, Zenon DEF Report
  <2> QED BY <1>17, <2>1, <2>2, Stutters DEF Report
<1>18. CASE Close(p)
  <2>1. Like(i, inv'[p])
    <3>1. Like(i, [Goto(i, "leave") EXCEPT !.pamh = FALSE, !.cred = FALSE, !.sess = FALSE])
      BY <1>0 DEF Like, Invocation, Goto
    <3> QED BY <1>a, <1>18, <3>1 DEF Close
  <2>2. \E j : Becomes(p, j)
    BY <1>18, Zenon DEF Close
  <2> QED BY <1>18, <2>1, <2>2, Stutters DEF Close
<1>19. CASE Exit(p)
  <2>1. Like(i, inv'[p])
    <3>1. Like(i, [Goto(i, "exited") EXCEPT !.pamh = FALSE])
      BY <1>0 DEF Like, Invocation, Goto
    <3>2. Like(i, [Die(i) EXCEPT !.code = "failure"])
      BY <1>0 DEF Like, Invocation, Die
    <3> QED BY <1>a, <1>19, <3>1, <3>2 DEF Exit
  <2>2. \E j : Becomes(p, j)
    BY <1>19, Zenon DEF Exit
  <2> QED BY <1>19, <2>1, <2>2, Stutters DEF Exit
<1>20. CASE Throw(p)
  <2>1. Like(i, inv'[p])
    <3>1. \A l : Like(i, [i EXCEPT !.pc = l, !.code = "software"])
      BY <1>0 DEF Like, Invocation
    <3> QED BY <1>a, <1>20, <3>1 DEF Throw
  <2>2. \E j : Becomes(p, j)
    BY <1>20, Zenon DEF Throw
  <2> QED BY <1>20, <2>1, <2>2, Stutters DEF Throw
<1>21. CASE ChildSetup(p)
  <2>1. Like(i, inv'[p])
    <3>1. ASSUME NEW s, NEW text PROVE Like(i, Named([i EXCEPT !.child = s], text))
      BY <1>0 DEF Like, Invocation, Named
    <3> QED BY <1>a, <1>21, <3>1 DEF ChildSetup
  <2>2. \E j : Becomes(p, j)
    BY <1>21, Zenon DEF ChildSetup
  <2> QED BY <1>21, <2>1, <2>2, Stutters DEF ChildSetup
<1>22. CASE ChildEnds(p)
  <2>1. Like(i, inv'[p])
    <3>1. \A c : Like(i, [i EXCEPT !.child = c])
      BY <1>0 DEF Like, Invocation
    <3> QED BY <1>a, <1>22, <3>1 DEF ChildEnds
  <2>2. \E j : Becomes(p, j)
    BY <1>22, Zenon DEF ChildEnds
  <2> QED BY <1>22, <2>1, <2>2, Stutters DEF ChildEnds
<1>23. CASE Signal(p)
  <2>1. Like(i, inv'[p])
    <3>1. Like(i, [i EXCEPT !.pending = TRUE])
      BY <1>0 DEF Like, Invocation
    <3>2. Like(i, Die(i))
      BY <1>0 DEF Like, Invocation, Die
    <3> QED BY <1>a, <1>23, <3>1, <3>2 DEF Signal
  <2>2. \E j : Becomes(p, j)
    BY <1>23, Zenon DEF Signal
  <2> QED BY <1>23, <2>1, <2>2, Stutters DEF Signal
<1> QED BY <1>1, <1>2, <1>3, <1>4, <1>5, <1>6, <1>7, <1>8, <1>9, <1>10, <1>11, <1>12, <1>13, <1>14, <1>15, <1>16, <1>17, <1>18, <1>19, <1>20, <1>21, <1>22, <1>23

(* -k removes some of the caller's own tickets. *)
LEMMA ClearRevokes ==
    ASSUME IInv, NEW p \in Procs, Clear(p)
    PROVE  Abstract!Revoke(inv[p].req.caller) /\ inv[p].req.caller \in Uids
<1> DEFINE i == inv[p]
           c == i.req.caller
           j == IF (i.req.k /\ i.req.cmd = NoCmd) \/ i.req.op = "list"
                THEN Return(i, "success") ELSE Goto(i, "resolve")
<1>0. i \in Invocation
  BY DEF IInv, TypeOK
<1>1. c \in Uids
  BY <1>0, ConstantsAssumption DEF Invocation, RequestType
<1>2. Like(i, j)
  BY <1>0 DEF Like, Invocation, Return, Goto
<1>3. Becomes(p, j) /\ UNCHANGED proved
  BY DEF Clear
<1>4. UNCHANGED [q \in Procs |-> Held(inv[q])]
  BY <1>2, <1>3, HoldsAfter
<1>5. \E S \in SUBSET {q \in tickets : q[1] = c} : tickets' = tickets \ S
  <2> DEFINE own == {q \in tickets : q[1] = c}
  <2>1. PICK left \in SUBSET own :
          tickets' = IF i.req.k THEN {q \in tickets : q[1] # c} \cup left ELSE tickets
    BY DEF Clear
  <2>2. CASE i.req.k
    <3>1. tickets' = tickets \ (own \ left)
      BY <2>1, <2>2
    <3> QED BY <3>1
  <2>3. CASE ~i.req.k
    <3>1. tickets' = tickets \ {}
      BY <2>1, <2>3
    <3> QED BY <3>1
  <2> QED BY <2>2, <2>3
<1> QED BY <1>1, <1>3, <1>4, <1>5 DEF Abstract!Revoke

(* What pam_authenticate() says earns the pair of the invocation. *)
LEMMA PromptEarns ==
    ASSUME IInv, NEW p \in Procs, Prompt(p)
    PROVE  /\ Abstract!Earn(TicketOf(inv[p])) \/ UNCHANGED Abstract!vars
           /\ TicketOf(inv[p]) \in Uids \X Uids
<1> DEFINE i == inv[p]
           yes == Pass(Pass(i, "caller_acct", "prompted"), "caller_acct", "verified")
           no == AuthFailed(Pass(i, "leave", "prompted"), {})
<1>0. i \in Invocation /\ Sound(i, proved)
  BY Before
<1>1. TicketOf(i) \in Uids \X Uids
  <2>1. i.tickUid \in Uids
    BY <1>0 DEF Prompt, At, Sound, Trusted, PastLookup
  <2> QED BY <1>0, <2>1, ConstantsAssumption DEF Invocation, RequestType, TicketOf
<1>2. Like(i, yes) /\ Like(i, no)
  BY <1>0 DEF Like, Invocation, Pass, AuthFailed, Emit, Return
<1>3. UNCHANGED tickets /\ \/ Becomes(p, yes) /\ proved' = proved \cup {TicketOf(i)}
                           \/ Becomes(p, no) /\ UNCHANGED proved
  BY DEF Prompt
<1> HIDE DEF yes, no
<1>4. UNCHANGED [q \in Procs |-> Held(inv[q])]
  BY <1>2, <1>3, HoldsAfter
<1> QED BY <1>1, <1>3, <1>4 DEF Abstract!Earn, Abstract!vars

(* record() grants a pair that was earned. *)
LEMMA RecordGrants ==
    ASSUME IInv, NEW p \in Procs, Record(p)
    PROVE  /\ Abstract!Grant(TicketOf(inv[p])) \/ UNCHANGED Abstract!vars
           /\ TicketOf(inv[p]) \in Uids \X Uids
<1> DEFINE i == inv[p]
           j == Emit(Goto(i, "setcred"), {"auth.ok"})
<1>0. i \in Invocation /\ Sound(i, proved)
  BY Before
<1>1. TicketOf(i) \in proved
  BY <1>0 DEF Record, At, Sound, Trusted, PastLookup, PastCredential, PastCallerAcct, PastTargetAcct
<1>2. Like(i, j)
  BY <1>0 DEF Like, Invocation, Emit, Goto
<1>3. /\ Becomes(p, j) /\ UNCHANGED proved
      /\ tickets' = tickets \cup {TicketOf(i)} \/ UNCHANGED tickets
  BY DEF Record
<1> HIDE DEF j
<1>4. UNCHANGED [q \in Procs |-> Held(inv[q])]
  BY <1>2, <1>3, HoldsAfter
<1>5. proved \subseteq Uids \X Uids
  BY DEF IInv, TypeOK
<1> QED BY <1>1, <1>3, <1>4, <1>5 DEF Abstract!Grant, Abstract!vars

(* What valid() reports under a persist rule is what the invocation holds. *)
LEMMA LookupFinds ==
    ASSUME IInv, NEW p \in Procs, Lookup(p)
    PROVE  \/ UNCHANGED Abstract!vars
           \/ \E q \in Uids \X Uids : Abstract!Find(p, q)
<1> DEFINE i == inv[p]
           u == Entry(i)
           none == AuthFailed(i, {"auth.invalid-target"})
<1>0. i \in Invocation /\ Sound(i, proved)
  BY Before
<1>1. "ticket" \notin i.passed /\ i.pc = "lookup"
  BY <1>0 DEF Lookup, At, Sound, Asked, PastLookup, PastCredential, PastCallerAcct,
              PastTargetAcct, Guarded, Masked
<1>2. PICK valid \in BOOLEAN :
        /\ valid => <<i.req.caller, u>> \in tickets
        /\ Becomes(p, IF u = NoUid THEN none ELSE Chosen(i, u, valid))
  BY DEF Lookup
<1>3. UNCHANGED <<tickets, proved>>
  BY DEF Lookup
<1>4. Held(i) = <<>>
  BY <1>1 DEF Held
<1>5. Held(none) = <<>>
  BY <1>0, <1>1 DEF Held, AuthFailed, Emit, Return, Invocation
<1>6. Held(Chosen(i, u, valid)) = IF i.rule.persist /\ valid THEN <<i.req.caller, u>> ELSE <<>>
  <2> DEFINE m == select_credential_mode(i.rule, i.req.caller = Root, valid, i.req.n)
             j == [i EXCEPT !.tickUid = u, !.mode = m,
                     !.passed = @ \cup IF i.rule.persist /\ valid THEN {"ticket"} ELSE {}]
  <2>1. /\ j.req = i.req /\ j.tickUid = u
        /\ "ticket" \in j.passed <=> i.rule.persist /\ valid
    <3> HIDE DEF m
    <3> QED BY <1>0, <1>1 DEF Invocation
  <2>2. Like(j, AuthFailed(j, {})) /\ Like(j, Goto(j, "pam_start"))
    <3>1. DOMAIN j = DOMAIN i /\ DOMAIN i = {"pc", "req", "code", "rule", "mode", "polUid", "tickUid",
             "runUid", "pamh", "cred", "sess", "pending", "child", "audit", "named", "passed"}
      <4> HIDE DEF m
      <4> QED BY <1>0 DEF Invocation
    <3>2. j = [d \in DOMAIN j |-> j[d]]
      <4> HIDE DEF m
      <4> QED BY <1>0 DEF Invocation
    <3> HIDE DEF j
    <3> QED BY <3>1, <3>2 DEF Like, AuthFailed, Emit, Return, Goto
  <2>3. Chosen(i, u, valid) = IF m = "RejectNonInteractive" THEN AuthFailed(j, {}) ELSE Goto(j, "pam_start")
    BY DEF Chosen
  <2> HIDE DEF j, m
  <2> QED BY <2>1, <2>2, <2>3 DEF Held, Like, TicketOf
<1>7. [q \in Procs |-> Held(inv[q])]'
        = [[q \in Procs |-> Held(inv[q])]
             EXCEPT ![p] = Held(IF u = NoUid THEN none ELSE Chosen(i, u, valid))]
  BY <1>2, HoldsAfter
<1> HIDE DEF none
<1>8. CASE u # NoUid /\ i.rule.persist /\ valid
  <2> DEFINE q == <<i.req.caller, u>>
  <2>1. q \in tickets /\ tickets \subseteq Uids \X Uids
    BY <1>2, <1>8 DEF IInv, TypeOK
  <2>2. [r \in Procs |-> Held(inv[r])]' = [[r \in Procs |-> Held(inv[r])] EXCEPT ![p] = q]
    BY <1>6, <1>7, <1>8
  <2>3. Abstract!Find(p, q)
    BY <1>3, <2>1, <2>2 DEF Abstract!Find
  <2> QED BY <2>1, <2>3 DEF Abstract!Find
<1>9. CASE ~(u # NoUid /\ i.rule.persist /\ valid)
  <2>1. Held(IF u = NoUid THEN none ELSE Chosen(i, u, valid)) = Held(i)
    BY <1>4, <1>5, <1>6, <1>9
  <2>2. UNCHANGED [q \in Procs |-> Held(inv[q])]
    BY <1>7, <2>1
  <2> QED BY <1>3, <2>2 DEF Abstract!vars
<1> QED BY <1>8, <1>9

(* Every step of Voix is one of Tickets, or leaves the tickets alone. *)
LEMMA Simulation == IInv /\ [Next]_vars => [Abstract!Next]_(Abstract!vars)
<1> SUFFICES ASSUME IInv, [Next]_vars
             PROVE  Abstract!Next \/ UNCHANGED Abstract!vars
  OBVIOUS
<1>0. Abstract!Pairs = Uids \X Uids
  BY DEF Abstract!Pairs
<1>1. ASSUME NEW p \in Procs, Clear(p) PROVE Abstract!Next
  BY <1>1, ClearRevokes DEF Abstract!Next, Abstract!Revoke
<1>2. ASSUME NEW p \in Procs, Prompt(p) PROVE Abstract!Next \/ UNCHANGED Abstract!vars
  BY <1>0, <1>2, PromptEarns DEF Abstract!Next, Abstract!Earn
<1>3. ASSUME NEW p \in Procs, Record(p) PROVE Abstract!Next \/ UNCHANGED Abstract!vars
  BY <1>0, <1>3, RecordGrants DEF Abstract!Next, Abstract!Grant
<1>4. ASSUME NEW p \in Procs, Lookup(p) PROVE Abstract!Next \/ UNCHANGED Abstract!vars
  BY <1>0, <1>4, LookupFinds DEF Abstract!Next
<1>5. CASE EditPasswd \/ UNCHANGED vars
  <2>1. UNCHANGED <<tickets, inv, proved>>
    BY <1>5 DEF EditPasswd, vars
  <2> QED BY <2>1 DEF Abstract!vars, Held, TicketOf
<1> QED BY <1>1, <1>2, <1>3, <1>4, <1>5, OtherStep DEF Next, Step

(* Voix implements Tickets, for every number of invocations, every policy  *)
(* and every history of the user database: whatever interleaves between    *)
(* the prompt, the lookup and the record, a ticket is granted only for a   *)
(* credential that was verified for exactly that caller and that uid.      *)
THEOREM Refinement == Spec => ImplementsTickets
<1>1. Init => Abstract!Init
  <2> SUFFICES ASSUME Init PROVE Abstract!Init
    OBVIOUS
  <2>1. PICK r \in [Procs -> Requests] : inv = [p \in Procs |-> Fresh(r[p])]
    BY DEF Init
  <2>2. \A p \in Procs : Held(inv[p]) = <<>>
    BY <2>1 DEF Held, Fresh
  <2>3. [p \in Procs |-> Held(inv[p])] = [p \in Procs |-> <<>>]
    BY <2>2
  <2> QED BY <2>3 DEF Init, Abstract!Init, Abstract!NoPair
<1>2. IInv /\ [Next]_vars => [Abstract!Next]_(Abstract!vars)
  BY Simulation
<1> QED BY <1>1, <1>2, Invariance, PTL DEF Spec, ImplementsTickets, Abstract!Spec
====
