-------------------------------- MODULE Voix --------------------------------
(***************************************************************************)
(* One voix invocation from main() to its exit status, and several of them *)
(* at once: main.cpp, Voix::execute (voix.cpp), PamAuthenticator           *)
(* (authenticator.cpp) and the parent side of Command::execute             *)
(* (command.cpp).                                                          *)
(*                                                                         *)
(* An invocation is sequential.  What makes it hard is around it: the      *)
(* ticket directory and the user database are shared with other processes  *)
(* and are read several times; PAM, the kernel and the file system may     *)
(* fail at every call; any call may throw; the terminal sends signals; and *)
(* the command outlives none of this by itself.  One action is one         *)
(* external call together with the code up to the next one.                *)
(*                                                                         *)
(* Tickets are here a set of (caller, target uid) pairs, as module Tickets *)
(* describes it; TicketStore is about how files implement that set.  The   *)
(* child between fork() and fexecve() is a single "setup" stage;           *)
(* ChildPipeline is about its stages.                                      *)
(***************************************************************************)
EXTENDS Integers, FiniteSets

CONSTANTS
    Procs,          \* invocations
    Requests,       \* what main() may parse from a command line
    Commands,       \* resolved command lines
    NoCmd,          \* no command on the command line
    Catastrophic,   \* commands isCatastrophicCommand() reports
    Names,          \* target account names
    Uids, NoUid,    \* their uids; not in the user database
    Accounts,       \* bound: what the user database may say of a name
    Rules, NoRule,  \* matching PERMIT rules; no match or a DENY rule
    Policy,         \* command and target uid -> what permit() returns
    Root            \* the caller whose user name is "root"

(* What the parsed command line keeps: the caller (getuid()), -u, the      *)
(* command, -n, -k, and which of the three entry points main() takes.      *)
Ops == {"run", "list", "check"}
RequestType == [caller : Uids, target : Names, cmd : Commands \cup {NoCmd},
                n : BOOLEAN, k : BOOLEAN, op : Ops]
RuleType == [nopass : BOOLEAN, persist : BOOLEAN, nolog : BOOLEAN]

ASSUME ConstantsAssumption ==
    /\ Requests \subseteq RequestType
    /\ Rules \subseteq RuleType
    /\ NoRule \notin Rules /\ NoUid \notin Uids /\ NoCmd \notin Commands
    /\ Catastrophic \subseteq Commands
    /\ Accounts \subseteq Uids \cup {NoUid}
    /\ Policy \in [Commands \X Uids -> Rules \cup {NoRule}]

(* ExitCode of exit_code.hpp by name, plus the statuses of a command that  *)
(* ran: it exited by itself or was killed by a signal.                     *)
CommandStatus == {"cmd-exit", "cmd-signal"}
SetupStatus   == {"failure", "software", "config", "no-exec"}
Codes == {"none", "success", "failure", "usage", "software", "not-permitted",
          "config", "no-exec", "not-found"} \cup CommandStatus

AuditCodes == {"command.requested", "command.rejected", "command.blocked",
               "command.denied", "command.executed", "command.withheld",
               "auth.invalid-target", "auth.ok", "auth.failed",
               "auth.account-failed", "session.open-failed"}

(* The places of an invocation, in program order. *)
BeforeSession == {"load", "clear", "resolve", "gate", "target", "permit",
                  "lookup", "pam_start", "prompt", "caller_acct",
                  "target_acct", "record", "setcred", "open"}
Guarded == {"identity", "pin", "mask", "report"}
Masked  == {"fork", "wait"}
PC == {"idle"} \cup BeforeSession \cup Guarded \cup Masked
        \cup {"close", "leave", "exited", "killed"}

Checks == {"resolve", "gate", "permit", "prompted", "verified", "ticket",
           "caller_acct", "target_acct"}
Modes  == {"none", "SkipTrusted", "UseTicket", "RequireInteractive",
           "RejectNonInteractive"}
Child  == {"none", "setup", "running"} \cup CommandStatus \cup SetupStatus

(***************************************************************************)
(* The state of one invocation.  The last two fields of the record are     *)
(* history: a log line that names the command was written, and the checks  *)
(* that succeeded.                                                         *)
(***************************************************************************)
Invocation ==
    [ pc      : PC,                       \* where it is
      req     : Requests,                 \* the parsed command line
      code    : Codes,                    \* the exit status it will return
      rule    : Rules \cup {NoRule},      \* what permit() returned
      mode    : Modes,                    \* CredentialMode
      polUid  : Uids \cup {NoUid},        \* target uid given to permit()
      tickUid : Uids \cup {NoUid},        \* target uid of the ticket
      runUid  : Uids \cup {NoUid},        \* target uid given to setuid()
      pamh    : BOOLEAN,                  \* it holds a PAM handle
      cred    : BOOLEAN,                  \* PAM credentials are established
      sess    : BOOLEAN,                  \* a PAM session is open
      pending : BOOLEAN,                  \* a signal arrived while blocked
      child   : Child,                    \* its child process
      audit   : SUBSET AuditCodes,        \* the audit records it wrote
      named   : BOOLEAN,
      passed  : SUBSET Checks ]

VARIABLES
    passwd,     \* the user database: name -> uid
    tickets,    \* (caller, target uid) pairs with a ticket file
    inv,        \* the invocations
    proved      \* history: pairs for which a credential was verified

vars == <<passwd, tickets, inv, proved>>

TypeOK ==
    /\ passwd \in [Names -> Uids \cup {NoUid}]
    /\ tickets \subseteq Uids \X Uids
    /\ inv \in [Procs -> Invocation]
    /\ proved \subseteq Uids \X Uids

Fresh(r) ==
    [ pc |-> "idle", req |-> r, code |-> "none", rule |-> NoRule, mode |-> "none",
      polUid |-> NoUid, tickUid |-> NoUid, runUid |-> NoUid,
      pamh |-> FALSE, cred |-> FALSE, sess |-> FALSE, pending |-> FALSE,
      child |-> "none", audit |-> {}, named |-> FALSE, passed |-> {} ]

Init ==
    /\ passwd \in [Names -> Accounts]
    /\ tickets = {}
    /\ \E r \in [Procs -> Requests] : inv = [p \in Procs |-> Fresh(r[p])]
    /\ proved = {}

(***************************************************************************)
(* Steps.  i is the record of the invocation that moves.                   *)
(***************************************************************************)
Goto(i, l)    == [i EXCEPT !.pc = l]
Pass(i, l, c) == [i EXCEPT !.pc = l, !.passed = @ \cup {c}]
Emit(i, S)    == [i EXCEPT !.audit = @ \cup S]
Named(i, b)   == [i EXCEPT !.named = @ \/ b]
(* Return to main() with an exit status, on the way out. *)
Return(i, c)  == [i EXCEPT !.pc = "leave", !.code = c]
(* Mutated form: whatever is no plain exit of the command is reported as 1. *)
Flattened(i, c) == [i EXCEPT !.pc = "report", !.code = IF c = "cmd-exit" THEN c ELSE "failure"]
(* Command::execute returns c to Voix::execute. *)
Result(i, c)  == [i EXCEPT !.pc = "report", !.code = c]
(* authenticate() returns false: the handle is gone, execute() returns 1. *)
AuthFailed(i, S) == [Emit(Return(i, "failure"), {"auth.failed"} \cup S) EXCEPT !.pamh = FALSE]
(* Mutated form: a failed openSession() leaves no record. *)
QuietSessionFailure(i) == Return(i, "failure")
(* openSession() returns false: the handle is left to the destructor. *)
SessionFailed(i) == Emit(Return(i, "failure"), {"session.open-failed"})
(* Death by a signal or _exit(): no destructor runs. *)
Die(i) == [i EXCEPT !.pc = "killed", !.pamh = FALSE]
(* pthread_sigmask(SIG_SETMASK): a signal that waited is delivered now. *)
Unmask(i, c) == IF i.pending THEN Die(i) ELSE Result(i, c)

Nolog(i)    == i.rule # NoRule /\ i.rule.nolog
Entry(i)    == passwd[i.req.target]
TicketOf(i) == <<i.req.caller, i.tickUid>>

At(p, l)      == inv[p].pc = l
Becomes(p, i) == inv' = [inv EXCEPT ![p] = i]

(***************************************************************************)
(* main() and the Voix constructor                                         *)
(***************************************************************************)

(* getopt loop: without a command there must be -l, -c or -k. *)
Start(p) ==
    /\ At(p, "idle")
    /\ Becomes(p, IF inv[p].req.cmd = NoCmd /\ inv[p].req.op = "run" /\ ~inv[p].req.k
                  THEN Return(inv[p], "usage") ELSE Goto(inv[p], "load"))
    /\ UNCHANGED <<passwd, tickets, proved>>

(* raiseCapabilities and Config::load; --check-config ends here, with the  *)
(* verdict of load and validate and before -k is looked at.                *)
Load(p) ==
    /\ At(p, "load")
    /\ \/ Becomes(p, Return(inv[p], "config"))
       \/ inv[p].req.op = "check" /\ Becomes(p, Return(inv[p], "success"))
       \/ inv[p].req.op # "check" /\ Becomes(p, Goto(inv[p], "clear"))
    /\ UNCHANGED <<passwd, tickets, proved>>

(* clear_timestamp() when -k was given, then the dispatch in main(): a     *)
(* bare -k ends, -l lists, anything else executes.  Files that cannot be   *)
(* unlinked are left behind.                                               *)
Clear(p) ==
    /\ At(p, "clear")
    /\ \E left \in SUBSET {q \in tickets : q[1] = inv[p].req.caller} :
         tickets' = IF inv[p].req.k
                    THEN {q \in tickets : q[1] # inv[p].req.caller} \cup left
                    ELSE tickets
    /\ Becomes(p, IF (inv[p].req.k /\ inv[p].req.cmd = NoCmd) \/ inv[p].req.op = "list"
                  THEN Return(inv[p], "success") ELSE Goto(inv[p], "resolve"))
    /\ UNCHANGED <<passwd, proved>>

(***************************************************************************)
(* Voix::execute up to the decision of the policy                          *)
(***************************************************************************)
Resolve(p) ==
    /\ At(p, "resolve")
    /\ \/ Becomes(p, Pass(inv[p], "gate", "resolve"))
       \/ \E c \in {"not-found", "not-permitted", "no-exec"} :
            Becomes(p, Named(Emit(Return(inv[p], c), {"command.rejected"}), TRUE))
    /\ UNCHANGED <<passwd, tickets, proved>>

isCatastrophicCommand(i) == i.req.cmd \in Catastrophic

Gate(p) ==
    /\ At(p, "gate")
    /\ Becomes(p, IF isCatastrophicCommand(inv[p])
                  THEN Named(Emit(Return(inv[p], "not-permitted"), {"command.blocked"}), TRUE)
                  ELSE Pass(inv[p], "target", "gate"))
    /\ UNCHANGED <<passwd, tickets, proved>>

(* The first look at the user database; validateUser() looks once more and *)
(* refuses long names and unusual characters.                              *)
Target(p) ==
    /\ At(p, "target")
    /\ \E validateUser \in BOOLEAN :
         Becomes(p, IF Entry(inv[p]) = NoUid \/ ~validateUser
                    THEN Emit(Return(inv[p], "usage"), {"auth.invalid-target"})
                    ELSE [Goto(inv[p], "permit") EXCEPT !.polUid = Entry(inv[p])])
    /\ UNCHANGED <<passwd, tickets, proved>>

(* permit() and the records around it.  A caller without an entry in the   *)
(* user database matches nothing.                                          *)
Denied(i) == Named(Emit(Return(i, "not-permitted"),
                        {"command.requested", "command.denied"}), TRUE)
Permitted(i, r) ==
    [Named(Emit(Pass(i, "lookup", "permit"),
                IF r.nolog THEN {} ELSE {"command.requested"}), ~r.nolog)
     EXCEPT !.rule = r]
Permit(p) ==
    /\ At(p, "permit")
    /\ \E r \in {Policy[<<inv[p].req.cmd, inv[p].polUid>>], NoRule} :
         Becomes(p, IF r = NoRule THEN Denied(inv[p]) ELSE Permitted(inv[p], r))
    /\ UNCHANGED <<passwd, tickets, proved>>

(***************************************************************************)
(* PamAuthenticator::authenticate                                          *)
(***************************************************************************)

(* Mutated form: -n rejects before the ticket is consulted. *)
RejectBeforeTicket(r, root, ticket_valid, non_interactive) ==
    IF r.nopass \/ root THEN "SkipTrusted"
    ELSE IF non_interactive THEN "RejectNonInteractive"
    ELSE IF r.persist /\ ticket_valid THEN "UseTicket" ELSE "RequireInteractive"
(* Mutated form: a persist rule is enough, with or without a ticket. *)
PersistIsEnough(r, root, ticket_valid, non_interactive) ==
    IF r.nopass \/ root THEN "SkipTrusted"
    ELSE IF r.persist THEN "UseTicket" ELSE "RequireInteractive"
(* Mutated form: -n still prompts. *)
NeverReject(r, root, ticket_valid, non_interactive) ==
    IF r.nopass \/ root THEN "SkipTrusted"
    ELSE IF r.persist /\ ticket_valid THEN "UseTicket" ELSE "RequireInteractive"

select_credential_mode(r, root, ticket_valid, non_interactive) ==
    IF r.nopass \/ root THEN "SkipTrusted"
    ELSE IF r.persist /\ ticket_valid THEN "UseTicket"
    ELSE IF non_interactive THEN "RejectNonInteractive"
    ELSE "RequireInteractive"

(* The second look at the user database, valid(), which may also find the  *)
(* ticket too old or fail to read it, and the choice of the mode.          *)
Chosen(i, u, valid) ==
    LET m == select_credential_mode(i.rule, i.req.caller = Root, valid, i.req.n)
        j == [i EXCEPT !.tickUid = u, !.mode = m,
                       !.passed = @ \cup IF i.rule.persist /\ valid THEN {"ticket"} ELSE {}]
    IN IF m = "RejectNonInteractive" THEN AuthFailed(j, {}) ELSE Goto(j, "pam_start")
(* Mutated form: the result of the second lookup is not checked. *)
LookupUnchecked(p) ==
    /\ At(p, "lookup")
    /\ \E valid \in BOOLEAN :
         /\ valid => <<inv[p].req.caller, Entry(inv[p])>> \in tickets
         /\ Becomes(p, Chosen(inv[p], Entry(inv[p]), valid))
    /\ UNCHANGED <<passwd, tickets, proved>>
(* Mutated form: a file that cannot be read counts as a ticket. *)
LookupTrusting(p) ==
    /\ At(p, "lookup")
    /\ \E valid \in BOOLEAN :
         Becomes(p, IF Entry(inv[p]) = NoUid
                    THEN AuthFailed(inv[p], {"auth.invalid-target"})
                    ELSE Chosen(inv[p], Entry(inv[p]), valid))
    /\ UNCHANGED <<passwd, tickets, proved>>
Lookup(p) ==
    /\ At(p, "lookup")
    /\ \E valid \in BOOLEAN :
         /\ valid => <<inv[p].req.caller, Entry(inv[p])>> \in tickets
         /\ Becomes(p, IF Entry(inv[p]) = NoUid
                       THEN AuthFailed(inv[p], {"auth.invalid-target"})
                       ELSE Chosen(inv[p], Entry(inv[p]), valid))
    /\ UNCHANGED <<passwd, tickets, proved>>

PamStart(p) ==
    /\ At(p, "pam_start")
    /\ \/ Becomes(p, [inv[p] EXCEPT !.pamh = TRUE, !.pc =
              IF inv[p].mode = "RequireInteractive" THEN "prompt" ELSE "caller_acct"])
       \/ Becomes(p, AuthFailed(inv[p], {}))
    /\ UNCHANGED <<passwd, tickets, proved>>

(* pam_authenticate *)
Prompt(p) ==
    /\ At(p, "prompt")
    /\ \/ /\ Becomes(p, Pass(Pass(inv[p], "caller_acct", "prompted"), "caller_acct", "verified"))
          /\ proved' = proved \cup {TicketOf(inv[p])}
       \/ /\ Becomes(p, AuthFailed(Pass(inv[p], "leave", "prompted"), {}))
          /\ UNCHANGED proved
    /\ UNCHANGED <<passwd, tickets>>

(* pam_acct_mgmt for the caller, in every mode *)
CallerAccount(p) ==
    /\ At(p, "caller_acct")
    /\ \/ Becomes(p, Pass(inv[p], "target_acct", "caller_acct"))
       \/ Becomes(p, AuthFailed(inv[p], {}))
    /\ UNCHANGED <<passwd, tickets, proved>>

(* Mutated form: any successful authentication refreshes the ticket. *)
MintsAlways(i) == i.rule.persist
MintsTicket(i) == i.rule.persist /\ i.mode = "RequireInteractive"

(* validate_target_account, with a handle of its own *)
TargetAccount(p) ==
    /\ At(p, "target_acct")
    /\ \/ Becomes(p, IF MintsTicket(inv[p])
                     THEN Pass(inv[p], "record", "target_acct")
                     ELSE Emit(Pass(inv[p], "setcred", "target_acct"), {"auth.ok"}))
       \/ Becomes(p, AuthFailed(inv[p], {"auth.account-failed"}))
    /\ UNCHANGED <<passwd, tickets, proved>>

(* record(); a failure is only a warning *)
Record(p) ==
    /\ At(p, "record")
    /\ \/ tickets' = tickets \cup {TicketOf(inv[p])}
       \/ UNCHANGED tickets
    /\ Becomes(p, Emit(Goto(inv[p], "setcred"), {"auth.ok"}))
    /\ UNCHANGED <<passwd, proved>>

(***************************************************************************)
(* openSession                                                             *)
(***************************************************************************)
SetCred(p) ==
    /\ At(p, "setcred")
    /\ \/ Becomes(p, [Goto(inv[p], "open") EXCEPT !.cred = TRUE])
       \/ Becomes(p, SessionFailed(inv[p]))
    /\ UNCHANGED <<passwd, tickets, proved>>

OpenSession(p) ==
    /\ At(p, "open")
    /\ \/ Becomes(p, [Goto(inv[p], "identity") EXCEPT !.sess = TRUE])
       \/ Becomes(p, SessionFailed(inv[p]))
    /\ UNCHANGED <<passwd, tickets, proved>>

(***************************************************************************)
(* From here on SessionCloser runs closeSession() on every return.         *)
(***************************************************************************)

(* The third look at the user database *)
Identity(p) ==
    /\ At(p, "identity")
    /\ Becomes(p, IF Entry(inv[p]) = NoUid
                  THEN [Emit(Goto(inv[p], "close"), {"auth.invalid-target"})
                        EXCEPT !.code = "software"]
                  ELSE [Goto(inv[p], "pin") EXCEPT !.runUid = Entry(inv[p])])
    /\ UNCHANGED <<passwd, tickets, proved>>

(* The login shell is resolved if asked for and the executable is opened;  *)
(* a failure is reported with the path of the shell or of the command.     *)
Pin(p) ==
    /\ At(p, "pin")
    /\ \/ Becomes(p, Goto(inv[p], "mask"))
       \/ \E text \in BOOLEAN : Becomes(p, Named(Result(inv[p], "no-exec"), text))
    /\ UNCHANGED <<passwd, tickets, proved>>

(* block_signals_for_fork *)
Mask(p) ==
    /\ At(p, "mask")
    /\ \/ Becomes(p, Goto(inv[p], "fork"))
       \/ Becomes(p, Result(inv[p], "software"))
    /\ UNCHANGED <<passwd, tickets, proved>>

Fork(p) ==
    /\ At(p, "fork")
    /\ \/ Becomes(p, [Goto(inv[p], "wait") EXCEPT !.child = "setup"])
       \/ Becomes(p, Unmask(inv[p], "software"))
    /\ UNCHANGED <<passwd, tickets, proved>>

(* waitpid() returns the status of the child, or fails because the caller  *)
(* left SIGCHLD ignored.                                                   *)
(* Mutated form: a child that fails before fexecve() is not reaped.        *)
ReapsCommandsOnly(i) == i.child \in CommandStatus
Reapable(i) == i.child \in CommandStatus \cup SetupStatus
Wait(p) ==
    /\ At(p, "wait")
    /\ Reapable(inv[p])
    /\ \E c \in {inv[p].child, "software"} : Becomes(p, Unmask(inv[p], c))
    /\ UNCHANGED <<passwd, tickets, proved>>

Report(p) ==
    /\ At(p, "report")
    /\ Becomes(p, Named(Emit(Goto(inv[p], "close"),
                             IF Nolog(inv[p]) THEN {"command.withheld"}
                             ELSE {"command.executed"}), ~Nolog(inv[p])))
    /\ UNCHANGED <<passwd, tickets, proved>>

(* Mutated form: the credentials are not deleted. *)
CloseSessionOnly(p) ==
    /\ At(p, "close")
    /\ Becomes(p, [Goto(inv[p], "leave") EXCEPT !.pamh = FALSE, !.sess = FALSE])
    /\ UNCHANGED <<passwd, tickets, proved>>
(* closeSession: pam_close_session, pam_setcred(DELETE), pam_end *)
Close(p) ==
    /\ At(p, "close")
    /\ Becomes(p, [Goto(inv[p], "leave") EXCEPT !.pamh = FALSE, !.cred = FALSE, !.sess = FALSE])
    /\ UNCHANGED <<passwd, tickets, proved>>

(* main() drops its capabilities and returns: ~PamAuthenticator runs.      *)
(* dropCapabilities() ends the process with _exit(1) when it fails;        *)
(* --check-config, a missing command and a bare -k that succeeded return   *)
(* without it.                                                             *)
Drops(i) ==
    /\ i.req.op # "check"
    /\ \/ i.req.cmd # NoCmd
       \/ i.req.k /\ i.code # "success"
       \/ ~i.req.k /\ i.req.op = "list"
Exit(p) ==
    /\ At(p, "leave")
    /\ \/ Becomes(p, [Goto(inv[p], "exited") EXCEPT !.pamh = FALSE])
       \/ Drops(inv[p]) /\ Becomes(p, [Die(inv[p]) EXCEPT !.code = "failure"])
    /\ UNCHANGED <<passwd, tickets, proved>>

(* An exception (memory, YAML, regex, file system) unwinds to main(). *)
(* Mutated form: closeSession is called at the end of execute() only. *)
UnwindWithoutGuard(l) == "leave"
UnwindTo(l) == IF l \in Guarded THEN "close" ELSE "leave"
Throw(p) ==
    /\ inv[p].pc \in BeforeSession \cup Guarded
    /\ Becomes(p, [inv[p] EXCEPT !.pc = UnwindTo(inv[p].pc), !.code = "software"])
    /\ UNCHANGED <<passwd, tickets, proved>>

(***************************************************************************)
(* The child process, the terminal and the administrator                   *)
(***************************************************************************)

(* The child logs the command unless nolog, runs its stages and executes;  *)
(* a stage or fexecve() that fails ends it, the latter naming the command. *)
ChildSetup(p) ==
    /\ inv[p].child = "setup"
    /\ \/ Becomes(p, Named([inv[p] EXCEPT !.child = "running"], ~Nolog(inv[p])))
       \/ \E s \in SetupStatus \cup {"cmd-signal"}, text \in {~Nolog(inv[p]), TRUE} :
            Becomes(p, Named([inv[p] EXCEPT !.child = s], text))
    /\ UNCHANGED <<passwd, tickets, proved>>

ChildEnds(p) ==
    /\ inv[p].child = "running"
    /\ \E s \in CommandStatus : Becomes(p, [inv[p] EXCEPT !.child = s])
    /\ UNCHANGED <<passwd, tickets, proved>>

(* SIGINT, SIGTERM, SIGHUP...: voix installs no handler, so it dies where  *)
(* signals are not blocked.                                                *)
Signal(p) ==
    /\ inv[p].pc \notin {"idle", "exited", "killed"}
    /\ Becomes(p, IF inv[p].pc \in Masked
                  THEN [inv[p] EXCEPT !.pending = TRUE] ELSE Die(inv[p]))
    /\ UNCHANGED <<passwd, tickets, proved>>

(* An administrator edits the user database. *)
EditPasswd ==
    /\ \E t \in Names, u \in Accounts :
          passwd[t] # u /\ passwd' = [passwd EXCEPT ![t] = u]
    /\ UNCHANGED <<tickets, inv, proved>>

Step(p) ==
    \/ Start(p) \/ Load(p) \/ Clear(p)
    \/ Resolve(p) \/ Gate(p) \/ Target(p) \/ Permit(p)
    \/ Lookup(p) \/ PamStart(p) \/ Prompt(p) \/ CallerAccount(p) \/ TargetAccount(p)
    \/ Record(p) \/ SetCred(p) \/ OpenSession(p)
    \/ Identity(p) \/ Pin(p) \/ Mask(p) \/ Fork(p) \/ Wait(p) \/ Report(p)
    \/ Close(p) \/ Exit(p)

Next ==
    \/ \E p \in Procs : Step(p) \/ Throw(p) \/ ChildSetup(p) \/ ChildEnds(p) \/ Signal(p)
    \/ EditPasswd

Spec == Init /\ [][Next]_vars

(* The process and its child are scheduled, PAM modules and the user at    *)
(* the prompt answer, and the command ends.                                *)
Fairness == \A p \in Procs : WF_vars(Step(p)) /\ WF_vars(ChildSetup(p) \/ ChildEnds(p))
FairSpec == Spec /\ Fairness

(***************************************************************************)
(* Properties                                                              *)
(***************************************************************************)

(* A child exists only after the command was resolved, passed the          *)
(* catastrophic-command gate, was permitted for the uid it was asked for,  *)
(* both accounts were validated, and the caller's authority came from a    *)
(* trusting rule, from being root, from a verified credential, or from a   *)
(* valid ticket under a persist rule.                                      *)
Authorised(i) ==
    /\ {"resolve", "gate", "permit", "caller_acct", "target_acct"} \subseteq i.passed
    /\ i.req.cmd \notin Catastrophic
    /\ i.rule # NoRule
    /\ i.rule = Policy[<<i.req.cmd, i.polUid>>]
    /\ \/ i.rule.nopass
       \/ i.req.caller = Root
       \/ "verified" \in i.passed
       \/ i.rule.persist /\ "ticket" \in i.passed
RunsOnlyAuthorised == \A p \in Procs : inv[p].child # "none" => Authorised(inv[p])

(* Every valid ticket goes back to a credential verified for that caller   *)
(* and that target uid: a trusted, root or ticket-based run never mints or *)
(* refreshes one, whatever other invocations do in between.                *)
TicketsAreProved == tickets \subseteq proved

(* -n never prompts. *)
NonInteractiveNeverPrompts ==
    \A p \in Procs : inv[p].req.n => "prompted" \notin inv[p].passed

(* A valid ticket of a persist rule is consulted before -n rejects: who is *)
(* rejected for lack of interaction saw no valid ticket.                   *)
TicketBeatsNonInteractive ==
    \A p \in Procs : inv[p].mode = "RejectNonInteractive" => "ticket" \notin inv[p].passed

(* An invocation that returns, normally or through an exception, has no    *)
(* open PAM session and no handle, and no session is closed while the      *)
(* child may be running.                                                   *)
ReturnClosesSession ==
    \A p \in Procs :
        /\ inv[p].pc = "exited" => ~inv[p].sess /\ ~inv[p].pamh
        /\ inv[p].child \in {"setup", "running"} => inv[p].sess

(* An execute() that returned a result of its own left a record of what    *)
(* became of the request, and a forked child always left its outcome.      *)
Outcomes == {"command.rejected", "command.blocked", "command.denied",
             "auth.invalid-target", "auth.failed", "session.open-failed",
             "command.executed", "command.withheld"}
OutcomeAudited ==
    \A p \in Procs :
        inv[p].pc = "exited" /\ inv[p].code \notin {"software", "config"}
        /\ inv[p].req.op = "run" /\ inv[p].req.cmd # NoCmd =>
            /\ inv[p].audit \cap Outcomes # {}
            /\ inv[p].child # "none" =>
                 inv[p].audit \cap {"command.executed", "command.withheld"} # {}

(* Credentials that pam_setcred() established are deleted before voix      *)
(* returns.  They are left behind only where the session could not be      *)
(* opened, so that the guard that would delete them was never there: then  *)
(* nothing ran with them, and the failure is on record or was an           *)
(* exception.                                                              *)
CredentialsLeftOnlyUnused ==
    \A p \in Procs : inv[p].pc = "exited" /\ inv[p].cred =>
        /\ inv[p].child = "none"
        /\ "session.open-failed" \in inv[p].audit \/ inv[p].code = "software"

(* The exit status tells the caller what ran: the status of a command only *)
(* if that command ended with it, and once a child was started its status  *)
(* or "software", never that of a refusal.                                 *)
StatusTellsWhatRan ==
    \A p \in Procs : inv[p].pc = "exited" =>
        /\ inv[p].code \in CommandStatus => inv[p].child = inv[p].code
        /\ inv[p].child # "none" => inv[p].code \in {inv[p].child, "software"}

(* Voix implements Tickets: for every interleaving of invocations, a       *)
(* ticket is granted only for a verified credential, revoked only by its   *)
(* own caller, and used only if it was there when it was looked up.        *)
Held(i) == IF "ticket" \in i.passed THEN TicketOf(i) ELSE <<>>
Abstract == INSTANCE Tickets WITH
    Clients <- Procs, Callers <- Uids, Targets <- Uids,
    earned <- proved, tickets <- tickets, holds <- [p \in Procs |-> Held(inv[p])]
ImplementsTickets == Abstract!Spec

(* Every invocation that got past the command line ends. *)
Terminates ==
    \A p \in Procs : inv[p].pc = "load" ~> inv[p].pc \in {"exited", "killed"}

(* The comment on SessionCloser: "so a PAM session is never leaked".  Here *)
(* for an invocation whose child was started, whatever ended the parent.   *)
SessionNeverLeaked ==
    \A p \in Procs : inv[p].pc \in {"exited", "killed"} /\ inv[p].child # "none"
                     => ~inv[p].sess

(* "The nolog option suppresses audit records containing the command text" *)
NologHidesCommand == \A p \in Procs : Nolog(inv[p]) => ~inv[p].named

(* "Resolve the full target identity once": the uid that runs is the uid   *)
(* the policy permitted.                                                   *)
RunsAsPermitted ==
    \A p \in Procs : inv[p].child # "none" => inv[p].runUid = inv[p].polUid
====
