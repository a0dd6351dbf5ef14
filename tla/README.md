# Voix in TLA+

Voix is a setuid-root broker, in the family of sudo and doas: it decides by a
policy whether a caller may run a command as another user, asks PAM for the
caller's credential, remembers a verified credential for 15 minutes, and runs
the command in a confined child process. This directory holds TLA+ models of
its core, the TLC configurations that check them on small instances, and
TLAPS proofs of their main properties for every value of the constants.

All source paths below are relative to `src/` of the repository (`src/voix.cpp`,
`include/voix.hpp`, ...). `PROJECT.json` names, for each definition, the lines
it models, and for each property a mutated definition that breaks it.

## 1. Inventory

| Component | State it keeps | Operations | Talks to |
|---|---|---|---|
| `main.cpp` | parsed options, exit status, raised capabilities | option dispatch, catch clauses, `dropCapabilities` | `Voix`, `Config`, `PolicyAnalyzer` |
| `voix.cpp` `Voix` | the loaded configuration and the collaborators | constructor (load, `-k`), `execute`, `list_commands` | all below |
| `authenticator.cpp` `PamAuthenticator` | the PAM handle | `authenticate`, `openSession`, `closeSession`, `clear_timestamp` | PAM, `TicketStore`, user database |
| `ticket_store.cpp` `TicketStore` | files `<sanctuary>/timestamp/<caller>-<target>` | `record`, `valid`, `clear_all_for_caller` | `FileUtils`; shared with every other voix process |
| `command.cpp` `Command`, parent | signal mask, pinned descriptor, child pid | pin, block signals, `fork`, `waitpid` | kernel, child |
| `command.cpp` `Command`, child | identity, capabilities, limits, descriptors, environment, filters | ten stages and `fexecve` | kernel, `Security` |
| `permission_checker.cpp` | none (reads the rules) | `permit`, `list_permitted_entries` | `Config`, user database |
| `security.cpp` | none | destructive-command gate, capabilities, seccomp filters | kernel |
| `file_utils.cpp` | none | secure read and write, executable resolution and pinning, trusted paths | file system |
| `config.cpp` | rules, profiles, paths, blocklist | `load`, `validate`, getters | YAML, `FileUtils` |
| `logger.cpp`, `audit.hpp` | log file, syslog socket | `log`, `report_error` | file system |
| `system_identity.cpp`, `system_utils.cpp` | none | passwd and group lookups | user database |
| `pam_utils.cpp` | terminal mode | `pam_conversation` | terminal |
| `policy_analyzer.cpp` | none | warnings of `--check-config` | `Config` |

One invocation is a sequential program. It is hard to test because of what
surrounds it:

- **Sharing without locks.** Tickets are rewritten in place by any number of
  processes; the user database is read three times per invocation.
- **Partial failure.** Each of some twenty external calls has its own early
  return, and each must undo what was done and leave an audit record. Any call
  may throw.
- **Signals.** No handler is installed. Signals are blocked only around
  `fork()` and `waitpid()`.
- **Kernel state with an order.** The stages of the child use privileges that
  earlier or later stages remove or bring back.
- **Names looked up more than once.** The configuration's path, the sanctuary
  and the executable are walked, checked and opened by separate system calls,
  while users and the administrator change the directories on the way.
- **Prediction.** `-l` has to say what `permit()` would decide, without a
  request, from the scopes of whole rules, and
  the warnings of `--check-config` from pairs of rules.

`PROJECT.json` lists these hazards one by one, each at its line.

## 2. Modules

| Module | Models | Proofs |
|---|---|---|
| `Tickets` | what the rest of the program may rely on: a set of earned (caller, target uid) pairs | refined by `TicketStore` and by `Voix` |
| `TicketStore` | `ticket_store.cpp`, `read_file_secure`, `write_file_secure`, `ensure_private_directory`, `clear_timestamp` | `TicketStoreProofs` |
| `Voix` | `main.cpp`, `voix.cpp`, `authenticator.cpp`, the parent side of `command.cpp` | `VoixProofs` |
| `ChildPipeline` | the child side of `command.cpp`, `dropCapabilities`, the choice of the seccomp filter | `ChildPipelineProofs` |
| `Policy` | `rule.hpp` and whom a rule is about (`identity_matches`, `rule_target_uid`) | used by the next four |
| `PermissionChecker` | `permission_checker.cpp` | `PermissionProofs` |
| `PolicyAnalyzer` | the checks of `policy_analyzer.cpp` that read the rules | `PermissionProofs` |
| `Config` | `Config::load`, `validate`, `get_profile`, `is_trusted_path`, `is_file_safe` | `ConfigProofs`, on `NatFacts` |
| `Executable` | `resolve_executable`, `open_executable`, `isCatastrophicCommand`, the comparison of commands in `permit()` | `ExecutableProofs` |

The `MC...` modules give the constants their values for TLC. How the modules
fit together: `TicketStore` and `Voix` both implement `Tickets`, so that the set
of pairs in `Voix` is what the files of `TicketStore` provide. `Executable`
extends `Config`: the rules, search path and blocklist it uses are those the
parsed document gave. `Policy` is the common vocabulary: the rules `Config`
makes are the rules `PermissionChecker` decides by. `Voix` sees the child's
setup as one step with several outcomes, which `ChildPipeline` takes apart; the
resolution, the gate and the pinning as steps that succeed or fail, which
`Executable` takes apart; and the policy as a function from command and target
uid to a rule, which `PermissionChecker` computes.

### Tickets

Five actions: a pair is earned, granted, revoked (all, some or none of one
caller's pairs), found by a client, or dropped by it. `TicketStore` maps a pair
to "has a file name in the directory", earned to "some second was minted for
it", and a client's holding to the places of `valid()` where the file is open.
`Voix` maps them to its sets `proved` and `tickets`, and the holding to a
ticket that was accepted for the invocation. The mapping leaves out age:
`AcceptedIsFresh` is about that.

### TicketStore

One action is one system call. `dir` holds the directory entries, `data` the
contents of inodes (which outlive their names while a descriptor is open),
`now` the clock. A process slot is at one of the places `PC`. `RecordBegin`,
`RecordOpen`, `RecordWrite` are `record()`: the clock is read, the file is
opened with `O_TRUNC`, and the text is written by one or more `write()` calls of
any length. `ValidBegin`, `ValidOpen`, `ValidSize`, `ValidRead`, `ValidJudge`
are `valid()`; `ClearBegin`, `ClearRemove`, `ClearSkip`, `ClearEnd` are
`clear_all_for_caller()`, whose iterator may or may not see an entry made while
it runs and ignores errors. `Abandon` is every failing call (an unsafe file or
directory included), a killed process, and the return to the caller. `Tick`
moves the clock to any second.

Numbers keep their texts, because the code works on texts: file names are
concatenated decimal strings, `-k` compares a prefix, and a torn stamp is a
shorter decimal string. The two library conversions are constants with the
assumptions `TextAssumption` and `TornAssumption`; the latter says that a stamp
that lost its last digits is never a recent second (true for ten-digit epochs
and a lifetime of 900 seconds).

History variables record which seconds were minted for a pair, and which files
mix the bytes of two overlapping `record()` calls. `record()` rewrites in place,
so for such a file the digits may come from two stamps; `AcceptedIsFresh`
excludes exactly these readers (`torn`), and says so.

### Voix

Each invocation is a record `inv[p]`; its field `pc` is the external call it is
about to make, and one action is that call with the code up to the next one.
The fields `polUid`, `tickUid` and `runUid` are the results of the three user
database lookups (`voix.cpp:141`, `authenticator.cpp:102`, `voix.cpp:209`).
`pamh`, `cred`, `sess` are what `PamAuthenticator` holds in PAM. `audit` is the
set of audit codes written; `named` says that a log line named the command;
`passed` the checks that succeeded.

`Throw` is an exception at any place outside the region where signals are
blocked: it unwinds to `main()` through `SessionCloser` if that exists. (The
code in that region, `fork()` and `waitpid()`, is C; its only C++ is the
formatting of an error report.) `Signal` is a terminating signal: it kills the
process, or stays pending where signals are blocked, and `Unmask` delivers it.
`EditPasswd` is an administrator. A ticket that is in the set may still be
refused by `Lookup` (it may be too old, or its file unreadable), never the other
way round.

Restoring the mask in the parent is taken to succeed: `pthread_sigmask` with
`SIG_SETMASK` and a valid set has no failure.

### ChildPipeline

The state is the kernel's view of the child: three uids, gid and groups,
capabilities, `no_new_privs`, seccomp filter, descriptor table, environment.
`Order` is the order of the calls in `Command::execute`. The kernel's rules are
external definitions (`MaySetUid`, `Assigned`, `MayLimit`, `Gained`): who may
change ids, that a process loses its capabilities with its last uid 0, that uid
0 regains them at `execve` unless `no_new_privs` is set. Every system call may
also fail for a reason of its own; `fault` remembers that, so that `OrderWorks`
can say that nothing else makes the child fail. The environment is modelled
name by name: `raw` says how often the caller's environment has it, `Keeps`
whether `sanitize_environment` copies it (the run has one name for each way the
code treats a name), and `env` where the value came from in the end.
The child starts with effective and saved uid 0 and all capabilities, because
only an invocation with effective uid 0 gets past `Config::load`
(`LoadsOnlyAsRoot`); its real uid is the caller's. The model is of a build with
libcap and libseccomp. The seccomp mode "unknown" is refused by `Config::load`
(`ProfilesUsable`); the child's own check is modelled as the backstop it is.

### PermissionChecker

`Permit` asks `permit()` about one request. `ListRule` is one round of the loop
of `list_permitted_entries()`. Texts are values; `Denote` gives what a glob
matches, `Subst` the effect of `%u`, `Canonical` the path `resolve_executable`
returns, `Number` what `strtol` reads, and uids wrap at `UidModulus`. Nothing is
assumed of patterns except that a text without `*` and `?` matches itself only.

### PolicyAnalyzer

The warnings of `--check-config` change nothing, so there are no actions: the
checks are functions of the rules, and `WarningsCanBeTrusted` compares them with
the decision of `permit()`. `DerivedFromText` is the assumption that equal texts
in one document were turned into equal ids, that is, that the user database did
not change while the document was read.

### Config

`load` is the place of `Config::load`, one action per system call: `Exists`,
`WalkConfig` (one `lstat()` per component), `Symlink`, `Open` (with `fstat()`),
`Read` (with the parsing), `Directory`, `WalkSanctuary`, and `Validate` for
`--check-config`. The tree has two paths of `Depth` components below "/", which
is taken to be root's. A component is a directory, a file, a link or nothing,
with an owner and a write permission for others; `by` is history and says who
put it there. `UserEdit` rebinds whatever lies below a component that a user
may write, `RootEdit` is the administrator; `care` remembers whether the latter
opened the tree to others while `load()` ran. A link counts as loose: where it
leads is not modelled, so what lies beyond it may change at any time.

A document is a record with optional fields, as the YAML library hands it over;
`parse` makes the settings of it. The acl section is read user entries first,
then group entries, whatever their order in the file.

### Executable

`exe` is the place of `Voix::execute` between resolution and pinning: `Realpath`,
`Stat` and `Parent` for each candidate of the search, `Gate`, `Permit` (the
request is canonicalised again), `Match` once per rule (each rule's command is
canonicalised by itself), `Pin`. The gate and the comparison with one rule are
one step each. Authentication takes place before `Pin` and is just time in
which others act: users make and remove links, hard links, directories and
files of their own; root installs, removes, rewrites files and changes their
modes. `disturbed` and `reused` record which directories and inodes that
concerned, and the properties name exactly the changes they exclude. Changes
that precede the search are part of the initial state, which the scenarios
vary. A login shell (`-i`) resolves the shell by the same code; that second
resolution is not repeated here.

## 3. Runs

| Run | Shows | Instance |
|---|---|---|
| `tickets` | `AcceptedIsFresh`: no torn, stale, future or foreign file is taken for a ticket. `RevokedIsGone`: a finished `-k` leaves nothing that was not recorded since. | 2 processes, 1 pair, 2 inodes, 3 seconds with lifetime 1 |
| `ticket_scopes` | `OnlyOwnTicketsRemoved`; `ImplementsTickets`: the files implement `Tickets` | callers 1 and 10, 1 second |
| `tickets_clear` | finding: `ClearedMeansGone` fails | 1 caller, 2 targets |
| `voix` | `RunsOnlyAuthorised`, `TicketsAreProved`, `NonInteractiveNeverPrompts`, `TicketBeatsNonInteractive`, `ReturnClosesSession`, `OutcomeAudited`, `CredentialsLeftOnlyUnused`, `StatusTellsWhatRan`, `ImplementsTickets` | 2 invocations, 9 command lines, a persist rule and a trusting nolog rule, an account that comes and goes |
| `voix_live` | `Terminates` | 1 invocation |
| `voix_session`, `voix_nolog`, `voix_uid` | findings | as `voix` |
| `child` | `RunsAsTarget`, `RunsConfined`, `OnlyPinnedDescriptor`, `OrderWorks`, `EnvironmentFiltered`, `ForcedVariables` | all profile switches; targets root and ordinary; callers 0, 1 and 2, the last being the target; 2 descriptor tables; soft limit 5 |
| `child_env` | finding: `ForcedVariables` fails when a name occurs twice | 1 descriptor table |
| `permissions` | `UnqualifiedIsPermitted`, `GrantedIsListed`, `WarningsCanBeTrusted` | all 2-rule policies over 34 rules, all 3-rule policies over 16 overlapping rules, 20 requests |
| `launch` | of `load()`: `ConfigTrusted`, `LoadsOnlyAsRoot`, `WellKeptLoads`, `EntriesMeanWhatTheySay`, `ProfilesUsable`; of the executable: `SearchFindsFirst`, `SameProgram`, `PermitNamesExecuted`, `GateSeesExecuted` | paths of 2 components, 2 links followed, 3 inodes, 4 directories of which one is a link and two are users'; see below |

Why these bounds are enough to be interesting. Two processes exercise each
pair of operations at each system call; two-digit stamps that straddle a carry
make a torn stamp and a mixed one differ from each real one; uid 1 and uid 10
share a textual prefix. In `voix`, two invocations are what it takes for one to
record, use or clear a ticket between two steps of the other. In `child`, the
seven descriptors include one above the soft limit, one that is already 3 and one
below 3. In `permissions`, three rules are two denies before a permit, or a deny
between two permits. Processes and inodes are interchangeable, so the safety
runs of `TicketStore` and `Voix` use symmetry; the liveness run does not.

`launch` starts from four families of hosts (805111 states): every state of the
configuration's or the sanctuary's path that root can have left, with one
concurrent change; documents with each kind of entry that `load()` treats in a
way of its own, undisturbed; file systems with links, hard links, unsafe files
and a loop, under five documents and three spellings of the command, with one
concurrent change; and one such file system with two changes, which is what it
takes to free an inode number and use it again. Two components tell the last one
from the others, which the code treats differently. The families are separate
because loading and resolving share nothing but the settings.

Deadlock is not checked in `voix`, `child`, `permissions` and `launch`: an
invocation, a child and a listing end.

### Fairness

`Terminates` assumes weak fairness of each invocation's own steps and of its
child (`Fairness`). That stands for: the scheduler runs both, a PAM module and
the user at the prompt eventually answer, and the command eventually ends. The
code has no time limit for any of these, so none of them can be left out. No
fairness is assumed of signals, exceptions or the administrator.

### Findings

Five runs state what a comment or a document says and TLC refutes; the quoted
lines are in `PROJECT.json`.

1. `tickets_clear`: `-k` reports success although an unlink failed
   (`ticket_store.cpp:70`).
2. `voix_session`: a signal that arrived while the command ran kills the parent
   at `command.cpp:175`, before the session is closed.
3. `voix_nolog`: two error paths log the path of a `nolog` command
   (`command.cpp:97`, `command.cpp:540`).
4. `voix_uid`: the uid given to `setuid()` is looked up again after policy and
   authentication (`voix.cpp:209`).
5. `child_env`: with a duplicated name in the inherited environment the forced
   value is overwritten by the caller's (`command.cpp:323` and `370`).

Smaller observations without a run of their own:

- `docs/CLI.md` says that a permit fully covered by an earlier deny is omitted
  from `-l`; for two different patterns (`*` and `a*`) the code only marks it as
  partially restricted.
- `THREATS.md` calls the privilege transition uninterruptible; the child restores
  the caller's mask before it (`command.cpp:209`), which action `Killed` models.
- `voix.cpp:90` says that gate, policy and execution all use the same canonical
  executable. They resolve it separately; that they agree needs the
  directories on the way to stay as they are in between (`Settled` in
  `PermitNamesExecuted` and `GateSeesExecuted`). What is opened is the validated
  inode in any case (`SameProgram`), unless its number was freed and reused by
  an installation, which the repository's `TODO.md` admits.
- `security.cpp:289` says a symbolic link cannot rename a destructive tool; a
  command whose name is rm or dd is judged by its arguments only, whatever it
  leads to. `GateSeesExecuted` states the exception.
- A blocklist entry without a slash denotes a file in the caller's current
  directory, since it is made canonical from there.
- An acl entry with an empty user name applies to everybody, and relative
  entries of `core.paths` are followed from the caller's directory; only
  `--check-config` refuses either (`Validates`).
- `README.md:343` and the comment at `security.cpp:342` describe an installation
  with file capabilities instead of the setuid bit. Its effective uid is the
  caller's, and `load()` then refuses a configuration owned by root
  (`LoadsOnlyAsRoot`).
- A rule is called redundant without a comparison of arguments
  (`policy_analyzer.cpp:56`); `WarningsCanBeTrusted` says for which of these
  pairs the later rule is indeed without effect.

## 4. Proofs

`tlapm` checks every step of the seven proof modules with SMT, Zenon and, for the
temporal steps, LS4. The theorems hold for every number of processes, uids,
rules, requests, policies, path components, inodes and descriptors that satisfies
the named assumptions of the module. Every invariant and action property of a
passing run is stated by a theorem; each inductive invariant was checked by TLC
on the instances of section 3 before it was proved.

**`VoixProofs`**, from `ConstantsAssumption`. None of the properties is
inductive: that a child is authorised depends on what each earlier place
guaranteed. `IInv` is `TypeOK`, `TicketsAreProved`, and for each invocation
`Sound`, which says for each place what must have happened before it:
`Parsed` (which requests reach it), `Checked` (the checks passed and the rule
found), `Trusted` (where the authority comes from), `Asked` (prompts and the
credential mode), `Bracketed` (handle, session and child belong together),
`Recorded` (the audit records so far) and `Ended` (credentials and status once
it returned). A step touches one record, so the proof
has one lemma per group of actions, and the steps of others follow from
`proved` only growing. Theorems: `Typing`, `OnlyAuthorisedRun`, `TicketsProved`,
`NonInteractive`, `TicketFirst`, `SessionsClosed`, `OutcomesAudited`,
`CredentialsDeleted`, `StatusReported`, and `Refinement`: `Voix` implements `Tickets`. For the latter
each action is either one of `Clear`, `Prompt`, `Record`, `Lookup`, which are
mapped to `Revoke`, `Earn`, `Grant`, `Find`, or it leaves the tickets, the earned
pairs and what each invocation holds alone.

**`TicketStoreProofs`**, from `TextAssumption`, `TornAssumption` (used for
`AcceptedFresh` only) and `MiscAssumption`.
`RevokedIsGone` needs to know what an unfinished scan still guarantees:
`Scanned` says that while a clear runs, each of its caller's names that exists
is still to be visited, was skipped, or was recorded since. That file names
determine the pair, and that the prefix `<uid>-` determines the caller, are
lemmas about concatenation. Theorems: `Typing`, `Revocation`,
`OwnTicketsOnly` (an action property), and `Refinement`: the store implements
`Tickets`. The refinement needs one more invariant, `Recording` (who is about to
create a file has minted a second for its pair), and the lemma that no name
stands for two pairs: creating or unlinking one file changes one pair.

`AcceptedFresh` is about bytes, and needs to know whose they are. `StampInv`
says: an inode belongs to at most one pair (`OnePair`), through its name or the
descriptors of processes at work for the pair, also after the name is gone;
while nobody has mixed two stamps in it, it holds the beginning of a stamp that
`record()` was called with for that pair (`Contents`), exactly as far as its
writer has come, who is then its only writer (`Alone`); and what a reader has
read is a beginning of what the file holds (`HasRead`), unless the reader is in
`torn`. So what `valid()` judges is the beginning of a minted stamp: the whole
text, which is what it says, or a shorter one, which `TornAssumption` excludes.

**`PermissionProofs`**, from `PolicyAssumption`, `VocabularyAssumption` and
`DerivedFromText`. The lemmas say what the three
answers of `scope_coverage` mean: `FullCovers` (each request in the permit's
scope is in the deny's) and `NoneIsDisjoint` (none is). `IInv` then relates the
accumulated denies and entries to the rules already passed. `SameCovers`
says that of two rules the analyzer calls the same, the earlier matches whatever
the later does if it has no arguments or the same ones. Theorems: `Typing`,
`UnqualifiedPermitted`, `GrantedListed`, `WarningsTrusted`.

**`ChildPipelineProofs`**, from `JobsAssumption`. The stages run in a fixed
order, so the invariant `Inv` says from which stage on each fact holds: full
capabilities until `setuid()` (`Privileged`, which is why the three identity
calls are permitted), the target's ids from their calls on (`IdentityKept`), no
capabilities, `no_new_privs` and the filter on the restricted tier
(`ConfinementKept`), the pinned descriptor at 3 and nothing above it
(`DescriptorsKept`), and where the variables come from (`EnvironmentKept`).
Theorems: `TypeCorrect`, `IdentityComplete`, `ConfinementComplete`,
`DescriptorsScrubbed`, `OrderSound`, `EnvironmentSound`, `VariablesForced`. The
last one has the hypothesis that no name occurs twice in the inherited
environment of any job; run `child_env` shows that it fails without.

**`ConfigProofs`**, from `ConfigAssumption`, about the specification of
`Executable`. `is_trusted_path()` looks at one component at a time. What makes
`ConfigTrusted` inductive is that a component above which everything is closed
to others can be changed by root only: `Provenance` (what another user put there
lies below a component he could change) and `Walked` (unless root loosened the
tree, the components already passed are closed, and the file that was opened is
root's). Theorems: `LoadTypeCorrect`, `OnlyTrustedConfig`, `RootLoads`,
`NothingElseRefused`, `UsableProfiles`, `EntriesAreRules`. The last one is about
the data: the rules of a section are the concatenation of those of its entries,
and none is lost or invented.

**`ExecutableProofs`**, from `ExecutableAssumption` and `ConfigAssumption`. The
system calls of the search, the gate, the policy and the pinning each look names
up again. The argument is a frame. A step of somebody else has a set of
directories that it disturbs (`Disturbs`), and adds them to `disturbed`; a path
whose way leads through none of them has the same way, and every look at it
gives the same answer (`SameLooks`). `Settled` says that a command's way avoids
all disturbed directories. So what the search knew of the candidates before the
present one (`Searching`) stays known, the canonical name the policy uses is
that of the search (`Canonical`), the rule that was matched still names the
validated inode (`Decided`), and what the gate let pass it would still let pass
(`Gated`). `Held` needs no such condition: the inode number is compared when
the file is opened. Theorems: `ExeTypeCorrect`, `SearchCorrect`,
`PinnedIsValidated`, `PermittedIsExecuted`, `GateIsNotFooled`.

A way is a chain of links of bounded length, defined by a recursive function on
the numbers up to `MaxLinks`. **`NatFacts`** has the three facts about numbers
this takes: the least number with a property, induction up to a number
(`UpTo`, stated of a set rather than of an operator), and that the recursive
function of an iteration exists and satisfies its equation (`Iterates`).

The attempt to prove `GateSeesExecuted` corrected it. The hypothesis used to be
that the directories on the way to the entries of the blocklist, as written, are
left alone. An entry without a slash is compared in the current directory
(`canonicalize_policy_path`, `security.cpp:83`), and somebody may move that one.
The property now speaks of the way to `absolute(e)`, and a document with such an
entry is among those of run `launch`.

Only model-checked: `Terminates`, since liveness under fairness and `ENABLED`
are out of the prover's reach. The properties of the five findings are refuted,
so there is nothing to prove. The two conversions `to_string` and `strtoull`, what
a glob or a regular expression matches, and what the user database answers are
constants, of which the proofs use the named assumptions only.

## 5. Not modelled

- Inside the destructive-command gate (`security.cpp:227`): the analysis of the
  arguments of rm and dd, whose result is an input of `Executable`, and what a
  regular expression matches, which is a constant.
- `pam_utils.cpp`: the terminal I/O of the PAM conversation. The echo flag of a
  terminal that two invocations share is listed as a hazard without a property.
- Log formatting and the two sinks of `logger.cpp`; which records are written is
  in `Voix`.
- The buffer handling in `system_utils.cpp`; the data of the two seccomp filters.
- The checks of `policy_analyzer.cpp` that look at a single setting.
- What yaml-cpp makes of bytes; `load(verify_security = false)`, which only tests
  use; `readFile()` and `resolve_command()`, which the program does not call.
- An exception in the child between `fork()` and `fexecve()`: memory is the only
  cause, and the model takes the child's stages to end by success or `_exit()`.

## 6. Plan

1. `Voix`'s `ChildSetup` as the abstraction of `ChildPipeline`: the outcomes it
   offers are those the pipeline has, and a command runs only at the end of it.
2. `Voix`'s steps `Resolve`, `Gate`, `Permit` and `Pin` as the abstraction of
   `Executable`, so that `RunsOnlyAuthorised` speaks of the file that runs.
3. `permit()` on the rules `Config` makes: `PermissionChecker` and `Config`
   composed over one document.
4. A bound on the steps an invocation takes, as an action property: the safety
   half of `Terminates`, which can be proved.
