---------------------------- MODULE MCExecutable ----------------------------
(***************************************************************************)
(* Config and Executable for TLC.  Four families of hosts: every state of  *)
(* the two paths load() walks; documents with each kind of entry; file     *)
(* systems and requests with one concurrent change; and one of them with   *)
(* two, so that an inode number can be freed and used again.               *)
(***************************************************************************)
EXTENDS Executable

CONSTANTS i1, i2, i3

MCInodes == {i1, i2, i3}
MCDirs   == {"/usr/bin", "/bin", "/home", "here"}
MCTexts  == {"ann", "wheel", "8", "9", ":wheel", ":8", ":", "ghost", "sh", "/bin/sh",
             "/usr/bin/mkfs", "*", "K=v", "=", "ptrace", "tight", "^sh", "[",
             "/var/lib/voix", "state"} \cup MCDirs
MCNumber == [t \in MCTexts |-> CASE t = "8" -> 8 [] t = "9" -> 9 [] OTHER -> NoId]
MCUserDb == [t \in AnyText |-> IF t = "ann" THEN 1 ELSE NoId]
MCGroupDb == [t \in AnyText |-> IF t = "wheel" THEN 5 ELSE NoId]
MCColon  == [t \in AnyText |-> CASE t = "wheel" -> ":wheel" [] t = "8" -> ":8" [] OTHER -> ":"]
MCSpell  == [t \in MCTexts |-> CASE t = "/bin/sh" -> <<"/bin", "sh">>
                                 [] t = "/usr/bin/mkfs" -> <<"/usr/bin", "mkfs">>
                                 [] OTHER -> <<NoDir, "sh">>]
MCRegexHits == [t \in MCTexts |-> IF t = "^sh" THEN {<<"/home", "sh">>} ELSE {}]

MCDefaultPaths == <<"/bin", "/usr/bin">>
MCAbsolute == MCTexts \ {"here", "state"}

(* Trees *)
N(kind, uid, open) == [kind |-> kind, uid |-> uid, open |-> open, by |-> "root"]
GoodConfig    == <<N("dir", 0, FALSE), N("file", 0, FALSE)>>
GoodSanctuary == <<N("dir", 0, FALSE), N("dir", 0, FALSE)>>
RootMade == { c \in Chains : \A d \in 1..Depth : c[d].by = "root" }
Kept2    == [config |-> GoodConfig, sanctuary |-> GoodSanctuary]

(* Documents *)
Plain == [valid |-> TRUE, user |-> << [name |-> "ann", rules |-> << [command |-> "sh"] >>] >>]
With(node) == [valid |-> TRUE, user |-> << [name |-> "ann", rules |-> << node >>] >>]
Profiles(mode, allow) ==
    [valid |-> TRUE, user |-> << [name |-> "ann", rules |-> << [profile |-> "tight"] >>] >>,
     profiles |-> [tight |-> [mode |-> mode, allow |-> allow]]]
Section(names) == [i \in 1..Len(names) |-> [name |-> names[i], rules |-> << [action |-> "permit"] >>]]
Documents ==
    { [valid |-> FALSE], [valid |-> TRUE], Plain,
      With([env |-> <<"=">>]), With([env |-> <<"K=v">>, options |-> <<"trust", "ghost">>]),
      With([command |-> "sh", args |-> <<NoText>>]),
      [valid |-> TRUE, sanctuary |-> NoText], [valid |-> TRUE, sanctuary |-> "state"],
      [valid |-> TRUE, paths |-> <<"here">>, privileged_users |-> <<"ann">>],
      [valid |-> TRUE, blocklist |-> <<NoText>>], [valid |-> TRUE, regexes |-> <<"[">>] }
    \cup { Profiles(m, a) : m \in {"blacklist", "allowlist", "unknown"},
                            a \in {<<>>, <<"ptrace">>, <<"ghost">>} }
    \cup { [valid |-> TRUE, user |-> Section(u), group |-> Section(g)] :
             u \in {<<>>, <<"ghost">>, <<"9">>, <<NoText>>, <<"ann">>},
             g \in {<<>>, <<"wheel">>, <<"8", NoText>>} }

(* File systems: links, hard links, unsafe files and a loop *)
Safe(p)   == [regular |-> TRUE, uid |-> 0, open |-> FALSE, exec |-> TRUE, program |-> p]
MCAttributes(third) == (i1 :> Safe("old")) @@ (i2 :> Safe("new")) @@ (i3 :> third)
UserFile  == [Safe("old") EXCEPT !.uid = 1]
OpenFile  == [Safe("old") EXCEPT !.open = TRUE]
MCReal    == [d \in MCDirs |-> IF d = "/bin" THEN "/usr/bin" ELSE IF d = "here" THEN "/home" ELSE d]
Entries(sh, rm, home, homerm) ==
    [q \in MCDirs \X Names |->
        CASE q = <<"/usr/bin", "sh">> -> sh
          [] q = <<"/usr/bin", "rm">> -> rm
          [] q = <<"/usr/bin", "mkfs">> -> i2
          [] q = <<"/home", "sh">> -> home
          [] q = <<"/home", "rm">> -> homerm
          [] OTHER -> Nothing]

Host(op, euid, trees, doc, entries, third, cmd, args, load_edits, exe_edits) ==
    [host |-> [op |-> op, euid |-> euid, doc |-> doc, caller |-> [uid |-> 1, groups |-> {5}],
               request |-> [cmd |-> cmd, args |-> args, uid |-> 0]],
     tree |-> trees, real |-> MCReal, entry |-> entries, ino |-> MCAttributes(third),
     edits |-> [load |-> load_edits, exe |-> exe_edits]]
Idle(op, euid, trees, doc, load_edits) ==
    Host(op, euid, trees, doc, Entries(Nothing, Nothing, Nothing, Nothing), UserFile,
         <<NoDir, "sh">>, "plain", load_edits, 0)

Commands == {<<NoDir, "sh">>, <<"/bin", "sh">>, <<"/home", "sh">>}
Systems  == { Entries(i1, Nothing, h, Nothing) :
                h \in {Nothing, i1, i3, <<"/bin", "sh">>, <<"/usr/bin", "mkfs">>} }
            \cup { Entries(<<"/home", "rm">>, i2, <<"/home", "rm">>, h) : h \in {i1, <<"/home", "sh">>} }
            \cup { Entries(<<"/usr/bin", "mkfs">>, i1, i3, i3), Entries(Nothing, i1, <<"/usr/bin", "rm">>, i3) }
Policies == { Plain, With([command |-> "/bin/sh", args |-> <<"*">>]),
              [paths |-> <<"here", "/usr/bin", "/bin">>, blocklist |-> <<"/usr/bin/mkfs">>] @@ Plain,
              [paths |-> <<"here", "/bin">>, blocklist |-> <<"/bin/sh", "sh">>, regexes |-> <<"^sh">>]
                @@ With([action |-> "permit"]),
              [paths |-> <<"/bin">>, blocklist |-> <<"sh">>] @@ Plain }
MCScenarios ==
    { Idle("check", e, [Kept2 EXCEPT ![p] = c], Plain, 1) :
        e \in {0, 1}, p \in Trees, c \in RootMade }
    \cup { Idle(op, 0, Kept2, d, 0) : op \in {"run", "check"}, d \in Documents }
    \cup { Host("run", 0, Kept2, d, y, t, c, a, 0, 1) :
             d \in Policies, y \in Systems, t \in {UserFile, OpenFile}, c \in Commands,
             a \in {"plain", "wipes root"} }
    \cup { Host("run", 0, Kept2, Plain, Entries(i1, i2, h, i3), UserFile, c, "plain", 0, 2) :
             h \in {<<"/bin", "sh">>, Nothing}, c \in {<<NoDir, "sh">>, <<"/home", "sh">>} }
====
