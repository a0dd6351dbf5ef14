------------------------ MODULE MCPermissionChecker ------------------------
(***************************************************************************)
(* PermissionChecker for TLC: all policies of two rules over the whole     *)
(* vocabulary, and all policies of three rules whose scopes interact.      *)
(***************************************************************************)
EXTENDS PolicyAnalyzer

Words     == {"sh", "bin-sh", "id", "a", "b", "ann", "%u", "8", "9", "ghost", ":wheel"}
MCGlobs   == {"*", "a*"}
MCTexts   == Words \cup MCGlobs
MCDenote  == [t \in AnyText |-> CASE t = "*" -> AnyText
                                  [] t = "a*" -> {"a", "a*", "ann"}
                                  [] OTHER -> {t}]
MCSubst   == [x \in {"ann"} \X AnyText |-> IF x[2] = "%u" THEN "ann" ELSE x[2]]
MCCanonical == [t \in MCTexts |-> IF t = "sh" THEN "bin-sh" ELSE t]
MCNumber  == [t \in MCTexts |-> CASE t = "8" -> 8 [] t = "9" -> 9 [] OTHER -> NoId]
MCCallers == {[name |-> "ann", uid |-> 1, groups |-> {5}]}

Base(action) ==
    [action |-> action, options |-> {}, profile |-> NoText, envlist |-> <<>>,
     ident |-> "ann", ident_uid |-> 1, ident_gid |-> NoId,
     target |-> NoText, target_uid |-> NoId, cmd |-> NoText, cmdargs |-> <<>>,
     pattern |-> FALSE]
Of(action, cmd, args) ==
    [Base(action) EXCEPT !.cmd = cmd, !.cmdargs = args,
        !.pattern = \E i \in 1..Len(args) : args[i] \in MCGlobs]

Actions   == {"PERMIT", "DENY"}
ArgLists  == {<<>>, <<"a">>, <<"*">>, <<"a*">>, <<"%u">>, <<NoText>>, <<"a", "*">>, <<"a*", "b">>}
Scoped    == {Of(x, "sh", as) : x \in Actions, as \in ArgLists} \cup {Base(x) : x \in Actions}
Elsewhere == UNION { {Of(x, "bin-sh", <<"b">>), Of(x, "id", <<>>),
                      [Base(x) EXCEPT !.ident = "9", !.ident_uid = NoId],
                      [Base(x) EXCEPT !.ident = ":wheel", !.ident_uid = NoId, !.ident_gid = 5],
                      [Base(x) EXCEPT !.ident = "ghost", !.ident_uid = NoId],
                      [Base(x) EXCEPT !.ident = NoText, !.ident_uid = NoId],
                      [Base(x) EXCEPT !.target = "ghost"],
                      [Base(x) EXCEPT !.target = "8"],
                      [Base(x) EXCEPT !.target = "id", !.target_uid = 3]} : x \in Actions }
MCPolicies == {<<>>} \cup [1..2 -> Scoped \cup Elsewhere] \cup [1..3 -> Scoped]

MCRequests == [command : {"sh", "id"}, uid : {0, 3},
               args : {<<>>, <<"a">>, <<"b">>, <<"ann">>, <<NoText>>, <<"a", "b">>}]
====
