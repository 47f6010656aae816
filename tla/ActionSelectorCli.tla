-------------------------- MODULE ActionSelectorCli --------------------------
(***************************************************************************)
(* The action-selector commands of the command line tool                   *)
(* (src/CLI/action_selector.c 31-204 and 480-912): each do_action_selector *)
(* handler parses its arguments with the parse_* helpers, jumps to         *)
(* clean_up on the first failure, and otherwise makes one library call.    *)
(*                                                                         *)
(* argv is the argument vector after "pipe ID", a sequence of tokens; the  *)
(* parsers read it through a cursor pos (the C code's *argv) and argc ==  *)
(* Len(argv) - pos + 1.  Past the last argument **argv is the NULL that    *)
(* ends argv (NoArg), which is_keyword takes for no keyword.  The macros  *)
(* NEXT_ARGP and NEXT_ARGP_RET and parse_pipeline_id live in common.c,     *)
(* which is not part of the repository; they are modelled at their       *)
(* boundary: NEXT_ARGP steps on and fails only when no argument was left, *)
(* NEXT_ARGP_RET fails unless one is left after the step, and the outcome *)
(* of parse_pipeline_id is an input (pipeOk).                             *)
(*                                                                         *)
(* Tokens are abstract: Nums are the tokens strtoul parses whole,          *)
(* DataTokens those translate_data_to_bytes accepts, Selectors the names  *)
(* nikss_action_selector_ctx_name opens and ActionNames those             *)
(* nikss_action_selector_get_action_id_by_name finds.                     *)
(***************************************************************************)
EXTENDS Integers, Sequences, FiniteSets

CONSTANTS
    Alphabet,     \* command name -> the tokens its argv is made of
    Nums,         \* tokens strtoul parses to the end
    DataTokens,   \* tokens translate_data_to_bytes accepts
    Selectors,    \* names of the action selectors of the pipeline
    ActionNames,  \* names of the selector's actions
    NoArg,        \* the NULL that ends argv
    MaxArgs       \* command name -> longest argv enumerated

Commands == {"add-member", "delete-member", "update-member", "create-group",
             "delete-group", "add-to-group", "delete-from-group",
             "empty-group-action", "get"}

Tokens == UNION {Alphabet[c] : c \in Commands}

ASSUME /\ Alphabet \in [Commands -> SUBSET STRING]
       /\ Nums \cup DataTokens \cup Selectors \cup ActionNames \subseteq Tokens
       /\ NoArg \notin Tokens
       /\ MaxArgs \in [Commands -> Nat]

NO_ERROR == 0
EPERM    == 1
ENOENT   == 2
ENOMEM   == 12
EINVAL   == 22
ENOTSUP  == 95

VARIABLES
    cmd,       \* the command run
    argv,      \* its arguments after "pipe ID"
    pipeOk,    \* parse_pipeline_id succeeded
    groupCap,  \* nikss_action_selector_has_group_capability
    st,        \* "ready", then "returned"
    called,    \* the handler reached its library call
    ret        \* what the handler returned

vars == <<cmd, argv, pipeOk, groupCap, st, called, ret>>

(***************************************************************************)
(* The cursor and the common.c macros.                                    *)
(***************************************************************************)
Argc(pos) == Len(argv) - pos + 1
Tok(pos)  == IF pos <= Len(argv) THEN argv[pos] ELSE NoArg

Ok(pos)  == [err |-> NO_ERROR, pos |-> pos]
Fail(e)  == [err |-> e, pos |-> 0]

\* the next parse step runs only when the previous one succeeded
Then(r, F(_)) == IF r.err # NO_ERROR THEN r ELSE F(r.pos)

NextArgp(pos)    == IF Argc(pos) - 1 < 0 THEN Fail(EINVAL) ELSE Ok(pos + 1)
NextArgpRet(pos) == IF Argc(pos) - 1 < 1 THEN Fail(EINVAL) ELSE Ok(pos + 1)

\* strtoul(**argv, &ptr, 0) consumed the whole argument (*ptr == 0)
Numeral(pos) == Tok(pos) \in Nums

(***************************************************************************)
(* The parse helpers.                                                      *)
(***************************************************************************)
ParseDstActionSelector(pos, isLast) ==
    IF Tok(pos) \notin Selectors THEN Fail(ENOENT)
    ELSE IF isLast THEN NextArgp(pos) ELSE NextArgpRet(pos)

ParseActionSelectorAction(pos) ==
    IF Tok(pos) # "action" THEN Fail(EINVAL)
    ELSE Then(NextArgpRet(pos), LAMBDA q :
           CASE Tok(q) = "id"   -> Then(NextArgpRet(q), LAMBDA r :
                                       IF Numeral(r) THEN NextArgp(r)
                                       ELSE Fail(EINVAL))
             [] Tok(q) = "name" -> Then(NextArgpRet(q), LAMBDA r :
                                       IF Tok(r) \in ActionNames THEN NextArgp(r)
                                       ELSE Fail(EINVAL))
             [] OTHER           -> Fail(EINVAL))

\* the do-while of parse_action_data: step onto a parameter, translate it,
\* and go on while more than one argument is left
RECURSIVE ActionDataLoop(_)
ActionDataLoop(pos) ==
    IF Argc(pos) - 1 < 1 THEN Fail(EINVAL)
    ELSE IF Tok(pos + 1) \notin DataTokens THEN Fail(EINVAL)
    ELSE IF Argc(pos + 1) > 1 THEN ActionDataLoop(pos + 1)
    ELSE NextArgp(pos + 1)

ParseActionData(pos) ==
    IF Tok(pos) # "data" THEN Ok(pos) ELSE ActionDataLoop(pos)

ParseMemberReference(pos, isLast) ==
    IF ~Numeral(pos) THEN Fail(EINVAL)
    ELSE IF isLast THEN NextArgp(pos) ELSE NextArgpRet(pos)

ParseGroupReference(pos) == IF Numeral(pos) THEN NextArgp(pos) ELSE Fail(EINVAL)

ParseSkipKeyword(pos, keyword) ==
    IF Tok(pos) # keyword THEN Fail(EINVAL) ELSE NextArgpRet(pos)

ParseGetOptions(pos) ==
    CASE Argc(pos) < 1 -> Ok(pos)
      [] Tok(pos) \in {"member", "group"} ->
             IF Tok(pos) = "group" /\ ~groupCap THEN Fail(ENOTSUP)
             ELSE Then(NextArgpRet(pos), LAMBDA q :
                      IF Numeral(q) THEN NextArgp(q) ELSE Fail(EINVAL))
      [] Tok(pos) = "empty-group-action" ->
             IF ~groupCap THEN Fail(ENOTSUP) ELSE NextArgp(pos)
      [] OTHER -> Ok(pos)

\* the "too few parameters" test after parse_pipeline_id
NeedArgument(pos) == IF Argc(pos) < 1 THEN Fail(EINVAL) ELSE Ok(pos)

\* the "unused argument" test before the library call
NoUnusedArgument(pos) == IF Argc(pos) > 0 THEN Fail(EINVAL) ELSE Ok(pos)

(***************************************************************************)
(* The handlers: the parse steps each runs, in its order, from the first  *)
(* argument after the pipeline id.                                         *)
(***************************************************************************)
ActionTail(pos) ==
    Then(ParseActionSelectorAction(pos), LAMBDA a :
    Then(ParseActionData(a), NoUnusedArgument))

AddMemberArgs ==
    Then(NeedArgument(1), LAMBDA a :
    Then(ParseDstActionSelector(a, FALSE), ActionTail))

DeleteMemberArgs ==
    Then(NeedArgument(1), LAMBDA a :
    Then(ParseDstActionSelector(a, FALSE), LAMBDA b :
    Then(ParseMemberReference(b, TRUE), NoUnusedArgument)))

UpdateMemberArgs ==
    Then(NeedArgument(1), LAMBDA a :
    Then(ParseDstActionSelector(a, FALSE), LAMBDA b :
    Then(ParseMemberReference(b, FALSE), ActionTail)))

\* variant: the selector name is not taken as the last argument
CreateGroupArgsNotLast ==
    Then(NeedArgument(1), LAMBDA a :
    Then(ParseDstActionSelector(a, FALSE), NoUnusedArgument))

CreateGroupArgs ==
    Then(NeedArgument(1), LAMBDA a :
    Then(ParseDstActionSelector(a, TRUE), NoUnusedArgument))

DeleteGroupArgs ==
    Then(NeedArgument(1), LAMBDA a :
    Then(ParseDstActionSelector(a, FALSE), LAMBDA b :
    Then(ParseGroupReference(b), NoUnusedArgument)))

\* add_or_remove_member_from_group with add TRUE ("to") or FALSE ("from")
AddOrRemoveMemberArgs(add) ==
    Then(NeedArgument(1), LAMBDA a :
    Then(ParseDstActionSelector(a, FALSE), LAMBDA b :
    Then(ParseMemberReference(b, FALSE), LAMBDA c :
    Then(ParseSkipKeyword(c, IF add THEN "to" ELSE "from"), LAMBDA d :
    Then(ParseGroupReference(d), NoUnusedArgument)))))

EmptyGroupActionArgs ==
    Then(NeedArgument(1), LAMBDA a :
    Then(ParseDstActionSelector(a, FALSE), ActionTail))

GetArgs ==
    Then(NeedArgument(1), LAMBDA a :
    Then(ParseDstActionSelector(a, TRUE), LAMBDA b :
    Then(ParseGetOptions(b), NoUnusedArgument)))

ParseArgs(c) ==
    CASE c = "add-member"         -> AddMemberArgs
      [] c = "delete-member"      -> DeleteMemberArgs
      [] c = "update-member"      -> UpdateMemberArgs
      [] c = "create-group"       -> CreateGroupArgs
      [] c = "delete-group"       -> DeleteGroupArgs
      [] c = "add-to-group"       -> AddOrRemoveMemberArgs(TRUE)
      [] c = "delete-from-group"  -> AddOrRemoveMemberArgs(FALSE)
      [] c = "empty-group-action" -> EmptyGroupActionArgs
      [] c = "get"                -> GetArgs

\* what the library call may return: print_action_selector, which get
\* returns, reports a failed lookup or JSON build as ENOMEM and a failed
\* json_object_set as EINVAL; the other calls return the library's errno
CallResults(c) ==
    IF c = "get" THEN {NO_ERROR, ENOMEM, EINVAL} ELSE {NO_ERROR, ENOENT}

Init ==
    /\ cmd \in Commands
    /\ pipeOk \in BOOLEAN
    \* a failed parse_pipeline_id returns before argv is read
    /\ argv \in IF pipeOk THEN UNION {[1..n -> Alphabet[cmd]] : n \in 0..MaxArgs[cmd]}
                 ELSE {<<>>}
    \* only get asks the selector for its group capability
    /\ groupCap \in IF cmd = "get" THEN BOOLEAN ELSE {TRUE}
    /\ st = "ready"
    /\ called = FALSE
    /\ ret = NO_ERROR

\* a whole do_action_selector_* handler: error_code starts as EPERM and is
\* returned by every jump to clean_up; the library call's result otherwise
RunHandler ==
    /\ st = "ready"
    /\ cmd \in Commands
    /\ st' = "returned"
    /\ LET r == IF pipeOk THEN ParseArgs(cmd) ELSE Fail(EINVAL)
       IN  \/ /\ r.err # NO_ERROR
              /\ called' = FALSE
              /\ ret' = EPERM
           \/ /\ r.err = NO_ERROR
              /\ called' = TRUE
              /\ ret' \in CallResults(cmd)
    /\ UNCHANGED <<cmd, argv, pipeOk, groupCap>>

Done == st = "returned" /\ UNCHANGED vars

Next == RunHandler \/ Done

Spec == Init /\ [][Next]_vars

(***************************************************************************)
(* The usage lines of do_action_selector_help (action_selector.c 919-934), *)
(* as a reference: ACTION := { id ACTION_ID | name ACTION_NAME },          *)
(* ACTION_PARAMS := { DATA }, references are numbers.  The group forms of *)
(* get need a selector with groups.                                        *)
(***************************************************************************)
IsAction(s) ==
    \/ \E n \in Nums : s = <<"id", n>>
    \/ \E a \in ActionNames : s = <<"name", a>>

\* action ACTION [data ACTION_PARAMS], to the end of argv
IsActionUsage(t) ==
    /\ Len(t) >= 3
    /\ t[1] = "action"
    /\ IsAction(SubSeq(t, 2, 3))
    /\ LET d == SubSeq(t, 4, Len(t))
       IN  \/ d = <<>>
           \/ /\ Len(d) >= 2
              /\ d[1] = "data"
              /\ \A i \in 2..Len(d) : d[i] \in DataTokens

Usage(c, a) ==
    /\ pipeOk
    /\ Len(a) >= 1
    /\ a[1] \in Selectors
    /\ LET t == Tail(a)
       IN  CASE c \in {"add-member", "empty-group-action"} -> IsActionUsage(t)
             [] c = "update-member" -> Len(t) >= 1 /\ t[1] \in Nums /\ IsActionUsage(Tail(t))
             [] c = "create-group"  -> t = <<>>
             [] c \in {"delete-member", "delete-group"} -> \E r \in Nums : t = <<r>>
             [] c = "add-to-group"      -> \E r, g \in Nums : t = <<r, "to", g>>
             [] c = "delete-from-group" -> \E r, g \in Nums : t = <<r, "from", g>>
             [] c = "get" ->
                    \/ t = <<>>
                    \/ \E r \in Nums : t = <<"member", r>>
                    \/ groupCap /\ \/ \E r \in Nums : t = <<"group", r>>
                                   \/ t = <<"empty-group-action">>

(***************************************************************************)
(* Properties.                                                             *)
(***************************************************************************)

\* every handler makes its library call exactly for the argument vectors
\* its usage line describes, and a command whose arguments it refused
\* never reports success
CommandFollowsUsage ==
    st = "returned" /\ cmd \in Commands =>
        /\ called <=> Usage(cmd, argv)
        /\ ~called => ret # NO_ERROR

=============================================================================
