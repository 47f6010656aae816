---------------------------- MODULE CliCommands ----------------------------
(***************************************************************************)
(* The table, register and multicast-group commands of the command line   *)
(* tool, beside the action-selector ones of ActionSelectorCli, whose      *)
(* cursor, macros and handler state they share.                           *)
(*                                                                         *)
(*   - table add, update, delete, get and default (src/CLI/table.c        *)
(*     529-805 and 1063-1243, the second of the table files the source    *)
(*     holds; the first, 35-457, is an older copy of the same parsers     *)
(*     without get);                                                       *)
(*   - register get and set (src/CLI/register.c 28-253);                  *)
(*   - multicast-group create, delete, add-member, del-member and get     *)
(*     (src/CLI/table.c 1306-1620).                                        *)
(*                                                                         *)
(* Boundaries beside those of ActionSelectorCli: a match key is one       *)
(* argument that strstr splits at "/", ".." or "^"; TLC cannot split a    *)
(* string, so KeyCut gives, for each key token, the separator strstr      *)
(* finds first and the text before and after it.  parse_counter_value_str *)
(* (counter.c), parse_meter_data (meter.c) and parse_keyword_value_pairs  *)
(* (common.c) are not part of the repository: the first accepts the       *)
(* tokens CounterValues; the second is taken to read the two tokens of    *)
(* METER_VALUE and leave the cursor on the last, as the counter parser    *)
(* does; the third reads KEY VALUE pairs of the keywords it is given while *)
(* the current argument is one of them, fails on a missing or non-numeric *)
(* value or a missing keyword, and stops at any other argument.  Library  *)
(* calls that only fill in the entry being built (match keys, action      *)
(* parameters, counters, meters) succeed.                                  *)
(***************************************************************************)
EXTENDS ActionSelectorCli, SequencesExt

CONSTANTS
    CliAlphabet,    \* command -> the tokens an argument vector is made of
    TableNames,     \* tables psabpf_table_entry_ctx_tblname opens
    RegisterNames,  \* registers nikss_register_ctx_name opens
    CounterNames,   \* DirectCounters of the table
    MeterNames,     \* DirectMeters of the table
    CounterValues,  \* tokens parse_counter_value_str accepts
    MeterRates,     \* tokens parse_meter_data accepts (PIR:PBS, CIR:CBS)
    KeyCut,         \* key token -> [sep, head, tail] as strstr splits it
    MaxItems,       \* longest list of keys, parameters or values enumerated
    MaxNoise        \* tokens enumerated after a prefix of a usage form

TableCommands    == {"table add", "table update", "table delete", "table get",
                     "table default set", "table default get"}
RegisterCommands == {"register get", "register set"}
McastCommands    == {"multicast-group create", "multicast-group delete",
                     "multicast-group add-member", "multicast-group del-member",
                     "multicast-group get"}
CliCommands      == TableCommands \cup RegisterCommands \cup McastCommands

ENODATA == 61
EEXIST  == 17

VARIABLES
    grpExists,  \* nikss_mcast_grp_exists for the group named
    callRet     \* what the library work after parsing returned

cliVars == <<cmd, argv, pipeOk, groupCap, st, called, ret, grpExists, callRet>>

(***************************************************************************)
(* table.c: the parse helpers.                                            *)
(***************************************************************************)
ParseDstTable(pos, canBeLast) ==
    IF Tok(pos) \in {"id", "name"} THEN Then(NextArgpRet(pos), LAMBDA q : Fail(ENOTSUP))
    ELSE IF Tok(pos) \notin TableNames THEN Fail(ENOENT)
    ELSE IF canBeLast THEN NextArgp(pos) ELSE NextArgpRet(pos)

ParseTableAction(pos, canBeLast) ==
    LET Step(p) == IF canBeLast THEN NextArgp(p) ELSE NextArgpRet(p)
    IN  CASE Tok(pos) = "id"  -> Then(NextArgpRet(pos), LAMBDA q :
                                    IF Numeral(q) THEN Step(q) ELSE Fail(EINVAL))
          [] Tok(pos) = "ref" -> Step(pos)
          [] OTHER            -> Fail(ENOTSUP)

\* the error a match key token gives: LPM DATA/PREFIX_LEN, a range, which
\* is refused, ternary DATA^MASK, or an exact DATA
MatchKeyError(t) ==
    LET c == IF t \in DOMAIN KeyCut THEN KeyCut[t]
             ELSE [sep |-> "", head |-> t, tail |-> ""]
    IN  CASE c.sep = "/"  -> IF c.tail = "" \/ c.head \notin DataTokens
                                \/ c.tail \notin Nums THEN EINVAL ELSE NO_ERROR
          [] c.sep = ".." -> ENOTSUP
          [] c.sep = "^"  -> IF c.tail = "" \/ c.head \notin DataTokens
                                \/ c.tail \notin DataTokens THEN EINVAL ELSE NO_ERROR
          [] OTHER        -> IF t \in DataTokens THEN NO_ERROR ELSE EINVAL

\* variant: the do-while goes on while any argument is left
RECURSIVE KeyLoopWhileAny(_, _)
KeyLoopWhileAny(pos, hasAny) ==
    LET q == pos + 1
    IN  IF Argc(pos) - 1 < 1 THEN Fail(EINVAL)
        ELSE IF Tok(q) \in {"data", "priority"} THEN Ok(q)
        ELSE IF Tok(q) = "none" THEN (IF hasAny THEN Fail(EPERM) ELSE NextArgp(q))
        ELSE IF MatchKeyError(Tok(q)) # NO_ERROR THEN Fail(MatchKeyError(Tok(q)))
        ELSE IF Argc(q) > 0 THEN KeyLoopWhileAny(q, TRUE)
        ELSE NextArgp(q)

\* the do-while of parse_table_key from the cursor on "key" or on the last
\* key read
RECURSIVE KeyLoop(_, _)
KeyLoop(pos, hasAny) ==
    LET q == pos + 1
    IN  IF Argc(pos) - 1 < 1 THEN Fail(EINVAL)
        ELSE IF Tok(q) \in {"data", "priority"} THEN Ok(q)
        ELSE IF Tok(q) = "none" THEN (IF hasAny THEN Fail(EPERM) ELSE NextArgp(q))
        ELSE IF MatchKeyError(Tok(q)) # NO_ERROR THEN Fail(MatchKeyError(Tok(q)))
        ELSE IF Argc(q) > 1 THEN KeyLoop(q, TRUE)
        ELSE NextArgp(q)

ParseTableKey(pos) == IF Tok(pos) # "key" THEN Ok(pos) ELSE KeyLoop(pos, FALSE)

\* parse_direct_counter_entry: counter NAME VALUE, the cursor left on VALUE
ParseDirectCounterEntry(pos) ==
    Then(NextArgpRet(pos), LAMBDA q :
        IF Tok(q) \notin CounterNames THEN Fail(ENOENT)
        ELSE Then(NextArgpRet(q), LAMBDA r :
                 IF Tok(r) \in CounterValues THEN Ok(r) ELSE Fail(EINVAL)))

\* parse_meter_data at its boundary: PIR:PBS CIR:CBS
ParseMeterData(pos) ==
    Then(NextArgpRet(pos), LAMBDA q :
        IF Tok(q) \notin MeterRates THEN Fail(EINVAL)
        ELSE Then(NextArgpRet(q), LAMBDA r :
                 IF Tok(r) \in MeterRates THEN Ok(r) ELSE Fail(EINVAL)))

\* parse_direct_meter_entry: meter NAME METER_VALUE
ParseDirectMeterEntry(pos) ==
    Then(NextArgpRet(pos), LAMBDA q :
        IF Tok(q) \notin MeterNames THEN Fail(ENOENT) ELSE ParseMeterData(q))

\* translate_data_to_bytes of one action parameter
DataParam(q) == IF Tok(q) \in DataTokens THEN Ok(q) ELSE Fail(EINVAL)

\* the body of parse_action_data's loop for the argument at q
ActionParamAt(q, indirect) ==
    CASE indirect /\ Tok(q) = "group"     -> Then(NextArgpRet(q), DataParam)
      [] ~indirect /\ Tok(q) = "counter" -> ParseDirectCounterEntry(q)
      [] ~indirect /\ Tok(q) = "meter"   -> ParseDirectMeterEntry(q)
      [] OTHER                            -> DataParam(q)

\* the do-while of parse_action_data; "continue" goes to its condition
RECURSIVE TableDataLoop(_, _)
TableDataLoop(pos, indirect) ==
    LET q == pos + 1
        r == ActionParamAt(q, indirect)
    IN  IF Argc(pos) - 1 < 1 THEN Fail(EINVAL)
        ELSE IF Tok(q) = "priority" THEN Ok(q)
        ELSE IF r.err # NO_ERROR THEN r
        ELSE IF Argc(r.pos) > 1 THEN TableDataLoop(r.pos, indirect)
        ELSE NextArgp(r.pos)

TableActionData(pos, indirect) ==
    IF Tok(pos) # "data" THEN (IF indirect THEN Fail(EINVAL) ELSE Ok(pos))
    ELSE TableDataLoop(pos, indirect)

ParseEntryPriority(pos) ==
    IF Tok(pos) # "priority" THEN Ok(pos)
    ELSE Then(NextArgpRet(pos), LAMBDA q :
             IF Numeral(q) THEN NextArgp(q) ELSE Fail(EINVAL))

\* do_table_write: wt is "add", "update" or "default"; the default entry
\* has no key and no priority, and its action may be the last argument
TableWriteArgs(wt) ==
    Then(NeedArgument(1), LAMBDA a :
    Then(ParseDstTable(a, FALSE), LAMBDA b :
    Then(ParseTableAction(b, wt = "default"), LAMBDA c :
    Then(IF wt = "default" THEN Ok(c) ELSE ParseTableKey(c), LAMBDA d :
    Then(TableActionData(d, Tok(b) = "ref"), LAMBDA e :
    Then(IF wt = "default" THEN Ok(e) ELSE ParseEntryPriority(e),
         NoUnusedArgument))))))

TableDeleteArgs ==
    Then(NeedArgument(1), LAMBDA a :
    Then(ParseDstTable(a, TRUE), LAMBDA b :
    Then(ParseTableKey(b), NoUnusedArgument)))

\* do_table_get has no "too few parameters" test: with no argument the
\* table name is the NULL that ends argv, which no table has
TableGetArgs ==
    Then(ParseDstTable(1, TRUE), LAMBDA b :
    Then(ParseTableKey(b), NoUnusedArgument))

(***************************************************************************)
(* register.c: the parse helpers and handlers.                             *)
(***************************************************************************)
ParseDstRegister(pos) ==
    IF Argc(pos) < 1 THEN Fail(EINVAL)
    ELSE IF Tok(pos) \notin RegisterNames THEN Fail(ENOENT)
    ELSE NextArgp(pos)

\* the while loop of parse_register_index: index data up to a "value" that
\* follows at least one of them; NEXT_ARGP cannot fail while argc > 0
RECURSIVE RegisterIndexLoop(_, _)
RegisterIndexLoop(pos, hasAny) ==
    IF Argc(pos) <= 0 THEN Ok(pos)
    ELSE IF hasAny /\ Tok(pos) = "value" THEN Ok(pos)
    ELSE IF Tok(pos) \notin DataTokens THEN Fail(EINVAL)
    ELSE RegisterIndexLoop(pos + 1, TRUE)

ParseRegisterIndex(pos) ==
    IF Tok(pos) # "index" THEN Ok(pos)
    ELSE Then(NextArgpRet(pos), LAMBDA q : RegisterIndexLoop(q, FALSE))

\* the while loop of parse_register_value: ret starts as ENODATA and is the
\* result of the last translation
RECURSIVE RegisterValueLoop(_, _)
RegisterValueLoop(pos, r) ==
    IF Argc(pos) <= 0 THEN (IF r = NO_ERROR THEN Ok(pos) ELSE Fail(r))
    ELSE IF Tok(pos) \notin DataTokens THEN Fail(EINVAL)
    ELSE RegisterValueLoop(pos + 1, NO_ERROR)

ParseRegisterValue(pos) ==
    IF Tok(pos) # "value" THEN Fail(EINVAL)
    ELSE Then(NextArgpRet(pos), LAMBDA q : RegisterValueLoop(q, ENODATA))

\* do_register_get: the index is parsed only when "index" is there
RegisterGetArgs ==
    Then(ParseDstRegister(1), LAMBDA a :
    Then(IF Argc(a) >= 1 /\ Tok(a) = "index" THEN ParseRegisterIndex(a) ELSE Ok(a),
         NoUnusedArgument))

RegisterSetArgs ==
    Then(ParseDstRegister(1), LAMBDA a :
    Then(ParseRegisterIndex(a), LAMBDA b :
    Then(ParseRegisterValue(b), NoUnusedArgument)))

(***************************************************************************)
(* The multicast-group parsers: parse_keyword_value_pairs at its boundary. *)
(***************************************************************************)
RECURSIVE KeywordValuePairs(_, _, _)
KeywordValuePairs(pos, keys, seen) ==
    IF Tok(pos) \in keys
    THEN IF Argc(pos) < 2 \/ ~Numeral(pos + 1) THEN Fail(EINVAL)
         ELSE KeywordValuePairs(pos + 2, keys, seen \cup {Tok(pos)})
    ELSE IF seen = keys THEN Ok(pos) ELSE Fail(EINVAL)

\* parse_group after parse_pipeline_id: id MULTICAST_GROUP_ID
ParseGroup(pos) == KeywordValuePairs(pos, {"id"}, {})

ParseGroupAndMember(pos) ==
    Then(ParseGroup(pos), LAMBDA q :
        KeywordValuePairs(q, {"egress-port", "instance"}, {}))

(***************************************************************************)
(* The handlers.  Each parses, returns its initial error code on the first *)
(* failure, and otherwise makes its library call.                         *)
(***************************************************************************)
ArgsUnchanged == UNCHANGED <<cmd, argv, pipeOk, groupCap, grpExists>>

\* a handler whose only outcomes are the parse failure, returning failRet,
\* and the library call, returning its result
Handle(r, failRet, results) ==
    \/ /\ r.err # NO_ERROR
       /\ called' = FALSE
       /\ ret' = failRet
       /\ UNCHANGED callRet
    \/ /\ r.err = NO_ERROR
       /\ called' = TRUE
       /\ ret' \in results
       /\ callRet' = ret'

\* parse_pipeline_id first; a failure returns before argv is read
AfterPipe(r) == IF pipeOk THEN r ELSE Fail(EINVAL)

\* what print_json_table_entry returns: ENOMEM when the JSON objects cannot
\* be made, EINVAL when the table's key cannot be set or the entry not built
PrintJsonTableEntryResults == {NO_ERROR, ENOMEM, EINVAL}

\* what get_and_print_register_json returns: ENOMEM without JSON objects,
\* nikss_register_get's error for an index, EINVAL from build_entry
RegisterJsonResults == {NO_ERROR, ENOMEM, ENOENT, EINVAL}

\* what print_mcast_group returns: ENOMEM when a JSON object or a group's
\* JSON cannot be made
PrintMcastGroupResults == {NO_ERROR, ENOMEM}

\* do_table_add and do_table_update through do_table_write
RunTableWrite ==
    /\ st = "ready"
    /\ cmd \in {"table add", "table update"}
    /\ st' = "returned"
    /\ Handle(AfterPipe(TableWriteArgs(IF cmd = "table add" THEN "add" ELSE "update")),
              EPERM, {NO_ERROR, IF cmd = "table add" THEN EEXIST ELSE ENOENT})
    /\ ArgsUnchanged

RunTableDelete ==
    /\ st = "ready"
    /\ cmd = "table delete"
    /\ st' = "returned"
    /\ Handle(AfterPipe(TableDeleteArgs), EPERM, {NO_ERROR, ENOENT})
    /\ ArgsUnchanged

\* do_table_default: "set" writes the default entry; any other keyword
\* (the unimplemented "default get" among them) prints the help, and
\* do_table_help returns 0
RunTableDefault ==
    /\ st = "ready"
    /\ cmd \in {"table default set", "table default get"}
    /\ st' = "returned"
    /\ \/ /\ cmd = "table default set"
          /\ Handle(AfterPipe(TableWriteArgs("default")), EPERM, {NO_ERROR, ENOENT})
       \/ /\ cmd = "table default get"
          /\ called' = FALSE
          /\ ret' = NO_ERROR
          /\ UNCHANGED callRet
    /\ ArgsUnchanged

\* do_table_get: psabpf_table_entry_get, then print_json_table_entry, which
\* fails with ENOMEM or EINVAL when the JSON cannot be built
RunTableGet ==
    /\ st = "ready"
    /\ cmd = "table get"
    /\ st' = "returned"
    /\ Handle(AfterPipe(TableGetArgs), EPERM, {ENOENT} \cup PrintJsonTableEntryResults)
    /\ ArgsUnchanged

\* do_register_get and get_and_print_register_json: nikss_register_get
\* when an index was given, the iteration otherwise; a failed JSON build
\* gives ENOMEM or EINVAL
RunRegisterGet ==
    /\ st = "ready"
    /\ cmd = "register get"
    /\ st' = "returned"
    /\ Handle(AfterPipe(RegisterGetArgs), EINVAL, RegisterJsonResults)
    /\ ArgsUnchanged

RunRegisterSet ==
    /\ st = "ready"
    /\ cmd = "register set"
    /\ st' = "returned"
    /\ Handle(AfterPipe(RegisterSetArgs), EINVAL, {NO_ERROR, ENOENT})
    /\ ArgsUnchanged

\* the handlers that look the group up before their library call: create
\* refuses an existing group, the others a missing one
McastRefusal(c) == IF c = "multicast-group create" THEN grpExists ELSE ~grpExists
McastRefusalCode(c) == IF c = "multicast-group create" THEN EEXIST ELSE ENOENT

McastCheckedCall(r) ==
    \/ /\ r.err # NO_ERROR
       /\ called' = FALSE
       /\ ret' = EINVAL
       /\ UNCHANGED callRet
    \/ /\ r.err = NO_ERROR
       /\ McastRefusal(cmd)
       /\ called' = FALSE
       /\ ret' = McastRefusalCode(cmd)
       /\ callRet' = ret'
    \/ /\ r.err = NO_ERROR
       /\ ~McastRefusal(cmd)
       /\ called' = TRUE
       /\ ret' \in {NO_ERROR, ENOMEM}
       /\ callRet' = ret'

\* do_multicast_create_group and do_multicast_delete_group
RunMcastGroup ==
    /\ st = "ready"
    /\ cmd \in {"multicast-group create", "multicast-group delete"}
    /\ st' = "returned"
    /\ McastCheckedCall(AfterPipe(Then(ParseGroup(1), NoUnusedArgument)))
    /\ ArgsUnchanged

\* do_multicast_add_group_member and do_multicast_del_group_member
RunMcastMember ==
    /\ st = "ready"
    /\ cmd \in {"multicast-group add-member", "multicast-group del-member"}
    /\ st' = "returned"
    /\ McastCheckedCall(AfterPipe(Then(ParseGroupAndMember(1), NoUnusedArgument)))
    /\ ArgsUnchanged

\* do_multicast_get: ret holds parse_pipeline_id's, then the pair parser's
\* result; the unused-argument test jumps to clean_up without setting it,
\* and print_mcast_group's result is not kept
RunMcastGet ==
    /\ st = "ready"
    /\ cmd = "multicast-group get"
    /\ st' = "returned"
    /\ LET hasId == Argc(1) > 0
           kv    == ParseGroup(1)
           rest  == IF hasId THEN kv.pos ELSE 1
       IN  \/ /\ ~pipeOk
              /\ called' = FALSE
              /\ ret' = EINVAL
              /\ UNCHANGED callRet
           \/ /\ pipeOk /\ hasId /\ kv.err # NO_ERROR
              /\ called' = FALSE
              /\ ret' = kv.err
              /\ UNCHANGED callRet
           \/ /\ pipeOk /\ hasId /\ kv.err = NO_ERROR /\ ~grpExists
              /\ called' = FALSE
              /\ ret' = ENOENT
              /\ callRet' = ENOENT
           \/ /\ pipeOk /\ (hasId => kv.err = NO_ERROR /\ grpExists)
              /\ Argc(rest) > 0
              /\ called' = FALSE
              /\ ret' = NO_ERROR
              /\ UNCHANGED callRet
           \/ /\ pipeOk /\ (hasId => kv.err = NO_ERROR /\ grpExists)
              /\ Argc(rest) <= 0
              /\ called' = TRUE
              /\ callRet' \in PrintMcastGroupResults
              /\ ret' = NO_ERROR
    /\ ArgsUnchanged

(***************************************************************************)
(* The specification: the action-selector handlers and these.            *)
(***************************************************************************)

\* the usage lines of the help texts (do_table_help, do_register_help,
\* do_multicast_help), as a reference for the forms the parsers implement:
\* the code refuses TABLE as "id TABLE_ID" or "name FILE", ACTION as a
\* name and RANGE_KEY as not supported yet, so they are left out
KeyForms ==
    DataTokens \cup
    {t \in DOMAIN KeyCut :
        /\ KeyCut[t].sep \in {"/", "^"}
        /\ KeyCut[t].head \in DataTokens
        /\ KeyCut[t].tail \in IF KeyCut[t].sep = "/" THEN Nums ELSE DataTokens}

Lists(items) == {FlattenSeq(s) : s \in BoundedSeq(items, MaxItems)} \ {<<>>}
Opt(S) == {<<>>} \cup S

UsageForms(c) ==
    LET tbl    == {<<t>> : t \in TableNames}
        act    == {<<"id", n>> : n \in Nums}
        keys   == {<<"key", "none">>} \cup {<<"key">> \o k : k \in Lists({<<x>> : x \in KeyForms})}
        params == Lists({<<d>> : d \in DataTokens}
                        \cup {<<"counter", n, v>> : n \in CounterNames, v \in CounterValues}
                        \cup {<<"meter", m, a, b>> : m \in MeterNames, a, b \in MeterRates})
        refs   == Lists({<<r>> : r \in Nums} \cup {<<"group", g>> : g \in Nums})
        data   == {<<"data">> \o x : x \in params}
        prio   == {<<"priority", n>> : n \in Nums}
        vals   == Lists({<<d>> : d \in DataTokens})
    IN  CASE c \in {"table add", "table update"} ->
                 {t \o a \o k \o d \o p : t \in tbl, a \in act, k \in keys,
                                          d \in Opt(data), p \in Opt(prio)}
                 \cup (IF c = "table add"
                       THEN {t \o <<"ref">> \o k \o <<"data">> \o r \o p :
                                t \in tbl, k \in keys, r \in refs, p \in Opt(prio)}
                       ELSE {})
          [] c \in {"table delete", "table get"} -> {t \o k : t \in tbl, k \in Opt(keys)}
          [] c = "table default set" -> {t \o a \o d : t \in tbl, a \in act, d \in Opt(data)}
          [] c = "table default get" -> {}
          [] c = "register get" ->
                 {<<r>> \o i : r \in RegisterNames, i \in Opt({<<"index">> \o x : x \in vals})}
          [] c = "register set" ->
                 {<<r, "index">> \o x \o <<"value">> \o y : r \in RegisterNames, x, y \in vals}
          [] c \in {"multicast-group create", "multicast-group delete"} ->
                 {<<"id", n>> : n \in Nums}
          [] c \in {"multicast-group add-member", "multicast-group del-member"} ->
                 {<<"id", n, "egress-port", e, "instance", i>> : n, e, i \in Nums}
          [] c = "multicast-group get" -> {<<>>} \cup {<<"id", n>> : n \in Nums}

UsageTable == [c \in CliCommands |-> UsageForms(c)]

\* the argument vectors enumerated: every prefix of a usage form followed
\* by up to MaxNoise arbitrary tokens of the command's alphabet
ArgVectors(c) ==
    {p \o x : p \in UNION {Prefixes(v) : v \in UsageTable[c] \cup {<<>>}},
              x \in BoundedSeq(CliAlphabet[c], MaxNoise)}

CliInit ==
    \/ /\ Init
       /\ grpExists = FALSE
       /\ callRet = NO_ERROR
    \/ /\ cmd \in CliCommands
       /\ pipeOk \in BOOLEAN
       /\ argv \in IF pipeOk THEN ArgVectors(cmd) ELSE {<<>>}
       /\ groupCap = TRUE
       /\ grpExists \in IF cmd \in McastCommands THEN BOOLEAN ELSE {FALSE}
       /\ st = "ready"
       /\ called = FALSE
       /\ ret = NO_ERROR
       /\ callRet = NO_ERROR

CliNext ==
    \/ RunHandler /\ UNCHANGED <<grpExists, callRet>>
    \/ RunTableWrite \/ RunTableDelete \/ RunTableDefault \/ RunTableGet
    \/ RunRegisterGet \/ RunRegisterSet
    \/ RunMcastGroup \/ RunMcastMember \/ RunMcastGet
    \/ Done /\ UNCHANGED <<grpExists, callRet>>

CliSpec == CliInit /\ [][CliNext]_cliVars

(***************************************************************************)
(* Properties.                                                             *)
(***************************************************************************)

\* the group lookup a multicast-group handler makes lets it go on
GroupAllows(c, a) ==
    \/ c \notin McastCommands
    \/ c = "multicast-group get" /\ a = <<>>
    \/ c # "multicast-group get" /\ ~McastRefusal(c)
    \/ c = "multicast-group get" /\ grpExists

\* every form the usage lines of table, register and multicast-group give
\* reaches the library call: the do-while loops over keys and parameters,
\* the optional parts and the "may be the last argument" steps of the
\* parsers accept each of them, whatever follows and whatever is left out
DocumentedFormsAccepted ==
    (/\ st = "returned"
     /\ cmd \in CliCommands
     /\ pipeOk
     /\ argv \in UsageTable[cmd]
     /\ GroupAllows(cmd, argv)) => called

\* a command exits with status 0 only when it made its library call and
\* that call succeeded: a refused or failed command never reports success
SuccessMeansDone ==
    (st = "returned" /\ ret = NO_ERROR) => called /\ callRet = NO_ERROR

=============================================================================
