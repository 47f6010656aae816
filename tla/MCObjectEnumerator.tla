------------------------- MODULE MCObjectEnumerator -------------------------
(***************************************************************************)
(* Pipelines for the object listing.  Each holds a table, a ternary table, *)
(* an action selector and an extern; one of them also holds a table whose *)
(* own name ends in one of the implementation suffixes ("t_groups"), the   *)
(* case the access() loop of is_valid_object_name exists for.              *)
(***************************************************************************)
EXTENDS ObjectEnumerator

Obj(w, k) == [name |-> w, kind |-> k]

MCP4Objects ==
    { {Obj(<<"ingress">>, "table"), Obj(<<"acl">>, "ternary"),
       Obj(<<"as">>, "selector"), Obj(<<"c">>, "extern")},
      {Obj(<<"t", "_", "groups">>, "table"), Obj(<<"acl">>, "ternary"),
       Obj(<<"as">>, "selector"), Obj(<<"c">>, "extern")} }

==============================================================================
