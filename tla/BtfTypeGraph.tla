---------------------------- MODULE BtfTypeGraph ----------------------------
(***************************************************************************)
(* The BTF type-graph walkers of the map opener (src/CLI/action_selector.c *)
(* 988-1183, the content of btf.c): alias following, the lookup of a map's *)
(* definition in the ".maps" section, member lookup by name and by index,  *)
(* and the recursive type size.                                            *)
(*                                                                         *)
(* A type graph is a function from type ids 1..N to nodes; id 0 is the    *)
(* void type btf__type_by_id returns for 0.  A node is a record:           *)
(*   kind     one of NodeKinds                                             *)
(*   name     its name, "" for an anonymous node                           *)
(*   type     the referenced id (typedef, ptr, var, array element)         *)
(*   size     declared size in bytes (int, struct, union)                  *)
(*   nelems   element count (array)                                        *)
(*   members  sequence of [name, type] (struct, union)                     *)
(*   entries  sequence of var ids (datasec)                                *)
(* Member bit offsets are layout only and left out.                        *)
(***************************************************************************)
EXTENDS Integers, Sequences, FiniteSets, SequencesExt, FiniteSetsExt

NodeKinds == {"int", "enum", "struct", "union", "array", "typedef", "ptr",
              "var", "datasec"}

\* the kinds follow_types steps through
AliasKinds == {"typedef", "ptr"}

Ids(btf) == DOMAIN btf

\* btf_kind(btf__type_by_id(btf, id)); id 0 is the void type
KindOf(btf, id) == IF id = 0 THEN "void" ELSE btf[id].kind

\* the EPERM every failed member lookup returns
BTF_EPERM == 1

(***************************************************************************)
(* The code.                                                               *)
(***************************************************************************)

\* variant: a walk that stops at pointers and follows typedefs only
RECURSIVE FollowTypedefs(_, _)
FollowTypedefs(btf, id) ==
    IF id # 0 /\ KindOf(btf, id) = "typedef"
    THEN FollowTypedefs(btf, btf[id].type)
    ELSE id

\* follow_types: 0 is returned as it is; typedef and ptr nodes are replaced
\* by their referent until another kind (or the void type) is reached
RECURSIVE FollowTypes(_, _)
FollowTypes(btf, id) ==
    IF id # 0 /\ KindOf(btf, id) \in AliasKinds
    THEN FollowTypes(btf, btf[id].type)
    ELSE id

\* btf_get_type_by_id: the followed id, 0 standing for NULL
BtfGetTypeById(btf, id) == FollowTypes(btf, id)

\* find_data_section_type_id: the type of the first var of the section
\* whose name matches, 0 if the node is not a data section or none does
FindDataSectionTypeId(btf, sec, name) ==
    LET vars == btf[sec].entries
        k    == SelectInSeq(vars, LAMBDA v : btf[v].name = name)
    IN  IF KindOf(btf, sec) # "datasec" \/ k = 0 THEN 0
        ELSE btf[vars[k]].type

\* variant: the map's var type returned without the final follow
GetMapTypeIdByNameRaw(btf, name) ==
    LET secs == {i \in Ids(btf) : btf[i].name = ".maps"}
    IN  IF secs = {} THEN 0
        ELSE FindDataSectionTypeId(btf, Min(secs), name)

\* get_map_type_id_by_name: the first node named ".maps" (anonymous nodes
\* skipped), then the map's var in it, followed
GetMapTypeIdByName(btf, name) ==
    LET secs == {i \in Ids(btf) : btf[i].name = ".maps"}
    IN  IF secs = {} THEN 0
        ELSE FollowTypes(btf, FindDataSectionTypeId(btf, Min(secs), name))

\* the preconditions both member lookups share: a known struct or union,
\* taken as it is, not followed
IsAggregate(btf, tid) ==
    /\ tid \in Ids(btf)
    /\ btf[tid].kind \in {"struct", "union"}

NoMember == [err |-> BTF_EPERM, index |-> -1, type |-> 0]

\* btf_get_member_md_by_name: the first member with that name
MemberByName(btf, tid, mname) ==
    LET ms == btf[tid].members
        k  == SelectInSeq(ms, LAMBDA m : m.name = mname)
    IN  IF ~IsAggregate(btf, tid) \/ k = 0 THEN NoMember
        ELSE [err |-> 0, index |-> k - 1, type |-> FollowTypes(btf, ms[k].type)]

\* variant: the member's declared type, not followed
MemberByIndexNoFollow(btf, tid, idx) ==
    IF ~IsAggregate(btf, tid) \/ idx >= Len(btf[tid].members) THEN NoMember
    ELSE [err |-> 0, index |-> idx, type |-> btf[tid].members[idx + 1].type]

\* btf_get_member_md_by_index: a 0-based index below the member count
MemberByIndex(btf, tid, idx) ==
    IF ~IsAggregate(btf, tid) \/ idx >= Len(btf[tid].members) THEN NoMember
    ELSE [err |-> 0, index |-> idx,
          type |-> FollowTypes(btf, btf[tid].members[idx + 1].type)]

\* get_member_type_id_by_name: the member's followed type, 0 on failure
GetMemberTypeIdByName(btf, tid, mname) == MemberByName(btf, tid, mname).type

\* variant: the kind of the id itself decides, without following aliases
RECURSIVE TypeSizeRaw(_, _)
TypeSizeRaw(btf, id) ==
    CASE id = 0                                   -> 0
      [] btf[id].kind \in {"int", "struct", "union"} -> btf[id].size
      [] btf[id].kind = "array"                   ->
             TypeSizeRaw(btf, btf[id].type) * btf[id].nelems
      [] OTHER                                    -> 0

\* btf_get_type_size_by_id: int, struct and union have their declared
\* size, an array the size of its element times its count, anything else 0
RECURSIVE TypeSize(_, _)
TypeSize(btf, id) ==
    LET t == BtfGetTypeById(btf, id)
    IN  CASE t = 0                                  -> 0
          [] btf[t].kind \in {"int", "struct", "union"} -> btf[t].size
          [] btf[t].kind = "array"                  ->
                 TypeSize(btf, btf[t].type) * btf[t].nelems
          [] OTHER                                  -> 0

(***************************************************************************)
(* Reference definitions, from the wording of spec 3 and 4.1, built       *)
(* without recursion over the graph.                                       *)
(***************************************************************************)

\* one alias step for every id: an alias node moves to its referent, a
\* concrete node (and 0) stays where it is
AliasStep(btf) ==
    [i \in Ids(btf) \cup {0} |->
        IF KindOf(btf, i) \in AliasKinds THEN btf[i].type ELSE i]

\* follow for every id at once: the alias step applied N times, the longest
\* alias chain an acyclic graph of N nodes has
CanonicalAll(btf) ==
    LET step == AliasStep(btf)
        iter[n \in 0..Cardinality(Ids(btf))] ==
            IF n = 0 THEN step
            ELSE LET prev == iter[n - 1] IN [i \in DOMAIN prev |-> step[prev[i]]]
    IN  iter[Cardinality(Ids(btf))]

Canonical(btf, id) == CanonicalAll(btf)[id]

\* size_of for every id at once, as the fixpoint of one bottom-up step
SizeStep(btf, canon, s) ==
    [i \in Ids(btf) \cup {0} |->
        LET c == canon[i]
        IN  CASE c = 0                                  -> 0
              [] btf[c].kind \in {"int", "struct", "union"} -> btf[c].size
              [] btf[c].kind = "array" -> s[btf[c].type] * btf[c].nelems
              [] OTHER                                  -> 0]

SizeOfAll(btf) ==
    LET canon == CanonicalAll(btf)
        iter[n \in 0..(Cardinality(Ids(btf)) + 1)] ==
            IF n = 0 THEN [i \in Ids(btf) \cup {0} |-> 0]
            ELSE LET prev == iter[n - 1] IN SizeStep(btf, canon, prev)
    IN  iter[Cardinality(Ids(btf)) + 1]

\* find_member_by_name on the canonicalized node: the smallest index of a
\* member with that name
MemberSpec(btf, tid, mname) ==
    LET c    == Canonical(btf, tid)
        hits == IF c # 0 /\ btf[c].kind \in {"struct", "union"}
                THEN {k \in 1..Len(btf[c].members) : btf[c].members[k].name = mname}
                ELSE {}
    IN  IF hits = {} THEN NoMember
        ELSE [err |-> 0, index |-> Min(hits) - 1,
              type |-> Canonical(btf, btf[c].members[Min(hits)].type)]

\* find_map_type_id: the canonical type of the ".maps" entry named name
MapTypeSpec(btf, name) ==
    LET secs == {i \in Ids(btf) : btf[i].name = ".maps"}
        sec  == Min(secs)
        hits == IF secs = {} THEN {}
                ELSE {k \in 1..Len(btf[sec].entries) :
                         btf[btf[sec].entries[k]].name = name}
    IN  IF hits = {} THEN 0
        ELSE Canonical(btf, btf[btf[sec].entries[Min(hits)]].type)

=============================================================================
