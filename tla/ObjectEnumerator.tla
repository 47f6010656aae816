--------------------------- MODULE ObjectEnumerator ---------------------------
(***************************************************************************)
(* nikss_pipeline_objects_list_init, _get_next_object and _free with       *)
(* is_valid_object_name (src/unnamed/part_000 736-886): the listing of the *)
(* logical objects of a pipeline from the names in its maps directory.     *)
(*                                                                         *)
(* Names are token sequences as in NikssKernel: words and the separator    *)
(* "_", so str_ends_with, strncmp on a prefix and strstr become IsSuffix,  *)
(* IsPrefix and an infix test.  The directory's content is what the       *)
(* compiler emitted for the pipeline's P4 objects (CompiledMaps): a table  *)
(* has its own map and a default action, a ternary table its prefixes,     *)
(* tuples map, tuples and default action, an action selector its actions, *)
(* groups, inner groups and default action group, an extern its own map;   *)
(* the data plane's internal maps come with every pipeline.                *)
(***************************************************************************)
EXTENDS Integers, Sequences, SequencesExt, FiniteSets

CONSTANTS
    P4Objects,   \* the pipelines that may be loaded: sets of [name, kind]
    MaxNext      \* calls of get_next_object the caller makes

Us(w) == <<"_", w>>

\* the tables of is_valid_object_name
ReservedNames ==
    {<<"clone", "_", "session", "_", "tbl">>,
     <<"clone", "_", "session", "_", "tbl", "_", "inner">>,
     <<"multicast", "_", "grp", "_", "tbl">>,
     <<"multicast", "_", "grp", "_", "tbl", "_", "inner">>,
     <<"hdr", "_", "md", "_", "cpumap">>,
     <<"xdp2tc", "_", "shared", "_", "map">>,
     <<"xdp2tc", "_", "cpumap">>,
     <<"tx", "_", "port">>,
     <<"crc", "_", "lookup", "_", "tbl">>}
ReservedPrefixes == {<<"ebpf", "_">>}
ObjSuffixes ==
    <<Us("defaultAction"), Us("prefixes"), Us("tuple"), Us("tuples") \o Us("map"),
      Us("groups") \o Us("inner"), Us("groups"), Us("defaultActionGroup"),
      Us("actions")>>
TernaryTupleInfix == <<"_", "tuple", "_">>

\* the allowed suffixes of nikss_pipeline_objects_list_get_next_object
AllowedSuffixes == <<Us("prefixes"), Us("actions")>>

\* the maps the compiler emits for an object, and the internal ones
CompiledMaps(o) ==
    CASE o.kind = "table"    -> {o.name, o.name \o Us("defaultAction")}
      [] o.kind = "ternary"  -> {o.name \o Us("prefixes"),
                                 o.name \o Us("tuples") \o Us("map"),
                                 o.name \o Us("tuple") \o Us("0"),
                                 o.name \o Us("defaultAction")}
      [] o.kind = "selector" -> {o.name \o Us("actions"), o.name \o Us("groups"),
                                 o.name \o Us("groups") \o Us("inner"),
                                 o.name \o Us("defaultActionGroup")}
      [] o.kind = "extern"   -> {o.name}
InternalMaps == {<<"tx", "_", "port">>, <<"ebpf", "_", "errors">>,
                 <<"clone", "_", "session", "_", "tbl">>}
Namespace(objs) == InternalMaps \cup UNION {CompiledMaps(o) : o \in objs}

ContainsInfix(n, s) ==
    \E i \in 1..(Len(n) - Len(s) + 1) : SubSeq(n, i, i + Len(s) - 1) = s

EndsWithAny(n, seq) == \E i \in DOMAIN seq : IsSuffix(seq[i], n)

VARIABLES
    pins,       \* the names in the pipeline's maps directory
    dirOk,      \* the maps directory exists (opendir succeeds)
    unread,     \* entries readdir has not returned yet
    listed,     \* names get_next_object returned, in order
    st,         \* "idle", "open", "end" (NULL returned), "failed", "freed"
    nnext       \* get_next_object calls made

vars == <<pins, dirOk, unread, listed, st, nnext>>

(***************************************************************************)
(* is_valid_object_name.  names is the directory the access() of its last *)
(* loop looks into.                                                        *)
(***************************************************************************)

\* variant: a name with a known suffix is kept only for an allowed suffix
IsValidObjectNameNoAccess(n, names) ==
    /\ n \notin ReservedNames
    /\ \A p \in ReservedPrefixes : ~IsPrefix(p, n)
    /\ IF ~EndsWithAny(n, ObjSuffixes) THEN ~ContainsInfix(n, TernaryTupleInfix)
       ELSE EndsWithAny(n, AllowedSuffixes)

IsValidObjectName(n, names) ==
    /\ n \notin ReservedNames
    /\ \A p \in ReservedPrefixes : ~IsPrefix(p, n)
    /\ IF ~EndsWithAny(n, ObjSuffixes) THEN ~ContainsInfix(n, TernaryTupleInfix)
       ELSE \/ EndsWithAny(n, AllowedSuffixes)
            \/ \E i \in DOMAIN ObjSuffixes : n \o ObjSuffixes[i] \in names

\* variant: the suffix is cut one token short, its separator left behind
StripAllowedSuffixKeepSep(n) ==
    LET k == SelectInSeq(AllowedSuffixes, LAMBDA s : IsSuffix(s, n))
    IN  IF k = 0 THEN n ELSE SubSeq(n, 1, Len(n) - Len(AllowedSuffixes[k]) + 1)

\* remove_suffix_from_str for the first allowed suffix the name ends with
StripAllowedSuffix(n) ==
    LET k == SelectInSeq(AllowedSuffixes, LAMBDA s : IsSuffix(s, n))
    IN  IF k = 0 THEN n ELSE SubSeq(n, 1, Len(n) - Len(AllowedSuffixes[k]))

Init ==
    /\ \E objs \in P4Objects : pins = Namespace(objs)
    /\ dirOk \in BOOLEAN
    /\ unread = {}
    /\ listed = <<>>
    /\ st = "idle"
    /\ nnext = 0

\* nikss_pipeline_objects_list_init: opendir of the maps directory
ObjectsListInit ==
    /\ st = "idle"
    /\ st' = IF dirOk THEN "open" ELSE "failed"
    /\ unread' = IF dirOk THEN pins ELSE {}
    /\ UNCHANGED <<pins, dirOk, listed, nnext>>

\* nikss_pipeline_objects_list_get_next_object: readdir skips the entries
\* is_valid_object_name refuses and returns the next one it accepts, its
\* allowed suffix removed, in whatever order the directory holds them; NULL
\* at the end of the directory
GetNextObject ==
    /\ st = "open"
    /\ nnext < MaxNext
    /\ nnext' = nnext + 1
    /\ LET valid == {n \in unread : IsValidObjectName(n, pins)}
       IN  \/ /\ valid = {}
              /\ unread' = {}
              /\ st' = "end"
              /\ UNCHANGED listed
           \/ \E n \in valid :
                 /\ unread' = unread \ {n}
                 /\ listed' = Append(listed, StripAllowedSuffix(n))
                 /\ UNCHANGED st
    /\ UNCHANGED <<pins, dirOk>>

\* nikss_pipeline_objects_list_free: closedir when it was opened
ObjectsListFree ==
    /\ st \in {"open", "end", "failed"}
    /\ st' = "freed"
    /\ UNCHANGED <<pins, dirOk, unread, listed, nnext>>

Done == st = "freed" /\ UNCHANGED vars

Next == ObjectsListInit \/ GetNextObject \/ ObjectsListFree \/ Done

Spec == Init /\ [][Next]_vars

(***************************************************************************)
(* Properties.                                                             *)
(***************************************************************************)

\* a well-formed name: words joined by single separators
IsName(n) ==
    /\ n \in Seq(STRING)
    /\ Len(n) % 2 = 1
    /\ \A i \in DOMAIN n : (n[i] = "_") <=> (i % 2 = 0)

TypeOK ==
    /\ unread \subseteq pins
    /\ \A i \in DOMAIN listed : IsName(listed[i])
    /\ st \in {"idle", "open", "end", "failed", "freed"}
    /\ nnext \in 0..MaxNext

\* the P4 objects the directory was compiled from
SourceObjects == {o \in UNION P4Objects : CompiledMaps(o) \subseteq pins}

\* once get_next_object has returned NULL, every P4 object of the pipeline
\* has been listed under its own name, exactly once, and nothing else:
\* no auxiliary map, internal map or ternary tuple, whatever order readdir
\* returned the entries in (spec 4.5)
ListsEachObjectOnce ==
    st = "end" =>
        /\ ToSet(listed) = {o.name : o \in SourceObjects}
        /\ Len(listed) = Cardinality(SourceObjects)

=============================================================================
