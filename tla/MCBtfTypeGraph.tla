--------------------------- MODULE MCBtfTypeGraph ---------------------------
(***************************************************************************)
(* Every small type graph, checked against the walkers of BtfTypeGraph.    *)
(*                                                                         *)
(* Ids 1..Free are enumerated: each is an int, an enum, a typedef, a      *)
(* pointer or an array of an earlier id, a struct with one of a few member *)
(* layouts, or a union.  Struct members may point at any id, later ones    *)
(* and the struct itself included, as a struct holding a pointer to its  *)
(* own type does.  Aliases and arrays refer to earlier ids only: the       *)
(* kernel rejects BTF with an alias or array cycle.                        *)
(*                                                                         *)
(* The ids after them are the map section a BTF-defined map compiles to:   *)
(*   Free+1  struct { key *; value *; }   (the map definition)            *)
(*   Free+2  ptr -> 1                     (__type(key, ...))              *)
(*   Free+3  ptr -> 2                     (__type(value, ...))            *)
(*   Free+4  var tbl -> Free+1 or Free+6                                   *)
(*   Free+5  datasec ".maps" { Free+4 }                                    *)
(*   Free+6  typedef tbl_t -> Free+1                                       *)
(***************************************************************************)
EXTENDS BtfTypeGraph

VARIABLE graph

Free == 3
Top  == Free + 6

Blank == [kind |-> "int", name |-> "", type |-> 0, size |-> 0, nelems |-> 0,
          members |-> <<>>, entries |-> <<>>]

Mem(n, t) == [name |-> n, type |-> t]

\* member layouts of an enumerated struct whose first member refers to a
Layouts(a) == {<<Mem("key", a)>>,
               <<Mem("value", a), Mem("key", 0)>>,
               <<Mem("", a), Mem("", 0)>>}

\* the nodes id k may be
NodeChoices(k) ==
       {[Blank EXCEPT !.kind = kd, !.size = 4] : kd \in {"int", "enum"}}
  \cup {[Blank EXCEPT !.kind = kd, !.type = r] :
           kd \in AliasKinds, r \in 0..(k - 1)}
  \cup {[Blank EXCEPT !.kind = "array", !.type = r, !.nelems = 2] :
           r \in 1..(k - 1)}
  \cup {[Blank EXCEPT !.kind = "struct", !.size = 8, !.members = l] :
           l \in UNION {Layouts(a) : a \in 0..Free}}
  \cup {[Blank EXCEPT !.kind = "union", !.size = 4,
                      !.members = <<Mem("key", a)>>] : a \in 0..Free}

MapSection(v) ==
    <<[Blank EXCEPT !.kind = "struct", !.size = 16,
                    !.members = <<Mem("key", Free + 2), Mem("value", Free + 3)>>],
      [Blank EXCEPT !.kind = "ptr", !.type = 1],
      [Blank EXCEPT !.kind = "ptr", !.type = 2],
      [Blank EXCEPT !.kind = "var", !.name = "tbl", !.type = v],
      [Blank EXCEPT !.kind = "datasec", !.name = ".maps", !.entries = <<Free + 4>>],
      [Blank EXCEPT !.kind = "typedef", !.name = "tbl_t", !.type = Free + 1]>>

Graphs ==
    {[i \in 1..Top |-> IF i <= Free THEN c[i] ELSE MapSection(v)[i - Free]] :
        c \in NodeChoices(1) \X NodeChoices(2) \X NodeChoices(3), v \in {Free + 1, Free + 6}}

MapNames    == {"tbl", "ghost"}
MemberNames == {"key", "value", ""}
AllIds      == 0..Top

Init == graph \in Graphs

\* the walkers are pure: a graph never changes once loaded
Next == UNCHANGED graph

Spec == Init /\ [][Next]_graph

\* the walkers' results are ids of the graph: follow ends on a concrete node
\* or 0, member lookups give an error or an index and a followed type
TypeOK ==
    /\ DOMAIN graph = 1..Top
    /\ \A id \in AllIds :
          /\ FollowTypes(graph, id) \in AllIds
          /\ KindOf(graph, FollowTypes(graph, id)) \notin AliasKinds
          /\ TypeSize(graph, id) \in Nat
    /\ \A tid \in AllIds, m \in MemberNames :
          MemberByName(graph, tid, m).err \in {0, BTF_EPERM}

(***************************************************************************)
(* Properties.                                                             *)
(***************************************************************************)

\* follow_types ends, for every id, at the node the alias chain ends at
\* (spec 3 and 4.1); this includes follow(follow(x)) = follow(x) (spec 8)
FollowIsCanonical ==
    \A id \in AllIds : FollowTypes(graph, id) = Canonical(graph, id)

\* the recursive btf_get_type_size_by_id gives every id the size the
\* bottom-up fixpoint of spec 4.1's size rules gives it, nested arrays and
\* arrays of typedefs included
TypeSizeMatchesSpec ==
    LET sizes == SizeOfAll(graph)
    IN  \A id \in AllIds : TypeSize(graph, id) = sizes[id]

\* every named member found by btf_get_member_md_by_index is found with the
\* same effective type and index by btf_get_member_md_by_name, and both
\* lookups fail on a node that is not a struct or union (spec 8)
MemberLookupsAgree ==
    \A tid \in AllIds, idx \in 0..2 :
        LET bi == MemberByIndex(graph, tid, idx)
            n  == graph[tid].members[idx + 1].name
        IN  /\ ~IsAggregate(graph, tid) =>
                   /\ bi.err = BTF_EPERM
                   /\ \A m \in MemberNames : MemberByName(graph, tid, m).err = BTF_EPERM
            /\ (bi.err = 0 /\ n # "") =>
                   /\ MemberByName(graph, tid, n).type = bi.type
                   /\ MemberByName(graph, tid, n).index = idx

\* get_map_type_id_by_name finds the canonical definition of a map declared
\* in ".maps", through a typedef'd definition too, and 0 for an undeclared
\* one (spec 4.1 find_map_type_id)
MapTypeMatchesSpec ==
    \A n \in MapNames : GetMapTypeIdByName(graph, n) = MapTypeSpec(graph, n)

=============================================================================
