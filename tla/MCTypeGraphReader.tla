-------------------------- MODULE MCTypeGraphReader --------------------------
(***************************************************************************)
(* The reader and opener with the type graph of a pipeline with two maps  *)
(* declared in ".maps": tbl, whose BTF ids the kernel reports, and devmap, *)
(* which libbpf had to create without BTF (a DEVMAP on a kernel that      *)
(* refuses BTF for it), so its raw ids are 0.  legacy is pinned but not   *)
(* declared in ".maps"; gone is not pinned.                                *)
(*                                                                         *)
(*   1 typedef u32 -> 3        5 ptr -> 1    9  var devmap -> 10           *)
(*   2 struct { key: 3 }       6 ptr -> 2    10 typedef -> 4               *)
(*   3 int                     7 var tbl -> 4 or 10                        *)
(*   4 struct { key: 5; value: 6 }           8  datasec .maps { 7, 9 }     *)
(***************************************************************************)
EXTENDS TypeGraphReader

B == [kind |-> "int", name |-> "", type |-> 0, size |-> 0, nelems |-> 0,
      members |-> <<>>, entries |-> <<>>]

M(n, t) == [name |-> n, type |-> t]

PipelineGraph(tblType) ==
    <<[B EXCEPT !.kind = "typedef", !.name = "u32", !.type = 3],
      [B EXCEPT !.kind = "struct", !.size = 4, !.members = <<M("key", 3)>>],
      [B EXCEPT !.size = 4],
      [B EXCEPT !.kind = "struct", !.size = 16,
                !.members = <<M("key", 5), M("value", 6)>>],
      [B EXCEPT !.kind = "ptr", !.type = 1],
      [B EXCEPT !.kind = "ptr", !.type = 2],
      [B EXCEPT !.kind = "var", !.name = "tbl", !.type = tblType],
      [B EXCEPT !.kind = "datasec", !.name = ".maps", !.entries = <<7, 9>>],
      [B EXCEPT !.kind = "var", !.name = "devmap", !.type = 10],
      [B EXCEPT !.kind = "typedef", !.type = 4]>>

MCTypeGraphs == {PipelineGraph(4), PipelineGraph(10)}

MCMapPins  == {"tbl", "devmap", "legacy"}
MCMapNames == {"tbl", "devmap", "legacy", "gone"}
MCRawIds   == [n \in MCMapNames |->
                  IF n = "tbl" THEN [key |-> 1, value |-> 2]
                  ELSE [key |-> 0, value |-> 0]]

=============================================================================
