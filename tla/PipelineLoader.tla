---------------------------- MODULE PipelineLoader ----------------------------
(***************************************************************************)
(* nikss_pipeline_load and nikss_pipeline_unload (src/unnamed/part_000).   *)
(*                                                                         *)
(* A load runs as a sequence of steps, one per kernel call that changes   *)
(* the namespace: open the object, pin every program, pin every map and    *)
(* wire it into its ternary tuples map, run the initialisation programs,   *)
(* close the object.  Every failure jumps to err_close_obj with no         *)
(* rollback: the pins made so far stay.  Unload removes the whole          *)
(* pipeline directory with nftw, ignoring the failure of single removals.  *)
(***************************************************************************)
EXTENDS NikssKernel

\* the object process p loads, and its numbers of programs and maps
Obj(p) == lv[p].obj
NP(p)  == Len(Obj(p).progs)
NM(p)  == Len(Obj(p).maps)

(***************************************************************************)
(* Name handling.                                                          *)
(***************************************************************************)

\* program_pin_name: every '/' of the section name becomes '_'
PinName(sec) == ReplaceAll(sec, "/", "_")

\* strstr(map_name, ".") != NULL: the map is compiler-internal, not pinned
HasDot(name) == Contains(name, ".")

\* strstr(tuple_name, "_tuple_"): index of the first occurrence, or 0
TupleInfix == <<"_", "tuple", "_">>
InfixAt(name) ==
    SelectInSeq([i \in 1..(Len(name) - Len(TupleInfix) + 1) |->
                    SubSeq(name, i, i + Len(TupleInfix) - 1)],
                LAMBDA s : s = TupleInfix)

\* snprintf("%.*s_tuples_map", <length before the infix>, tuple_name)
TuplesMapName(name) ==
    SubSeq(name, 1, InfixAt(name) - 1) \o <<"_", "tuples", "_", "map">>

\* extract_tuple_id_from_tuple: strtol on what follows the last '_';
\* -1 when strtol consumes nothing (elem == end, ENODATA)
TupleId(name) ==
    LET u    == SelectLastInSeq(name, LAMBDA t : t = "_")
        elem == IF u < Len(name) THEN name[u + 1] ELSE ""
    IN  IF elem \in DOMAIN Numerals THEN Numerals[elem] ELSE -1

IsInitProg(sec) == sec \in {TC_INIT_PROG, XDP_INIT_PROG}

(***************************************************************************)
(* Helpers for the step sequence of one process.                           *)
(***************************************************************************)

\* variant: the loop stops one element before the end
NextInShort(p, label, n, after) ==
    IF lv[p].k < n - 1
    THEN /\ pc' = [pc EXCEPT ![p] = label]
         /\ lv' = [lv EXCEPT ![p].k = @ + 1]
    ELSE /\ pc' = [pc EXCEPT ![p] = after]
         /\ lv' = [lv EXCEPT ![p].k = 1]

\* leave the loop over a sequence of length n at index k
NextIn(p, label, n, after) ==
    IF lv[p].k < n
    THEN /\ pc' = [pc EXCEPT ![p] = label]
         /\ lv' = [lv EXCEPT ![p].k = @ + 1]
    ELSE /\ pc' = [pc EXCEPT ![p] = after]
         /\ lv' = [lv EXCEPT ![p].k = 1]

\* goto err_close_obj with ret set to r
Abort(p, r) ==
    /\ pc' = [pc EXCEPT ![p] = "ld_close"]
    /\ lv' = [lv EXCEPT ![p].ret = r]

(***************************************************************************)
(* nikss_pipeline_load.  The code never looks at what the pipeline         *)
(* directory already holds; spec 4.3 leaves it to the operator to unload  *)
(* a failed load before the next one, which UnloadFirst assumes.          *)
(***************************************************************************)
StartLoad(p, o) ==
    /\ CanStart(p)
    /\ UnloadFirst => ~pipeDir
    /\ pc'   = [pc EXCEPT ![p] = "ld_open"]
    /\ lv'   = [lv EXCEPT ![p] = [op |-> "load", obj |-> o, k |-> 1,
                                  ret |-> 0, pids |-> <<>>, mids |-> <<>>]]
    /\ nops' = [nops EXCEPT ![p] = @ + 1]
    /\ UNCHANGED <<kernelVars, hookVars, fds, histVars>>

\* ids the kernel gives n new objects after skip others of the same load
FreshIds(skip, n) == [k \in 1..n |-> nextId + skip + k - 1]

\* bpf_prog_load: the object's programs and maps become kernel objects
\* with fresh ids; a failure returns errno at once
LdOpen(p) ==
    /\ pc[p] = "ld_open"
    /\ \/ /\ "load_obj" \in FaultPoints
          /\ pc' = [pc EXCEPT ![p] = "idle"]
          /\ lv' = [lv EXCEPT ![p] = [op |-> "load", result |-> FaultErr]]
          /\ UNCHANGED kernelVars
       \/ LET pids == FreshIds(0, NP(p))
              mids == FreshIds(NP(p), NM(p))
          IN  /\ nextId'  = nextId + NP(p) + NM(p)
              /\ mapData' = mapData @@ [m \in Range(mids) |-> EmptyFn]
              /\ mapMax'  = mapMax @@ [m \in Range(mids) |->
                                Obj(p).cap[Obj(p).maps[CHOOSE k \in 1..NM(p) : mids[k] = m]]]
              /\ pc' = [pc EXCEPT ![p] = "ld_pin_prog"]
              /\ lv' = [lv EXCEPT ![p].pids = pids, ![p].mids = mids]
              /\ UNCHANGED <<progPins, mapPins, pipeDir, inited>>
    /\ UNCHANGED <<hookVars, fds, nops, histVars>>

\* bpf_program__pin under the flattened section name; an existing pin
\* file makes it fail with EEXIST
LdPinProg(p) ==
    LET k    == lv[p].k
        name == PinName(Obj(p).progs[k])
    IN
    /\ pc[p] = "ld_pin_prog"
    /\ \/ /\ Pinned(name)
          /\ Abort(p, -EEXIST)
          /\ UNCHANGED <<progPins, pipeDir, pinnedAs>>
       \/ /\ "pin" \in FaultPoints
          /\ Abort(p, -FaultErr)
          /\ UNCHANGED <<progPins, pipeDir, pinnedAs>>
       \/ /\ ~Pinned(name)
          /\ progPins' = progPins @@ (name :> lv[p].pids[k])
          /\ pipeDir'  = TRUE
          /\ pinnedAs' = pinnedAs @@ (lv[p].pids[k] :> [gen |-> lv[p].pids[1], role |-> name])
          /\ NextIn(p, "ld_pin_prog", NP(p), "ld_pin_map")
    /\ UNCHANGED <<mapPins, mapData, mapMax, nextId, inited, hookVars, fds, nops, loaded, ports>>

\* one turn of the map loop up to bpf_map__pin.  bpf_map__is_pinned is
\* false for a freshly opened object, so the unpin branch never runs.
LdPinMap(p) ==
    LET k    == lv[p].k
        name == Obj(p).maps[k]
    IN
    /\ pc[p] = "ld_pin_map"
    /\ \/ /\ HasDot(name)
          /\ NextIn(p, "ld_pin_map", NM(p), "ld_init")
          /\ UNCHANGED <<mapPins, pipeDir>>
       \/ /\ ~HasDot(name)
          /\ \/ MapPinned(name) /\ Abort(p, -EEXIST)
             \/ "pin" \in FaultPoints /\ Abort(p, -FaultErr)
          /\ UNCHANGED <<mapPins, pipeDir>>
       \/ /\ ~HasDot(name)
          /\ ~MapPinned(name)
          /\ mapPins' = mapPins @@ (name :> lv[p].mids[k])
          /\ pipeDir' = TRUE
          /\ pc' = [pc EXCEPT ![p] = "ld_tuple"]
          /\ UNCHANGED lv
    /\ UNCHANGED <<progPins, mapData, mapMax, nextId, inited, hookVars, fds, nops, histVars>>

\* outcomes of bpf_map_update_elem on a tuples map: it fails at a key past
\* max_entries, and at fault point tuple_update for any other reason
UpdateOk == IF "tuple_update" \in FaultPoints THEN BOOLEAN ELSE {TRUE}

\* join_tuple_to_map_if_tuple, called right after the map is pinned.  It
\* opens the tuples map and the tuple by their pins (open_bpf_map, whose
\* update_map_info may fail with the map fd left open) and never closes
\* either; a failed update is reported on stderr and NO_ERROR returned.
\* Its errors are positive errno values, stored in ret as they are.
LdJoinTuple(p) ==
    LET k      == lv[p].k
        name   == Obj(p).maps[k]
        tuples == TuplesMapName(name)
        tid    == TupleId(name)
    IN
    /\ pc[p] = "ld_tuple"
    /\ \/ /\ InfixAt(name) = 0
          /\ NextIn(p, "ld_pin_map", NM(p), "ld_init")
          /\ UNCHANGED <<mapData, fds>>
       \/ /\ InfixAt(name) > 0
          /\ ~MapPinned(tuples)
          /\ Abort(p, ENOENT)
          /\ UNCHANGED <<mapData, fds>>
       \/ /\ InfixAt(name) > 0
          /\ MapPinned(tuples)
          /\ \/ "map_info" \in FaultPoints /\ Abort(p, FaultErr)
             \/ tid < 0 /\ Abort(p, ENODATA)
          /\ fds' = [fds EXCEPT ![p] = @ + 1]
          /\ UNCHANGED mapData
       \/ /\ InfixAt(name) > 0
          /\ MapPinned(tuples)
          /\ tid >= 0
          /\ "map_info" \in FaultPoints
          /\ Abort(p, FaultErr)
          /\ fds' = [fds EXCEPT ![p] = @ + 2]
          /\ UNCHANGED mapData
       \/ /\ InfixAt(name) > 0
          /\ MapPinned(tuples)
          /\ tid >= 0
          /\ fds' = [fds EXCEPT ![p] = @ + 2]
          /\ \E ok \in UpdateOk :
                mapData' =
                    IF ok /\ tid < mapMax[mapPins[tuples]]
                    THEN [mapData EXCEPT ![mapPins[tuples]] =
                                          (tid :> mapPins[name]) @@ @]
                    ELSE mapData
          /\ NextIn(p, "ld_pin_map", NM(p), "ld_init")
    /\ UNCHANGED <<progPins, mapPins, pipeDir, mapMax, nextId, inited, hookVars, nops, histVars>>

\* do_initialize_maps: bpf_prog_test_run of each initialisation program
LdInit(p) ==
    LET k == lv[p].k
    IN
    /\ pc[p] = "ld_init"
    /\ \/ /\ ~IsInitProg(Obj(p).progs[k])
          /\ NextIn(p, "ld_init", NP(p), "ld_close")
          /\ UNCHANGED inited
       \/ /\ IsInitProg(Obj(p).progs[k])
          /\ "init" \in FaultPoints
          /\ Abort(p, -FaultErr)
          /\ UNCHANGED inited
       \/ /\ IsInitProg(Obj(p).progs[k])
          /\ inited' = inited \cup {lv[p].pids[k]}
          /\ NextIn(p, "ld_init", NP(p), "ld_close")
    /\ UNCHANGED <<progPins, mapPins, pipeDir, mapData, mapMax, nextId, hookVars, fds, nops, histVars>>

\* err_close_obj: bpf_object__close, then return -ret.  A load that
\* returns 0 replaces the recorded pipeline and the recorded ports.
LdClose(p) ==
    LET r == -lv[p].ret
    IN
    /\ pc[p] = "ld_close"
    /\ pc' = [pc EXCEPT ![p] = "idle"]
    /\ lv' = [lv EXCEPT ![p] = [op |-> "load", result |-> r]]
    /\ loaded' = IF r = NO_ERROR
                 THEN [obj |-> Obj(p), pids |-> lv[p].pids, mids |-> lv[p].mids]
                 ELSE loaded
    /\ ports'  = IF r = NO_ERROR THEN {} ELSE ports
    /\ UNCHANGED <<kernelVars, hookVars, fds, nops, pinnedAs>>

(***************************************************************************)
(* nikss_pipeline_unload: remove_pipeline_directory.  nftw fails when the *)
(* directory does not exist; remove_file ignores every error.             *)
(***************************************************************************)
Unload(p) ==
    /\ CanStart(p)
    /\ nops' = [nops EXCEPT ![p] = @ + 1]
    /\ \/ /\ ~pipeDir
          /\ lv' = [lv EXCEPT ![p] = [op |-> "unload", result |-> ENOENT]]
          /\ UNCHANGED <<progPins, mapPins, pipeDir, histVars>>
       \/ /\ pipeDir
          /\ progPins' = EmptyFn
          /\ mapPins'  = EmptyFn
          /\ pipeDir'  = FALSE
          /\ lv' = [lv EXCEPT ![p] = [op |-> "unload", result |-> NO_ERROR]]
          /\ loaded' = NoLoad
          /\ ports'  = {}
    /\ UNCHANGED <<mapData, mapMax, nextId, inited, hookVars, pc, fds, pinnedAs>>

LoaderNext(p) ==
    \/ \E o \in Objects : StartLoad(p, o)
    \/ LdOpen(p)
    \/ LdPinProg(p)
    \/ LdPinMap(p)
    \/ LdJoinTuple(p)
    \/ LdInit(p)
    \/ LdClose(p)
    \/ Unload(p)

=============================================================================
