--------------------------- MODULE TypeGraphReader ---------------------------
(***************************************************************************)
(* The BTF reader and the map opener of src/CLI/action_selector.c          *)
(* 1185-1334, used by one caller the way xdp_port_add uses open_bpf_map    *)
(* (part_000 217-226): open a map, use it, close it, and on an error       *)
(* return at once.                                                         *)
(*                                                                         *)
(* load_btf probes the pipeline's programs in a fixed order and takes the  *)
(* type graph of the first one whose program exists and whose BTF the     *)
(* kernel hands out; free_btf releases it.  open_bpf_map opens a map by    *)
(* its pin, reads its info, and, with a graph loaded, resolves its key     *)
(* and value type ids: the raw ids the kernel reports, followed, or when  *)
(* those are 0 the members key and value of the map's definition.         *)
(***************************************************************************)
EXTENDS BtfTypeGraph

CONSTANTS
    TypeGraphs,   \* the type graphs the pipeline's programs may carry
    MapPins,      \* names of the maps pinned under the pipeline
    MapNames,     \* names a caller may open (pinned or not)
    RawIds,       \* name -> [key, value]: btf_key/value_type_id of the map
    FaultPoints,  \* subset of {"btf_fd", "map_info"}
    MaxOps        \* calls of load_btf and open_bpf_map the caller makes

\* the candidate programs load_btf probes, in its order
Candidates == <<"tc-ingress", "xdp-ingress", "tc-egress">>

\* what bpf_obj_get and btf__get_from_id give for a candidate: no pin, a
\* program without BTF, or one whose BTF loads
ProgKinds == {"absent", "no_btf", "ok"}

NO_ERROR == 0
ENOENT   == 2

ASSUME /\ MapPins \subseteq MapNames
       /\ FaultPoints \subseteq {"btf_fd", "map_info"}
       /\ MaxOps \in Nat

VARIABLES
    graph,     \* the type graph every candidate program carries
    progs,     \* candidate index -> ProgKinds
    btf,       \* index of the candidate btf->btf was loaded from, 0 for NULL
    btfFd,     \* btf->btf_fd is open
    md,        \* name -> the caller's descriptor: [fd, typed, key, value]
    fds,       \* handles the caller holds open
    loadRes,   \* what the last load_btf returned
    pc,        \* "run" until the caller is done
    nops       \* calls made

vars == <<graph, progs, btf, btfFd, md, fds, loadRes, pc, nops>>

Closed == [fd |-> FALSE, typed |-> FALSE, key |-> 0, value |-> 0]

\* init_btf
InitBtf == btf = 0 /\ btfFd = FALSE

Init ==
    /\ graph \in TypeGraphs
    /\ progs \in [1..Len(Candidates) -> ProgKinds]
    /\ InitBtf
    /\ md = [n \in MapNames |-> Closed]
    /\ fds = 0
    /\ loadRes = NO_ERROR
    /\ pc = "run"
    /\ nops = 0

(***************************************************************************)
(* load_btf and try_load_btf.  try_load_btf succeeds on a candidate       *)
(* whose program is pinned and carries BTF, unless bpf_btf_get_fd_by_id   *)
(* fails (fault point btf_fd); every handle it took is closed on failure, *)
(* and the program fd on success too.                                      *)
(***************************************************************************)

\* the outcomes try_load_btf may have on every candidate
TryLoadBtf ==
    {ok \in [1..Len(Candidates) -> BOOLEAN] :
        \A i \in DOMAIN ok :
            /\ ok[i] => progs[i] = "ok"
            /\ (progs[i] = "ok" /\ ~ok[i]) => "btf_fd" \in FaultPoints}

\* the candidate the loop breaks on, 0 when none succeeded
ProbeWinner(ok) == SelectInSeq(ok, LAMBDA b : b)

CanCall == pc = "run" /\ nops < MaxOps

\* a second load_btf on a loaded reader is a no-op success
LoadBtf ==
    /\ CanCall
    /\ nops' = nops + 1
    /\ IF btf # 0
       THEN /\ loadRes' = NO_ERROR
            /\ UNCHANGED <<btf, btfFd, fds>>
       ELSE \E ok \in TryLoadBtf :
               LET w == ProbeWinner(ok)
               IN  /\ btf' = w
                   /\ btfFd' = (w # 0)
                   /\ fds' = fds + (IF w # 0 THEN 1 ELSE 0)
                   /\ loadRes' = IF w # 0 THEN NO_ERROR ELSE ENOENT
    /\ UNCHANGED <<graph, progs, md, pc>>

\* variant: btf__free without close_object_fd
FreeBtfKeepFd ==
    /\ btf' = 0
    /\ UNCHANGED <<btfFd, fds>>

\* free_btf: frees the graph and closes its fd, whatever state it is in
FreeBtf ==
    /\ btf' = 0
    /\ btfFd' = FALSE
    /\ fds' = fds - (IF btfFd THEN 1 ELSE 0)

(***************************************************************************)
(* open_bpf_map and update_map_info.                                       *)
(***************************************************************************)

\* variant: a non-zero raw id is used as the kernel reported it
ResolveTypeIdRaw(raw, def, member) ==
    IF raw = 0 THEN GetMemberTypeIdByName(graph, def, member) ELSE raw

\* one of the key/value resolutions of open_bpf_map
ResolveTypeId(raw, def, member) ==
    IF raw = 0 THEN GetMemberTypeIdByName(graph, def, member)
    ELSE FollowTypes(graph, raw)

\* the descriptor open_bpf_map fills after update_map_info succeeded
Descriptor(n) ==
    LET def == GetMapTypeIdByName(graph, n)
    IN  IF btf = 0 THEN [Closed EXCEPT !.fd = TRUE]
        ELSE [fd    |-> TRUE, typed |-> TRUE,
              key   |-> ResolveTypeId(RawIds[n].key, def, "key"),
              value |-> ResolveTypeId(RawIds[n].value, def, "value")]

\* bpf_obj_get fails on a name that is not pinned and nothing is opened;
\* otherwise the fd is open, and when bpf_obj_get_info_by_fd then fails
\* (fault point map_info) open_bpf_map returns with md->fd still open and
\* the caller returns without closing it
OpenMap(n) ==
    /\ CanCall
    /\ ~md[n].fd
    /\ nops' = nops + 1
    /\ \/ /\ n \notin MapPins
          /\ UNCHANGED <<md, fds>>
       \/ /\ n \in MapPins
          /\ "map_info" \in FaultPoints
          /\ fds' = fds + 1
          /\ UNCHANGED md
       \/ /\ n \in MapPins
          /\ md' = [md EXCEPT ![n] = Descriptor(n)]
          /\ fds' = fds + 1
    /\ UNCHANGED <<graph, progs, btf, btfFd, loadRes, pc>>

\* close_object_fd(&md.fd) once the caller is done with the map
CloseMap(n) ==
    /\ md[n].fd
    /\ md' = [md EXCEPT ![n] = Closed]
    /\ fds' = fds - 1
    /\ UNCHANGED <<graph, progs, btf, btfFd, loadRes, pc, nops>>

\* the caller, its maps closed, frees the reader and returns
Finish ==
    /\ pc = "run"
    /\ \A n \in MapNames : ~md[n].fd
    /\ FreeBtf
    /\ pc' = "done"
    /\ UNCHANGED <<graph, progs, md, loadRes, nops>>

Done == pc = "done" /\ UNCHANGED vars

Next ==
    \/ LoadBtf
    \/ \E n \in MapNames : OpenMap(n) \/ CloseMap(n)
    \/ Finish
    \/ Done

Spec == Init /\ [][Next]_vars

(***************************************************************************)
(* Properties.                                                             *)
(***************************************************************************)

TypeOK ==
    /\ graph \in TypeGraphs
    /\ btf \in 0..Len(Candidates)
    /\ btfFd = (btf # 0)
    /\ \A n \in MapNames : md[n].fd \in BOOLEAN /\ md[n].typed \in BOOLEAN
    /\ fds \in Nat
    /\ pc \in {"run", "done"}

\* the key and value ids of an open descriptor are, with a graph loaded,
\* the canonical types of the key and value members of the map's entry in
\* ".maps" whether the kernel reported raw ids or not, and 0 without one
\* (spec 4.2)
OpenedIdsCanonical ==
    \A n \in MapNames :
        LET def == MapTypeSpec(graph, n)
        IN  md[n].fd =>
               IF md[n].typed
               THEN /\ md[n].key = MemberSpec(graph, def, "key").type
                    /\ md[n].value = MemberSpec(graph, def, "value").type
               ELSE md[n].key = 0 /\ md[n].value = 0

\* once the caller has returned, every handle load_btf and open_bpf_map
\* opened for it is closed (spec 5, scoped acquisition)
HandlesReleased == pc = "done" => fds = 0

=============================================================================
