----------------------------- MODULE PortAttacher -----------------------------
(***************************************************************************)
(* nikss_pipeline_add_port, nikss_pipeline_del_port and the port list     *)
(* (src/unnamed/part_000).                                                 *)
(*                                                                         *)
(* add_port decides the pipeline flavour once, by the presence of the XDP *)
(* helper pin, then runs one step per kernel call that changes state: the *)
(* XDP attach with its driver-then-generic fallback, the DEVMAP and jump   *)
(* table updates (XDP flavour only), the TC hook creation and the TC       *)
(* ingress and egress attachments.  Every failure returns at once and      *)
(* leaves what was attached attached.                                      *)
(***************************************************************************)
EXTENDS NikssKernel

\* return r from the port operation of process p
PortReturn(p, r) ==
    /\ pc' = [pc EXCEPT ![p] = "idle"]
    /\ lv' = [lv EXCEPT ![p] = [op |-> @.op, ifc |-> @.ifc, result |-> r]]

\* go on with the step labelled l
Goto(p, l) ==
    /\ pc' = [pc EXCEPT ![p] = l]
    /\ UNCHANGED lv

(***************************************************************************)
(* Outcome of bpf_set_link_xdp_fd(ifindex, fd, XDP_FLAGS_DRV_MODE) as     *)
(* dev_xdp_attach computes it: a program attached in the other mode is    *)
(* refused with EEXIST before the driver is asked; a driver without        *)
(* ndo_bpf, or one that refuses the program, answers EOPNOTSUPP.           *)
(***************************************************************************)
DrvAttachErr(i) ==
    CASE xdpSkb[i] # NoProg      -> EEXIST
      [] Driver[i] = "native"    -> NO_ERROR
      [] OTHER                   -> EOPNOTSUPP

(***************************************************************************)
(* nikss_pipeline_add_port                                                 *)
(***************************************************************************)

\* flavour detection and if_nametoindex (0: no such interface)
StartAddPort(p, i) ==
    /\ CanStart(p)
    /\ nops' = [nops EXCEPT ![p] = @ + 1]
    /\ IF i = 0
       THEN /\ lv' = [lv EXCEPT ![p] = [op |-> "add_port", ifc |-> i,
                                         result |-> ENODEV]]
            /\ UNCHANGED pc
       ELSE /\ lv' = [lv EXCEPT ![p] = [op |-> "add_port", ifc |-> i,
                                         warned |-> FALSE]]
            /\ pc' = [pc EXCEPT ![p] =
                        IF Pinned(XDP_HELPER_PROG) THEN "tc_helper"
                                                   ELSE "xdp_ingress"]
    /\ UNCHANGED <<kernelVars, hookVars, fds, histVars>>

\* xdp_attach_prog_to_port(prog), then close_object_fd by the caller:
\* native mode first, generic mode once on EOPNOTSUPP only
XdpAttachProg(p, prog, after) ==
    LET i == lv[p].ifc
    IN
    \/ /\ ~Pinned(prog)
       /\ PortReturn(p, ENOENT)
       /\ UNCHANGED <<xdpDrv, xdpSkb>>
    \/ /\ Pinned(prog)
       /\ DrvAttachErr(i) \notin {NO_ERROR, EOPNOTSUPP}
       /\ PortReturn(p, DrvAttachErr(i))
       /\ UNCHANGED <<xdpDrv, xdpSkb>>
    \/ /\ Pinned(prog)
       /\ DrvAttachErr(i) = NO_ERROR
       /\ \/ /\ "xdp_attach" \in FaultPoints
             /\ PortReturn(p, FaultErr)
             /\ UNCHANGED xdpDrv
          \/ /\ xdpDrv' = [xdpDrv EXCEPT ![i] = progPins[prog]]
             /\ Goto(p, after)
       /\ UNCHANGED xdpSkb
    \/ /\ Pinned(prog)
       /\ DrvAttachErr(i) = EOPNOTSUPP
       \* the generic-mode retry: a driver that refuses native mode never
       \* holds a native-mode program, so only a kernel failure remains
       /\ \/ /\ "xdp_attach" \in FaultPoints
             /\ PortReturn(p, FaultErr)
             /\ UNCHANGED xdpSkb
          \/ /\ xdpSkb' = [xdpSkb EXCEPT ![i] = progPins[prog]]
             /\ Goto(p, after)
       /\ UNCHANGED xdpDrv

\* xdp_port_add, first call: attach the XDP ingress program
XdpIngress(p) ==
    /\ pc[p] = "xdp_ingress"
    /\ XdpAttachProg(p, XDP_INGRESS_PROG, "xdp_devmap")
    /\ UNCHANGED <<kernelVars, tcHook, tcIn, tcEg, fds, nops, histVars>>

\* tc_port_add, first call: attach the XDP helper program
TcHelper(p) ==
    /\ pc[p] = "tc_helper"
    /\ XdpAttachProg(p, XDP_HELPER_PROG, "tc_hook")
    /\ UNCHANGED <<kernelVars, tcHook, tcIn, tcEg, fds, nops, histVars>>

\* open_prog_by_name(XDP_EGRESS_PROG): may not exist, errors ignored
EgressProgFd ==
    IF Pinned(XDP_EGRESS_PROG) THEN progPins[XDP_EGRESS_PROG] ELSE NoFd

\* xdp_port_add: open the (optional) XDP egress program and the DEVMAP,
\* then update_prog_devmap: slot ifindex % max_entries, a warning only
\* when ifindex > max_entries
XdpDevmap(p) ==
    LET i    == lv[p].ifc
        eg   == EgressProgFd
        dm   == mapPins[XDP_DEVMAP]
        cap  == mapMax[dm]
    IN
    /\ pc[p] = "xdp_devmap"
    /\ \/ /\ ~MapPinned(XDP_DEVMAP)
          /\ PortReturn(p, ENOENT)
          /\ UNCHANGED mapData
       \/ /\ MapPinned(XDP_DEVMAP)
          /\ "map_update" \in FaultPoints
          /\ PortReturn(p, FaultErr)
          /\ UNCHANGED mapData
       \/ /\ MapPinned(XDP_DEVMAP)
          /\ mapData' = [mapData EXCEPT ![dm] =
                            ((i % cap) :> [ifindex |-> i, prog |-> eg]) @@ @]
          /\ pc' = [pc EXCEPT ![p] = "xdp_jmp"]
          /\ lv' = [lv EXCEPT ![p].warned = (i > cap)]
    /\ UNCHANGED <<progPins, mapPins, pipeDir, mapMax, nextId, inited, hookVars, fds, nops, histVars>>

\* xdp_port_add: the optimized egress program, when present, goes into
\* slot 0 of the jump table; a missing jump table is reported as ENOENT
XdpJmp(p) ==
    LET opt == XDP_EGRESS_PROG_OPTIMIZED
        jm  == mapPins[XDP_JUMP_TBL]
    IN
    /\ pc[p] = "xdp_jmp"
    /\ \/ /\ ~Pinned(opt)
          /\ Goto(p, "tc_hook")
          /\ UNCHANGED mapData
       \/ /\ Pinned(opt)
          /\ ~MapPinned(XDP_JUMP_TBL)
          /\ PortReturn(p, ENOENT)
          /\ UNCHANGED mapData
       \/ /\ Pinned(opt)
          /\ MapPinned(XDP_JUMP_TBL)
          /\ "map_update" \in FaultPoints
          /\ PortReturn(p, FaultErr)
          /\ UNCHANGED mapData
       \/ /\ Pinned(opt)
          /\ MapPinned(XDP_JUMP_TBL)
          /\ mapData' = [mapData EXCEPT ![jm] = (0 :> progPins[opt]) @@ @]
          /\ Goto(p, "tc_hook")
    /\ UNCHANGED <<progPins, mapPins, pipeDir, mapMax, nextId, inited, hookVars, fds, nops, histVars>>

\* tc_create_hook: bpf_tc_hook_create fails with EEXIST on an existing
\* clsact qdisc, and the code returns that error
TcCreateHook(p) ==
    LET i == lv[p].ifc
    IN
    /\ pc[p] = "tc_hook"
    /\ \/ /\ tcHook[i]
          /\ PortReturn(p, EEXIST)
          /\ UNCHANGED tcHook
       \/ /\ ~tcHook[i]
          /\ "tc" \in FaultPoints
          /\ PortReturn(p, FaultErr)
          /\ UNCHANGED tcHook
       \/ /\ ~tcHook[i]
          /\ tcHook' = [tcHook EXCEPT ![i] = TRUE]
          /\ Goto(p, "tc_ingress")
    /\ UNCHANGED <<kernelVars, xdpDrv, xdpSkb, tcIn, tcEg, fds, nops, histVars>>

\* variant: the TC egress program's name passed for the ingress hook
TcIngressEgressProg(p) ==
    LET i == lv[p].ifc
    IN
    /\ pc[p] = "tc_ingress"
    /\ \/ /\ ~Pinned(TC_EGRESS_PROG)
          /\ PortReturn(p, ENOENT)
          /\ UNCHANGED tcIn
       \/ /\ Pinned(TC_EGRESS_PROG)
          /\ "tc" \in FaultPoints
          /\ PortReturn(p, FaultErr)
          /\ UNCHANGED tcIn
       \/ /\ Pinned(TC_EGRESS_PROG)
          /\ tcIn' = [tcIn EXCEPT ![i] = progPins[TC_EGRESS_PROG]]
          /\ Goto(p, "tc_egress")
    /\ UNCHANGED <<kernelVars, xdpDrv, xdpSkb, tcHook, tcEg, fds, nops, histVars>>

\* tc_attach_prog(TC_INGRESS_PROG, BPF_TC_INGRESS): a missing program is
\* an error
TcIngress(p) ==
    LET i == lv[p].ifc
    IN
    /\ pc[p] = "tc_ingress"
    /\ \/ /\ ~Pinned(TC_INGRESS_PROG)
          /\ PortReturn(p, ENOENT)
          /\ UNCHANGED tcIn
       \/ /\ Pinned(TC_INGRESS_PROG)
          /\ "tc" \in FaultPoints
          /\ PortReturn(p, FaultErr)
          /\ UNCHANGED tcIn
       \/ /\ Pinned(TC_INGRESS_PROG)
          /\ tcIn' = [tcIn EXCEPT ![i] = progPins[TC_INGRESS_PROG]]
          /\ Goto(p, "tc_egress")
    /\ UNCHANGED <<kernelVars, xdpDrv, xdpSkb, tcHook, tcEg, fds, nops, histVars>>

\* tc_attach_prog(TC_EGRESS_PROG, BPF_TC_EGRESS): a missing program is
\* skipped.  add_port returns 0 after this step.
TcEgress(p) ==
    LET i == lv[p].ifc
    IN
    /\ pc[p] = "tc_egress"
    /\ \/ /\ ~Pinned(TC_EGRESS_PROG)
          /\ PortReturn(p, NO_ERROR)
          /\ ports' = ports \cup {i}
          /\ UNCHANGED tcEg
       \/ /\ Pinned(TC_EGRESS_PROG)
          /\ "tc" \in FaultPoints
          /\ PortReturn(p, FaultErr)
          /\ UNCHANGED <<tcEg, ports>>
       \/ /\ Pinned(TC_EGRESS_PROG)
          /\ tcEg' = [tcEg EXCEPT ![i] = progPins[TC_EGRESS_PROG]]
          /\ PortReturn(p, NO_ERROR)
          /\ ports' = ports \cup {i}
    /\ UNCHANGED <<kernelVars, xdpDrv, xdpSkb, tcHook, tcIn, fds, nops, loaded, pinnedAs>>

(***************************************************************************)
(* nikss_pipeline_del_port: bpf_set_link_xdp_fd(ifindex, -1, 0), whose    *)
(* mode the kernel picks (native when the driver has ndo_bpf), then        *)
(* bpf_tc_hook_destroy, whose ENOENT is ignored.  It does not look at the  *)
(* pipeline at all.                                                        *)
(***************************************************************************)
DelPort(p, i) ==
    /\ CanStart(p)
    /\ nops' = [nops EXCEPT ![p] = @ + 1]
    /\ LET Ret(r) == lv' = [lv EXCEPT ![p] = [op |-> "del_port", ifc |-> i,
                                               result |-> r]]
           Detach == /\ xdpDrv' = IF HasNdoBpf(i)
                                  THEN [xdpDrv EXCEPT ![i] = NoProg] ELSE xdpDrv
                     /\ xdpSkb' = IF HasNdoBpf(i)
                                  THEN xdpSkb ELSE [xdpSkb EXCEPT ![i] = NoProg]
       IN
       \/ /\ i = 0
          /\ Ret(ENODEV)
          /\ UNCHANGED <<hookVars, ports>>
       \/ /\ i # 0
          /\ "detach" \in FaultPoints
          /\ Ret(FaultErr)
          /\ UNCHANGED <<hookVars, ports>>
       \/ /\ i # 0
          /\ Detach
          /\ ~tcHook[i]
          /\ Ret(NO_ERROR)
          /\ ports' = ports \ {i}
          /\ UNCHANGED <<tcHook, tcIn, tcEg>>
       \/ /\ i # 0
          /\ Detach
          /\ tcHook[i]
          /\ "tc" \in FaultPoints
          /\ Ret(FaultErr)
          /\ ports' = ports \ {i}
          /\ UNCHANGED <<tcHook, tcIn, tcEg>>
       \/ /\ i # 0
          /\ Detach
          /\ tcHook[i]
          /\ tcHook' = [tcHook EXCEPT ![i] = FALSE]
          /\ tcIn'   = [tcIn EXCEPT ![i] = NoProg]
          /\ tcEg'   = [tcEg EXCEPT ![i] = NoProg]
          /\ Ret(NO_ERROR)
          /\ ports' = ports \ {i}
    /\ UNCHANGED <<kernelVars, pc, fds, loaded, pinnedAs>>

(***************************************************************************)
(* The port list: nikss_port_list_init, nikss_port_list_get_next_port     *)
(* until it returns NULL, and nikss_port_list_free.  init reads the id of *)
(* the XDP helper, or else of the XDP ingress program, once; each          *)
(* get_next_port call walks the if_nameindex array from the cursor to the *)
(* next interface reporting that id, skipping those reporting 0.           *)
(***************************************************************************)
PipelineXdpId ==
    IF Pinned(XDP_HELPER_PROG) THEN progPins[XDP_HELPER_PROG]
    ELSE IF Pinned(XDP_INGRESS_PROG) THEN progPins[XDP_INGRESS_PROG]
    ELSE NoProg

\* nikss_port_list_init: if_nameindex, then the program id; without either
\* program bpf_obj_get fails with ENOENT and the list is not usable
PortListInit(p) ==
    /\ CanStart(p)
    /\ nops' = [nops EXCEPT ![p] = @ + 1]
    /\ IF PipelineXdpId = NoProg
       THEN /\ lv' = [lv EXCEPT ![p] = [op |-> "port_list", ifc |-> 0,
                                         result |-> ENOENT]]
            /\ UNCHANGED pc
       ELSE /\ lv' = [lv EXCEPT ![p] = [op |-> "port_list", ifc |-> 0,
                                         ifaceList |-> SetToSortSeq(Ifaces, <),
                                         cur |-> 0, xdpProgId |-> PipelineXdpId,
                                         listed |-> <<>>]]
            /\ pc' = [pc EXCEPT ![p] = "port_next"]
    /\ UNCHANGED <<kernelVars, hookVars, fds, histVars>>

\* variant: an interface reporting no program ends the walk
RECURSIVE NextPortStopAtEmpty(_, _, _)
NextPortStopAtEmpty(list, k, id) ==
    CASE k > Len(list)                -> 0
      [] XdpProgOf(list[k]) = NoProg  -> 0
      [] XdpProgOf(list[k]) = id      -> k
      [] OTHER                        -> NextPortStopAtEmpty(list, k + 1, id)

\* the while loop of get_next_port from array position k: 0 (NULL, the
\* cursor reset) at the terminating entry, the position of the next
\* interface whose bpf_get_link_xdp_id reports id, stepping over those
\* reporting 0 or another program
RECURSIVE NextPort(_, _, _)
NextPort(list, k, id) ==
    CASE k > Len(list)                -> 0
      [] XdpProgOf(list[k]) = NoProg  -> NextPort(list, k + 1, id)
      [] XdpProgOf(list[k]) = id      -> k
      [] OTHER                        -> NextPort(list, k + 1, id)

\* one nikss_port_list_get_next_port call; on NULL the caller stops and
\* calls nikss_port_list_free, which drops the array and the cursor
PortListNext(p) ==
    LET l == lv[p]
        k == NextPort(l.ifaceList, l.cur + 1, l.xdpProgId)
    IN
    /\ pc[p] = "port_next"
    /\ \/ /\ k # 0
          /\ lv' = [lv EXCEPT ![p].cur = k,
                              ![p].listed = Append(@, l.ifaceList[k])]
          /\ UNCHANGED pc
       \/ /\ k = 0
          /\ lv' = [lv EXCEPT ![p] = [op |-> "port_list", ifc |-> 0,
                                       listed |-> l.listed, result |-> NO_ERROR]]
          /\ pc' = [pc EXCEPT ![p] = "idle"]
    /\ UNCHANGED <<kernelVars, hookVars, fds, nops, histVars>>

(***************************************************************************)
(* The read-only queries on a pipeline: nikss_pipeline_exists,            *)
(* nikss_pipeline_is_TC_based, nikss_pipeline_has_egress_program, and the *)
(* program whose load time nikss_pipeline_get_load_timestamp reads.        *)
(***************************************************************************)
PipelineExists == pipeDir

IsTcBased ==
    /\ Pinned(XDP_HELPER_PROG)
    /\ ~Pinned(XDP_INGRESS_PROG)
    /\ ~Pinned(XDP_EGRESS_PROG)
    /\ ~Pinned(XDP_EGRESS_PROG_OPTIMIZED)

HasEgressProgram ==
    Pinned(TC_EGRESS_PROG) \/ Pinned(XDP_EGRESS_PROG) \/ Pinned(XDP_EGRESS_PROG_OPTIMIZED)

\* the XDP helper, or else the XDP ingress program, as for the port list;
\* without either the call returns 0 at once
LoadTimestampProg == PipelineXdpId

AttacherNext(p) ==
    \/ \E i \in Ifaces \cup {0} : StartAddPort(p, i)
    \/ XdpIngress(p)
    \/ TcHelper(p)
    \/ XdpDevmap(p)
    \/ XdpJmp(p)
    \/ TcCreateHook(p)
    \/ TcIngress(p)
    \/ TcEgress(p)
    \/ \E i \in Ifaces \cup {0} : DelPort(p, i)
    \/ PortListInit(p)
    \/ PortListNext(p)

=============================================================================
