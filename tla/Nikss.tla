-------------------------------- MODULE Nikss --------------------------------
(***************************************************************************)
(* The NIKSS pipeline lifecycle: processes run nikss_pipeline_load,        *)
(* nikss_pipeline_unload, nikss_pipeline_add_port and                      *)
(* nikss_pipeline_del_port against one pipeline id, sharing its pin        *)
(* namespace and the hooks of the host's interfaces.  Nothing serialises   *)
(* two processes: their steps interleave freely.                           *)
(***************************************************************************)
EXTENDS PipelineLoader, PortAttacher

vars == <<kernelVars, hookVars, procVars, histVars>>

Init == KernelInit

\* every process has returned from its last operation and may start none
Terminated ==
    /\ \A p \in Procs : pc[p] = "idle" /\ nops[p] = MaxOps
    /\ UNCHANGED vars

Next ==
    \/ \E p \in Procs : LoaderNext(p) \/ AttacherNext(p)
    \/ Terminated

Spec == Init /\ [][Next]_vars

(***************************************************************************)
(* Properties                                                              *)
(***************************************************************************)

Quiescent == \A p \in Procs : pc[p] = "idle"

\* the value returned by the last operation of p, when it has returned
Returned(p) == "result" \in DOMAIN lv[p]

(***************************************************************************)
(* A load that returned 0 left the complete pipeline of its object behind *)
(* (spec 4.3): every program pinned under its flattened section name,      *)
(* every map without a dot pinned under its name, every ternary tuple     *)
(* installed in its tuples map at the id its name carries, and every      *)
(* initialisation program run.  Checked whenever no call is in progress   *)
(* and no unload has happened since.                                      *)
(***************************************************************************)
LoadedPipelineComplete ==
    LET o == loaded.obj
        MapIdOf(n) == loaded.mids[CHOOSE k \in 1..Len(o.maps) : o.maps[k] = n]
    IN
    (Quiescent /\ loaded # NoLoad) =>
        /\ \A k \in 1..Len(o.progs) :
              /\ Pinned(PinName(o.progs[k]))
              /\ progPins[PinName(o.progs[k])] = loaded.pids[k]
              /\ IsInitProg(o.progs[k]) => loaded.pids[k] \in inited
        /\ \A k \in 1..Len(o.maps) :
              ~HasDot(o.maps[k]) =>
                  /\ MapPinned(o.maps[k])
                  /\ mapPins[o.maps[k]] = loaded.mids[k]
        /\ \A k \in 1..Len(o.maps) :
              InfixAt(o.maps[k]) > 0 =>
                  LET tm == MapIdOf(TuplesMapName(o.maps[k]))
                  IN  /\ TupleId(o.maps[k]) \in DOMAIN mapData[tm]
                      /\ mapData[tm][TupleId(o.maps[k])] = loaded.mids[k]

(***************************************************************************)
(* A port list that get_next_port walked to its NULL reported every       *)
(* interface whose add_port returned 0 and that no del_port, load or      *)
(* unload has released since, and reported each interface once: the       *)
(* cursor steps over interfaces with no XDP program or another program    *)
(* and ends only at the end of the if_nameindex array.  Checked while the  *)
(* listing is the process's last operation.                                *)
(***************************************************************************)
PortsListed ==
    \A p \in Procs :
        (lv[p].op = "port_list" /\ Returned(p) /\ lv[p].result = NO_ERROR) =>
            /\ ports \subseteq ToSet(lv[p].listed)
            /\ IsInjective(lv[p].listed)

(***************************************************************************)
(* In an XDP pipeline that a load reported loaded, the DEVMAP entry of    *)
(* every port added since redirects to that port and carries the          *)
(* pipeline's XDP egress program (spec 4.4), whatever other ports were     *)
(* added or deleted since.                                                 *)
(***************************************************************************)
DevmapRoutesPorts ==
    (Quiescent /\ XDP_DEVMAP \in ToSet(loaded.obj.maps)) =>
        LET dm   == mapPins[XDP_DEVMAP]
            eg   == IF Pinned(XDP_EGRESS_PROG) THEN progPins[XDP_EGRESS_PROG]
                                               ELSE NoFd
        IN  \A i \in ports :
                /\ (i % mapMax[dm]) \in DOMAIN mapData[dm]
                /\ mapData[dm][i % mapMax[dm]] = [ifindex |-> i, prog |-> eg]

(***************************************************************************)
(* Every handle a call opens is released before it returns (spec 5:      *)
(* "one open, exactly one release on every exit path").                    *)
(***************************************************************************)
HandlesReleased == \A p \in Procs : pc[p] = "idle" => fds[p] = 0

(***************************************************************************)
(* nikss_pipeline_load returns 0 or a positive errno, as every other call *)
(* of the library does ("we should return positive ones", part_000:433).  *)
(***************************************************************************)
LoadReturnsErrno ==
    \A p \in Procs : (lv[p].op = "load" /\ Returned(p)) => lv[p].result >= 0

(***************************************************************************)
(* A del_port that returned 0 left no XDP program on the interface (spec  *)
(* 4.4: "remove any XDP program from the interface").                      *)
(***************************************************************************)
DelPortDetaches ==
    \A p \in Procs :
        (lv[p].op = "del_port" /\ Returned(p) /\ lv[p].result = NO_ERROR)
            => XdpProgOf(lv[p].ifc) = NoProg

(***************************************************************************)
(* Refinement: the composition implements PortBinding.  A program id is   *)
(* the program pinnedAs says it was pinned as; a hook holding no program  *)
(* is NoBinding.  The XDP hook is the program bpf_get_link_xdp_id reports, *)
(* in whichever mode it runs.                                              *)
(***************************************************************************)
Binding(id) == IF id = NoProg THEN [gen |-> 0, role |-> <<>>] ELSE pinnedAs[id]

PB == INSTANCE PortBinding WITH
        pinned         <- {pinnedAs[id] : id \in Range(progPins)},
        lastGen        <- IF pinnedAs = EmptyFn THEN 0
                          ELSE pinnedAs[Max(DOMAIN pinnedAs)].gen,
        hooks          <- [i \in Ifaces |-> [xdp   |-> Binding(XdpProgOf(i)),
                                              tc_in |-> Binding(tcIn[i]),
                                              tc_eg |-> Binding(tcEg[i])]],
        XdpIngressRole <- XDP_INGRESS_PROG,
        XdpHelperRole  <- XDP_HELPER_PROG,
        TcIngressRole  <- TC_INGRESS_PROG,
        TcEgressRole   <- TC_EGRESS_PROG

\* every step of every process is a step of PortBinding or leaves its state
\* alone: loads pin the programs of one new load at a time over an empty
\* namespace, load and unload never change a hook, add_port fills the XDP,
\* TC ingress and TC egress hooks only with the pinned pipeline's XDP
\* ingress (or helper), TC ingress and TC egress programs, and del_port
\* only clears hooks of the interface it is given
PortBindingRefined == PB!Spec

(***************************************************************************)
(* update_prog_devmap never overwrites the live DEVMAP entry of another   *)
(* added port without the warning: spec 4.4 asks for it whenever the      *)
(* ifindex reaches the DEVMAP size, "since collisions then silently       *)
(* override prior entries".                                                *)
(***************************************************************************)
DevmapClobbers(p) ==
    LET dm   == mapPins[XDP_DEVMAP]
        slot == lv[p].ifc % mapMax[dm]
    IN  /\ pc[p] = "xdp_devmap"
        /\ pc'[p] = "xdp_jmp"
        /\ slot \in DOMAIN mapData[dm]
        /\ mapData[dm][slot].ifindex \in ports \ {lv[p].ifc}

DevmapOverwriteWarned ==
    [][\A p \in Procs : DevmapClobbers(p) => lv'[p].warned]_vars

=============================================================================
