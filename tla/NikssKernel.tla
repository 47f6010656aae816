----------------------------- MODULE NikssKernel -----------------------------
(***************************************************************************)
(* Shared state of the NIKSS control plane: the kernel-resident objects    *)
(* that every nikss invocation reads and writes.                           *)
(*                                                                         *)
(*  - the per-pipeline pin namespace under /sys/fs/bpf (programs and maps, *)
(*    two flat directories), each pin naming a kernel object id;           *)
(*  - the contents the control plane writes into kernel maps (DEVMAP,      *)
(*    jump table, ternary tuples maps);                                    *)
(*  - the XDP and TC hooks of every network interface;                     *)
(*  - one record per invoking process: its program counter, the operation  *)
(*    it runs, its local variables and the handles (fds) it holds open.    *)
(*                                                                         *)
(* Object, map and program names are token sequences: a token is a word   *)
(* or one of the separators "_", "/" and ".", so the string operations of  *)
(* the code (strchr, strstr, strrchr, snprintf "%.*s") become sequence     *)
(* operations on them.  The operations themselves live in PipelineLoader  *)
(* and PortAttacher, which both EXTEND this module.                        *)
(***************************************************************************)
EXTENDS Integers, Sequences, FiniteSets, SequencesExt

CONSTANTS
    Procs,        \* independent nikss invocations (processes)
    Ifaces,       \* ifindex of every interface of the host (naturals > 0)
    Driver,       \* [Ifaces -> DriverKinds]: XDP support of each driver
    Objects,      \* compiled objects an operator may load: [progs, maps, cap]
    Numerals,     \* numeric tokens and the value strtol gives them
    FaultPoints,  \* kernel calls that may fail with a resource error
    UnloadFirst,  \* operators load only a pipeline id whose directory is gone
    MaxOps        \* operations each process may start (bounds the model)

\* A driver either has no native XDP (no ndo_bpf), supports it, or has
\* ndo_bpf but refuses this program with EOPNOTSUPP (virtio_net with guest
\* offloads enabled, for instance).
DriverKinds == {"generic_only", "native", "native_refuses"}

Faults == {"load_obj", "pin", "map_info", "tuple_update", "init", "xdp_attach",
           "map_update", "tc", "detach"}

ASSUME /\ Ifaces \subseteq Nat \ {0}
       /\ Driver \in [Ifaces -> DriverKinds]
       /\ FaultPoints \subseteq Faults
       /\ MaxOps \in Nat
       /\ UnloadFirst \in BOOLEAN
       /\ \A o \in Objects : DOMAIN o.cap = ToSet(o.maps)

(***************************************************************************)
(* errno values the code returns (Linux numbering) and NO_ERROR.           *)
(***************************************************************************)
NO_ERROR   == 0
EPERM      == 1
ENOENT     == 2
ENODEV     == 19
EEXIST     == 17
EINVAL     == 22
ENODATA    == 61
EOPNOTSUPP == 95

\* the errno a kernel call fails with at an enabled fault point
FaultErr == EPERM

(***************************************************************************)
(* Names fixed by bpf_defs.h: pin names of the pipeline's programs,       *)
(* section names of its initialisation programs, and the auxiliary maps.  *)
(***************************************************************************)
TC_INGRESS_PROG           == <<"classifier", "_", "tc-ingress">>
TC_EGRESS_PROG            == <<"classifier", "_", "tc-egress">>
XDP_INGRESS_PROG          == <<"xdp", "_", "xdp-ingress">>
XDP_EGRESS_PROG           == <<"xdp", "_", "devmap", "_", "xdp-egress">>
XDP_EGRESS_PROG_OPTIMIZED == <<"xdp", "_", "xdp-egress">>
XDP_HELPER_PROG           == <<"xdp", "_", "xdp-helper">>
TC_INIT_PROG              == <<"classifier", "/", "map-initializer">>
XDP_INIT_PROG             == <<"xdp", "/", "map-initializer">>
XDP_DEVMAP                == <<"tx", "_", "port">>
XDP_JUMP_TBL              == <<"egress", "_", "progs", "_", "tbl">>

(***************************************************************************)
(* Kernel object ids.  0 is "no program" as bpf_get_link_xdp_id reports  *)
(* it; NoFd is the -1 a failed open leaves in an fd variable.              *)
(***************************************************************************)
NoProg == 0
NoFd   == -1


VARIABLES
    progPins,   \* pin name -> program id, under <pipeline>/
    mapPins,    \* map name -> map id, under <pipeline>/maps/
    pipeDir,    \* the pipeline directory exists
    mapData,    \* map id -> (key -> value) written by the control plane
    mapMax,     \* map id -> max_entries
    nextId,     \* next kernel object id
    inited,     \* ids of initialisation programs that have been run
    xdpDrv,     \* ifindex -> program attached in driver (native) mode
    xdpSkb,     \* ifindex -> program attached in generic (SKB) mode
    tcHook,     \* ifindex -> the clsact qdisc (ingress+egress hook) exists
    tcIn,       \* ifindex -> program attached at TC ingress
    tcEg,       \* ifindex -> program attached at TC egress
    pc,         \* process -> label of its next step
    lv,         \* process -> local variables of the running operation
    fds,        \* process -> number of handles it holds open
    nops,       \* process -> operations started so far
    loaded,     \* history: ids of the last load that returned 0, until unload
    ports,      \* history: interfaces whose add_port returned 0 and that no
                \* del_port has detached, no unload or successful load reset
    pinnedAs    \* history: program id -> [gen, role]: the first program id
                \* of the load that pinned it, and the name it was pinned as

kernelVars == <<progPins, mapPins, pipeDir, mapData, mapMax, nextId, inited>>
hookVars   == <<xdpDrv, xdpSkb, tcHook, tcIn, tcEg>>
procVars   == <<pc, lv, fds, nops>>
histVars   == <<loaded, ports, pinnedAs>>

EmptyFn == [x \in {} |-> NoProg]

\* the value of the history variable loaded before any load succeeded
NoLoad == [obj  |-> [progs |-> <<>>, maps |-> <<>>, cap |-> EmptyFn],
           pids |-> <<>>, mids |-> <<>>]

\* access(pinned_file, F_OK) == 0 on a program or a map pin
Pinned(name)    == name \in DOMAIN progPins
MapPinned(name) == name \in DOMAIN mapPins

\* the program bpf_get_link_xdp_id(ifindex, &id, 0) reports: the single
\* attached program, whichever mode it runs in
XdpProgOf(i) == IF xdpDrv[i] # NoProg THEN xdpDrv[i] ELSE xdpSkb[i]

\* bpf_set_link_xdp_fd with flags 0 lets the kernel pick the mode: native
\* when the driver has ndo_bpf, generic otherwise (dev_xdp_mode)
HasNdoBpf(i) == Driver[i] \in {"native", "native_refuses"}

\* a process may not start an operation past its bound
CanStart(p) == pc[p] = "idle" /\ nops[p] < MaxOps

KernelInit ==
    /\ progPins = EmptyFn
    /\ mapPins  = EmptyFn
    /\ pipeDir  = FALSE
    /\ mapData  = EmptyFn
    /\ mapMax   = EmptyFn
    /\ nextId   = 1
    /\ inited   = {}
    /\ xdpDrv   = [i \in Ifaces |-> NoProg]
    /\ xdpSkb   = [i \in Ifaces |-> NoProg]
    /\ tcHook   = [i \in Ifaces |-> FALSE]
    /\ tcIn     = [i \in Ifaces |-> NoProg]
    /\ tcEg     = [i \in Ifaces |-> NoProg]
    /\ pc       = [p \in Procs |-> "idle"]
    /\ lv       = [p \in Procs |-> [op |-> "none"]]
    /\ fds      = [p \in Procs |-> 0]
    /\ nops     = [p \in Procs |-> 0]
    /\ loaded   = NoLoad
    /\ ports    = {}
    /\ pinnedAs = EmptyFn

=============================================================================
