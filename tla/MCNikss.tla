------------------------------- MODULE MCNikss -------------------------------
(***************************************************************************)
(* Model values for Nikss: the two flavours of compiled object p4c-ebpf   *)
(* produces and the interfaces of a small host.                            *)
(***************************************************************************)
EXTENDS Nikss

\* section names of the programs of each flavour
SecTcIngress  == <<"classifier", "/", "tc-ingress">>
SecTcEgress   == <<"classifier", "/", "tc-egress">>
SecXdpIngress == <<"xdp", "/", "xdp-ingress">>
SecXdpEgress  == <<"xdp", "_", "devmap", "/", "xdp-egress">>
SecXdpHelper  == <<"xdp", "/", "xdp-helper">>

\* a ternary table: its tuples map, two tuples, and a plain table
TblTuplesMap == <<"acl", "_", "tuples", "_", "map">>
TblTuple0    == <<"acl", "_", "tuple", "_", "0">>
TblTuple1    == <<"acl", "_", "tuple", "_", "1">>
Fwd          == <<"fwd", "_", "tbl">>
RoData       == <<".", "rodata">>

MCNumerals == ("0" :> 0) @@ ("1" :> 1) @@ ("2" :> 2)

\* XDP flavour: XDP ingress and devmap egress, TC ingress and egress
XdpObj ==
    [progs |-> <<SecXdpIngress, SecXdpEgress, SecTcIngress, SecTcEgress,
                 XDP_INIT_PROG>>,
     maps  |-> <<XDP_DEVMAP, Fwd, RoData>>,
     cap   |-> (XDP_DEVMAP :> 4) @@ (Fwd :> 8) @@ (RoData :> 1)]

\* TC flavour: the XDP helper and the TC programs, with a ternary table
TcObj ==
    [progs |-> <<SecXdpHelper, SecTcIngress, SecTcEgress, TC_INIT_PROG>>,
     maps  |-> <<Fwd, TblTuplesMap, TblTuple0, TblTuple1>>,
     cap   |-> (Fwd :> 8) @@ (TblTuplesMap :> 2) @@ (TblTuple0 :> 8)
                @@ (TblTuple1 :> 8)]

MCObjects == {XdpObj, TcObj}

(***************************************************************************)
(* Objects whose layout reaches the error paths of load and add_port.     *)
(***************************************************************************)

SecXdpEgressOpt == <<"xdp", "/", "xdp-egress">>
TblTupleX       == <<"acl", "_", "tuple", "_", "x">>

\* optimized egress with its jump table, no TC egress program
XdpOptObj ==
    [progs |-> <<SecXdpIngress, SecXdpEgressOpt, SecTcIngress>>,
     maps  |-> <<XDP_DEVMAP, XDP_JUMP_TBL>>,
     cap   |-> (XDP_DEVMAP :> 4) @@ (XDP_JUMP_TBL :> 1)]

\* optimized egress without a jump table, and a tuple whose name carries
\* no id: the load stops with ENODATA after the DEVMAP is pinned
XdpBadObj ==
    [progs |-> <<SecXdpIngress, SecXdpEgressOpt>>,
     maps  |-> <<XDP_DEVMAP, TblTuplesMap, TblTupleX, Fwd>>,
     cap   |-> (XDP_DEVMAP :> 4) @@ (TblTuplesMap :> 2) @@ (TblTupleX :> 8)
                @@ (Fwd :> 8)]

\* a tuple listed before its tuples map: the load stops with ENOENT after
\* the XDP helper is pinned; the TC ingress program is missing
TcBadObj ==
    [progs |-> <<SecXdpHelper, TC_INIT_PROG>>,
     maps  |-> <<TblTuple0, TblTuplesMap>>,
     cap   |-> (TblTuple0 :> 8) @@ (TblTuplesMap :> 2)]

MCErrObjects == {XdpOptObj, XdpBadObj, TcBadObj}

\* the pipelines of the core run: both flavours and the error layouts
MCCoreObjects == MCObjects \cup MCErrObjects

\* a ternary table with more tuples than its tuples map has entries
TupleCapObj ==
    [progs |-> <<SecXdpHelper, SecTcIngress>>,
     maps  |-> <<TblTuplesMap, TblTuple0, TblTuple1>>,
     cap   |-> (TblTuplesMap :> 1) @@ (TblTuple0 :> 8) @@ (TblTuple1 :> 8)]

\* an XDP pipeline whose DEVMAP is as large as the highest ifindex
XdpSmallObj ==
    [progs |-> <<SecXdpIngress, SecXdpEgress, SecTcIngress>>,
     maps  |-> <<XDP_DEVMAP>>,
     cap   |-> (XDP_DEVMAP :> 2)]

TupleOrderObjects == {TcBadObj}
TupleCapObjects   == {TupleCapObj}
TernaryObjects    == {TcObj}
XdpObjects        == {XdpObj}
SmallDevmapObjects == {XdpSmallObj}

\* interface 1 has a driver that has ndo_bpf but refuses the program
MCDriverRefuses == (1 :> "native_refuses") @@ (2 :> "native") @@ (3 :> "native")

\* two interfaces whose ifindex is a multiple of the DEVMAP size 2
MCIfacesEven == {2, 4}
MCDriverEven == (2 :> "native") @@ (4 :> "native")
MCIfaces  == {1, 2, 3}
MCDriver  == (1 :> "native") @@ (2 :> "generic_only") @@ (3 :> "native")

=============================================================================
