----------------------------- MODULE PortBinding -----------------------------
(***************************************************************************)
(* What the NIKSS lifecycle promises about the programs an interface runs *)
(* (spec 4.3, 4.4 and 6), with every call one step or none:              *)
(*                                                                         *)
(*  - a pipeline is the set of programs its namespace holds, each known   *)
(*    by the load that created it (its generation) and the name it is     *)
(*    pinned under (its role); a load adds programs of one new generation *)
(*    one at a time and never rolls back, unload removes them all;         *)
(*  - every interface has three hooks (XDP, TC ingress, TC egress); only  *)
(*    add_port fills a hook, and only with the pipeline's program for that *)
(*    hook's role; only del_port clears hooks, any of them;               *)
(*  - load and unload never touch a hook: after unload the interfaces go   *)
(*    on running the programs of the pipeline that is gone.               *)
(***************************************************************************)
EXTENDS Naturals

CONSTANTS
    Ifaces,
    XdpIngressRole,   \* the XDP ingress program of an XDP pipeline
    XdpHelperRole,    \* the XDP helper program of a TC pipeline
    TcIngressRole,
    TcEgressRole

VARIABLES
    pinned,    \* programs of the pipeline: set of [gen, role]
    lastGen,   \* generation of the last load that pinned a program
    hooks      \* [Ifaces -> [Hooks -> program or NoBinding]]

absVars == <<pinned, lastGen, hooks>>

Hooks == {"xdp", "tc_in", "tc_eg"}

NoBinding == [gen |-> 0, role |-> <<>>]

\* the role the hook h of a port takes in the pipeline pinned now: the
\* flavour is TC exactly when the XDP helper is pinned
HookRole(h) ==
    CASE h = "xdp"   -> IF \E x \in pinned : x.role = XdpHelperRole
                        THEN XdpHelperRole ELSE XdpIngressRole
      [] h = "tc_in" -> TcIngressRole
      [] h = "tc_eg" -> TcEgressRole

Init ==
    /\ pinned = {}
    /\ lastGen = 0
    /\ hooks = [i \in Ifaces |-> [h \in Hooks |-> NoBinding]]

\* a load pins one more program: of the generation already pinned, or of
\* a new generation when the namespace is empty
Pin(x) ==
    /\ x \notin pinned
    /\ \/ pinned # {} /\ \A y \in pinned : y.gen = x.gen
       \/ pinned = {} /\ x.gen > lastGen
    /\ pinned' = pinned \cup {x}
    /\ lastGen' = x.gen
    /\ UNCHANGED hooks

Unload ==
    /\ pinned # {}
    /\ pinned' = {}
    /\ UNCHANGED <<lastGen, hooks>>

\* add_port fills one hook of interface i with the pipeline's program of
\* the role that hook takes
Attach(i, h) ==
    /\ \E x \in pinned :
          /\ x.role = HookRole(h)
          /\ hooks' = [hooks EXCEPT ![i][h] = x]
    /\ UNCHANGED <<pinned, lastGen>>

\* del_port clears the hooks H of interface i, and no others
Detach(i, H) ==
    /\ hooks' = [hooks EXCEPT ![i] = [h \in Hooks |->
                     IF h \in H THEN NoBinding ELSE @[h]]]
    /\ UNCHANGED <<pinned, lastGen>>

Next ==
    \/ \E x \in pinned' : Pin(x)
    \/ Unload
    \/ \E i \in Ifaces, h \in Hooks : Attach(i, h)
    \/ \E i \in Ifaces, H \in SUBSET Hooks : Detach(i, H)

Spec == Init /\ [][Next]_absVars

=============================================================================
