# TLA+ models of the NIKSS control plane

NIKSS loads P4-generated eBPF pipelines into the Linux kernel and attaches
them to network interfaces. This directory holds TLA+ models of its control
plane. They are checked with TLC: the modules, the MC module and cfgs that
instantiate them, and `PROJECT.json`. `PROJECT.json` maps every modelled
definition to the source lines it translates, and lists every run, mutant,
finding and hazard.

## 1. The system

The repository's sources (`src/`) fall into these parts:

| Part | Source | What it does |
|---|---|---|
| Pipeline loader | `src/unnamed/part_000` 37-65, 286-471 | `nikss_pipeline_load`: opens the compiled object, pins every program under its section name with `/` turned into `_`, pins every map whose name has no dot, wires every ternary *tuple* map into its `<table>_tuples_map`, and runs the map-initialiser programs. `nikss_pipeline_unload` removes the pipeline directory with `nftw`. |
| Port attacher | `part_000` 67-276, 473-527 | `nikss_pipeline_add_port` decides the flavour once: TC-based if the XDP helper is pinned, XDP-based otherwise. It then attaches XDP (driver mode first, generic mode once on EOPNOTSUPP). For the XDP flavour it also fills the DEVMAP slot `ifindex % max_entries` and the jump table. It then creates the TC clsact hook and attaches TC ingress and egress. `nikss_pipeline_del_port` detaches XDP with flags 0 and destroys the hook. |
| Port enumerator | `part_000` 529-651 | `nikss_port_list_init` reads the program id of the XDP helper, or else of the XDP ingress program, and takes the `if_nameindex` array. Each `get_next_port` call walks the array from its cursor to the next interface reporting that id, and returns NULL (resetting the cursor) at the array's end. `nikss_port_list_free` drops the array. |
| Object enumerator | `part_000` 736-886 | Classifies pinned map names into the pipeline's logical objects. |
| Pipeline queries | `part_000` 278-284, 652-734 | Existence, flavour, egress presence, load timestamp. |
| BTF type-graph reader and map opener | `src/CLI/action_selector.c` 957-1334 | `load_btf` probes three programs for BTF. `follow_types`, member lookup and `btf_get_type_size_by_id` (recursive) walk the type graph. `open_bpf_map` opens a map by its pin and reads its info. |
| CLI commands | `src/CLI/table.c` 511-1637, `register.c`, `action_selector.c` 1-955, `action_selector.h` | Argument parsing and JSON output around library calls. Each `do_*` handler initialises its contexts, parses its arguments with `goto clean_up` on the first failure, makes one library call and frees everything. |

**How the parts interact.** They share no memory. Everything passes through
kernel-resident state:

- the pin namespace of a pipeline id;
- the contents of kernel maps;
- the XDP and TC hooks of every interface.

Every library call is one short-lived invocation. Spec 5 says nothing
serialises two invocations against the same pipeline id.

## 2. Modules

| Module | Models | State and actions |
|---|---|---|
| `NikssKernel` | The shared kernel state. | Variables:<br>• `progPins` and `mapPins` (pin name → object id) and `pipeDir`;<br>• `mapData` and `mapMax` (contents and `max_entries` of the maps the control plane writes);<br>• `inited` (initialiser programs that ran);<br>• `xdpDrv`, `xdpSkb`, `tcHook`, `tcIn`, `tcEg`: the hooks of every interface;<br>• `pc`, `lv`, `fds`, `nops`: per process.<br>Also the names of `bpf_defs.h`, and the kernel's XDP mode choice (`HasNdoBpf`, `XdpProgOf`). |
| `PipelineLoader` | load and unload | Load runs as steps `StartLoad`, `LdOpen`, `LdPinProg`, `LdPinMap`, `LdJoinTuple`, `LdInit` and `LdClose`, one per kernel call that changes state. Each `goto err_close_obj` is `Abort`. `Unload` is one step. Names are token sequences, so `strchr`, `strstr`, `strrchr` and `snprintf("%.*s")` are the sequence operators `PinName`, `InfixAt`, `TuplesMapName` and `TupleId`. |
| `PortAttacher` | add_port, del_port, port list, queries | add_port runs as steps `StartAddPort` (flavour and `if_nametoindex`), `XdpIngress` or `TcHelper` (the shared `XdpAttachProg` with its fallback), `XdpDevmap`, `XdpJmp`, `TcCreateHook`, `TcIngress` and `TcEgress`. `DelPort` is one step. The port list is the operation `PortListInit`, then one `PortListNext` step per `get_next_port` call, up to the NULL where the caller frees the list. The call's while loop is the RECURSIVE `NextPort`. The read-only queries are operators on the pins: `PipelineExists`, `IsTcBased`, `HasEgressProgram`, and `LoadTimestampProg`, the program whose load time `get_load_timestamp` reads. |
| `Nikss` | Composition | `Procs` processes, each running load, unload, add_port or del_port, up to `MaxOps` operations each, and interleaving at every kernel call. Also holds the properties. |
| `PortBinding` | What load, unload, add_port and del_port promise about the hooks (spec 4.3, 4.4, 6) | Variables: `pinned` (the pipeline's programs, each a `[gen, role]`: the load that pinned it and its pin name), `lastGen`, and `hooks` (interface → XDP, TC ingress, TC egress → program). Actions, each one step: `Pin(x)` adds a program of the current load (or of a new one when the namespace is empty), `Unload` empties `pinned` and leaves `hooks` alone, `Attach(i, h)` fills a hook only with the pinned program of the role that hook takes (the XDP hook takes the helper if one is pinned), `Detach(i, H)` clears any hooks of one interface. |
| `MCNikss` | Model values | An XDP-flavour object with a DEVMAP and a TC-flavour object with a ternary table (a tuples map and two tuples). Also objects whose layout reaches the error paths (`MCErrObjects`), and the host's interfaces and drivers. |
| `BtfTypeGraph` | The BTF walkers of `action_selector.c` 988-1183 | No state. A type graph is a function from ids to node records. `FollowTypes`, `GetMapTypeIdByName`, `MemberByName`, `MemberByIndex` and `TypeSize` are the code's functions, RECURSIVE where the code recurses or loops. `CanonicalAll`, `SizeOfAll`, `MemberSpec` and `MapTypeSpec` are reference definitions from spec 3 and 4.1, computed by iteration to a fixpoint instead of by recursion. |
| `MCBtfTypeGraph` | Every small type graph | Ids 1-3 range over every int, enum, typedef, pointer, array, struct and union node. Aliases and arrays point at earlier ids, because the kernel rejects alias cycles. Struct members may point anywhere, the struct itself included. Ids 4-9 are the `.maps` section a BTF-defined map compiles to, with the map's variable typed directly or through a typedef. That gives 23920 graphs. |
| `TypeGraphReader` | `init_btf`, `load_btf`, `try_load_btf`, `free_btf`, `open_bpf_map`, `update_map_info`, and the caller's close | Variables:<br>• `progs`: what each of the three candidate programs is;<br>• `btf`, `btfFd`: the loaded graph and its fd;<br>• `md`, `fds`: the caller's descriptors and open handles.<br>Actions: `LoadBtf`, `OpenMap(n)` (unpinned, `map_info` fault, success), `CloseMap(n)`, `Finish` (the caller frees the reader). |
| `MCTypeGraphReader` | Model values | A pipeline's type graph with a map `tbl` declared in `.maps`, typed directly or through a typedef; pinned maps `tbl`, `devmap`, `legacy` and an unpinned `gone`; raw kernel type ids for `tbl` only. |
| `ObjectEnumerator` | `nikss_pipeline_objects_list_*` and `is_valid_object_name` (`part_000` 736-886) | Variables:<br>• `pins`: the maps directory;<br>• `unread`: entries readdir has not returned;<br>• `listed`: names returned so far;<br>• `st`, `nnext`.<br>The directory holds what the compiler emits for a set of P4 objects (`CompiledMaps`): a table's map and default action, a ternary table's prefixes, tuples map, tuples and default action, a selector's actions, groups, inner groups and default action group, an extern's map, and internal maps. Actions: `ObjectsListInit`, `GetNextObject` (readdir in any order, skipping invalid names, stripping one allowed suffix), `ObjectsListFree`. |
| `MCObjectEnumerator` | Model values | Two pipelines, each with a table, a ternary table `acl`, a selector `as` and an extern `c`. In the second the table is named `t_groups`, which ends in an implementation suffix. |
| `ActionSelectorCli` | The nine `do_action_selector_*` handlers and their parse helpers (`action_selector.c` 31-204, 366-474, 480-912) | Variables: `cmd`, `argv` (the arguments after `pipe ID`), `pipeOk`, `groupCap`, `st`, `called`, `ret`. The parse helpers are operators from a cursor position to `[err, pos]`, and `Then` chains them as the handlers' `goto clean_up` does. `RunHandler` is a whole handler: it starts with `error_code = EPERM`, parses, and makes the library call (`CallResults`) only if every step succeeded. `Usage` is the reference: the usage lines of `do_action_selector_help`. |
| `CliCommands` | The table handlers `do_table_add/update/delete/default/get` with `parse_dst_table`, `parse_table_action`, `parse_table_key`, `parse_action_data`, the direct counter and meter parsers and `parse_entry_priority` (`table.c` 529-804, 1016-1242); `do_register_get/set` with their parsers and `get_and_print_register_json` (`register.c` 28-255); the multicast-group handlers (`table.c` 1306-1620) | Extends `ActionSelectorCli` with `grpExists` (whether the named multicast group exists) and `callRet` (what the library call or the printer returned). One action per handler (`RunTableWrite`, `RunTableDelete`, `RunTableDefault`, `RunTableGet`, `RunRegisterGet`, `RunRegisterSet`, `RunMcastGroup`, `RunMcastMember`, `RunMcastGet`). The do-while loops of the key and action-data parsers are `RECURSIVE` operators that keep the loop's `argc > 1` test and its trailing `NEXT_ARGP`. A key token is a model value; `KeyCut` says where `strstr` finds `/`, `..` or `^` in it, and what lies before and after. `UsageTable` is the reference: the usage lines of `do_table_help`, `do_register_help` and `do_multicast_help`, without the forms the code declares unsupported (`TABLE` by `id` or `name`, `ACTION` by id is kept, range keys). |
| `MCCliCommands` | Model values | The action-selector vectors of the previous runs, and per new command every prefix of a usage form followed by up to two tokens of that command's alphabet (its keywords, `7`, `s`, and the key shapes `7/7`, `7/`, `7/s`, `s/7`, `7..7`, `7^7`, `7^`, `7^s`). 2.5M initial states. |

The history variables are not code state. They record what the properties
need:

- `loaded` holds the ids of the last load that returned 0;
- `ports` holds the interfaces whose add_port returned 0 and that no del_port, unload or later load released;
- `pinnedAs` maps every program id a load pinned to `[gen, role]`: the id of the load's first program and the pin name. The kernel hooks hold ids, so this is what the refinement mapping reads to say which load and which role a hook runs.

Kernel calls that can fail for reasons outside the code are *fault points*
(`FaultPoints`). Examples are a pin on a full filesystem, an attach refused
by the kernel, a failed map update, a refused BTF fd and an unreadable map
info. An enabled fault point makes the call fail at any step. In load,
`map_info` is the `update_map_info` inside each of the two `open_bpf_map`
calls of tuple wiring (the fd stays open), and `tuple_update` is the
`bpf_map_update_elem` whose failure is printed and dropped.

The driver is a constant per interface, with three kinds:

- `native`: has ndo_bpf and accepts native mode;
- `generic_only`: has no ndo_bpf;
- `native_refuses`: has ndo_bpf but answers EOPNOTSUPP, like virtio_net with guest offloads.

`UnloadFirst` states the operator discipline that spec 4.3 asks for: a load
starts only when the pipeline directory is gone.

**Boundaries.** `common.c` is not in the repository, so `parse_pipeline_id`,
`NEXT_ARGP`, `NEXT_ARGP_RET`, `is_keyword` and `translate_data_to_bytes` are
modelled at their boundary:

- `NEXT_ARGP` steps on, and fails only when no argument was left;
- `NEXT_ARGP_RET` fails unless an argument is left after the step;
- `is_keyword` is false on the NULL that ends argv;
- the outcome of `parse_pipeline_id` is an input.

The command table that dispatches to the handlers is not in `src/` either
(`ParseArgs` stands for it). `common.c` also holds `parse_keyword_value_pairs`
and the meter's `parse_meter_data`, which the multicast-group and table
parsers call:

- `KeywordValuePairs` reads `KEY VALUE` pairs while the token is one of its keys, fails on a missing or non-numeric value and on a missing required key, and stops at any other token;
- `ParseMeterData` reads the two `PIR:PBS CIR:CBS` tokens and leaves the cursor on the last one;
- library calls that only fill in an entry (`psabpf_table_entry_matchkey`, `psabpf_action_param`, the counter and meter setters) succeed.

## 3. Runs

| Run | cfg | Expect | Shows |
|---|---|---|---|
| core | `MCNikss.cfg` | pass | Both objects and the error-path objects, three interfaces (native, generic, native), `UnloadFirst`, four operations (load, unload, add_port, del_port or a port list). Every fault point is enabled except `tuple_update`: the code swallows that failure, which is the tuple_capacity finding, and with it `LoadedPipelineComplete` fails here too. Checks `LoadedPipelineComplete`: a load that returned 0 left the whole pipeline, whatever pin, map-info or initialisation failure aborted earlier loads. `PortsListed`: the port-list cursor returned every added port, each once. `PortBindingRefined`: the composition implements `PortBinding`. 269k distinct states. |
| reload_over_leftovers | `MCNikssReload.cfg` | violation | `DevmapRoutesPorts`. A TC load fails after pinning the XDP helper. An XDP load then returns 0 over it, and add_port takes the TC path: the port gets no DEVMAP entry. |
| tuple_order | `MCNikssTupleOrder.cfg` | violation | `LoadReturnsErrno`. A tuple listed before its tuples map makes load return `-ENOENT`. |
| tuple_capacity | `MCNikssTupleCap.cfg` | violation | `LoadedPipelineComplete`. A tuple whose update fails (its id past the tuples map's size, or fault point `tuple_update`) is dropped, and load still returns 0. |
| tuple_handles | `MCNikssHandles.cfg` | violation | `HandlesReleased`. Tuple wiring leaks two map handles per tuple. |
| del_port_mode | `MCNikssDelPort.cfg` | violation | `DelPortDetaches`. On a `native_refuses` driver, del_port returns 0 and leaves the generic-mode program attached. |
| cli | `MCCliCommands.cfg` | pass | `CommandFollowsUsage`, `DocumentedFormsAccepted`. Every action-selector handler makes its library call exactly for the vectors its usage line describes, and a refused command never returns 0. Every table, register and multicast-group command given a form of its help text (with the group existing where the command needs it) reaches its library call. 2.5M distinct states. |
| cli_status | `MCCliStatus.cfg` | violation | `SuccessMeansDone`. `table default get` returns 0 without a library call; `multicast-group get` returns 0 when `print_mcast_group` failed. |
| object_listing | `MCObjectEnumerator.cfg` | pass | `TypeOK`, `ListsEachObjectOnce`. Whatever order readdir returns the maps in, the list holds each P4 object once under its own name, the table `t_groups` included, and no auxiliary or internal map. |
| btf_walkers | `MCBtfTypeGraph.cfg` | pass | `TypeOK`, `FollowIsCanonical`, `TypeSizeMatchesSpec`, `MemberLookupsAgree`, `MapTypeMatchesSpec`, on all 23920 graphs. The walkers, the type size and the `.maps` lookup are checked against the spec 4.1 references. The two member lookups are checked against each other only (see Findings, member lookup on aliases). |
| reader | `MCTypeGraphReader.cfg` | pass | `TypeOK`, `OpenedIdsCanonical`. BTF fds may be refused and map info may fail at any call. open_bpf_map still resolves the same canonical key and value types from raw ids as from the map definition. 12k distinct states. |
| map_info_leak | `MCTypeGraphReaderLeak.cfg` | violation | `HandlesReleased`. open_bpf_map returns update_map_info's error with the map fd open, and the caller returns without closing it. |

**Bounds and why they are enough.**

- **One process.** Spec 5 puts concurrency out of scope (see the plan).
- **Interfaces.** Three interfaces cover the three driver cases in the runs that need them.
- **Objects.** The core run has five objects, so every load outcome happens:
  - one object of each flavour, with three to five programs and up to four maps;
  - the optimized-egress XDP object;
  - two objects that stop a load half-way.
- **Operations.** Four per process are enough for load, add_port, a failure and a retry, or for load, fail, reload and add_port.
- **DEVMAP.** The core run's DEVMAP has four slots and its interfaces are 1-3, so no two ports share a slot. With a smaller DEVMAP a later port takes an earlier one's slot, which spec 4.4 and its open question keep as intended (warn and proceed). So no passing run checks `DevmapRoutesPorts`: it is the property of reload_over_leftovers, where the leftover helper alone breaks it.
- **Queries.** With `UnloadFirst` the pipeline queries only read back the load's own pins, so no property checks them. Over leftovers they describe the leftover helper, the stale state that reload_over_leftovers already shows.
- **Type graphs.** Three free nodes give alias chains of length three, nested arrays, arrays of typedefs, and self-referencing structs.
- **Argument vectors.** Each action-selector command's vectors go one past its longest valid form. So the data loop runs with two parameters, and every missing, extra or misplaced keyword is tried.
- **Table, register and multicast vectors.** Every vector of all tokens up to the longest usage form would be far past TLC's reach (add has eleven tokens). Instead every prefix of every usage form, with lists of up to two items, is followed by up to two tokens of the command's alphabet. So each loop runs once and twice, each parser meets each token in each position it can be confused at, and each form is cut off after each token.

Every action, and every disjunct of every action, fires in the passing runs.
The ternary table has two tuples, so both wiring outcomes happen.

**No liveness property.** Every nikss call is straight-line code whose
loops run over the finite programs, maps and interfaces of its input, with
at most one retry. That a call returns therefore follows from the shape of
the code, and a liveness property would show nothing the model does not
already say. `Spec` states no fairness for the same reason.

**Refinement.** `Nikss.tla` maps its state onto `PortBinding`:

- `pinned` is the `[gen, role]` of every program id still pinned (`progPins`);
- `lastGen` is the generation of the newest pinned id;
- `hooks[i]` is the `[gen, role]` of the program in the XDP hook the kernel runs (`XdpProgOf`, driver mode before generic), and in the TC ingress and egress hooks.

`PortBindingRefined` (`PB!Spec`) checks that every step of the
composition is a step of `PortBinding` or leaves the mapped state alone:
each `LdPinProg` is one `Pin`, each successful attach one `Attach` with a
program of the right role, `DelPort` one `Detach`, `Unload` one `Unload`.
The kernel-call steps that write maps or stop half-way are stuttering
steps. So an interface only ever runs a program that the pipeline pinned
under the name of that hook's role, of a single load, and unload never
changes what an interface runs (`part_000:468`): the programs keep running
until del_port. Without `UnloadFirst` the mapping fails, since a load over
leftovers pins programs of a new generation beside those of the old one
(the `reload_over_leftovers` finding).

**Mutants.** Each property of a passing run is broken by one plausible bug
in the mapped code (`PROJECT.json` "mutants"):

| Variant | Plausible bug | Breaks |
|---|---|---|
| `NextInShort` | a loop stops one element early | `LoadedPipelineComplete` |
| `NextPortStopAtEmpty` | the port walk stops at the first interface with no XDP program | `PortsListed` |
| `TcIngressEgressProg` | the egress program's pin name passed for the ingress hook | `PortBindingRefined` |
| `CreateGroupArgsNotLast` | `is_last` wrong for the selector name | `CommandFollowsUsage` |
| `KeyLoopWhileAny` | the key do-while runs while any argument is left (`> 0`) | `DocumentedFormsAccepted` |
| `StripAllowedSuffixKeepSep` | the suffix is cut one character short | `TypeOK` (object_listing) |
| `IsValidObjectNameNoAccess` | no look for an extension of a suffixed name | `ListsEachObjectOnce` |
| `FollowTypedefs` | pointers not followed | `TypeOK`, `FollowIsCanonical` (btf_walkers) |
| `TypeSizeRaw` | size taken without following aliases | `TypeSizeMatchesSpec` |
| `MemberByIndexNoFollow` | member type not followed | `MemberLookupsAgree` |
| `GetMapTypeIdByNameRaw` | the map's type not followed | `MapTypeMatchesSpec` |
| `FreeBtfKeepFd` | free_btf frees the graph but not its fd | `TypeOK` (reader) |
| `ResolveTypeIdRaw` | raw kernel ids used without following | `OpenedIdsCanonical` |

## 4. Findings

`PROJECT.json` lists eight findings. In brief:

- Load never checks for leftovers, so a load over a failed one can produce a misclassified pipeline.
- The `-ret` at `part_000:434` turns positive tuple errors negative.
- A failed tuple update is swallowed.
- Tuple-wiring handles leak.
- `del_port` with flags 0 misses generic-mode programs on drivers that have ndo_bpf.
- `open_bpf_map` leaks the map fd when `update_map_info` fails (`action_selector.c:1278`).
- `table default` with any keyword other than `set` (the unimplemented `default get` included) prints the help and exits 0 (`table.c:1197`).
- `multicast-group get` drops `print_mcast_group`'s error and exits 0 (`table.c:1613`).

Observations with no run of their own:

- **Member lookup on aliases.** `btf_get_member_md_by_name` and `_by_index` do not canonicalise the type id they are given. Spec 4.1 does canonicalise it. A member lookup on a typedef of a struct therefore fails with EPERM. `MemberSpec` states the spec's form, and `OpenedIdsCanonical` holds only because `open_bpf_map` passes an already-followed id.
- **Add_port retry.** An add_port retried after one that failed half-way fails with EEXIST on the hook it left. Spec 7 asks operators to detach before they retry, so this is the documented outcome.
- **DEVMAP warning.** The warning uses `>` where the spec says `>=`. `DevmapOverwriteWarned` (`Nikss.tla`) states the rule and TLC finds it violated with interfaces 2 and 4 and a DEVMAP of size 2; the run is not kept among the project's runs.
- **Permissive parsers.** `register set` accepts a command without `index`, although its usage line requires one (`register.c` 234, 262); `table add` and `update` accept no key, `key` directly followed by `data`, and `data` directly followed by `priority`. Nothing says these must be refused, so no property does.
- **`table get` with no table.** Unlike the other table handlers, `do_table_get` has no `too few parameters` test, so `table get pipe 1` hands the NULL that ends argv to `parse_dst_table` (`table.c:1218`). The model takes it as a table that does not exist.
- **Exit codes of the action-selector commands.** Every parse failure is reported as EPERM. A `get` of an unreadable member is reported as ENOMEM (`action_selector.c:399`).
- **Object names.** The object list classifies by name only. An extern named like an auxiliary map (`c_groups`) is not listed, and an object named `x_actions` is listed as `x`. Spec 4.5 folds suffixed names the same way, so this is the specified behaviour.

## 5. Not modelled yet, and the plan

1. **Done:** `NikssKernel`, `PipelineLoader`, `PortAttacher` (with the queries), `Nikss`, `BtfTypeGraph`, `TypeGraphReader`, `ObjectEnumerator`, `ActionSelectorCli`, `CliCommands`, with the runs above.
2. **Done: abstract port binding.** `PortBinding`, and `PortBindingRefined` on the core run.
3. **Two processes.** `Procs = {p1, p2}`, to document what unserialised load, unload and add_port do to each other (spec 5). `LdJoinTuple` then needs the branch where the tuple itself is no longer pinned when it is opened (`part_000:331`, another process unloaded between the pin and the wiring). With one process that branch cannot happen, so the model leaves it out.
4. **Naming collisions.** Dropped: spec 4.5 prescribes the folding that the code does.
5. **The load timestamp arithmetic** (`part_000` 666-700): not modelled. It combines a nanosecond boot-time load time, `/proc/uptime` and `gettimeofday` in floating point. A property on it needs a wall clock in the model's state, and a run of its own beyond the twelve kept.
6. **Done: the port-list cursor**, checked by `PortsListed` in the core run.

What stays out:

- The packet-processing programs themselves.
- libbpf's ELF loading: `LdOpen` is one step.
- Formatting and JSON output, beyond the return codes of `print_action_selector`, `print_json_table_entry`, `get_and_print_register_json` and `print_mcast_group`.
- The JSON builders of the CLI (`action_selector.c` 205-365, `table.c` 805-1014) and `port_list_free` and the port-spec getters (`part_000` 569-583, 628-651): they copy or format data and change no state a property can tell apart.
- The help texts, except as the reference `UsageTable`.
- `table.c` lines 1-510: an earlier version of the same file glued in front of the current one, whose parsers and handlers are the current ones without the table name and the JSON output.
- The headers that only declare (`counter.h`, `digest.h`, `psabpf_value_set.h`, `nikss_counter.h` and the like) and the handlers they declare, whose `.c` files are not in the repository.
- The CMake build.
