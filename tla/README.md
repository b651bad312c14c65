# A TLA+ model of weft-microvm-init

weft-init is PID 1 of a micro-VM. It mounts what the host shares, writes an OCI
bundle for each container of a pod, has crun run them, collects every process
that dies, restarts containers by their policy, and powers the machine off when
they are done or when the hypervisor asks. Libraries of the same repository,
which an agent in the guest calls, mount CubeFS shares, install a firewall and
keep a WireGuard overlay up to date.

These modules model that program and its neighbours (the kernel, crun, the
CubeFS clients, nftables), TLC checks them on small instances, and TLAPS proves
most of the invariants, the two refinements' safety and the composition of
the boot with its network for every instance. Source paths are relative to the
repository; `main.go` is `cmd/weft-init/main.go`.

## The system

| Component | State | Operations | Talks to |
|---|---|---|---|
| Reaper (`pkg/supervisor/reaper.go`) | a signal channel of one slot, a bounded channel of events | subscribe to SIGCHLD, drain with `wait4(-1)`, send or drop an event, close at cancellation | kernel; the supervisor receives its events |
| Supervisor (`pkg/supervisor/supervisor.go`) | `states`, `pidIndex`, per container `lastExit`, `stopped`, `done` | `Run`, `startOne`, `consumeReaper`, `shouldRestart`, `Stop`, `allExited` | reaper, crun client; three goroutines share it |
| crun client (`pkg/runtime/crun`) | none | `Create`, `Start`, `State`, `Kill`, `Delete`, each a child process | its children are also the reaper's |
| Boot sequence (`main.go`) | the command line and the files of the host, what is mounted | config share, pod, shares, CubeFS, images, network, overlay, bundles, then the supervisor; a power off after any error | everything above and below |
| Pod and share specifications (`pkg/pod`) | none | load, validate, complete from the image | boot |
| Bundler (`pkg/bundler`) | none | container to `config.json` | boot; crun reads it |
| CubeFS engine (`pkg/cubefs`) | `Registry.active` under a mutex, client processes | `Apply`, `UnmountAll`, `Mount`, `Unmount` | cfs-client, `/proc/mounts` |
| Firewall (`pkg/network/firewall_linux.go`) | one nftables table, a mutex | `ApplyFirewall` | nftables |
| Firewall status (`firewallstat_linux.go`) | none | separate dumps of tables, chains and rules | nftables, while Apply runs |
| Network (`pkg/network/netlink.go`) | the kernel's links, addresses and routes, `/etc/resolv.conf`, the host name | `Apply`, a sequence of netlink requests | netlink; boot calls it once, its comment allows to call it again |
| WireGuard (`pkg/network/wireguard_linux.go`, `wgpeers.go`) | the device and its peers, a key in a temporary file, `applier` under a mutex | `ApplyWireGuard` | the wireguard library, netlink; boot calls it once, the agent at each publish of the mesh |
| Container set, vsock transport, initramfs builder, build scripts | none | validate; dial; write an archive; compile | not modelled |

What is hard here, and what a component must therefore keep to be correct:

- **Reaper.** SIGCHLDs merge, may be lost while its channel is full, and children
  may exit before it subscribes; a full events channel must not stop it. No
  zombie may be stranded, no event invented, nothing sent after the close. It
  competes with `exec.Cmd.Wait` for crun's own exit.
- **Supervisor.** First starts, restarts and Stop run in three goroutines, and
  exits arrive from a fourth. A container may exit before its pid is known. A
  `done` channel closed twice panics PID 1; one never closed hangs it; an index
  entry that is too old would delete a healthy container; Stop must bring the
  machine down whatever containers do.
- **Boot.** Each step depends on an earlier one, and each may fail; it must end
  in the supervisor or in a power off, with what the host asked for and not
  something near it (another root file system, a lost variable, no resolver).
  PID 1 must not exit, and a signal may come before it listens to any.
- **Network.** Apply and ApplyWireGuard stop at the first error and leave what
  they did. A retry must get from any such state to the one asked for, a
  repetition must not disturb what works, a bad overlay must not touch the
  good one, and overlapping calls must not leave an older overlay in force.
- **CubeFS.** A client mounts some time later or never, and may die and leave a
  dead mount; paths are unmounted by others. No client may be lost, two must
  not serve one share, and Unmount waits for an exit under the mutex.
- **Firewall.** The list of tables is read before the batch is sent, a rule may
  fail to build half way, others flush the table. At every moment packets must
  meet one whole policy, and a status must be of a state that existed.

`PROJECT.json` lists each of these hazards at its line with the properties that
cover it, or says why none does.

## Modules

| Module | Models | Notes |
|---|---|---|
| `Reaper` | the reaper and the kernel's zombies and signals | one action for each statement that blocks or races |
| `ReapService` | what a reaper promises: a zombie is collected at most once, by the reaper or by a `Wait`, and gives at most one event or is known to be lost | `Reaper` implements it |
| `Supervisor` | the three goroutines over a program counter `pc[g]`, crun, the containers; `Reap == INSTANCE ReapService` | the reaper's own signals are out of sight here |
| `Lifecycle` | what a container goes through: launched, up, down, launched again only as its policy allows, finished at most once | `Supervisor` implements it |
| `Pod` | validation, the pod of the command line, completion from an image | operators |
| `Bundle` | what crun is given | operators |
| `Network` | `Apply` and `ApplyWireGuard` on the kernel's links, addresses and routes | one action for each system call; any may fail before or after the kernel acted |
| `Boot` | `run()` up to the supervisor, with `Net == INSTANCE Network` of which PID 1 is the only caller | one action per call of `run()`, one round of a loop per step, the network in the steps of `Network` |
| `CubeFS` | the registry, its mutex, the clients, the mount table | |
| `Firewall` | appliers, the kernel's table, packets, a status reader | packets are judged in properties, not counted one by one |
| `MC*` | instances for TLC | |
| `*Proofs`, `SupervisorRefinement` | theorems | `ReaperProofs`, `CubeFSProofs`, `FirewallProofs`, `NetworkProofs`, `BundleProofs`, `BootProofs`; two for the supervisor |

How state corresponds to code:

- *Reaper.* `sigCh` is the `os/signal` channel, `reaper` the place in `Run` or
  `drain`, `lost` the pids whose event met a full channel. `Wait4` is one turn
  of the loop in `drain`, the send or drop included.
- *Supervisor.* `Alive`, `rt` and `init` are the kernel's and crun's view,
  `states`, `pidIndex`, `lastExit`, `stopped` the fields of the code, `closes`
  how often `done` was closed. A call of crun whose result matters has an
  Invoke (crun works and exits) and a Ret (`Wait` returns, perhaps with ECHILD
  because the reaper was first). Sections under the mutex are single actions;
  what the code reads outside it is read in a step of its own.
- *Boot.* `phase` is the next statement of `run()`, `n` the index of its loop,
  `host` all that the host provides. Paths are sequences of names, directives
  sequences of fields, keys of an environment numbers in their order. `pseudo`
  says which of `/proc` and `/run` are mounted: the command line can be read
  only with the first, and the second hides what the initramfs has below.
  `fault` remembers what went wrong for no fault of the host: a system call
  (`Trouble`, `NetworkStep`, `MountPseudoFS`), a signal before `signal.Notify`
  (`EarlySignal`), the reboot call (`RebootFails`). In the instance `Net` of
  `Network` the calls still to be made (`todo`) are those the files of the host
  can ask for and that have not been made (`ToCome`).
- *Network.* `link`, `addrs` and `route` are the kernel's; an address is an IP and
  whether its prefix covers the network or the host alone. `pc` is the next
  system call of each caller, `keys` the callers whose private key is in a
  file, `applier` the request whose closer is kept, `device` the one the device
  goes by. `answers` and `past` are history: which calls are over, and which
  were when a call began.
- *CubeFS.* `pc` and `target` belong to the holder of the mutex. `mounted` gives
  for each path a stack of clients, `proc` what each process is doing: it
  mounts, serves, dies or is gone at moments of its own choosing.
- *Firewall.* A table is the sequence of its rules and a count of drops; a
  rule is a set of matches. `before` is the table at the start of a status
  read, or none if the table changed meanwhile.

## Runs

`tlc -config X.cfg MCModule` for each; times are for two workers.

| Run | Question and answer | Bounds |
|---|---|---|
| `reaper` (`MCReaper.cfg`) | With merged and missed signals, a full channel, a concurrent `Wait` and a cancellation, is every zombie collected? Yes, and `Reaper` implements `ReapService`. 17 800 states. | 3 children, 2 events, 1 signal slot |
| `supervisor_safety` | Is there a double close, a stale index entry, a live container deleted for an exit that was not its own, an early nil, a restart its policy forbids? No. 1.5 million states, about a minute. | 2 containers, 2 pids, channel of 2, policies never and on-failure, crun may fail |
| `supervisor_liveness` | Does a signal end in a power off, and is every indexed exit handled? Yes. 227 000 states. | 1 container, 2 pids, 1 helper |
| `stop_waits` | Does Stop wait for what it signalled? **No.** | 1 container |
| `run_returns` | Does Run return after a cancellation or the last exit? **No.** | 1 container |
| `reaped_helper` | Is reaping the runtime's own processes harmless? **No.** | 1 container |
| `cubefs_engine` | Is a client lost or doubled, does a call hang? No. 598 000 states, 80 s. | 2 callers, 2 shares, 2 paths, 2 clients at a time |
| `cubefs_republish` | Does a repeated publish re-establish a mount? **No.** | 1 caller, share and path |
| `firewall_policy` | Is a policy ever partial or other than documented, a drop uncounted, a status of an undisturbed table wrong? No. 83 000 states, a minute and a half. | 2 appliers, 2 hosts, ports 0 to 2, 12 rulesets of at most 2 rules, 2 drops |
| `network` (`NetworkApplied.cfg`) | After a success, is the network or overlay the one asked for, whatever failed before? Does a repetition disturb it, a bad overlay touch it, an older one win, a key remain that could be removed? Yes; no to the rest. 455 000 states, 13 s. | 2 callers, 2 or 3 requests, 4 states of the kernel, both address families |
| `boot` (`BootStarts.cfg`) | Does a boot start the supervisor when nothing is missing and only then, give crun and the network what was asked for, and end? Are its network calls a behaviour of `Network`? Yes, for hosts that meet the conditions listed below. 297 000 states, 50 s. | some 1 800 hosts: pods of up to 2 containers and 3 shares, every shape of directive, image, overlay, network and kernel; integers of 4 bits |
| `boot_cubefs` | Does a pod with CubeFS shares boot, with each of them live? **No.** | 86 hosts, 2 of them with a directive |

Why the bounds are enough. The races are between one container and the three
goroutines, and a second container is there to be wrongly affected; two pids
let one be used again after the other. A channel of 2 overflows with three
events. Two CubeFS clients are an old and a new one of a share; two callers
contend for the mutex, and a third would only queue. Two rules are enough for
one to fail after the other has been queued. Three overlays with two callers
are an old, a new and an overtaking one; three networks are one in force, its
repetition and another. The hosts of `boot` vary containers with shares and
images, and network with overlay and kernel, but not all of them at once: the
steps share no state other than what the products contain. Integers of 4 bits
overflow where those of 32 and 64 do. Deadlock is checked except in the runs of
`Boot` and `Network`, which end when there is nothing left to do.

### What the code does not do

Five are runs in which TLC finds a comment of the code refuted.

- `stop_waits`: `allExited` takes a `lastExit` that is not nil for "exited", and
  a restart does not reset it. Stop returns at once, and the machine goes down
  under a restarted container.
- `run_returns`: a container that exits before `crun state` is read is never put
  into `pidIndex`; its exit is ignored, its `done` never closed, and Run waits
  forever.
- `reaped_helper`: `wait4(-1)` may collect a crun that succeeded; `Run` then
  reports that the start failed.
- `cubefs_republish`: when somebody else unmounted the path and the client is
  gone, the unmount fails each time and Apply returns before it mounts.
- `boot_cubefs`: several hosts of this run refute `CubeFSBoots`, and TLC reports one
  of the shortest; narrower `Host` sets in the cfg show the others. A share of the
  command line has no owner, Validate demands one (`CmdlineCubeFSHosts`). Of the
  pods (`PodCubeFSHosts`), an `unmount` without a CubeFS block passes Validate
  and is a nil dereference in PID 1; masters that are "reached over the wg0
  overlay" are waited for before there is one; and where another share is mounted
  on the path, nobody waits for the client at all.

The others are stated in their modules, under the same heading, and are not part
of a run. To see TLC refute one, put it in place of the properties of the cfg,
with the change that is named.

| Property | cfg and change | What the code does |
|---|---|---|
| `StopDisablesRestart` | `StopWaits.cfg` | Stop "disables restart for the remainder of the supervisor's life", but `shouldRestart` reads `stopped` once, outside the mutex and before `startOne`: a Stop that begins in between does not prevent the restart. |
| `CancelEndsRun` | `RunReturns.cfg`, `Console = FALSE`, `CHECK_DEADLOCK FALSE` | Without `/dev/console` `crun create` is waited for until its container ends. One created after Stop has sent its kills never ends, and Run does not return although its context is cancelled. |
| `StatusIsSnapshot` | `FirewallPolicy.cfg`, `Ruleset <- TwoRulesets` | The chains are dumped one after the other and without the mutex of Apply: a "snapshot" may count the rules of two firewalls. |
| `CountersMonotonic` | `FirewallPolicy.cfg` | "Counters survive table rebuilds", but the counter is part of the tail rule and is deleted with it. |
| `CloserIsLive` | `NetworkApplied.cfg`, `MayFail = FALSE` | The mutex of ApplyWireGuard is held for one assignment: with two calls that overlap, the closer that is kept need not be "the live one". |
| `OverlayPrefix` | `NetworkApplied.cfg` | The wide prefix of an overlay is not installed for IPv6, where the kernel answers EEXIST for the address that the library assigned. |
| `InitramfsServed` | `BootStarts.cfg` | `mountPseudoFS` says that existing mounts are skipped (`main.go:203`). That is so of proc, not of tmpfs, and the one on `/run` hides a pod.json "baked into initramfs" and a root file system unpacked there. |
| `NamespacesHonoured` | `BootStarts.cfg` | `WEFT_BUNDLE_NAMESPACES` is read from `/proc/cmdline` before `/proc` is mounted: the lever works only where something else has mounted it. |
| `UserByName` | `BootStarts.cfg` | The field is `"uid:gid" or username`; the name of a user is uid 0. |
| `NeverExits` | `BootStarts.cfg` | A signal before `signal.Notify` ends a PID 1 that "must never exit". |
| `SpinsForever` | `BootStarts.cfg` | "Spin forever" is an empty select, which Go's runtime takes for a deadlock when no goroutine is left, and exits. |

Other places where a comment or a name and the code differ, which no property
states, because one line of code shows each:

- The failure of a first start is called not fatal for a restartable container
  and ends the pod (`supervisor.go:75`).
- A share_mount with action `unmount` and a CubeFS block is mounted at boot.
- The package of Apply calls itself idempotent (`netlink.go:24`), which
  `RepeatIsHarmless` confirms for one network; with another gateway it keeps the
  old default route and reports success.
- An `icmp` rule, "any code/type" (`pod/firewall.go:34`), does not let in ICMP of
  IPv6, without which IPv6 finds no neighbours under the default drop; an
  IPv4-mapped CIDR passes the validation and matches nothing.
- The header of `firewall_linux.go` describes dropped egress where rules only
  accept; a `dport` match is used for what `pod/firewall.go:38` calls an egress source
  port; `RulesInstalled` counts the tail rule too.
- cfs-client is said to fork twice (`main.go:638`) but is started in the foreground
  (`cubefs/mount.go:77`).

## Fairness

- *Reaper*: weak fairness of its loop (a goroutine is scheduled), of the delivery
  of a pending signal, and strong fairness of `Wait4` for each zombie: `wait4`
  takes zombies in the kernel's order, so none is passed over forever.
- *Supervisor*: weak fairness of each goroutine and of the collection of each
  zombie. That stands for: crun returns, the grace period ends, the reaper
  runs. Containers need not exit, helpers need not, a signal need not come.
- *CubeFS*: weak fairness of the holder of the mutex, strong fairness of taking
  it (Go's mutex hands over to a starving waiter), and a killed client exits.
  `cubefs_republish` also assumes that clients do mount and that the share is
  published again and again, so that the violation is the engine's.
- *Boot*: weak fairness of `run()` and of what main does after it.
- *Firewall*, *Network*: none; they state safety only.

## What is proved

TLAPS checks these for every value of the constants, under the assumptions named
in the modules. `ConstantsAreSound` (`CapsArePositive` in `Reaper`) says that
special values are not members of the sets they stand beside and that capacities
are positive. In
`Network`, `KernelsAreSound` and `RequestsAreWellFormed` give interfaces, routes
and requests their fields, and `UnsetParses` says that an empty string is not a
malformed address. In `Boot`, `HostsAreSound` says the same of the files and the
kernel of each host (a pod.json that decodes has every field, if only with its
zero value; no share on offer has an empty tag; the directory of a container has a
name; an environment, of a container or an image, has finitely many keys, which
are numbered in their order, and a user is one field or two), and
`FilesAreDistinct` that empty, absent and broken are three things. In `Bundle`,
`DefaultsDiffer` says that the bundler's own environment names no key twice,
`NameIsNoNumber` that a user's field that is no number is outside the numbers, and
`BitsArePositive` that integers have a width.

- `ReaperProofs`: type correctness, and that no zombie is stranded. The second
  is inductive given the types: a drain ends only when no zombie is left, an
  exit after that raises SIGCHLD, the signal stays pending until the channel
  holds one, and taking it starts a drain. `ReaperImplementsService` is the safety part of
  `ImplementsService`, step by step: `Wait4` is the service's collection with or
  without an event, a `Wait` of somebody else its own, and everything the reaper
  does with signals is a stutter; it needs that nothing is collected by a reaper
  that has returned (`FinalAfterCancel`).
- `SupervisorProofs`: type correctness; `done` is closed at most once; an index
  entry is of a live container or of one whose exit is in flight.
  `ClosedAtMostOnce` is not inductive: it depends on a container having one
  handler at a time, its index entry or the consumer busy with it, and none
  once `done` is closed, while main's starts come before the consumer
  (`OneHandler`). `IndexAccounted` needs the same of a pid that `startOne` has
  read and not registered yet, and that crun forgets only containers whose
  init is gone (`Accounts`). It also proves that the delete that
  follows an exit is of a container that has exited, and that a nil from Run means
  that what is never restarted
  has exited. Both need that a
  pid stands for one container everywhere, in the kernel, in the index, in the
  exit under way and for the goroutine that started it (`Ownership`). The other
  delete, of a start that failed, is not part of this: it ends a container that
  runs when the reaper has taken a `crun start` that succeeded. The second
  needs in addition that what is closed stays gone: once `done` of a container
  that is never restarted is closed, nobody starts it again (`Finality`), and
  Run returns nil only past the last `done`.
- `SupervisorRefinement`: every step of the supervisor is a step of `Lifecycle` or
  leaves it as it is. The mapping reads a container's stage off `rt`, `init` and
  `closes`; the invariant `Progress` says where each goroutine can be while a
  container is launched, up or down.
- `CubeFSProofs`: type correctness; each running client is registered or the one
  under work; one client per share; what is torn down when a call returns. The
  strengthening says that the entry of a share is a client given that share,
  that a start finds the entry vacant, and what `target` is at each place.
- `FirewallProofs`: packets meet the last applied policy, and of a valid firewall
  what the comments of its rules say; drops are counted; a healthy status is
  accurate. The strengthening says that the table does not exist or is
  the whole batch of the installed ruleset (`Whole`), that an applier about to
  send has listed the table if there is one (`ListedFresh`), and what the
  reader has read so far. A lemma
  walks the batch: the first rule that matches accepts if one accepts, and is
  the tail rule if none does.
- `NetworkProofs`: every property of the run `network`. `Inv` has the types, when a
  key is in a file, and that only an overlay that decodes gets past `Check`.
  `Order` has each request made once and `past` answered before: it is what
  `NewestOverlay` comes down to. `OverlayInv` says how far the call that owns the
  device has come. `NetworkInv` is the induction behind `ApplyConfigures`: calls of
  `Apply` are in turn, the one under way has so far set what it has passed
  (`NetworkSoFar`), and what the last successful one set is in force until the
  next changes it (`NetworkInForce`); the resolver and the host name are changed by
  nobody else.
- `BundleProofs`: what the operators of `Pod` and `Bundle` compute, for every
  input. `MergeEnvMerges` is the merge of an environment: every override once and
  with its value, every default that is not overridden, nothing else. It rests on
  a finite set of names having an order in which each comes once (`SortedOnce`).
  `MountsSeen` is the order of the mounts: the last one on a path is seen, the
  container's own if it has one. Induction over data is done with a least
  counterexample (`LeastNumber`, from the well-foundedness of the numbers).
- `BootProofs`: type correctness, with the shares mounted so far in each round;
  `RootfsShown`; `NetworkAsSpecified`; `StartsWhenSound`;
  `RunsAsSpecified`; and that the network steps of the boot are a behaviour of
  `Network`, whose assumptions `HostsAreSound` implies (`NetworkAssumptions`). The
  theorems of `Network` then hold of `Net`, and
  `NetworkAtBoot` carries over what a later phase needs of the calls that are
  over. What is mounted is followed through the phases: each invariant of a loop
  says what its first `n - 1` rounds did (`BootInv`). That the directives of the
  command line become a list of mounts is an induction over that list
  (`KeptIsList`).
  `StartsWhenSound` has two halves, and one invariant (`StartInv`). For a boot that
  gets to the supervisor it says what each phase has established: the containers
  looked at have an entry point (`Completed`), the addresses and links have
  changed by so much at each step of `Apply` (`AppliedSoFar`, with `FoundStill` of
  the network's invariant), and a
  network or overlay that run() has gone past was a possible one (`Judged`). For a
  boot that ends it says that each way to fail names something the host lacks
  (`Blameless`), one lemma for each action that fails (`LoadFailsUnsound` to
  `NetworkFailsUnsound`). The second half needs the first: an entry point that is
  missing is the host's only if what the root file system shows is what the host
  has there (`RootfsAsked`). `RunsAsSpecified` follows from the same invariants: a
  container that has been looked at is the one that was asked for, with what its
  image adds if it had no command (`Completed`); that image is the one the host
  has there; the bundle is made of it (`Bundled`); and the rest is what
  `BundleProofs` says of the operators.

These theorems say what the definitions say, with their conditions on the host
(see the next section), and no more: `StartsWhenSound` claims nothing of a boot
with CubeFS shares that cannot be mounted before there is a network, and
`NetworkAsSpecified` accepts the default route that the kernel had. Where a
condition leaves out what a comment promises, the section "What the code does not
do" has the property that is not kept.

Not proved, only checked by TLC:

- liveness (`EveryZombieCollected`, `ShutdownCompletes`, `IndexedExitHandled`,
  `CallsReturn`, `BootEnds`, and the fairness `ImplementsService` promises): fairness
  and ENABLED are out of the prover's reach.

Every other property of a run that passes is proved.

## Assumptions and limits

- A pid is not used again while its exit is a zombie or an event. The code
  assumes it too; with the kernel's pid range it takes a wrap-around within the
  time an event is queued.
- Every call of crun returns, unless `/dev/console` cannot be opened and the
  container holds crun's output pipe (`Console`, TRUE in every run; see
  `CancelEndsRun`).
- A batch of nftables is applied whole or not at all.
- At boot a CubeFS client mounts if its masters answer by then (`host.masters`):
  local ones once the interface has an address, others over the overlay. Since
  `run()` mounts CubeFS shares before it configures either, boots without
  `ip=` on the kernel's command line fail.
- The properties of a boot speak of hosts that meet these conditions.
  `NothingBeneath`: the initramfs has no pod, overlay or root file system below
  `/run` (all of them but `BootEnds` and `UsesNetworkAsModelled`). `SharesApart`: no two
  shares are mounted on one path, none on the configuration (`StartsWhenSound`,
  `RunsAsSpecified`, `RootfsShown`, the overlay of `NetworkAsSpecified`). `CubeFSApart`:
  nor is a CubeFS share on another's path (its part of `RootfsShown`).
  `MountableEarly`: each CubeFS share has an owner, its masters are local and the
  interface is up (that a sound host's boot does not end, in `StartsWhenSound`).
  `WEFT_BUNDLE_NAMESPACES` is expected to be followed only where `/proc` was there
  before init, and users and limits to be kept only if they fit.
- A share is there or not (`host.offered`); whether it comes over virtiofs or 9p
  is part of that.
- The wireguard library does what the comments of its caller rely on: it reuses
  a link of the name, replaces the peers, and assigns the host's address. The
  kernel tells IPv4 addresses apart by prefix and IPv6 addresses not, keeps an
  existing default route, and demands that a gateway be on a network of the
  interface. Nobody else changes links, addresses or routes, except that the
  interface may appear late (`IfaceAppears`, in `Network` only).
- Calls of `Apply` do not overlap each other; those of `ApplyWireGuard` may. Of
  two overlapping calls neither is the newer, and `NewestOverlay` accepts both.
- The empty `select` of main after a failed reboot exits when no goroutine is left
  that waits for a CubeFS client, since Go's runtime takes that for a deadlock.

## Not modelled

Logging; formats (JSON, netlink, OCI) except for what fails to decode;
read-only flags; the constants of the bundler (masked paths, file limit);
`LoadFirewall` and `LoadShareMounts`, which read one file and validate it, and
which nothing in the repository calls; the container set (`pod/containers.go`),
types and a validation for an agent of another repository; the vsock transport,
which keeps no state and has no caller here; the initramfs builder and the build
scripts, which are no part of the running system.

## Plan

In the order of what matters most:

1. *(done)* Reaper, ReapService, Supervisor, Lifecycle: the core of PID 1, its
   safety and liveness, the reaper's refinement, first theorems.
2. *(done)* CubeFS and Firewall with their invariants proved.
3. *(done)* Boot over Pod and Bundle.
4. *(done)* Signals over the whole of `run()`, the panic of PID 1, the pseudo file
   systems and what they hide.
5. *(done)* The bundler's edges: users, limits, capabilities, the order of mounts.
6. *(done)* Network: `Apply` and `ApplyWireGuard` in their own steps, interrupted,
   repeated and overlapping, and Boot composed with them.
7. *(done)* The firewall status when a read fails, and the validation of a
   firewall against what Apply makes of it.
8. *(done)* Proofs of `Network`, of both refinements, of `ConsumerDeletesOnlyExited`
   and `NilReturnAfterExits`, and of `Boot` but for `RunsAsSpecified`.
9. *(done)* Proofs of what the operators of `Pod` and `Bundle` compute, and of
   `RunsAsSpecified`.
10. *(done)* A run for each promise of a comment that the code does not keep, in
   place of conditions that took the code's behaviour for granted.
