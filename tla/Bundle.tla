------------------------------- MODULE Bundle -------------------------------
(***************************************************************************)
(* The OCI bundle of a container (src/pkg/bundler/bundler.go): the process *)
(* that runs, its environment and its user, and the namespaces and mounts  *)
(* that connect it to the pod.                                             *)
(***************************************************************************)
EXTENDS Pod, SequencesExt

CONSTANTS
    DefaultEnv, \* entries for PATH and TERM; keys are numbered in their order
    ByName,     \* a field of a user that is not a number
    Bits        \* width of an integer: 32 for a user, 64 for a limit

OCINamespaces == {"pid", "network", "ipc", "uts", "mount"}
ResolvConf == <<"etc", "resolv.conf">>

IsList(s) == s \in Seq(Range(s))

ASSUME BitsArePositive == Bits \in Nat \ {0}
ASSUME NameIsNoNumber == ByName \notin Nat
ASSUME DefaultsDiffer ==
    /\ IsList(DefaultEnv)
    /\ \A i, j \in DOMAIN DefaultEnv : DefaultEnv[i].key = DefaultEnv[j].key => i = j

(* parseUser: "uid:gid" or "uid" that is both.  What is no number is 0,    *)
(* and what is too large for one is the largest.                           *)
ParseUser(user) ==
    LET number(field) == IF field = ByName THEN 0
                         ELSE IF field < 2^Bits THEN field ELSE 2^Bits - 1
    IN  IF user = Unset THEN <<0, 0>> ELSE <<number(user[1]), number(user[Len(user)])>>

(* sort.Strings, of different keys.                                        *)
Sorted(names) ==
    CHOOSE s \in [1..Cardinality(names) -> names] : \A i, j \in DOMAIN s : i < j => s[i] < s[j]

(* Mutant: the overrides are appended, and a default may come twice.       *)
MergeEnvAppended(defaults, overrides) ==
    defaults \o [i \in DOMAIN Sorted(DOMAIN overrides) |->
                    LET k == Sorted(DOMAIN overrides)[i] IN [key |-> k, value |-> overrides[k]]]

(* mergeEnv: defaults in their order, overridden in place, then the rest   *)
(* sorted.                                                                 *)
MergeEnv(defaults, overrides) ==
    LET keys == {defaults[i].key : i \in DOMAIN defaults}
        rest == Sorted(DOMAIN overrides \ keys)
    IN  [i \in DOMAIN defaults |->
            IF defaults[i].key \in DOMAIN overrides
            THEN [key |-> defaults[i].key, value |-> overrides[defaults[i].key]]
            ELSE defaults[i]]
        \o [i \in DOMAIN rest |-> [key |-> rest[i], value |-> overrides[rest[i]]]]

(* Mutant: the namespaces of the time before containers joined the pod's.  *)
NamespacesForAll(c, override) == IF override # Unset THEN override ELSE OCINamespaces

(* namespacesFor: WEFT_BUNDLE_NAMESPACES wins; by default the container    *)
(* joins the network namespace of the pod.                                 *)
NamespacesFor(c, override) ==
    IF override # Unset THEN override
    ELSE IF c.net = "none" THEN OCINamespaces
    ELSE OCINamespaces \ {"network"}

(* resolvConfMount: the resolver of init, if there is one by now.          *)
ResolvConfMount(c, hasResolver) ==
    IF c.net # "none" /\ hasResolver THEN <<[src |-> ResolvConf, dst |-> ResolvConf]>> ELSE <<>>

(* defaultMounts                                                           *)
DefaultMounts ==
    LET mount(fs, dst) == [src |-> <<fs>>, dst |-> dst]
    IN  <<mount("proc", <<"proc">>), mount("tmpfs", <<"dev">>), mount("devpts", <<"dev", "pts">>),
          mount("shm", <<"dev", "shm">>), mount("mqueue", <<"dev", "mqueue">>),
          mount("sysfs", <<"sys">>)>>

(* The runtime mounts them in their order.                                 *)
BundleMounts(c, hasResolver) ==
    DefaultMounts \o ResolvConfMount(c, hasResolver) \o c.mounts

(* buildResources.  A limit of 0 is none; that of the memory is converted  *)
(* to a signed integer.                                                    *)
BuildResources(limits) ==
    LET signed(x) == IF x < 2^(Bits - 1) THEN x ELSE x - 2^Bits
        limit(x) == IF x > 0 THEN x ELSE Unset
    IN  [mem |-> IF limits.mem > 0 THEN signed(limits.mem) ELSE Unset,
         cpu |-> limit(limits.cpu), pids |-> limit(limits.pids)]

(* defaultCaps: the runtime's own set, and three more.                     *)
DefaultCaps(privileged) ==
    {"default"} \cup IF privileged THEN {"sys_admin", "net_admin", "sys_ptrace"} ELSE {}

(* buildSpec                                                               *)
BuildSpec(podID, c, rootfs, override, hasResolver) ==
    [hostname |-> podID,
     args |-> c.command \o c.args,
     env |-> MergeEnv(DefaultEnv, c.env),
     cwd |-> IF c.workdir = Unset THEN <<>> ELSE c.workdir,
     user |-> ParseUser(c.user),
     capabilities |-> DefaultCaps(c.privileged),
     noNewPrivileges |-> ~c.privileged,
     root |-> rootfs,
     mounts |-> BundleMounts(c, hasResolver),
     namespaces |-> NamespacesFor(c, override),
     resources |-> BuildResources(c.limits)]

-----------------------------------------------------------------------------
(* What a process finds in it: how often a key is in its environment, and  *)
(* with which value, and at a path the last mount there.                   *)
Count(env, k) == Cardinality({i \in DOMAIN env : env[i].key = k})
Has(env, k, v) == \E i \in DOMAIN env : env[i] = [key |-> k, value |-> v]

SeenAt(list, dst) == list[Max({i \in DOMAIN list : list[i].dst = dst})]
=============================================================================
