-------------------------------- MODULE Pod --------------------------------
(***************************************************************************)
(* The pod specification (src/pkg/pod) and what weft-init makes of it      *)
(* before anything runs: validation, the pod made up from the kernel's     *)
(* command line (src/cmd/weft-init/main.go), and the image configuration   *)
(* that completes a container (src/pkg/pod/imageconfig.go).                *)
(***************************************************************************)
EXTENDS Naturals, Sequences, FiniteSets

CONSTANTS
    Unset,  \* an empty string, a nil pointer, a variable that is not set
    Absent, \* a file that does not exist
    Broken  \* a file that cannot be decoded, an address that cannot be parsed

-----------------------------------------------------------------------------
(* Validation.                                                             *)

EffectiveBackend(m) == IF m.backend = Unset THEN "cubefs" ELSE m.backend

ValidCubeFS(v) == v # Unset /\ v.volume # Unset /\ v.masters # <<>> /\ v.owner # Unset

(* An unmount needs no more than the id and the mount point.               *)
ValidShareMount(m) ==
    /\ m.id # Unset /\ m.path # Unset
    /\ m.action = "unmount" \/ (EffectiveBackend(m) = "cubefs" /\ ValidCubeFS(m.cubefs))

ValidContainers(containers) ==
    /\ containers # <<>>
    /\ \A i \in DOMAIN containers : containers[i].id # Unset /\ containers[i].tag # Unset
    /\ \A i, j \in DOMAIN containers : containers[i].id = containers[j].id => i = j

ValidSpec(spec) ==
    /\ spec.id # Unset
    /\ ValidContainers(spec.containers)
    /\ \A i \in DOMAIN spec.shareMounts : ValidShareMount(spec.shareMounts[i])

(* WireGuard.Validate, of an overlay that comes as a file of its own.      *)
ValidWireGuard(wg) ==
    /\ wg.key # Unset /\ wg.address # Unset
    /\ \A p \in wg.peers : p.key # Unset /\ p.allowed # {}

-----------------------------------------------------------------------------
(* The pod of the command line.  A directive is the sequence of the fields *)
(* between its colons; one that does not parse is skipped.  A path is a    *)
(* sequence of names.                                                      *)

RootfsDir(id) == <<"rootfs", id>>

(* What a loop over directives keeps: those at the indices ok, in order.   *)
Kept(ds, ok) ==
    LET kept[i \in 0..Len(ds)] ==
            IF i = 0 THEN <<>>
            ELSE IF i \in ok THEN Append(kept[i - 1], ds[i]) ELSE kept[i - 1]
    IN  kept[Len(ds)]

(* weft.mount=<transport>:<tag>:<guest>                                    *)
MountParses(d) == Len(d) >= 3
Mounts(cmdline) ==
    Kept(cmdline.mounts, {i \in DOMAIN cmdline.mounts : MountParses(cmdline.mounts[i])})

(* weft.cubefs=<masters>:<volume>:<guest>                                  *)
CubeFSParses(d) == Len(d) >= 3 /\ \A i \in 1..3 : d[i] # Unset
CubeFS(cmdline) ==
    Kept(cmdline.cubefs, {i \in DOMAIN cmdline.cubefs : CubeFSParses(cmdline.cubefs[i])})

SynthShares(cmdline) ==
    <<[tag |-> cmdline.rootfs, path |-> RootfsDir("main")]>>
        \o [i \in DOMAIN Mounts(cmdline) |->
               [tag |-> Mounts(cmdline)[i][2], path |-> Mounts(cmdline)[i][3]]]

(* A share made from a directive has no owner: there is no field for one.  *)
SynthShareMounts(cmdline) ==
    [i \in DOMAIN CubeFS(cmdline) |->
        LET d == CubeFS(cmdline)[i] IN
        [id |-> i, action |-> "mount", backend |-> "cubefs", path |-> d[3],
         cubefs |-> [masters |-> <<d[1]>>, volume |-> d[2], owner |-> Unset]]]

(* What the one container binds: each host directory, then each share.     *)
SynthMounts(cmdline) ==
    [i \in DOMAIN Mounts(cmdline) |-> [src |-> Mounts(cmdline)[i][3], dst |-> Mounts(cmdline)[i][3]]]
        \o [i \in DOMAIN CubeFS(cmdline) |->
               [src |-> CubeFS(cmdline)[i][3], dst |-> CubeFS(cmdline)[i][3]]]

NoEnv == [k \in {} |-> Unset]
NoLimits == [mem |-> 0, cpu |-> 0, pids |-> 0]

(* synthSingleContainerPod; the caller has seen that there is a rootfs.    *)
Synth(cmdline) ==
    [id |-> "single",
     containers |-> <<[id |-> "main", tag |-> cmdline.rootfs, command |-> <<>>, args |-> <<>>,
                       env |-> NoEnv, workdir |-> Unset, user |-> Unset, net |-> Unset,
                       privileged |-> FALSE, limits |-> NoLimits,
                       mounts |-> SynthMounts(cmdline)]>>,
     shares |-> SynthShares(cmdline),
     shareMounts |-> SynthShareMounts(cmdline),
     network |-> Unset,
     wireguard |-> Unset]

-----------------------------------------------------------------------------
(* EnrichFromImage: the image's entry of each field the host left empty.   *)

HasEntrypoint(image) == image \notin {Absent, Broken} /\ image.args # <<>>

(* An entry without "=" has no key and is dropped; of two for one key the  *)
(* last one stays.                                                         *)
EnvOf(entries) ==
    LET last(k) == CHOOSE i \in DOMAIN entries :
                      /\ entries[i].key = k
                      /\ \A j \in DOMAIN entries : entries[j].key = k => j <= i
    IN  [k \in {entries[i].key : i \in DOMAIN entries} \ {Unset} |-> entries[last(k)].value]

EnrichFromImage(c, image) ==
    [c EXCEPT !.command = image.args,
              !.env = IF DOMAIN @ = {} THEN EnvOf(image.env) ELSE @,
              !.workdir = IF @ = Unset THEN image.cwd ELSE @,
              !.user = IF @ = Unset /\ image.user # <<0, 0>> THEN image.user ELSE @]
=============================================================================
