----------------------------- MODULE PodTemplate -----------------------------
(***************************************************************************)
(* What StatefulSetBuilder renders of the Pod template from a spec: the    *)
(* volumes, what each container mounts, the environment, the files that    *)
(* Vault's injector is asked for, and how spec.override is merged in.      *)
(* Images, resources, affinity, probes' timings, security contexts and the *)
(* users' own containers are copied from the spec unchanged and left out.  *)
(***************************************************************************)
EXTENDS Listeners, SequencesExt

(***************************************************************************)
(* The elements of a list that are in T, in the order of the list.  Filter *)
(* and the loops below are functions of how far they have come: TLAPS can  *)
(* expand these, but neither SelectSeq nor the folds.                      *)
(***************************************************************************)
Filter(list, T) ==
    LET kept[i \in 0..Len(list)] ==
            IF i = 0 THEN <<>>
            ELSE IF list[i] \in T THEN Append(kept[i - 1], list[i]) ELSE kept[i - 1]
    IN  kept[Len(list)]

\* Where the list has an element with the key of e; 0 if it has none.
At(key, list, e) ==
    IF \E i \in DOMAIN list : key[list[i]] = key[e]
    THEN CHOOSE i \in DOMAIN list : key[list[i]] = key[e] ELSE 0

(***************************************************************************)
(* strategicpatch.StrategicMergePatch on a list with a merge key: an       *)
(* element of the patch replaces that of its key, the patch keeps its      *)
(* order and so does the rest; a new element goes before the rest.  key    *)
(* gives the merge key of each element.                                    *)
(***************************************************************************)
Unpatched(key, server, patch) ==
    LET patched == {key[patch[j]] : j \in DOMAIN patch}
    IN  Filter(server, {x \in ToSet(server) : key[x] \notin patched})

StrategicMergePatch(key, server, patch) ==
    LET rest == Unpatched(key, server, patch)
        merged[n \in 0..Len(rest) + Len(patch)] ==
            IF n = 0 THEN [list |-> <<>>, i |-> 1, j |-> 1]
            ELSE LET m == merged[n - 1]
                 IN  IF m.j > Len(patch) \/
                        (m.i <= Len(rest) /\ At(key, server, rest[m.i]) < At(key, server, patch[m.j]))
                     THEN [list |-> Append(m.list, rest[m.i]), i |-> m.i + 1, j |-> m.j]
                     ELSE [list |-> Append(m.list, patch[m.j]), i |-> m.i, j |-> m.j + 1]
    IN  merged[Len(rest) + Len(patch)].list

Swap(list, i, j) == [list EXCEPT ![i] = list[j], ![j] = list[i]]

(***************************************************************************)
(* sortEnvVar and sortVolumeMounts go through the list once; each element  *)
(* is read when its turn comes, after the swaps before it.  slots[x] is    *)
(* the place that an element x is swapped to, if it has one.               *)
(***************************************************************************)
Swapped(slots, list) ==
    LET swapped[i \in 0..Len(list)] ==
            IF i = 0 THEN list
            ELSE LET l == swapped[i - 1]
                 IN  IF l[i] \in DOMAIN slots THEN Swap(l, slots[l[i]], i) ELSE l
    IN  swapped

SwapInto(slots, list) == Swapped(slots, list)[Len(list)]

\* The loop comes to an element whose place the list does not have: Go panics.
OutOfRange(slots, list) ==
    \E i \in DOMAIN list :
        LET x == Swapped(slots, list)[i - 1][i]
        IN  x \in DOMAIN slots /\ slots[x] \notin DOMAIN list

EnvSlots ==
    [e \in {"MY_POD_NAME", "MY_POD_NAMESPACE", "K8S_SERVICE_NAME"} |->
        CASE e = "MY_POD_NAME" -> 1 [] e = "MY_POD_NAMESPACE" -> 2 [] OTHER -> 3]

\* Mutant: the last of the three is forgotten.
SortFirstTwo(env) ==
    SwapInto([x \in {"MY_POD_NAME", "MY_POD_NAMESPACE"} |-> EnvSlots[x]], env)

sortEnvVar(env) == SwapInto(EnvSlots, env)

MountSlots(mounts) ==
    LET sorted == {m \in ToSet(mounts) : m.name \in {"rabbitmq-erlang-cookie", "persistence"}}
    IN  [m \in sorted |-> IF m.name = "persistence" THEN 2 ELSE 1]

sortVolumeMounts(mounts) == SwapInto(MountSlots(mounts), mounts)

-----------------------------------------------------------------------------
(* podTemplateSpec *)

Mount(p, n) == [path |-> p, name |-> n]
When(test, seq) == IF test THEN seq ELSE <<>>

\* Mutant: the volume for the extra files follows one of the two files only.
VolumesForEnvConfig(s) ==
    {"plugins-conf", "rabbitmq-confd", "rabbitmq-erlang-cookie",
     "erlang-cookie-secret", "rabbitmq-plugins", "pod-info"} \cup
    (IF "rabbitmq-env.conf" \in s.files THEN {"server-conf"} ELSE {}) \cup
    (IF s.storage = 0 THEN {"persistence"} ELSE {}) \cup
    (IF SecretTLSEnabled(s) THEN {"rabbitmq-tls"} ELSE {})

Volumes(s) ==
    {"plugins-conf", "rabbitmq-confd", "rabbitmq-erlang-cookie",
     "erlang-cookie-secret", "rabbitmq-plugins", "pod-info"} \cup
    (IF s.files # {} THEN {"server-conf"} ELSE {}) \cup
    (IF s.storage = 0 THEN {"persistence"} ELSE {}) \cup
    (IF SecretTLSEnabled(s) THEN {"rabbitmq-tls"} ELSE {})

\* What is in the volume rabbitmq-tls: the keys of one Secret or of two.
TLSVolumeFiles(s) ==
    IF ~SecretTLSEnabled(s) THEN {}
    ELSE {"tls.crt", "tls.key"} \cup (IF s.ca # "none" THEN {"ca.crt"} ELSE {})

rabbitmqContainerVolumeMounts(s) ==
    <<Mount("lib", "rabbitmq-erlang-cookie"), Mount("lib/mnesia", "persistence"),
      Mount("operator", "rabbitmq-plugins"), Mount("10-operatorDefaults", "rabbitmq-confd"),
      Mount("90-userDefined", "rabbitmq-confd"), Mount("pod-info", "pod-info")>> \o
    When(~VaultDefaultUserSecretEnabled(s), <<Mount("11-default_user", "rabbitmq-confd")>>) \o
    When("rabbitmq-env.conf" \in s.files, <<Mount("rabbitmq-env.conf", "server-conf")>>) \o
    When("advanced.config" \in s.files, <<Mount("advanced.config", "server-conf")>>) \o
    When(SecretTLSEnabled(s), <<Mount("rabbitmq-tls", "rabbitmq-tls")>>)

\* setupContainer; its last mount is where the credentials are copied from.
SetupVolumes(s) ==
    {"plugins-conf", "rabbitmq-erlang-cookie", "erlang-cookie-secret",
     "rabbitmq-plugins", "persistence"} \cup
    (IF VaultDefaultUserSecretEnabled(s) THEN {} ELSE {"rabbitmq-confd"})

\* defaultUserCredentialUpdater: a sidecar that talks to the management API.
HasUpdater(s) == VaultDefaultUserSecretEnabled(s) /\ s.updater
UpdaterVolumes(s) ==
    {"rabbitmq-erlang-cookie"} \cup
    (IF SecretTLSEnabled(s) THEN {"rabbitmq-tls"} ELSE {})

UpdaterPort(s) == <<"management", IF TLSEnabled(s) THEN "ssl" ELSE "tcp">>

\* Mutant: the readiness probe is left at the port without TLS.
ProbeAmqp(s) == <<"amqp", "tcp">>

ReadinessProbePort(s) == <<"amqp", IF s.disable THEN "ssl" ELSE "tcp">>

envVarsK8sObjects == <<"MY_POD_NAME", "MY_POD_NAMESPACE", "K8S_SERVICE_NAME">>

\* The variables of the rabbitmq container; the last two refer to those.
EnvVars ==
    envVarsK8sObjects \o
    <<"RABBITMQ_ENABLED_PLUGINS_FILE", "RABBITMQ_USE_LONGNAME", "RABBITMQ_NODENAME",
      "K8S_HOSTNAME_SUFFIX">>

\* The list has the operator's variables, if any, in the operator's order.
InOperatorOrder(env) ==
    \A i, j \in DOMAIN env, k, l \in DOMAIN EnvVars :
        env[i] = EnvVars[k] /\ env[j] = EnvVars[l] => (i < j <=> k < l)

\* appendVaultAnnotations: the files that the injector adds to the containers.
VaultFiles(s) ==
    (IF VaultDefaultUserSecretEnabled(s) THEN {"11-default_user"} ELSE {}) \cup
    (IF VaultTLSEnabled(s) THEN {"tls.crt", "tls.key", "ca.crt"} ELSE {})

\* persistentVolumeClaim (Build) and the override of the claim templates.
ClaimTemplates(s) ==
    CASE s.storage = 0 -> {}
      [] s.storage # 0 /\ s.claims = {} -> {"persistence"}
      [] OTHER -> s.claims

-----------------------------------------------------------------------------
(***************************************************************************)
(* patchPodSpec.  s.containers: the containers that the override lists, in *)
(* its order; s.env and s.mounts: what it lists for rabbitmq; s.sidecar:   *)
(* the lists of a container of the user's own.  The lists to be sorted are *)
(* those of Containers[0], whichever container that is after the merge.    *)
(***************************************************************************)
FirstContainer(s) ==
    LET own == <<"rabbitmq">> \o When(HasUpdater(s), <<"default-user-credential-updater">>)
        key == [c \in ToSet(own) \cup ToSet(s.containers) |-> c]
    IN  StrategicMergePatch(key, own, s.containers)[1]

RabbitmqIsFirst(s) == FirstContainer(s) = "rabbitmq"

\* The user's container is first, and sorting its lists goes out of range.
PatchPanics(s) ==
    /\ FirstContainer(s) = "sidecar"
    /\ \/ s.env # <<>> /\ OutOfRange(EnvSlots, s.sidecar.env)
       \/ s.mounts # <<>> /\ OutOfRange(MountSlots(s.sidecar.mounts), s.sidecar.mounts)

\* The rabbitmq container.  Variables are merged by name.
MergedEnv(s) ==
    LET key == [e \in ToSet(EnvVars) \cup ToSet(s.env) |-> e]
    IN  StrategicMergePatch(key, EnvVars, s.env)

PatchedEnv(s) ==
    CASE s.env = <<>> -> EnvVars
      [] s.env # <<>> /\ RabbitmqIsFirst(s) -> sortEnvVar(MergedEnv(s))
      [] OTHER -> MergedEnv(s)

\* Mounts are merged by path.
MergedMounts(s) ==
    LET own == rabbitmqContainerVolumeMounts(s)
        key == [m \in ToSet(own) \cup ToSet(s.mounts) |-> m.path]
    IN  StrategicMergePatch(key, own, s.mounts)

\* Mutant: the merged mounts are not sorted.
PatchedMountsUnsorted(s) == MergedMounts(s)

PatchedMounts(s) ==
    CASE s.mounts = <<>> -> rabbitmqContainerVolumeMounts(s)
      [] s.mounts # <<>> /\ RabbitmqIsFirst(s) -> sortVolumeMounts(MergedMounts(s))
      [] OTHER -> MergedMounts(s)

\* The template; the annotations that are on it already are not in here.
podTemplateSpec(s) ==
    [first    |-> FirstContainer(s),
     ports    |-> updateContainerPorts(s),
     probe    |-> ReadinessProbePort(s),
     volumes  |-> Volumes(s) \cup s.volumes,
     tls      |-> TLSVolumeFiles(s),
     mounts   |-> PatchedMounts(s),
     setup    |-> SetupVolumes(s),
     updater  |-> IF HasUpdater(s)
                  THEN [port |-> {UpdaterPort(s)}, volumes |-> UpdaterVolumes(s)]
                  ELSE [port |-> {}, volumes |-> {}],
     env      |-> PatchedEnv(s),
     injected |-> VaultFiles(s)]

=============================================================================
