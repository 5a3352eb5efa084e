----------------------------- MODULE ChildObjects -----------------------------
(***************************************************************************)
(* The objects that the builders keep for one RabbitmqCluster and that     *)
(* have to agree with each other: the Service, the Erlang cookie, the      *)
(* default-user Secret, the plugins and server-conf ConfigMaps and the     *)
(* StatefulSet.  A pass applies the builders one by one; users edit the    *)
(* spec at any time, any call may fail and objects may be deleted by       *)
(* others.  Conflicts, caches and the rest of Reconcile are ReconcileLoop. *)
(***************************************************************************)
EXTENDS PodTemplate

CONSTANTS
    Specs,      \* the values users give to RabbitmqCluster.Spec
    Changes,    \* the single changes that users make, as <<field, value>>
    Orders,     \* orders in which Go may range over the map of Service ports
    UserPort,   \* the node port that users give to a port of their own
    None,       \* no such object; no pass is running
    Events      \* Events[s]: edits, failures and losses if the cluster starts as s

Modes == {"ClusterIP", "NodePort", "LoadBalancer"}

ExtraFiles == {"rabbitmq-env.conf", "advanced.config"}

MountLists == Seq([path: STRING, name: STRING])

\* port, containers, env, mounts, sidecar, volumes and claims are what spec.override
\* adds; files are the additional configuration files that are not empty.
SpecFields ==
    [secret: BOOLEAN, ca: {"none", "same", "other"}, vault: SUBSET {"tls", "user"},
     disable: BOOLEAN, plugins: SUBSET PluginNames, mode: Modes, port: BOOLEAN,
     files: SUBSET ExtraFiles, storage: Nat, claims: SUBSET STRING, updater: BOOLEAN,
     volumes: SUBSET STRING, containers: Seq(STRING), env: Seq(STRING), mounts: MountLists,
     sidecar: [env: Seq(STRING), mounts: MountLists], memory: Nat]

\* The default-user Secret: which credentials were drawn, and the binding ports.
Secrets == [user: Nat, ports: SUBSET Listener]

\* No list of an override has two elements with the same merge key; what it
\* lists for rabbitmq is in a container of that name.
ASSUME SpecsAssumption ==
    /\ Specs \subseteq SpecFields
    /\ \A s \in Specs :
          /\ IsInjective(s.env) /\ IsInjective(s.containers)
          /\ "rabbitmq" \in ToSet(s.containers) \/ (s.env = <<>> /\ s.mounts = <<>>)
          /\ \A i, j \in DOMAIN s.mounts : s.mounts[i].path = s.mounts[j].path => i = j

\* Storage is not edited here: PersistenceScaling has that.
ASSUME ChangesAssumption == \A c \in Changes : c[1] \notin {"storage", "claims"}
ASSUME OrdersAssumption == \A o \in Orders : o \in Seq(Listener) /\ ToSet(o) = Listener
ASSUME EventsAssumption == Events \in [Specs -> Nat]
ASSUME NoneAssumption == None \notin Specs /\ None \notin Nat /\ None \notin Secrets
ASSUME UserPortAssumption == UserPort \notin Nat

VARIABLES
    spec,       \* RabbitmqCluster.Spec
    inst,       \* the copy of the running pass
    at,         \* index of the builder the pass is at; 0 when idle
    queued,     \* the workqueue holds the request
    svc,        \* [mode, ports], ports a sequence of [name, np]
    alloc,      \* alloc[l]: node ports given to l so far
    cookie,     \* the Erlang cookie
    secret,     \* [user, ports]: credentials and binding ports
    random,     \* random strings drawn so far
    plugins,    \* the plugins ConfigMap
    conf,       \* the server-conf ConfigMap
    sts,        \* [template, claims]
    left        \* events still to come

objects == <<svc, alloc, cookie, secret, plugins, conf, sts>>
vars == <<spec, inst, at, queued, objects, random, left>>

Init ==
    /\ spec \in Specs /\ inst = None /\ at = 0 /\ queued = TRUE
    /\ svc = None /\ alloc = [l \in Listener |-> 0]
    /\ cookie = None /\ secret = None /\ random = 0
    /\ plugins = None /\ conf = None /\ sts = None
    /\ left = Events[spec]

-----------------------------------------------------------------------------
(* One pass. *)

\* reconcileTLS, for users' Secrets that exist with all their keys.
TLSReady(s) ==
    /\ s.disable => TLSEnabled(s)
    /\ SecretTLSEnabled(s) /\ MutualTLSEnabled(s) => s.ca # "none"

\* disableNonTLSListeners without TLS ends the pass for good; a CA Secret that
\* has no name (mutual TLS from Vault) is not found, again and again.
Start ==
    /\ at = 0 /\ queued
    /\ IF TLSReady(spec) THEN inst' = spec /\ at' = 1 /\ queued' = FALSE
       ELSE /\ UNCHANGED <<inst, at>>
            /\ queued' = (spec.disable => TLSEnabled(spec))
    /\ UNCHANGED <<spec, objects, random, left>>

Builders == <<"service", "cookie", "secret", "plugins", "conf", "sts">>

\* Mutant: the loop runs past the last builder.
AfterPastEnd(i) == IF i = 2 /\ VaultDefaultUserSecretEnabled(inst) THEN 4 ELSE i + 1

\* ResourceBuilders: with credentials from Vault there is no Secret to build.
After(i) ==
    IF i = 2 /\ VaultDefaultUserSecretEnabled(inst) THEN 4
    ELSE IF i = Len(Builders) THEN 0 ELSE i + 1

\* An error ends the pass and puts the request back.
Fail == at' = 0 /\ inst' = None /\ queued' = TRUE

\* The step has been made; a changed object wakes the operator up.
Proceed ==
    /\ at' = After(at)
    /\ inst' = IF at' = 0 THEN None ELSE inst
    /\ queued' = (queued \/ objects' # objects)

ServicePorts == [s \in Specs |-> generateServicePortsMap(s)]
Names(ports) == {ports[i].name : i \in DOMAIN ports}

\* Mutant: the list is made anew from the map.
PortsFromMap(ports, s, order) ==
    LET new == Filter(order, ServicePorts[s])
        np(l) == IF l \in Names(ports)
                 THEN (CHOOSE p \in ToSet(ports) : p.name = l).np ELSE 0
    IN  [i \in DOMAIN new |-> [name |-> new[i], np |-> np(new[i])]]

\* Mutant: node ports are not carried over.
PortsWithoutNodePorts(ports, s, order) ==
    LET M == ServicePorts[s]
        old == Filter(ports, {p \in ToSet(ports) : p.name \in M})
        new == Filter(order, M \ Names(ports))
    IN  [i \in DOMAIN old |-> [name |-> old[i].name, np |-> 0]] \o
        [i \in DOMAIN new |-> [name |-> new[i], np |-> 0]]

\* Ports that stay keep their place and node port; new ones come in map order.
updatePorts(ports, s, order) ==
    LET M == ServicePorts[s]
        old == Filter(ports, {p \in ToSet(ports) : p.name \in M})
        new == Filter(order, M \ Names(ports))
    IN  old \o [i \in DOMAIN new |-> [name |-> new[i], np |-> 0]]

\* Mutant: node ports stay when the type needs none.
KeepNodePorts(ports, s) == ports

ResetNodePorts(ports, s) ==
    IF s.mode = "ClusterIP" THEN [i \in DOMAIN ports |-> [ports[i] EXCEPT !.np = 0]]
    ELSE ports

Custom == <<"custom", "tcp">>

\* applySvcOverride, for an override that adds a port of the user's own.
applySvcOverride(ports, s) ==
    IF ~s.port THEN ports
    ELSE <<[name |-> Custom,
            np   |-> IF s.mode = "ClusterIP" THEN 0 ELSE UserPort]>> \o ports

\* The API server gives a node port to each port of a NodePort or LoadBalancer
\* Service that has none, and refuses one on a ClusterIP Service.
Accepted(new) == new.mode = "ClusterIP" => \A i \in DOMAIN new.ports : new.ports[i].np = 0
Allocate(new) ==
    LET needs(p) == new.mode # "ClusterIP" /\ p.np = 0
        given(p) == IF needs(p) THEN [p EXCEPT !.np = alloc[p.name] + 1] ELSE p
    IN  /\ svc' = [new EXCEPT !.ports = [i \in DOMAIN @ |-> given(@[i])]]
        /\ alloc' = [l \in Listener |->
                     IF \E p \in ToSet(new.ports) : p.name = l /\ needs(p)
                     THEN alloc[l] + 1 ELSE alloc[l]]

ApplyService ==
    /\ at = 1
    /\ \E order \in Orders :
         \E ports \in {updatePorts(IF svc = None THEN <<>> ELSE svc.ports, inst, order)} :
         \E new \in {[mode  |-> inst.mode,
                      ports |-> applySvcOverride(ResetNodePorts(ports, inst), inst)]} :
            IF Accepted(new)
            THEN /\ Allocate(new)
                 /\ UNCHANGED <<cookie, secret, plugins, conf, sts>>
                 /\ Proceed
            ELSE UNCHANGED objects /\ Fail
    /\ UNCHANGED <<spec, random, left>>

\* Build draws on every pass; CreateOrUpdate uses what it built only if there
\* is no object yet.
KeepDrawn(old) == IF old = None THEN random + 1 ELSE old

ApplyErlangCookie ==
    /\ at = 2
    /\ cookie' = KeepDrawn(cookie)
    /\ random' = IF cookie' = cookie THEN random ELSE random + 1
    /\ UNCHANGED <<spec, svc, alloc, secret, plugins, conf, sts, left>>
    /\ Proceed

ApplyDefaultUserSecret ==
    /\ at = 3
    /\ LET user == KeepDrawn(IF secret = None THEN None ELSE secret.user)
       IN  /\ secret' = [user |-> user, ports |-> SecretPorts(inst)]
           /\ random' = IF user = random + 1 THEN random + 1 ELSE random
    /\ UNCHANGED <<spec, svc, alloc, cookie, plugins, conf, sts, left>>
    /\ Proceed

ApplyPlugins ==
    /\ at = 4
    /\ plugins' = DesiredPlugins(inst)
    /\ UNCHANGED <<spec, svc, alloc, cookie, secret, conf, sts, random, left>>
    /\ Proceed

ApplyServerConf ==
    /\ at = 5
    /\ conf' = ServerConf(inst)
    /\ UNCHANGED <<spec, svc, alloc, cookie, secret, plugins, sts, random, left>>
    /\ Proceed

Templates == [s \in Specs |-> podTemplateSpec(s)]

\* The template is made anew except for its annotations: ReconcileAnnotations
\* only adds.  Claim templates cannot be changed: an update that does is refused.
\* A panic ends the process: when it is back, all requests are queued.
ApplyStatefulSet ==
    /\ at = 6
    /\ LET injected == IF sts = None THEN {} ELSE sts.template.injected
           claims == IF sts = None \/ (inst.claims # {} /\ inst.storage # 0)
                     THEN ClaimTemplates(inst) ELSE sts.claims
       IN  IF PatchPanics(inst) \/ (sts # None /\ claims # sts.claims)
           THEN UNCHANGED objects /\ Fail
           ELSE /\ sts' = [template |-> [Templates[inst] EXCEPT !.injected = injected \cup @],
                           claims |-> claims]
                /\ UNCHANGED <<svc, alloc, cookie, secret, plugins, conf>>
                /\ Proceed
    /\ UNCHANGED <<spec, random, left>>

\* A call fails, or the operator crashes: the pass is over.
StepFails ==
    /\ at # 0 /\ left > 0 /\ left' = left - 1
    /\ Fail
    /\ UNCHANGED <<spec, objects, random>>

-----------------------------------------------------------------------------
(* Users. *)

Edit ==
    /\ left > 0 /\ left' = left - 1
    /\ \E c \in Changes :
         /\ c[2] # spec[c[1]] /\ [spec EXCEPT ![c[1]] = c[2]] \in Specs
         /\ spec' = [spec EXCEPT ![c[1]] = c[2]]
    /\ queued' = TRUE
    /\ UNCHANGED <<inst, at, objects, random>>

\* Somebody deletes an object; all of them are watched.
Lose ==
    /\ left > 0 /\ left' = left - 1
    /\ queued' = TRUE
    /\ \/ svc # None /\ svc' = None /\ UNCHANGED <<cookie, secret, plugins, conf, sts>>
       \/ cookie # None /\ cookie' = None /\ UNCHANGED <<svc, secret, plugins, conf, sts>>
       \/ secret # None /\ secret' = None /\ UNCHANGED <<svc, cookie, plugins, conf, sts>>
       \/ plugins # None /\ plugins' = None /\ UNCHANGED <<svc, cookie, secret, conf, sts>>
       \/ conf # None /\ conf' = None /\ UNCHANGED <<svc, cookie, secret, plugins, sts>>
       \/ sts # None /\ sts' = None /\ UNCHANGED <<svc, cookie, secret, plugins, conf>>
    /\ UNCHANGED <<spec, inst, at, alloc, random>>

Pass ==
    \/ Start \/ ApplyService \/ ApplyErlangCookie \/ ApplyDefaultUserSecret
    \/ ApplyPlugins \/ ApplyServerConf \/ ApplyStatefulSet

Next == Pass \/ StepFails \/ Edit \/ Lose

Spec == Init /\ [][Next]_vars

\* The workqueue always runs what it holds.
FairSpec == Spec /\ WF_vars(Pass)

-----------------------------------------------------------------------------
(* Properties. *)

PortRecord == [name: Listener, np: Nat \cup {UserPort}]

TypeOK ==
    /\ spec \in Specs /\ inst \in Specs \cup {None}
    /\ at \in 0..Len(Builders) /\ (at # 0 => inst # None) /\ queued \in BOOLEAN
    /\ svc # None => svc.mode \in Modes /\ ToSet(svc.ports) \subseteq PortRecord
    /\ alloc \in [Listener -> Nat]
    /\ cookie \in 1..random \cup {None} /\ random \in Nat
    /\ secret # None => secret.user \in 1..random /\ secret.ports \subseteq Listener
    /\ plugins # None => plugins \subseteq PluginNames \cup {"management", "prometheus"}
    /\ sts # None => sts.template.ports \subseteq Listener
    /\ left \in Nat

\* Nothing is queued and the spec is one that passes reconcileTLS: the last
\* pass has gone through and found nothing to change.
AtRest == at = 0 /\ ~queued /\ TLSReady(spec)

\* The plugins that no one has listed: they start because another needs them.
Unlisted(s) == Dependencies(s.plugins) \ s.plugins

(***************************************************************************)
(* The three port lists and the server configuration agree: what the       *)
(* Service offers is a port of the container and is served by a node with  *)
(* this configuration, and so are the ports that the readiness probe and   *)
(* the credential updater connect to.  One exception: the TLS port of the  *)
(* stream plugin is offered but not configured when the plugin comes as a  *)
(* dependency (service.go asks StreamNeeded, configmap.go does not).       *)
(***************************************************************************)
PortsAgree ==
    AtRest =>
        LET open == Served(plugins, conf.keys)
            offered == Names(svc.ports) \ {Custom}
            exception == Ssl(Unlisted(spec) \cap {"stream"})
        IN  /\ offered \subseteq sts.template.ports
            /\ offered \ exception \subseteq open
            /\ sts.template.probe \in sts.template.ports \cap open
            /\ sts.template.updater.port \subseteq open

(***************************************************************************)
(* With disableNonTLSListeners these are all the listeners without TLS     *)
(* that configmap.go may leave open, whatever was edited before: those of  *)
(* the web plugins as long as there is no mutual TLS, and those of the     *)
(* plugins (stream, mqtt, stomp) that start only because another needs     *)
(* them.  The first are among those that NonTLSDisabled wants closed.      *)
(***************************************************************************)
NonTLSListenersClosed ==
    AtRest /\ spec.disable =>
        Served(plugins, conf.keys) \cap Tcp(Protocols \ {"epmd"}) \subseteq
            Tcp((IF MutualTLSEnabled(spec) THEN {} ELSE {"web_mqtt", "web_stomp"})
                \cup Unlisted(spec))

(***************************************************************************)
(* What rabbitmqcluster_types.go says of disableNonTLSListeners: it        *)
(* "disables non-TLS listeners for RabbitMQ, management plugin and for any *)
(* enabled plugins in the following list: stomp, mqtt, web_stomp,          *)
(* web_mqtt".  configmap.go closes those of the web plugins with mutual    *)
(* TLS only.                                                               *)
(***************************************************************************)
NonTLSDisabled ==
    AtRest /\ spec.disable =>
        Served(plugins, conf.keys) \cap
            Tcp({"amqp", "management"} \cup
                Enabled(spec, {"stomp", "mqtt", "web_stomp", "web_mqtt"})) = {}

(***************************************************************************)
(* A client that connects with what the default-user Secret says finds the *)
(* port in the Service, unless TLS comes from Vault with the other         *)
(* listeners disabled, or a web plugin has TLS without a CA.               *)
(***************************************************************************)
BindingUsable ==
    AtRest /\ secret # None /\ ~VaultDefaultUserSecretEnabled(spec) =>
        LET closed == IF ~SecretTLSEnabled(spec) /\ spec.disable THEN Tcp(Protocols) ELSE {}
            noCA == IF MutualTLSEnabled(spec) THEN {} ELSE Ssl({"web_mqtt", "web_stomp"})
        IN  secret.ports \ (closed \cup noCA) \subseteq Names(svc.ports)

\* What the override mounts is there, and neither the volume with the extra
\* files nor the claim for the data directory is taken away.
OverrideComplete(s) ==
    /\ \A m \in ToSet(s.mounts) :
          m.name \in (Volumes(s) \cup s.volumes \cup ClaimTemplates(s)) \ {"server-conf"}
    /\ s.storage # 0 => "persistence" \in ClaimTemplates(s)

(***************************************************************************)
(* A Pod of the StatefulSet can start: every volume that a container       *)
(* mounts is there, the certificates that server-conf names are mounted or *)
(* injected, so are the default user's credentials, and the files that     *)
(* server-conf has are mounted and no others are mounted from it.          *)
(***************************************************************************)
PodCanStart ==
    AtRest /\ OverrideComplete(spec) =>
        LET t == sts.template
            mounted == {m.name : m \in ToSet(t.mounts)}
            paths == {m.path : m \in ToSet(t.mounts)}
        IN  /\ mounted \cup t.setup \cup t.updater.volumes \subseteq t.volumes \cup sts.claims
            /\ conf.certs \subseteq t.injected \cup
                    (IF "rabbitmq-tls" \in paths THEN t.tls ELSE {})
            /\ "11-default_user" \in t.injected \/
                    ("11-default_user" \in paths /\ secret # None)
            /\ conf.files \subseteq paths
            /\ \A m \in ToSet(t.mounts) : m.name = "server-conf" => m.path \in conf.files

(***************************************************************************)
(* /var/lib/rabbitmq/ is mounted before /var/lib/rabbitmq/mnesia/, or it   *)
(* would hide it, in whatever order the override repeats the two mounts    *)
(* and whatever it adds, as long as the volume of the first is mounted     *)
(* there and nowhere else and the rabbitmq container is the first of the   *)
(* Pod: patchPodSpec sorts the mounts of Containers[0], and leaves those   *)
(* of a rabbitmq container that comes after a sidecar as they are merged.  *)
(***************************************************************************)
MountsInOrder ==
    sts # None /\ sts.template.first = "rabbitmq" =>
        LET mounts == sts.template.mounts
        IN  (\A m \in ToSet(mounts) : m.path = "lib" <=> m.name = "rabbitmq-erlang-cookie") =>
            \A i, j \in DOMAIN mounts :
                mounts[i].path = "lib" /\ mounts[j].path = "lib/mnesia" => i < j

(***************************************************************************)
(* The variables that others refer to are defined before them: the three   *)
(* come first, whatever the override adds, as long as it does not change   *)
(* the order of the operator's variables and the rabbitmq container is the *)
(* first of the Pod (patchPodSpec sorts the variables of Containers[0]).   *)
(***************************************************************************)
EnvDefinedFirst ==
    AtRest /\ sts.template.first = "rabbitmq" /\ InOperatorOrder(spec.env) =>
        \A k \in 1..3 : sts.template.env[k] = EnvVars[k]

(***************************************************************************)
(* What the comment on sortEnvVar says of the rabbitmq container, without  *)
(* conditions: it "ensures that 'MY_POD_NAME', 'MY_POD_NAMESPACE' and      *)
(* 'K8S_SERVICE_NAME' envVars are defined first in the list".              *)
(***************************************************************************)
VariablesAlwaysFirst ==
    sts # None => \A k \in 1..3 : sts.template.env[k] \in {EnvVars[l] : l \in 1..3}

(***************************************************************************)
(* The memory that RabbitMQ is told of leaves headroom for the Erlang VM:  *)
(* the smaller of a fifth of the limit and 2 GiB, never all of the limit.  *)
(***************************************************************************)
HeadroomLeft ==
    AtRest /\ spec.memory > 0 =>
        LET headroom == spec.memory - conf.memory
        IN  /\ 5 * headroom <= spec.memory /\ headroom <= 2 * GiB
            /\ headroom = 2 * GiB \/ 5 * (headroom + 1) > spec.memory

(***************************************************************************)
(* A port that a NodePort or LoadBalancer Service keeps through an update  *)
(* keeps its node port: clients outside the cluster know it.               *)
(***************************************************************************)
NodePortsKept ==
    [][svc # None /\ svc' # None /\ svc.mode # "ClusterIP" /\ svc'.mode # "ClusterIP" =>
         \A p \in ToSet(svc.ports), q \in ToSet(svc'.ports) :
            p.name = q.name => p.np = q.np]_svc

(***************************************************************************)
(* The Service is never updated only to reorder its ports, although Go     *)
(* ranges over a map in a random order: otherwise each pass would cause    *)
(* the next.                                                               *)
(***************************************************************************)
NeverJustReordered ==
    [][svc # None /\ svc' # None =>
         svc'.mode # svc.mode \/ ToSet(svc'.ports) # ToSet(svc.ports)]_svc

(***************************************************************************)
(* Once the edits and failures end, the operator stops writing: no object  *)
(* is refused over and over, none is written again and again, although     *)
(* credentials and cookie are drawn anew on every pass.  A spec that       *)
(* reconcileTLS does not let through is tried again without writing; one   *)
(* on which patchPodSpec panics kills the operator again and again.        *)
(***************************************************************************)
Settles == <>[](PatchPanics(spec) \/ (at = 0 /\ (queued => ~TLSReady(spec))))

-----------------------------------------------------------------------------
(***************************************************************************)
(* What makes the invariants inductive: each object is one that a builder  *)
(* makes, and if nothing is queued, what the pass has gone through already *)
(* is rendered from the spec.                                              *)
(***************************************************************************)
PassOK ==
    /\ spec \in Specs /\ at \in 0..6 /\ queued \in BOOLEAN /\ left \in Nat
    /\ inst \in Specs \cup {None} /\ (at # 0 => inst # None)
    /\ at # 0 => inst.storage = spec.storage /\ inst.claims = spec.claims

\* A port of the user's own comes first, and has the number the user gave it.
SvcOK ==
    /\ alloc \in [Listener -> Nat]
    /\ svc # None =>
        /\ svc \in [mode: Modes, ports: Seq(PortRecord)]
        /\ \A p, q \in ToSet(svc.ports) : p.name = q.name => p = q
        /\ \A i \in DOMAIN svc.ports : svc.ports[i].name = Custom => i = 1
        /\ svc.mode # "ClusterIP" =>
              \A p \in ToSet(svc.ports) : p.np # 0 /\ (p.name = Custom => p.np = UserPort)

DrawnOK ==
    /\ random \in Nat /\ cookie \in 1..random \cup {None}
    /\ secret # None => secret.user \in 1..random /\ secret.ports \subseteq Listener

\* t is the template of s but for annotations of earlier specs.
TemplateOf(t, s) ==
    VaultFiles(s) \subseteq t.injected /\ t = [Templates[s] EXCEPT !.injected = t.injected]

BuiltOK ==
    /\ plugins # None => \E s \in Specs : plugins = DesiredPlugins(s)
    /\ sts # None => /\ \E s \in Specs : TemplateOf(sts.template, s)
                     /\ sts.claims = ClaimTemplates(spec)

\* Nothing is queued and the pass has got past builder i, or is over.
Past(i) == ~queued /\ (at > i \/ (at = 0 /\ TLSReady(spec)))

Rendered ==
    /\ ~queued /\ at # 0 => inst = spec /\ TLSReady(spec)
    /\ Past(1) => Names(svc.ports) \ {Custom} = ServicePorts[spec]
    /\ Past(3) /\ ~VaultDefaultUserSecretEnabled(spec) =>
            secret # None /\ secret.ports = SecretPorts(spec)
    /\ Past(4) => plugins = DesiredPlugins(spec)
    /\ Past(5) => conf = ServerConf(spec)
    /\ Past(6) => TemplateOf(sts.template, spec) /\ sts.claims = ClaimTemplates(spec)

IInv == PassOK /\ SvcOK /\ DrawnOK /\ BuiltOK /\ Rendered

=============================================================================
