--------------------------- MODULE MCChildObjects ---------------------------
(***************************************************************************)
(* Small instances of ChildObjects.  The specs are families around one     *)
(* default spec: TLS and plugins; volumes and Vault; overrides of the      *)
(* rabbitmq container; containers next to it; memory limits.               *)
(***************************************************************************)
EXTENDS ChildObjects

Default ==
    [secret |-> FALSE, ca |-> "none", vault |-> {}, disable |-> FALSE,
     plugins |-> {}, mode |-> "ClusterIP", port |-> FALSE, files |-> {},
     storage |-> 1, claims |-> {}, updater |-> FALSE, volumes |-> {},
     containers |-> <<>>, env |-> <<>>, mounts |-> <<>>,
     sidecar |-> [env |-> <<>>, mounts |-> <<>>], memory |-> 0]

PluginSets ==
    {{}, {"mqtt", "web_mqtt"}, {"stream"}, {"multi_dc", "stomp", "web_stomp"}, {"web_mqtt"}}

TLSSettings == {t \in BOOLEAN \X {"none", "same", "other"} \X {{}, {"tls"}} : t[1] \/ t[2] # "same"}

PortSpecs ==
    {[Default EXCEPT !.secret = t[1], !.ca = t[2], !.vault = t[3], !.disable = d,
                     !.plugins = p, !.mode = m[1], !.port = m[2]] :
        t \in TLSSettings, d \in BOOLEAN, p \in PluginSets,
        m \in {<<"ClusterIP", FALSE>>, <<"NodePort", FALSE>>, <<"LoadBalancer", TRUE>>}}

VolumeSpecs ==
    {[Default EXCEPT !.secret = t[1], !.ca = t[2], !.vault = v, !.updater = u] :
        t \in TLSSettings, v \in SUBSET {"tls", "user"}, u \in BOOLEAN}
FileSpecs ==
    {[Default EXCEPT !.files = f, !.storage = c[1], !.claims = c[2]] :
        f \in SUBSET {"rabbitmq-env.conf", "advanced.config"},
        c \in {<<0, {}>>, <<1, {}>>, <<1, {"persistence", "logs"}>>}}

UserEnv == {"MY_POD_NAME", "MY_POD_NAMESPACE", "K8S_SERVICE_NAME", "RABBITMQ_NODENAME", "A"}
UserMounts == {Mount("lib", "rabbitmq-erlang-cookie"), Mount("lib/mnesia", "persistence"),
               Mount("backup", "persistence"), Mount("log", "logs")}
Lists(S, n) == {l \in BoundedSeq(S, n) : \A i, j \in DOMAIN l : l[i] = l[j] => i = j}

Overridden == [Default EXCEPT !.containers = <<"rabbitmq">>]
EnvSpecs == {[Overridden EXCEPT !.env = e] : e \in Lists(UserEnv, 3)}
MountSpecs == {[Overridden EXCEPT !.mounts = m, !.volumes = {"logs"}] : m \in Lists(UserMounts, 3)}

\* The operator's sidecar, or one of the user's own with lists that may be too
\* short to be sorted, before or after rabbitmq.
Updater == "default-user-credential-updater"
ContainerSpecs ==
    {[Default EXCEPT !.containers = c, !.env = l[1], !.mounts = l[2], !.sidecar = x,
                     !.vault = {"user"}, !.updater = TRUE] :
        c \in {<<"sidecar", "rabbitmq">>, <<"rabbitmq", "sidecar">>, <<Updater, "rabbitmq">>},
        l \in {<<<<>>, <<>>>>, <<<<"A">>, <<>>>>, <<<<>>, <<Mount("lib/mnesia", "persistence")>>>>},
        x \in {[env |-> <<"K8S_SERVICE_NAME">>, mounts |-> <<>>],
               [env |-> <<"MY_POD_NAME">>, mounts |-> <<Mount("data", "persistence")>>]}}
MemorySpecs == {[Default EXCEPT !.memory = m] : m \in {0, 1, 4, 5, 19, 20, 24, 25}}

AllSpecs ==
    UNION {PortSpecs, VolumeSpecs, FileSpecs, EnvSpecs, MountSpecs, ContainerSpecs, MemorySpecs}

\* One event for each spec, two for some.
AllEvents ==
    LET Two == {Default, [Default EXCEPT !.mode = "NodePort"],
                [Default EXCEPT !.vault = {"tls", "user"}],
                [Default EXCEPT !.secret = TRUE, !.ca = "same", !.disable = TRUE]}
    IN  [s \in AllSpecs |-> IF s \in Two THEN 2 ELSE 1]

\* Clusters whose web plugins have TLS without a CA, and with one.
WebSpecs ==
    {[Default EXCEPT !.secret = TRUE, !.ca = c, !.disable = TRUE, !.plugins = {"web_mqtt", "web_stomp"}] :
        c \in {"none", "same"}}

\* An override that lists variables in an order of its own, and a sidecar before
\* rabbitmq.
OrderSpecs ==
    {[Overridden EXCEPT !.env = <<"K8S_SERVICE_NAME", "A", "MY_POD_NAME">>],
     [Default EXCEPT !.containers = <<"sidecar", "rabbitmq">>, !.env = <<"A">>]}

\* Storage is not edited, and no list is edited into one of the longest.
AllChanges ==
    LET Short == {s \in AllSpecs : Len(s.env) < 3 /\ Len(s.mounts) < 3}
    IN  UNION {{<<f, s[f]>> : s \in Short} : f \in DOMAIN Default \ {"storage", "claims"}}

\* Two orders in which Go may range over the map, one the reverse of the other.
TwoOrders ==
    LET P == <<"epmd", "amqp", "management", "prometheus", "custom", "mqtt",
               "web_mqtt", "stomp", "web_stomp", "stream">>
        o == [i \in 1..2 * Len(P) |->
                <<P[(i + 1) \div 2], IF i % 2 = 1 THEN "tcp" ELSE "ssl">>]
    IN  {o, Reverse(o)}

\* The values of the constants.
MCSpecs == AllSpecs
MCChanges == AllChanges
MCOrders == TwoOrders
MCEvents == AllEvents
MCWebSpecs == WebSpecs
MCWebEvents == [s \in WebSpecs |-> 1]
MCOrderSpecs == OrderSpecs
MCOrderEvents == [s \in OrderSpecs |-> 1]

=============================================================================
