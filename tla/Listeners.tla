------------------------------ MODULE Listeners ------------------------------
(***************************************************************************)
(* Which listeners the operator derives from a RabbitmqCluster spec, and   *)
(* in how many places: the server configuration, the ports of the Service, *)
(* the ports of the container and the ports in the default-user Secret are *)
(* each computed on their own.                                             *)
(*                                                                         *)
(* A listener is a protocol together with "tcp" or "ssl": <<"mqtt","ssl">> *)
(* is what the code calls "mqtts" or 8883.  A plugin has the name of the   *)
(* protocol it speaks, so "web_mqtt" is rabbitmq_web_mqtt; "multi_dc" is   *)
(* rabbitmq_multi_dc_replication.                                          *)
(***************************************************************************)
EXTENDS Integers

CONSTANT GiB        \* bytes in a GiB

ASSUME GiBAssumption == GiB \in Nat \ {0}

PluginNames == {"mqtt", "web_mqtt", "stomp", "web_stomp", "stream", "multi_dc"}
Protocols == {"epmd", "amqp", "management", "prometheus", "custom"}
                \cup (PluginNames \ {"multi_dc"})
Listener == Protocols \X {"tcp", "ssl"}

Tcp(P) == {<<p, "tcp">> : p \in P}
Ssl(P) == {<<p, "ssl">> : p \in P}

(***************************************************************************)
(* The methods of RabbitmqCluster that the builders ask.  s.secret: a TLS  *)
(* Secret is named; s.ca: the CA Secret is not named, is the TLS Secret or *)
(* is another one; s.vault: what comes from Vault; s.memory: memory limit. *)
(***************************************************************************)
SecretTLSEnabled(s) == s.secret
VaultTLSEnabled(s) == "tls" \in s.vault
VaultDefaultUserSecretEnabled(s) == "user" \in s.vault
TLSEnabled(s) == SecretTLSEnabled(s) \/ VaultTLSEnabled(s)
MutualTLSEnabled(s) == (SecretTLSEnabled(s) /\ s.ca # "none") \/ VaultTLSEnabled(s)
StreamNeeded(s) == s.plugins \cap {"stream", "multi_dc"} # {}

\* AdditionalPluginEnabled for each of P.
Enabled(s, P) == s.plugins \cap P
Stream(s) == IF StreamNeeded(s) THEN {"stream"} ELSE {}

-----------------------------------------------------------------------------
(* The server configuration. *)

\* Mutant: the headroom is the larger of the two.
LargerHeadroom(limit) ==
    IF limit \div 5 < 2 * GiB THEN limit - 2 * GiB ELSE limit - limit \div 5

removeHeadroom(limit) ==
    IF limit \div 5 > 2 * GiB THEN limit - 2 * GiB ELSE limit - limit \div 5

\* Mutant: the management listener is left to its default.
TLSKeysWithoutManagement(s) ==
    LET P == {"amqp", "prometheus"} \cup Enabled(s, {"mqtt", "stomp", "stream"})
    IN  {<<p, "ssl">> : p \in P} \cup
        (IF s.disable THEN {<<p, "tcp=none">> : p \in P \ {"prometheus"}}
                      ELSE {<<"prometheus", "tcp">>})

(***************************************************************************)
(* userDefinedConfiguration.conf: <<p,"ssl">> sets the TLS listener of p,  *)
(* <<p,"tcp">> the other one, <<p,"tcp=none">> turns the other one off.    *)
(***************************************************************************)
TLSKeys(s) ==
    LET P == {"amqp"} \cup Enabled(s, {"mqtt", "stomp", "stream"})
        M == {"management", "prometheus"}
    IN  {<<p, "ssl">> : p \in P \cup M} \cup
        (IF s.disable THEN {<<p, "tcp=none">> : p \in P}
                      ELSE {<<p, "tcp">> : p \in M})

MutualTLSKeys(s) ==
    LET P == Enabled(s, {"web_mqtt", "web_stomp"})
    IN  {<<p, "ssl">> : p \in P} \cup
        (IF s.disable THEN {<<p, "tcp=none">> : p \in P} ELSE {})

\* The certificate files that the configuration names.
CertFiles(s) ==
    (IF TLSEnabled(s) THEN {"tls.crt", "tls.key"} ELSE {}) \cup
    (IF MutualTLSEnabled(s) THEN {"ca.crt"} ELSE {})

\* ServerConfigMapBuilder.Update; files has the keys that updateProperty
\* keeps or deletes, memory is 0 if there is no limit.
ServerConf(s) ==
    [keys   |-> (IF TLSEnabled(s) THEN TLSKeys(s) ELSE {}) \cup
                (IF MutualTLSEnabled(s) THEN MutualTLSKeys(s) ELSE {}),
     certs  |-> CertFiles(s),
     files  |-> s.files,
     memory |-> IF s.memory = 0 THEN 0 ELSE removeHeadroom(s.memory)]

\* DesiredPlugins: the required plugins and the additional ones, once each.
DesiredPlugins(s) == {"management", "prometheus"} \cup s.plugins

\* RabbitMQ itself: the plugins that start because these need them.
Dependencies(plugins) ==
    (IF "multi_dc" \in plugins THEN {"stream"} ELSE {}) \cup
    (IF "web_mqtt" \in plugins THEN {"mqtt"} ELSE {}) \cup
    (IF "web_stomp" \in plugins THEN {"stomp"} ELSE {})

(***************************************************************************)
(* RabbitMQ itself: the listeners of a node with these plugins and this    *)
(* configuration.  A protocol's tcp listener is on by default; that of the *)
(* management and prometheus plugins is off when only ssl is configured.   *)
(***************************************************************************)
Served(plugins, keys) ==
    LET P == {"amqp"} \cup (plugins \ {"multi_dc"}) \cup Dependencies(plugins)
        Off(p) == IF p \in {"management", "prometheus"}
                  THEN <<p, "ssl">> \in keys /\ <<p, "tcp">> \notin keys
                  ELSE <<p, "tcp=none">> \in keys
    IN  {<<"epmd", "tcp">>} \cup Tcp({p \in P : ~Off(p)}) \cup
        Ssl({p \in P : <<p, "ssl">> \in keys})

-----------------------------------------------------------------------------
(* The Service, the container and the Secret. *)

\* Mutant: the TLS ports of the web plugins need TLS, not mutual TLS.
PortsMapWithoutMutual(s) ==
    (IF s.disable THEN {}
     ELSE Tcp({"amqp", "management"} \cup Stream(s) \cup
              Enabled(s, {"mqtt", "web_mqtt", "stomp", "web_stomp"}))) \cup
    (IF TLSEnabled(s)
     THEN Ssl({"amqp", "management", "prometheus"} \cup Stream(s) \cup
              Enabled(s, {"stomp", "mqtt", "web_stomp", "web_mqtt"}))
     ELSE Tcp({"prometheus"}))

generateServicePortsMap(s) ==
    (IF s.disable THEN {}
     ELSE Tcp({"amqp", "management"} \cup Stream(s) \cup
              Enabled(s, {"mqtt", "web_mqtt", "stomp", "web_stomp"}))) \cup
    (IF TLSEnabled(s)
     THEN Ssl({"amqp", "management", "prometheus"} \cup Stream(s) \cup
              Enabled(s, {"stomp", "mqtt"}))
     ELSE Tcp({"prometheus"})) \cup
    (IF MutualTLSEnabled(s) THEN Ssl(Enabled(s, {"web_stomp", "web_mqtt"})) ELSE {})

updateContainerPortsOnlyTLSListeners(s) ==
    Tcp({"epmd"}) \cup
    Ssl({"amqp", "management", "prometheus"} \cup Stream(s) \cup
        Enabled(s, {"mqtt", "stomp"})) \cup
    (IF MutualTLSEnabled(s) THEN Ssl(Enabled(s, {"web_mqtt", "web_stomp"})) ELSE {})

updateContainerPorts(s) ==
    IF s.disable THEN updateContainerPortsOnlyTLSListeners(s)
    ELSE Tcp({"epmd", "amqp", "management", "prometheus"} \cup Stream(s) \cup
             Enabled(s, {"mqtt", "web_mqtt", "stomp", "web_stomp"})) \cup
         (IF ~TLSEnabled(s) THEN {}
          ELSE Ssl({"amqp", "management", "prometheus"} \cup Stream(s) \cup
                   Enabled(s, {"mqtt", "stomp"})) \cup
               (IF MutualTLSEnabled(s)
                THEN Ssl(Enabled(s, {"web_mqtt", "web_stomp"})) ELSE {}))

\* Mutant: TLS is asked for the wrong way round.
SecretPortsSwapped(s) ==
    LET P == {"amqp"} \cup Enabled(s, PluginNames \ {"multi_dc"})
    IN  IF s.secret THEN Tcp(P) ELSE Ssl(P)

\* DefaultUserSecretBuilder.updatePorts: asks for the Secret, not for TLS.
SecretPorts(s) ==
    LET P == {"amqp"} \cup Enabled(s, PluginNames \ {"multi_dc"})
    IN  IF s.secret THEN Ssl(P) ELSE Tcp(P)

=============================================================================
