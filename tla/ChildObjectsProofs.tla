-------------------------- MODULE ChildObjectsProofs --------------------------
(***************************************************************************)
(* Proofs about the objects that the builders keep, for all specs and any  *)
(* number of edits, failures and losses.                                   *)
(***************************************************************************)
EXTENDS ChildObjects, PodTemplateProofs

LEMMA SpecFacts ==
    ASSUME NEW s \in Specs
    PROVE  /\ s.vault \subseteq {"tls", "user"} /\ s.plugins \subseteq PluginNames
           /\ s.mode \in Modes /\ s.files \subseteq ExtraFiles
           /\ s.storage \in Nat /\ s.memory \in Nat
           /\ s.env \in Seq(STRING) /\ IsInjective(s.env)
           /\ s.mounts \in Seq([path: STRING, name: STRING]) /\ DistinctPaths(s.mounts)
<1>1. s \in SpecFields
  BY SpecsAssumption
<1>2. /\ s.vault \subseteq {"tls", "user"} /\ s.plugins \subseteq PluginNames
      /\ s.mode \in Modes /\ s.files \subseteq ExtraFiles
      /\ s.storage \in Nat /\ s.memory \in Nat
      /\ s.env \in Seq(STRING) /\ s.mounts \in Seq([path: STRING, name: STRING])
  BY <1>1 DEF SpecFields, MountLists
<1>3. /\ IsInjective(s.env)
      /\ \A i, j \in DOMAIN s.mounts : s.mounts[i].path = s.mounts[j].path => i = j
  BY SpecsAssumption
<1>4. DOMAIN s.mounts = 1..Len(s.mounts)
  BY <1>2
<1>. QED  BY <1>2, <1>3, <1>4 DEF DistinctPaths

(***************************************************************************)
(* The steps of a pass.                                                    *)
(***************************************************************************)
LEMMA AfterStep ==
    ASSUME PassOK, at # 0
    PROVE  /\ After(at) \in 0..6 \ {1}
           /\ at = 6 <=> After(at) = 0
           /\ at = 5 => After(at) = 6
           /\ at = 4 => After(at) = 5
           /\ at = 3 => After(at) = 4
           /\ at = 2 => After(at) = IF VaultDefaultUserSecretEnabled(inst) THEN 4 ELSE 3
           /\ at = 1 => After(at) = 2
BY DEF PassOK, After, Builders

LEMMA FailKeeps ==
    ASSUME PassOK, Fail, UNCHANGED spec, left' \in Nat PROVE PassOK' /\ Rendered'
BY DEF PassOK, Fail, Rendered, Past

\* A builder that is done has rendered its object from inst.
BuilderDone ==
    /\ at = 1 => Names(svc'.ports) \ {Custom} = ServicePorts[inst]
    /\ at = 3 => secret' # None /\ secret'.ports = SecretPorts(inst)
    /\ at = 4 => plugins' = DesiredPlugins(inst)
    /\ at = 5 => conf' = ServerConf(inst)
    /\ at = 6 => TemplateOf(sts'.template, inst) /\ sts'.claims = ClaimTemplates(inst)

LEMMA ProceedKeeps ==
    ASSUME IInv, at # 0, Proceed, UNCHANGED <<spec, left>>, BuilderDone
    PROVE  PassOK' /\ Rendered'
<1>0. at \in 1..6 /\ at' = After(at) /\ PassOK
  BY DEF IInv, PassOK, Proceed
<1>1. PassOK'
  <2>1. queued' \in BOOLEAN
    BY DEF Proceed
  <2>2. at' \in 0..6 /\ (at' # 0 => inst' = inst) /\ (at' = 0 => inst' = None)
    BY <1>0, AfterStep DEF Proceed
  <2>. QED  BY <1>0, <2>1, <2>2 DEF PassOK
<1>2. ASSUME ~queued'
      PROVE  /\ ~queued /\ UNCHANGED <<svc, secret, plugins, conf, sts>>
             /\ inst = spec /\ TLSReady(spec)
  <2>1. ~queued /\ objects' = objects
    BY <1>2 DEF Proceed
  <2>2. inst = spec /\ TLSReady(spec)
    BY <1>0, <2>1 DEF IInv, Rendered
  <2>. QED  BY <2>1, <2>2 DEF objects
<1>3. ~queued' /\ at' # 0 => inst' = spec' /\ TLSReady(spec')
  BY <1>2 DEF Proceed
<1>4. Past(1)' => Names(svc'.ports) \ {Custom} = ServicePorts[spec']
  <2> SUFFICES ASSUME Past(1)'
               PROVE  Names(svc'.ports) \ {Custom} = ServicePorts[spec]
    OBVIOUS
  <2>1. ~queued'
    BY DEF Past
  <2>2. CASE at = 1
    BY <1>2, <2>1, <2>2 DEF BuilderDone
  <2>3. CASE at > 1
    BY <1>2, <2>1, <2>3 DEF IInv, Rendered, Past
  <2>. QED  BY <1>0, <2>2, <2>3
<1>5. Past(3)' /\ ~VaultDefaultUserSecretEnabled(spec') =>
          secret' # None /\ secret'.ports = SecretPorts(spec')
  <2> SUFFICES ASSUME Past(3)', ~VaultDefaultUserSecretEnabled(spec)
               PROVE  secret' # None /\ secret'.ports = SecretPorts(spec)
    OBVIOUS
  <2>1. ~queued'
    BY DEF Past
  <2>2. at' > 3 \/ at' = 0
    BY DEF Past
  <2>3. at = 3 \/ at > 3
    BY <1>0, <1>2, <2>1, <2>2, AfterStep
  <2>4. CASE at = 3
    BY <1>2, <2>1, <2>4 DEF BuilderDone
  <2>5. CASE at > 3
    BY <1>2, <2>1, <2>5 DEF IInv, Rendered, Past
  <2>. QED  BY <2>3, <2>4, <2>5
<1>6. Past(4)' => plugins' = DesiredPlugins(spec')
  <2> SUFFICES ASSUME Past(4)' PROVE plugins' = DesiredPlugins(spec)
    OBVIOUS
  <2>1. ~queued' /\ (at' > 4 \/ at' = 0)
    BY DEF Past
  <2>2. at = 4 \/ at > 4
    BY <1>0, <2>1, AfterStep
  <2>3. CASE at = 4
    BY <1>2, <2>1, <2>3 DEF BuilderDone
  <2>4. CASE at > 4
    BY <1>2, <2>1, <2>4 DEF IInv, Rendered, Past
  <2>. QED  BY <2>2, <2>3, <2>4
<1>7. Past(5)' => conf' = ServerConf(spec')
  <2> SUFFICES ASSUME Past(5)' PROVE conf' = ServerConf(spec)
    OBVIOUS
  <2>1. ~queued' /\ (at' > 5 \/ at' = 0)
    BY DEF Past
  <2>2. at = 5 \/ at > 5
    BY <1>0, <2>1, AfterStep
  <2>3. CASE at = 5
    BY <1>2, <2>1, <2>3 DEF BuilderDone
  <2>4. CASE at > 5
    BY <1>2, <2>1, <2>4 DEF IInv, Rendered, Past
  <2>. QED  BY <2>2, <2>3, <2>4
<1>8. Past(6)' => TemplateOf(sts'.template, spec') /\ sts'.claims = ClaimTemplates(spec')
  <2> SUFFICES ASSUME Past(6)'
               PROVE  TemplateOf(sts'.template, spec) /\ sts'.claims = ClaimTemplates(spec)
    BY DEF TemplateOf
  <2>1. ~queued' /\ (at' > 6 \/ at' = 0)
    BY DEF Past
  <2>2. at = 6
    BY <1>0, <2>1, AfterStep
  <2>. QED  BY <1>2, <2>1, <2>2 DEF BuilderDone
<1>. QED  BY <1>1, <1>3, <1>4, <1>5, <1>6, <1>7, <1>8 DEF Rendered

LEMMA InitIInv == Init => IInv
<1> SUFFICES ASSUME Init PROVE IInv
  OBVIOUS
<1>1. PassOK
  <2>1. spec \in Specs /\ at = 0 /\ queued = TRUE /\ inst = None /\ left \in Nat
    BY EventsAssumption DEF Init
  <2>. QED  BY <2>1 DEF PassOK
<1>2. SvcOK /\ DrawnOK /\ BuiltOK /\ Rendered
  BY DEF Init, SvcOK, DrawnOK, BuiltOK, Rendered, Past
<1>. QED  BY <1>1, <1>2 DEF IInv

\* What the objects are is kept by a step that leaves them alone.
LEMMA SameObjects ==
    ASSUME IInv, UNCHANGED <<objects, random>>, ClaimTemplates(spec') = ClaimTemplates(spec)
    PROVE  SvcOK' /\ DrawnOK' /\ BuiltOK'
<1>1. SvcOK'
  BY DEF IInv, SvcOK, objects
<1>2. DrawnOK'
  BY DEF IInv, DrawnOK, objects
<1>3. BuiltOK'
  BY DEF IInv, BuiltOK, objects, TemplateOf
<1>. QED  BY <1>1, <1>2, <1>3

LEMMA StartKeeps == ASSUME IInv, Start PROVE IInv'
<1>0. UNCHANGED <<spec, objects, random, left>>
  BY DEF Start
<1>1. SvcOK' /\ DrawnOK' /\ BuiltOK'
  BY <1>0, SameObjects
<1>2. CASE TLSReady(spec)
  <2>1. inst' = spec /\ at' = 1 /\ queued' = FALSE /\ spec' = spec
    BY <1>2 DEF Start
  <2>2. PassOK'
    <3>1. queued' \in BOOLEAN
      BY <2>1
    <3>2. spec \in Specs /\ at' \in 0..6 /\ spec # None /\ left' \in Nat
      BY <1>0, <2>1, NoneAssumption DEF IInv, PassOK
    <3>. QED  BY <2>1, <3>1, <3>2 DEF PassOK
  <2>3. Rendered'
    <3>1. ~Past(1)' /\ ~Past(3)' /\ ~Past(4)' /\ ~Past(5)' /\ ~Past(6)'
      BY <2>1 DEF Past
    <3>. QED  BY <1>2, <2>1, <3>1 DEF Rendered
  <2>. QED  BY <1>1, <2>2, <2>3 DEF IInv
<1>3. CASE ~TLSReady(spec)
  <2>1. at' = 0 /\ spec' = spec /\ inst' = inst
    BY <1>3 DEF Start
  <2>2. queued' \in BOOLEAN
    BY <1>3 DEF Start
  <2>3. PassOK'
    BY <1>0, <2>1, <2>2 DEF IInv, PassOK
  <2>4. Rendered'
    <3>1. ~Past(1)' /\ ~Past(3)' /\ ~Past(4)' /\ ~Past(5)' /\ ~Past(6)'
      BY <1>3, <2>1 DEF Past
    <3>. QED  BY <2>1, <3>1 DEF Rendered
  <2>. QED  BY <1>1, <2>3, <2>4 DEF IInv
<1>. QED  BY <1>2, <1>3

LEMMA CookieKeeps == ASSUME IInv, ApplyErlangCookie PROVE IInv'
<1>1. UNCHANGED <<spec, left, svc, alloc, secret, plugins, sts>> /\ at = 2 /\ Proceed
  BY DEF ApplyErlangCookie
<1>2. PassOK' /\ Rendered'
  BY <1>1, ProceedKeeps DEF BuilderDone
<1>3. DrawnOK'
  <2>0. /\ cookie' = IF cookie = None THEN random + 1 ELSE cookie
        /\ random' = IF cookie' = cookie THEN random ELSE random + 1
    BY DEF ApplyErlangCookie, KeepDrawn
  <2>1. /\ random \in Nat /\ cookie \in 1..random \cup {None}
        /\ secret # None => secret.user \in 1..random /\ secret.ports \subseteq Listener
    BY DEF IInv, DrawnOK
  <2>2. random' \in Nat /\ random' >= random /\ cookie' \in 1..random' \cup {None}
    BY <2>0, <2>1, NoneAssumption
  <2>3. secret # None => secret.user \in 1..random'
    BY <2>1, <2>2
  <2>. QED  BY <1>1, <2>1, <2>2, <2>3 DEF DrawnOK
<1>4. SvcOK' /\ BuiltOK'
  BY <1>1 DEF IInv, SvcOK, BuiltOK, TemplateOf
<1>. QED  BY <1>2, <1>3, <1>4 DEF IInv

LEMMA SecretPortsType ==
    ASSUME NEW s \in Specs PROVE SecretPorts(s) \subseteq Listener
<1>1. s.plugins \subseteq PluginNames
  BY SpecFacts
<1>. QED  BY <1>1 DEF SecretPorts, Listener, Protocols, Tcp, Ssl, Enabled

LEMMA SecretKeeps == ASSUME IInv, ApplyDefaultUserSecret PROVE IInv'
<1>1. UNCHANGED <<spec, left, svc, alloc, cookie, plugins, sts>> /\ at = 3 /\ Proceed
  BY DEF ApplyDefaultUserSecret
<1> DEFINE user == KeepDrawn(IF secret = None THEN None ELSE secret.user)
<1>2. /\ secret' = [user |-> user, ports |-> SecretPorts(inst)]
      /\ random' = IF user = random + 1 THEN random + 1 ELSE random
  BY DEF ApplyDefaultUserSecret
<1>3. /\ random \in Nat /\ cookie \in 1..random \cup {None}
      /\ secret # None => secret.user \in 1..random
      /\ inst \in Specs
  BY <1>1 DEF IInv, DrawnOK, PassOK
<1>4. user = IF secret = None THEN random + 1 ELSE secret.user
  BY <1>3, NoneAssumption DEF KeepDrawn
<1> HIDE DEF user
<1>5. user \in 1..random' /\ random' \in Nat /\ random' >= random
  BY <1>2, <1>3, <1>4
<1>6. secret'.user = user /\ secret'.ports = SecretPorts(inst)
  BY <1>2
<1>7. SecretPorts(inst) \subseteq Listener
  BY <1>3, SecretPortsType
<1>8. secret' # None
  <2>1. secret' \in Secrets
    BY <1>2, <1>5, <1>7 DEF Secrets
  <2>. QED  BY <2>1, NoneAssumption
<1>9. PassOK' /\ Rendered'
  BY <1>1, <1>6, <1>8, ProceedKeeps DEF BuilderDone
<1>10. DrawnOK'
  <2>1. cookie' \in 1..random' \cup {None}
    BY <1>1, <1>3, <1>5
  <2>. QED  BY <1>5, <1>6, <1>7, <2>1 DEF DrawnOK
<1>11. SvcOK' /\ BuiltOK'
  BY <1>1 DEF IInv, SvcOK, BuiltOK, TemplateOf
<1>. QED  BY <1>9, <1>10, <1>11 DEF IInv

LEMMA ConfigMapsKeep == ASSUME IInv, ApplyPlugins \/ ApplyServerConf PROVE IInv'
<1>1. UNCHANGED <<spec, left, svc, alloc, cookie, secret, sts, random>> /\ at # 0 /\ Proceed
  BY DEF ApplyPlugins, ApplyServerConf
<1>2. \/ at = 4 /\ plugins' = DesiredPlugins(inst)
      \/ at = 5 /\ conf' = ServerConf(inst) /\ plugins' = plugins
  BY DEF ApplyPlugins, ApplyServerConf
<1>3. PassOK' /\ Rendered'
  BY <1>1, <1>2, ProceedKeeps DEF BuilderDone
<1>4. SvcOK' /\ DrawnOK'
  BY <1>1 DEF IInv, SvcOK, DrawnOK
<1>5. BuiltOK'
  <2>1. inst \in Specs
    BY <1>1 DEF IInv, PassOK
  <2>. QED  BY <1>1, <1>2, <2>1 DEF IInv, BuiltOK, TemplateOf
<1>. QED  BY <1>3, <1>4, <1>5 DEF IInv

\* The fields of a template that its annotations do not touch.
LEMMA TemplateFields ==
    ASSUME NEW s \in Specs, NEW t, TemplateOf(t, s)
    PROVE  /\ VaultFiles(s) \subseteq t.injected
           /\ t.first = FirstContainer(s)
           /\ t.ports = updateContainerPorts(s) /\ t.probe = ReadinessProbePort(s)
           /\ t.volumes = Volumes(s) \cup s.volumes /\ t.tls = TLSVolumeFiles(s)
           /\ t.mounts = PatchedMounts(s) /\ t.setup = SetupVolumes(s)
           /\ t.updater = IF HasUpdater(s)
                          THEN [port |-> {UpdaterPort(s)}, volumes |-> UpdaterVolumes(s)]
                          ELSE [port |-> {}, volumes |-> {}]
           /\ t.env = PatchedEnv(s)
BY DEF TemplateOf, Templates, podTemplateSpec

LEMMA StatefulSetKeeps == ASSUME IInv, ApplyStatefulSet PROVE IInv'
<1>1. UNCHANGED <<spec, random, left, svc, alloc, cookie, secret, plugins, conf>> /\ at = 6
  BY DEF ApplyStatefulSet, objects
<1>2. inst \in Specs /\ ClaimTemplates(inst) = ClaimTemplates(spec) /\ PassOK
  BY <1>1 DEF IInv, PassOK, ClaimTemplates
<1>3. SvcOK' /\ DrawnOK'
  BY <1>1 DEF IInv, SvcOK, DrawnOK
<1>4. CASE Fail /\ UNCHANGED sts
  <2>1. PassOK' /\ Rendered'
    BY <1>1, <1>2, <1>4, FailKeeps DEF PassOK
  <2>2. BuiltOK'
    BY <1>1, <1>4 DEF IInv, BuiltOK, TemplateOf
  <2>. QED  BY <1>3, <2>1, <2>2 DEF IInv
<1>5. ASSUME Proceed, NEW injected, NEW claims, sts = None \/ claims = sts.claims,
             sts = None => claims = ClaimTemplates(inst),
             sts' = [template |-> [Templates[inst] EXCEPT !.injected = injected \cup @],
                     claims |-> claims]
      PROVE  IInv'
  <2>1. claims = ClaimTemplates(spec)
    BY <1>2, <1>5 DEF IInv, BuiltOK
  <2> DEFINE t == sts'.template
  <2>2. t = [Templates[inst] EXCEPT !.injected = injected \cup @] /\ sts'.claims = claims
    BY <1>5
  <2>3. TemplateOf(t, inst)
    <3> HIDE DEF t
    <3>. QED  BY <1>2, <2>2 DEF TemplateOf, Templates, podTemplateSpec
  <2>4. PassOK' /\ Rendered'
    BY <1>1, <1>2, <1>5, <2>1, <2>2, <2>3, ProceedKeeps DEF BuilderDone
  <2>5. BuiltOK'
    <3>1. \E s \in Specs : TemplateOf(sts'.template, s)
      BY <1>2, <2>3
    <3>2. plugins' # None => \E s \in Specs : plugins' = DesiredPlugins(s)
      BY <1>1 DEF IInv, BuiltOK
    <3>. QED  BY <1>1, <2>1, <2>2, <3>1, <3>2 DEF BuiltOK, TemplateOf
  <2>. QED  BY <1>3, <2>4, <2>5 DEF IInv
<1> DEFINE injected == IF sts = None THEN {} ELSE sts.template.injected
           claims == IF sts = None \/ (inst.claims # {} /\ inst.storage # 0)
                     THEN ClaimTemplates(inst) ELSE sts.claims
<1>6. \/ UNCHANGED objects /\ Fail
      \/ /\ ~(sts # None /\ claims # sts.claims) /\ Proceed
         /\ sts' = [template |-> [Templates[inst] EXCEPT !.injected = injected \cup @],
                    claims |-> claims]
  BY DEF ApplyStatefulSet
<1>7. sts = None => claims = ClaimTemplates(inst)
  OBVIOUS
<1> HIDE DEF injected, claims
<1>. QED  BY <1>4, <1>5, <1>6, <1>7 DEF objects

LEMMA EditKeeps == ASSUME IInv, Edit PROVE IInv'
<1>1. UNCHANGED <<inst, at, objects, random>> /\ queued' = TRUE /\ left > 0 /\ left' = left - 1
  BY DEF Edit
<1>2. PICK c \in Changes :
         [spec EXCEPT ![c[1]] = c[2]] \in Specs /\ spec' = [spec EXCEPT ![c[1]] = c[2]]
  BY DEF Edit
<1>3. spec \in SpecFields /\ c[1] # "storage" /\ c[1] # "claims"
  BY SpecsAssumption, ChangesAssumption DEF IInv, PassOK
<1>4. spec'.storage = spec.storage /\ spec'.claims = spec.claims
  <2> DEFINE f == c[1]
  <2>1. f # "storage" /\ f # "claims" /\ spec' = [spec EXCEPT ![f] = c[2]]
    BY <1>2, <1>3
  <2> HIDE DEF f
  <2>. QED  BY <1>3, <2>1 DEF SpecFields
<1>5. ClaimTemplates(spec') = ClaimTemplates(spec)
  BY <1>4 DEF ClaimTemplates
<1>6. SvcOK' /\ DrawnOK' /\ BuiltOK'
  BY <1>1, <1>5, SameObjects
<1>7. PassOK'
  <2>1. spec' \in Specs /\ left' \in Nat /\ queued' \in BOOLEAN
    BY <1>1, <1>2 DEF IInv, PassOK
  <2>. QED  BY <1>1, <1>4, <2>1 DEF IInv, PassOK
<1>8. Rendered'
  BY <1>1 DEF Rendered, Past
<1>. QED  BY <1>6, <1>7, <1>8 DEF IInv

LEMMA LoseKeeps == ASSUME IInv, Lose PROVE IInv'
<1>1. queued' = TRUE /\ UNCHANGED <<spec, inst, at, random, alloc>> /\ left > 0 /\ left' = left - 1
  BY DEF Lose
<1>2. /\ svc' = None \/ svc' = svc
      /\ cookie' = None \/ cookie' = cookie
      /\ secret' = None \/ secret' = secret
      /\ plugins' = None \/ plugins' = plugins
      /\ sts' = None \/ sts' = sts
  BY DEF Lose
<1>3. PassOK'
  <2>1. left' \in Nat /\ queued' \in BOOLEAN
    BY <1>1 DEF IInv, PassOK
  <2>. QED  BY <1>1, <2>1 DEF IInv, PassOK
<1>4. SvcOK'
  BY <1>1, <1>2 DEF IInv, SvcOK
<1>5. DrawnOK'
  BY <1>1, <1>2 DEF IInv, DrawnOK
<1>6. BuiltOK'
  BY <1>1, <1>2 DEF IInv, BuiltOK, TemplateOf
<1>7. Rendered'
  BY <1>1 DEF Rendered, Past
<1>. QED  BY <1>3, <1>4, <1>5, <1>6, <1>7 DEF IInv

LEMMA StepFailsKeeps == ASSUME IInv, StepFails PROVE IInv'
<1>1. UNCHANGED <<spec, objects, random>> /\ Fail /\ left' \in Nat /\ PassOK
  BY DEF StepFails, IInv, PassOK
<1>2. SvcOK' /\ DrawnOK' /\ BuiltOK'
  BY <1>1, SameObjects
<1>. QED  BY <1>1, <1>2, FailKeeps DEF IInv

LEMMA StutterKeeps == ASSUME IInv, UNCHANGED vars PROVE IInv'
<1>1. SvcOK' /\ DrawnOK' /\ BuiltOK'
  BY SameObjects DEF vars
<1>2. PassOK' /\ Rendered'
  BY DEF IInv, PassOK, Rendered, Past, TemplateOf, vars, objects
<1>. QED  BY <1>1, <1>2 DEF IInv

-----------------------------------------------------------------------------
(* The Service. *)

\* A list of ports, no two with the same name.
PortList(ports) ==
    ports \in Seq(PortRecord) /\ \A p, q \in ToSet(ports) : p.name = q.name => p = q

\* The ports that the update finds.
Found == IF svc = None THEN <<>> ELSE svc.ports

LEMMA FoundPorts ==
    ASSUME SvcOK
    PROVE  PortList(Found) /\ \A i \in DOMAIN Found : Found[i].name = Custom => i = 1
<1>1. CASE svc = None
  BY <1>1 DEF Found, PortList, ToSet
<1>2. CASE svc # None
  BY <1>2 DEF Found, PortList, SvcOK
<1>. QED  BY <1>1, <1>2

LEMMA PortsMapType ==
    ASSUME NEW s \in Specs
    PROVE  /\ ServicePorts[s] = generateServicePortsMap(s)
           /\ ServicePorts[s] \subseteq Listener /\ Custom \notin ServicePorts[s]
<1>1. s.plugins \subseteq PluginNames
  BY SpecFacts
<1>2. ServicePorts[s] = generateServicePortsMap(s)
  BY DEF ServicePorts
<1> DEFINE P == {"amqp", "management", "prometheus"} \cup Stream(s) \cup
                Enabled(s, {"mqtt", "web_mqtt", "stomp", "web_stomp"})
<1>3. P \subseteq Protocols /\ "custom" \notin P
  BY <1>1 DEF Stream, Enabled, Protocols, PluginNames
<1>4. generateServicePortsMap(s) \subseteq Tcp(P) \cup Ssl(P)
  BY DEF generateServicePortsMap, Tcp, Ssl, Enabled
<1> HIDE DEF P
<1>5. Tcp(P) \cup Ssl(P) \subseteq Listener /\ Custom \notin Tcp(P) \cup Ssl(P)
  BY <1>3 DEF Tcp, Ssl, Listener, Custom
<1>. QED  BY <1>2, <1>4, <1>5

LEMMA MappedList ==
    ASSUME NEW S, NEW l \in Seq(S), NEW T, NEW g,
           g = [i \in DOMAIN l |-> g[i]], \A i \in 1..Len(l) : g[i] \in T
    PROVE  g \in Seq(T) /\ Len(g) = Len(l) /\ DOMAIN g = 1..Len(l)
<1>1. Len(l) \in Nat /\ DOMAIN l = 1..Len(l)
  OBVIOUS
<1> DEFINE n == Len(l)
<1>2. g = [i \in 1..n |-> g[i]]
  BY <1>1
<1>3. \A i \in 1..n : g[i] \in T
  OBVIOUS
<1> HIDE DEF n
<1>4. g \in [1..n -> T] /\ DOMAIN g = 1..n
  BY <1>2, <1>3
<1>5. n \in Nat
  BY <1>1 DEF n
<1>6. g \in Seq(T)
  BY <1>4, <1>5, SeqDef
<1>7. Len(g) = n
  BY <1>4, <1>5, <1>6
<1>. QED  BY <1>4, <1>6, <1>7 DEF n

LEMMA ConcatElements ==
    ASSUME NEW S, NEW l \in Seq(S), NEW r \in Seq(S)
    PROVE  l \o r \in Seq(S) /\ ToSet(l \o r) = ToSet(l) \cup ToSet(r)
<1> DEFINE c == l \o r
           m == Len(l)
           n == Len(r)
<1>1. /\ c \in Seq(S) /\ m \in Nat /\ n \in Nat /\ Len(c) = m + n
      /\ DOMAIN l = 1..m /\ DOMAIN r = 1..n /\ DOMAIN c = 1..m + n
  OBVIOUS
<1>2. \A i \in 1..m : c[i] = l[i]
  OBVIOUS
<1>3. \A i \in 1..n : c[m + i] = r[i]
  OBVIOUS
<1> HIDE DEF c, m, n
<1>4. \A i \in 1..m + n : i \in 1..m \/ (i - m \in 1..n /\ m + (i - m) = i)
  BY <1>1
<1>5. (\A i \in 1..m : i \in 1..m + n) /\ (\A i \in 1..n : m + i \in 1..m + n)
  BY <1>1
<1>6. ASSUME NEW x \in ToSet(c) PROVE x \in ToSet(l) \cup ToSet(r)
  <2>1. PICK i \in 1..m + n : x = c[i]
    BY <1>1, <1>6 DEF ToSet
  <2>2. CASE i \in 1..m
    BY <1>1, <1>2, <2>1, <2>2 DEF ToSet
  <2>3. CASE i - m \in 1..n /\ m + (i - m) = i
    <3>1. x = r[i - m]
      BY <1>3, <2>1, <2>3
    <3>. QED  BY <1>1, <2>3, <3>1 DEF ToSet
  <2>. QED  BY <1>4, <2>2, <2>3
<1>7. ASSUME NEW x \in ToSet(l) PROVE x \in ToSet(c)
  BY <1>1, <1>2, <1>5, <1>7 DEF ToSet
<1>8. ASSUME NEW x \in ToSet(r) PROVE x \in ToSet(c)
  BY <1>1, <1>3, <1>5, <1>8 DEF ToSet
<1>. QED  BY <1>1, <1>6, <1>7, <1>8 DEF c

\* updatePorts: the ports that stay, as they are, and the new ones without a
\* node port; each port of the map once.
Updated(ports, M, found) ==
    /\ PortList(ports) /\ Names(ports) = M
    /\ \A p \in ToSet(ports) : p \in ToSet(found) \/ (p.name \notin Names(found) /\ p.np = 0)

LEMMA UpdatedPorts ==
    ASSUME NEW s \in Specs, NEW order \in Orders, NEW found, PortList(found)
    PROVE  Updated(updatePorts(found, s, order), ServicePorts[s], found)
<1> DEFINE M == ServicePorts[s]
           F == {p \in ToSet(found) : p.name \in M}
           G == M \ Names(found)
           old == Filter(found, F)
           new == Filter(order, G)
           added == [i \in DOMAIN new |-> [name |-> new[i], np |-> 0]]
           ports == old \o added
<1>1. M \subseteq Listener
  BY PortsMapType
<1>2. updatePorts(found, s, order) = ports
  BY DEF updatePorts
<1>3. found \in Seq(PortRecord) /\ \A p, q \in ToSet(found) : p.name = q.name => p = q
  BY DEF PortList
<1>4. order \in Seq(Listener) /\ ToSet(order) = Listener
  BY OrdersAssumption
<1> HIDE DEF M
<1>5. old \in Seq(PortRecord) /\ ToSet(old) = ToSet(found) \cap F
  <2> HIDE DEF F
  <2>. QED  BY <1>3, FilterElements
<1>6. new \in Seq(Listener) /\ ToSet(new) = ToSet(order) \cap G
  <2> HIDE DEF G
  <2>. QED  BY <1>4, FilterElements
<1>7. ToSet(old) = F /\ ToSet(new) = G
  BY <1>1, <1>4, <1>5, <1>6
<1> HIDE DEF old, new
<1>8. added \in Seq(PortRecord) /\ Len(added) = Len(new) /\ DOMAIN added = 1..Len(new)
  <2>1. added = [i \in DOMAIN new |-> added[i]]
    OBVIOUS
  <2>2. \A i \in 1..Len(new) : added[i] \in PortRecord
    BY <1>6 DEF PortRecord
  <2> HIDE DEF added
  <2>. QED  BY <1>6, <2>1, <2>2, MappedList
<1>9. ToSet(added) = {[name |-> l, np |-> 0] : l \in G}
  <2>1. DOMAIN new = 1..Len(new)
    BY <1>6
  <2>2. \A i \in 1..Len(new) : added[i] = [name |-> new[i], np |-> 0]
    BY <2>1
  <2>3. G = {new[i] : i \in 1..Len(new)}
    BY <1>7, <2>1 DEF ToSet
  <2> HIDE DEF added, G
  <2>. QED  BY <1>8, <2>2, <2>3 DEF ToSet
<1> HIDE DEF added
<1>10. ports \in Seq(PortRecord) /\ ToSet(ports) = ToSet(old) \cup ToSet(added)
  BY <1>5, <1>8, ConcatElements
<1> HIDE DEF ports
<1>11. ToSet(ports) = F \cup {[name |-> l, np |-> 0] : l \in G}
  BY <1>7, <1>9, <1>10
<1>12. \A p \in ToSet(found) : p.name \in Names(found)
  BY DEF ToSet, Names
<1>13. \A p, q \in ToSet(ports) : p.name = q.name => p = q
  BY <1>3, <1>11, <1>12
<1>14. Names(ports) = M
  <2>1. Names(ports) = {p.name : p \in ToSet(ports)}
    BY <1>10 DEF Names, ToSet
  <2>2. \A l \in Names(found) : \E p \in ToSet(found) : p.name = l
    BY DEF Names, ToSet
  <2>3. ASSUME NEW l \in Names(ports) PROVE l \in M
    BY <1>11, <2>1, <2>3
  <2>4. ASSUME NEW l \in M PROVE l \in Names(ports)
    <3>1. CASE l \in Names(found)
      BY <1>11, <2>1, <2>2, <2>4, <3>1
    <3>2. CASE l \notin Names(found)
      <4>1. [name |-> l, np |-> 0] \in ToSet(ports) /\ [name |-> l, np |-> 0].name = l
        BY <1>11, <2>4, <3>2
      <4>. QED  BY <2>1, <4>1
    <3>. QED  BY <3>1, <3>2
  <2>. QED  BY <2>3, <2>4
<1>15. \A p \in ToSet(ports) : p \in ToSet(found) \/ (p.name \notin Names(found) /\ p.np = 0)
  BY <1>11
<1>. QED  BY <1>2, <1>10, <1>13, <1>14, <1>15 DEF Updated, PortList, M

LEMMA SeqNames ==
    ASSUME NEW S, NEW ports \in Seq(S)
    PROVE  /\ Len(ports) \in Nat /\ DOMAIN ports = 1..Len(ports)
           /\ \A i \in 1..Len(ports) : ports[i] \in ToSet(ports) /\ ports[i].name \in Names(ports)
           /\ \A p \in ToSet(ports) : p.name \in Names(ports)
           /\ \A p \in ToSet(ports) : \E i \in 1..Len(ports) : p = ports[i]
BY DEF ToSet, Names

LEMMA ResetPorts ==
    ASSUME NEW s \in Specs, NEW ports, PortList(ports)
    PROVE  /\ PortList(ResetNodePorts(ports, s))
           /\ Len(ResetNodePorts(ports, s)) = Len(ports)
           /\ \A i \in 1..Len(ports) : ResetNodePorts(ports, s)[i].name = ports[i].name
           /\ s.mode = "ClusterIP" => \A p \in ToSet(ResetNodePorts(ports, s)) : p.np = 0
           /\ s.mode # "ClusterIP" => ResetNodePorts(ports, s) = ports
<1>1. CASE s.mode # "ClusterIP"
  BY <1>1 DEF ResetNodePorts
<1>2. CASE s.mode = "ClusterIP"
  <2> DEFINE r == [i \in DOMAIN ports |-> [ports[i] EXCEPT !.np = 0]]
  <2>1. ResetNodePorts(ports, s) = r
    BY <1>2 DEF ResetNodePorts
  <2>2. ports \in Seq(PortRecord)
    BY DEF PortList
  <2>3. DOMAIN ports = 1..Len(ports) /\ \A i \in 1..Len(ports) : ports[i] \in PortRecord
    BY <2>2
  <2>4. \A i \in 1..Len(ports) : r[i] = [ports[i] EXCEPT !.np = 0]
    BY <2>3
  <2>5. \A i \in 1..Len(ports) :
           r[i] \in PortRecord /\ r[i].name = ports[i].name /\ r[i].np = 0
    BY <2>3, <2>4 DEF PortRecord
  <2>6. r = [i \in DOMAIN ports |-> r[i]]
    OBVIOUS
  <2> HIDE DEF r
  <2>7. r \in Seq(PortRecord) /\ Len(r) = Len(ports) /\ DOMAIN r = 1..Len(ports)
    BY <2>2, <2>5, <2>6, MappedList
  <2>8. \A p \in ToSet(r) : p \in PortRecord /\ p.np = 0
    BY <2>5, <2>7 DEF ToSet
  <2>9. \A p, q \in ToSet(r) : p.name = q.name => p = q
    BY <2>8 DEF PortRecord
  <2>. QED  BY <1>2, <2>1, <2>5, <2>7, <2>8, <2>9 DEF PortList
<1>. QED  BY <1>1, <1>2

\* The ports that are sent: those of the update, after that of the user.
Sent(new, ports, s) ==
    /\ PortList(new)
    /\ s.port => /\ Len(new) = Len(ports) + 1
                 /\ new[1].name = Custom
                 /\ \A i \in 1..Len(ports) : new[i + 1].name = ports[i].name
    /\ ~s.port => /\ Len(new) = Len(ports)
                  /\ \A i \in 1..Len(ports) : new[i].name = ports[i].name
    /\ s.mode = "ClusterIP" => \A p \in ToSet(new) : p.np = 0
    /\ s.mode # "ClusterIP" => \A p \in ToSet(new) :
            p \in ToSet(ports) \/ (p.name = Custom /\ p.np = UserPort)

LEMMA SentPorts ==
    ASSUME NEW s \in Specs, NEW ports, PortList(ports), Custom \notin Names(ports)
    PROVE  Sent(applySvcOverride(ResetNodePorts(ports, s), s), ports, s)
<1> DEFINE r == ResetNodePorts(ports, s)
<1>1. /\ PortList(r) /\ Len(r) = Len(ports)
      /\ \A i \in 1..Len(ports) : r[i].name = ports[i].name
      /\ s.mode = "ClusterIP" => \A p \in ToSet(r) : p.np = 0
      /\ s.mode # "ClusterIP" => r = ports
  BY ResetPorts
<1> HIDE DEF r
<1>2. CASE ~s.port
  <2>1. applySvcOverride(r, s) = r
    BY <1>2 DEF applySvcOverride
  <2>. QED  BY <1>1, <1>2, <2>1 DEF Sent, r
<1>3. CASE s.port
  <2> DEFINE own == [name |-> Custom, np |-> IF s.mode = "ClusterIP" THEN 0 ELSE UserPort]
             new == <<own>> \o r
             n == Len(ports)
  <2>1. applySvcOverride(r, s) = new
    BY <1>3 DEF applySvcOverride
  <2>2. /\ own \in PortRecord /\ own.name = Custom
        /\ own.np = IF s.mode = "ClusterIP" THEN 0 ELSE UserPort
    BY DEF PortRecord, Custom, Listener, Protocols
  <2>3. r \in Seq(PortRecord) /\ \A p, q \in ToSet(r) : p.name = q.name => p = q
    BY <1>1 DEF PortList
  <2>4. ports \in Seq(PortRecord)
    BY DEF PortList
  <2> HIDE DEF own
  <2>5. <<own>> \in Seq(PortRecord) /\ ToSet(<<own>>) = {own}
    BY <2>2 DEF ToSet
  <2>6. new \in Seq(PortRecord) /\ ToSet(new) = {own} \cup ToSet(r)
    <3> DEFINE one == <<own>>
    <3>1. one \in Seq(PortRecord) /\ ToSet(one) = {own}
      BY <2>5
    <3> HIDE DEF one
    <3>2. one \o r \in Seq(PortRecord) /\ ToSet(one \o r) = ToSet(one) \cup ToSet(r)
      BY <2>3, <3>1, ConcatElements
    <3>. QED  BY <3>1, <3>2 DEF one
  <2>7. n \in Nat /\ Len(r) = n
    BY <1>1, <2>4
  <2>8. Len(new) = n + 1 /\ new[1] = own
    BY <2>2, <2>3, <2>7
  <2>9. \A i \in 1..n : new[i + 1] = r[i]
    BY <2>2, <2>3, <2>7
  <2> HIDE DEF new, n
  <2>10. \A p \in ToSet(r) : p.name # Custom
    <3> SUFFICES ASSUME NEW p \in ToSet(r) PROVE p.name # Custom
      OBVIOUS
    <3>1. PICK i \in 1..n : p = r[i]
      BY <2>3, <2>7 DEF ToSet
    <3>2. r[i].name = ports[i].name /\ ports[i].name \in Names(ports)
      BY <1>1, <2>4, SeqNames DEF n
    <3>. QED  BY <3>1, <3>2
  <2>11. PortList(new)
    BY <2>2, <2>3, <2>6, <2>10 DEF PortList
  <2>12. \A i \in 1..n : new[i + 1].name = ports[i].name
    BY <1>1, <2>9 DEF n
  <2>13. s.mode = "ClusterIP" => \A p \in ToSet(new) : p.np = 0
    BY <1>1, <2>2, <2>6
  <2>14. s.mode # "ClusterIP" => \A p \in ToSet(new) :
            p \in ToSet(ports) \/ (p.name = Custom /\ p.np = UserPort)
    BY <1>1, <2>2, <2>6
  <2>. QED  BY <1>3, <2>1, <2>2, <2>8, <2>11, <2>12, <2>13, <2>14 DEF Sent, r, n
<1>. QED  BY <1>2, <1>3

\* The API server leaves names and places alone, and node ports that are there.
Stored(ports, new, mode) ==
    /\ PortList(ports) /\ Len(ports) = Len(new)
    /\ \A i \in 1..Len(new) : ports[i].name = new[i].name
    /\ \A i \in 1..Len(new) : mode = "ClusterIP" \/ new[i].np # 0 => ports[i] = new[i]
    /\ mode # "ClusterIP" => \A i \in 1..Len(new) : ports[i].np # 0

LEMMA StoredPorts ==
    ASSUME SvcOK, NEW new, new.mode \in Modes, PortList(new.ports), Allocate(new),
           new = [mode |-> new.mode, ports |-> new.ports]
    PROVE  /\ alloc' \in [Listener -> Nat]
           /\ svc' = [mode |-> new.mode, ports |-> svc'.ports]
           /\ Stored(svc'.ports, new.ports, new.mode)
<1> DEFINE needs(p) == new.mode # "ClusterIP" /\ p.np = 0
           given(p) == IF needs(p) THEN [p EXCEPT !.np = alloc[p.name] + 1] ELSE p
           l == new.ports
           r == [i \in DOMAIN l |-> given(l[i])]
<1>1. alloc \in [Listener -> Nat]
  BY DEF SvcOK
<1>2. alloc' \in [Listener -> Nat]
  BY <1>1 DEF Allocate
<1>3. svc' = [mode |-> new.mode, ports |-> r]
  BY DEF Allocate
<1>4. l \in Seq(PortRecord) /\ \A p, q \in ToSet(l) : p.name = q.name => p = q
  BY DEF PortList
<1>5. /\ Len(l) \in Nat /\ DOMAIN l = 1..Len(l)
      /\ \A i \in 1..Len(l) : l[i] \in PortRecord /\ l[i] \in ToSet(l)
  BY <1>4 DEF ToSet
<1>6. \A p \in PortRecord :
         /\ given(p) \in PortRecord /\ given(p).name = p.name
         /\ new.mode = "ClusterIP" \/ p.np # 0 => given(p) = p
         /\ new.mode # "ClusterIP" => given(p).np # 0
  <2> SUFFICES ASSUME NEW p \in PortRecord
               PROVE  /\ given(p) \in PortRecord /\ given(p).name = p.name
                      /\ new.mode = "ClusterIP" \/ p.np # 0 => given(p) = p
                      /\ new.mode # "ClusterIP" => given(p).np # 0
    OBVIOUS
  <2>1. p.name \in Listener /\ alloc[p.name] \in Nat
    BY <1>1 DEF PortRecord
  <2>2. CASE needs(p)
    <3>1. given(p) = [p EXCEPT !.np = alloc[p.name] + 1]
      BY <2>2
    <3>2. /\ given(p) \in PortRecord /\ given(p).name = p.name
          /\ given(p).np = alloc[p.name] + 1
      BY <2>1, <3>1 DEF PortRecord
    <3> HIDE DEF given
    <3>. QED  BY <2>1, <2>2, <3>2
  <2>3. CASE ~needs(p)
    BY <2>3
  <2>. QED  BY <2>2, <2>3
<1>7. \A i \in 1..Len(l) : r[i] = given(l[i])
  BY <1>5
<1>8. r = [i \in DOMAIN l |-> r[i]]
  OBVIOUS
<1> HIDE DEF given, r, l
<1>9. r \in Seq(PortRecord) /\ Len(r) = Len(l) /\ DOMAIN r = 1..Len(l)
  BY <1>4, <1>5, <1>6, <1>7, <1>8, MappedList
<1>10. \A p, q \in ToSet(r) : p.name = q.name => p = q
  <2> SUFFICES ASSUME NEW i \in 1..Len(l), NEW j \in 1..Len(l), r[i].name = r[j].name
               PROVE  r[i] = r[j]
    BY <1>9 DEF ToSet
  <2>1. l[i] = l[j]
    BY <1>4, <1>5, <1>6, <1>7
  <2>. QED  BY <1>7, <2>1
<1>11. Stored(r, l, new.mode)
  BY <1>5, <1>6, <1>7, <1>9, <1>10 DEF Stored, PortList
<1>12. svc'.ports = r
  BY <1>3
<1>. QED  BY <1>2, <1>3, <1>11, <1>12 DEF l

\* What an update of the Service writes.
Written(order, ports, sent) ==
    /\ order \in Orders /\ ports = updatePorts(Found, inst, order)
    /\ Updated(ports, ServicePorts[inst], Found)
    /\ Sent(sent, ports, inst)
    /\ svc' = [mode |-> inst.mode, ports |-> svc'.ports]
    /\ Stored(svc'.ports, sent, inst.mode)

LEMMA ServiceStep ==
    ASSUME IInv, ApplyService
    PROVE  \/ UNCHANGED objects /\ Fail
           \/ /\ Proceed /\ UNCHANGED <<cookie, secret, plugins, conf, sts>>
              /\ alloc' \in [Listener -> Nat]
              /\ \E order, ports, sent : Written(order, ports, sent)
<1>1. inst \in Specs /\ SvcOK
  BY DEF IInv, PassOK, ApplyService
<1>2. inst.mode \in Modes
  BY <1>1, SpecFacts
<1>3. PICK order \in Orders :
         LET ports == updatePorts(Found, inst, order)
             new == [mode  |-> inst.mode,
                     ports |-> applySvcOverride(ResetNodePorts(ports, inst), inst)]
         IN  IF Accepted(new)
             THEN Allocate(new) /\ UNCHANGED <<cookie, secret, plugins, conf, sts>> /\ Proceed
             ELSE UNCHANGED objects /\ Fail
  BY DEF ApplyService, Found
<1> DEFINE ports == updatePorts(Found, inst, order)
           sent == applySvcOverride(ResetNodePorts(ports, inst), inst)
           new == [mode |-> inst.mode, ports |-> sent]
<1>4. Updated(ports, ServicePorts[inst], Found)
  BY <1>1, FoundPorts, UpdatedPorts
<1>5. CASE ~Accepted(new)
  BY <1>3, <1>5
<1>6. CASE Accepted(new)
  <2>1. Allocate(new) /\ UNCHANGED <<cookie, secret, plugins, conf, sts>> /\ Proceed
    BY <1>3, <1>6
  <2>2. new.mode = inst.mode /\ new.ports = sent /\ new = [mode |-> new.mode, ports |-> new.ports]
    OBVIOUS
  <2>3. PortList(ports) /\ Custom \notin Names(ports)
    BY <1>1, <1>4, PortsMapType DEF Updated
  <2>4. ports = updatePorts(Found, inst, order)
    OBVIOUS
  <2> HIDE DEF ports
  <2>5. Sent(sent, ports, inst)
    BY <1>1, <2>3, SentPorts
  <2> HIDE DEF sent, new
  <2>6. PortList(new.ports)
    BY <2>2, <2>5 DEF Sent
  <2>7. /\ alloc' \in [Listener -> Nat]
        /\ svc' = [mode |-> new.mode, ports |-> svc'.ports]
        /\ Stored(svc'.ports, new.ports, new.mode)
    BY <1>1, <1>2, <2>1, <2>2, <2>6, StoredPorts
  <2>8. Written(order, ports, sent)
    BY <1>4, <2>2, <2>4, <2>5, <2>7 DEF Written
  <2>. QED  BY <2>1, <2>7, <2>8
<1>. QED  BY <1>5, <1>6

LEMMA WrittenService ==
    ASSUME inst \in Specs, alloc' \in [Listener -> Nat],
           NEW order, NEW ports, NEW sent, Written(order, ports, sent)
    PROVE  SvcOK' /\ Names(svc'.ports) \ {Custom} = ServicePorts[inst]
<1> DEFINE l == svc'.ports
           n == Len(sent)
           M == ServicePorts[inst]
           m == Len(ports)
<1>1. inst.mode \in Modes /\ Custom \notin M
  BY SpecFacts, PortsMapType
<1>2. svc' = [mode |-> inst.mode, ports |-> l] /\ svc'.mode = inst.mode
  BY DEF Written
<1>3. /\ PortList(l) /\ Len(l) = n
      /\ \A i \in 1..n : l[i].name = sent[i].name
      /\ \A i \in 1..n : inst.mode = "ClusterIP" \/ sent[i].np # 0 => l[i] = sent[i]
      /\ inst.mode # "ClusterIP" => \A i \in 1..n : l[i].np # 0
  BY DEF Written, Stored
<1>4. PortList(ports) /\ Names(ports) = M
  BY DEF Written, Updated
<1>5. /\ PortList(sent)
      /\ inst.port => /\ n = m + 1 /\ sent[1].name = Custom
                      /\ \A i \in 1..m : sent[i + 1].name = ports[i].name
      /\ ~inst.port => n = m /\ \A i \in 1..m : sent[i].name = ports[i].name
      /\ inst.mode # "ClusterIP" => \A p \in ToSet(sent) :
            p \in ToSet(ports) \/ (p.name = Custom /\ p.np = UserPort)
  BY DEF Written, Sent
<1>6. l \in Seq(PortRecord) /\ ports \in Seq(PortRecord) /\ sent \in Seq(PortRecord)
  BY <1>3, <1>4, <1>5 DEF PortList
<1> HIDE DEF l, M
<1>7. /\ n \in Nat /\ m \in Nat /\ DOMAIN l = 1..n /\ DOMAIN ports = 1..m /\ DOMAIN sent = 1..n
      /\ \A i \in 1..m : ports[i].name \in M /\ ports[i].name # Custom
      /\ \A i \in 1..n : sent[i] \in ToSet(sent)
      /\ \A p \in ToSet(ports) : p.name # Custom
  BY <1>1, <1>3, <1>4, <1>6, SeqNames
<1>8. Names(ports) = {ports[i].name : i \in 1..m} /\ Names(l) = {l[i].name : i \in 1..n}
  BY <1>7 DEF Names
<1> HIDE DEF n, m
<1>9. \A i \in 1..n : inst.port => i = 1 \/ (i - 1 \in 1..m /\ l[i].name = ports[i - 1].name)
  <2> SUFFICES ASSUME NEW i \in 1..n, inst.port, i # 1
               PROVE  i - 1 \in 1..m /\ l[i].name = ports[i - 1].name
    OBVIOUS
  <2>1. i - 1 \in 1..m /\ (i - 1) + 1 = i
    BY <1>5, <1>7
  <2>. QED  BY <1>3, <1>5, <2>1
<1>10. \A i \in 1..n : l[i].name = Custom => i = 1
  <2> SUFFICES ASSUME NEW i \in 1..n, l[i].name = Custom PROVE i = 1
    OBVIOUS
  <2>1. CASE inst.port
    BY <1>7, <1>9, <2>1
  <2>2. CASE ~inst.port
    BY <1>3, <1>5, <1>7, <2>2
  <2>. QED  BY <2>1, <2>2
<1>11. Names(l) \ {Custom} = M
  <2>1. ASSUME NEW x \in Names(l), x # Custom PROVE x \in M
    <3>1. PICK i \in 1..n : x = l[i].name
      BY <1>8, <2>1
    <3>2. CASE inst.port
      <4>1. i # 1
        BY <1>3, <1>5, <2>1, <3>1, <3>2
      <4>. QED  BY <1>7, <1>9, <3>1, <3>2, <4>1
    <3>3. CASE ~inst.port
      BY <1>3, <1>5, <1>7, <3>1, <3>3
    <3>. QED  BY <3>2, <3>3
  <2>2. ASSUME NEW x \in M PROVE x \in Names(l)
    <3>1. PICK i \in 1..m : x = ports[i].name
      BY <1>4, <1>8, <2>2
    <3>2. CASE inst.port
      <4>1. i + 1 \in 1..n
        BY <1>5, <1>7, <3>2
      <4>2. l[i + 1].name = x
        BY <1>3, <1>5, <3>1, <3>2, <4>1
      <4>. QED  BY <1>8, <4>1, <4>2
    <3>3. CASE ~inst.port
      BY <1>3, <1>5, <1>8, <3>1, <3>3
    <3>. QED  BY <3>2, <3>3
  <2>. QED  BY <1>1, <2>1, <2>2
<1>12. inst.mode # "ClusterIP" =>
          \A p \in ToSet(l) : p.np # 0 /\ (p.name = Custom => p.np = UserPort)
  <2> SUFFICES ASSUME inst.mode # "ClusterIP", NEW i \in 1..n
               PROVE  l[i].np # 0 /\ (l[i].name = Custom => l[i].np = UserPort)
    BY <1>7 DEF ToSet
  <2>1. l[i].np # 0
    BY <1>3
  <2>2. ASSUME l[i].name = Custom PROVE l[i].np = UserPort
    <3>1. sent[i].name = Custom /\ sent[i] \in ToSet(sent)
      BY <1>3, <1>7, <2>2
    <3>2. sent[i].np = UserPort
      BY <1>5, <1>7, <3>1
    <3>3. UserPort # 0
      BY UserPortAssumption
    <3>. QED  BY <1>3, <3>2, <3>3
  <2>. QED  BY <2>1, <2>2
<1>13. svc' \in [mode: Modes, ports: Seq(PortRecord)]
  BY <1>1, <1>2, <1>6
<1>14. \A p, q \in ToSet(l) : p.name = q.name => p = q
  BY <1>3 DEF PortList
<1>15. SvcOK'
  BY <1>2, <1>7, <1>10, <1>12, <1>13, <1>14 DEF SvcOK, l
<1>. QED  BY <1>11, <1>15 DEF l, M

LEMMA ServiceKeeps == ASSUME IInv, ApplyService PROVE IInv'
<1>1. UNCHANGED <<spec, random, left>> /\ at = 1
  BY DEF ApplyService
<1>2. inst \in Specs /\ PassOK
  BY <1>1 DEF IInv, PassOK
<1>3. CASE UNCHANGED objects /\ Fail
  <2>1. SvcOK' /\ DrawnOK' /\ BuiltOK'
    BY <1>1, <1>3, SameObjects
  <2>2. PassOK' /\ Rendered'
    BY <1>1, <1>2, <1>3, FailKeeps DEF PassOK
  <2>. QED  BY <2>1, <2>2 DEF IInv
<1>4. CASE /\ Proceed /\ UNCHANGED <<cookie, secret, plugins, conf, sts>>
           /\ alloc' \in [Listener -> Nat]
           /\ \E order, ports, sent : Written(order, ports, sent)
  <2>1. SvcOK' /\ Names(svc'.ports) \ {Custom} = ServicePorts[inst]
    BY <1>2, <1>4, WrittenService
  <2>2. PassOK' /\ Rendered'
    BY <1>1, <1>4, <2>1, ProceedKeeps DEF BuilderDone
  <2>3. DrawnOK' /\ BuiltOK'
    BY <1>1, <1>4 DEF IInv, DrawnOK, BuiltOK, TemplateOf
  <2>. QED  BY <2>1, <2>2, <2>3 DEF IInv
<1>. QED  BY <1>3, <1>4, ServiceStep

-----------------------------------------------------------------------------
(***************************************************************************)
(* IInv holds in every reachable state.                                    *)
(***************************************************************************)
LEMMA Inductive == Spec => []IInv
<1>1. IInv /\ [Next]_vars => IInv'
  BY StartKeeps, ServiceKeeps, CookieKeeps, SecretKeeps, ConfigMapsKeep, StatefulSetKeeps,
     StepFailsKeeps, EditKeeps, LoseKeeps, StutterKeeps DEF Next, Pass
<1>. QED  BY <1>1, InitIInv, PTL DEF Spec

-----------------------------------------------------------------------------
(***************************************************************************)
(* removeHeadroom takes the smaller of a fifth and 2 GiB off any limit,    *)
(* rounded down, and never more than the limit.                            *)
(***************************************************************************)
LEMMA HeadroomOfAnyLimit ==
    ASSUME NEW limit \in Nat
    PROVE  LET headroom == limit - removeHeadroom(limit)
           IN  /\ 5 * headroom <= limit /\ headroom <= 2 * GiB
               /\ headroom = 2 * GiB \/ 5 * (headroom + 1) > limit
BY GiBAssumption DEF removeHeadroom

(***************************************************************************)
(* At rest the server configuration leaves headroom below the memory limit *)
(* of the spec, for every limit (removeHeadroom in configmap.go).          *)
(***************************************************************************)
THEOREM HeadroomAlwaysLeft == Spec => []HeadroomLeft
<1>1. IInv => HeadroomLeft
  <2> SUFFICES ASSUME IInv, AtRest, spec.memory > 0
               PROVE  LET headroom == spec.memory - conf.memory
                      IN  /\ 5 * headroom <= spec.memory /\ headroom <= 2 * GiB
                          /\ headroom = 2 * GiB \/ 5 * (headroom + 1) > spec.memory
    BY DEF HeadroomLeft
  <2>1. conf = ServerConf(spec)
    BY DEF IInv, Rendered, AtRest, Past
  <2>2. spec.memory \in Nat
    BY SpecFacts DEF IInv, PassOK
  <2>3. conf.memory = removeHeadroom(spec.memory)
    BY <2>1, <2>2 DEF ServerConf
  <2>. QED  BY <2>2, <2>3, HeadroomOfAnyLimit
<1>. QED  BY <1>1, Inductive, PTL

-----------------------------------------------------------------------------
(* Listeners. *)

\* A listener without TLS is open only for a protocol that is spoken and not
\* turned off.
LEMMA OpenWithoutTLS ==
    ASSUME NEW plugins_, NEW keys, NEW p, <<p, "tcp">> \in Served(plugins_, keys)
    PROVE  \/ p = "epmd"
           \/ /\ p \in {"amqp"} \cup (plugins_ \ {"multi_dc"}) \cup Dependencies(plugins_)
              /\ p \in {"management", "prometheus"} =>
                    <<p, "ssl">> \notin keys \/ <<p, "tcp">> \in keys
              /\ p \notin {"management", "prometheus"} => <<p, "tcp=none">> \notin keys
BY DEF Served, Tcp, Ssl

LEMMA DependenciesSpoken == \A P : "multi_dc" \notin Dependencies(P)
BY DEF Dependencies

\* What the configuration turns off.
LEMMA TurnedOff ==
    ASSUME NEW s, s.disable, TLSEnabled(s)
    PROVE  LET keys == ServerConf(s).keys
           IN  /\ \A p \in {"management", "prometheus"} :
                     <<p, "ssl">> \in keys /\ <<p, "tcp">> \notin keys
               /\ \A p \in {"amqp"} \cup Enabled(s, {"mqtt", "stomp", "stream"}) :
                     <<p, "tcp=none">> \in keys
               /\ MutualTLSEnabled(s) => \A p \in Enabled(s, {"web_mqtt", "web_stomp"}) :
                     <<p, "tcp=none">> \in keys
<1>1. ServerConf(s).keys = TLSKeys(s) \cup (IF MutualTLSEnabled(s) THEN MutualTLSKeys(s) ELSE {})
  BY DEF ServerConf
<1>2. /\ \A p \in {"management", "prometheus"} : <<p, "ssl">> \in TLSKeys(s)
      /\ \A p \in {"amqp"} \cup Enabled(s, {"mqtt", "stomp", "stream"}) :
            <<p, "tcp=none">> \in TLSKeys(s)
  BY DEF TLSKeys
<1>3. \A p \in Enabled(s, {"web_mqtt", "web_stomp"}) : <<p, "tcp=none">> \in MutualTLSKeys(s)
  BY DEF MutualTLSKeys
<1>4. \A p : <<p, "tcp">> \notin TLSKeys(s) \cup MutualTLSKeys(s)
  BY DEF TLSKeys, MutualTLSKeys
<1>. QED  BY <1>1, <1>2, <1>3, <1>4

(***************************************************************************)
(* For every spec with disableNonTLSListeners, with all its plugins, no    *)
(* listener without TLS is left open but those of the web plugins without  *)
(* mutual TLS and those of plugins that start as dependencies only         *)
(* (configmap.go, Update).                                                 *)
(***************************************************************************)
THEOREM NonTLSListenersStayClosed == Spec => []NonTLSListenersClosed
<1>1. IInv => NonTLSListenersClosed
  <2> SUFFICES ASSUME IInv, AtRest, spec.disable,
                      NEW p \in Protocols \ {"epmd"},
                      <<p, "tcp">> \in Served(plugins, conf.keys)
               PROVE  \/ p \in {"web_mqtt", "web_stomp"} /\ ~MutualTLSEnabled(spec)
                      \/ p \in Unlisted(spec)
    BY DEF NonTLSListenersClosed, Tcp
  <2>1. /\ spec \in Specs /\ TLSEnabled(spec)
        /\ plugins = DesiredPlugins(spec) /\ conf = ServerConf(spec)
    BY DEF IInv, PassOK, Rendered, AtRest, Past, TLSReady
  <2>2. spec.plugins \subseteq PluginNames
    BY <2>1, SpecFacts
  <2>3. /\ p \in {"amqp"} \cup (plugins \ {"multi_dc"}) \cup Dependencies(plugins)
        /\ p \notin {"management", "prometheus"}
        /\ <<p, "tcp=none">> \notin conf.keys
    <3>1. p # "epmd"
      OBVIOUS
    <3>2. /\ p \in {"amqp"} \cup (plugins \ {"multi_dc"}) \cup Dependencies(plugins)
          /\ p \in {"management", "prometheus"} =>
                <<p, "ssl">> \notin conf.keys \/ <<p, "tcp">> \in conf.keys
          /\ p \notin {"management", "prometheus"} => <<p, "tcp=none">> \notin conf.keys
      BY <3>1, OpenWithoutTLS
    <3>3. p \notin {"management", "prometheus"}
      BY <2>1, <3>2, TurnedOff
    <3>. QED  BY <3>2, <3>3
  <2>4. p # "amqp" /\ p \notin Enabled(spec, {"mqtt", "stomp", "stream"})
    BY <2>1, <2>3, TurnedOff
  <2>5. p \in Enabled(spec, {"web_mqtt", "web_stomp"}) => ~MutualTLSEnabled(spec)
    BY <2>1, <2>3, TurnedOff
  <2>6. Dependencies(plugins) = Dependencies(spec.plugins)
    BY <2>1 DEF DesiredPlugins, Dependencies
  <2>7. CASE p \in spec.plugins
    BY <2>2, <2>3, <2>4, <2>5, <2>7, DependenciesSpoken DEF Enabled, PluginNames
  <2>8. CASE p \notin spec.plugins
    BY <2>1, <2>3, <2>4, <2>6, <2>8 DEF DesiredPlugins, Unlisted
  <2>. QED  BY <2>7, <2>8
<1>. QED  BY <1>1, Inductive, PTL

(***************************************************************************)
(* For every spec with all its plugins: what the Service offers            *)
(* (generateServicePortsMap) is a port of the container                    *)
(* (updateContainerPorts) and is served by a node with the rendered        *)
(* configuration, but for the TLS port of a stream plugin that is only a   *)
(* dependency.                                                             *)
(***************************************************************************)
THEOREM OfferedPortsServed ==
    ASSUME NEW s \in Specs, TLSReady(s), NEW l \in generateServicePortsMap(s)
    PROVE  /\ l \in updateContainerPorts(s)
           /\ \/ l \in Served(DesiredPlugins(s), ServerConf(s).keys)
              \/ l = <<"stream", "ssl">> /\ "stream" \in Unlisted(s)
<1> DEFINE keys == ServerConf(s).keys
           P == Enabled(s, {"mqtt", "web_mqtt", "stomp", "web_stomp"}) \cup Stream(s)
<1>1. /\ s.plugins \subseteq PluginNames
      /\ s.disable => TLSEnabled(s)
  BY SpecFacts DEF TLSReady
<1>2. CASE l \in Tcp({"amqp", "management"} \cup P) /\ ~s.disable
  <2>1. l \in updateContainerPorts(s)
    BY <1>2 DEF updateContainerPorts, Tcp
  <2>2. \A p : <<p, "tcp=none">> \notin keys
    BY <1>2 DEF ServerConf, TLSKeys, MutualTLSKeys
  <2>3. TLSEnabled(s) => <<"management", "tcp">> \in keys
    BY <1>2 DEF ServerConf, TLSKeys
  <2>4. ~TLSEnabled(s) => keys = {}
    BY DEF ServerConf, TLSEnabled, MutualTLSEnabled
  <2>5. PICK p \in {"amqp", "management"} \cup P : l = <<p, "tcp">>
    BY <1>2 DEF Tcp
  <2>6. p = "management" \/ p = "amqp" \/ p \in s.plugins \ {"multi_dc"}
            \/ (p = "stream" /\ "multi_dc" \in s.plugins)
    BY <2>5 DEF Enabled, Stream, StreamNeeded
  <2>7. p # "prometheus"
    BY <1>1, <2>6 DEF PluginNames
  <2>8. p = "management" => <<p, "ssl">> \notin keys \/ <<p, "tcp">> \in keys
    BY <2>3, <2>4
  <2>9. <<p, "tcp">> \in Served(DesiredPlugins(s), keys)
    BY <2>2, <2>6, <2>7, <2>8 DEF Served, Dependencies, DesiredPlugins, Tcp
  <2>. QED  BY <2>1, <2>5, <2>9
<1>3. CASE l = <<"prometheus", "tcp">> /\ ~TLSEnabled(s)
  <2>1. ~s.disable
    BY <1>1, <1>3
  <2>2. keys = {}
    BY <1>3 DEF ServerConf, TLSEnabled, MutualTLSEnabled
  <2>3. l \in updateContainerPorts(s)
    BY <1>3, <2>1 DEF updateContainerPorts, Tcp
  <2>. QED  BY <1>3, <2>2, <2>3 DEF Served, DesiredPlugins, Tcp
<1>4. CASE /\ TLSEnabled(s)
           /\ l \in Ssl({"amqp", "management", "prometheus"} \cup Stream(s) \cup Enabled(s, {"stomp", "mqtt"}))
  <2>1. l \in updateContainerPorts(s)
    BY <1>4 DEF updateContainerPorts, updateContainerPortsOnlyTLSListeners, Ssl
  <2>2. PICK p \in {"amqp", "management", "prometheus"} \cup Stream(s) \cup Enabled(s, {"stomp", "mqtt"}) :
            l = <<p, "ssl">>
    BY <1>4 DEF Ssl
  <2>3. CASE p = "stream" /\ "stream" \notin s.plugins
    <3>1. "multi_dc" \in s.plugins
      BY <1>1, <2>2, <2>3 DEF Enabled, Stream, StreamNeeded
    <3>. QED  BY <2>1, <2>2, <2>3, <3>1 DEF Unlisted, Dependencies
  <2>4. CASE ~(p = "stream" /\ "stream" \notin s.plugins)
    <3>1. p \in {"amqp", "management", "prometheus"} \cup Enabled(s, {"mqtt", "stomp", "stream"})
      BY <2>2, <2>4 DEF Stream, Enabled
    <3>2. <<p, "ssl">> \in keys
      BY <1>4, <3>1 DEF ServerConf, TLSKeys
    <3>3. p \in {"amqp", "management", "prometheus"} \cup (s.plugins \ {"multi_dc"})
      BY <3>1 DEF Enabled
    <3>4. <<p, "ssl">> \in Served(DesiredPlugins(s), keys)
      BY <3>2, <3>3 DEF Served, DesiredPlugins, Ssl
    <3>. QED  BY <2>1, <2>2, <3>4
  <2>. QED  BY <2>3, <2>4
<1>5. CASE MutualTLSEnabled(s) /\ l \in Ssl(Enabled(s, {"web_stomp", "web_mqtt"}))
  <2>1. TLSEnabled(s)
    BY <1>5 DEF TLSEnabled, MutualTLSEnabled
  <2>2. l \in updateContainerPorts(s)
    BY <1>5, <2>1 DEF updateContainerPorts, updateContainerPortsOnlyTLSListeners, Ssl
  <2>3. PICK p \in Enabled(s, {"web_stomp", "web_mqtt"}) : l = <<p, "ssl">>
    BY <1>5 DEF Ssl
  <2>4. <<p, "ssl">> \in keys
    BY <1>5, <2>3 DEF ServerConf, MutualTLSKeys, Enabled
  <2>5. p \in s.plugins \ {"multi_dc"}
    BY <2>3 DEF Enabled
  <2>6. <<p, "ssl">> \in Served(DesiredPlugins(s), keys)
    BY <2>4, <2>5 DEF Served, DesiredPlugins, Ssl
  <2>. QED  BY <2>2, <2>3, <2>6
<1>. QED  BY <1>2, <1>3, <1>4, <1>5 DEF generateServicePortsMap, Tcp

-----------------------------------------------------------------------------
(* The invariants. *)

\* What a state at rest is rendered from.
LEMMA RestFacts ==
    ASSUME IInv, AtRest
    PROVE  /\ spec \in Specs /\ TLSReady(spec)
           /\ Names(svc.ports) \ {Custom} = generateServicePortsMap(spec)
           /\ ~VaultDefaultUserSecretEnabled(spec) =>
                  secret # None /\ secret.ports = SecretPorts(spec)
           /\ plugins = DesiredPlugins(spec) /\ conf = ServerConf(spec)
           /\ TemplateOf(sts.template, spec) /\ sts.claims = ClaimTemplates(spec)
<1>1. Past(1) /\ Past(3) /\ Past(4) /\ Past(5) /\ Past(6)
  BY DEF AtRest, Past
<1>2. spec \in Specs /\ TLSReady(spec)
  BY DEF IInv, PassOK, AtRest
<1>3. ServicePorts[spec] = generateServicePortsMap(spec)
  BY <1>2, PortsMapType
<1>. QED  BY <1>1, <1>2, <1>3 DEF IInv, Rendered

LEMMA ContainerPortsType ==
    ASSUME NEW s \in Specs PROVE updateContainerPorts(s) \subseteq Listener
<1>1. s.plugins \subseteq PluginNames
  BY SpecFacts
<1> DEFINE P == {"epmd", "amqp", "management", "prometheus"} \cup Stream(s) \cup
                Enabled(s, {"mqtt", "web_mqtt", "stomp", "web_stomp"})
<1>2. P \subseteq Protocols
  BY <1>1 DEF Stream, Enabled, Protocols, PluginNames
<1>3. updateContainerPorts(s) \subseteq Tcp(P) \cup Ssl(P)
  BY DEF updateContainerPorts, updateContainerPortsOnlyTLSListeners, Tcp, Ssl, Enabled
<1> HIDE DEF P
<1>. QED  BY <1>2, <1>3 DEF Tcp, Ssl, Listener

(***************************************************************************)
(* Every object has its type in every reachable state, for all specs and   *)
(* any number of events.                                                   *)
(***************************************************************************)
THEOREM TypeCorrect == Spec => []TypeOK
<1>1. IInv => TypeOK
  <2> SUFFICES ASSUME IInv PROVE TypeOK
    OBVIOUS
  <2>1. /\ spec \in Specs /\ inst \in Specs \cup {None} /\ at \in 0..Len(Builders)
        /\ (at # 0 => inst # None) /\ queued \in BOOLEAN /\ left \in Nat
    BY DEF IInv, PassOK, Builders
  <2>2. svc # None => svc.mode \in Modes /\ ToSet(svc.ports) \subseteq PortRecord
    <3> SUFFICES ASSUME svc # None
                 PROVE  svc.mode \in Modes /\ ToSet(svc.ports) \subseteq PortRecord
      OBVIOUS
    <3>1. svc.mode \in Modes /\ svc.ports \in Seq(PortRecord)
      BY DEF IInv, SvcOK
    <3>. QED  BY <3>1 DEF ToSet
  <2>3. /\ alloc \in [Listener -> Nat]
        /\ cookie \in 1..random \cup {None} /\ random \in Nat
        /\ secret # None => secret.user \in 1..random /\ secret.ports \subseteq Listener
    BY DEF IInv, SvcOK, DrawnOK
  <2>4. plugins # None => plugins \subseteq PluginNames \cup {"management", "prometheus"}
    <3> SUFFICES ASSUME plugins # None
                 PROVE  plugins \subseteq PluginNames \cup {"management", "prometheus"}
      OBVIOUS
    <3>1. PICK s \in Specs : plugins = DesiredPlugins(s)
      BY DEF IInv, BuiltOK
    <3>2. s.plugins \subseteq PluginNames
      BY SpecFacts
    <3>. QED  BY <3>1, <3>2 DEF DesiredPlugins
  <2>5. sts # None => sts.template.ports \subseteq Listener
    <3> SUFFICES ASSUME sts # None PROVE sts.template.ports \subseteq Listener
      OBVIOUS
    <3>1. PICK s \in Specs : TemplateOf(sts.template, s)
      BY DEF IInv, BuiltOK
    <3>. QED  BY <3>1, TemplateFields, ContainerPortsType
  <2>. QED  BY <2>1, <2>2, <2>3, <2>4, <2>5 DEF TypeOK
<1>. QED  BY <1>1, Inductive, PTL

(***************************************************************************)
(* At rest, for every spec and every history: the Service offers nothing   *)
(* that the container does not name or the node does not serve, but for    *)
(* the TLS port of a stream plugin that is only a dependency; the          *)
(* readiness probe and the credential updater connect to open ports.       *)
(***************************************************************************)
THEOREM PortsAlwaysAgree == Spec => []PortsAgree
<1>1. IInv => PortsAgree
  <2> DEFINE open == Served(plugins, conf.keys)
             offered == Names(svc.ports) \ {Custom}
             exception == Ssl(Unlisted(spec) \cap {"stream"})
             t == sts.template
  <2> SUFFICES ASSUME IInv, AtRest
               PROVE  /\ offered \subseteq t.ports
                      /\ offered \ exception \subseteq open
                      /\ t.probe \in t.ports \cap open
                      /\ t.updater.port \subseteq open
    BY DEF PortsAgree
  <2>1. /\ spec \in Specs /\ TLSReady(spec) /\ offered = generateServicePortsMap(spec)
        /\ open = Served(DesiredPlugins(spec), ServerConf(spec).keys)
        /\ TemplateOf(t, spec)
    BY RestFacts
  <2>2. /\ t.ports = updateContainerPorts(spec) /\ t.probe = ReadinessProbePort(spec)
        /\ t.updater = IF HasUpdater(spec)
                       THEN [port |-> {UpdaterPort(spec)}, volumes |-> UpdaterVolumes(spec)]
                       ELSE [port |-> {}, volumes |-> {}]
    BY <2>1, TemplateFields
  <2> HIDE DEF open, offered, t
  <2>3. \A l \in offered : /\ l \in t.ports
                           /\ l \in open \/ (l = <<"stream", "ssl">> /\ l \in exception)
    BY <2>1, <2>2, OfferedPortsServed DEF Ssl
  <2>4. t.probe \in offered /\ t.probe # <<"stream", "ssl">>
    BY <2>1, <2>2 DEF ReadinessProbePort, TLSReady, generateServicePortsMap, Tcp, Ssl
  <2>5. UpdaterPort(spec) \in offered /\ UpdaterPort(spec) # <<"stream", "ssl">>
    BY <2>1 DEF UpdaterPort, TLSReady, generateServicePortsMap, Tcp, Ssl
  <2>6. t.updater.port \subseteq {UpdaterPort(spec)}
    BY <2>2
  <2>. QED  BY <2>3, <2>4, <2>5, <2>6
<1>. QED  BY <1>1, Inductive, PTL

(***************************************************************************)
(* At rest, every port that the default-user Secret names is a port of the *)
(* Service, but for the two cases that the property names                  *)
(* (DefaultUserSecretBuilder.updatePorts asks for the Secret, the Service  *)
(* for TLS).                                                               *)
(***************************************************************************)
THEOREM BindingAlwaysUsable == Spec => []BindingUsable
<1>1. IInv => BindingUsable
  <2> DEFINE closed == IF ~SecretTLSEnabled(spec) /\ spec.disable THEN Tcp(Protocols) ELSE {}
             noCA == IF MutualTLSEnabled(spec) THEN {} ELSE Ssl({"web_mqtt", "web_stomp"})
  <2> SUFFICES ASSUME IInv, AtRest, ~VaultDefaultUserSecretEnabled(spec),
                      NEW l \in secret.ports, l \notin closed, l \notin noCA
               PROVE  l \in Names(svc.ports)
    BY DEF BindingUsable
  <2>1. /\ spec \in Specs /\ generateServicePortsMap(spec) \subseteq Names(svc.ports)
        /\ secret.ports = SecretPorts(spec)
    BY RestFacts
  <2>2. spec.plugins \subseteq PluginNames
    BY <2>1, SpecFacts
  <2> DEFINE P == {"amqp"} \cup Enabled(spec, PluginNames \ {"multi_dc"})
  <2>3. P \subseteq Protocols
    BY DEF Enabled, Protocols
  <2>4. CASE spec.secret
    <3>1. TLSEnabled(spec)
      BY <2>4 DEF TLSEnabled, SecretTLSEnabled
    <3>2. PICK p \in P : l = <<p, "ssl">>
      BY <2>1, <2>4 DEF SecretPorts, Ssl
    <3>3. CASE p \in {"web_mqtt", "web_stomp"}
      <4>1. MutualTLSEnabled(spec)
        BY <3>2, <3>3 DEF Ssl
      <4>2. p \in Enabled(spec, {"web_stomp", "web_mqtt"})
        BY <3>2, <3>3 DEF Enabled
      <4>. QED  BY <2>1, <3>2, <4>1, <4>2 DEF generateServicePortsMap, Ssl
    <3>4. CASE p \notin {"web_mqtt", "web_stomp"}
      <4>1. p \in {"amqp"} \cup Stream(spec) \cup Enabled(spec, {"stomp", "mqtt"})
        BY <3>2, <3>4 DEF Enabled, Stream, StreamNeeded, PluginNames
      <4>. QED  BY <2>1, <3>1, <3>2, <4>1 DEF generateServicePortsMap, Ssl
    <3>. QED  BY <3>3, <3>4
  <2>5. CASE ~spec.secret
    <3>1. PICK p \in P : l = <<p, "tcp">>
      BY <2>1, <2>5 DEF SecretPorts, Tcp
    <3>2. ~spec.disable
      BY <2>3, <2>5, <3>1 DEF SecretTLSEnabled, Tcp
    <3>3. p \in {"amqp"} \cup Stream(spec) \cup
                Enabled(spec, {"mqtt", "web_mqtt", "stomp", "web_stomp"})
      BY <3>1 DEF Enabled, Stream, StreamNeeded, PluginNames
    <3>. QED  BY <2>1, <3>1, <3>2, <3>3 DEF generateServicePortsMap, Tcp
  <2>. QED  BY <2>4, <2>5
<1>. QED  BY <1>1, Inductive, PTL

(***************************************************************************)
(* In every reachable state, /var/lib/rabbitmq/ is mounted before its      *)
(* subdirectory, for every override with the cookie's volume at its place  *)
(* that leaves rabbitmq the first container (sortVolumeMounts in           *)
(* patchPodSpec).                                                          *)
(***************************************************************************)
THEOREM MountsAlwaysInOrder == Spec => []MountsInOrder
<1>1. IInv => MountsInOrder
  <2> SUFFICES ASSUME IInv, sts # None, sts.template.first = "rabbitmq" PROVE MountsInOrder
    BY DEF MountsInOrder
  <2>1. PICK s \in Specs : TemplateOf(sts.template, s)
    BY DEF IInv, BuiltOK
  <2>2. sts.template.mounts = PatchedMounts(s) /\ RabbitmqIsFirst(s)
    BY <2>1, TemplateFields DEF RabbitmqIsFirst
  <2>3. s.mounts \in Seq([path: STRING, name: STRING]) /\ DistinctPaths(s.mounts)
    BY SpecFacts
  <2>. QED  BY <2>2, <2>3, MountsSorted DEF MountsInOrder
<1>. QED  BY <1>1, Inductive, PTL

(***************************************************************************)
(* At rest, the variables that others refer to are the first three of the  *)
(* rabbitmq container, whatever the override adds, unless it lists the     *)
(* operator's variables in another order or another container before       *)
(* rabbitmq (sortEnvVar in patchPodSpec).                                  *)
(***************************************************************************)
THEOREM EnvAlwaysDefinedFirst == Spec => []EnvDefinedFirst
<1>1. IInv => EnvDefinedFirst
  <2> SUFFICES ASSUME IInv, AtRest, sts.template.first = "rabbitmq", InOperatorOrder(spec.env)
               PROVE  \A k \in 1..3 : sts.template.env[k] = EnvVars[k]
    BY DEF EnvDefinedFirst
  <2>1. spec \in Specs /\ TemplateOf(sts.template, spec)
    BY RestFacts
  <2>2. sts.template.env = PatchedEnv(spec) /\ RabbitmqIsFirst(spec)
    BY <2>1, TemplateFields DEF RabbitmqIsFirst
  <2>3. spec.env \in Seq(STRING) /\ IsInjective(spec.env)
    BY <2>1, SpecFacts
  <2>. QED  BY <2>2, <2>3, VariablesDefinedFirst
<1>. QED  BY <1>1, Inductive, PTL

\* The operator's own mounts: their volumes are there and server-conf has what
\* is mounted from it.
LEMMA OwnMountsThere ==
    ASSUME NEW s, NEW m \in OwnMounts(s)
    PROVE  /\ m.name \in Volumes(s) \cup {"persistence"}
           /\ m.name = "server-conf" => m.path \in s.files
<1>1. \/ m.name \in {"rabbitmq-erlang-cookie", "persistence", "rabbitmq-plugins",
                     "rabbitmq-confd", "pod-info"}
      \/ m.name = "server-conf" /\ m.path \in s.files
      \/ m.name = "rabbitmq-tls" /\ SecretTLSEnabled(s)
  BY DEF OwnMounts, Mount
<1>2. CASE m.name \in {"rabbitmq-erlang-cookie", "persistence", "rabbitmq-plugins",
                       "rabbitmq-confd", "pod-info"}
  BY <1>2 DEF Volumes
<1>3. CASE m.name = "server-conf" /\ m.path \in s.files
  BY <1>3 DEF Volumes
<1>4. CASE m.name = "rabbitmq-tls" /\ SecretTLSEnabled(s)
  BY <1>4 DEF Volumes
<1>. QED  BY <1>1, <1>2, <1>3, <1>4

\* The paths that the containers rely on.
LEMMA OwnPaths ==
    ASSUME NEW s
    PROVE  /\ SecretTLSEnabled(s) => \E m \in OwnMounts(s) : m.path = "rabbitmq-tls"
           /\ ~VaultDefaultUserSecretEnabled(s) =>
                  \E m \in OwnMounts(s) : m.path = "11-default_user"
           /\ \A f \in s.files \cap ExtraFiles : \E m \in OwnMounts(s) : m.path = f
<1>1. SecretTLSEnabled(s) => Mount("rabbitmq-tls", "rabbitmq-tls") \in OwnMounts(s)
  BY DEF OwnMounts
<1>2. ~VaultDefaultUserSecretEnabled(s) =>
          Mount("11-default_user", "rabbitmq-confd") \in OwnMounts(s)
  BY DEF OwnMounts
<1>3. \A f \in s.files \cap ExtraFiles : Mount(f, "server-conf") \in OwnMounts(s)
  BY DEF OwnMounts, ExtraFiles
<1>4. \A p, n : Mount(p, n).path = p
  BY DEF Mount
<1>. QED  BY <1>1, <1>2, <1>3, <1>4

(***************************************************************************)
(* At rest a Pod can start, for every spec whose override is complete and  *)
(* every history: no volume, certificate, credential or configuration file *)
(* that a container needs is missing (podTemplateSpec, patchPodSpec,       *)
(* appendVaultAnnotations and ServerConfigMapBuilder together).            *)
(***************************************************************************)
THEOREM PodCanAlwaysStart == Spec => []PodCanStart
<1>1. IInv => PodCanStart
  <2> DEFINE t == sts.template
             mounted == {m.name : m \in ToSet(t.mounts)}
             paths == {m.path : m \in ToSet(t.mounts)}
             there == t.volumes \cup sts.claims
  <2> SUFFICES ASSUME IInv, AtRest, OverrideComplete(spec)
               PROVE  /\ mounted \cup t.setup \cup t.updater.volumes \subseteq there
                      /\ conf.certs \subseteq t.injected \cup
                              (IF "rabbitmq-tls" \in paths THEN t.tls ELSE {})
                      /\ "11-default_user" \in t.injected \/
                              ("11-default_user" \in paths /\ secret # None)
                      /\ conf.files \subseteq paths
                      /\ \A m \in ToSet(t.mounts) :
                              m.name = "server-conf" => m.path \in conf.files
    BY DEF PodCanStart
  <2>1. /\ spec \in Specs /\ TLSReady(spec) /\ TemplateOf(t, spec)
        /\ sts.claims = ClaimTemplates(spec) /\ conf = ServerConf(spec)
        /\ ~VaultDefaultUserSecretEnabled(spec) => secret # None
    BY RestFacts
  <2>2. /\ VaultFiles(spec) \subseteq t.injected
        /\ t.volumes = Volumes(spec) \cup spec.volumes /\ t.tls = TLSVolumeFiles(spec)
        /\ t.mounts = PatchedMounts(spec) /\ t.setup = SetupVolumes(spec)
        /\ t.updater = IF HasUpdater(spec)
                       THEN [port |-> {UpdaterPort(spec)}, volumes |-> UpdaterVolumes(spec)]
                       ELSE [port |-> {}, volumes |-> {}]
    BY <2>1, TemplateFields
  <2>3. /\ spec.mounts \in Seq([path: STRING, name: STRING]) /\ DistinctPaths(spec.mounts)
        /\ spec.files \subseteq ExtraFiles
    BY <2>1, SpecFacts
  <2>4. conf.certs = CertFiles(spec) /\ conf.files = spec.files
    BY <2>1 DEF ServerConf
  <2> HIDE DEF t
  <2> DEFINE M == ToSet(t.mounts)
  <2>5. /\ M \subseteq ToSet(spec.mounts) \cup OwnMounts(spec)
        /\ \A m \in OwnMounts(spec) : \E x \in M : x.path = m.path
    BY <2>2, <2>3, PatchedMountsFacts DEF Mounted
  <2> HIDE DEF M
  <2>6. \A m \in OwnMounts(spec) : m.path \in paths
    BY <2>5 DEF M
  <2>7. "persistence" \in there
    BY <2>1, <2>2 DEF OverrideComplete, Volumes
  <2>8. Volumes(spec) \subseteq there
    BY <2>2
  <2>9. \A m \in ToSet(spec.mounts) : m.name \in there /\ m.name # "server-conf"
    BY <2>1, <2>2 DEF OverrideComplete
  <2>10. mounted \subseteq there
    BY <2>5, <2>7, <2>8, <2>9, OwnMountsThere DEF M
  <2>11. t.setup \subseteq there
    BY <2>2, <2>7, <2>8 DEF SetupVolumes, Volumes
  <2>12. t.updater.volumes \subseteq there
    <3>1. t.updater.volumes \subseteq UpdaterVolumes(spec)
      BY <2>2
    <3>2. UpdaterVolumes(spec) \subseteq Volumes(spec)
      BY DEF UpdaterVolumes, Volumes
    <3>. QED  BY <2>8, <3>1, <3>2
  <2>13. conf.certs \subseteq t.injected \cup (IF "rabbitmq-tls" \in paths THEN t.tls ELSE {})
    <3>1. CASE VaultTLSEnabled(spec)
      <4>1. {"tls.crt", "tls.key", "ca.crt"} \subseteq t.injected
        BY <2>2, <3>1 DEF VaultFiles
      <4>. QED  BY <2>4, <4>1 DEF CertFiles
    <3>2. CASE ~VaultTLSEnabled(spec)
      <4>1. CASE SecretTLSEnabled(spec)
        <5>1. "rabbitmq-tls" \in paths
          BY <2>6, <4>1, OwnPaths
        <5>2. CertFiles(spec) \subseteq t.tls
          BY <2>2, <3>2, <4>1 DEF CertFiles, TLSVolumeFiles, MutualTLSEnabled
        <5>. QED  BY <2>4, <5>1, <5>2
      <4>2. CASE ~SecretTLSEnabled(spec)
        <5>1. CertFiles(spec) = {}
          BY <3>2, <4>2 DEF CertFiles, TLSEnabled, MutualTLSEnabled
        <5>. QED  BY <2>4, <5>1
      <4>. QED  BY <4>1, <4>2
    <3>. QED  BY <3>1, <3>2
  <2>14. "11-default_user" \in t.injected \/ ("11-default_user" \in paths /\ secret # None)
    <3>1. CASE VaultDefaultUserSecretEnabled(spec)
      BY <2>2, <3>1 DEF VaultFiles
    <3>2. CASE ~VaultDefaultUserSecretEnabled(spec)
      BY <2>1, <2>6, <3>2, OwnPaths
    <3>. QED  BY <3>1, <3>2
  <2>15. conf.files \subseteq paths
    <3> SUFFICES ASSUME NEW f \in spec.files PROVE f \in paths
      BY <2>4
    <3>1. \E m \in OwnMounts(spec) : m.path = f
      BY <2>3, OwnPaths
    <3>. QED  BY <2>6, <3>1
  <2>16. \A m \in ToSet(t.mounts) : m.name = "server-conf" => m.path \in conf.files
    BY <2>4, <2>5, <2>9, OwnMountsThere DEF M
  <2>. QED  BY <2>10, <2>11, <2>12, <2>13, <2>14, <2>15, <2>16
<1>. QED  BY <1>1, Inductive, PTL

-----------------------------------------------------------------------------
(* Updates of the Service. *)

\* Only ApplyService writes a Service; the others leave it alone or delete it.
LEMMA ServiceChanges ==
    ASSUME IInv, Next, svc' # svc, svc' # None
    PROVE  inst \in Specs /\ SvcOK /\ SvcOK' /\ \E order, ports, sent : Written(order, ports, sent)
<1>1. ApplyService
  BY DEF Next, Pass, Start, ApplyErlangCookie, ApplyDefaultUserSecret, ApplyPlugins,
         ApplyServerConf, ApplyStatefulSet, StepFails, Edit, Lose, objects
<1>2. SvcOK' /\ SvcOK
  BY <1>1, ServiceKeeps DEF IInv
<1>3. inst \in Specs
  BY <1>1 DEF IInv, PassOK, ApplyService
<1>. QED  BY <1>1, <1>2, <1>3, ServiceStep DEF objects

(***************************************************************************)
(* An update of a NodePort or LoadBalancer Service leaves the node port of *)
(* every port that stays, whatever was edited (ServiceBuilder.updatePorts  *)
(* keeps the old entries).                                                 *)
(***************************************************************************)
THEOREM NodePortsAlwaysKept == Spec => NodePortsKept
<1> DEFINE Same == svc # None /\ svc' # None /\ svc.mode # "ClusterIP" /\ svc'.mode # "ClusterIP" =>
                       \A p \in ToSet(svc.ports), q \in ToSet(svc'.ports) :
                          p.name = q.name => p.np = q.np
<1>1. IInv /\ [Next]_vars => [Same]_svc
  <2> SUFFICES ASSUME IInv, Next, svc' # svc, svc # None, svc' # None,
                      svc.mode # "ClusterIP", svc'.mode # "ClusterIP",
                      NEW p \in ToSet(svc.ports), NEW q \in ToSet(svc'.ports), p.name = q.name
               PROVE  p.np = q.np
    BY DEF vars, objects
  <2>1. inst \in Specs /\ SvcOK /\ SvcOK'
    BY ServiceChanges
  <2>2. PICK order, ports, sent : Written(order, ports, sent)
    BY ServiceChanges
  <2>3. CASE p.name = Custom
    BY <2>1, <2>3 DEF SvcOK
  <2>4. CASE p.name # Custom
    <3>1. /\ svc'.mode = inst.mode /\ Stored(svc'.ports, sent, inst.mode)
          /\ Sent(sent, ports, inst) /\ Updated(ports, ServicePorts[inst], Found)
      BY <2>2 DEF Written
    <3>2. PortList(svc'.ports) /\ Len(svc'.ports) = Len(sent)
      BY <3>1 DEF Stored
    <3>3. PICK i \in 1..Len(sent) : q = svc'.ports[i]
      BY <3>2 DEF PortList, ToSet
    <3>4. q.name = sent[i].name /\ (sent[i].np # 0 => q = sent[i])
      BY <3>1, <3>3 DEF Stored
    <3>5. sent[i] \in ToSet(sent)
      BY <3>1, <3>3 DEF Sent, PortList, ToSet
    <3>6. sent[i] \in ToSet(ports)
      BY <2>4, <3>1, <3>4, <3>5 DEF Sent
    <3>7. Found = svc.ports /\ p.np # 0 /\ p.name \in Names(Found)
      BY <2>1 DEF Found, SvcOK, ToSet, Names
    <3>8. sent[i] \in ToSet(Found)
      BY <3>1, <3>4, <3>6, <3>7 DEF Updated
    <3>9. sent[i] = p
      BY <2>1, <3>4, <3>7, <3>8 DEF SvcOK
    <3>. QED  BY <3>4, <3>7, <3>9
  <2>. QED  BY <2>3, <2>4
<1>. QED  BY <1>1, Inductive, PTL DEF Spec, NodePortsKept

\* If no port is new, the update leaves the others where they are, after c
\* ports (none, or that of the user) which the override puts back.
LEMMA NoNewPorts ==
    ASSUME NEW s \in Specs, NEW order \in Orders, NEW found, PortList(found),
           ServicePorts[s] \subseteq Names(found),
           NEW c \in 0..Len(found),
           \A i \in 1..c : found[i].name \notin ServicePorts[s],
           \A i \in c + 1..Len(found) : found[i].name \in ServicePorts[s]
    PROVE  /\ Len(updatePorts(found, s, order)) = Len(found) - c
           /\ \A i \in 1..Len(found) - c : updatePorts(found, s, order)[i] = found[c + i]
<1> DEFINE M == ServicePorts[s]
           F == {p \in ToSet(found) : p.name \in M}
           G == M \ Names(found)
           old == Filter(found, F)
           new == Filter(order, G)
           added == [i \in DOMAIN new |-> [name |-> new[i], np |-> 0]]
<1>1. updatePorts(found, s, order) = old \o added
  BY DEF updatePorts
<1>2. found \in Seq(PortRecord) /\ order \in Seq(Listener)
  BY OrdersAssumption DEF PortList
<1>3. /\ Len(found) \in Nat
      /\ \A i \in 1..Len(found) : found[i] \in ToSet(found)
  BY <1>2, SeqNames
<1>4. /\ \A i \in 1..c : found[i] \notin F
      /\ \A i \in c + 1..Len(found) : found[i] \in F
  BY <1>3
<1>5. G = {}
  OBVIOUS
<1> HIDE DEF F, G
<1>6. /\ old \in Seq(PortRecord) /\ Len(old) = Len(found) - c
      /\ \A i \in 1..Len(found) - c : old[i] = found[c + i]
  BY <1>2, <1>4, FilterSuffix
<1>7. new \in Seq(Listener) /\ ToSet(new) = {}
  BY <1>2, <1>5, FilterElements
<1> HIDE DEF old, new
<1>8. DOMAIN new = {}
  <2>1. Len(new) \in Nat /\ DOMAIN new = 1..Len(new)
    BY <1>7
  <2>2. ASSUME NEW i \in 1..Len(new) PROVE FALSE
    <3>1. new[i] \in ToSet(new)
      BY <1>7, SeqNames
    <3>. QED  BY <1>7, <3>1
  <2>. QED  BY <2>1, <2>2
<1>9. added = <<>>
  BY <1>8
<1> HIDE DEF added
<1>10. old \o added = old
  BY <1>6, <1>9
<1>. QED  BY <1>1, <1>6, <1>10

\* An update that changes neither the type nor the set of ports is none.
LEMMA SamePorts ==
    ASSUME inst \in Specs, SvcOK, SvcOK', svc # None, svc' # None,
           NEW order, NEW ports, NEW sent, Written(order, ports, sent),
           alloc' \in [Listener -> Nat],
           svc'.mode = svc.mode, ToSet(svc'.ports) = ToSet(svc.ports)
    PROVE  svc' = svc
<1> DEFINE l == svc'.ports
           f == svc.ports
           M == ServicePorts[inst]
           c == IF inst.port THEN 1 ELSE 0
<1>1. /\ svc \in [mode: Modes, ports: Seq(PortRecord)] /\ f \in Seq(PortRecord) /\ PortList(f)
      /\ \A i \in DOMAIN f : f[i].name = Custom => i = 1
  BY DEF SvcOK, PortList
<1>2. /\ svc' \in [mode: Modes, ports: Seq(PortRecord)] /\ l \in Seq(PortRecord)
      /\ \A i \in DOMAIN l : l[i].name = Custom => i = 1
  BY DEF SvcOK
<1>3. Found = f /\ order \in Orders /\ ports = updatePorts(f, inst, order)
  BY DEF Written, Found
<1>4. Custom \notin M /\ Names(ports) = M /\ PortList(ports)
  BY PortsMapType DEF Written, Updated
<1>5. Names(l) \ {Custom} = M
  BY WrittenService
<1>6. /\ Len(l) = Len(sent) /\ \A i \in 1..Len(sent) : l[i].name = sent[i].name
      /\ inst.port => /\ Len(sent) = Len(ports) + 1 /\ sent[1].name = Custom
                      /\ \A i \in 1..Len(ports) : sent[i + 1].name = ports[i].name
      /\ ~inst.port => /\ Len(sent) = Len(ports)
                       /\ \A i \in 1..Len(ports) : sent[i].name = ports[i].name
  BY DEF Written, Stored, Sent
<1>7. ToSet(l) = ToSet(f)
  OBVIOUS
<1>8. svc' = svc <=> l = f
  BY <1>1, <1>2
<1> HIDE DEF l, f, M
<1>9. /\ Len(f) \in Nat /\ DOMAIN f = 1..Len(f) /\ Len(l) \in Nat /\ DOMAIN l = 1..Len(l)
      /\ \A i \in 1..Len(f) : f[i] \in ToSet(f) /\ f[i].name \in Names(f)
      /\ \A i \in 1..Len(l) : l[i] \in ToSet(f) /\ l[i].name \in Names(l)
      /\ Names(f) = Names(l)
  <2>1. Names(f) = {p.name : p \in ToSet(f)} /\ Names(l) = {p.name : p \in ToSet(l)}
    BY <1>1, <1>2 DEF Names, ToSet
  <2>. QED  BY <1>1, <1>2, <1>7, <2>1, SeqNames
<1>10. /\ Len(ports) \in Nat /\ DOMAIN ports = 1..Len(ports)
       /\ \A i \in 1..Len(ports) : ports[i].name \in M
  BY <1>4, SeqNames DEF PortList
<1>11. /\ c \in 0..Len(f) /\ Len(l) = Len(ports) + c
       /\ \A i \in 1..c : f[i].name = Custom /\ l[i].name = Custom
       /\ \A i \in 1..Len(ports) : l[c + i].name = ports[i].name
       /\ c = 0 => Custom \notin Names(f)
  <2>1. CASE inst.port
    <3>1. Len(l) = Len(ports) + 1 /\ l[1].name = Custom
      BY <1>6, <1>10, <2>1
    <3>2. Custom \in Names(f)
      BY <1>9, <1>10, <3>1
    <3>3. PICK i \in 1..Len(f) : f[i].name = Custom
      BY <1>9, <3>2 DEF Names
    <3>4. i = 1
      BY <1>1, <1>9, <3>3
    <3>5. \A j \in 1..Len(ports) : 1 + j \in 1..Len(l) /\ 1 + j = j + 1
      BY <1>10, <3>1
    <3>6. \A j \in 1..Len(ports) : l[1 + j].name = ports[j].name
      BY <1>6, <2>1, <3>5
    <3>. QED  BY <1>9, <2>1, <3>1, <3>3, <3>4, <3>6
  <2>2. CASE ~inst.port
    <3>1. Len(l) = Len(ports) /\ \A i \in 1..Len(l) : l[i].name = ports[i].name
      BY <1>6, <2>2
    <3>2. Custom \notin Names(l)
      <4>1. Names(l) = {l[i].name : i \in 1..Len(l)}
        BY <1>9 DEF Names
      <4>. QED  BY <1>4, <1>10, <3>1, <4>1
    <3>3. \A i \in 1..Len(ports) : 0 + i = i
      BY <1>10
    <3>. QED  BY <1>9, <1>10, <2>2, <3>1, <3>2, <3>3
  <2>. QED  BY <2>1, <2>2
<1> HIDE DEF c
<1>12. c \in {0, 1}
  BY DEF c
<1>13. \A i \in c + 1..Len(f) : f[i].name \in M
  <2> SUFFICES ASSUME NEW i \in c + 1..Len(f) PROVE f[i].name \in M
    OBVIOUS
  <2>1. i \in 1..Len(f) /\ (c = 1 => i # 1)
    BY <1>9, <1>12
  <2>2. f[i].name # Custom
    BY <1>1, <1>9, <1>11, <1>12, <2>1
  <2>. QED  BY <1>5, <1>9, <2>1, <2>2
<1>14. /\ Len(ports) = Len(f) - c
       /\ \A i \in 1..Len(f) - c : ports[i] = f[c + i]
  <2>1. M \subseteq Names(f) /\ \A i \in 1..c : f[i].name \notin M
    BY <1>4, <1>5, <1>9, <1>11
  <2>2. PortList(f) /\ c \in 0..Len(f)
    BY <1>1, <1>11
  <2> DEFINE u == updatePorts(f, inst, order)
  <2>3. Len(u) = Len(f) - c /\ \A i \in 1..Len(f) - c : u[i] = f[c + i]
    BY <1>3, <1>13, <2>1, <2>2, NoNewPorts, SMTT(30) DEF M
  <2>. QED  BY <1>3, <2>3
<1>15. Len(l) = Len(f)
  BY <1>9, <1>11, <1>12, <1>14
<1>16. \A i \in 1..Len(f) : l[i].name = f[i].name
  <2> SUFFICES ASSUME NEW i \in 1..Len(f) PROVE l[i].name = f[i].name
    OBVIOUS
  <2>1. CASE i \in 1..c
    BY <1>11, <2>1
  <2>2. CASE i \notin 1..c
    <3>1. i - c \in 1..Len(ports) /\ c + (i - c) = i
      BY <1>9, <1>12, <1>14, <2>2
    <3>2. l[c + (i - c)].name = ports[i - c].name /\ ports[i - c] = f[c + (i - c)]
      BY <1>11, <1>14, <3>1
    <3>. QED  BY <3>1, <3>2
  <2>. QED  BY <2>1, <2>2
<1>17. \A i \in 1..Len(f) : l[i] = f[i]
  BY <1>1, <1>9, <1>15, <1>16 DEF PortList
<1>18. l = f
  BY <1>1, <1>2, <1>9, <1>15, <1>17
<1>. QED  BY <1>8, <1>18

(***************************************************************************)
(* The random order of Go's map iteration never shows in an update of the  *)
(* Service that changes nothing else: updatePorts starts from the ports    *)
(* that are there, and only appends in map order.                          *)
(***************************************************************************)
THEOREM NeverOnlyReordered == Spec => NeverJustReordered
<1> DEFINE Differs == svc # None /\ svc' # None =>
                          svc'.mode # svc.mode \/ ToSet(svc'.ports) # ToSet(svc.ports)
<1>1. IInv /\ [Next]_vars => [Differs]_svc
  <2> SUFFICES ASSUME IInv, Next, svc' # svc, svc # None, svc' # None,
                      svc'.mode = svc.mode, ToSet(svc'.ports) = ToSet(svc.ports)
               PROVE  FALSE
    BY DEF vars, objects
  <2>1. inst \in Specs /\ SvcOK /\ SvcOK' /\ \E order, ports, sent : Written(order, ports, sent)
    BY ServiceChanges
  <2>2. alloc' \in [Listener -> Nat]
    BY <2>1 DEF SvcOK
  <2>. QED  BY <2>1, <2>2, SamePorts
<1>. QED  BY <1>1, Inductive, PTL DEF Spec, NeverJustReordered

=============================================================================
