------------------------ MODULE WebhookBootstrapProofs ------------------------
(***************************************************************************)
(* Proofs about the start of the webhook, for any number of replicas,      *)
(* certificates, attempts and faults.                                      *)
(***************************************************************************)
EXTENDS WebhookBootstrap, TLAPS

\* The replica is past EnsureTLSSecret.
Ensured(r) == pc[r] \in {"config", "update", "sync", "serving"}

\* A replica between AlreadyExists and its second Get knows the Secret is there.
TypeInv ==
    /\ TypeOK
    /\ \A r \in Replicas : pc[r] = "reread" => secret # NoCert

\* There is one certificate, the one in the Secret: whoever is past
\* EnsureTLSSecret has it, and only it is ever trusted.
AgreementInv ==
    /\ \A r \in Replicas : Ensured(r) => secret # NoCert /\ cert[r] = secret
    /\ config.policy = "Fail" => secret # NoCert /\ config.ca = secret

\* What a replica is about to update is the configuration as it is, or of an
\* older version.
ReadInv ==
    \A r \in Replicas :
        pc[r] = "update" =>
            /\ read[r].version <= config.version
            /\ UpToDate(r) => read[r] = config

LEMMA NoConfigType == NoConfig \in Configs
  BY DEF NoConfig, Configs, Policies

\* Leaving empties the state of the replica.
LEMMA LeaveType ==
    ASSUME TypeOK, NEW r \in Replicas, NEW label \in {"down", "gone"}, Leave(r, label)
    PROVE  /\ pc' \in [Replicas -> Labels]
           /\ cert' \in [Replicas -> Certs \cup {NoCert}]
           /\ \A s \in Replicas : cert'[s] = NoCert <=> pc'[s] \in {"start", "down", "gone"}
           /\ read' \in [Replicas -> Configs]
           /\ tries' \in [Replicas -> 0 .. MaxTries - 1]
  BY NoConfigType, MaxTriesAssumption DEF TypeOK, Leave, Goto, Labels

\* The configuration an update stores is one.
LEMMA StoredType ==
    ASSUME TypeOK, NEW r \in Replicas, pc[r] = "update"
    PROVE  Stored(Required(read[r], cert[r])) \in Configs
  BY DEF TypeOK, Stored, Required, Configs, Policies

LEMMA TypeInit == Init => TypeInv
  BY NoConfigType, MaxTriesAssumption, BootFaultsAssumption DEF Init, TypeInv, TypeOK, Labels

LEMMA TypeNext == TypeInv /\ [Next]_vars => TypeInv'
<1> SUFFICES ASSUME TypeInv, [Next]_vars
             PROVE  TypeInv'
  OBVIOUS
<1> TypeOK
  BY DEF TypeInv
<1> USE NoCertAssumption, MaxTriesAssumption, BootFaultsAssumption
<1>0. ASSUME NEW k, Fault(k) \/ NoFault
      PROVE  faults' \in 0..MaxFaults
  BY <1>0 DEF TypeOK, Fault, NoFault
<1>1. ASSUME NEW r \in Replicas, FindSecret(r)
      PROVE  TypeInv'
  BY <1>0, <1>1 DEF TypeInv, TypeOK, FindSecret, Goto, Labels
<1>2. ASSUME NEW r \in Replicas, Generate(r)
      PROVE  TypeInv'
  BY <1>0, <1>2 DEF TypeInv, TypeOK, Generate, Goto, Labels
<1>3. ASSUME NEW r \in Replicas, CreateSecret(r)
      PROVE  TypeInv'
  BY <1>0, <1>3 DEF TypeInv, TypeOK, CreateSecret, Goto, Labels
<1>4. ASSUME NEW r \in Replicas, CreateUnanswered(r)
      PROVE  TypeInv'
  <2>1. secret' \in Certs /\ secret' # NoCert
    BY <1>4 DEF TypeOK, CreateUnanswered
  <2> QED
    BY <1>0, <1>4, <2>1, LeaveType DEF TypeInv, TypeOK, CreateUnanswered, Exit
<1>5. ASSUME NEW r \in Replicas, AlreadyExists(r)
      PROVE  TypeInv'
  BY <1>0, <1>5 DEF TypeInv, TypeOK, AlreadyExists, Goto, Labels
<1>6. ASSUME NEW r \in Replicas, RereadSecret(r)
      PROVE  TypeInv'
  BY <1>0, <1>6 DEF TypeInv, TypeOK, RereadSecret, CertAfterRace, Goto, Labels
<1>7. ASSUME NEW r \in Replicas, GetConfig(r)
      PROVE  TypeInv'
  BY <1>0, <1>7 DEF TypeInv, TypeOK, GetConfig, Goto, Labels
<1>8. ASSUME NEW r \in Replicas,
             ConfigMissing(r) \/ RequestFails(r) \/ Crash(r) \/ Evict(r)
      PROVE  TypeInv'
  <2>1. PICK label \in {"down", "gone"} : Leave(r, label)
    BY <1>8 DEF ConfigMissing, RequestFails, Crash, Evict, Exit
  <2>2. /\ UNCHANGED <<secret, config, pod, minted>>
        /\ faults' \in 0..MaxFaults
    BY <1>0, <1>8 DEF ConfigMissing, RequestFails, Crash, Evict
  <2>3. \A s \in Replicas : pc'[s] = "reread" => pc[s] = "reread"
    BY <2>1 DEF Leave, Goto, TypeOK
  <2> QED
    BY <2>1, <2>2, <2>3, LeaveType DEF TypeInv, TypeOK
<1>9. ASSUME NEW r \in Replicas, UpdateConfig(r)
      PROVE  TypeInv'
  <2>1. config' \in Configs
    BY <1>9, StoredType DEF UpdateConfig
  <2> QED
    BY <1>0, <1>9, <2>1 DEF TypeInv, TypeOK, UpdateConfig, Goto, Labels
<1>10. ASSUME NEW r \in Replicas, UpdateUnanswered(r)
       PROVE  TypeInv'
  <2>1. config' \in Configs
    BY <1>10, StoredType DEF UpdateUnanswered
  <2>2. Leave(r, "down")
    BY <1>10 DEF UpdateUnanswered, Exit
  <2>3. \A s \in Replicas : pc'[s] = "reread" => pc[s] = "reread"
    BY <2>2 DEF Leave, Goto, TypeOK
  <2> QED
    BY <1>0, <1>10, <2>1, <2>2, <2>3, LeaveType DEF TypeInv, TypeOK, UpdateUnanswered
<1>11. ASSUME NEW r \in Replicas, Conflict(r)
       PROVE  TypeInv'
  <2>1. CASE MayRetry(r)
    BY <1>0, <1>11, <2>1 DEF TypeInv, TypeOK, Conflict, MayRetry, Goto, Labels
  <2>2. CASE ~MayRetry(r)
    <3>1. Leave(r, "down")
      BY <1>11, <2>2 DEF Conflict, Exit
    <3>2. \A s \in Replicas : pc'[s] = "reread" => pc[s] = "reread"
      BY <3>1 DEF Leave, Goto, TypeOK
    <3> QED
      BY <1>0, <1>11, <3>1, <3>2, LeaveType DEF TypeInv, TypeOK, Conflict
  <2> QED
    BY <2>1, <2>2
<1>12. ASSUME NEW r \in Replicas, StartServer(r)
       PROVE  TypeInv'
  BY <1>0, <1>12 DEF TypeInv, TypeOK, StartServer, Goto, Labels
<1>13. ASSUME NEW r \in Replicas, Restart(r) \/ Replace(r)
       PROVE  TypeInv'
  BY <1>0, <1>13 DEF TypeInv, TypeOK, Restart, Replace, Goto, Labels
<1>14. CASE ApplyManifest
  <2>1. config' \in Configs
    BY <1>14 DEF TypeOK, ApplyManifest, Configs, Policies
  <2>2. faults' \in 0..MaxFaults
    BY <1>0, <1>14 DEF ApplyManifest
  <2> QED
    BY <1>14, <2>1, <2>2 DEF TypeInv, TypeOK, ApplyManifest, replicas
<1>15. CASE CreatePod \/ DeletePod
  BY <1>0, <1>15 DEF TypeInv, TypeOK, CreatePod, DeletePod, replicas
<1>16. CASE UNCHANGED vars
  BY <1>16 DEF TypeInv, TypeOK, vars, replicas
<1> QED
  BY <1>1, <1>2, <1>3, <1>4, <1>5, <1>6, <1>7, <1>8, <1>9, <1>10, <1>11, <1>12,
     <1>13, <1>14, <1>15, <1>16 DEF Next, ReplicaStep

LEMMA TypeInvariant == Spec => []TypeInv
  BY TypeInit, TypeNext, PTL DEF Spec

\* Every reachable state is well typed.
THEOREM BootstrapTypeCorrect == Spec => []TypeOK
<1>1. TypeInv => TypeOK
  BY DEF TypeInv
<1> QED
  BY <1>1, TypeInvariant, PTL

-----------------------------------------------------------------------------

LEMMA AgreementInit == Init => AgreementInv
  BY DEF Init, AgreementInv, Ensured, NoConfig

LEMMA AgreementNext == TypeInv /\ AgreementInv /\ [Next]_vars => AgreementInv'
<1> SUFFICES ASSUME TypeInv, AgreementInv, [Next]_vars
             PROVE  AgreementInv'
  OBVIOUS
<1> TypeOK
  BY DEF TypeInv
<1> USE NoCertAssumption
<1>1. ASSUME NEW r \in Replicas, FindSecret(r)
      PROVE  AgreementInv'
  BY <1>1 DEF TypeOK, AgreementInv, Ensured, FindSecret, Goto
<1>2. ASSUME NEW r \in Replicas, Generate(r)
      PROVE  AgreementInv'
  BY <1>2 DEF TypeOK, AgreementInv, Ensured, Generate, Goto
<1>3. ASSUME NEW r \in Replicas, CreateSecret(r)
      PROVE  AgreementInv'
  \* Nobody else is past EnsureTLSSecret while there is no Secret.
  <2>1. secret = NoCert /\ secret' # NoCert /\ cert'[r] = secret'
    BY <1>3 DEF TypeOK, CreateSecret
  <2>2. \A s \in Replicas : ~Ensured(s)
    BY <2>1 DEF AgreementInv
  <2> QED
    BY <1>3, <2>1, <2>2 DEF TypeOK, AgreementInv, Ensured, CreateSecret, Goto
<1>4. ASSUME NEW r \in Replicas, CreateUnanswered(r)
      PROVE  AgreementInv'
  <2>1. \A s \in Replicas : ~Ensured(s)
    BY <1>4 DEF AgreementInv, CreateUnanswered
  <2> QED
    BY <1>4, <2>1 DEF TypeOK, AgreementInv, Ensured, CreateUnanswered, Exit, Leave, Goto
<1>5. ASSUME NEW r \in Replicas, AlreadyExists(r)
      PROVE  AgreementInv'
  BY <1>5 DEF TypeOK, AgreementInv, Ensured, AlreadyExists, Goto
<1>6. ASSUME NEW r \in Replicas, RereadSecret(r)
      PROVE  AgreementInv'
  BY <1>6 DEF TypeInv, TypeOK, AgreementInv, Ensured, RereadSecret, CertAfterRace, Goto
<1>7. ASSUME NEW r \in Replicas, GetConfig(r)
      PROVE  AgreementInv'
  BY <1>7 DEF TypeOK, AgreementInv, Ensured, GetConfig, Goto
<1>8. ASSUME NEW r \in Replicas,
             ConfigMissing(r) \/ RequestFails(r) \/ Crash(r) \/ Evict(r)
      PROVE  AgreementInv'
  <2>1. PICK label \in {"down", "gone"} : Leave(r, label)
    BY <1>8 DEF ConfigMissing, RequestFails, Crash, Evict, Exit
  <2>2. UNCHANGED <<secret, config>>
    BY <1>8 DEF ConfigMissing, RequestFails, Crash, Evict
  <2> QED
    BY <2>1, <2>2 DEF TypeOK, AgreementInv, Ensured, Leave, Goto
<1>9. ASSUME NEW r \in Replicas, UpdateConfig(r) \/ UpdateUnanswered(r)
      PROVE  AgreementInv'
  \* What is written is the certificate of a replica, hence the one in the Secret.
  <2>1. secret # NoCert /\ cert[r] = secret
    BY <1>9 DEF AgreementInv, Ensured, UpdateConfig, UpdateUnanswered
  <2>2. config'.ca = secret
    BY <1>9, <2>1 DEF UpdateConfig, UpdateUnanswered, Stored, Required
  <2>3. secret' = secret
    BY <1>9 DEF UpdateConfig, UpdateUnanswered
  <2>4. \A s \in Replicas : Ensured(s)' => Ensured(s) /\ cert'[s] = cert[s]
    BY <1>9 DEF TypeOK, Ensured, UpdateConfig, UpdateUnanswered, Exit, Leave, Goto
  <2> QED
    BY <2>1, <2>2, <2>3, <2>4 DEF AgreementInv
<1>10. ASSUME NEW r \in Replicas, Conflict(r)
       PROVE  AgreementInv'
  <2>1. secret' = secret /\ config' = config
    BY <1>10 DEF Conflict
  <2>2. \A s \in Replicas : Ensured(s)' => Ensured(s) /\ cert'[s] = cert[s]
    BY <1>10 DEF TypeOK, Ensured, Conflict, Exit, Leave, Goto
  <2> QED
    BY <2>1, <2>2 DEF AgreementInv
<1>11. ASSUME NEW r \in Replicas, StartServer(r) \/ Restart(r) \/ Replace(r)
       PROVE  AgreementInv'
  BY <1>11 DEF TypeOK, AgreementInv, Ensured, StartServer, Restart, Replace, Goto
<1>12. CASE ApplyManifest
  BY <1>12 DEF AgreementInv, Ensured, ApplyManifest, replicas
<1>13. CASE CreatePod \/ DeletePod \/ UNCHANGED vars
  BY <1>13 DEF AgreementInv, Ensured, CreatePod, DeletePod, vars, replicas
<1> QED
  BY <1>1, <1>2, <1>3, <1>4, <1>5, <1>6, <1>7, <1>8, <1>9, <1>10, <1>11, <1>12, <1>13
     DEF Next, ReplicaStep

LEMMA Agreement == Spec => [](TypeInv /\ AgreementInv)
<1>1. Init => TypeInv /\ AgreementInv
  BY TypeInit, AgreementInit
<1>2. TypeInv /\ AgreementInv /\ [Next]_vars => (TypeInv /\ AgreementInv)'
  BY TypeNext, AgreementNext
<1> QED
  BY <1>1, <1>2, PTL DEF Spec

\* However many replicas race for the Secret and the configuration, the API
\* server trusts every replica that serves whenever it requires the webhook.
THEOREM ServedIsAlwaysTrusted == Spec => []ServedIsTrusted
<1>1. AgreementInv => ServedIsTrusted
  BY DEF AgreementInv, Ensured, ServedIsTrusted, Serving, Answers
<1> QED
  BY <1>1, Agreement, PTL

-----------------------------------------------------------------------------

LEMMA ReadInit == Init => ReadInv
  BY DEF Init, ReadInv

\* The version never falls, and only grows when the configuration changes.
LEMMA VersionGrows ==
    ASSUME TypeOK, ReadInv, [Next]_vars
    PROVE  /\ config' = config \/ config'.version > config.version
           /\ config'.revision >= config.revision
<1>1. ASSUME NEW r \in Replicas, UpdateConfig(r) \/ UpdateUnanswered(r)
      PROVE  /\ config' = config \/ config'.version > config.version
             /\ config'.revision >= config.revision
  <2>1. UpToDate(r) /\ pc[r] = "update" /\ config' = Stored(Required(read[r], cert[r]))
    BY <1>1 DEF UpdateConfig, UpdateUnanswered
  <2>2. read[r] = config
    BY <2>1 DEF ReadInv
  <2>3. Required(read[r], cert[r]).revision = config.revision
    BY <2>2 DEF Required
  <2>4. config.version \in Nat /\ config.revision \in Nat
    BY DEF TypeOK, Configs
  <2> QED
    BY <2>1, <2>2, <2>3, <2>4 DEF Stored, Required
<1>2. CASE ApplyManifest
  BY <1>2 DEF TypeOK, Configs, ApplyManifest
<1>3. CASE config' = config
  BY <1>3 DEF TypeOK, Configs
<1> QED
  BY <1>1, <1>2, <1>3 DEF Next, ReplicaStep, vars, FindSecret, Generate, CreateSecret,
     CreateUnanswered, AlreadyExists, RereadSecret, GetConfig, ConfigMissing, Conflict,
     StartServer, RequestFails, Crash, Evict, Restart, Replace, CreatePod, DeletePod

\* A replica comes to the update with what it has just read, and keeps it.
LEMMA ReadChanges ==
    ASSUME TypeOK, [Next]_vars, NEW s \in Replicas, pc'[s] = "update"
    PROVE  \/ pc[s] = "update" /\ read'[s] = read[s]
           \/ read'[s] = config /\ config' = config
<1>1. ASSUME NEW r \in Replicas, GetConfig(r)
      PROVE  \/ pc[s] = "update" /\ read'[s] = read[s]
             \/ read'[s] = config /\ config' = config
  BY <1>1 DEF TypeOK, GetConfig, Goto
<1>2. ASSUME NEW r \in Replicas, ReplicaStep(r) \/ Crash(r) \/ Evict(r), ~GetConfig(r)
      PROVE  pc[s] = "update" /\ read'[s] = read[s]
  <2>1. s # r /\ pc'[s] = pc[s] /\ read'[s] = read[s]
    BY <1>2 DEF TypeOK, ReplicaStep, FindSecret, Generate, CreateSecret, CreateUnanswered,
       AlreadyExists, RereadSecret, ConfigMissing, UpdateConfig, UpdateUnanswered, Conflict,
       StartServer, RequestFails, Crash, Evict, Restart, Replace, Exit, Leave, Goto
  <2> QED
    BY <2>1
<1>3. CASE ApplyManifest \/ CreatePod \/ DeletePod \/ UNCHANGED vars
  BY <1>3 DEF ApplyManifest, CreatePod, DeletePod, vars, replicas
<1> QED
  BY <1>1, <1>2, <1>3 DEF Next

LEMMA ReadNext == TypeInv /\ ReadInv /\ [Next]_vars => ReadInv'
<1> SUFFICES ASSUME TypeInv, ReadInv, [Next]_vars, NEW s \in Replicas, pc'[s] = "update"
             PROVE  /\ read'[s].version <= config'.version
                    /\ read'[s].version = config'.version => read'[s] = config'
  BY DEF ReadInv, UpToDate
<1> TypeOK
  BY DEF TypeInv
<1>1. config' = config \/ config'.version > config.version
  BY VersionGrows
<1>2. /\ config.version \in Nat
      /\ read[s].version \in Nat
  BY DEF TypeOK, Configs
<1>3. CASE read'[s] = config /\ config' = config
  BY <1>2, <1>3
<1>4. CASE pc[s] = "update" /\ read'[s] = read[s]
  <2>1. /\ read[s].version <= config.version
        /\ read[s].version = config.version => read[s] = config
    BY <1>4 DEF ReadInv, UpToDate
  <2>2. config' = config \/ (config'.version > config.version /\ config'.version \in Nat)
    BY <1>1, TypeNext DEF TypeInv, TypeOK, Configs
  <2> QED
    BY <1>2, <1>4, <2>1, <2>2
<1> QED
  BY <1>3, <1>4, ReadChanges

\* A manifest, once applied, is never taken back by a replica that read the
\* configuration before, whatever else races with it.
THEOREM ManifestIsNeverReverted == Spec => ManifestNeverReverted
<1>1. Init => TypeInv /\ ReadInv
  BY TypeInit, ReadInit
<1>2. TypeInv /\ ReadInv /\ [Next]_vars => (TypeInv /\ ReadInv)'
  BY TypeNext, ReadNext
<1>3. TypeInv /\ ReadInv /\ [Next]_vars => [config'.revision >= config.revision]_vars
  BY VersionGrows DEF TypeInv
<1> QED
  BY <1>1, <1>2, <1>3, PTL DEF Spec, ManifestNeverReverted

-----------------------------------------------------------------------------

LEMMA PromiseInit == Init => Promise!Init
  BY DEF Init, Promise!Init, NoConfig, Serving

\* Every step keeps the promise or does not concern it.
LEMMA PromiseNext ==
    TypeInv /\ AgreementInv /\ [Next]_vars => [Promise!Next]_(Promise!vars)
<1> SUFFICES ASSUME TypeInv, AgreementInv, [Next]_vars
             PROVE  [Promise!Next]_(Promise!vars)
  OBVIOUS
<1> TypeOK
  BY DEF TypeInv
<1> DEFINE served == [s \in Replicas |-> IF Serving(s) THEN cert[s] ELSE NoCert]
<1> USE NoCertAssumption
<1>a. ASSUME \A s \in Replicas :
                (IF Serving(s) THEN cert[s] ELSE NoCert)' = (IF Serving(s) THEN cert[s] ELSE NoCert)
      PROVE  served' = served
  BY <1>a
<1>1. ASSUME NEW r \in Replicas,
             \/ FindSecret(r) \/ Generate(r) \/ AlreadyExists(r) \/ RereadSecret(r)
             \/ GetConfig(r) \/ ConfigMissing(r) \/ Conflict(r) \/ RequestFails(r)
             \/ Restart(r) \/ Replace(r)
      PROVE  UNCHANGED Promise!vars
  <2>1. \A s \in Replicas :
           (IF Serving(s) THEN cert[s] ELSE NoCert)' = (IF Serving(s) THEN cert[s] ELSE NoCert)
    BY <1>1 DEF TypeOK, Serving, FindSecret, Generate, AlreadyExists, RereadSecret, GetConfig,
       ConfigMissing, Conflict, RequestFails, Restart, Replace, Exit, Leave, Goto
  <2>2. UNCHANGED <<secret, config>>
    BY <1>1 DEF FindSecret, Generate, AlreadyExists, RereadSecret, GetConfig,
       ConfigMissing, Conflict, RequestFails, Restart, Replace
  <2> QED
    BY <2>1, <2>2, <1>a DEF Promise!vars
<1>2. ASSUME NEW r \in Replicas, CreateSecret(r) \/ CreateUnanswered(r)
      PROVE  Promise!Next
  <2>1. secret = NoCert /\ secret' = cert[r] /\ cert[r] \in Certs /\ config' = config
    BY <1>2 DEF TypeOK, CreateSecret, CreateUnanswered
  <2>2. \A s \in Replicas :
           (IF Serving(s) THEN cert[s] ELSE NoCert)' = (IF Serving(s) THEN cert[s] ELSE NoCert)
    BY <1>2 DEF TypeOK, Serving, CreateSecret, CreateUnanswered, Exit, Leave, Goto
  <2>3. Promise!Choose(cert[r])
    BY <2>1, <2>2, <1>a DEF Promise!Choose
  <2> QED
    BY <2>1, <2>3 DEF Promise!Next
<1>3. ASSUME NEW r \in Replicas, UpdateConfig(r) \/ UpdateUnanswered(r)
      PROVE  Promise!Next
  <2>1. secret # NoCert /\ cert[r] = secret /\ secret' = secret
    BY <1>3 DEF AgreementInv, Ensured, UpdateConfig, UpdateUnanswered
  <2>2. config'.ca = secret /\ config'.policy = "Fail"
    BY <1>3, <2>1 DEF UpdateConfig, UpdateUnanswered, Stored, Required
  <2>3. \A s \in Replicas :
           (IF Serving(s) THEN cert[s] ELSE NoCert)' = (IF Serving(s) THEN cert[s] ELSE NoCert)
    BY <1>3 DEF TypeOK, Serving, UpdateConfig, UpdateUnanswered, Exit, Leave, Goto
  <2>4. Promise!Require
    BY <2>1, <2>2, <2>3, <1>a DEF Promise!Require
  <2> QED
    BY <2>4 DEF Promise!Next
<1>4. ASSUME NEW r \in Replicas, StartServer(r)
      PROVE  Promise!Next
  <2>1. secret # NoCert /\ cert[r] = secret
    BY <1>4 DEF AgreementInv, Ensured, StartServer
  <2>2. UNCHANGED <<secret, config, cert>> /\ pc' = [pc EXCEPT ![r] = "serving"]
    BY <1>4 DEF StartServer, Goto
  <2>3. served' = [served EXCEPT ![r] = secret]
    BY <2>1, <2>2 DEF Serving, TypeOK
  <2>4. Promise!Serve(r)
    BY <2>1, <2>2, <2>3 DEF Promise!Serve
  <2> QED
    BY <2>4 DEF Promise!Next
<1>5. ASSUME NEW r \in Replicas, Crash(r) \/ Evict(r)
      PROVE  Promise!Next
  <2>1. PICK label \in {"down", "gone"} : Leave(r, label)
    BY <1>5 DEF Crash, Evict, Exit
  <2>2. UNCHANGED <<secret, config>>
    BY <1>5 DEF Crash, Evict
  <2>3. served' = [served EXCEPT ![r] = NoCert]
    BY <2>1 DEF TypeOK, Serving, Leave, Goto
  <2>4. Promise!Stop(r)
    BY <2>2, <2>3 DEF Promise!Stop
  <2> QED
    BY <2>4 DEF Promise!Next
<1>6. CASE ApplyManifest
  <2>1. config'.ca = NoCert /\ config'.policy = "Ignore" /\ secret' = secret
    BY <1>6 DEF ApplyManifest
  <2>2. served' = served
    BY <1>6 DEF ApplyManifest, replicas, Serving
  <2>3. Promise!Reset
    BY <2>1, <2>2 DEF Promise!Reset
  <2> QED
    BY <2>3 DEF Promise!Next
<1>7. CASE CreatePod \/ DeletePod \/ UNCHANGED vars
  BY <1>7 DEF CreatePod, DeletePod, vars, replicas, Promise!vars, Serving
<1> QED
  BY <1>1, <1>2, <1>3, <1>4, <1>5, <1>6, <1>7 DEF Next, ReplicaStep

\* The start of the webhook implements WebhookPromise.
THEOREM KeepsPromise == Spec => PromiseSpec
<1>1. Init => Promise!Init
  BY PromiseInit
<1>2. TypeInv /\ AgreementInv /\ [Next]_vars => [Promise!Next]_(Promise!vars)
  BY PromiseNext
<1> QED
  BY <1>1, <1>2, Agreement, PTL DEF Spec, PromiseSpec, Promise!Spec
=============================================================================
