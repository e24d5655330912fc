--------------------------- MODULE WebhookBootstrap ---------------------------
(***************************************************************************)
(* The start of the admission webhook with --self-sign: replicas that race *)
(* to create the TLS Secret, patch its CA into the webhook configuration,  *)
(* require the webhook, and serve; while the manifest is applied, requests *)
(* fail or lose their answer, replicas crash and pods are evicted.         *)
(*                                                                         *)
(* One action per request to the API server.  A certificate stands for the *)
(* CA, the server certificate and the key, which are generated together    *)
(* and stored in one object.                                               *)
(***************************************************************************)
EXTENDS Naturals

CONSTANTS
    Replicas,
    Certs, NoCert,
    MaxTries,       \* attempts RetryOnConflict makes (DefaultRetry.Steps)
    FaultKinds,     \* the faults and disturbances that may happen
    MaxFaults       \* and how many of them: a bound of the model

ASSUME NoCertAssumption == NoCert \notin Certs
ASSUME MaxTriesAssumption == MaxTries \in Nat \ {0}
ASSUME BootFaultsAssumption == MaxFaults \in Nat

VARIABLES
    secret,     \* the certificate in the Secret, or NoCert
    config,     \* the MutatingWebhookConfiguration
    pc,         \* where main() of each replica is
    cert,       \* the certificate it works with
    read,       \* the configuration it read last
    tries,      \* conflicts it has met in PatchWebhookCABundle
    pod,        \* what became of the pod a user last created
    minted,     \* certificates generated so far
    faults      \* how many faults there have been

replicas == <<pc, cert, read, tries>>
vars == <<secret, config, replicas, pod, minted, faults>>

Policies == {"Ignore", "Fail"}

\* "revision" stands for what else is in the manifest; revision 0 is a
\* configuration that does not exist.  "version" is its resourceVersion.
NoConfig == [ca |-> NoCert, policy |-> "Ignore", revision |-> 0, version |-> 0]

Applied == config.revision > 0

Fault(k) ==
    /\ k \in FaultKinds
    /\ faults < MaxFaults
    /\ faults' = faults + 1

NoFault == UNCHANGED faults

Goto(r, label) == pc' = [pc EXCEPT ![r] = label]

\* The process ends, and with it everything it knows.
Leave(r, label) ==
    /\ Goto(r, label)
    /\ cert' = [cert EXCEPT ![r] = NoCert]
    /\ read' = [read EXCEPT ![r] = NoConfig]
    /\ tries' = [tries EXCEPT ![r] = 0]

\* main() logs the error and calls os.Exit(1).
Exit(r) == Leave(r, "down")

\* A mutant: a replica that lost the race keeps what it generated.
OwnCertAfterRace(r) == cert[r]

\* EnsureTLSSecret, after AlreadyExists: the certificate in the Secret.
CertAfterRace(r) == secret

\* A mutant: the CA is only filled in, never corrected.
RequiredOnly(c, ca) == [c EXCEPT !.policy = "Fail"]

\* PatchWebhookCABundle: both fields are set on the object that was read.
Required(c, ca) ==
    [ca |-> ca, policy |-> "Fail", revision |-> c.revision, version |-> c.version]

\* A mutant: the object is written whatever has happened to it since.
AlwaysUpToDate(r) == TRUE

\* The API server accepts an update of the version that was read.
UpToDate(r) == read[r].version = config.version

\* A mutant: one attempt more than allowed.
MayRetryOnceMore(r) == tries[r] < MaxTries

\* RetryOnConflict has attempts left after this one.
MayRetry(r) == tries[r] + 1 < MaxTries

\* An update that changes nothing leaves the resourceVersion alone.
Stored(c) == IF c = config THEN c ELSE [c EXCEPT !.version = config.version + 1]

\* A mutant: the namespaceSelector is missing.
InterceptedEverywhere(ns) == Applied

\* The webhook is called for pods outside kube-system.
Intercepted(ns) == Applied /\ ns # "kube-system"

Serving(r) == pc[r] = "serving"

\* The API server's call gets through: TLS verifies against caBundle.
Answers(r) == Serving(r) /\ cert[r] = config.ca

\* The Service may pick a replica that the API server does not trust, or none.
CallMayFail == (\A r \in Replicas : ~Serving(r)) \/ \E r \in Replicas : Serving(r) /\ ~Answers(r)

-----------------------------------------------------------------------------

Init ==
    /\ secret = NoCert
    /\ config = NoConfig
    /\ pc = [r \in Replicas |-> "start"]
    /\ cert = [r \in Replicas |-> NoCert]
    /\ read = [r \in Replicas |-> NoConfig]
    /\ tries = [r \in Replicas |-> 0]
    /\ pod = "none"
    /\ minted = {}
    /\ faults = 0

\* EnsureTLSSecret: the Secret is there and is used.
FindSecret(r) ==
    /\ pc[r] = "start" /\ secret # NoCert
    /\ cert' = [cert EXCEPT ![r] = secret]
    /\ Goto(r, "config")
    /\ NoFault
    /\ UNCHANGED <<secret, config, read, tries, pod, minted>>

\* NotFound: a certificate is generated.
Generate(r) ==
    /\ pc[r] = "start" /\ secret = NoCert
    /\ \E c \in Certs \ minted :
          /\ cert' = [cert EXCEPT ![r] = c]
          /\ minted' = minted \cup {c}
    /\ Goto(r, "create")
    /\ NoFault
    /\ UNCHANGED <<secret, config, read, tries, pod>>

CreateSecret(r) ==
    /\ pc[r] = "create" /\ secret = NoCert
    /\ secret' = cert[r]
    /\ Goto(r, "config")
    /\ NoFault
    /\ UNCHANGED <<config, cert, read, tries, pod, minted>>

\* The answer to the create is lost: the Secret is there, the replica exits.
CreateUnanswered(r) ==
    /\ pc[r] = "create" /\ secret = NoCert
    /\ Fault("api")
    /\ secret' = cert[r]
    /\ Exit(r)
    /\ UNCHANGED <<config, pod, minted>>

\* Another replica was first.
AlreadyExists(r) ==
    /\ pc[r] = "create" /\ secret # NoCert
    /\ Goto(r, "reread")
    /\ NoFault
    /\ UNCHANGED <<secret, config, cert, read, tries, pod, minted>>

RereadSecret(r) ==
    /\ pc[r] = "reread"
    /\ cert' = [cert EXCEPT ![r] = CertAfterRace(r)]
    /\ Goto(r, "config")
    /\ NoFault
    /\ UNCHANGED <<secret, config, read, tries, pod, minted>>

\* PatchWebhookCABundle, each attempt: read the configuration.
GetConfig(r) ==
    /\ pc[r] = "config" /\ Applied
    /\ read' = [read EXCEPT ![r] = config]
    /\ Goto(r, "update")
    /\ NoFault
    /\ UNCHANGED <<secret, config, cert, tries, pod, minted>>

\* The configuration is not there yet, or has no entry of that name.
ConfigMissing(r) ==
    /\ pc[r] = "config" /\ ~Applied
    /\ Exit(r)
    /\ NoFault
    /\ UNCHANGED <<secret, config, pod, minted>>

UpdateConfig(r) ==
    /\ pc[r] = "update" /\ UpToDate(r)
    /\ config' = Stored(Required(read[r], cert[r]))
    /\ Goto(r, "sync")
    /\ NoFault
    /\ UNCHANGED <<secret, cert, read, tries, pod, minted>>

\* The answer to the update is lost: main() exits although it was applied.
UpdateUnanswered(r) ==
    /\ pc[r] = "update" /\ UpToDate(r)
    /\ Fault("api")
    /\ config' = Stored(Required(read[r], cert[r]))
    /\ Exit(r)
    /\ UNCHANGED <<secret, pod, minted>>

\* RetryOnConflict starts again with a new read, a limited number of times.
Conflict(r) ==
    /\ pc[r] = "update" /\ ~UpToDate(r)
    /\ \/ /\ MayRetry(r)
          /\ tries' = [tries EXCEPT ![r] = @ + 1]
          /\ Goto(r, "config")
          /\ UNCHANGED <<cert, read>>
       \/ /\ ~MayRetry(r)
          /\ Exit(r)
    /\ NoFault
    /\ UNCHANGED <<secret, config, pod, minted>>

\* The caches are synced and the server listens.
StartServer(r) ==
    /\ pc[r] = "sync"
    /\ Goto(r, "serving")
    /\ NoFault
    /\ UNCHANGED <<secret, config, cert, read, tries, pod, minted>>

\* A request fails with an error that is not retried.
RequestFails(r) ==
    /\ pc[r] \in {"start", "create", "reread", "config", "update"}
    /\ Fault("api")
    /\ Exit(r)
    /\ UNCHANGED <<secret, config, pod, minted>>

\* The container dies; the kubelet starts it again.
Crash(r) ==
    /\ pc[r] \notin {"down", "gone"}
    /\ Fault("crash")
    /\ Exit(r)
    /\ UNCHANGED <<secret, config, pod, minted>>

Restart(r) ==
    /\ pc[r] = "down"
    /\ Goto(r, "start")
    /\ NoFault
    /\ UNCHANGED <<secret, config, cert, read, tries, pod, minted>>

\* The pod of a replica is deleted.
Evict(r) ==
    /\ pc[r] # "gone"
    /\ Fault("evict")
    /\ Leave(r, "gone")
    /\ UNCHANGED <<secret, config, pod, minted>>

-----------------------------------------------------------------------------
(***************************************************************************)
(* The API server and the users around the webhook.                        *)
(***************************************************************************)

\* A new pod passes admission: nobody is asked, a replica answers, or the
\* call fails and need not succeed.
Admitted(ns) ==
    \/ ~Intercepted(ns)
    \/ \E r \in Replicas : Answers(r)
    \/ CallMayFail /\ config.policy = "Ignore"

\* The ReplicaSet replaces the pod of a replica.
Replace(r) ==
    /\ pc[r] = "gone"
    /\ Admitted("kube-system")
    /\ Goto(r, "start")
    /\ NoFault
    /\ UNCHANGED <<secret, config, cert, read, tries, pod, minted>>

\* The manifest is applied, for the first time or again (an upgrade): both
\* fields are as in the manifest.
ApplyManifest ==
    /\ IF Applied THEN Fault("apply") ELSE NoFault
    /\ config' = [ca |-> NoCert, policy |-> "Ignore",
                   revision |-> config.revision + 1, version |-> config.version + 1]
    /\ UNCHANGED <<secret, replicas, pod, minted>>

\* A user's pod that needs a disk is created, or its controller tries again.
CreatePod ==
    /\ pod \in {"none", "rejected"}
    /\ \/ ~Intercepted("default") /\ pod' = "plain"
       \/ /\ Intercepted("default")
          /\ \E r \in Replicas : Answers(r)
          /\ pod' = "pinned"
       \/ /\ Intercepted("default")
          /\ CallMayFail
          /\ pod' = IF config.policy = "Fail" THEN "rejected" ELSE "plain"
    /\ NoFault
    /\ UNCHANGED <<secret, config, replicas, minted>>

\* The pod is deleted, and its controller is to create another.
DeletePod ==
    /\ pod \in {"plain", "pinned"}
    /\ pod' = "none"
    /\ NoFault
    /\ UNCHANGED <<secret, config, replicas, minted>>

-----------------------------------------------------------------------------

ReplicaStep(r) ==
    \/ FindSecret(r) \/ Generate(r)
    \/ CreateSecret(r) \/ CreateUnanswered(r) \/ AlreadyExists(r) \/ RereadSecret(r)
    \/ GetConfig(r) \/ ConfigMissing(r)
    \/ UpdateConfig(r) \/ UpdateUnanswered(r) \/ Conflict(r)
    \/ StartServer(r)
    \/ RequestFails(r)
    \/ Restart(r) \/ Replace(r)

Next ==
    \/ \E r \in Replicas : ReplicaStep(r) \/ Crash(r) \/ Evict(r)
    \/ ApplyManifest
    \/ CreatePod \/ DeletePod

Spec == Init /\ [][Next]_vars

\* Whichever replica the Service picks, a new pod passes.
SurelyAdmitted == CallMayFail => config.policy = "Ignore"

\* Requests are answered, kubelet and ReplicaSet replace what is lost, the
\* manifest is applied to its end, and a rejected pod is created again; that
\* it meets the right replica is not assumed.
Fairness ==
    /\ \A r \in Replicas : WF_vars(ReplicaStep(r))
    /\ WF_vars(~Applied /\ ApplyManifest)
    /\ WF_vars(SurelyAdmitted /\ CreatePod)

FairSpec == Spec /\ Fairness

-----------------------------------------------------------------------------
(***************************************************************************)
(* Properties.                                                             *)
(***************************************************************************)

Configs == [ca : Certs \cup {NoCert}, policy : Policies, revision : Nat, version : Nat]

Labels == {"start", "create", "reread", "config", "update", "sync", "serving", "down", "gone"}

\* Every variable has its type; a replica has a certificate exactly from the
\* time it has found or generated one.
TypeOK ==
    /\ secret \in Certs \cup {NoCert}
    /\ config \in Configs
    /\ pc \in [Replicas -> Labels]
    /\ cert \in [Replicas -> Certs \cup {NoCert}]
    /\ \A r \in Replicas : cert[r] = NoCert <=> pc[r] \in {"start", "down", "gone"}
    /\ read \in [Replicas -> Configs]
    /\ tries \in [Replicas -> 0 .. MaxTries - 1]
    /\ pod \in {"none", "rejected", "plain", "pinned"}
    /\ minted \subseteq Certs
    /\ faults \in 0..MaxFaults

\* Whenever the API server requires the webhook it trusts the certificate of
\* every replica that serves, although replicas generate their own and race
\* for the Secret and for the configuration (EnsureTLSSecret,
\* PatchWebhookCABundle).
ServedIsTrusted ==
    config.policy = "Fail" =>
        /\ config.ca = secret
        /\ \A r \in Replicas : Serving(r) => Answers(r)

\* A replica never takes back a manifest that was applied between its read and
\* its update of the configuration (the version check behind RetryOnConflict).
ManifestNeverReverted == [][config'.revision >= config.revision]_vars

\* The replicas keep the promise of WebhookPromise.
Promise == INSTANCE WebhookPromise
    WITH chosen <- secret,
         served <- [r \in Replicas |-> IF Serving(r) THEN cert[r] ELSE NoCert],
         trusted <- config.ca,
         required <- (config.policy = "Fail")

PromiseSpec == Promise!Spec

\* The manifest is not applied a second time.
AppliedOnce == [](config.revision <= 1)

\* Once faults cease, all replicas serve, trusted and required, also when all
\* of them were lost at a time when the webhook was required already.  That
\* they patch on startup only is why the manifest must stay.
EventuallyTrusted ==
    AppliedOnce => <>[](config.policy = "Fail" /\ \A r \in Replicas : Answers(r))

\* "It will succeed once the webhook is ready" (README.md:80): a pod that was
\* rejected while nobody could answer is admitted in the end, whether pinned or
\* because the manifest was applied again meanwhile.
RejectedPodGetsIn == (pod = "rejected") ~> (pod \in {"pinned", "plain"})

\* "If the webhook hasn't started yet when you create the first pod, the pod
\* will be rejected and retried" (README.md:80): with the manifest applied, no
\* pod passes without having been seen by the webhook.
NoPodPassesUnseen == [][Applied /\ pod # "plain" => pod' # "plain"]_vars
=============================================================================
