----------------------------- MODULE SetupRobot -----------------------------
(***************************************************************************)
(* The robot bootstrap CLI of src/go/cmd/setup-robot/main.go: one run of   *)
(* main is a sequence of steps (`pc`), the waits of which are              *)
(* backoff.RetryNotify loops with WithMaxRetries(Retries).  Around it act  *)
(* the cloud cluster (DNS, the API endpoint, the service-account token     *)
(* controller, the tenant controller writing the robot-setup config map),  *)
(* the local cluster (its service-account controller, and the cr-syncer of *)
(* an installed base-robot chart copying the Robot down) and the operator, *)
(* who may interrupt a run and start setup again under any name.  Any API  *)
(* call may fail; outside a retry loop that is log.Fatal.                  *)
(***************************************************************************)
EXTENDS Naturals, Sequences, FiniteSets

CONSTANTS
    RobotNames,     \* names setup-robot may be called with
    NsList,         \* the local namespaces, in the order List returns them
    BaseNs,         \* baseNamespace = metav1.NamespaceDefault
    None,           \* no robot name
    Retries,        \* numDNSRetries = numServiceRetries = 6
    CfgComplete,    \* the config-map template carries every key setup-robot requires
    MaxFaults,      \* bound on failed API calls
    MaxRuns         \* bound on runs of setup-robot

ASSUME BaseNs \in {NsList[i] : i \in 1..Len(NsList)}
ASSUME Retries \in Nat /\ MaxFaults \in Nat /\ MaxRuns \in Nat \ {0}

LocalNs == {NsList[i] : i \in 1..Len(NsList)}

VARIABLES
    pc,           \* the step of main the run is at
    tries,        \* failed attempts of the current retry loop
    name,         \* *robotName of the current run
    syncIdx,      \* the namespace syncDockerSecret's loop is at
    runs,         \* runs started
    faults,       \* failed API calls so far
    dnsUp,        \* k8s.<domain> resolves to an IPv4 address
    svcUp,        \* the cloud API answers the HEAD probe
    tokenSecret,  \* cloud secret robot-token-<name>: absent, without or with a token
    cfgMap,       \* the tenant's robot-setup config map in the cloud
    cloudRobots,  \* Robot CRs in the tenant main namespace of the cloud
    localRobots,  \* Robot CRs in the local tenant main namespace
    localMainNs,  \* the local tenant main namespace exists
    authStored,   \* robot name in the local robot-auth secret
    pullSecret,   \* local cloud-robotics-images secret of each namespace
    saDefault,    \* the local ServiceAccount "default" of BaseNs exists
    saPatched,    \* it references the pull secret
    installed,    \* robot.name the base-robot chart was last installed with
    whSecret,     \* cert of the local secret chart-assignment-controller-tls
    whCert,       \* cert ensureWebhookCerts returned to the current run
    served,       \* cert the running chart-assignment-controller has mounted
    getFailedCerts  \* certs generated after a Get of the tls secret had failed

vars == <<pc, tries, name, syncIdx, runs, faults, dnsUp, svcUp, tokenSecret, cfgMap,
          cloudRobots, localRobots, localMainNs, authStored, pullSecret, saDefault,
          saPatched, installed, whSecret, whCert, served, getFailedCerts>>
cloud == <<dnsUp, svcUp, tokenSecret, cfgMap, cloudRobots>>
local == <<localRobots, localMainNs, authStored, pullSecret, saDefault, saPatched, installed,
           whSecret, served, getFailedCerts>>

(* Webhook certificates: run k generates cert k; an earlier installation left
   PriorCert, labelled cert-format v2, or LegacyCert of the older format. *)
NoCert == 0
PriorCert == MaxRuns + 1
LegacyCert == MaxRuns + 2
Certs == 0..(MaxRuns + 2)
LabelledV2(c) == c \notin {NoCert, LegacyCert}
certVars == <<whSecret, served, getFailedCerts>>

Steps == {"dns", "svc", "ns", "name", "token", "tokenWait", "cfg", "robot", "auth",
          "sync", "syncNs", "patch", "certs", "init", "install", "done", "fatal"}
Ended == {"done", "fatal"}
SecretStates == {"none", "old", "cur"}   \* "cur": the data of the cloud secret

\* an API call fails (log.Fatal outside a retry loop)
Fault == faults < MaxFaults /\ faults' = faults + 1
Fatal == pc' = "fatal" /\ UNCHANGED <<tries, syncIdx>>
Goto(s) == pc' = s /\ UNCHANGED <<tries, syncIdx>>

\* (mutant) the loop retries once more than WithMaxRetries allows
RetryStepOffByOne(ok, next) ==
    \/ /\ ok /\ pc' = next /\ tries' = 0
    \/ /\ ~ok /\ tries <= Retries /\ tries' = tries + 1 /\ UNCHANGED pc
    \/ /\ ~ok /\ tries = Retries /\ pc' = "fatal" /\ tries' = 0

\* (mutant) backoff without WithMaxRetries: the loop never gives up
RetryStepUnbounded(ok, next) ==
    \/ /\ ok /\ pc' = next /\ tries' = 0
    \/ /\ ~ok /\ tries < Retries /\ tries' = tries + 1 /\ UNCHANGED pc
    \/ /\ ~ok /\ tries = Retries /\ UNCHANGED <<pc, tries>>
(* backoff.RetryNotify(op, newExponentialBackoff(1s, 2, Retries), notify):
   op is tried once and retried up to Retries times *)
RetryStep(ok, next) ==
    \/ /\ ok /\ pc' = next /\ tries' = 0
    \/ /\ ~ok /\ tries < Retries /\ tries' = tries + 1 /\ UNCHANGED pc
    \/ /\ ~ok /\ tries = Retries /\ pc' = "fatal" /\ tries' = 0

-----------------------------------------------------------------------------
(* The steps of main *)

\* waitForDNS(remoteServer, numDNSRetries)
WaitForDNS ==
    /\ pc = "dns" /\ RetryStep(dnsUp, "svc")
    /\ UNCHANGED <<name, whCert, syncIdx, runs, faults, cloud, local>>

\* waitForService(httpClient, "https://k8s.<domain>", numServiceRetries)
WaitForService ==
    /\ pc = "svc" /\ RetryStep(svcUp, "ns")
    /\ UNCHANGED <<name, whCert, syncIdx, runs, faults, cloud, local>>

\* ensureTenantMainNamespace: Get, Create if NotFound; both errors are
\* wrapped and dropped, so the step always succeeds
EnsureTenantMainNamespace ==
    /\ pc = "ns" /\ Goto("name")
    /\ \/ /\ localMainNs /\ UNCHANGED <<localMainNs, faults>>
       \/ /\ ~localMainNs /\ localMainNs' = TRUE /\ UNCHANGED faults
       \/ /\ ~localMainNs /\ Fault /\ UNCHANGED localMainNs
    /\ UNCHANGED <<name, whCert, runs, cloud, localRobots, authStored, pullSecret, saDefault,
                   saPatched, installed, certVars>>

\* checkRobotName: a local Robot with another name stops the run
CheckRobotName ==
    /\ pc = "name"
    /\ \/ /\ localRobots \subseteq {name} /\ Goto("token") /\ UNCHANGED faults
       \/ /\ localRobots \ {name} # {} /\ Fatal /\ UNCHANGED faults
       \/ /\ Fault /\ Fatal
    /\ UNCHANGED <<name, whCert, runs, cloud, local>>

\* waitForServiceAccountToken, first part: create robot-token-<name> when
\* Get says NotFound; another Get error skips the creation
CreateTokenSecret ==
    /\ pc = "token"
    /\ \/ /\ tokenSecret[name] = "absent"
          /\ tokenSecret' = [tokenSecret EXCEPT ![name] = "empty"]
          /\ Goto("tokenWait") /\ UNCHANGED faults
       \/ /\ tokenSecret[name] = "absent" /\ Fault /\ Fatal /\ UNCHANGED tokenSecret
       \/ /\ tokenSecret[name] # "absent" /\ Goto("tokenWait")
          /\ UNCHANGED <<tokenSecret, faults>>
       \/ /\ Fault /\ Goto("tokenWait") /\ UNCHANGED tokenSecret
    /\ UNCHANGED <<name, whCert, runs, dnsUp, svcUp, cfgMap, cloudRobots, local>>

\* waitForServiceAccountToken, retry loop: Get and getTokenFromSecret
WaitForToken ==
    /\ pc = "tokenWait" /\ RetryStep(tokenSecret[name] = "token", "cfg")
    /\ UNCHANGED <<name, whCert, syncIdx, runs, faults, cloud, local>>

\* getRobotSetupConfigmap: retry the Get, then require the seven keys
GetRobotSetupConfigmap ==
    /\ pc = "cfg"
    /\ RetryStep(cfgMap # "absent", IF cfgMap = "complete" THEN "robot" ELSE "fatal")
    /\ UNCHANGED <<name, whCert, syncIdx, runs, faults, cloud, local>>

\* createOrUpdateRobot: Create on NotFound, else merge labels and Update
CreateOrUpdateRobot ==
    /\ pc = "robot"
    /\ \/ /\ cloudRobots' = cloudRobots \cup {name} /\ Goto("auth") /\ UNCHANGED faults
       \/ /\ Fault /\ Fatal /\ UNCHANGED cloudRobots
    /\ UNCHANGED <<name, whCert, runs, dnsUp, svcUp, tokenSecret, cfgMap, local>>

\* (mutant) robot-auth is only created, never updated
StoreInK8sSecretCreateOnly ==
    /\ pc = "auth"
    /\ \/ /\ authStored' = IF authStored = None THEN name ELSE authStored
          /\ Goto("sync") /\ UNCHANGED faults
       \/ /\ Fault /\ Fatal /\ UNCHANGED authStored
    /\ UNCHANGED <<name, whCert, runs, cloud, localRobots, localMainNs, pullSecret, saDefault,
                   saPatched, installed, certVars>>

\* storeInK8sSecret: kubeutils.UpdateSecret of robot-auth (create or update)
StoreInK8sSecret ==
    /\ pc = "auth"
    /\ \/ /\ authStored' = name /\ Goto("sync") /\ UNCHANGED faults
       \/ /\ Fault /\ Fatal /\ UNCHANGED authStored
    /\ UNCHANGED <<name, whCert, runs, cloud, localRobots, localMainNs, pullSecret, saDefault,
                   saPatched, installed, certVars>>

\* syncDockerSecret: Get the cloud pull secret and List the local namespaces
SyncDockerSecret ==
    /\ pc = "sync"
    /\ \/ /\ pc' = "syncNs" /\ syncIdx' = 1 /\ UNCHANGED <<tries, faults>>
       \/ /\ Fault /\ Fatal
    /\ UNCHANGED <<name, whCert, runs, cloud, local>>

\* one iteration of syncDockerSecret's loop over the namespaces: update an
\* existing secret; create a missing one in BaseNs only, and then return
\* through the ServiceAccount patch
SyncNamespace ==
    /\ pc = "syncNs"
    /\ \/ /\ syncIdx > Len(NsList) /\ Goto("certs")
          /\ UNCHANGED <<pullSecret, faults>>
       \/ /\ syncIdx <= Len(NsList)
          /\ LET n == NsList[syncIdx] IN
             \/ /\ pullSecret[n] = "none" /\ n = BaseNs
                /\ pullSecret' = [pullSecret EXCEPT ![n] = "cur"]
                /\ Goto("patch") /\ UNCHANGED faults
             \/ /\ pullSecret[n] = "none" /\ n # BaseNs
                /\ syncIdx' = syncIdx + 1
                /\ UNCHANGED <<pc, tries, pullSecret, faults>>
             \/ /\ pullSecret[n] # "none"
                /\ pullSecret' = [pullSecret EXCEPT ![n] = "cur"]
                /\ syncIdx' = syncIdx + 1
                /\ UNCHANGED <<pc, tries, faults>>
             \/ /\ Fault /\ Fatal /\ UNCHANGED pullSecret
    /\ UNCHANGED <<name, whCert, runs, cloud, localRobots, localMainNs, authStored, saDefault,
                   saPatched, installed, certVars>>

\* backoff.Retry of the Patch of ServiceAccount "default", every second
\* without limit while it is NotFound; any other error is Permanent
PatchServiceAccount ==
    /\ pc = "patch"
    /\ \/ /\ saDefault /\ saPatched' = TRUE /\ Goto("certs") /\ UNCHANGED faults
       \/ /\ Fault /\ Fatal /\ UNCHANGED saPatched
    /\ UNCHANGED <<name, whCert, runs, cloud, localRobots, localMainNs, authStored, pullSecret,
                   saDefault, installed, certVars>>

\* (mutant) the existing secret is never reused: every run generates
EnsureWebhookCertsAlwaysGenerate ==
    /\ pc = "certs"
    /\ \/ /\ whCert' = runs /\ Goto("init") /\ UNCHANGED <<faults, getFailedCerts>>
       \/ /\ Fault /\ getFailedCerts' = getFailedCerts \cup {runs} /\ whCert' = runs /\ Goto("init")
       \/ /\ Fault /\ Fatal /\ UNCHANGED <<whCert, getFailedCerts>>
    /\ UNCHANGED <<name, runs, cloud, localRobots, localMainNs, authStored, pullSecret,
                   saDefault, saPatched, installed, whSecret, served>>

(* ensureWebhookCerts: Get chart-assignment-controller-tls; a secret with
   label cert-format=v2 gives back its cert.  NotFound, another label or any
   other Get error lead to a new key and self-signed cert (run k's cert is
   k); a failure of the generation is log.Fatal. *)
EnsureWebhookCerts ==
    /\ pc = "certs"
    /\ \/ /\ LabelledV2(whSecret) /\ whCert' = whSecret /\ Goto("init")
          /\ UNCHANGED <<faults, getFailedCerts>>
       \/ /\ ~LabelledV2(whSecret) /\ whCert' = runs /\ Goto("init")
          /\ UNCHANGED <<faults, getFailedCerts>>
       \/ /\ Fault /\ getFailedCerts' = getFailedCerts \cup {runs} /\ whCert' = runs /\ Goto("init")
       \/ /\ Fault /\ Fatal /\ UNCHANGED <<whCert, getFailedCerts>>
    /\ UNCHANGED <<name, runs, cloud, localRobots, localMainNs, authStored, pullSecret,
                   saDefault, saPatched, installed, whSecret, served>>

\* exec synk init
SynkInit ==
    /\ pc = "init"
    /\ \/ /\ Goto("install") /\ UNCHANGED faults
       \/ /\ Fault /\ Fatal
    /\ UNCHANGED <<name, whCert, runs, cloud, local>>

\* installChartOrDie: create BaseNs (AlreadyExists is fine), helm template
\* and synk apply of base-robot with robot.name = name and webhook.tls =
\* whCert; the chart writes the tls secret (labelled v2) and the webhook
\* configuration's caBundle from it.  A first install starts the
\* chart-assignment-controller with the secret mounted; a later apply leaves
\* the running pod alone.
InstallChart ==
    /\ pc = "install"
    /\ \/ /\ installed' = name /\ whSecret' = whCert /\ Goto("done") /\ UNCHANGED faults
          /\ served' = IF served = NoCert THEN whCert ELSE served
       \/ /\ Fault /\ Fatal /\ UNCHANGED <<installed, whSecret, served>>
    /\ UNCHANGED <<name, whCert, runs, cloud, localRobots, localMainNs, authStored, pullSecret,
                   saDefault, saPatched, getFailedCerts>>

-----------------------------------------------------------------------------
(* The environment *)

\* the operator starts setup-robot again (after it ended, or interrupting it)
Rerun(r) ==
    /\ runs < MaxRuns /\ runs' = runs + 1
    /\ pc' = "dns" /\ tries' = 0 /\ name' = r /\ syncIdx' = 1 /\ whCert' = NoCert
    /\ UNCHANGED <<faults, cloud, local>>

DNSResolves ==
    /\ ~dnsUp /\ dnsUp' = TRUE
    /\ UNCHANGED <<pc, tries, name, whCert, syncIdx, runs, faults, svcUp, tokenSecret, cfgMap,
                   cloudRobots, local>>

ServiceAnswers ==
    /\ ~svcUp /\ svcUp' = TRUE
    /\ UNCHANGED <<pc, tries, name, whCert, syncIdx, runs, faults, dnsUp, tokenSecret, cfgMap,
                   cloudRobots, local>>

\* the cloud's token controller fills a service-account token secret
TokenControllerFills(r) ==
    /\ tokenSecret[r] = "empty" /\ tokenSecret' = [tokenSecret EXCEPT ![r] = "token"]
    /\ UNCHANGED <<pc, tries, name, whCert, syncIdx, runs, faults, dnsUp, svcUp, cfgMap,
                   cloudRobots, local>>

\* the tenant controller copies the template config map (ensureRobotSetupConfig)
TenantControllerWritesConfig ==
    /\ cfgMap = "absent" /\ cfgMap' = IF CfgComplete THEN "complete" ELSE "incomplete"
    /\ UNCHANGED <<pc, tries, name, whCert, syncIdx, runs, faults, dnsUp, svcUp, tokenSecret,
                   cloudRobots, local>>

\* the cr-syncer of the installed chart copies its Robot to the local cluster
CrSyncerSyncsRobot ==
    /\ installed \in cloudRobots \ localRobots
    /\ localRobots' = localRobots \cup {installed}
    /\ UNCHANGED <<pc, tries, name, whCert, syncIdx, runs, faults, cloud, localMainNs, authStored,
                   pullSecret, saDefault, saPatched, installed, certVars>>

\* the kubelet refreshes the mounted tls secret of the running
\* chart-assignment-controller (about once a minute)
MountRefresh ==
    /\ served \notin {NoCert, whSecret}
    /\ served' = whSecret
    /\ UNCHANGED <<pc, tries, name, whCert, syncIdx, runs, faults, cloud, localRobots,
                   localMainNs, authStored, pullSecret, saDefault, saPatched, installed,
                   whSecret, getFailedCerts>>

\* the local service-account controller creates "default" in BaseNs
SAControllerCreatesDefault ==
    /\ ~saDefault /\ saDefault' = TRUE
    /\ UNCHANGED <<pc, tries, name, whCert, syncIdx, runs, faults, cloud, localRobots, localMainNs,
                   authStored, pullSecret, saPatched, installed, certVars>>

Step ==
    \/ WaitForDNS \/ WaitForService \/ EnsureTenantMainNamespace \/ CheckRobotName
    \/ CreateTokenSecret \/ WaitForToken \/ GetRobotSetupConfigmap
    \/ CreateOrUpdateRobot \/ StoreInK8sSecret \/ SyncDockerSecret \/ SyncNamespace
    \/ PatchServiceAccount \/ EnsureWebhookCerts \/ SynkInit \/ InstallChart

Environment ==
    \/ \E r \in RobotNames : Rerun(r)
    \/ DNSResolves \/ ServiceAnswers \/ TenantControllerWritesConfig
    \/ \E r \in RobotNames : TokenControllerFills(r)
    \/ CrSyncerSyncsRobot \/ SAControllerCreatesDefault \/ MountRefresh

\* a fresh robot cluster, or one left by an earlier complete installation:
\* the pull secret in BaseNs with "default" patched, copies of it elsewhere
PriorPullSecrets ==
    {[n \in LocalNs |-> "none"]}
    \cup {p \in [LocalNs -> {"none", "old"}] : p[BaseNs] = "old"}
Init ==
    /\ pc = "dns" /\ tries = 0 /\ name \in RobotNames /\ syncIdx = 1
    /\ runs = 1 /\ faults = 0
    /\ dnsUp \in BOOLEAN /\ svcUp \in BOOLEAN
    /\ tokenSecret = [r \in RobotNames |-> "absent"]
    /\ cfgMap \in {"absent", IF CfgComplete THEN "complete" ELSE "incomplete"}
    /\ cloudRobots = {} /\ localRobots = {} /\ localMainNs = FALSE
    /\ authStored = None
    /\ pullSecret \in PriorPullSecrets
    /\ saDefault = (pullSecret[BaseNs] = "old")
    /\ saPatched = (pullSecret[BaseNs] = "old")
    /\ installed = None
    /\ whSecret \in IF pullSecret[BaseNs] = "old" THEN {PriorCert, LegacyCert} ELSE {NoCert}
    /\ served = whSecret /\ whCert = NoCert /\ getFailedCerts = {}

Next == Step \/ Environment

\* main runs its steps one after the other, and the token, service-account
\* and cr-syncer controllers keep working.  Nothing guarantees that the
\* domain ever resolves, that the endpoint answers or that the tenant (and
\* so its config map) exists: those waits are bounded for that reason.  The
\* operator is under no obligation to rerun.
Fairness ==
    /\ WF_vars(Step)
    /\ \A r \in RobotNames : WF_vars(TokenControllerFills(r))
    /\ WF_vars(CrSyncerSyncsRobot) /\ WF_vars(SAControllerCreatesDefault)
    /\ WF_vars(MountRefresh)

Spec == Init /\ [][Next]_vars /\ Fairness

-----------------------------------------------------------------------------
(* Properties *)

TypeOK ==
    /\ pc \in Steps /\ tries \in 0..Retries /\ name \in RobotNames
    /\ syncIdx \in 1..(Len(NsList) + 1) /\ runs \in 1..MaxRuns
    /\ tokenSecret \in [RobotNames -> {"absent", "empty", "token"}]
    /\ cfgMap \in {"absent", "incomplete", "complete"}
    /\ cloudRobots \subseteq RobotNames /\ localRobots \subseteq RobotNames
    /\ authStored \in RobotNames \cup {None} /\ installed \in RobotNames \cup {None}
    /\ pullSecret \in [LocalNs -> SecretStates]
    /\ {whSecret, whCert, served} \subseteq Certs /\ getFailedCerts \subseteq Certs

\* A run that prints "Setup complete" has, whatever earlier runs under other
\* names left behind or broke off, registered its Robot in the cloud with a
\* filled token secret, stored its own name in robot-auth, the current pull
\* secret in BaseNs and installed the chart under its own name.
SetupCompleteImpliesRegistered ==
    pc = "done" =>
        /\ name \in cloudRobots /\ tokenSecret[name] = "token"
        /\ authStored = name /\ installed = name
        /\ pullSecret[BaseNs] = "cur"

\* The webhook keeps serving the cert its caBundle names across reruns: the
\* running chart-assignment-controller serves a v2 cert other than the one
\* in chart-assignment-controller-tls (so admission calls fail until the
\* kubelet refreshes the mount) only after ensureWebhookCerts could not read
\* that secret and generated a new cert ("This is crucial, since mounted
\* secrets are only updated once a minute").
ServedCertStaleOnlyAfterGetError ==
    (LabelledV2(served) /\ served # whSecret) => whSecret \in getFailedCerts

\* Every run of setup-robot ends, with "Setup complete" or log.Fatal: the
\* bounded waits end, and the unbounded ServiceAccount patch loop ends
\* because the service-account controller creates "default".
SetupTerminates == \A k \in 1..MaxRuns :
    (runs = k /\ pc \notin Ended) ~> (runs # k \/ pc \in Ended)

\* When main prints "Setup complete" the local cluster is set up: the tenant
\* main namespace exists (ensureTenantMainNamespace) and ServiceAccount
\* "default" of BaseNs references the pull secret (syncDockerSecret), so
\* pods of the base chart can pull their images.
LocalSetupComplete == pc = "done" => localMainNs /\ saPatched

\* The cluster is never reinstalled under another robot name (the comment of
\* checkRobotName: it is not safe to rename a set-up cluster).
InstalledUnderOneName ==
    [][installed # None /\ installed' # None => installed' = installed]_vars

====
