# TLA+ models of the cloud-robotics tenant controller

This directory holds TLA+ specifications of the Go code under `src/src/go`,
and the TLC configurations that check them. Most of the model is about
`pkg/controller/tenant`, the controller that turns a cluster-scoped `Tenant`
object into the following:

- namespaces;
- service accounts;
- role bindings;
- a pull secret;
- a robot-setup config map;
- and, with tenant-specific gateways, a DNS entry, a TLS certificate and an
  Istio gateway.

## 1. Inventory

### Parts of the system and how they interact

| Part | Code | State it owns or changes |
|---|---|---|
| Reconciler | `controller.go` `Reconcile`, `ensure*`, `collect*`, `updateTenantStatus` | the Tenant's finalizer and status (conditions, domain, gateway); namespaces, SAs, role bindings, secrets, config map, DNSEntry, Certificate, Gateway |
| Event router (partly: the template config map's Update and Delete handlers and the failed-List path of `enqueueFromNamespaceName` are left out; they only add or drop enqueues) | `controller.go` `Add`, `enqueueAll`, `enqueueFromNamespaceName`, `enqueueFromObjectNamespace` | the work queue |
| Admission validator | `validatingwebhook.go` `Handle` | none; it admits or denies Tenant writes, based on a List from the manager's cache |
| Naming helpers | `coretools/commonfunctions.go`, `commonconfig.go` | none; they map tenant names to namespace names |
| Manager main | `cmd/tenant-controller/main.go` | starts the controller (one worker) and the webhook |
| setup-robot | `cmd/setup-robot/main.go` | on the robot: the cloud Robot and token secret, the local tenant namespace, robot-auth secret, pull secrets, the default ServiceAccount, the base-robot chart |
| logging-proxy, robotauth, setup | `cmd/logging-proxy`, `pkg/robotauth`, `pkg/setup` | an HTTP proxy, a credentials file and a terminal prompt (not modelled, see §6) |

controller-runtime runs `Reconcile` on one worker goroutine. The default
MaxConcurrentReconciles is 1. The worker takes keys from a deduplicating work
queue. A key is added by:

- the watch on Tenants;
- the Namespace create/delete handlers;
- owner references on SAs, role bindings, secrets, DNS entries, certificates
  and gateways;
- the template config map's handlers, which enqueue every Tenant;
- Robot create/delete;
- the Result of a pass: requeueFast (3 s), requeueSlow (3 min), or an error
  (rate-limited retry).

Between any two API calls of a pass, other actors change the cluster:

- users (creating, editing and deleting Tenants and AppRollouts);
- the garbage collector and the namespace controller;
- the app-rollout controller, which turns AppRollouts into ChartAssignments;
- the service-account controller;
- the DNS and certificate controllers.

The webhook is called by the API server before a Tenant write is persisted.

`setup-robot` runs once per robot cluster, started by an operator. It waits
for the cloud's DNS and API endpoint, registers the Robot in the tenant's
namespace, waits for the token the cloud's token controller writes, reads the
robot-setup config map that the tenant controller writes, and installs the
base-robot chart locally. That chart's cr-syncer later copies the cloud Robot
into the local cluster.

### Hard behaviours

- A pass reads the Tenant once, then makes up to about fifteen API calls. Each
  may fail, and the Tenant may change meanwhile (optimistic concurrency).
- Deletion is guarded by a finalizer. The dependents are checked by List, and
  the finalizer is removed by a later Update.
- AppRollouts, ChartAssignments and the default SA are not watched. Only the
  requeue interval brings the controller back.
- The namespace watch has no Update handler, so the start of a namespace
  deletion is not seen.
- The controller may crash and restart, which loses the in-memory queue.
- Namespace names are string functions of tenant names. Routing matches raw
  string prefixes.
- The webhook reads an informer cache and is not atomic with the write it
  admits.

## 2. Modules

| Module | Models | State (VARIABLES) | Actions |
|---|---|---|---|
| `TenantValidation` | `tenantValidator.Handle` | none | operator `Handle(name, hasDomain, op, existing, default, tsg)` |
| `TenantReconciler` | one worker running `Reconcile`, the watches, and the cluster actors | `tenant` (stored objects); `queue`; pass variables `wpc` (step), `wt` (key), `mem` (the pass's copy `t`), `fresh` (resourceVersion still current), `lastErr`, `dnsErr`, `certErr`, `res`, `early`; cluster variables `ns`, `defaultSA`, `appRollout`, `chartAssign`, `templates`, `dns`, `cert`, `gateway`, `robotCfg`; budgets `faults`, `userOps` | one action per API call or ensure function of `Reconcile` (see below), `Restart`, and one action per environment event |
| `MC_TenantReconciler` | model values and constant sets for TLC; it also extends `TenantConditions` | — | — |
| `TenantNaming` | `TenantMainNamespace`, `RobotConfigNamespace`, the app prefix of `collectTenantNamespaces`, `enqueueFromNamespaceName`, `enqueueFromObjectNamespace` | `live` (existing tenant names), `event`, `routed` | `NamespaceEvent(ns)`, `RobotEvent(ns)` |
| `AdmissionWebhook` | `Handle` reading the cache, and the API server persisting afterwards | `stored`, `cache`, `req` | `Validate(n)`, `Persist(n)`, `CacheSync(n)` |
| `MC_AdmissionWebhook` | model values | — | — |
| `TenantLifecycle` | the abstract life of a Tenant: what the finalizer protocol promises | `life` (absent, unguarded, guarded, deleting), `apps` (AppRollouts or ChartAssignments left) | `Create`, `Guard`, `DeleteUnguarded`, `MarkDeleted`, `AppsAppear`, `AppsRemoved`, `Remove` |
| `SetupRobot` | `main` of setup-robot and the functions it calls, the cloud and local controllers around it, and the operator | `pc` (next step of `main`), `tries` (of the current retry loop), `name`, `syncIdx`, `runs`, `faults`; cloud: `dnsUp`, `svcUp`, `tokenSecret`, `cfgMap`, `cloudRobots`; local: `localRobots`, `localMainNs`, `authStored`, `pullSecret`, `saDefault`, `saPatched`, `installed`, `whSecret` (cert of `chart-assignment-controller-tls`), `served` (cert the running webhook has mounted); per run `whCert`; auxiliary `getFailedCerts` | one action per step of `main` (`WaitForDNS` … `EnsureWebhookCerts`, `SynkInit`, `InstallChart`), `Rerun(r)`, and the environment's `DNSResolves`, `ServiceAnswers`, `TokenControllerFills`, `TenantControllerWritesConfig`, `CrSyncerSyncsRobot`, `SAControllerCreatesDefault`, `MountRefresh` |
| `MC_SetupRobot` | model values; it also extends `KeyValues` | — | — |
| `TenantConditions` | `setCondition` and `inCondition` (controller.go:94-134) | none: pure operators over a condition list (a sequence of records `type`, `status`, `msg`, `upd` = LastUpdateTime, `trans` = LastTransitionTime; a time is a number) | `SetCondition(conds, tc, v, msg, now)`, `InCondition(conds, tc)`; `ApplyCalls(h)` runs a history of calls, call k at time k |
| `KeyValues` | `parseKeyValues` (setup-robot main.go:558-579) | none: a flag value is a sequence of characters over `k v = , \` | `EscapeCommas` (the `ReplaceAll` of `\,` by the sentinel), `SplitOn` (`strings.Split`), `KeyOf`/`ValueOf` (`SplitN(l, "=", 2)`), `ParseEntries` (the loop filling the map, a later key winning), `ParseKeyValues` |

### The steps of a `Reconcile` pass in `TenantReconciler`

The variable `wpc` names the next call. Each step below is one action, and
each allows an API error (a `Fault`, drawn from the budget `MaxFaults`).

| Action | Code |
|---|---|
| `Start(t)` | the worker dequeues a key |
| `GetTenant` | `client.Get`. If not found, the pass returns `Result{}`. With a deletion timestamp, it goes to deletion |
| `EnsureDeletedRollouts`, `EnsureDeletedChartAssignments`, `RemoveFinalizer` | `ensureDeleted` and the finalizer removal at lines 273-292 |
| `AddFinalizer` | lines 294-301. A stale copy conflicts |
| `EnsureNamespace` | `ensureNamespace` for main, then robot-config. A terminating namespace returns requeueFast after writing the status |
| `Collect` | `collectTenantNamespaces` and `collectRobots`. They only read (counts are abstracted); an error returns after writing the status |
| `EnsureServiceAccount`, `EnsurePermissions`, `EnsureRobotSetupConfig`, `EnsurePullSecret` | the ensure functions. Each sets its condition; an error is kept in `lastErrorOnEnsure` and the pass goes on |
| `EnsureDNS`, `EnsureCertificate`, `EnsureGateway` | the tenant-specific-gateway block, with the same skip rules as lines 357-386 |
| `UseDefaultGateway` | lines 387-390 |
| `UpdateStatus` | `updateTenantStatus`, then the Result. The error is ignored on early returns, and a stale copy conflicts |

`Restart` models a crash of the manager. The pass and the queue are lost. On
restart, the informers' initial List enqueues every existing Tenant.

Abstractions:

- Domains are tagged tuples:
  - `<<"nat", t>>` is `<t>.t.<domain>`;
  - `<<"custom">>` is a spec domain;
  - `<<"gen", g>>` is a random one.
- Domain lengths are integers, as in the code: `NameLen[t]`, `DomainLen`
  (the `--domain` flag) and `CustomLen` give the lengths of the names.
  `DomainLength` computes a domain's length from them, and `TooLong` and
  `CanGenerate` are the code's `> 62` and `<= 61` comparisons.
  `CustomUnderSub` says whether the custom domain contains `.t.<domain>`.
- Time is abstracted: a requeue puts the key back into the queue at once.
  Fairness then stands for "the timer eventually fires".

`TemplateCreated("config")` includes the handler's `enqueueAll`, whose failing
List enqueues nothing.

### Refinement

`TenantReconciler` defines `Lifecycle == INSTANCE TenantLifecycle WITH ...`.
The mapping is:

- `life[t]` comes from the stored Tenant: absent; marked for deletion; with
  the finalizer; or without it.
- `apps[t]` is `appRollout[t] \/ chartAssign[t]`.

`LifecycleSafety` (`Lifecycle!SafeSpec`) says every step of the controller
and its cluster is a lifecycle step or a stutter. The finalizer goes only onto
a Tenant that is not being deleted, and a guarded Tenant disappears only when
it is marked and drained. `LifecycleSpec` (`Lifecycle!Spec`) adds the
lifecycle's fairness: a deleting Tenant's apps are removed, and a drained one
is removed.

### `SetupRobot`

`pc` walks through `main`'s calls in order. Each wait in a retry loop
(`waitForDNS`, `waitForService`, `waitForServiceAccountToken`,
`getRobotSetupConfigmap`) goes through `RetryStep`:

- success moves on;
- failure retries up to `Retries` times;
- after that the run fails (`log.Fatal`).

Any other failing API call is `Fatal`. The exceptions are the errors the code
drops, and the ServiceAccount patch, which is retried for as long as it is
NotFound. `Rerun(r)` is the operator interrupting (or finishing) a run and
starting setup-robot again with name `r`. Helm values, labels and flags are
data and are left out.

Webhook certificates are numbers: run k generates cert k; a cluster left by
an earlier installation holds `PriorCert` (labelled `cert-format=v2`) or
`LegacyCert` (an older format). `EnsureWebhookCerts` reuses a v2 secret and
otherwise generates. A Get error other than NotFound also generates, because
the code only tests `err == nil`. `InstallChart` writes the cert into the
secret and the caBundle (the chart, outside this repository, labels the
secret v2, as the reuse branch expects). It starts the webhook pod with the
secret mounted on the first install only. `MountRefresh` is the kubelet's
refresh of the mounted secret, about once a minute. `getFailedCerts` records
the certs generated after a failed Get; it is read only by the property.

In `TenantNaming`, names are sequences of tokens:

- `"a"` is a letter;
- `"-"` is a hyphen;
- `"t"` stands for "t", `"R"` for "robot-config", `"P"` for "app" and `"D"` for
  "default".

The string functions are translated to sequence operators: `IsPrefix` for
`HasPrefix`, and `SubSeq` for `SplitN` and `TrimPrefix`.

## 3. Runs

| Run | Cfg | Expect | What it shows |
|---|---|---|---|
| reconciler_safety | `MC_TenantReconciler_safety.cfg` | pass | one tenant whose natural domain is 63 characters, tenant gateways, a 62-character custom domain, the config template created late, one fault or restart, two user ops. `NoLostTenant`: an existing Tenant is always queued or being reconciled. `WildcardNamesFit`: every `*.<domain>` written to a DNSEntry or Certificate fits 64 characters. `LifecycleSafety`: the controller implements the safety part of `TenantLifecycle`, when users do not create AppRollouts in a deleting tenant |
| reconciler_default | `…_default.cfg` | pass | the default tenant and two others, the webhook rule, no tenant gateways, three user ops: `NoLostTenant` over interleaved keys, through the default-gateway branch (`UseDefaultGateway`) and a tenant recreated while its namespaces terminate. The type invariant and the lifecycle refinement are checked in the safety run only: the lifecycle steps are per tenant, so more tenants add nothing to them |
| reconciler_live | `…_live.cfg` | pass | a 70-character custom domain as well (`WildcardNamesFit` at the bound is checked in the safety run). `Convergence`: every existing, undeleted Tenant ends with all conditions True and DNS, certificate, gateway and config map on the recorded domain. `LifecycleSpec`: the controller implements `TenantLifecycle` with its fairness, so a deleted Tenant is drained and disappears. `ConditionsFollowHistory`: for every history of up to 4 `setCondition` calls over two types, two statuses and two messages, the list holds one entry per type in first-set order, with the last status and message, LastTransitionTime at the last status change and LastUpdateTime at the last change of status or message; `inCondition` is True exactly for types whose last call set True. A mutant that stamps LastUpdateTime on every call breaks it |
| reconciler_teardown_race | `…_teardown.cfg` | violation | an AppRollout created after `ensureDeleted`'s List survives the finalizer removal |
| reconciler_snapshot_order | `…_snapshot.cfg` | violation | a fully successful pass wrote the previous domain into the robot-setup config map, because `ensureRobotSetupConfig` runs before `ensureDNS` |
| reconciler_custom_domain_stale | `…_custom.cfg` | violation | `DomainFollowsSpec`, with a custom domain under `.t.<domain>` (`CustomUnderSub`): t1 (natural domain 63 characters) is created with the custom domain, and the user then clears it. `ensureDNS` keeps the custom domain, because the too-long fallback reuses any status domain that contains `.t.<domain>` (controller.go:780), not only a generated one |
| naming_routing | `TenantNaming_pass.cfg` | pass | every namespace or robot event about a tenant enqueues it |
| naming_namespace_ownership | `TenantNaming_collision.cfg` | violation | `NamespaceOwnedOnce`: tenant `a` collects the robot-config namespace of tenant `a-app` as an app namespace. The same property is broken by `a` and `a-robot-config`, which share a namespace |
| admission_race | `MC_AdmissionWebhook_race.cfg` | violation | the default tenant and another tenant both admitted: both creates are validated before either is persisted, so `Handle`'s List cannot see the other one. This is a check-then-store race; a lagging cache only widens it |
| setup_robot | `MC_SetupRobot_pass.cfg` | pass | two names, reruns and one failed API call. `SetupCompleteImpliesRegistered`: a completed run has registered its own name in the cloud, got its token, stored its auth and installed the chart under it. `ServedCertStaleOnlyAfterGetError`: across reruns, the webhook serves a v2 cert other than the one its caBundle and secret hold only when that cert was generated because a Get of the tls secret failed (the window the code's "This is crucial" comment guards against); a mutant that never reuses the secret breaks it. `SetupTerminates`: every run ends, though the cloud may never be ready. `ParseKeyValuesMatchesReference`: for every flag value of up to 5 characters, `parseKeyValues` fails exactly when an entry, cut at the commas no backslash escapes, lacks `=`, and otherwise maps each key to the value of its last entry with the escaped commas restored; a mutant that splits before replacing the escaped commas breaks it |
| setup_robot_patch_lost | `MC_SetupRobot_patch.cfg` | violation | `LocalSetupComplete`: a run interrupted between creating the pull secret in `default` and patching ServiceAccount `default` is followed by a completed run that never patches it |
| setup_robot_rename | `MC_SetupRobot_rename.cfg` | violation | `InstalledUnderOneName`: a rerun under another name before the cr-syncer copied the first Robot down passes `checkRobotName` and reinstalls the chart |

Each property of a passing run has a mutant in `PROJECT.json`: a plausible bug
in the mapped code that TLC catches under the run's own configuration. The
findings are listed in `PROJECT.json`.

### Bounds and why they suffice

- **Tenants.**
  - One non-default tenant exercises every step of a pass against every
    environment event.
  - The default run adds the default tenant and a second tenant, for the
    webhook's exclusivity rule and for interleaving keys.
  - Two gateway-enabled tenants took over ten minutes to check. Tenants do not
    share objects in `TenantReconciler` (the cross-tenant clashes are in
    `TenantNaming`), so one tenant loses no interaction.
- **`MaxFaults` = 1.** One fault or restart lands at every step of a pass.
  Two faults would only repeat the recovery path.
- **`MaxUserOps` = 2 or 3.** This allows create then delete, or create and then
  edit, which is enough for the finalizer and domain-change paths. AppRollout
  creation is not budgeted.
- **`GenLabels`.** Two labels in the live run, so that regenerating the domain
  is visible. One label in the safety runs.
- **Domain lengths.** `DomainLen` = 11 (`example.com`) and `NameLen[t1]` =
  49 make t1's natural domain 63 characters: the first length the code
  regenerates. A custom domain of 62 characters is the longest one kept, and
  one of 70 characters is replaced. `CustomUnderSub` is FALSE except in the
  stale-custom-domain run, where the custom domain lies under `.t.<domain>`. A `> 63` mutant of the bound writes a
  65-character common name.
- **setup-robot.** `Retries` = 6, as in the code. The pass run allows `MaxRuns` = 3,
  so a regenerated cert can be followed by a further rerun that must reuse
  it. The violation runs need only 2. There are two robot names (a rerun under another
  name), three namespaces with `default` in the middle (for the walk of
  `syncDockerSecret`), `MaxRuns` = 2 in the violation runs (one interrupted run and one rerun) and
  `MaxFaults` = 1 (one failing call at any step). The patch-loss run uses no
  fault at all, to show that an interrupt alone loses the patch.
- **Pure operators.** `TenantConditions` checks all 4,681 histories of up to
  `MaxCalls` = 4 calls: enough for a type set, re-set with the same values,
  with only a new message, and with a new status, and for a second type in
  between. `KeyValues` checks all 3,906 flag values of up to `MaxFlagLen` = 5
  characters. This covers `k=v,k=v` (a later key wins), `k=\,v` (an escaped
  comma), `\\,` (a backslash before an escaped comma), `,` (empty entries)
  and `k==v` (a value holding `=`). Length 6 also passes, but takes
  32 seconds instead of 2. Both checks are constant expressions (`ConditionsMatchHistory`,
  `ParseMatchesReference`). The MC modules state them as invariants
  (`ConditionsFollowHistory`, `ParseKeyValuesMatchesReference`). TLC
  evaluates the constant part once, so the checks add nothing to the state
  space of the run that carries them.
- **`MaxNameLen` = 3.** This is the shortest length at which the prefix
  (`a`/`aa`), collision (`a`/`a-R`) and collect (`a`/`a-P`) cases exist.

### Fairness

The worker is strongly fair to each queued key (`SF(Start(t))`).
controller-runtime's queue is FIFO and deduplicating, so a key that stays
queued is eventually served, even while other keys come and go.

Each pass step, and the cluster controllers' reactions, are weakly fair:

- the namespace controller finishing a deletion;
- garbage collection;
- the SA controller creating `default`;
- the app-rollout controller;
- DNS and cert readiness.

Users, faults and `Restart` have no fairness: they may stop at any time.

In `SetupRobot`, `main`'s steps are weakly fair. So are the controllers that
run by themselves: the cloud token controller, the local service-account
controller, the cr-syncer and the kubelet's mount refresh. DNS, the API endpoint and the tenant's config
map get no fairness, because nothing in the code's environment guarantees
them; that is why the waits are bounded. The operator's reruns get no
fairness either.

`CHECK_DEADLOCK FALSE` is used in every cfg. An idle worker with an empty
queue and no budget left is a real resting state of the controller, not a
deadlock.

## 4. Open work

1. Composition: `SetupRobot` waiting on the `robotCfg` that
   `TenantReconciler` writes, instead of an environment action. The
   product of the two state spaces is beyond five minutes at the bounds used.
2. The template config map's update and delete handlers, and the deletion of
   templates.
3. Violations seen while modelling, with no run yet: the robot-type wipe on
   a rerun (see §6), and two tenants given the same domain
   (controller.go:789).

## 5. Hazards

`PROJECT.json` lists each hazard at its source line, with the properties that
cover it.

## 6. Not modelled

- Object contents: labels, role-binding subjects, secret and config-map data,
  robot counts. No property depends on them.
- setup-robot's Robot data. `createOrUpdateRobot` merges labels and
  annotations into an existing Robot, but it sets `spec.type` to
  `--robot-type` unconditionally (main.go:552). So a rerun without the flag
  clears the type, although the flag's help calls it optional once the robot
  is registered. This is a plain two-call sequence and no property here is
  about Robot data, so the model keeps only the Robot's existence.
- Over-routing: because routing matches raw prefixes, an event for `t-aa`
  also enqueues tenant `a`. That costs only a spurious reconcile of `a`.
  `RoutingComplete` checks the direction that matters: an owner never misses
  its event.
- Condition messages and timestamps inside `TenantReconciler`: the
  reconciler keeps only each condition's status. The timestamp rules are
  checked on their own in `TenantConditions`.
- The nil-map panic of `ensureRobotSetupConfig` (line 968) when the template
  has no data.
- Decode errors in the webhook, and DELETE requests. The checks skip DELETE.
- In `setup-robot`: flag parsing and `mergeMaps` (a plain map union, the
  additions winning), the cryptography of the webhook
  certificate (a cert is a number) and helm value formatting. These are
  data. A cert that is regenerated only because a Get failed is a short
  outage, which the code's comment calls crucial to avoid. The invariant
  states exactly when it can happen.
- `logging-proxy`: each request is rewritten on its own (new URL, a
  `tenant-namespace` query parameter, hop-by-hop headers dropped). The only
  shared state is a debug counter, and it is read and incremented under a
  mutex. The spec lists the logging relay among the excluded thin wrappers.
  Note that `q.Add` keeps a `tenant-namespace` parameter the client sent
  itself. That is a property of one request, not of an interleaving.
- The spec says a DNS entry or certificate that is not Ready gets a fast
  recheck. The code returns `requeueSlow` there (controller.go:402). Only the
  interval differs, which the untimed model does not tell apart.
  `Convergence` shows that progress still comes from the owner watches.
- `parseKeyValues` on a flag value that contains the literal text
  `_COMMA_SENTINEL_`: the code turns it into `,`. `KeyValues` treats the
  sentinel as one token that no input contains, so it leaves this case out.
- The length of setup-robot's retry waits. `newExponentialBackoff`
  (main.go:117-125) leaves `MaxInterval` at 0. In the `cenkalti/backoff`
  releases that cap the interval at `MaxInterval`, every wait after the
  first is then zero. The model is untimed and counts only the attempts
  (one plus six retries). The library version is not pinned in the
  repository.
- `robotauth`: setup-robot uses only the `RobotAuth` struct. Its file and
  token-source functions are I/O that no program in `src/` calls.
- `pkg/setup` (`setupcommon.go`): `GetRobotName` and `selectRobot` are
  interactive prompts, and nothing in `src/` calls them.
- `fake_mission.go` and the other generated fake clients: test doubles with
  no behaviour of the system.
- `synk` and the generated clients: no behaviour of their own.
