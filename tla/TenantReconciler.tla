-------------------------- MODULE TenantReconciler --------------------------
(***************************************************************************)
(* The tenant controller of src/go/pkg/controller/tenant/controller.go:    *)
(* one controller-runtime worker runs Reconcile passes for the keys of a   *)
(* deduplicating work queue, against a cluster whose other actors (users,  *)
(* the garbage collector, the namespace, service-account, app-rollout,     *)
(* DNS and certificate controllers) act between any two API calls of a     *)
(* pass.  A pass is a sequence of steps, one per API call or per ensure    *)
(* function of the code; the in-memory Tenant copy of the pass is `mem`.   *)
(***************************************************************************)
EXTENDS Naturals, FiniteSets

LOCAL V == INSTANCE TenantValidation

CONSTANTS
    Tenants,                \* tenant names that users may create
    DefaultTenant,          \* coretools.DefaultTenantName ("default")
    NoTenant,               \* the worker holds no key
    NameLen,                \* len(t.Name) of each tenant name
    DomainLen,              \* len(r.domain), the --domain flag
    CustomLen,              \* len of the custom spec.tenantDomain users may set
    CustomUnderSub,         \* the custom domain contains ".t.<r.domain>"
    GenLabels,              \* outcomes of coretools.RandomString in generateTenantDomain
    TenantSpecificGateways, \* the --tenant-specific-gateways flag
    MaxFaults,              \* bound on injected API errors and controller restarts
    MaxUserOps,             \* bound on user create/delete/edit actions
    RolloutsWhileDeleting,  \* may users create AppRollouts in a tenant being deleted?
    InitTemplates           \* templates present when the controller starts

ASSUME \A t \in Tenants : NameLen[t] \in Nat \ {0} /\ DomainLen \in Nat \ {0}
ASSUME CustomLen \in Nat \ {0} /\ CustomUnderSub \in BOOLEAN /\ TenantSpecificGateways \in BOOLEAN
ASSUME InitTemplates \subseteq {"secret", "config", "lb"}
ASSUME MaxFaults \in Nat /\ MaxUserOps \in Nat /\ RolloutsWhileDeleting \in BOOLEAN

VARIABLES
    tenant,     \* the stored Tenant objects (metadata, spec and status)
    queue,      \* keys in the controller's work queue
    wpc,        \* the step of the Reconcile pass the worker is at
    wt,         \* the key of the running pass
    mem,        \* the pass's in-memory copy `t` of the Tenant
    fresh,      \* mem carries the stored resourceVersion (no conflict on write)
    lastErr,    \* lastErrorOnEnsure # nil
    dnsErr,     \* dnsErrors
    certErr,    \* certErrors
    res,        \* the result the pass returns once the status is written
    early,      \* the pass returns early: the status write's error is ignored
    ns,         \* tenant namespaces: main and robot-config
    defaultSA,  \* the "default" ServiceAccount of each tenant namespace exists
    appRollout, \* an AppRollout exists in the tenant main namespace
    chartAssign,\* a ChartAssignment exists in the tenant main namespace
    templates,  \* the template pull secret, robot-setup config map and LB ingress exist
    dns,        \* DNSEntry "tenant-domain": its name and the name it is Ready for
    cert,       \* Certificate "t-<name>-tls": its common name and Ready-for name
    gateway,    \* host of Istio Gateway "tenant-gateway"
    robotCfg,   \* tenant_domain of the tenant's robot-setup config map
    faults,     \* injected faults so far
    userOps     \* user actions so far

vars == <<tenant, queue, wpc, wt, mem, fresh, lastErr, dnsErr, certErr, res, early,
          ns, defaultSA, appRollout, chartAssign, templates, dns, cert, gateway,
          robotCfg, faults, userOps>>
passVars == <<wpc, wt, mem, fresh, lastErr, dnsErr, certErr, res, early>>
clusterVars == <<ns, defaultSA, appRollout, chartAssign, templates, dns, cert,
                 gateway, robotCfg>>

-----------------------------------------------------------------------------
(* Data *)

NsKinds == {"main", "rc"}
NsOrder == <<"main", "rc">>     \* tenantNamespaces := {mainNamespace, robotConfigNamespace}
NsStates == {"absent", "active", "orphan", "terminating"}  \* orphan: owner Tenant gone

NoDomain == <<>>
NatDomain(t) == <<"nat", t>>    \* fmt.Sprintf("%s.t.%s", t.Name, r.domain)
CustomDomain == <<"custom">>    \* a non-empty spec.tenantDomain, CustomLen chars long
Domains == {NatDomain(t) : t \in Tenants} \cup {CustomDomain} \cup {<<"gen", g>> : g \in GenLabels}
SpecDomains == {NoDomain, CustomDomain}

CondTypes == {"Namespace", "ServiceAccount", "Permissions", "RobotSetupConfig",
              "PullSecret", "Domain", "Certificate", "Gateway"}
CondVals == {"True", "False", "None"}   \* None: the condition was never set
Results == {"none", "fast", "slow", "err"}  \* Result{}, requeueFast, requeueSlow, error

TenantRec == [exists: BOOLEAN, del: BOOLEAN, fin: BOOLEAN, spec: SpecDomains,
              domain: Domains \cup {NoDomain}, gw: {"", "default", "tenant"},
              conds: [CondTypes -> CondVals]]
Absent == [exists |-> FALSE, del |-> FALSE, fin |-> FALSE, spec |-> NoDomain,
           domain |-> NoDomain, gw |-> "", conds |-> [c \in CondTypes |-> "None"]]
Created(sd) == [Absent EXCEPT !.exists = TRUE, !.spec = sd]

\* Namespaces of the default tenant are "default" and "robot-config": they are
\* not created or owned by the controller.
IsDefault(t) == t = DefaultTenant
Usable(t, n) == ns[t][n] \in {"active", "orphan"}

-----------------------------------------------------------------------------
(* Helpers translated from the code *)

\* setCondition: at most one condition per type; messages and times are
\* left out.
SetCond(m, c, v) == [m EXCEPT !.conds[c] = v]

\* getDefaultTenantDomain
DefaultTenantDomain(t, m) == IF m.spec = NoDomain THEN NatDomain(t) ELSE m.spec

\* len(".t." + r.domain) in generateTenantDomain
TenantSubdomainLength == 3 + DomainLen

\* the length of a domain: "<name>.t.<domain>", the custom one, or
\* RandomString(62 - tenantSubdomainLength) followed by the tenant subdomain
DomainLength(d) ==
    CASE d[1] = "nat"    -> NameLen[d[2]] + TenantSubdomainLength
      [] d[1] = "custom" -> CustomLen
      [] d[1] = "gen"    -> (62 - TenantSubdomainLength) + TenantSubdomainLength

\* (mutant) the bound is checked against the certificate limit of 64
\* without the two characters of the wildcard "*."
TooLongWithoutWildcard(d) == DomainLength(d) > 63

\* len(tenantDomain) > 62
TooLong(d) == DomainLength(d) > 62

\* generateTenantDomain fails when the tenant subdomain exceeds 61 chars
CanGenerate == TenantSubdomainLength <= 61

\* strings.Contains(t.Status.TenantDomain, ".t."+r.domain)
HasTenantSubdomain(d) ==
    d # NoDomain /\ (d[1] \in {"nat", "gen"} \/ (d[1] = "custom" /\ CustomUnderSub))

\* (mutant) a long name gets a new random domain on every pass
ChosenDomainsAlwaysGenerate(t, m) ==
    LET d == DefaultTenantDomain(t, m) IN
    IF ~TooLong(d) THEN {d} ELSE {<<"gen", g>> : g \in GenLabels}

\* the domains ensureDNS may settle on (several only when generating one,
\* none when generating fails)
ChosenDomains(t, m) ==
    LET d == DefaultTenantDomain(t, m) IN
    IF ~TooLong(d) THEN {d}
    ELSE IF HasTenantSubdomain(m.domain) THEN {m.domain}
    ELSE IF CanGenerate THEN {<<"gen", g>> : g \in GenLabels}
    ELSE {}

\* an injected API error (or restart) drawn from the fault budget
Fault == faults < MaxFaults /\ faults' = faults + 1

\* the tenant's stored object changed: the pass's copy becomes stale, and the
\* Tenant watch (EnqueueRequestForObject) enqueues the key
TouchTenant(t) ==
    /\ fresh' = IF wt = t THEN FALSE ELSE fresh
    /\ queue' = queue \cup {t}

\* (mutant) the worker forgets the key it was processing
DoneKeepKey(r, extra) ==
    /\ wpc' = "idle" /\ mem' = Absent /\ fresh' = FALSE
    /\ lastErr' = FALSE /\ dnsErr' = FALSE /\ certErr' = FALSE
    /\ res' = "none" /\ early' = FALSE
    /\ queue' = queue \cup (IF r = "none" THEN extra ELSE extra \cup {wt})
    /\ UNCHANGED wt

\* Reconcile returns r: controller-runtime requeues the key unless r = "none"
Done(r, extra) ==
    /\ wpc' = "idle" /\ wt' = NoTenant /\ mem' = Absent /\ fresh' = FALSE
    /\ lastErr' = FALSE /\ dnsErr' = FALSE /\ certErr' = FALSE
    /\ res' = "none" /\ early' = FALSE
    /\ queue' = queue \cup (IF r = "none" THEN extra ELSE extra \cup {wt})

\* go to the status write, then return r
ToStatus(m, r, isEarly) ==
    /\ wpc' = "status" /\ mem' = m /\ res' = r /\ early' = isEarly

-----------------------------------------------------------------------------
(* The Reconcile pass *)

\* the worker takes a key off the queue
Start(t) ==
    /\ wpc = "idle" /\ t \in queue
    /\ queue' = queue \ {t} /\ wt' = t /\ wpc' = "get"
    /\ UNCHANGED <<tenant, mem, fresh, lastErr, dnsErr, certErr, res, early,
                   clusterVars, faults, userOps>>

\* r.client.Get of the Tenant; a deleted Tenant goes to clean-up
GetTenant ==
    /\ wpc = "get"
    /\ \/ /\ ~tenant[wt].exists /\ Done("none", {}) /\ UNCHANGED faults
       \/ /\ Fault /\ Done("err", {})
       \/ /\ tenant[wt].exists
          /\ mem' = tenant[wt] /\ fresh' = TRUE
          /\ wpc' = IF tenant[wt].del THEN "delAR" ELSE "addFin"
          /\ UNCHANGED <<queue, wt, lastErr, dnsErr, certErr, res, early, faults>>
    /\ UNCHANGED <<tenant, clusterVars, userOps>>

\* ensureDeleted, first half: delete all AppRollouts of the main namespace
\* and come back fast
EnsureDeletedRollouts ==
    /\ wpc = "delAR"
    /\ \/ /\ Fault /\ Done("err", {}) /\ UNCHANGED appRollout
       \/ /\ appRollout[wt]
          /\ appRollout' = [appRollout EXCEPT ![wt] = FALSE]
          /\ Done("fast", {}) /\ UNCHANGED faults
       \/ /\ ~appRollout[wt] /\ wpc' = "delCA"
          /\ UNCHANGED <<queue, wt, mem, fresh, lastErr, dnsErr, certErr, res, early,
                         appRollout, faults>>
    /\ UNCHANGED <<tenant, ns, defaultSA, chartAssign, templates, dns, cert, gateway,
                   robotCfg, userOps>>

\* (mutant) the ChartAssignment check is skipped
EnsureDeletedChartAssignmentsNoWait ==
    /\ wpc = "delCA" /\ wpc' = "rmFin"
    /\ UNCHANGED <<tenant, queue, wt, mem, fresh, lastErr, dnsErr, certErr, res, early,
                   clusterVars, faults, userOps>>

\* (mutant) waiting for ChartAssignments returns Result{} instead of requeueFast
EnsureDeletedChartAssignmentsNoRequeue ==
    /\ wpc = "delCA"
    /\ \/ /\ Fault /\ Done("err", {})
       \/ /\ chartAssign[wt] /\ Done("none", {}) /\ UNCHANGED faults
       \/ /\ ~chartAssign[wt] /\ wpc' = "rmFin"
          /\ UNCHANGED <<queue, wt, mem, fresh, lastErr, dnsErr, certErr, res, early, faults>>
    /\ UNCHANGED <<tenant, clusterVars, userOps>>

\* ensureDeleted, second half: wait until no ChartAssignment is left
EnsureDeletedChartAssignments ==
    /\ wpc = "delCA"
    /\ \/ /\ Fault /\ Done("err", {})
       \/ /\ chartAssign[wt] /\ Done("fast", {}) /\ UNCHANGED faults
       \/ /\ ~chartAssign[wt] /\ wpc' = "rmFin"
          /\ UNCHANGED <<queue, wt, mem, fresh, lastErr, dnsErr, certErr, res, early, faults>>
    /\ UNCHANGED <<tenant, clusterVars, userOps>>

\* active namespaces lose their owner when the Tenant is gone
Orphaned(t) ==
    IF IsDefault(t) THEN ns[t]
    ELSE [n \in NsKinds |-> IF ns[t][n] = "active" THEN "orphan" ELSE ns[t][n]]

\* remove the finalizer: the Tenant, marked for deletion, disappears and its
\* Delete event enqueues the key once more
RemoveFinalizer ==
    /\ wpc = "rmFin"
    /\ \/ /\ ~mem.fin /\ Done("none", {}) /\ UNCHANGED <<tenant, ns, faults>>
       \/ /\ mem.fin /\ Fault /\ Done("err", {}) /\ UNCHANGED <<tenant, ns>>
       \/ /\ mem.fin /\ ~fresh /\ Done("err", {}) /\ UNCHANGED <<tenant, ns, faults>>
       \/ /\ mem.fin /\ fresh
          /\ tenant' = [tenant EXCEPT ![wt] = Absent]
          /\ ns' = [ns EXCEPT ![wt] = Orphaned(wt)]
          /\ Done("none", {wt}) /\ UNCHANGED faults
    /\ UNCHANGED <<defaultSA, appRollout, chartAssign, templates, dns, cert, gateway,
                   robotCfg, userOps>>

\* add the finalizer before any other work; the update enqueues the key
AddFinalizer ==
    /\ wpc = "addFin"
    /\ \/ /\ mem.fin /\ wpc' = "ensNs"
          /\ UNCHANGED <<tenant, queue, wt, mem, fresh, faults>>
       \/ /\ ~mem.fin /\ Fault /\ Done("err", {}) /\ UNCHANGED tenant
       \/ /\ ~mem.fin /\ ~fresh /\ Done("err", {}) /\ UNCHANGED <<tenant, faults>>
       \/ /\ ~mem.fin /\ fresh
          /\ tenant' = [tenant EXCEPT ![wt].fin = TRUE]
          /\ mem' = [mem EXCEPT !.fin = TRUE]
          /\ queue' = queue \cup {wt}
          /\ wpc' = "ensNs"
          /\ UNCHANGED <<wt, fresh, faults>>
    /\ UNCHANGED <<lastErr, dnsErr, certErr, res, early, clusterVars, userOps>>

\* the namespaces in NsOrder before position k have been created or updated
\* (re-owned by this Tenant)
Reowned(st) == IF st \in {"absent", "orphan"} THEN "active" ELSE st
NsAfter(t, k) ==
    [n \in NsKinds |-> IF \E i \in 1..k : NsOrder[i] = n THEN Reowned(ns[t][n]) ELSE ns[t][n]]
CreatesNs(t, k) == \E i \in 1..k : ns[t][NsOrder[i]] = "absent"

\* ensureNamespace and its handling in Reconcile: a namespace in deletion
\* comes back fast, any other error returns it; both write the status first
EnsureNamespace ==
    /\ wpc = "ensNs"
    /\ \/ /\ IsDefault(wt)
          /\ mem' = SetCond(mem, "Namespace", "True") /\ wpc' = "collect"
          /\ UNCHANGED <<ns, queue, res, early, faults>>
       \/ /\ ~IsDefault(wt)
          /\ \A n \in NsKinds : ns[wt][n] # "terminating"
          /\ ns' = [ns EXCEPT ![wt] = NsAfter(wt, 2)]
          /\ queue' = queue \cup (IF CreatesNs(wt, 2) THEN {wt} ELSE {})
          /\ mem' = SetCond(mem, "Namespace", "True") /\ wpc' = "collect"
          /\ UNCHANGED <<res, early, faults>>
       \/ /\ ~IsDefault(wt)
          /\ \E i \in 1..2 :
               /\ \A j \in 1..(i - 1) : ns[wt][NsOrder[j]] # "terminating"
               /\ ns' = [ns EXCEPT ![wt] = NsAfter(wt, i - 1)]
               /\ queue' = queue \cup (IF CreatesNs(wt, i - 1) THEN {wt} ELSE {})
               /\ \/ /\ ns[wt][NsOrder[i]] = "terminating"
                     /\ ToStatus(SetCond(mem, "Namespace", "False"), "fast", TRUE)
                     /\ UNCHANGED faults
                  \/ /\ Fault
                     /\ ToStatus(SetCond(mem, "Namespace", "False"), "err", TRUE)
    /\ UNCHANGED <<tenant, wt, fresh, lastErr, dnsErr, certErr, defaultSA, appRollout,
                   chartAssign, templates, dns, cert, gateway, robotCfg, userOps>>

\* collectTenantNamespaces and collectRobots: they only read, and label every
\* namespace; an API error returns after writing the status
Collect ==
    /\ wpc = "collect"
    /\ \/ /\ wpc' = "ensSA" /\ UNCHANGED <<mem, res, early, faults>>
       \/ /\ Fault /\ ToStatus(mem, "err", TRUE)
    /\ UNCHANGED <<tenant, queue, wt, fresh, lastErr, dnsErr, certErr, clusterVars, userOps>>

\* an ensure function that succeeds when `ok` holds: otherwise (a template
\* missing, a namespace it writes to gone or terminating, a missing default
\* ServiceAccount) or on an API error it sets its condition False and the
\* error is kept in lastErrorOnEnsure; the pass goes on either way
EnsureWhen(c, ok, onSuccess) ==
    \/ /\ ok /\ onSuccess
       /\ mem' = SetCond(mem, c, "True")
       /\ UNCHANGED <<lastErr, faults>>
    \/ /\ ~ok
       /\ mem' = SetCond(mem, c, "False") /\ lastErr' = TRUE
       /\ UNCHANGED <<robotCfg, faults>>
    \/ /\ Fault
       /\ mem' = SetCond(mem, c, "False") /\ lastErr' = TRUE
       /\ UNCHANGED robotCfg

\* ensureServiceAccount: robot-service and robot-service-setup
EnsureServiceAccount ==
    /\ wpc = "ensSA" /\ wpc' = "ensRB"
    /\ EnsureWhen("ServiceAccount", Usable(wt, "rc"), TRUE)
    /\ UNCHANGED <<tenant, queue, wt, fresh, dnsErr, certErr, res, early, clusterVars, userOps>>

\* ensurePermissions: three role bindings in the main and robot-config namespaces
EnsurePermissions ==
    /\ wpc = "ensRB" /\ wpc' = "ensCfg"
    /\ EnsureWhen("Permissions", \A n \in NsKinds : Usable(wt, n), TRUE)
    /\ UNCHANGED <<tenant, queue, wt, fresh, dnsErr, certErr, res, early, clusterVars, userOps>>

\* ensureRobotSetupConfig: copy the template config map, with the tenant
\* domain the pass holds at this point
EnsureRobotSetupConfig ==
    /\ wpc = "ensCfg" /\ wpc' = "ensPull"
    /\ EnsureWhen("RobotSetupConfig", templates["config"] /\ Usable(wt, "rc"),
                  robotCfg' = [robotCfg EXCEPT ![wt] = mem.domain])
    /\ UNCHANGED <<tenant, queue, wt, fresh, dnsErr, certErr, res, early, ns, defaultSA,
                   appRollout, chartAssign, templates, dns, cert, gateway, userOps>>

\* ensurePullSecret: copy the template secret into each tenant namespace but
\* "default" and reference it from that namespace's default ServiceAccount
PullNs(t) == IF IsDefault(t) THEN {"rc"} ELSE NsKinds
EnsurePullSecret ==
    /\ wpc = "ensPull"
    /\ wpc' = IF TenantSpecificGateways THEN "ensDNS" ELSE "noGw"
    /\ EnsureWhen("PullSecret",
                  templates["secret"] /\ \A n \in PullNs(wt) : Usable(wt, n) /\ defaultSA[wt][n],
                  TRUE)
    /\ UNCHANGED <<tenant, queue, wt, fresh, dnsErr, certErr, res, early, clusterVars, userOps>>

\* ensureDNS: point DNSEntry *.<domain> at the load balancer; Ready is read
\* from the status the API server returns for the written object.  A missing
\* load balancer, a gone main namespace or a failing generateTenantDomain
\* return an error with the Domain condition False.
EnsureDNS ==
    /\ wpc = "ensDNS" /\ wpc' = "ensCert"
    /\ \/ /\ templates["lb"] /\ Usable(wt, "main")
          /\ \E d \in ChosenDomains(wt, mem) :
               /\ dns' = [dns EXCEPT ![wt].name = d]
               /\ queue' = queue \cup (IF d # dns[wt].name THEN {wt} ELSE {})
               /\ mem' = SetCond([mem EXCEPT !.domain = d], "Domain",
                                 IF dns[wt].ready # NoDomain THEN "True" ELSE "False")
          /\ UNCHANGED <<lastErr, dnsErr, faults>>
       \/ /\ ~templates["lb"] \/ ~Usable(wt, "main") \/ ChosenDomains(wt, mem) = {}
          /\ mem' = SetCond(mem, "Domain", "False") /\ lastErr' = TRUE /\ dnsErr' = TRUE
          /\ UNCHANGED <<dns, queue, faults>>
       \/ /\ Fault
          /\ mem' = SetCond(mem, "Domain", "False") /\ lastErr' = TRUE /\ dnsErr' = TRUE
          /\ UNCHANGED <<dns, queue>>
    /\ UNCHANGED <<tenant, wt, fresh, certErr, res, early, ns, defaultSA, appRollout,
                   chartAssign, templates, cert, gateway, robotCfg, userOps>>

\* ensureCertificate, skipped with a False condition when DNS failed
EnsureCertificate ==
    /\ wpc = "ensCert" /\ wpc' = "ensGw"
    /\ \/ /\ dnsErr
          /\ mem' = SetCond(mem, "Certificate", "False")
          /\ UNCHANGED <<cert, queue, lastErr, certErr, faults>>
       \/ /\ ~dnsErr /\ mem.domain # NoDomain
          /\ cert' = [cert EXCEPT ![wt].name = mem.domain]
          /\ queue' = queue \cup (IF mem.domain # cert[wt].name THEN {wt} ELSE {})
          /\ mem' = SetCond(mem, "Certificate",
                            IF cert[wt].ready # NoDomain THEN "True" ELSE "False")
          /\ UNCHANGED <<lastErr, certErr, faults>>
       \/ /\ ~dnsErr /\ mem.domain = NoDomain
          /\ mem' = SetCond(mem, "Certificate", "False") /\ lastErr' = TRUE /\ certErr' = TRUE
          /\ UNCHANGED <<cert, queue, faults>>
       \/ /\ ~dnsErr /\ Fault
          /\ mem' = SetCond(mem, "Certificate", "False") /\ lastErr' = TRUE /\ certErr' = TRUE
          /\ UNCHANGED <<cert, queue>>
    /\ UNCHANGED <<tenant, wt, fresh, dnsErr, res, early, ns, defaultSA, appRollout,
                   chartAssign, templates, dns, gateway, robotCfg, userOps>>

\* (mutant) a pass that converged returns Result{} instead of requeueSlow
EnsureGatewayNoRequeue ==
    /\ wpc = "ensGw"
    /\ \/ /\ dnsErr \/ certErr
          /\ mem' = SetCond(mem, "Gateway", "False")
          /\ UNCHANGED <<gateway, queue, lastErr, faults>>
       \/ /\ ~dnsErr /\ ~certErr /\ (mem.domain = NoDomain \/ ~Usable(wt, "main"))
          /\ mem' = SetCond(mem, "Gateway", "False") /\ lastErr' = TRUE
          /\ UNCHANGED <<gateway, queue, faults>>
       \/ /\ ~dnsErr /\ ~certErr /\ Fault
          /\ mem' = SetCond(mem, "Gateway", "False") /\ lastErr' = TRUE
          /\ UNCHANGED <<gateway, queue>>
       \/ /\ ~dnsErr /\ ~certErr /\ mem.domain # NoDomain /\ Usable(wt, "main")
          /\ gateway' = [gateway EXCEPT ![wt] = mem.domain]
          /\ queue' = queue \cup (IF mem.domain # gateway[wt] THEN {wt} ELSE {})
          /\ mem' = SetCond([mem EXCEPT !.gw = "tenant"], "Gateway", "True")
          /\ UNCHANGED <<lastErr, faults>>
    /\ ToStatus(mem', IF lastErr' THEN "err" ELSE "none", FALSE)
    /\ UNCHANGED <<tenant, wt, fresh, dnsErr, certErr, ns, defaultSA, appRollout,
                   chartAssign, templates, dns, cert, robotCfg, userOps>>

\* ensureGateway, skipped with a False condition when DNS or the certificate failed
EnsureGateway ==
    /\ wpc = "ensGw"
    /\ \/ /\ dnsErr \/ certErr
          /\ mem' = SetCond(mem, "Gateway", "False")
          /\ UNCHANGED <<gateway, queue, lastErr, faults>>
       \/ /\ ~dnsErr /\ ~certErr /\ (mem.domain = NoDomain \/ ~Usable(wt, "main"))
          /\ mem' = SetCond(mem, "Gateway", "False") /\ lastErr' = TRUE
          /\ UNCHANGED <<gateway, queue, faults>>
       \/ /\ ~dnsErr /\ ~certErr /\ Fault
          /\ mem' = SetCond(mem, "Gateway", "False") /\ lastErr' = TRUE
          /\ UNCHANGED <<gateway, queue>>
       \/ /\ ~dnsErr /\ ~certErr /\ mem.domain # NoDomain /\ Usable(wt, "main")
          /\ gateway' = [gateway EXCEPT ![wt] = mem.domain]
          /\ queue' = queue \cup (IF mem.domain # gateway[wt] THEN {wt} ELSE {})
          /\ mem' = SetCond([mem EXCEPT !.gw = "tenant"], "Gateway", "True")
          /\ UNCHANGED <<lastErr, faults>>
    /\ ToStatus(mem', IF lastErr' THEN "err" ELSE "slow", FALSE)
    /\ UNCHANGED <<tenant, wt, fresh, dnsErr, certErr, ns, defaultSA, appRollout,
                   chartAssign, templates, dns, cert, robotCfg, userOps>>

\* (mutant) without tenant gateways a clean pass returns Result{}
UseDefaultGatewayNoRequeue ==
    /\ wpc = "noGw"
    /\ ToStatus([mem EXCEPT !.domain = NoDomain, !.gw = "default"],
                IF lastErr THEN "err" ELSE "none", FALSE)
    /\ UNCHANGED <<tenant, queue, wt, fresh, lastErr, dnsErr, certErr, clusterVars,
                   faults, userOps>>

\* without tenant specific gateways the tenant uses the default gateway
UseDefaultGateway ==
    /\ wpc = "noGw"
    /\ ToStatus([mem EXCEPT !.domain = NoDomain, !.gw = "default"],
                IF lastErr THEN "err" ELSE "slow", FALSE)
    /\ UNCHANGED <<tenant, queue, wt, fresh, lastErr, dnsErr, certErr, clusterVars,
                   faults, userOps>>

\* updateTenantStatus, once per pass: a conflict (the Tenant changed since the
\* Get) or an API error loses the pass's status; at the end of the pass that
\* error is returned, on the early returns it is only logged.  A changed
\* status is a Tenant update event.
UpdateStatus ==
    /\ wpc = "status"
    /\ \/ /\ fresh /\ tenant[wt].exists
          /\ tenant' = [tenant EXCEPT ![wt].domain = mem.domain, ![wt].gw = mem.gw,
                                      ![wt].conds = mem.conds]
          /\ Done(res, IF tenant'[wt] # tenant[wt] THEN {wt} ELSE {})
          /\ UNCHANGED faults
       \/ /\ ~fresh \/ ~tenant[wt].exists
          /\ Done(IF early THEN res ELSE "err", {}) /\ UNCHANGED <<tenant, faults>>
       \/ /\ Fault
          /\ Done(IF early THEN res ELSE "err", {}) /\ UNCHANGED tenant
    /\ UNCHANGED <<clusterVars, userOps>>

\* the controller process dies and restarts: the pass and the queue are lost,
\* and the initial List of the Tenant informer enqueues every Tenant
Restart ==
    /\ Fault
    /\ wpc' = "idle" /\ wt' = NoTenant /\ mem' = Absent /\ fresh' = FALSE
    /\ lastErr' = FALSE /\ dnsErr' = FALSE /\ certErr' = FALSE
    /\ res' = "none" /\ early' = FALSE
    /\ queue' = {t \in Tenants : tenant[t].exists}
    /\ UNCHANGED <<tenant, clusterVars, userOps>>

Pass ==
    \/ GetTenant \/ EnsureDeletedRollouts \/ EnsureDeletedChartAssignments
    \/ RemoveFinalizer \/ AddFinalizer \/ EnsureNamespace \/ Collect
    \/ EnsureServiceAccount \/ EnsurePermissions \/ EnsureRobotSetupConfig
    \/ EnsurePullSecret \/ EnsureDNS \/ EnsureCertificate \/ EnsureGateway
    \/ UseDefaultGateway \/ UpdateStatus

-----------------------------------------------------------------------------
(* The environment: users, the webhook and the other controllers *)

NoCfg == <<"absent">>   \* the tenant's robot-setup config map does not exist
NoObj == [name |-> NoDomain, ready |-> NoDomain]
Live == {t \in Tenants : tenant[t].exists}
UserOp == userOps < MaxUserOps /\ userOps' = userOps + 1

\* a user creates a Tenant, if tenantValidator.Handle admits it
UserCreateTenant(t, sd) ==
    /\ UserOp /\ ~tenant[t].exists
    /\ V!Handle(t, sd # NoDomain, "CREATE", Live, DefaultTenant, TenantSpecificGateways)
    /\ tenant' = [tenant EXCEPT ![t] = Created(sd)]
    /\ TouchTenant(t)
    /\ UNCHANGED <<wpc, wt, mem, lastErr, dnsErr, certErr, res, early, clusterVars, faults>>

\* a user changes spec.tenantDomain, if the webhook admits it (the API
\* server accepts updates of an object marked for deletion)
UserEditDomain(t, sd) ==
    /\ UserOp /\ tenant[t].exists /\ tenant[t].spec # sd
    /\ V!Handle(t, sd # NoDomain, "UPDATE", Live, DefaultTenant, TenantSpecificGateways)
    /\ tenant' = [tenant EXCEPT ![t].spec = sd]
    /\ TouchTenant(t)
    /\ UNCHANGED <<wpc, wt, mem, lastErr, dnsErr, certErr, res, early, clusterVars, faults>>

\* a user deletes a Tenant: with the finalizer it is only marked, without it
\* it is gone and the garbage collector may delete its namespaces
UserDeleteTenant(t) ==
    /\ UserOp /\ tenant[t].exists /\ ~tenant[t].del
    /\ IF tenant[t].fin
       THEN tenant' = [tenant EXCEPT ![t].del = TRUE] /\ UNCHANGED ns
       ELSE tenant' = [tenant EXCEPT ![t] = Absent] /\ ns' = [ns EXCEPT ![t] = Orphaned(t)]
    /\ TouchTenant(t)
    /\ UNCHANGED <<wpc, wt, mem, lastErr, dnsErr, certErr, res, early, defaultSA,
                   appRollout, chartAssign, templates, dns, cert, gateway, robotCfg, faults>>

\* a user creates an AppRollout in the tenant's main namespace (AppRollouts
\* are not watched by this controller)
UserCreateAppRollout(t) ==
    /\ Usable(t, "main") /\ ~appRollout[t]
    /\ RolloutsWhileDeleting \/ (tenant[t].exists /\ ~tenant[t].del)
    /\ appRollout' = [appRollout EXCEPT ![t] = TRUE]
    /\ UNCHANGED <<tenant, queue, passVars, ns, defaultSA, chartAssign, templates, dns,
                   cert, gateway, robotCfg, faults, userOps>>

\* the app-rollout controller creates the rollout's ChartAssignment
RolloutCreatesChartAssignment(t) ==
    /\ appRollout[t] /\ ~chartAssign[t] /\ Usable(t, "main")
    /\ chartAssign' = [chartAssign EXCEPT ![t] = TRUE]
    /\ UNCHANGED <<tenant, queue, passVars, ns, defaultSA, appRollout, templates, dns,
                   cert, gateway, robotCfg, faults, userOps>>

\* the garbage collector deletes the ChartAssignment of a deleted AppRollout
ChartAssignmentRemoved(t) ==
    /\ chartAssign[t] /\ ~appRollout[t]
    /\ chartAssign' = [chartAssign EXCEPT ![t] = FALSE]
    /\ UNCHANGED <<tenant, queue, passVars, ns, defaultSA, appRollout, templates, dns,
                   cert, gateway, robotCfg, faults, userOps>>

\* the garbage collector deletes a namespace whose owner Tenant is gone;
\* the namespace watch has no update handler, so nothing is enqueued
GCDeletesNamespace(t, n) ==
    /\ ns[t][n] = "orphan"
    /\ ns' = [ns EXCEPT ![t][n] = "terminating"]
    /\ UNCHANGED <<tenant, queue, passVars, defaultSA, appRollout, chartAssign, templates,
                   dns, cert, gateway, robotCfg, faults, userOps>>

\* the namespace controller finishes a deletion: everything in the namespace
\* is gone, and the Delete event is routed by enqueueFromNamespaceName to the
\* existing tenant(s) of that name
NamespaceRemoved(t, n) ==
    /\ ns[t][n] = "terminating"
    /\ ns' = [ns EXCEPT ![t][n] = "absent"]
    /\ defaultSA' = [defaultSA EXCEPT ![t][n] = FALSE]
    /\ IF n = "main"
       THEN /\ appRollout' = [appRollout EXCEPT ![t] = FALSE]
            /\ chartAssign' = [chartAssign EXCEPT ![t] = FALSE]
            /\ dns' = [dns EXCEPT ![t] = NoObj]
            /\ gateway' = [gateway EXCEPT ![t] = NoDomain]
            /\ UNCHANGED robotCfg
       ELSE /\ robotCfg' = [robotCfg EXCEPT ![t] = NoCfg]
            /\ UNCHANGED <<appRollout, chartAssign, dns, gateway>>
    /\ queue' = queue \cup (IF tenant[t].exists THEN {t} ELSE {})
    /\ UNCHANGED <<tenant, passVars, templates, cert, faults, userOps>>

\* the service-account controller creates the "default" ServiceAccount of a
\* new namespace (not owned by the Tenant, so not enqueued)
SACreatesDefault(t, n) ==
    /\ Usable(t, n) /\ ~defaultSA[t][n]
    /\ defaultSA' = [defaultSA EXCEPT ![t][n] = TRUE]
    /\ UNCHANGED <<tenant, queue, passVars, ns, appRollout, chartAssign, templates, dns,
                   cert, gateway, robotCfg, faults, userOps>>

\* the garbage collector deletes the Certificate (in istio-system) of a gone
\* Tenant; EnqueueRequestForOwner enqueues the owner's name
GCDeletesCertificate(t) ==
    /\ ~tenant[t].exists /\ cert[t] # NoObj
    /\ cert' = [cert EXCEPT ![t] = NoObj]
    /\ queue' = queue \cup {t}
    /\ UNCHANGED <<tenant, passVars, ns, defaultSA, appRollout, chartAssign, templates, dns,
                   gateway, robotCfg, faults, userOps>>

\* enqueueAll: the queue once every listed Tenant's key is added
EnqueueAll == queue \cup Live

\* an operator installs the template secret, template config map or the
\* load balancer ingress; only the config map is watched, by enqueueAll,
\* whose failing List is only logged: nothing is enqueued
TemplateCreated(x) ==
    /\ ~templates[x]
    /\ templates' = [templates EXCEPT ![x] = TRUE]
    /\ \/ /\ queue' = IF x = "config" THEN EnqueueAll ELSE queue
          /\ UNCHANGED faults
       \/ /\ x = "config" /\ Fault
          /\ UNCHANGED queue
    /\ UNCHANGED <<tenant, passVars, ns, defaultSA, appRollout, chartAssign, dns, cert,
                   gateway, robotCfg, userOps>>

\* the DNS controller provisions the entry's current name and marks it
\* Ready; the status update of the owned object enqueues the Tenant
DNSProvisioned(t) ==
    /\ dns[t].name # NoDomain /\ dns[t].ready # dns[t].name
    /\ dns' = [dns EXCEPT ![t].ready = dns[t].name]
    /\ queue' = queue \cup {t}
    /\ UNCHANGED <<tenant, passVars, ns, defaultSA, appRollout, chartAssign, templates,
                   cert, gateway, robotCfg, faults, userOps>>

\* cert-manager issues the certificate for its current common name
CertIssued(t) ==
    /\ cert[t].name # NoDomain /\ cert[t].ready # cert[t].name
    /\ cert' = [cert EXCEPT ![t].ready = cert[t].name]
    /\ queue' = queue \cup {t}
    /\ UNCHANGED <<tenant, passVars, ns, defaultSA, appRollout, chartAssign, templates,
                   dns, gateway, robotCfg, faults, userOps>>

-----------------------------------------------------------------------------
(* The specification *)

TemplateKeys == {"secret", "config", "lb"}

Init ==
    /\ tenant = [t \in Tenants |-> Absent]
    /\ queue = {}
    /\ wpc = "idle" /\ wt = NoTenant /\ mem = Absent /\ fresh = FALSE
    /\ lastErr = FALSE /\ dnsErr = FALSE /\ certErr = FALSE /\ res = "none" /\ early = FALSE
    \* "default" and "robot-config" exist before the controller runs
    /\ ns = [t \in Tenants |-> [n \in NsKinds |-> IF IsDefault(t) THEN "active" ELSE "absent"]]
    /\ defaultSA = [t \in Tenants |-> [n \in NsKinds |-> IsDefault(t)]]
    /\ appRollout = [t \in Tenants |-> FALSE]
    /\ chartAssign = [t \in Tenants |-> FALSE]
    /\ templates = [x \in TemplateKeys |-> x \in InitTemplates]
    /\ dns = [t \in Tenants |-> NoObj]
    /\ cert = [t \in Tenants |-> NoObj]
    /\ gateway = [t \in Tenants |-> NoDomain]
    /\ robotCfg = [t \in Tenants |-> NoCfg]
    /\ faults = 0 /\ userOps = 0

Environment ==
    \/ \E t \in Tenants :
         \/ \E sd \in SpecDomains : UserCreateTenant(t, sd) \/ UserEditDomain(t, sd)
         \/ UserDeleteTenant(t) \/ UserCreateAppRollout(t)
         \/ RolloutCreatesChartAssignment(t) \/ ChartAssignmentRemoved(t)
         \/ GCDeletesCertificate(t) \/ DNSProvisioned(t) \/ CertIssued(t)
         \/ \E n \in NsKinds : GCDeletesNamespace(t, n) \/ NamespaceRemoved(t, n)
                               \/ SACreatesDefault(t, n)
    \/ \E x \in TemplateKeys : TemplateCreated(x)

Next ==
    \/ \E t \in Tenants : Start(t)
    \/ Pass
    \/ Restart
    \/ Environment

\* One worker takes keys in FIFO order, so a key that stays queued is
\* eventually taken (strong fairness on Start); the worker and the cluster's
\* controllers keep running.  Users, faults and restarts are not forced.
Fairness ==
    /\ \A t \in Tenants : SF_vars(Start(t))
    /\ WF_vars(Pass)
    /\ \A t \in Tenants :
         /\ WF_vars(RolloutCreatesChartAssignment(t)) /\ WF_vars(ChartAssignmentRemoved(t))
         /\ WF_vars(GCDeletesCertificate(t))
         /\ WF_vars(DNSProvisioned(t)) /\ WF_vars(CertIssued(t))
         /\ \A n \in NsKinds : /\ WF_vars(GCDeletesNamespace(t, n))
                               /\ WF_vars(NamespaceRemoved(t, n))
                               /\ WF_vars(SACreatesDefault(t, n))

Spec == Init /\ [][Next]_vars /\ Fairness

-----------------------------------------------------------------------------
(* Properties *)

TypeOK ==
    /\ tenant \in [Tenants -> TenantRec]
    /\ queue \subseteq Tenants
    /\ wpc \in {"idle", "get", "delAR", "delCA", "rmFin", "addFin", "ensNs", "collect",
                "ensSA", "ensRB", "ensCfg", "ensPull", "ensDNS", "ensCert", "ensGw",
                "noGw", "status"}
    /\ wt \in Tenants \cup {NoTenant} /\ (wpc = "idle") = (wt = NoTenant)
    /\ mem \in TenantRec
    /\ {fresh, lastErr, dnsErr, certErr, early} \subseteq BOOLEAN
    /\ res \in Results
    /\ ns \in [Tenants -> [NsKinds -> NsStates]]
    /\ defaultSA \in [Tenants -> [NsKinds -> BOOLEAN]]
    /\ appRollout \in [Tenants -> BOOLEAN] /\ chartAssign \in [Tenants -> BOOLEAN]
    /\ templates \in [TemplateKeys -> BOOLEAN]
    /\ dns \in [Tenants -> [name: Domains \cup {NoDomain}, ready: Domains \cup {NoDomain}]]
    /\ cert \in [Tenants -> [name: Domains \cup {NoDomain}, ready: Domains \cup {NoDomain}]]
    /\ gateway \in [Tenants -> Domains \cup {NoDomain}]
    /\ robotCfg \in [Tenants -> Domains \cup {NoDomain, NoCfg}]
    /\ faults \in 0..MaxFaults /\ userOps \in 0..MaxUserOps

\* Every existing Tenant is queued or being reconciled: no return path of
\* Reconcile (Result{}, RequeueAfter, error) and no restart drops the key
\* of a Tenant that still exists, so drift is always corrected eventually.
NoLostTenant == \A t \in Tenants : tenant[t].exists => t \in queue \/ wt = t

\* Removing the finalizer (the Tenant disappears) happens only when its main
\* namespace holds no AppRollout and no ChartAssignment: ensureDeleted's
\* checks are still true when RemoveFinalizer's Update lands.
FinalizerRemovedOnlyWhenDrained ==
    [][\A t \in Tenants :
         tenant[t].exists /\ tenant[t].fin /\ ~tenant'[t].exists
            => ~appRollout[t] /\ ~chartAssign[t]]_vars

\* The conditions a pass sets: Domain, Certificate and Gateway only with
\* tenant specific gateways
RelevantConds ==
    IF TenantSpecificGateways THEN CondTypes
    ELSE CondTypes \ {"Domain", "Certificate", "Gateway"}

\* A pass that reports convergence (requeueSlow) hands robot setup the
\* domain it records in the status: the tenant_domain of the robot-setup
\* config map written by ensureRobotSetupConfig is the status.tenantDomain
\* the pass writes.
SnapshotMatchesRecordedDomain ==
    wpc = "status" /\ ~early /\ res = "slow" => robotCfg[wt] = mem.domain

\* The wildcard names the controller writes, "*.<domain>" as DNSEntry
\* dnsName and as Certificate commonName, fit the 64 characters a TLS
\* certificate's common name allows, whichever of the natural, custom,
\* recorded or generated domains ensureDNS settled on.
WildcardNamesFit ==
    \A t \in Tenants :
        /\ dns[t].name # NoDomain => 2 + DomainLength(dns[t].name) <= 64
        /\ cert[t].name # NoDomain => 2 + DomainLength(cert[t].name) <= 64

\* The domain ensureDNS settles on follows the Tenant's spec (spec 4.2: the
\* natural or custom domain, or, when that is too long, a generated one): it
\* is the custom spec.tenantDomain only while the spec names it, whatever
\* the status recorded from an earlier spec.
DomainFollowsSpec ==
    (wpc = "ensCert" /\ ~dnsErr) =>
        mem.domain \in {IF mem.spec = CustomDomain THEN CustomDomain ELSE NatDomain(wt)}
                        \cup {<<"gen", g>> : g \in GenLabels}

\* A live Tenant whose templates all exist is fully set up: all its
\* conditions are True, the DNS entry, certificate and gateway serve the
\* recorded domain and are Ready, and robot setup sees that domain.
Converged(t) ==
    (tenant[t].exists /\ ~tenant[t].del /\ \A x \in TemplateKeys : templates[x]) =>
        LET d == tenant[t].domain IN
        /\ \A c \in RelevantConds : tenant[t].conds[c] = "True"
        /\ robotCfg[t] = d
        /\ TenantSpecificGateways =>
              /\ d # NoDomain
              /\ dns[t] = [name |-> d, ready |-> d] /\ cert[t] = [name |-> d, ready |-> d]
              /\ gateway[t] = d

\* Once users, faults and restarts stop, every Tenant converges and stays so.
Convergence == <>[](\A t \in Tenants : Converged(t))

\* A Tenant marked for deletion is eventually gone: ensureDeleted's fast
\* rechecks outlast the AppRollouts and ChartAssignments it waits for.
DeletionCompletes ==
    \A t \in Tenants : (tenant[t].exists /\ tenant[t].del) ~> ~tenant[t].exists

-----------------------------------------------------------------------------
(* Refinement of TenantLifecycle *)

\* the lifecycle phase of a stored Tenant: its existence, its finalizer and
\* its deletion mark
Phase(t) ==
    IF ~tenant[t].exists THEN "absent"
    ELSE IF tenant[t].del THEN "deleting"
    ELSE IF tenant[t].fin THEN "guarded"
    ELSE "unguarded"

Lifecycle == INSTANCE TenantLifecycle WITH
    life <- [t \in Tenants |-> Phase(t)],
    apps <- [t \in Tenants |-> appRollout[t] \/ chartAssign[t]],
    AppsWhileDeleting <- RolloutsWhileDeleting

\* Every step of the controller and its cluster is a step of the abstract
\* Tenant lifecycle: the finalizer is added only to an undeleted Tenant
\* (AddFinalizer against a stale copy conflicts), a guarded Tenant is only
\* marked on delete, and RemoveFinalizer makes a Tenant disappear only when
\* it is marked and no AppRollout or ChartAssignment is left.
LifecycleSafety == Lifecycle!SafeSpec

\* The controller also carries out the lifecycle's teardown: with the fast
\* requeues of ensureDeleted, a marked Tenant's apps are removed and its
\* finalizer is removed once they are.
LifecycleSpec == Lifecycle!Spec
====
