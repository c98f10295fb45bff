--------------------------- MODULE AdmissionWebhook ---------------------------
(***************************************************************************)
(* Tenant creation through the validating webhook: the API server calls    *)
(* tenantValidator.Handle for each create request and stores the Tenant    *)
(* only after the webhook allowed it.  Handle's List goes through the      *)
(* manager's client, which reads the informer cache, and nothing orders    *)
(* two requests' checks against each other's writes.                       *)
(***************************************************************************)
EXTENDS FiniteSets

CONSTANTS
    Names,          \* tenant names users create
    DefaultName     \* coretools.DefaultTenantName

ASSUME DefaultName \in Names

LOCAL V == INSTANCE TenantValidation

VARIABLES
    stored,     \* Tenants stored by the API server
    cache,      \* Tenants in the informer cache the webhook lists
    req         \* the create request for each name: none, admitted, denied, done

vars == <<stored, cache, req>>

Init ==
    /\ stored = {} /\ cache = {}
    /\ req = [n \in Names |-> "none"]

\* the API server sends a create request to the webhook; Handle lists the
\* cached Tenants and allows or denies (spec.tenantDomain empty)
Validate(n) ==
    /\ req[n] = "none"
    /\ req' = [req EXCEPT ![n] = IF V!Handle(n, FALSE, "CREATE", cache, DefaultName, TRUE)
                                 THEN "admitted" ELSE "denied"]
    /\ UNCHANGED <<stored, cache>>

\* the API server persists an admitted Tenant (AlreadyExists if present)
Persist(n) ==
    /\ req[n] = "admitted"
    /\ stored' = stored \cup {n}
    /\ req' = [req EXCEPT ![n] = "done"]
    /\ UNCHANGED cache

\* the informer receives a watch event
CacheSync(n) ==
    /\ (n \in stored) # (n \in cache)
    /\ cache' = IF n \in stored THEN cache \cup {n} ELSE cache \ {n}
    /\ UNCHANGED <<stored, req>>

Next == \E n \in Names : Validate(n) \/ Persist(n) \/ CacheSync(n)

Spec == Init /\ [][Next]_vars

\* The default tenant never coexists with another tenant: the webhook denies
\* creating the default tenant while other tenants exist and creating
\* another tenant while the default tenant exists.
DefaultTenantExclusive == DefaultName \in stored => stored = {DefaultName}
====
