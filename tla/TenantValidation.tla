-------------------------- MODULE TenantValidation --------------------------
(***************************************************************************)
(* tenantValidator.Handle of                                                *)
(* src/go/pkg/controller/tenant/validatingwebhook.go as an operator:       *)
(* whether the webhook allows operation `op` on a Tenant named `name`      *)
(* whose decoded spec has a tenant domain (`hasDomain`), given the names   *)
(* of the Tenants its List returned.  For DELETE the webhook decodes the   *)
(* request's empty Object, so the caller passes hasDomain = FALSE.          *)
(***************************************************************************)

Handle(name, hasDomain, op, existing, defaultName, tenantSpecificGateways) ==
    \* no other tenant may exist when the default tenant is created/updated
    /\ (name = defaultName /\ op # "DELETE") => \A u \in existing : u = defaultName
    \* no default tenant may exist when another tenant is created/updated
    /\ (name # defaultName /\ op # "DELETE") => defaultName \notin existing
    \* a tenant domain needs tenant specific gateways
    /\ ~tenantSpecificGateways => ~hasDomain

=============================================================================
