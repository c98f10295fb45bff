-------------------------- MODULE TenantLifecycle --------------------------
(***************************************************************************)
(* What the tenant controller promises about the life of a Tenant, without *)
(* the controller: a created Tenant is guarded by the finalizer, a guarded *)
(* Tenant that a user deletes is only marked, and a marked Tenant goes     *)
(* away only once its main namespace holds no AppRollout and no            *)
(* ChartAssignment (the tenant's "apps"); then it does go away.  A Tenant  *)
(* deleted before it was guarded goes at once.  TenantReconciler          *)
(* implements this specification (see Lifecycle there).                    *)
(***************************************************************************)
CONSTANTS
    Tenants,            \* tenant names
    AppsWhileDeleting   \* may apps appear in a tenant that is being deleted?

VARIABLES
    life,   \* per tenant: "absent", "unguarded", "guarded" or "deleting"
    apps    \* per tenant: its main namespace holds AppRollouts or ChartAssignments

avars == <<life, apps>>

Phases == {"absent", "unguarded", "guarded", "deleting"}

Init ==
    /\ life = [t \in Tenants |-> "absent"]
    /\ apps = [t \in Tenants |-> FALSE]

\* a user creates the Tenant
Create(t) ==
    /\ life[t] = "absent"
    /\ life' = [life EXCEPT ![t] = "unguarded"]
    /\ UNCHANGED apps

\* the controller puts its finalizer on the Tenant
Guard(t) ==
    /\ life[t] = "unguarded"
    /\ life' = [life EXCEPT ![t] = "guarded"]
    /\ UNCHANGED apps

\* a user deletes a Tenant that carries no finalizer: it is gone at once
DeleteUnguarded(t) ==
    /\ life[t] = "unguarded"
    /\ life' = [life EXCEPT ![t] = "absent"]
    /\ UNCHANGED apps

\* a user deletes a guarded Tenant: it is only marked for deletion
MarkDeleted(t) ==
    /\ life[t] = "guarded"
    /\ life' = [life EXCEPT ![t] = "deleting"]
    /\ UNCHANGED apps

\* apps appear in a live Tenant (in a deleting or gone one only if allowed)
AppsAppear(t) ==
    /\ ~apps[t]
    /\ life[t] \in {"unguarded", "guarded"} \/ AppsWhileDeleting
    /\ apps' = [apps EXCEPT ![t] = TRUE]
    /\ UNCHANGED life

\* the last app of the tenant is removed
AppsRemoved(t) ==
    /\ apps[t]
    /\ apps' = [apps EXCEPT ![t] = FALSE]
    /\ UNCHANGED life

\* the finalizer is removed from a drained Tenant marked for deletion
Remove(t) ==
    /\ life[t] = "deleting" /\ ~apps[t]
    /\ life' = [life EXCEPT ![t] = "absent"]
    /\ UNCHANGED apps

Next ==
    \E t \in Tenants :
        \/ Create(t) \/ Guard(t) \/ DeleteUnguarded(t) \/ MarkDeleted(t)
        \/ AppsAppear(t) \/ AppsRemoved(t) \/ Remove(t)

SafeSpec == Init /\ [][Next]_avars

\* The teardown is carried through: a deleting Tenant's apps are removed,
\* and a drained deleting Tenant is removed.
Spec ==
    /\ SafeSpec
    /\ \A t \in Tenants : /\ WF_avars(life[t] = "deleting" /\ AppsRemoved(t))
                          /\ WF_avars(Remove(t))
====
