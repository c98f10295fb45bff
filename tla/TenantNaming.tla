---------------------------- MODULE TenantNaming ----------------------------
(***************************************************************************)
(* Namespace names derived from tenant names (coretools.TenantMainNamespace *)
(* and RobotConfigNamespace), the namespaces a tenant collects into its     *)
(* status (collectTenantNamespaces) and the routing of Namespace and Robot  *)
(* watch events to tenant keys (enqueueFromNamespaceName,                   *)
(* enqueueFromObjectNamespace).  Names are sequences of tokens: "a" a       *)
(* letter, "-" the hyphen, and one token each for the fixed words of the    *)
(* code: "t" (of the prefix "t-"), "R" ("robot-config"), "P" ("app") and   *)
(* "D" ("default").  A prefix that ends inside a fixed word is not          *)
(* represented.                                                             *)
(***************************************************************************)
EXTENDS Naturals, Sequences, FiniteSets

LOCAL INSTANCE SequencesExt

CONSTANT MaxNameLen     \* longest tenant name, in tokens

VARIABLES
    live,       \* the names of the existing Tenants
    event,      \* the last watch event: its kind and namespace
    routed      \* the tenant keys the event handler added to the work queue

vars == <<live, event, routed>>

NameChars == {"a", "-", "R", "P"}

\* coretools.DefaultTenantName
DefaultName == <<"D">>

\* tenant names: DNS labels, neither starting nor ending with "-"
TenantNames ==
    {n \in SeqOf(NameChars, MaxNameLen) : Len(n) > 0 /\ n[1] # "-" /\ n[Len(n)] # "-"}
    \cup {DefaultName}

\* coretools.TenantPrefix, RobotConfigCloudNamespace
TenantPrefix == <<"t", "-">>
RobotConfigCloudNamespace == <<"R">>

\* coretools.TenantMainNamespace
TenantMainNamespace(n) == IF n = DefaultName THEN <<"D">> ELSE TenantPrefix \o n

\* coretools.RobotConfigNamespace, of a main namespace
RobotConfigNamespace(m) ==
    IF m = <<"D">> THEN RobotConfigCloudNamespace ELSE m \o <<"-">> \o RobotConfigCloudNamespace

\* the app-namespace prefix of collectTenantNamespaces
AppNamespacePrefix(t) ==
    IF t = DefaultName THEN <<"P", "-">> ELSE TenantMainNamespace(t) \o <<"-", "P", "-">>

\* collectTenantNamespaces attributes namespace ns to tenant t
IsTenantNamespace(t, ns) ==
    \/ IsPrefix(AppNamespacePrefix(t), ns)
    \/ ns = TenantMainNamespace(t)
    \/ ns = RobotConfigNamespace(TenantMainNamespace(t))

\* strings.SplitN(ns, "-", 2)[1]: what follows the first "-"
AfterFirstHyphen(ns) ==
    LET i == CHOOSE k \in 1..Len(ns) : ns[k] = "-" /\ \A j \in 1..(k - 1) : ns[j] # "-"
    IN SubSeq(ns, i + 1, Len(ns))

\* (mutant) the delimiter-based match: a tenant name followed by "-"
NamespaceRouteWithHyphen(ns, tenants) ==
    IF IsPrefix(TenantPrefix, ns) /\ \E k \in 1..Len(ns) : ns[k] = "-"
    THEN {u \in tenants : IsPrefix(u \o <<"-">>, AfterFirstHyphen(ns))}
    ELSE {}

\* enqueueFromNamespaceName: the keys a Namespace create/delete event adds
NamespaceRoute(ns, tenants) ==
    IF IsPrefix(TenantPrefix, ns) /\ \E k \in 1..Len(ns) : ns[k] = "-"
    THEN {u \in tenants : IsPrefix(u, AfterFirstHyphen(ns))}
    ELSE {}

\* (mutant) the namespace name itself is used as the key
ObjectRouteUntrimmed(ns) == ns

\* enqueueFromObjectNamespace: strings.TrimPrefix(namespace, "t-")
ObjectRoute(ns) == IF IsPrefix(TenantPrefix, ns) THEN SubSeq(ns, 3, Len(ns)) ELSE ns

\* the namespaces of the cluster: each tenant's main and robot-config
\* namespace, and an app namespace of each tenant
ClusterNamespaces(tenants) ==
    UNION {{TenantMainNamespace(t), RobotConfigNamespace(TenantMainNamespace(t)),
            AppNamespacePrefix(t) \o <<"a">>} : t \in tenants}

\* one or two Tenants the admission webhook lets coexist: the default
\* tenant only alone
Admissible ==
    {{DefaultName}} \cup {{u, v} : u, v \in TenantNames \ {DefaultName}}

NoEvent == [kind |-> "none", ns |-> <<>>]

Init ==
    /\ live \in Admissible
    /\ event = NoEvent
    /\ routed = {}

\* the Namespace watch: a namespace of the cluster is created or deleted
NamespaceEvent(ns) ==
    /\ event' = [kind |-> "ns", ns |-> ns]
    /\ routed' = NamespaceRoute(ns, live)
    /\ UNCHANGED live

\* the Robot watch: a Robot is created or deleted in a tenant main namespace
RobotEvent(ns) ==
    /\ event' = [kind |-> "robot", ns |-> ns]
    /\ routed' = {ObjectRoute(ns)}
    /\ UNCHANGED live

Next ==
    \/ \E ns \in ClusterNamespaces(live) : NamespaceEvent(ns)
    \/ \E t \in live : RobotEvent(TenantMainNamespace(t))

Spec == Init /\ [][Next]_vars

-----------------------------------------------------------------------------
(* Properties *)

TypeOK ==
    /\ live \in Admissible
    /\ event.kind \in {"none", "ns", "robot"}
    /\ routed \subseteq TenantNames

\* the tenants an event is about: for a namespace, the tenants it belongs
\* to as collectTenantNamespaces sees it; for a Robot, the tenants whose main
\* namespace holds it
Concerned(ev) ==
    IF ev.kind = "robot" THEN {t \in live : TenantMainNamespace(t) = ev.ns}
    ELSE {t \in live : IsTenantNamespace(t, ev.ns)}

\* Every event about a namespace of a (non-default) tenant enqueues that
\* tenant: a tenant learns of the deletion of its namespaces and of robots
\* created in them.  The default tenant's namespaces are not "t-" ones.
RoutingComplete ==
    event # NoEvent => \A t \in Concerned(event) \ {DefaultName} : t \in routed

\* A namespace derived for one tenant (its main or robot-config namespace)
\* belongs to no other tenant as collectTenantNamespaces sees it: it is not
\* another tenant's main or robot-config namespace, and it does not carry
\* another tenant's app-namespace prefix, so no tenant collects, labels or
\* deletes a namespace it does not own.
NamespaceOwnedOnce ==
    \A u, v \in live : u # v =>
        \A ns \in {TenantMainNamespace(v), RobotConfigNamespace(TenantMainNamespace(v))} :
            ~IsTenantNamespace(u, ns)
====
