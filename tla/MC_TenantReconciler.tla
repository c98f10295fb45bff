------------------------ MODULE MC_TenantReconciler ------------------------
(* TenantReconciler instantiated for TLC *)
EXTENDS TenantReconciler, TenantConditions

CONSTANTS dflt, t1, t2, g1, g2

MCTenantsDefault == {dflt, t1}      \* the default tenant and one other
MCTenantsOne == {t1}
\* r.domain "example.com"; t1's natural domain is 63 chars, one too many,
\* and the other names are short
MCDomainLen == 11
MCNameLen == [t \in {dflt, t1, t2} |-> IF t = t1 THEN 49 ELSE 7]
MCGenLabels == {g1, g2}
MCGenLabel == {g1}
MCAllTemplates == {"secret", "config", "lb"}
MCNoConfigTemplate == {"secret", "lb"}
MCTenantsTwo == {t1, t2}
MCTenantsThree == {dflt, t1, t2}

\* The status conditions setCondition keeps are what the history of its
\* calls says: one entry per type, the last status and message, the
\* LastTransitionTime of the last status change and the LastUpdateTime of
\* the last change of status or message; and inCondition reports True
\* exactly for the types whose last call set True.  The check does not
\* depend on the state: TLC evaluates it once and it holds in every state.
ConditionsFollowHistory == tenant = tenant /\ ConditionsMatchHistory
====
