------------------------- MODULE TenantConditions -------------------------
(***************************************************************************)
(* The condition bookkeeping of the tenant controller (controller.go):     *)
(* setCondition adds or updates the entry of one condition type in         *)
(* status.conditions, stamping LastUpdateTime and LastTransitionTime with  *)
(* meta.Now(), and inCondition asks whether a type is in state True.  A    *)
(* condition list is a sequence of records; a time is a natural number.    *)
(* The check runs every bounded history of setCondition calls, call k at   *)
(* time k, from an empty status, and compares the list it builds with a    *)
(* reference read off the history: one entry per type, in the order the    *)
(* types were first set, holding the last call's status and message, the  *)
(* time of the last call that changed the status (LastTransitionTime) and  *)
(* of the last one that changed status or message (LastUpdateTime).        *)
(***************************************************************************)
EXTENDS Naturals, Sequences

LOCAL INSTANCE SequencesExt

CondKinds == {"Namespace", "Domain"}    \* two TenantConditionTypes
CondStatuses == {"True", "False"}       \* core.ConditionStatus
CondMessages == {"m1", "m2"}

\* a call setCondition(t, type, status, msg)
Calls == [type : CondKinds, status : CondStatuses, msg : CondMessages]

\* (mutant) LastUpdateTime is stamped on every call
SetConditionAlwaysStamp(conds, tc, v, msg, now) ==
    LET i == SelectInSeq(conds, LAMBDA c : c.type = tc) IN
    IF i = 0
    THEN Append(conds, [type |-> tc, status |-> v, msg |-> msg, upd |-> now, trans |-> now])
    ELSE LET c == conds[i] IN
         [conds EXCEPT ![i] = [c EXCEPT !.upd = now,
                                        !.trans = IF c.status # v THEN now ELSE c.trans,
                                        !.msg = msg, !.status = v]]

\* setCondition: update the first entry of type tc, stamping LastUpdateTime
\* when status or message change and LastTransitionTime when the status
\* changes; without such an entry, append one stamped now
SetCondition(conds, tc, v, msg, now) ==
    LET i == SelectInSeq(conds, LAMBDA c : c.type = tc) IN
    IF i = 0
    THEN Append(conds, [type |-> tc, status |-> v, msg |-> msg, upd |-> now, trans |-> now])
    ELSE LET c == conds[i] IN
         [conds EXCEPT ![i] = [c EXCEPT !.upd = IF c.status # v \/ c.msg # msg THEN now ELSE c.upd,
                                        !.trans = IF c.status # v THEN now ELSE c.trans,
                                        !.msg = msg, !.status = v]]

\* inCondition: some entry of type tc has status True
InCondition(conds, tc) == \E i \in DOMAIN conds : conds[i].type = tc /\ conds[i].status = "True"

\* the conditions setCondition builds from an empty status over history h,
\* call k made at time k
ApplyCalls(h) ==
    LET RECURSIVE From(_, _)
        From(conds, k) ==
            IF k > Len(h) THEN conds
            ELSE From(SetCondition(conds, h[k].type, h[k].status, h[k].msg, k), k + 1)
    IN From(<<>>, 1)

-----------------------------------------------------------------------------
(* The reference, read off a history *)

\* the times of the calls for type tc, the first and the last of them
CallsFor(h, tc) == {k \in DOMAIN h : h[k].type = tc}
FirstOf(S) == CHOOSE k \in S : \A j \in S : k <= j
LastOf(S) == CHOOSE k \in S : \A j \in S : j <= k

\* the calls for tc that differ from the previous call for tc as Differ
\* says; the first call for a type differs from nothing before it
Changes(h, tc, Differ(_, _)) ==
    {k \in CallsFor(h, tc) :
        LET before == {j \in CallsFor(h, tc) : j < k} IN
        before = {} \/ Differ(h[LastOf(before)], h[k])}

\* the entry of a type that has been set
Expected(h, tc) ==
    LET last == LastOf(CallsFor(h, tc)) IN
    [type |-> tc, status |-> h[last].status, msg |-> h[last].msg,
     upd |-> LastOf(Changes(h, tc, LAMBDA p, c : p.status # c.status \/ p.msg # c.msg)),
     trans |-> LastOf(Changes(h, tc, LAMBDA p, c : p.status # c.status))]

\* one entry per type set, in the order the types were first set
ExpectedConditions(h) ==
    LET order == SetToSortSeq({tc \in CondKinds : CallsFor(h, tc) # {}},
                              LAMBDA a, b : FirstOf(CallsFor(h, a)) < FirstOf(CallsFor(h, b)))
    IN [i \in DOMAIN order |-> Expected(h, order[i])]

\* histories of up to MaxCalls calls
MaxCalls == 4
Histories == BoundedSeq(Calls, MaxCalls)

\* every history agrees with the reference: the list setCondition builds,
\* and what inCondition reports of it (stated as a property, over the
\* run's states, by the MC modules that extend this one)
ConditionsMatchHistory ==
    \A h \in Histories :
        /\ ApplyCalls(h) = ExpectedConditions(h)
        /\ \A tc \in CondKinds :
              InCondition(ApplyCalls(h), tc)
                <=> CallsFor(h, tc) # {} /\ h[LastOf(CallsFor(h, tc))].status = "True"

====
