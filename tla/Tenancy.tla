------------------------------- MODULE Tenancy ------------------------------
(***************************************************************************)
(* Tenants (tenant/tenant.go), the memberships of users, the tenants of    *)
(* probes, and what a user's list of probes shows                          *)
(* (server/server.go, resolveTenantScope and probesForRequest).            *)
(*                                                                         *)
(* The tenant store and the fleet are guarded separately: the deletion of  *)
(* a tenant looks at the fleet first, and a listing reads the memberships  *)
(* first.  Administrators see everything and are left out; a probe without *)
(* a tenant is one with NoTenant, which nobody is a member of.             *)
(***************************************************************************)
EXTENDS Naturals, FiniteSets

CONSTANTS Tenants, Users, Probes, SlugOf(_)

VARIABLES
    tenants,    \* tenant -> "none", "live" or "deleted"; the id is a uuid
    members,    \* user -> set of tenants
    placed,     \* probe -> tenant or NoTenant
    deleting,   \* tenant -> the handler has seen no probes there
    viewer      \* user -> the listing under way

tenancyVars == <<tenants, members, placed, deleting, viewer>>

NoTenant == "no_tenant"
Idle == [step |-> "idle"]

\* Store.GetUserTenants.
GetUserTenants(u) == members[u]

\* Memberships and placements that a listing has lived through.
Noted(v, u, ms, pl) ==
    IF v.step # "scoped" THEN v
    ELSE [v EXCEPT !.mine = @ \cup ms[u], !.at = [p \in Probes |-> @[p] \cup {pl[p]}]]

Observe(ms, pl) == viewer' = [u \in Users |-> Noted(viewer[u], u, ms, pl)]

\* Store.Create: the slug is unique among the tenants that exist.
Create(t) ==
    /\ tenants[t] = "none"
    /\ \A s \in Tenants : tenants[s] = "live" => SlugOf(s) # SlugOf(t)
    /\ tenants' = [tenants EXCEPT ![t] = "live"]
    /\ UNCHANGED <<members, placed, deleting, viewer>>

\* SetUserTenants replaces the memberships in one transaction and does not
\* ask whether the tenants exist.
SetUserTenants(u, ts) == [members EXCEPT ![u] = ts]

\* handleAssignUserTenants.
AssignUserTenants(u, ts) ==
    /\ members[u] # ts
    /\ members' = SetUserTenants(u, ts)
    /\ Observe(members', placed)
    /\ UNCHANGED <<tenants, placed, deleting>>

\* Manager.SetTenantID, for a registration whose token names the tenant.
Place(p, t) ==
    /\ placed[p] # t
    /\ placed' = [placed EXCEPT ![p] = t]
    /\ Observe(members, placed')
    /\ UNCHANGED <<tenants, members, deleting>>

\* handleDeleteTenant: no probe may be in the tenant ...
CheckEmpty(t) ==
    /\ tenants[t] = "live" /\ ~deleting[t]
    /\ \A p \in Probes : placed[p] # t
    /\ deleting' = [deleting EXCEPT ![t] = TRUE]
    /\ UNCHANGED <<tenants, members, placed, viewer>>

\* ... and Store.Delete removes the row and its memberships.
Delete(t) ==
    /\ deleting[t]
    /\ deleting' = [deleting EXCEPT ![t] = FALSE]
    /\ tenants' = [tenants EXCEPT ![t] = "deleted"]
    /\ members' = [u \in Users |-> GetUserTenants(u) \ {t}]
    /\ Observe(members', placed)
    /\ UNCHANGED placed

\* resolveTenantScope, for a user who is no administrator.
ResolveScope(u) ==
    /\ viewer[u].step = "idle"
    /\ viewer' = [viewer EXCEPT ![u] =
           [step |-> "scoped", scope |-> GetUserTenants(u), mine |-> members[u],
            at |-> [p \in Probes |-> {placed[p]}]]]
    /\ UNCHANGED <<tenants, members, placed, deleting>>

AllowsTenant(scope, t) == t \in scope

\* Mutant: a scope without tenants is taken for an administrator's.
VisibleWhenEmpty(scope) == {p \in Probes : scope = {} \/ AllowsTenant(scope, placed[p])}

Visible(scope) == {p \in Probes : AllowsTenant(scope, placed[p])}

\* probesForRequest resolves an empty scope a second time.
ListProbes(u) ==
    /\ viewer[u].step = "scoped"
    /\ LET scope == IF viewer[u].scope = {} THEN GetUserTenants(u) ELSE viewer[u].scope
       IN viewer' = [viewer EXCEPT ![u] =
              [step |-> "shown", probes |-> Visible(scope), mine |-> @.mine, at |-> @.at]]
    /\ UNCHANGED <<tenants, members, placed, deleting>>

Answer(u) ==
    /\ viewer[u].step = "shown"
    /\ viewer' = [viewer EXCEPT ![u] = Idle]
    /\ UNCHANGED <<tenants, members, placed, deleting>>

Init ==
    /\ tenants = [t \in Tenants |-> "none"]
    /\ members = [u \in Users |-> {}]
    /\ placed = [p \in Probes |-> NoTenant]
    /\ deleting = [t \in Tenants |-> FALSE]
    /\ viewer = [u \in Users |-> Idle]

Next ==
    \/ \E t \in Tenants : Create(t) \/ CheckEmpty(t) \/ Delete(t)
    \/ \E u \in Users : ResolveScope(u) \/ ListProbes(u) \/ Answer(u)
    \/ \E u \in Users, ts \in SUBSET Tenants : AssignUserTenants(u, ts)
    \/ \E p \in Probes, t \in Tenants \cup {NoTenant} : Place(p, t)

Spec == Init /\ [][Next]_tenancyVars

-----------------------------------------------------------------------------
\* probesForRequest shows a user no probe that was not, at some moment of the
\* request, in a tenant the user belonged to at some moment of the request.
ShownProbesWereVisible ==
    \A u \in Users : viewer[u].step = "shown" =>
        \A p \in viewer[u].probes : viewer[u].at[p] \cap viewer[u].mine # {}
=============================================================================
