------------------------------- MODULE Access -------------------------------
(***************************************************************************)
(* Who may do what: user accounts (users/store.go), custom roles           *)
(* (auth/custom_roles.go), sessions (session/store.go), API keys           *)
(* (auth/keys.go), the two ways to log in (auth/login.go and               *)
(* oidc/provider.go) and the middleware that every request passes          *)
(* (auth/middleware.go, server/useradapter.go).                            *)
(*                                                                         *)
(* The four tables live in four databases and no transaction spans two of  *)
(* them: a request reads its session, then its user, then the permissions  *)
(* of the user's role, and the administrator's calls may fall in between.  *)
(* Passwords, hashes and cookies are left out: a wrong one is an early     *)
(* return that changes nothing.  No route disables an account, so the      *)
(* enabled flag is always set.                                             *)
(***************************************************************************)
EXTENDS Naturals, FiniteSets

CONSTANTS
    LocalIds,      \* ids for accounts made by the API; a uuid, used once
    Subjects,      \* OIDC subjects; the account id "oidc:" + subject
    Names,         \* user names
    CustomRoles,   \* names for custom roles
    PermSets,      \* the permission sets a custom role or key may be given
    Claims,        \* OIDC claims [sub, name, role], role already mapped
    Tokens,        \* session tokens; random, each used once
    KeyIds,        \* API keys
    Clients,       \* browsers and API clients
    Lifetime,      \* session and key lifetime
    AutoCreate,    \* OIDC may create accounts
    MaxTime        \* the clock stops here

VARIABLES
    time,
    users,         \* account id -> [name, role], or None
    roles,         \* custom role -> [perms], or None
    sessions,      \* token -> [user, expires], or None
    keys,          \* key -> [perms, expires, enabled], or None
    client,        \* client -> what it is doing
    used           \* ids, tokens and keys handed out so far

accessVars == <<time, users, roles, sessions, keys, client, used>>

None == <<>>
Ids == LocalIds \cup Subjects
Idle == [step |-> "idle"]

\* auth.RolePermissions, with the permissions grouped into three kinds.
BuiltIn == [admin |-> {"admin"}, operator |-> {"read", "write"},
            viewer |-> {"read"}, auditor |-> {"read"}]

IsBuiltInRole(r) == r \in DOMAIN BuiltIn

\* CustomRoleStore.Get and GetPermissions: an unknown role has no permissions.
GetPermissions(r) == IF roles[r] = None THEN {} ELSE roles[r].perms

\* roleResolver.PermissionsForRole: built-in roles first, then the custom ones.
PermissionsForRole(r) == IF IsBuiltInRole(r) THEN BuiltIn[r] ELSE GetPermissions(r)

\* auth.HasPermission and HasPermissionFromContext.
HasPermission(perms, p) == perms \cap {"admin", p} # {}

ByName(n) == {u \in Ids : users[u] # None /\ users[u].name = n}

Exists(u) == users[u] # None

\* The statements of users.Store; an UPDATE of no row changes nothing.
CreateWithID(u, n, r) == [users EXCEPT ![u] = [name |-> n, role |-> r]]
UpdateRole(u, r) == IF Exists(u) THEN [users EXCEPT ![u].role = r] ELSE users
UpdateProfile(u, n) ==
    IF Exists(u) /\ ByName(n) \subseteq {u} THEN [users EXCEPT ![u].name = n] ELSE users
RemoveUser(u) == [users EXCEPT ![u] = None]

\* users.Store.Authenticate.
Authenticate(n) == ByName(n)

\* The statements of session.Store.
Insert(t, u) == [sessions EXCEPT ![t] = [user |-> u, expires |-> time + Lifetime]]
Drop(ts) == [t \in Tokens |-> IF t \in ts THEN None ELSE sessions[t]]

-----------------------------------------------------------------------------
\* What the property below compares a served request with: the roles that its
\* user held, and the permissions that each role had, since it began.
Witnessed(r, us, rs) ==
    IF r.step \notin {"user", "perms"} THEN r
    ELSE [r EXCEPT !.held = @ \cup (IF us[r.user] = None THEN {} ELSE {us[r.user].role}),
                   !.had = [x \in CustomRoles |-> @[x] \cup (IF rs[x] = None THEN {} ELSE rs[x].perms)]]

\* An account's role as it was when an OIDC login read it, and whether it
\* changed since.
Raced(r, us) ==
    IF r.step \notin {"profile", "role"} THEN r
    ELSE [r EXCEPT !.raced = @ \/ us[r.user] = None \/ us[r.user].role # r.role]

Observe(us, rs) == client' = [c \in Clients |-> Raced(Witnessed(client[c], us, rs), us)]

-----------------------------------------------------------------------------
\* The administrator's calls.  handleCreateUser takes any role, known or not.
CreateUser(u, n, r) ==
    /\ u \notin used /\ ByName(n) = {}
    /\ users' = CreateWithID(u, n, r)
    /\ used' = used \cup {u}
    /\ Observe(users', roles)
    /\ UNCHANGED <<time, roles, sessions, keys>>

\* handleDeleteUser; the sessions of the user stay in their own database.
DeleteUser(u) ==
    /\ Exists(u)
    /\ users' = RemoveUser(u)
    /\ Observe(users', roles)
    /\ UNCHANGED <<time, roles, sessions, keys, used>>

\* handlePutUserRole: the role must exist when it is asked for.
PutUserRole(u, r) ==
    /\ Exists(u)
    /\ r \in DOMAIN BuiltIn \cup {x \in CustomRoles : roles[x] # None}
    /\ users' = UpdateRole(u, r)
    /\ Observe(users', roles)
    /\ UNCHANGED <<time, roles, sessions, keys, used>>

CreateRole(r, perms) ==
    /\ roles[r] = None
    /\ roles' = [roles EXCEPT ![r] = [perms |-> perms]]
    /\ Observe(users, roles')
    /\ UNCHANGED <<time, users, sessions, keys, used>>

\* handleDeleteRole leaves the users that have the role as they are.
DeleteRole(r) ==
    /\ roles[r] # None
    /\ roles' = [roles EXCEPT ![r] = None]
    /\ Observe(users, roles')
    /\ UNCHANGED <<time, users, sessions, keys, used>>

CreateKey(k, perms, expires) ==
    /\ k \notin used
    /\ keys' = [keys EXCEPT ![k] = [perms |-> perms, enabled |-> TRUE,
                                    expires |-> IF expires THEN time + Lifetime ELSE MaxTime + 1]]
    /\ used' = used \cup {k}
    /\ UNCHANGED <<time, users, roles, sessions, client>>

\* HandleDeleteKey revokes first, then deletes.
RevokeKey(k) ==
    /\ keys[k] # None /\ keys[k].enabled
    /\ keys' = [keys EXCEPT ![k].enabled = FALSE]
    /\ UNCHANGED <<time, users, roles, sessions, client, used>>

DeleteKey(k) ==
    /\ keys[k] # None /\ ~keys[k].enabled
    /\ keys' = [keys EXCEPT ![k] = None]
    /\ UNCHANGED <<time, users, roles, sessions, client, used>>

-----------------------------------------------------------------------------
\* HandleLoginWithAudit: Authenticate finds the account by its name ...
Login(c, n) ==
    /\ client[c].step = "idle"
    /\ \E u \in Authenticate(n) : client' = [client EXCEPT ![c] = [step |-> "session", user |-> u]]
    /\ UNCHANGED <<time, users, roles, sessions, keys, used>>

\* ... and sessionAdapter.Create adds the row, whether or not the account is
\* still there.  The OIDC callback ends with the same call.
CreateSession(c, t) ==
    /\ client[c].step = "session" /\ t \notin used
    /\ sessions' = Insert(t, client[c].user)
    /\ used' = used \cup {t}
    /\ client' = [client EXCEPT ![c] = Idle]
    /\ UNCHANGED <<time, users, roles, keys>>

Logout(t) ==
    /\ sessions[t] # None
    /\ sessions' = Drop({t})
    /\ UNCHANGED <<time, users, roles, keys, client, used>>

\* session.Store.Cleanup, on a ticker: expires_at <= now.
Cleanup ==
    LET old == {t \in Tokens : sessions[t] # None /\ sessions[t].expires <= time} IN
    /\ old # {}
    /\ sessions' = Drop(old)
    /\ UNCHANGED <<time, users, roles, keys, client, used>>

-----------------------------------------------------------------------------
\* reconcileUser, after the state, the code, the ID token and the nonce have
\* been checked.  The account is looked up by its OIDC id, then by its name.
Found(claim) == IF Exists(claim.sub) THEN {claim.sub} ELSE ByName(claim.name)

OidcLookup(c, claim) ==
    /\ client[c].step = "idle"
    /\ client' = [client EXCEPT ![c] =
           IF Found(claim) # {}
           THEN LET u == CHOOSE u \in Found(claim) : TRUE
                IN [step |-> IF u = claim.sub THEN "profile" ELSE "role", user |-> u,
                    role |-> users[u].role, claim |-> claim, raced |-> FALSE]
           ELSE IF AutoCreate THEN [step |-> "create", claim |-> claim] ELSE Idle]
    /\ UNCHANGED <<time, users, roles, sessions, keys, used>>

\* CreateWithID fails when another login has made the account or taken the name.
OidcCreate(c) ==
    /\ client[c].step = "create"
    /\ LET claim == client[c].claim IN
       IF Exists(claim.sub) \/ ByName(claim.name) # {}
       THEN /\ client' = [client EXCEPT ![c] = Idle]
            /\ UNCHANGED users
       ELSE /\ users' = CreateWithID(claim.sub, claim.name, claim.role)
            /\ client' = [d \in Clients |->
                  IF d = c THEN [step |-> "session", user |-> claim.sub]
                  ELSE Raced(Witnessed(client[d], users', roles), users')]
    /\ UNCHANGED <<time, roles, sessions, keys, used>>

\* UpdateProfile, whose failure (the name is taken, the account gone) is logged.
OidcProfile(c) ==
    /\ client[c].step = "profile"
    /\ users' = UpdateProfile(client[c].user, client[c].claim.name)
    /\ client' = [client EXCEPT ![c].step = "role"]
    /\ UNCHANGED <<time, roles, sessions, keys, used>>

\* Mutant: the role of the claims always wins.
ChangesRoleAlways(now, target) == now # target

\* The role of the claims replaces the stored one, except an admin's.
ChangesRole(now, target) == ~(now = "admin" /\ target # "admin") /\ now # target

\* UpdateRole, decided on the role that OidcLookup read.
OidcRole(c) ==
    /\ client[c].step = "role"
    /\ LET u == client[c].user
           target == client[c].claim.role
           next == [step |-> "session", user |-> u]
       IN IF ~ChangesRole(client[c].role, target)
          THEN /\ client' = [client EXCEPT ![c] = next]
               /\ UNCHANGED users
          ELSE /\ users' = UpdateRole(u, target)
               /\ client' = [d \in Clients |->
                     IF d = c THEN IF Exists(u) THEN next ELSE Idle
                     ELSE Raced(Witnessed(client[d], users', roles), users')]
    /\ UNCHANGED <<time, roles, sessions, keys, used>>

-----------------------------------------------------------------------------
\* session.Store.Validate reads the row, deletes it when it has expired, and
\* else touches last_active, which brings no row back.
Validates(t) == sessions[t] # None /\ time <= sessions[t].expires

\* trySessionAuth.
Begin(c, t, p) ==
    /\ client[c].step = "idle" /\ t \in used
    /\ sessions' = IF Validates(t) THEN sessions ELSE Drop({t})
    /\ client' = IF ~Validates(t) THEN client
                 ELSE [client EXCEPT ![c] = Witnessed(
                        [step |-> "user", user |-> sessions[t].user, perm |-> p, held |-> {},
                         had |-> [r \in CustomRoles |-> {}]], users, roles)]
    /\ UNCHANGED <<time, users, roles, keys, used>>

\* sessionAdapter.Validate goes on to the user: none, no entry.
LookupUser(c) ==
    /\ client[c].step = "user"
    /\ client' = [client EXCEPT ![c] =
           IF Exists(client[c].user)
           THEN [step |-> "perms", user |-> client[c].user, perm |-> client[c].perm,
                 role |-> users[client[c].user].role, held |-> client[c].held, had |-> client[c].had]
           ELSE Idle]
    /\ UNCHANGED <<time, users, roles, sessions, keys, used>>

\* Mutant: a role that is not built in is trusted with every permission.
GrantedUnknown(r, p) == ~IsBuiltInRole(r) \/ HasPermission(PermissionsForRole(r), p)

Granted(r, p) == HasPermission(PermissionsForRole(r), p)

\* requirePermission, on the permissions resolved for the role read before.
Resolve(c) ==
    /\ client[c].step = "perms"
    /\ client' = [client EXCEPT ![c] =
           IF Granted(client[c].role, client[c].perm) THEN [client[c] EXCEPT !.step = "served"] ELSE Idle]
    /\ UNCHANGED <<time, users, roles, sessions, keys, used>>

\* KeyStore.Validate reads the row once, under its lock.
ValidKey(k) == keys[k] # None /\ keys[k].enabled /\ time <= keys[k].expires

\* tryAPIKeyAuth.
UseKey(c, k, p) ==
    /\ client[c].step = "idle" /\ ValidKey(k) /\ HasPermission(keys[k].perms, p)
    /\ client' = [client EXCEPT ![c] = [step |-> "keyed", key |-> k]]
    /\ UNCHANGED <<time, users, roles, sessions, keys, used>>

Done(c) ==
    /\ client[c].step \in {"served", "keyed"}
    /\ client' = [client EXCEPT ![c] = Idle]
    /\ UNCHANGED <<time, users, roles, sessions, keys, used>>

Tick ==
    /\ time < MaxTime
    /\ time' = time + 1
    /\ UNCHANGED <<users, roles, sessions, keys, client, used>>

\* initAuth makes the first account, an administrator.
Init ==
    /\ time = 0
    /\ LET first == CHOOSE u \in LocalIds : TRUE
           name == CHOOSE n \in Names : TRUE
       IN /\ users = [u \in Ids |-> IF u = first THEN [name |-> name, role |-> "admin"] ELSE None]
          /\ used = {first}
    /\ roles = [r \in CustomRoles |-> None]
    /\ sessions = [t \in Tokens |-> None]
    /\ keys = [k \in KeyIds |-> None]
    /\ client = [c \in Clients |-> Idle]

Assignable == CustomRoles \cup {"admin", "viewer"}

Next ==
    \/ \E u \in LocalIds, n \in Names, r \in Assignable : CreateUser(u, n, r)
    \/ \E u \in Ids : DeleteUser(u) \/ \E r \in Assignable : PutUserRole(u, r)
    \/ \E r \in CustomRoles : DeleteRole(r) \/ \E ps \in PermSets : CreateRole(r, ps)
    \/ \E k \in KeyIds : RevokeKey(k) \/ DeleteKey(k)
    \/ \E k \in KeyIds, ps \in PermSets, e \in BOOLEAN : CreateKey(k, ps, e)
    \/ \E t \in Tokens : Logout(t)
    \/ \E c \in Clients :
          \/ \E n \in Names : Login(c, n)
          \/ \E t \in Tokens : CreateSession(c, t)
          \/ \E t \in Tokens, p \in {"admin", "read"} : Begin(c, t, p)
          \/ \E k \in KeyIds, p \in {"admin", "read"} : UseKey(c, k, p)
          \/ \E claim \in Claims : OidcLookup(c, claim)
          \/ OidcCreate(c) \/ OidcProfile(c) \/ OidcRole(c)
          \/ LookupUser(c) \/ Resolve(c) \/ Done(c)
    \/ Cleanup
    \/ Tick

Spec == Init /\ [][Next]_accessVars

-----------------------------------------------------------------------------
\* A request is served on its session only if, since it began, its user held
\* a role that granted the permission since it began: whatever calls change
\* accounts and roles between the three reads, nothing older than the request
\* counts, and a role that is gone grants nothing.
ServedOnCurrentRights ==
    \A c \in Clients : client[c].step = "served" =>
        \E r \in client[c].held :
            HasPermission(IF IsBuiltInRole(r) THEN BuiltIn[r] ELSE client[c].had[r], client[c].perm)

\* reconcileUser never demotes an administrator, except one whose role changed
\* while the login was under way: it decides on the role that it read.
OidcKeepsAdmins ==
    [][\A c \in Clients :
          client[c].step = "role" /\ client'[c].step = "session"
             /\ users[client[c].user] # None /\ users[client[c].user].role = "admin"
             /\ users'[client[c].user].role # "admin"
          => client[c].raced]_accessVars
=============================================================================
