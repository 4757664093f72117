------------------------------- MODULE AppAuth -------------------------------
(***************************************************************************)
(* Authentication and authorization of the enterprise app: the middleware  *)
(* in front of every API route (middleware.ts, auth/getUser.ts and the     *)
(* modules it asks), the session the pages are gated by                    *)
(* (lib/auth/session.ts), and the administration of accounts               *)
(* (api/admin/users), which reads, merges and writes an account's          *)
(* metadata.                                                               *)
(*                                                                         *)
(* The accounts are Supabase's.  A bearer token carries the role that its  *)
(* account had when it was issued; a cookie is looked up, with the role    *)
(* that the account has then.  Identities are resolved by awaiting, so     *)
(* accounts change between the answer and the decision.  Of the metadata   *)
(* only the role is kept: an administration request that does not name one *)
(* links an engagement, and writes the role back that it read.             *)
(***************************************************************************)
EXTENDS AccessRules

CONSTANTS
    Users,        \* accounts
    NoUser,       \* no account
    Owners,       \* the accounts named by OWNER_EMAIL
    Managed,      \* the accounts that are administered
    Given,        \* roles that administrators give
    Asked,        \* paths that are asked for
    Origins,      \* of the requests: "own", "listed" or "foreign"
    Configured,   \* whether the app is configured with a list of origins
    Admins        \* administration requests that can be under way at a time

ASSUME AuthAssumption ==
    /\ Owners \subseteq Users
    /\ Managed \subseteq Users
    /\ NoUser \notin Users
    /\ Given \subseteq RawRoles
    /\ Asked \subseteq Paths
    /\ Configured \in BOOLEAN

VARIABLES
    account,      \* the role in the metadata of an account
    held,         \* history: the roles that an account has had
    session,      \* the accounts signed in
    token,        \* the role in the bearer token of an account
    update,       \* administration: the role read and the one asked for
    request       \* the request in the middleware

authVars == <<account, held, session, token, update, request>>

Idle == [at |-> "idle"]

Sources == {"public", "service", "jwt", "cookie"}

AuthTypeOK ==
    /\ account \in [Users -> RawRoles]
    /\ held \in [Users -> SUBSET RawRoles]
    /\ session \subseteq Users
    /\ token \in [Users -> RawRoles \cup {"absent"}]
    /\ \A a \in Admins : update[a] # Idle =>
           /\ update[a].user \in Users
           /\ update[a].read \in RawRoles
           /\ update[a].role \in Given \cup {"keep"}
    /\ request.at \in {"idle", "cors", "unauthorized", "identified", "allowed", "denied"}
    /\ request.at \in {"identified", "allowed", "denied"} =>
           /\ request.path \in Asked
           /\ request.method \in Methods
           /\ request.user \in Users \cup {NoUser}
           /\ request.source \in Sources
           /\ request.access \in DOMAIN AccessRank

\* Accounts are made by signing up, which gives no role.
AuthInit ==
    /\ account = [u \in Users |-> "none"]
    /\ held = [u \in Users |-> {"none"}]
    /\ session = {}
    /\ token = [u \in Users |-> "absent"]
    /\ update = [a \in Admins |-> Idle]
    /\ request = Idle

-----------------------------------------------------------------------------
(* Identities.                                                             *)

\* Mutant: the cookie's role is the metadata's only.
CookieRoleOfMetadata(u) == IF account[u] = "none" THEN "client" ELSE account[u]

\* getCookieIdentity(): "client" for an account without a role.
CookieRole(u) ==
    IF u \in Owners \/ account[u] \in {"admin", "owner"} THEN "admin"
    ELSE IF account[u] = "none" THEN "client"
    ELSE account[u]

\* verifySupabaseJwt(): the role of the token; Supabase's own role claim, which is
\* no role of the app, stands in for a missing one.
TokenAccess(u) == AccessOfRaw(token[u])

\* getSessionUser(): what the layouts, the sign-in and the admin routes ask.
SessionRole(u) ==
    IF u \in Owners \/ account[u] \in {"admin", "owner"} THEN "admin" ELSE "client"

\* isPublicRoute(), isValidServiceApiKey(), extractBearerToken(): a public route
\* asks nobody; else a request shows a key, a token or a session.
Shows(path, method, u, source) ==
    IF IsPublic(path, method) THEN source = "public"
    ELSE \/ source = "service"
         \/ source = "jwt" /\ token[u] # "absent"
         \/ source = "cookie" /\ u \in session

AccessBy(u, source) ==
    CASE source = "public" -> "viewer"
      [] source = "service" -> "admin"
      [] source = "jwt" -> TokenAccess(u)
      [] source = "cookie" -> AccessOfRaw(CookieRole(u))

\* authenticateRequest(), which awaits the verification.
Authenticate(path, method, origin, u, source) ==
    /\ request.at # "identified"
    /\ CorsAnswer(Configured, origin, method) = "on"
    /\ Shows(path, method, u, source)
    /\ request' = [at |-> "identified", path |-> path, method |-> method,
                   user |-> IF source \in {"public", "service"} THEN NoUser ELSE u,
                   source |-> source, access |-> AccessBy(u, source)]
    /\ UNCHANGED <<account, held, session, token, update>>

\* No key, no token and no session: 401.  Or the origin settles it.
TurnAway(path, method, origin) ==
    /\ request.at # "identified"
    /\ \/ /\ CorsAnswer(Configured, origin, method) # "on"
          /\ request' = [at |-> "cors"]
       \/ /\ CorsAnswer(Configured, origin, method) = "on"
          /\ ~ IsPublic(path, method)
          /\ request' = [at |-> "unauthorized"]
    /\ UNCHANGED <<account, held, session, token, update>>

\* allowRequest(): the decision, and the identity handed on in the headers.
Decide ==
    /\ request.at = "identified"
    /\ request' =
           [request EXCEPT !.at =
               IF HasAccess(request.access, RequiredAccess(request.path, request.method))
               THEN "allowed" ELSE "denied"]
    /\ UNCHANGED <<account, held, session, token, update>>

-----------------------------------------------------------------------------
(* Accounts.                                                               *)

\* signIn(), and every refresh of the session (updateSession()): a new token.
SignIn(u) ==
    /\ session' = session \cup {u}
    /\ token' = [token EXCEPT ![u] = account[u]]
    /\ UNCHANGED <<account, held, update, request>>

\* signOut(): the session ends, a token that was copied lives on.
SignOut(u) ==
    /\ session' = session \ {u}
    /\ UNCHANGED <<account, held, token, update, request>>

Expire(u) ==
    /\ token' = [token EXCEPT ![u] = "absent"]
    /\ UNCHANGED <<account, held, session, update, request>>

\* POST api/admin/users up to its read of the account.  Whatever the middleware
\* let through, requireAdmin() asks the session of the caller again.
ReadAccount(a, caller, u, role) ==
    /\ update[a] = Idle
    /\ caller \in session /\ SessionRole(caller) = "admin"
    /\ update' = [update EXCEPT ![a] =
           [at |-> "read", user |-> u, role |-> role, read |-> account[u]]]
    /\ UNCHANGED <<account, held, session, token, request>>

\* Mutant: the request's role is written, asked for or not.
MergedBare(c) == c.role

\* The role that is written: the one asked for, else the one in the copy read.
Merged(c) == IF c.role = "keep" THEN c.read ELSE c.role

WriteAccount(a) ==
    /\ update[a] # Idle
    /\ LET u == update[a].user
       IN /\ account' = [account EXCEPT ![u] = Merged(update[a])]
          /\ held' = [held EXCEPT ![u] = @ \cup {Merged(update[a])}]
    /\ update' = [update EXCEPT ![a] = Idle]
    /\ UNCHANGED <<session, token, request>>

\* updateUserById() fails.
FailAccount(a) ==
    /\ update[a] # Idle
    /\ update' = [update EXCEPT ![a] = Idle]
    /\ UNCHANGED <<account, held, session, token, request>>

AuthNext ==
    \/ \E path \in Asked, method \in Methods, origin \in Origins :
           \/ TurnAway(path, method, origin)
           \/ \E u \in Users, source \in Sources : Authenticate(path, method, origin, u, source)
    \/ Decide
    \/ \E u \in Users : SignIn(u) \/ SignOut(u) \/ Expire(u)
    \/ \E a \in Admins :
           \/ \E caller \in Users, u \in Managed, role \in Given \cup {"keep"} :
                  ReadAccount(a, caller, u, role)
           \/ WriteAccount(a) \/ FailAccount(a)

AuthSpec == AuthInit /\ [][AuthNext]_authVars

-----------------------------------------------------------------------------

\* Whom the pages take for the owner, the APIs behind those pages do not refuse; and
\* what the middleware let through was open to all, came from a service, or from
\* an account that has, or once had, a role for it: neither a stale copy written
\* back, nor a token that outlives a role, grants what was never given.
AccessEarned ==
    /\ \A u \in Users : SessionRole(u) = "admin" => AccessOfRaw(CookieRole(u)) = "admin"
    /\ request.at = "allowed" =>
           \/ RequiredAccess(request.path, request.method) = "none"
           \/ request.source = "service"
           \/ request.user \in Owners
           \/ \E r \in held[request.user] :
                  HasAccess(AccessOfRaw(r), RequiredAccess(request.path, request.method))

=============================================================================
