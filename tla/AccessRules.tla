----------------------------- MODULE AccessRules -----------------------------
(***************************************************************************)
(* Who may call which route of the enterprise app (auth/permissions.ts and *)
(* auth/roles.ts): the rules, as functions of a path, a method and a role. *)
(* A path stands for all that the rules do not tell apart from it.         *)
(***************************************************************************)
EXTENDS Naturals

Paths == {"leads", "consulting", "checkout", "webhook", "ops", "admin",
          "govern", "portal", "marketing"}

Methods == {"GET", "POST", "OPTIONS"}

\* PUBLIC_ROUTE_RULES: exact paths, and the methods that are open.
PublicMethods(path) ==
    CASE path \in {"leads", "webhook"} -> {"POST"}
      [] path \in {"consulting", "checkout"} -> {"GET", "POST"}
      [] OTHER -> {}

IsPublic(path, method) == method \in PublicMethods(path)

\* ADMIN_ONLY_PREFIXES and ADMIN_ONLY_SEGMENTS.
AdminOnly == {"ops", "admin", "govern"}

\* getRequiredAccessRole(), "none" for null.
RequiredAccess(path, method) ==
    IF method = "OPTIONS" \/ IsPublic(path, method) THEN "none"
    ELSE IF path \in AdminOnly THEN "admin"
    ELSE IF method = "GET" THEN "viewer"
    ELSE "operator"

\* middleware(): what it answers by the origin of a request before anybody is asked,
\* "on" if it goes on.  Configured says whether CORS_ORIGINS (or a development
\* default) names origins.
CorsAnswer(configured, origin, method) ==
    IF ~ configured THEN IF origin = "own" THEN "on" ELSE "error"
    ELSE IF origin = "foreign" THEN "forbidden"
    ELSE IF method = "OPTIONS" THEN "preflight"
    ELSE "on"

\* The role names of an account's metadata; "none" if it has none, "guest" is one
\* that normalizeAuthRole() does not know.
RawRoles == {"none", "guest", "client", "viewer", "consultant", "editor", "owner", "admin",
             "enterprise_admin"}

\* normalizeAuthRole(), "none" for null.
Normalized(raw) ==
    CASE raw \in {"viewer", "client", "consultant"} -> raw
      [] raw = "editor" -> "operator"
      [] raw \in {"owner", "admin", "enterprise_admin"} -> "admin"
      [] OTHER -> "none"

\* toAccessRole()
AccessOf(role) ==
    CASE role = "admin" -> "admin"
      [] role \in {"operator", "consultant"} -> "operator"
      [] OTHER -> "viewer"

\* normalizeAuthRole(..) || "viewer", as an access role.
AccessOfRaw(raw) == AccessOf(Normalized(raw))

\* ACCESS_ROLE_RANK
AccessRank == [viewer |-> 1, operator |-> 2, admin |-> 3]

\* hasRequiredAccess()
HasAccess(actual, required) ==
    required # "none" => AccessRank[actual] >= AccessRank[required]

=============================================================================
