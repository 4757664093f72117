----------------------------- MODULE AppProofs -----------------------------
(***************************************************************************)
(* The parts of the enterprise app beside the engagement service.          *)
(*                                                                         *)
(* What the middleware lets through was earned: no interleaving of         *)
(* sign-ins, expiries, role changes and overlapping administration         *)
(* requests gives a caller an access that its account never had.  Of the  *)
(* microphones of the dock, one at most is on that was not told to stop.   *)
(* The numbers that the app reports of campaigns and builds count what     *)
(* came about.  A lead that a file or a table calls converted names an     *)
(* engagement made from it.  What the rate limit admits is bounded, if not *)
(* by the limit.  With the theorems of PagesProofs, these are of every     *)
(* part by itself; the last section takes them to the composition that is  *)
(* model-checked.                                                          *)
(*                                                                         *)
(* For any accounts, owners, paths and administration requests under way,  *)
(* any recognizers, content items, approvals, leads, conversions,          *)
(* restarts, limits and windows, and those constants of PagesProofs.       *)
(***************************************************************************)
EXTENDS AppPartsMC, PagesProofs, SequenceTheorems, FiniteSetTheorems, TLAPS

-----------------------------------------------------------------------------
(* Authentication and authorization.                                       *)

Accesses == {"viewer", "operator", "admin"}

\* The rules rank every role they know, and open a public route to all.
LEMMA Ranks ==
  /\ DOMAIN AccessRank = Accesses
  /\ \A r : AccessOfRaw(r) \in Accesses
  /\ \A path, method : IsPublic(path, method) => RequiredAccess(path, method) = "none"
  <1>1. DOMAIN AccessRank = Accesses
    BY DEF AccessRank, Accesses
  <1>2. \A r : AccessOfRaw(r) \in Accesses
    BY DEF AccessOfRaw, AccessOf, Accesses
  <1>3. \A path, method : IsPublic(path, method) => RequiredAccess(path, method) = "none"
    BY DEF RequiredAccess
  <1> QED
    BY <1>1, <1>2, <1>3

-----------------------------------------------------------------------------
(* The invariant.                                                          *)

\* An administration request, as ReadAccount leaves it.
Administering == [at : {"read"}, user : Users, read : RawRoles, role : Given \cup {"keep"}]

Judged == {"identified", "allowed", "denied"}

\* Every copy of a role, in an account, a token or an administration request, is of a
\* role that the account has had.
CopiesHeld ==
    /\ \A u \in Users : account[u] \in held[u]
    /\ \A u \in Users : token[u] # "absent" => token[u] \in held[u]
    /\ \A a \in Admins : update[a] # Idle => update[a].read \in held[update[a].user]

\* An identity's access is of a role that its account has had.
Earned(u, access) == u \in Owners \/ \E r \in held[u] : AccessOfRaw(r) = access

RequestFits ==
    /\ request.at \in Judged =>
           /\ request.source = "public" => RequiredAccess(request.path, request.method) = "none"
           /\ request.source \in {"jwt", "cookie"} =>
                  request.user \in Users /\ Earned(request.user, request.access)
    /\ request.at = "allowed" =>
           HasAccess(request.access, RequiredAccess(request.path, request.method))

AuthInv ==
    /\ AuthTypeOK
    /\ \A a \in Admins : update[a] = Idle \/ update[a] \in Administering
    /\ DOMAIN update = Admins
    /\ CopiesHeld
    /\ RequestFits

-----------------------------------------------------------------------------
(* The steps.                                                              *)

\* What the identity that a request shows is worth.
LEMMA IdentityEarned ==
  ASSUME AuthInv, NEW u \in Users, NEW source \in {"jwt", "cookie"},
         source = "jwt" => token[u] # "absent"
  PROVE  Earned(u, AccessBy(u, source))
  <1>1. CASE source = "jwt"
    <2>1. token[u] \in held[u] /\ AccessBy(u, source) = AccessOfRaw(token[u])
      BY <1>1 DEF AuthInv, CopiesHeld, AccessBy, TokenAccess
    <2> QED
      BY <2>1 DEF Earned
  <1>2. CASE source = "cookie" /\ u \notin Owners
    <2>1. account[u] \in held[u] /\ AccessBy(u, source) = AccessOfRaw(CookieRole(u))
      BY <1>2 DEF AuthInv, CopiesHeld, AccessBy
    <2>2. AccessOfRaw(CookieRole(u)) = AccessOfRaw(account[u])
      BY <1>2 DEF CookieRole, AccessOfRaw, Normalized, AccessOf
    <2> QED
      BY <2>1, <2>2 DEF Earned
  <1> QED
    BY <1>1, <1>2 DEF Earned

LEMMA AuthenticateStep ==
  ASSUME AuthInv, NEW path \in Asked, NEW method \in Methods, NEW origin \in Origins,
         NEW u \in Users, NEW source \in Sources, Authenticate(path, method, origin, u, source)
  PROVE  AuthInv'
  <1>1. UNCHANGED <<account, held, session, token, update>>
    BY DEF Authenticate
  <1>2. PICK who, access :
          /\ who = IF source \in {"public", "service"} THEN NoUser ELSE u
          /\ access = AccessBy(u, source)
    OBVIOUS
  <1>3. request' = [at |-> "identified", path |-> path, method |-> method,
                    user |-> who, source |-> source, access |-> access]
    BY <1>2 DEF Authenticate
  <1>4. access \in Accesses
    BY <1>2, Ranks DEF AccessBy, Sources, TokenAccess, Accesses
  <1>5. AuthTypeOK'
    BY <1>1, <1>2, <1>3, <1>4, Ranks DEF AuthInv, AuthTypeOK, Sources
  <1>6. source = "public" => RequiredAccess(path, method) = "none"
    BY Ranks DEF Authenticate, Shows
  <1>7. source \in {"jwt", "cookie"} => who \in Users /\ Earned(who, access)
    BY <1>2, IdentityEarned DEF Authenticate, Shows
  <1>8. RequestFits'
    BY <1>1, <1>3, <1>6, <1>7 DEF RequestFits, Earned, Judged
  <1> QED
    BY <1>1, <1>5, <1>8 DEF AuthInv, CopiesHeld

LEMMA DecideStep ==
  ASSUME AuthInv, Decide \/ \E path \in Asked, method \in Methods, origin \in Origins :
                            TurnAway(path, method, origin)
  PROVE  AuthInv'
  <1>1. UNCHANGED <<account, held, session, token, update>>
    BY DEF Decide, TurnAway
  <1>2. AuthTypeOK' /\ RequestFits'
    <2>1. CASE Decide
      <3>1. PICK at \in {"allowed", "denied"} :
              /\ request' = [request EXCEPT !.at = at]
              /\ at = "allowed" =>
                    HasAccess(request.access, RequiredAccess(request.path, request.method))
        BY <2>1 DEF Decide
      <3>2. request.at = "identified"
        BY <2>1 DEF Decide
      <3> QED
        BY <1>1, <3>1, <3>2 DEF AuthInv, AuthTypeOK, RequestFits, Earned, Judged
    <2>2. ASSUME NEW path \in Asked, NEW method \in Methods, NEW origin \in Origins,
                 TurnAway(path, method, origin)
          PROVE  AuthTypeOK' /\ RequestFits'
      <3>1. request' = [at |-> "cors"] \/ request' = [at |-> "unauthorized"]
        BY <2>2 DEF TurnAway
      <3>2. request'.at \in {"cors", "unauthorized"}
        BY <3>1
      <3> QED
        BY <1>1, <3>2 DEF AuthInv, AuthTypeOK, RequestFits, Judged
    <2> QED
      BY <2>1, <2>2
  <1> QED
    BY <1>1, <1>2 DEF AuthInv, CopiesHeld

LEMMA SessionStep ==
  ASSUME AuthInv, NEW u \in Users, SignIn(u) \/ SignOut(u) \/ Expire(u)
  PROVE  AuthInv'
  <1>1. UNCHANGED <<account, held, update, request>>
    BY DEF SignIn, SignOut, Expire
  <1>2. /\ session' \subseteq Users
        /\ \/ token' = [token EXCEPT ![u] = account[u]]
           \/ token' = token
           \/ token' = [token EXCEPT ![u] = "absent"]
    BY DEF SignIn, SignOut, Expire, AuthInv, AuthTypeOK
  <1>3. AuthTypeOK'
    BY <1>1, <1>2 DEF AuthInv, AuthTypeOK
  <1>4. CopiesHeld'
    BY <1>1, <1>2 DEF AuthInv, AuthTypeOK, CopiesHeld
  <1> QED
    BY <1>1, <1>3, <1>4 DEF AuthInv, RequestFits, Earned

\* A role asked for or written back is one the account may have.
LEMMA AdminStep ==
  ASSUME AuthInv, NEW a \in Admins,
         \/ \E caller \in Users, u \in Managed, role \in Given \cup {"keep"} :
               ReadAccount(a, caller, u, role)
         \/ WriteAccount(a) \/ FailAccount(a)
  PROVE  AuthInv'
  <1>1. UNCHANGED <<session, token, request>>
    BY DEF ReadAccount, WriteAccount, FailAccount
  <1>2. ASSUME NEW u \in Managed, NEW role \in Given \cup {"keep"}, NEW caller \in Users,
               ReadAccount(a, caller, u, role)
        PROVE  AuthInv'
    <2>1. PICK row \in Administering : /\ row = [at |-> "read", user |-> u, role |-> role, read |-> account[u]]
                                /\ update' = [update EXCEPT ![a] = row]
      BY <1>2, AuthAssumption DEF ReadAccount, Administering, AuthInv, AuthTypeOK
    <2>2. UNCHANGED <<account, held>>
      BY <1>2 DEF ReadAccount
    <2>3. /\ DOMAIN update' = Admins
          /\ \A b \in Admins : update'[b] = IF b = a THEN row ELSE update[b]
      BY <2>1 DEF AuthInv
    <2>4. row.user = u /\ row.read = account[u] /\ u \in Users
      BY <2>1, AuthAssumption
    <2>5. AuthTypeOK'
      BY <1>1, <2>1, <2>2, <2>3 DEF AuthInv, AuthTypeOK, Administering
    <2>6. CopiesHeld'
      BY <1>1, <2>2, <2>3, <2>4 DEF AuthInv, CopiesHeld
    <2> QED
      BY <1>1, <2>1, <2>2, <2>3, <2>5, <2>6 DEF AuthInv, RequestFits, Earned
  <1>3. CASE WriteAccount(a)
    <2>1. PICK row \in Administering : row = update[a]
      BY <1>3 DEF AuthInv, WriteAccount
    <2>2. PICK u \in Users, r \in RawRoles : u = row.user /\ r = Merged(row)
      BY <2>1, AuthAssumption DEF Administering, Merged
    <2>3. /\ account' = [account EXCEPT ![u] = r]
          /\ held' = [held EXCEPT ![u] = held[u] \cup {r}]
          /\ update' = [update EXCEPT ![a] = Idle]
      BY <1>3, <2>1, <2>2 DEF WriteAccount
    <2>4. /\ DOMAIN update' = Admins
          /\ \A b \in Admins : update'[b] = IF b = a THEN Idle ELSE update[b]
      BY <2>3 DEF AuthInv
    <2>5. /\ \A v \in Users : held[v] \subseteq held'[v]
          /\ \A v \in Users : account'[v] \in held'[v]
      BY <2>3 DEF AuthInv, AuthTypeOK, CopiesHeld
    <2>6. AuthTypeOK'
      BY <1>1, <2>3, <2>4 DEF AuthInv, AuthTypeOK
    <2>7. CopiesHeld'
      <3>1. \A v \in Users : token'[v] # "absent" => token'[v] \in held'[v]
        BY <1>1, <2>5 DEF AuthInv, CopiesHeld
      <3>2. ASSUME NEW b \in Admins, update'[b] # Idle
            PROVE  update'[b].read \in held'[update'[b].user]
        <4>1. PICK k \in Administering : k = update'[b] /\ k = update[b]
          BY <2>4, <3>2 DEF AuthInv
        <4>2. k.user \in Users /\ k.read \in held[k.user]
          BY <2>4, <3>2, <4>1 DEF AuthInv, CopiesHeld, Administering
        <4> QED
          BY <2>5, <4>1, <4>2
      <3> QED
        BY <2>5, <3>1, <3>2 DEF CopiesHeld
    <2>8. RequestFits'
      BY <1>1, <2>5 DEF AuthInv, RequestFits, Earned
    <2> QED
      BY <2>4, <2>6, <2>7, <2>8 DEF AuthInv
  <1>4. CASE FailAccount(a)
    <2>1. UNCHANGED <<account, held>> /\ update' = [update EXCEPT ![a] = Idle]
      BY <1>4 DEF FailAccount
    <2>2. /\ DOMAIN update' = Admins
          /\ \A b \in Admins : update'[b] = IF b = a THEN Idle ELSE update[b]
      BY <2>1 DEF AuthInv
    <2> QED
      BY <1>1, <2>1, <2>2 DEF AuthInv, AuthTypeOK, CopiesHeld, RequestFits, Earned
  <1> QED
    BY <1>2, <1>3, <1>4

LEMMA AuthAtFirst == AuthInit => AuthInv
  BY DEF AuthInit, AuthInv, AuthTypeOK, CopiesHeld, RequestFits, Judged, Idle, RawRoles

\* The inductive invariant: every copy of a role is of one that was held, and a request
\* keeps the access of such a copy.
THEOREM AuthAlways == AuthSpec => []AuthInv
  <1>1. AuthInv /\ [AuthNext]_authVars => AuthInv'
    <2>1. ASSUME AuthInv, AuthNext
          PROVE  AuthInv'
      BY <2>1, AuthenticateStep, DecideStep, SessionStep, AdminStep DEF AuthNext
    <2>2. ASSUME AuthInv, UNCHANGED authVars
          PROVE  AuthInv'
      BY <2>2 DEF authVars, AuthInv, AuthTypeOK, CopiesHeld, RequestFits, Earned
    <2> QED
      BY <2>1, <2>2
  <1> QED
    BY <1>1, AuthAtFirst, PTL DEF AuthSpec

-----------------------------------------------------------------------------
(* The theorems.                                                           *)

\* The accounts, the sessions and the request in the middleware are well typed.
THEOREM AuthTypeCorrect == AuthSpec => []AuthTypeOK
  <1>1. AuthInv => AuthTypeOK
    BY DEF AuthInv
  <1> QED
    BY <1>1, AuthAlways, PTL

\* What the middleware allowed was open to all, came from a service or an owner, or
\* from an account that has or once had a role for it; and whom the pages take for
\* the owner, the API takes for an administrator.
THEOREM AllowedIsEarned == AuthSpec => []AccessEarned
  <1>1. AuthInv => AccessEarned
    <2> SUFFICES ASSUME AuthInv PROVE AccessEarned
      OBVIOUS
    <2>1. \A u \in Users : SessionRole(u) = "admin" => AccessOfRaw(CookieRole(u)) = "admin"
      <3>1. ASSUME NEW u \in Users, SessionRole(u) = "admin"
            PROVE  CookieRole(u) = "admin"
        <4>1. u \in Owners \/ account[u] \in {"admin", "owner"}
          BY <3>1 DEF SessionRole
        <4> QED
          BY <4>1 DEF CookieRole
      <3>2. AccessOfRaw("admin") = "admin"
        <4>1. Normalized("admin") = "admin"
          BY DEF Normalized
        <4> QED
          BY <4>1 DEF AccessOfRaw, AccessOf
      <3> QED
        BY <3>1, <3>2
    <2>2. ASSUME request.at = "allowed",
                 RequiredAccess(request.path, request.method) # "none",
                 request.source # "service", request.user \notin Owners
          PROVE  \E r \in held[request.user] :
                     HasAccess(AccessOfRaw(r), RequiredAccess(request.path, request.method))
      <3>1. request.source \in {"jwt", "cookie"}
        BY <2>2 DEF AuthInv, AuthTypeOK, RequestFits, Sources, Judged
      <3> QED
        BY <2>2, <3>1 DEF AuthInv, RequestFits, Earned, Judged
    <2> QED
      BY <2>1, <2>2 DEF AccessEarned
  <1> QED
    BY <1>1, AuthAlways, PTL

-----------------------------------------------------------------------------
(* The voice dock.                                                         *)

\* What keeps one recognizer live: those not made yet report nothing, so the one that
\* is made next takes nothing from the button.
DockInv ==
    /\ DockTypeOK
    /\ current <= count
    /\ \A r \in Recs : r > count => mic[r] = "unmade"
    /\ OneMic

LEMMA DockAtFirst == DockInit => DockInv
  <1> SUFFICES ASSUME DockInit PROVE DockInv
    OBVIOUS
  <1>1. mic \in [Recs -> MicState] /\ current \in Recs \cup {0} /\ count \in 0 .. MaxRecs
    BY DockAssumption DEF DockInit, Recs, MicState
  <1>2. DockTypeOK
    BY <1>1 DEF DockInit, DockTypeOK
  <1>3. current <= count /\ OneMic
    BY DEF DockInit, OneMic
  <1> QED
    BY <1>2, <1>3 DEF DockInit, DockInv

\* Stopping the current recognizer leaves none live.
LEMMA AllSilenced ==
  ASSUME DockInv
  PROVE  /\ Silenced(mic) \in [Recs -> MicState]
         /\ \A r \in Recs : Silenced(mic)[r] # "live"
         /\ \A r \in Recs : mic[r] \in {"live", "stopping"}
                                => Silenced(mic)[r] \in {"live", "stopping"}
         /\ \A r \in Recs : r > count => Silenced(mic)[r] = "unmade"
  BY DEF DockInv, DockTypeOK, OneMic, Silenced, MicState

LEMMA VisitStep ==
  ASSUME DockInv, NEW p \in Docked \cup {"outside"}, Visit(p)
  PROVE  DockInv'
  <1>1. place' = p
    BY DEF Visit
  <1>2. CASE p \in Docked /\ ~ (place # "outside" /\ ContextOf(p) = ContextOf(place))
    <2>1. /\ count < MaxRecs /\ count' = count + 1 /\ current' = count'
          /\ mic' = [Silenced(mic) EXCEPT ![count'] = "ready"]
          /\ UNCHANGED <<starting, listening, speaking>>
      BY <1>2 DEF Visit, Renew
    <2>2. count' \in Recs /\ count' \in 0 .. MaxRecs
      BY <2>1, DockAssumption DEF DockInv, DockTypeOK, Recs
    <2>3. PICK m \in [Recs -> MicState] :
            /\ m = Silenced(mic)
            /\ \A r \in Recs : m[r] # "live"
            /\ \A r \in Recs : mic[r] \in {"live", "stopping"} => m[r] \in {"live", "stopping"}
            /\ \A r \in Recs : r > count => m[r] = "unmade"
      BY AllSilenced
    <2>4. mic' \in [Recs -> MicState] /\ \A r \in Recs : mic'[r] = IF r = count' THEN "ready" ELSE m[r]
      BY <2>1, <2>2, <2>3 DEF MicState
    <2>5. DockTypeOK' /\ current' <= count'
      BY <1>1, <2>1, <2>2, <2>4 DEF DockInv, DockTypeOK
    <2>6. \A r \in Recs : r > count' => mic'[r] = "unmade"
      BY <2>1, <2>2, <2>3, <2>4 DEF Recs, DockInv, DockTypeOK
    <2>7. \A r \in Recs : mic'[r] = "live" => r = current'
      BY <2>3, <2>4
    <2>8. ASSUME listening'
          PROVE  \E r \in Recs : mic'[r] \in {"live", "stopping"}
      <3>1. PICK r \in Recs : mic[r] \in {"live", "stopping"}
        BY <2>1, <2>8 DEF DockInv, OneMic
      <3>2. r # count'
        BY <2>1, <2>2, <3>1 DEF DockInv, DockTypeOK, Recs
      <3> QED
        BY <2>3, <2>4, <3>1, <3>2
    <2> QED
      BY <2>5, <2>6, <2>7, <2>8 DEF DockInv, OneMic
  <1>3. CASE p \in Docked /\ place # "outside" /\ ContextOf(p) = ContextOf(place)
    <2>1. UNCHANGED <<mic, current, count>>
      BY <1>3 DEF Visit, Renew
    <2>2. UNCHANGED <<starting, listening, speaking>>
      BY <1>3 DEF Visit
    <2>3. place' \in Docked \cup {"outside"}
      BY <1>1
    <2>4. DockTypeOK'
      BY <2>1, <2>2, <2>3 DEF DockInv, DockTypeOK
    <2>5. OneMic'
      BY <2>1, <2>2 DEF DockInv, OneMic
    <2> QED
      BY <2>1, <2>4, <2>5 DEF DockInv
  <1>4. CASE p \notin Docked
    <2>1. /\ mic' = [r \in Recs |-> IF mic[r] \in {"live", "stopping", "failed"}
                                    THEN "lost" ELSE mic[r]]
          /\ current' = 0 /\ starting' = FALSE /\ listening' = FALSE /\ speaking' = FALSE
          /\ count' = count
      BY <1>4 DEF Visit, Unmount
    <2>2. mic' \in [Recs -> MicState] /\ \A r \in Recs : mic'[r] # "live"
      BY <2>1 DEF DockInv, DockTypeOK, MicState
    <2>3. place' \in Docked \cup {"outside"}
      BY <1>1
    <2>4. DockTypeOK'
      BY <2>1, <2>2, <2>3 DEF DockInv, DockTypeOK
    <2>5. current' <= count' /\ OneMic'
      BY <2>1, <2>2 DEF DockInv, DockTypeOK, OneMic
    <2>6. \A r \in Recs : r > count' => mic'[r] = "unmade"
      BY <2>1 DEF DockInv
    <2> QED
      BY <2>4, <2>5, <2>6 DEF DockInv
  <1> QED
    BY <1>2, <1>3, <1>4

LEMMA CommandStep ==
  ASSUME DockInv, NEW command, HandleCommand(command)
  PROVE  DockInv'
  <1>1. CASE command \in Routes \ Topics
    <2>1. PICK p \in Docked \cup {"outside"} : UNCHANGED dockVars \/ Visit(p)
      BY <1>1 DEF HandleCommand
    <2>2. CASE UNCHANGED dockVars
      BY <2>2 DEF dockVars, DockInv, DockTypeOK, OneMic
    <2> QED
      BY <2>1, <2>2, VisitStep
  <1>2. CASE command \notin Routes \ Topics
    <2>1. speaking' \in BOOLEAN
      BY <1>2 DEF HandleCommand
    <2>2. UNCHANGED <<place, mic, current, count, starting, listening>>
      BY <1>2 DEF HandleCommand
    <2> QED
      BY <2>1, <2>2 DEF DockInv, DockTypeOK, OneMic
  <1> QED
    BY <1>1, <1>2

LEMMA DockAlways == DockInv /\ [DockNext]_dockVars => DockInv'
  <1> SUFFICES ASSUME DockInv, [DockNext]_dockVars
               PROVE  DockInv'
    OBVIOUS
  <1>1. ASSUME NEW p, Follow(p)
        PROVE  DockInv'
    <2>1. PICK q \in Docked \cup {"outside"} : Visit(q)
      BY <1>1 DEF Follow
    <2> QED
      BY <2>1, VisitStep
  <1>2. CASE Toggle
    <2>1. UNCHANGED <<place, current, count, speaking>>
      BY <1>2 DEF Toggle
    <2>2. CASE listening
      <3>1. mic' = Silenced(mic) /\ starting' = FALSE /\ listening' = FALSE
        BY <1>2, <2>2 DEF Toggle
      <3>2. PICK m \in [Recs -> MicState] :
              /\ m = Silenced(mic)
              /\ \A r \in Recs : m[r] # "live"
              /\ \A r \in Recs : r > count => m[r] = "unmade"
        BY AllSilenced
      <3>3. mic' = m
        BY <3>1, <3>2
      <3> QED
        BY <2>1, <3>1, <3>2, <3>3 DEF DockInv, DockTypeOK, OneMic
    <2>3. CASE ~ listening /\ mic[current] = "ready"
               /\ mic' = [mic EXCEPT ![current] = "live"] /\ starting' = TRUE /\ listening' = TRUE
      <3>1. current \in Recs
        BY <1>2 DEF Toggle, DockInv, DockTypeOK
      <3>2. mic' \in [Recs -> MicState] /\ \A r \in Recs : mic'[r] = IF r = current THEN "live" ELSE mic[r]
        BY <2>3, <3>1 DEF DockInv, DockTypeOK, MicState
      <3>3. \A r \in Recs : r > count => mic'[r] = "unmade"
        BY <3>1, <3>2 DEF DockInv, DockTypeOK, Recs
      <3>4. OneMic'
        BY <2>1, <3>1, <3>2 DEF DockInv, OneMic
      <3> QED
        BY <2>1, <2>3, <3>2, <3>3, <3>4 DEF DockInv, DockTypeOK
    <2>4. CASE ~ listening /\ starting' = FALSE /\ listening' = FALSE /\ UNCHANGED mic
      BY <2>1, <2>4 DEF DockInv, DockTypeOK, OneMic
    <2> QED
      BY <1>2, <2>2, <2>3, <2>4 DEF Toggle
  <1>3. CASE Speech
    <2>1. speaking' \in BOOLEAN /\ UNCHANGED <<place, mic, current, count, starting, listening>>
      BY <1>3 DEF Speech, DockInv, DockTypeOK
    <2> QED
      BY <2>1 DEF DockInv, DockTypeOK, OneMic
  <1>4. ASSUME NEW command, Submit(command) \/ \E r \in Recs : Result(r, command)
        PROVE  DockInv'
    BY <1>4, CommandStep DEF Submit, Result
  <1>5. ASSUME NEW r \in Recs, End(r) \/ Error(r)
        PROVE  DockInv'
    <2>1. PICK state \in {"ready", "failed"} : mic' = [mic EXCEPT ![r] = state]
      BY <1>5 DEF End, Error
    <2>2. /\ UNCHANGED <<place, current, count, speaking>>
          /\ starting' = FALSE /\ listening' = FALSE /\ mic[r] # "unmade"
      BY <1>5 DEF End, Error
    <2>3. mic' \in [Recs -> MicState] /\ \A q \in Recs : mic'[q] = IF q = r THEN state ELSE mic[q]
      BY <2>1 DEF DockInv, DockTypeOK, MicState
    <2>4. ~ (r > count)
      BY <2>2 DEF DockInv
    <2> QED
      BY <2>2, <2>3, <2>4 DEF DockInv, DockTypeOK, OneMic
  <1>6. CASE UNCHANGED dockVars
    BY <1>6 DEF dockVars, DockInv, DockTypeOK, OneMic
  <1> QED
    BY <1>1, <1>2, <1>3, <1>4, <1>5, <1>6 DEF DockNext

\* However pages are visited and recognizers report, the dock leaves no recognizer
\* listening but the current one, and the button tells what the recognizers do.
THEOREM DockHasOneMic == DockSpec => []OneMic
  <1>1. DockInv => OneMic
    BY DEF DockInv
  <1> QED
    BY <1>1, DockAtFirst, DockAlways, PTL DEF DockSpec

-----------------------------------------------------------------------------
(* Marketing and delivery.                                                 *)

Campaign ==
    [stage : CampaignStage, planned : BOOLEAN,
     item : [Items -> {"none", "draft", "approved", "published"}],
     approvals : [Items -> 0 .. MaxUses], publications : [Items -> 0 .. MaxUses]]

\* An item has an approval for each of its publications and, when it is approved, one
\* more; nothing waits for an approval in a campaign at publishing.
Paired(c) ==
    /\ \A i \in Items : c.publications[i] + Count(c.item[i] = "approved") <= c.approvals[i]
    /\ c.stage = "publishing" => \A i \in Items : c.item[i] = "approved"

\* What gives a status its meaning: the factory's gate was passed with all it asks for,
\* none of which is ever taken away, and maintenance comes with a date.
StatusEarned(b) ==
    /\ b.rec.eligible => Eligible(b.rec)
    /\ b.status = "in_factory" => b.rec.eligible
    /\ b.status = "maintenance" => b.renewal

GrowthInv ==
    /\ GrowthTypeOK
    /\ campaign \in Campaign
    /\ Paired(campaign)
    /\ StatusEarned(business)

LEMMA GrowthAtFirst == GrowthInit => GrowthInv
  <1> SUFFICES ASSUME GrowthInit PROVE GrowthInv
    OBVIOUS
  <1>1. campaign \in Campaign /\ Paired(campaign)
    BY GrowthAssumption DEF GrowthInit, NewCampaign, Campaign, CampaignStage, Paired, Count
  <1>2. business \in [rec : Record, status : Status, renewal : BOOLEAN] /\ StatusEarned(business)
    BY NewRecord DEF GrowthInit, StatusEarned, Status, New
  <1>3. GrowthTypeOK
    BY <1>1, <1>2 DEF GrowthTypeOK, Campaign, GrowthInit, NoDelivery
  <1> QED
    BY <1>1, <1>2, <1>3 DEF GrowthInv

LEMMA PublishedPaired ==
  ASSUME NEW c \in Campaign, Paired(c), \A i \in Items : c.publications[i] < MaxUses
  PROVE  Published(c) \in Campaign /\ Paired(Published(c))
  <1>1. PICK item \in [Items -> {"none", "draft", "approved", "published"}] :
          item = [i \in Items |-> IF i \in Publishable(c) THEN "published" ELSE c.item[i]]
    BY DEF Campaign
  <1>2. PICK publications \in [Items -> 0 .. MaxUses] :
          publications = [i \in Items |-> IF i \in Publishable(c)
                                          THEN c.publications[i] + 1 ELSE c.publications[i]]
    <2>1. \A i \in Items : c.publications[i] + 1 \in 0 .. MaxUses /\ c.publications[i] \in 0 .. MaxUses
      BY GrowthAssumption DEF Campaign
    <2> QED
      BY <2>1
  <1>3. PICK p : p = Published(c)
    OBVIOUS
  <1>4. p = [c EXCEPT !.stage = "analytics", !.item = item, !.publications = publications]
    BY <1>1, <1>2, <1>3 DEF Published
  <1>5. /\ p \in Campaign /\ p.item = item /\ p.publications = publications
        /\ p.approvals = c.approvals /\ p.stage = "analytics"
    BY <1>4 DEF Campaign, CampaignStage
  <1>6. ASSUME NEW i \in Items
        PROVE  publications[i] + Count(item[i] = "approved") <= c.approvals[i]
    <2>1. c.publications[i] + Count(c.item[i] = "approved") <= c.approvals[i]
      BY DEF Paired
    <2>2. CASE i \in Publishable(c)
      <3>1. item[i] = "published" /\ publications[i] = c.publications[i] + 1
        BY <1>1, <1>2, <2>2
      <3>2. Count(c.item[i] = "approved") = 1 /\ Count(item[i] = "approved") = 0
        BY <2>2, <3>1 DEF Publishable, Count
      <3> QED
        BY <2>1, <3>1, <3>2 DEF Campaign
    <2>3. CASE i \notin Publishable(c)
      <3>1. item[i] = c.item[i] /\ publications[i] = c.publications[i]
        BY <1>1, <1>2, <2>3
      <3> QED
        BY <2>1, <3>1
    <2> QED
      BY <2>2, <2>3
  <1> QED
    BY <1>3, <1>5, <1>6 DEF Paired

LEMMA ApprovedPaired ==
  ASSUME NEW c \in Campaign, Paired(c), NEW i \in Items, c.approvals[i] < MaxUses
  PROVE  Approved(c, i) \in Campaign /\ Paired(Approved(c, i))
  <1>1. PICK items \in [Items -> {"none", "draft", "approved", "published"}] :
          items = [c.item EXCEPT ![i] = "approved"]
    BY DEF Campaign
  <1>2. PICK approvals \in [Items -> 0 .. MaxUses] :
          approvals = [c.approvals EXCEPT ![i] = c.approvals[i] + 1]
    <2>1. c.approvals[i] + 1 \in 0 .. MaxUses
      BY GrowthAssumption DEF Campaign
    <2> QED
      BY <2>1 DEF Campaign
  <1>3. PICK stage \in CampaignStage :
          stage = IF \A j \in Items : items[j] = "approved" THEN "publishing" ELSE c.stage
    BY DEF Campaign, CampaignStage
  <1>4. PICK a : a = Approved(c, i)
    OBVIOUS
  <1>5. a = [c EXCEPT !.item = items, !.approvals = approvals, !.stage = stage]
    BY <1>1, <1>2, <1>3, <1>4 DEF Approved, Campaign
  <1>6. /\ a \in Campaign /\ a.item = items /\ a.approvals = approvals
        /\ a.publications = c.publications /\ a.stage = stage
    BY <1>5 DEF Campaign
  <1>7. ASSUME NEW j \in Items
        PROVE  c.publications[j] + Count(items[j] = "approved") <= approvals[j]
    <2>1. c.publications[j] + Count(c.item[j] = "approved") <= c.approvals[j]
      BY DEF Paired
    <2>2. CASE j = i
      <3>1. approvals[j] = c.approvals[j] + 1 /\ Count(items[j] = "approved") = 1
        BY <1>1, <1>2, <2>2 DEF Campaign, Count
      <3>2. Count(c.item[j] = "approved") \in {0, 1}
        BY DEF Count
      <3> QED
        BY <2>1, <3>1, <3>2 DEF Campaign
    <2>3. CASE j # i
      <3>1. approvals[j] = c.approvals[j] /\ items[j] = c.item[j]
        BY <1>1, <1>2, <2>3 DEF Campaign
      <3> QED
        BY <2>1, <3>1
    <2> QED
      BY <2>2, <2>3
  <1>8. stage = "publishing" => \A j \in Items : items[j] = "approved"
    BY <1>1, <1>3 DEF Paired, Campaign
  <1> QED
    BY <1>4, <1>6, <1>7, <1>8 DEF Paired

LEMMA MarketingStep ==
  ASSUME GrowthInv, MarketingNext
  PROVE  campaign' \in Campaign /\ Paired(campaign') /\ UNCHANGED <<business, delivery, ticket>>
  <1>1. UNCHANGED <<business, delivery, ticket>>
    BY DEF MarketingNext, Research, CreateContent, PublishApproved, RunPipeline, ApproveContent
  <1>2. ASSUME NEW stage \in {"competitor_monitoring", "keyword_research", "content_planning",
                              "content_creation"}, Research(stage)
        PROVE  campaign' \in Campaign /\ Paired(campaign')
    <2>1. PICK planned \in BOOLEAN : planned = (campaign.planned \/ stage = "content_creation")
      OBVIOUS
    <2>2. campaign' = [campaign EXCEPT !.stage = stage, !.planned = planned]
      BY <1>2, <2>1 DEF Research
    <2>3. /\ campaign' \in Campaign /\ campaign'.stage = stage
          /\ campaign'.item = campaign.item /\ campaign'.approvals = campaign.approvals
          /\ campaign'.publications = campaign.publications
      BY <2>2 DEF GrowthInv, Campaign, CampaignStage
    <2>4. stage # "publishing"
      OBVIOUS
    <2> QED
      BY <2>3, <2>4 DEF GrowthInv, Paired
  <1>3. CASE CreateContent
    <2> DEFINE word == IF campaign.planned THEN "draft" ELSE "none"
    <2>1. PICK item : item = [i \in Items |-> word]
      OBVIOUS
    <2>2. /\ item \in [Items -> {"none", "draft", "approved", "published"}]
          /\ \A i \in Items : item[i] # "approved"
      BY <2>1
    <2>3. PICK c : c = campaign' /\ c = [campaign EXCEPT !.stage = "human_approval", !.item = item]
      BY <1>3, <2>1 DEF CreateContent
    <2>4. /\ c \in Campaign /\ c.stage = "human_approval" /\ c.item = item
          /\ c.approvals = campaign.approvals /\ c.publications = campaign.publications
      BY <2>2, <2>3 DEF GrowthInv, Campaign, CampaignStage
    <2>5. ASSUME NEW i \in Items
          PROVE  campaign.publications[i] + Count(item[i] = "approved") <= campaign.approvals[i]
      <3>1. Count(item[i] = "approved") = 0 /\ Count(campaign.item[i] = "approved") \in {0, 1}
        BY <2>2 DEF Count
      <3>2. campaign.publications[i] + Count(campaign.item[i] = "approved") <= campaign.approvals[i]
        BY DEF GrowthInv, Paired
      <3>3. campaign.publications[i] \in Nat /\ campaign.approvals[i] \in Nat
        BY GrowthAssumption DEF GrowthInv, Campaign
      <3> QED
        BY <3>1, <3>2, <3>3
    <2>6. Paired(c)
      BY <2>4, <2>5 DEF Paired
    <2> QED
      BY <1>1, <2>3, <2>4, <2>6
  <1>4. CASE PublishApproved
    BY <1>1, <1>4, PublishedPaired DEF PublishApproved, GrowthInv
  <1>5. CASE RunPipeline
    <2>1. PICK c : c = [NewCampaign EXCEPT !.planned = TRUE,
                            !.item = [i \in Items |-> "approved"],
                            !.approvals = [i \in Items |-> 1]]
      OBVIOUS
    <2>2. NewCampaign \in Campaign
      BY GrowthAssumption DEF NewCampaign, Campaign, CampaignStage
    <2>3. /\ [i \in Items |-> "approved"] \in [Items -> {"none", "draft", "approved", "published"}]
          /\ [i \in Items |-> 1] \in [Items -> 0 .. MaxUses]
      BY GrowthAssumption
    <2>4. /\ c \in Campaign /\ c.stage = "trend_discovery"
          /\ c.item = [i \in Items |-> "approved"] /\ c.approvals = [i \in Items |-> 1]
          /\ c.publications = [i \in Items |-> 0]
      BY <2>1, <2>2, <2>3 DEF Campaign, NewCampaign
    <2>5. Paired(c) /\ \A i \in Items : c.publications[i] < MaxUses
      BY <2>4, GrowthAssumption DEF Paired, Count
    <2>6. campaign' = Published(c)
      BY <1>5, <2>1 DEF RunPipeline
    <2> QED
      BY <1>1, <2>4, <2>5, <2>6, PublishedPaired
  <1>6. ASSUME NEW i \in Items, ApproveContent(i)
        PROVE  campaign' \in Campaign /\ Paired(campaign')
    BY <1>6, ApprovedPaired DEF ApproveContent, GrowthInv
  <1> QED
    BY <1>1, <1>2, <1>3, <1>4, <1>5, <1>6 DEF MarketingNext

Business == [rec : Record, status : Status, renewal : BOOLEAN]

LEMMA WorkStep ==
  ASSUME GrowthInv, Work
  PROVE  business' \in Business /\ StatusEarned(business')
  <1>1. PICK e \in Record : e = business.rec
    BY DEF GrowthInv, GrowthTypeOK
  <1>2. ASSUME NEW r \in Record, NEW status \in Status, GrownRecord(e, r),
               r.eligible => e.eligible \/ Eligible(r),
               status = business.status \/ status \in {"analysis", "commercial", "approved"}
                   \/ (status = "in_factory" /\ r.eligible),
               business' = [business EXCEPT !.rec = r, !.status = status]
        PROVE  business' \in Business /\ StatusEarned(business')
    <2>1. /\ business' \in Business /\ business'.rec = r /\ business'.status = status
          /\ business'.renewal = business.renewal
      BY <1>2 DEF GrowthInv, GrowthTypeOK, Business
    <2>2. e.eligible => Eligible(r)
      BY <1>1, <1>2, EligibleGrown DEF GrowthInv, StatusEarned, GrownRecord
    <2>3. e.eligible => r.eligible
      BY <1>2 DEF GrownRecord, Grown
    <2> QED
      BY <1>1, <1>2, <2>1, <2>2, <2>3 DEF GrowthInv, StatusEarned
  <1>3. business.status \in Status
    BY DEF GrowthInv, GrowthTypeOK
  <1>4. CASE business' = [business EXCEPT !.rec = Analysed(e), !.status = "analysis"]
    <2>1. PICK r : r = Analysed(e)
      OBVIOUS
    <2>2. GrownRecord(e, r) /\ r.eligible = e.eligible /\ r \in Record
      BY <2>1, DesignedRecord DEF GrownRecord
    <2>3. "analysis" \in Status
      BY DEF Status
    <2> QED
      BY <1>2, <1>4, <2>1, <2>2, <2>3
  <1>5. ASSUME NEW d \in Designs, CanDesign(e),
               business' = [business EXCEPT !.rec = Designed(e, d), !.status = "commercial"]
        PROVE  business' \in Business /\ StatusEarned(business')
    <2>1. PICK r : r = Designed(e, d)
      OBVIOUS
    <2>2. GrownRecord(e, r) /\ r.eligible = e.eligible /\ r \in Record
      BY <1>5, <2>1, DesignedRecord DEF GrownRecord
    <2>3. "commercial" \in Status
      BY DEF Status
    <2> QED
      BY <1>2, <1>5, <2>1, <2>2, <2>3
  <1>6. CASE CanQuote(e) /\ business' = [business EXCEPT !.rec = Quoted(e)]
    <2>1. PICK r : r = Quoted(e)
      OBVIOUS
    <2>2. GrownRecord(e, r) /\ r.eligible = e.eligible /\ r \in Record
      BY <1>6, <2>1, DesignedRecord DEF GrownRecord
    <2>3. business' = [business EXCEPT !.rec = r, !.status = business.status]
      BY <1>6, <2>1 DEF GrowthInv, GrowthTypeOK
    <2> QED
      BY <1>2, <1>3, <2>2, <2>3
  <1>7. ASSUME NEW s \in Advances, CanAdvance(e, s),
               business' = [business EXCEPT !.rec = Advanced(e, s),
                                            !.status = StatusAt(s, business.status)]
        PROVE  business' \in Business /\ StatusEarned(business')
    <2>1. s \in Stage
      BY GrowthAssumption
    <2>2. PICK r \in Record : r = Advanced(e, s)
      BY <1>7, <2>1, AdvancedRecord DEF GrownRecord
    <2>3. /\ GrownRecord(e, r) /\ r.eligible = (e.eligible \/ s = "factory_ready")
          /\ r.eligible => e.eligible \/ Eligible(e)
      BY <1>7, <2>1, <2>2, AdvancedRecord
    <2>4. PICK status \in Status : status = StatusAt(s, business.status)
      BY <1>3 DEF StatusAt, Status
    <2>5. status = business.status \/ status = "approved"
             \/ (status = "in_factory" /\ s = "factory_ready")
      BY <2>4 DEF StatusAt
    <2>6. r.eligible => e.eligible \/ Eligible(r)
      BY <2>3, EligibleGrown DEF GrownRecord
    <2> QED
      BY <1>2, <1>7, <2>2, <2>3, <2>4, <2>5, <2>6
  <1> QED
    BY <1>1, <1>4, <1>5, <1>6, <1>7 DEF Work

LEMMA GrowthAlways == GrowthInv /\ [GrowthNext]_growthVars => GrowthInv'
  <1> SUFFICES ASSUME GrowthInv, [GrowthNext]_growthVars
               PROVE  GrowthInv'
    OBVIOUS
  <1> DEFINE Delivery == [status : {"none", "tracking", "deployed", "maintenance"},
                          url : BOOLEAN, healthy : BOOLEAN]
  <1>1. ASSUME campaign' \in Campaign, Paired(campaign'),
               business' \in Business, StatusEarned(business'),
               delivery' \in Delivery, ticket' \in {"none", "open", "closed"}
        PROVE  GrowthInv'
    <2>1. GrowthTypeOK'
      BY <1>1 DEF GrowthTypeOK, Campaign, Business
    <2> QED
      BY <1>1, <2>1 DEF GrowthInv
  <1>2. /\ campaign \in Campaign /\ Paired(campaign)
        /\ business \in Business /\ StatusEarned(business)
        /\ delivery \in Delivery /\ ticket \in {"none", "open", "closed"}
    BY DEF GrowthInv, GrowthTypeOK, Business
  <1>3. CASE MarketingNext
    BY <1>1, <1>2, <1>3, MarketingStep
  <1>4. CASE Work
    BY <1>1, <1>2, <1>4, WorkStep DEF Work
  <1>5. CASE CreateDelivery
    BY <1>1, <1>2, <1>5 DEF CreateDelivery
  <1>6. CASE MarkDeployed
    <2>1. delivery' \in Delivery
      BY <1>2, <1>6 DEF MarkDeployed
    <2> QED
      BY <1>1, <1>2, <1>6, <2>1 DEF MarkDeployed
  <1>7. CASE ActivateMaintenance
    <2>1. delivery' \in Delivery
      BY <1>2, <1>7 DEF ActivateMaintenance
    <2>2. business' \in Business /\ StatusEarned(business')
      BY <1>2, <1>7 DEF ActivateMaintenance, Business, StatusEarned, Status
    <2> QED
      BY <1>1, <1>2, <1>7, <2>1, <2>2 DEF ActivateMaintenance
  <1>8. CASE HealthCheck
    <2>1. delivery' \in Delivery
      BY <1>2, <1>8 DEF HealthCheck
    <2> QED
      BY <1>1, <1>2, <1>8, <2>1 DEF HealthCheck
  <1>9. CASE Ticket
    BY <1>1, <1>2, <1>9 DEF Ticket
  <1>10. CASE UNCHANGED growthVars
    BY <1>1, <1>2, <1>10 DEF growthVars
  <1> QED
    BY <1>3, <1>4, <1>5, <1>6, <1>7, <1>8, <1>9, <1>10 DEF GrowthNext, BusinessNext

\* However content is approved and published and an engagement goes through governance
\* and delivery: what the dashboards count was earned.
THEOREM NumbersAreEarned == GrowthSpec => []CountsEarned
  <1>1. GrowthInv => CountsEarned
    <2> SUFFICES ASSUME GrowthInv PROVE CountsEarned
      OBVIOUS
    <2>1. Kpis.published = campaign.publications
      BY DEF Kpis
    <2>2. Kpis.in_factory <= Kpis.eligible /\ Kpis.in_factory <= OpsSnapshot.booked
      <3>1. business.status = "in_factory" =>
               /\ business.rec.eligible
               /\ "deposit" \in business.rec.given /\ business.rec.commercial # NoDna
        BY DEF GrowthInv, StatusEarned, Eligible, Approval
      <3>2. Kpis.in_factory = Count(business.status = "in_factory") /\ Kpis.eligible = Count(business.rec.eligible)
        BY DEF Kpis
      <3>3. OpsSnapshot.booked = Count("deposit" \in business.rec.given /\ business.rec.commercial # NoDna)
        BY DEF OpsSnapshot
      <3> QED
        BY <3>1, <3>2, <3>3 DEF Count
    <2>3. OpsSnapshot.maintenance = OpsSnapshot.renewals
      <3>1. business.status = "maintenance" => business.renewal
        BY DEF GrowthInv, StatusEarned
      <3> QED
        BY <3>1 DEF OpsSnapshot, Count
    <2> QED
      BY <2>1, <2>2, <2>3 DEF CountsEarned, GrowthInv, Paired
  <1> QED
    BY <1>1, GrowthAtFirst, GrowthAlways, PTL DEF GrowthSpec

-----------------------------------------------------------------------------
(* The leads.                                                              *)

\* A copy of the leads that says of a converted lead which engagement, of those made,
\* was made from it.
NamesItsOwn(copy, m) ==
    /\ copy \in [Leads -> Lead]
    /\ \A l \in Leads :
           copy[l].status = "converted" => copy[l].eng \in DOMAIN m /\ m[copy[l].eng] = l

\* A conversion that has made its engagement from the lead it holds, or none.
ConversionFits(pair, m) ==
    /\ pair \in {<<>>} \cup (Leads \X (1 .. MaxMade))
    /\ pair # <<>> => pair[2] \in DOMAIN m /\ m[pair[2]] = pair[1]

\* The engagements made, and the same with more made since.
AreMade(m) == m \in Seq(Leads \cup {0}) /\ Len(m) <= MaxMade

MadeSince(m, later) ==
    /\ AreMade(later)
    /\ \A n \in DOMAIN m : n \in DOMAIN later /\ later[n] = m[n]

\* The sequence of the engagements made never shrinks, so that a copy may be as old as
\* it likes.
LeadsInv ==
    /\ storage \in Storages /\ restarts \in 0 .. MaxRestarts
    /\ AreMade(made)
    /\ DOMAIN converting = Conversions
    /\ \A c \in Conversions : ConversionFits(converting[c], made)
    /\ NamesItsOwn(file, made) /\ NamesItsOwn(table, made)
    /\ hydration \in [at : {"cold", "selected", "warm"}, rows : [Leads -> Lead]]
    /\ NamesItsOwn(hydration.rows, made)
    /\ \A rows \in mirrors : NamesItsOwn(rows, made)
    /\ done \subseteq Leads
    /\ \A l \in done : file[l].status = "converted"

LEMMA NowhereNames == \A m : NamesItsOwn(Nowhere, m)
  BY DEF NamesItsOwn, Nowhere, NoLead, Lead

LEMMA LeadsAtFirst == LeadsInit => LeadsInv
  <1> SUFFICES ASSUME LeadsInit PROVE LeadsInv
    OBVIOUS
  <1>1. AreMade(made)
    BY LeadsAssumption DEF LeadsInit, AreMade
  <1>2. \A c \in Conversions : ConversionFits(converting[c], made)
    BY DEF LeadsInit, ConversionFits
  <1>3. hydration \in [at : {"cold", "selected", "warm"}, rows : [Leads -> Lead]]
    BY NowhereNames DEF LeadsInit, NamesItsOwn
  <1> QED
    BY <1>1, <1>2, <1>3, NowhereNames, LeadsAssumption DEF LeadsInit, LeadsInv

\* What was made stays made, and one is made more.
LEMMA MadeGrows ==
  ASSUME NEW m, AreMade(m), NEW l \in Leads \cup {0}, Len(m) < MaxMade
  PROVE  LET longer == Append(m, l)
         IN /\ MadeSince(m, longer)
            /\ Len(longer) \in DOMAIN longer /\ Len(longer) \in 1 .. MaxMade
            /\ longer[Len(longer)] = l
  BY AppendProperties, LenProperties, LeadsAssumption DEF AreMade, MadeSince

LEMMA OwnKept ==
  ASSUME NEW m, NEW later, MadeSince(m, later)
  PROVE  /\ \A copy : NamesItsOwn(copy, m) => NamesItsOwn(copy, later)
         /\ \A pair : ConversionFits(pair, m) => ConversionFits(pair, later)
  BY DEF NamesItsOwn, ConversionFits, MadeSince

\* A lead that is written, as new or as what a conversion made of it.
LEMMA WrittenNames ==
  ASSUME NEW m, NEW copy, NamesItsOwn(copy, m), NEW l \in Leads, NEW lead \in Lead,
         lead.status = "converted" => lead.eng \in DOMAIN m /\ m[lead.eng] = l
  PROVE  NamesItsOwn([copy EXCEPT ![l] = lead], m)
  <1>1. PICK new : new = [copy EXCEPT ![l] = lead]
    OBVIOUS
  <1>2. /\ new \in [Leads -> Lead]
        /\ \A k \in Leads : new[k] = IF k = l THEN lead ELSE copy[k]
    BY <1>1 DEF NamesItsOwn
  <1> QED
    BY <1>1, <1>2 DEF NamesItsOwn

LEMMA NewIsNew == NewLead \in Lead /\ NewLead.status = "new"
  BY DEF NewLead, Lead

\* Rows laid over others.
LEMMA LaidOver ==
  ASSUME NEW m, NEW upper, NamesItsOwn(upper, m), NEW lower, NamesItsOwn(lower, m)
  PROVE  NamesItsOwn([l \in Leads |-> IF upper[l] = NoLead THEN lower[l] ELSE upper[l]], m)
  <1>1. PICK both : both = [l \in Leads |-> IF upper[l] = NoLead THEN lower[l] ELSE upper[l]]
    OBVIOUS
  <1>2. both \in [Leads -> Lead] /\ \A l \in Leads : both[l] = upper[l] \/ both[l] = lower[l]
    BY <1>1 DEF NamesItsOwn
  <1> QED
    BY <1>1, <1>2 DEF NamesItsOwn

LEMMA DiscoverGrows == ASSUME LeadsInv, MayDiscover PROVE MadeSince(made, made')
  <1>1. CASE UNCHANGED made
    BY <1>1 DEF MadeSince, LeadsInv
  <1>2. CASE Len(made) < MaxMade /\ made' = Append(made, 0)
    BY <1>2, MadeGrows DEF LeadsInv
  <1> QED
    BY <1>1, <1>2 DEF MayDiscover

\* A lead comes in, as a row of the table or as a file.
LEMMA IntakeStep ==
  ASSUME LeadsInv, NEW l \in Leads, Insert(l) \/ RecordLead(l)
  PROVE  LeadsInv'
  <1>1. MadeSince(made, made')
    BY DiscoverGrows DEF Insert, RecordLead
  <1>2. UNCHANGED <<storage, hydration, converting, done, restarts>>
    BY DEF Insert, RecordLead
  <1>3. /\ \A copy : NamesItsOwn(copy, made) => NamesItsOwn(copy, made')
        /\ \A pair : ConversionFits(pair, made) => ConversionFits(pair, made')
    BY <1>1, OwnKept
  <1>4. table' = table \/ \E k \in Leads : table' = [table EXCEPT ![k] = NewLead]
    BY DEF Insert, RecordLead
  <1>5. NamesItsOwn(table, made') /\ NamesItsOwn(file, made')
    BY <1>3 DEF LeadsInv
  <1>6. NamesItsOwn(table', made')
    BY <1>4, <1>5, WrittenNames, NewIsNew
  <1>7. \/ file' = file /\ mirrors' = mirrors
        \/ /\ Unused(l) /\ file' = [file EXCEPT ![l] = NewLead]
           /\ mirrors' = mirrors \cup {file'}
    BY DEF Insert, RecordLead
  <1>8. NamesItsOwn(file', made')
    BY <1>5, <1>7, WrittenNames, NewIsNew
  <1>9. \A rows \in mirrors' : NamesItsOwn(rows, made')
    BY <1>3, <1>7, <1>8 DEF LeadsInv
  <1>10. \A k \in done' : file'[k].status = "converted"
    <2>1. Unused(l) => l \notin done
      BY DEF Unused, LeadsInv, NoLead
    <2> QED
      BY <1>2, <1>7, <2>1 DEF LeadsInv, NamesItsOwn
  <1> QED
    BY <1>1, <1>2, <1>3, <1>6, <1>8, <1>9, <1>10 DEF LeadsInv, MadeSince

LEMMA HydrationStep ==
  ASSUME LeadsInv, Select \/ Hydrate
  PROVE  LeadsInv'
  <1>1. UNCHANGED <<storage, table, mirrors, converting, made, done, restarts>>
    BY DEF Select, Hydrate
  <1>2. CASE Select
    BY <1>1, <1>2 DEF Select, LeadsInv, NamesItsOwn
  <1>3. CASE Hydrate
    <2>1. PICK rows : rows = hydration.rows /\ NamesItsOwn(rows, made)
      BY DEF LeadsInv
    <2>2. file' = file \/ file' = Filled(rows)
      BY <1>3, <2>1 DEF Hydrate
    <2>3. NamesItsOwn(file', made)
      BY <2>1, <2>2, LaidOver DEF Filled, LeadsInv
    <2>4. \A l \in done : file'[l].status = "converted"
      <3>1. ASSUME NEW l \in done PROVE file[l] # NoLead /\ l \in Leads
        BY <3>1 DEF LeadsInv, NoLead
      <3> QED
        BY <2>2, <3>1 DEF Filled, LeadsInv
    <2>5. hydration' = [at |-> "warm", rows |-> Nowhere]
      BY <1>3 DEF Hydrate
    <2>6. /\ hydration' \in [at : {"cold", "selected", "warm"}, rows : [Leads -> Lead]]
          /\ NamesItsOwn(hydration'.rows, made)
      BY <2>5, NowhereNames DEF NamesItsOwn
    <2> QED
      BY <1>1, <2>3, <2>4, <2>6 DEF LeadsInv
  <1> QED
    BY <1>2, <1>3

LEMMA MirrorStep ==
  ASSUME LeadsInv, NEW rows \in mirrors, MirrorLands(rows) \/ MirrorFails(rows)
  PROVE  LeadsInv'
  <1>1. /\ UNCHANGED <<storage, file, hydration, converting, made, done, restarts>>
        /\ mirrors' \subseteq mirrors
    BY DEF MirrorLands, MirrorFails
  <1>2. NamesItsOwn(table', made)
    <2>1. NamesItsOwn(rows, made) /\ NamesItsOwn(table, made)
      BY DEF LeadsInv
    <2>2. \/ table' = table
          \/ table' = [l \in Leads |-> IF rows[l] = NoLead THEN table[l] ELSE rows[l]]
      BY DEF MirrorLands, MirrorFails
    <2> QED
      BY <2>1, <2>2, LaidOver
  <1> QED
    BY <1>1, <1>2 DEF LeadsInv

LEMMA ConversionStep ==
  ASSUME LeadsInv, NEW c \in Conversions,
         MarkConverted(c) \/ NotMarked(c) \/ \E l \in Leads : ConvertLead(c, l)
  PROVE  LeadsInv'
  <1>1. CASE MarkConverted(c)
    <2>1. PICK l \in Leads, n \in 1 .. MaxMade :
            /\ converting[c] = <<l, n>> /\ n \in DOMAIN made /\ made[n] = l
      BY <1>1 DEF MarkConverted, LeadsInv, ConversionFits
    <2>2. /\ file' = [file EXCEPT ![l] = Converted(n)] /\ done' = done \cup {l}
          /\ converting' = [converting EXCEPT ![c] = <<>>]
          /\ UNCHANGED <<storage, table, hydration, mirrors, made, restarts>>
      BY <1>1, <2>1 DEF MarkConverted
    <2>3. Converted(n) \in Lead /\ Converted(n).status = "converted" /\ Converted(n).eng = n
      BY DEF Converted, Lead
    <2>4. NamesItsOwn(file', made)
      <3>1. NamesItsOwn(file, made)
        BY DEF LeadsInv
      <3>2. NamesItsOwn([file EXCEPT ![l] = Converted(n)], made)
        BY <2>1, <2>3, <3>1, WrittenNames
      <3> QED
        BY <2>2, <3>2
    <2>5. done' \subseteq Leads /\ \A k \in done' : file'[k].status = "converted"
      BY <2>2, <2>3 DEF LeadsInv, NamesItsOwn
    <2>6. DOMAIN converting' = Conversions /\ \A d \in Conversions : ConversionFits(converting'[d], made)
      BY <2>2 DEF LeadsInv, ConversionFits
    <2> QED
      BY <2>2, <2>4, <2>5, <2>6 DEF LeadsInv
  <1>2. CASE NotMarked(c)
    <2>1. /\ converting' = [converting EXCEPT ![c] = <<>>]
          /\ UNCHANGED <<storage, file, table, hydration, mirrors, made, done, restarts>>
      BY <1>2 DEF NotMarked
    <2>2. DOMAIN converting' = Conversions /\ \A d \in Conversions : ConversionFits(converting'[d], made)
      BY <2>1 DEF LeadsInv, ConversionFits
    <2> QED
      BY <2>1, <2>2 DEF LeadsInv
  <1>3. ASSUME NEW l \in Leads, ConvertLead(c, l)
        PROVE  LeadsInv'
    <2>1. /\ made' = Append(made, l) /\ Len(made) < MaxMade
          /\ converting' = [converting EXCEPT ![c] = <<l, Len(made')>>]
          /\ UNCHANGED <<storage, file, table, hydration, mirrors, done, restarts>>
      BY <1>3 DEF ConvertLead
    <2>2. PICK n \in 1 .. MaxMade : n = Len(made') /\ n \in DOMAIN made' /\ made'[n] = l
      BY <2>1, MadeGrows DEF LeadsInv
    <2>3. MadeSince(made, made')
      BY <2>1, MadeGrows DEF LeadsInv
    <2>4. /\ \A copy : NamesItsOwn(copy, made) => NamesItsOwn(copy, made')
          /\ \A pair : ConversionFits(pair, made) => ConversionFits(pair, made')
      BY <2>3, OwnKept
    <2>5. ConversionFits(<<l, n>>, made')
      BY <2>2 DEF ConversionFits
    <2>6. DOMAIN converting' = Conversions /\ \A d \in Conversions : ConversionFits(converting'[d], made')
      BY <2>1, <2>2, <2>4, <2>5 DEF LeadsInv
    <2> QED
      BY <2>1, <2>3, <2>4, <2>6 DEF LeadsInv, MadeSince
  <1> QED
    BY <1>1, <1>2, <1>3

LEMMA RestartStep == ASSUME LeadsInv, Restart PROVE LeadsInv'
  <1>1. /\ hydration' = [at |-> "cold", rows |-> Nowhere]
        /\ converting' = [c \in Conversions |-> <<>>]
        /\ restarts < MaxRestarts /\ restarts' = restarts + 1
        /\ UNCHANGED <<storage, table, mirrors, made>>
    BY DEF Restart
  <1>2. \/ file' = Nowhere /\ done' = {}
        \/ file' = file /\ done' = done
    BY DEF Restart
  <1>3. /\ NamesItsOwn(file', made) /\ done' \subseteq Leads
        /\ \A l \in done' : file'[l].status = "converted"
    BY <1>2, NowhereNames DEF LeadsInv
  <1>4. /\ hydration' \in [at : {"cold", "selected", "warm"}, rows : [Leads -> Lead]]
        /\ NamesItsOwn(hydration'.rows, made)
    BY <1>1, NowhereNames DEF NamesItsOwn
  <1>5. DOMAIN converting' = Conversions /\ \A d \in Conversions : ConversionFits(converting'[d], made)
    BY <1>1 DEF ConversionFits
  <1>6. restarts' \in 0 .. MaxRestarts
    BY <1>1, LeadsAssumption DEF LeadsInv
  <1> QED
    BY <1>1, <1>3, <1>4, <1>5, <1>6 DEF LeadsInv

LEMMA LeadsAlways == LeadsInv /\ [LeadsNext]_leadVars => LeadsInv'
  <1> SUFFICES ASSUME LeadsInv, [LeadsNext]_leadVars
               PROVE  LeadsInv'
    OBVIOUS
  <1>1. CASE UNCHANGED leadVars
    BY <1>1 DEF leadVars, LeadsInv
  <1> QED
    BY <1>1, HydrationStep, RestartStep, MirrorStep, IntakeStep, ConversionStep DEF LeadsNext

\* However conversions overlap, insertions fail, instances restart and old copies are
\* written: a lead stays converted while its file lives, and a copy that says converted
\* names an engagement made from that lead.
THEOREM LeadsAlwaysHold == LeadsSpec => []LeadsHold
  <1>1. LeadsInv => LeadsHold
    <2> SUFFICES ASSUME LeadsInv PROVE LeadsHold
      OBVIOUS
    <2>1. \A copy \in LeadCopies : NamesItsOwn(copy, made)
      BY DEF LeadCopies, LeadsInv
    <2> QED
      BY <2>1 DEF LeadsHold, LeadsInv, NamesItsOwn, Made
  <1> QED
    BY <1>1, LeadsAtFirst, LeadsAlways, PTL DEF LeadsSpec

-----------------------------------------------------------------------------
(* The rate limit.                                                         *)

\* The calls that one life of the instance admitted into the bucket opened at some time.
Into(log, l, opened) == {i \in DOMAIN log : log[i].life = l /\ log[i].opened = opened}

OpenedAt == bucket.resetAt - Window

\* The bucket that there is, if any, was opened in this life, and counts the calls that
\* it admitted.
BucketFits ==
    bucket.count > 0 =>
        /\ OpenedAt \in 0 .. time
        /\ Cardinality(Into(admitted, life, OpenedAt))
               = IF bucket.count <= PerBucket THEN bucket.count ELSE PerBucket

\* Two buckets of one life were opened more than a window apart, and the one that there
\* is was opened last.
BucketsApart ==
    /\ \A i, j \in DOMAIN admitted :
           /\ admitted[i].life = admitted[j].life
           /\ admitted[i].opened < admitted[j].opened
           => admitted[i].opened + Window < admitted[j].opened
    /\ \A i \in DOMAIN admitted :
           admitted[i].life = life =>
               /\ bucket.count > 0
               /\ admitted[i].opened = OpenedAt \/ admitted[i].opened + Window < OpenedAt

\* A call is admitted while its bucket lasts.
AdmittedInTime ==
    \A i \in DOMAIN admitted :
        /\ admitted[i].at \in admitted[i].opened .. admitted[i].opened + Window
        /\ admitted[i].at <= time /\ admitted[i].life <= life

RateInv ==
    /\ RateTypeOK
    /\ AdmittedInTime
    /\ \A l, opened \in Nat : Cardinality(Into(admitted, l, opened)) <= PerBucket
    /\ BucketFits
    /\ BucketsApart

LEMMA RateTypes ==
  ASSUME RateTypeOK
  PROVE  /\ time \in Nat /\ life \in Nat /\ Window \in Nat \ {0} /\ PerBucket \in Nat \ {0}
         /\ bucket \in [count : Nat, resetAt : Nat]
         /\ bucket.count \in Nat /\ bucket.resetAt \in Nat
         /\ DOMAIN admitted = 1 .. Len(admitted) /\ Len(admitted) \in Nat
         /\ \A i \in DOMAIN admitted : /\ admitted[i].at \in Nat /\ admitted[i].life \in Nat
                                       /\ admitted[i].opened \in Nat
  <1>1. DOMAIN admitted = 1 .. Len(admitted) /\ Len(admitted) \in Nat
    BY DEF RateTypeOK
  <1>2. \A i \in DOMAIN admitted : admitted[i] \in [at : Nat, life : Nat, opened : Nat]
    BY <1>1, ElementOfSeq DEF RateTypeOK
  <1>3. /\ time \in Nat /\ life \in Nat /\ Window \in Nat \ {0} /\ PerBucket \in Nat \ {0}
        /\ bucket \in [count : Nat, resetAt : Nat]
    BY RateAssumption DEF RateTypeOK
  <1> QED
    BY <1>1, <1>2, <1>3

LEMMA IntoFinite ==
  ASSUME RateTypeOK
  PROVE  \A l, opened : /\ IsFiniteSet(Into(admitted, l, opened))
                        /\ Cardinality(Into(admitted, l, opened)) \in Nat
  <1>1. DOMAIN admitted = 1 .. Len(admitted) /\ Len(admitted) \in Nat
    BY DEF RateTypeOK
  <1>2. IsFiniteSet(DOMAIN admitted)
    BY <1>1, FS_Interval
  <1>3. \A l, opened : Into(admitted, l, opened) \in SUBSET (DOMAIN admitted)
    BY DEF Into
  <1> QED
    BY <1>2, <1>3, FS_Subset, FS_CardinalityType

LEMMA RateAtFirst == RateInit => RateInv
  <1> SUFFICES ASSUME RateInit PROVE RateInv
    OBVIOUS
  <1>1. DOMAIN admitted = {} /\ admitted \in Seq([at : Nat, life : Nat, opened : Nat])
    BY DEF RateInit
  <1>2. RateTypeOK
    BY <1>1, RateAssumption DEF RateInit, RateTypeOK, NoBucket
  <1>3. \A l, opened : Into(admitted, l, opened) = {}
    BY <1>1 DEF Into
  <1>4. \A l, opened \in Nat : Cardinality(Into(admitted, l, opened)) <= PerBucket
    BY <1>3, FS_EmptySet, RateAssumption
  <1>5. bucket.count = 0
    BY DEF RateInit, NoBucket
  <1> QED
    BY <1>1, <1>2, <1>4, <1>5 DEF RateInv, BucketFits, BucketsApart, AdmittedInTime

\* A call is admitted: only the set of the calls into its bucket grows.
LEMMA AdmittedOne ==
  ASSUME RateInv, NEW opened \in Nat, admitted' = Append(admitted, Admission(opened))
  PROVE  /\ admitted' \in Seq([at : Nat, life : Nat, opened : Nat])
         /\ DOMAIN admitted' = DOMAIN admitted \cup {Len(admitted) + 1}
         /\ \A i \in DOMAIN admitted : admitted'[i] = admitted[i]
         /\ admitted'[Len(admitted) + 1] = [at |-> time, life |-> life, opened |-> opened]
         /\ \A l, o : l # life \/ o # opened => Into(admitted', l, o) = Into(admitted, l, o)
         /\ Cardinality(Into(admitted', life, opened))
                = Cardinality(Into(admitted, life, opened)) + 1
  <1>1. Admission(opened) \in [at : Nat, life : Nat, opened : Nat]
    BY RateAssumption DEF Admission, RateInv, RateTypeOK
  <1>2. PICK n : n = Len(admitted) + 1
    OBVIOUS
  <1>3. /\ admitted' \in Seq([at : Nat, life : Nat, opened : Nat])
        /\ DOMAIN admitted' = DOMAIN admitted \cup {n} /\ n \notin DOMAIN admitted
        /\ \A i \in DOMAIN admitted : admitted'[i] = admitted[i]
        /\ admitted'[n] = [at |-> time, life |-> life, opened |-> opened]
    <2>1. PICK call \in [at : Nat, life : Nat, opened : Nat] :
              call = Admission(opened)
              /\ call = [at |-> time, life |-> life, opened |-> opened]
      BY <1>1 DEF Admission
    <2>2. admitted \in Seq([at : Nat, life : Nat, opened : Nat])
      BY DEF RateInv, RateTypeOK
    <2>3. Len(admitted) \in Nat /\ DOMAIN admitted = 1 .. Len(admitted)
      BY <2>2
    <2>4. admitted' = Append(admitted, call)
      BY <2>1
    <2>5. /\ admitted' \in Seq([at : Nat, life : Nat, opened : Nat])
          /\ Len(admitted') = n /\ admitted'[n] = call
          /\ \A i \in 1 .. Len(admitted) : admitted'[i] = admitted[i]
      BY <1>2, <2>2, <2>4, AppendProperties
    <2>6. DOMAIN admitted' = 1 .. n
      BY <2>5
    <2> QED
      BY <1>2, <2>1, <2>3, <2>5, <2>6
  <1>4. \A l, o : l # life \/ o # opened => Into(admitted', l, o) = Into(admitted, l, o)
    BY <1>3 DEF Into
  <1>5. Into(admitted', life, opened) = Into(admitted, life, opened) \cup {n}
    BY <1>3 DEF Into
  <1>6. n \notin Into(admitted, life, opened)
    BY <1>3 DEF Into
  <1>7. Cardinality(Into(admitted', life, opened))
            = Cardinality(Into(admitted, life, opened)) + 1
    BY <1>5, <1>6, IntoFinite, FS_AddElement DEF RateInv
  <1> QED
    BY <1>2, <1>3, <1>4, <1>7

LEMMA FirstCallStep == ASSUME RateInv, OpenBucket PROVE RateInv'
  <1>1. /\ bucket' = [count |-> 1, resetAt |-> time + Window]
        /\ admitted' = Append(admitted, Admission(time))
        /\ time' = time /\ life' = life
    BY DEF OpenBucket
  <1>2. /\ time \in Nat /\ life \in Nat /\ Window \in Nat /\ PerBucket \in Nat \ {0}
        /\ bucket.count \in Nat /\ bucket.resetAt \in Nat
        /\ \A i \in DOMAIN admitted : admitted[i].opened \in Nat
    BY RateTypes DEF RateInv
  <1>3. PICK n : n = Len(admitted) + 1
    OBVIOUS
  <1>4. /\ admitted' \in Seq([at : Nat, life : Nat, opened : Nat])
        /\ DOMAIN admitted' = DOMAIN admitted \cup {n}
        /\ \A i \in DOMAIN admitted : admitted'[i] = admitted[i]
        /\ admitted'[n] = [at |-> time, life |-> life, opened |-> time]
        /\ \A l, o : l # life \/ o # time => Into(admitted', l, o) = Into(admitted, l, o)
        /\ Cardinality(Into(admitted', life, time)) = Cardinality(Into(admitted, life, time)) + 1
    BY <1>1, <1>2, <1>3, AdmittedOne
  <1>5. bucket'.count = 1 /\ OpenedAt' = time
    BY <1>1, <1>2, RateAssumption DEF OpenedAt
  <1>6. \A i \in DOMAIN admitted :
            admitted[i].life = life => admitted[i].opened + Window < time
    <2>1. bucket.count = 0 \/ time > bucket.resetAt
      BY DEF OpenBucket, Expired
    <2>2. ASSUME NEW i \in DOMAIN admitted, admitted[i].life = life
          PROVE  /\ bucket.count > 0
                 /\ \/ admitted[i].opened = OpenedAt
                    \/ admitted[i].opened + Window < OpenedAt
      BY <2>2 DEF RateInv, BucketsApart
    <2>3. OpenedAt + Window = bucket.resetAt /\ OpenedAt \in Int
      BY <1>2 DEF OpenedAt
    <2>4. ASSUME NEW i \in DOMAIN admitted, admitted[i].life = life
          PROVE  admitted[i].opened + Window < time
      <3>1. admitted[i].opened \in Nat /\ bucket.count > 0
        BY <1>2, <2>2, <2>4
      <3>2. admitted[i].opened <= OpenedAt
        BY <1>2, <2>2, <2>3, <2>4, <3>1
      <3> QED
        BY <1>2, <2>1, <2>3, <3>1, <3>2
    <2> QED
      BY <2>4
  <1>7. Cardinality(Into(admitted', life, time)) = 1
    <2>1. Into(admitted, life, time) = {}
      BY <1>2, <1>6 DEF Into
    <2> QED
      BY <1>4, <2>1, FS_EmptySet
  <1>8. RateTypeOK'
    BY <1>1, <1>2, <1>4 DEF RateTypeOK, RateInv
  <1>9. AdmittedInTime'
    BY <1>1, <1>2, <1>4 DEF AdmittedInTime, RateInv
  <1>10. \A l, opened \in Nat : Cardinality(Into(admitted', l, opened)) <= PerBucket
    BY <1>2, <1>4, <1>7 DEF RateInv
  <1>11. BucketFits'
    BY <1>1, <1>2, <1>5, <1>7 DEF BucketFits
  <1>12. BucketsApart'
    <2>1. ASSUME NEW i \in DOMAIN admitted', NEW j \in DOMAIN admitted',
                 admitted'[i].life = admitted'[j].life,
                 admitted'[i].opened < admitted'[j].opened
          PROVE  admitted'[i].opened + Window < admitted'[j].opened
      <3>1. CASE i = n
        BY <1>2, <1>4, <1>6, <2>1, <3>1
      <3>2. CASE i # n /\ j = n
        BY <1>4, <1>6, <2>1, <3>2
      <3>3. CASE i # n /\ j # n
        BY <1>4, <2>1, <3>3 DEF RateInv, BucketsApart
      <3> QED
        BY <3>1, <3>2, <3>3
    <2>2. ASSUME NEW i \in DOMAIN admitted', admitted'[i].life = life'
          PROVE  admitted'[i].opened = time \/ admitted'[i].opened + Window < time
      <3>1. CASE i = n
        BY <1>4, <3>1
      <3>2. CASE i # n
        BY <1>1, <1>4, <1>6, <2>2, <3>2
      <3> QED
        BY <3>1, <3>2
    <2>3. bucket'.count > 0
      BY <1>5
    <2> QED
      BY <1>5, <2>1, <2>2, <2>3 DEF BucketsApart
  <1> QED
    BY <1>8, <1>9, <1>10, <1>11, <1>12 DEF RateInv

LEMMA CountedCallStep == ASSUME RateInv, CountCall PROVE RateInv'
  <1>1. /\ bucket' = [bucket EXCEPT !.count = @ + 1]
        /\ time' = time /\ life' = life
        /\ bucket.count > 0 /\ time <= bucket.resetAt
    BY DEF CountCall, Expired, RateInv, RateTypeOK
  <1>2. /\ time \in Nat /\ life \in Nat /\ Window \in Nat /\ PerBucket \in Nat \ {0}
        /\ bucket \in [count : Nat, resetAt : Nat]
        /\ \A i \in DOMAIN admitted : admitted[i].opened \in Nat
    BY RateTypes DEF RateInv
  <1>3. bucket'.count = bucket.count + 1 /\ bucket' \in [count : Nat, resetAt : Nat]
    BY <1>1, <1>2
  <1>4. OpenedAt' = OpenedAt
    BY <1>1, <1>2 DEF OpenedAt
  <1>5. PICK o : o = OpenedAt /\ o \in 0 .. time /\ time <= o + Window
    BY <1>1, <1>2 DEF RateInv, BucketFits, OpenedAt
  <1>6. CASE ~ HasRoom
    <2>1. admitted' = admitted
      BY <1>6 DEF CountCall
    <2>2. bucket.count >= PerBucket
      BY <1>2, <1>6 DEF HasRoom
    <2>3. RateTypeOK' /\ AdmittedInTime'
      BY <1>1, <1>3, <2>1 DEF RateInv, RateTypeOK, AdmittedInTime
    <2>4. BucketsApart'
      BY <1>1, <1>2, <1>3, <1>4, <2>1 DEF RateInv, BucketsApart
    <2>5. BucketFits'
      BY <1>1, <1>2, <1>3, <1>4, <2>1, <2>2 DEF RateInv, BucketFits
    <2> QED
      BY <2>1, <2>3, <2>4, <2>5 DEF RateInv
  <1>7. CASE HasRoom
    <2>1. admitted' = Append(admitted, Admission(o))
      BY <1>5, <1>7 DEF CountCall, OpenedAt
    <2>2. PICK n : n = Len(admitted) + 1
      OBVIOUS
    <2>3. /\ admitted' \in Seq([at : Nat, life : Nat, opened : Nat])
          /\ DOMAIN admitted' = DOMAIN admitted \cup {n}
          /\ \A i \in DOMAIN admitted : admitted'[i] = admitted[i]
          /\ admitted'[n] = [at |-> time, life |-> life, opened |-> o]
          /\ \A l, q : l # life \/ q # o => Into(admitted', l, q) = Into(admitted, l, q)
          /\ Cardinality(Into(admitted', life, o)) = Cardinality(Into(admitted, life, o)) + 1
      BY <1>2, <1>5, <2>1, <2>2, AdmittedOne
    <2>4. bucket.count + 1 <= PerBucket
      BY <1>7 DEF HasRoom
    <2>5. Cardinality(Into(admitted', life, o)) = bucket.count + 1
      BY <1>1, <1>2, <1>5, <2>3, <2>4 DEF RateInv, BucketFits
    <2>6. RateTypeOK'
      BY <1>1, <1>2, <1>3, <2>3 DEF RateTypeOK, RateInv
    <2>7. AdmittedInTime'
      BY <1>1, <1>2, <1>5, <2>3 DEF AdmittedInTime, RateInv
    <2>8. \A l, opened \in Nat : Cardinality(Into(admitted', l, opened)) <= PerBucket
      BY <1>2, <2>3, <2>4, <2>5 DEF RateInv
    <2>9. BucketFits'
      BY <1>1, <1>2, <1>3, <1>4, <1>5, <2>4, <2>5 DEF BucketFits
    <2>10. \A i \in DOMAIN admitted :
               admitted[i].life = life => \/ admitted[i].opened = o
                                          \/ admitted[i].opened + Window < o
      BY <1>5 DEF RateInv, BucketsApart
    <2>11. BucketsApart'
      <3>1. ASSUME NEW i \in DOMAIN admitted', NEW j \in DOMAIN admitted',
                   admitted'[i].life = admitted'[j].life,
                   admitted'[i].opened < admitted'[j].opened
            PROVE  admitted'[i].opened + Window < admitted'[j].opened
        <4>1. CASE i = n /\ j = n
          BY <1>2, <1>5, <2>3, <3>1, <4>1
        <4>2. CASE i = n /\ j # n
          <5>1. j \in DOMAIN admitted /\ admitted[j].life = life /\ o < admitted[j].opened
            BY <2>3, <3>1, <4>2
          <5> QED
            BY <1>2, <1>5, <2>10, <5>1
        <4>3. CASE i # n /\ j = n
          BY <1>2, <1>5, <2>3, <2>10, <3>1, <4>3
        <4>4. CASE i # n /\ j # n
          BY <2>3, <3>1, <4>4 DEF RateInv, BucketsApart
        <4> QED
          BY <4>1, <4>2, <4>3, <4>4
      <3>2. ASSUME NEW i \in DOMAIN admitted', admitted'[i].life = life'
            PROVE  admitted'[i].opened = o \/ admitted'[i].opened + Window < o
        BY <1>1, <2>3, <2>10, <3>2
      <3>3. bucket'.count > 0
        BY <1>2, <1>3
      <3> QED
        BY <1>4, <1>5, <3>1, <3>2, <3>3 DEF BucketsApart
    <2> QED
      BY <2>6, <2>7, <2>8, <2>9, <2>11 DEF RateInv
  <1> QED
    BY <1>6, <1>7

LEMMA RateAlways == RateInv /\ [RateNext]_rateVars => RateInv'
  <1> SUFFICES ASSUME RateInv, [RateNext]_rateVars PROVE RateInv'
    OBVIOUS
  <1>1. /\ time \in Nat /\ life \in Nat
        /\ \A i \in DOMAIN admitted : admitted[i].at \in Nat /\ admitted[i].life \in Nat
    BY RateTypes DEF RateInv
  <1>2. CASE TimePasses
    <2>1. time' = time + 1 /\ time < MaxTime /\ UNCHANGED <<bucket, life, admitted>>
      BY <1>2 DEF TimePasses
    <2>2. RateTypeOK'
      <3>1. time + 1 \in 0 .. MaxTime
        BY <1>1, <2>1, RateAssumption
      <3> QED
        BY <2>1, <3>1 DEF RateInv, RateTypeOK
    <2>3. AdmittedInTime'
      BY <1>1, <2>1 DEF RateInv, AdmittedInTime
    <2>4. BucketFits'
      <3>1. bucket.count > 0 => OpenedAt \in 0 .. time + 1
        BY <1>1 DEF RateInv, BucketFits
      <3>2. OpenedAt' = OpenedAt
        BY <2>1 DEF OpenedAt
      <3> QED
        BY <2>1, <3>1, <3>2 DEF RateInv, BucketFits
    <2>5. BucketsApart'
      BY <2>1 DEF RateInv, BucketsApart, OpenedAt
    <2> QED
      BY <2>1, <2>2, <2>3, <2>4, <2>5 DEF RateInv
  <1>3. CASE LoseBuckets
    <2>1. /\ life' = life + 1 /\ life < MaxLives /\ bucket' = NoBucket
          /\ UNCHANGED <<time, admitted>>
      BY <1>3 DEF LoseBuckets
    <2>2. RateTypeOK'
      BY <1>1, <2>1, RateAssumption DEF RateInv, RateTypeOK, NoBucket
    <2>3. AdmittedInTime'
      BY <1>1, <2>1 DEF RateInv, AdmittedInTime
    <2>4. \A i \in DOMAIN admitted : admitted[i].life # life'
      BY <1>1, <2>1 DEF RateInv, AdmittedInTime
    <2>5. BucketFits' /\ BucketsApart'
      BY <2>1, <2>4 DEF RateInv, BucketFits, BucketsApart, NoBucket
    <2> QED
      BY <2>1, <2>2, <2>3, <2>5 DEF RateInv
  <1>4. CASE UNCHANGED rateVars
    BY <1>4 DEF rateVars, RateInv, RateTypeOK, BucketFits, BucketsApart, AdmittedInTime, OpenedAt
  <1> QED
    BY <1>2, <1>3, <1>4, FirstCallStep, CountedCallStep DEF RateNext

\* A stretch as long as a window meets two buckets of one life at most.
LEMMA TwoBuckets ==
  ASSUME RateInv, NEW l \in Nat, NEW from \in Nat
  PROVE  \E p, q \in Nat :
             AdmittedIn(l, from) \subseteq Into(admitted, l, p) \cup Into(admitted, l, q)
  <1>1. \A i \in AdmittedIn(l, from) :
            /\ i \in DOMAIN admitted /\ admitted[i].life = l
            /\ admitted[i].at \in from .. from + Window
            /\ admitted[i].opened \in Nat
            /\ admitted[i].at \in admitted[i].opened .. admitted[i].opened + Window
    BY RateTypes DEF AdmittedIn, RateInv, AdmittedInTime
  <1>2. \A i, j \in AdmittedIn(l, from) :
            admitted[i].opened < admitted[j].opened
                => admitted[i].opened + Window < admitted[j].opened
    BY <1>1 DEF RateInv, BucketsApart
  <1>3. \A i \in AdmittedIn(l, from) : i \in Into(admitted, l, admitted[i].opened)
    BY <1>1 DEF Into
  <1>4. CASE AdmittedIn(l, from) = {}
    BY <1>4
  <1>5. ASSUME NEW i \in AdmittedIn(l, from), NEW j \in AdmittedIn(l, from),
               admitted[i].opened < admitted[j].opened
        PROVE  AdmittedIn(l, from) \subseteq
                   Into(admitted, l, admitted[i].opened) \cup Into(admitted, l, admitted[j].opened)
    <2>1. ASSUME NEW k \in AdmittedIn(l, from)
          PROVE  admitted[k].opened \in {admitted[i].opened, admitted[j].opened}
      BY <1>1, <1>2, <1>5, RateAssumption
    <2> QED
      BY <1>3, <2>1
  <1>6. ASSUME NEW i \in AdmittedIn(l, from),
               \A j \in AdmittedIn(l, from) : admitted[j].opened = admitted[i].opened
        PROVE  AdmittedIn(l, from) \subseteq
                   Into(admitted, l, admitted[i].opened) \cup Into(admitted, l, admitted[i].opened)
    BY <1>3, <1>6
  <1>7. CASE \E i, j \in AdmittedIn(l, from) : admitted[i].opened < admitted[j].opened
    BY <1>1, <1>5, <1>7
  <1>8. CASE \E i \in AdmittedIn(l, from) :
                 \A j \in AdmittedIn(l, from) : admitted[j].opened = admitted[i].opened
    BY <1>1, <1>6, <1>8
  <1>9. \/ AdmittedIn(l, from) = {}
        \/ \E i, j \in AdmittedIn(l, from) : admitted[i].opened < admitted[j].opened
        \/ \E i \in AdmittedIn(l, from) :
               \A j \in AdmittedIn(l, from) : admitted[j].opened = admitted[i].opened
    BY <1>1
  <1> QED
    BY <1>4, <1>7, <1>8, <1>9

\* However the calls fall and the instance is restarted: in any stretch of time as long
\* as a window, one life of the instance admits twice the limit at most, and it refuses
\* no call unless it has admitted as many as the limit within the last window.
THEOREM RateAlwaysKept == RateSpec => []RateKept
  <1>1. RateInv => RateKept
    <2> SUFFICES ASSUME RateInv PROVE RateKept
      OBVIOUS
    <2>1. /\ time \in Nat /\ life \in Nat /\ PerBucket \in Nat \ {0} /\ Window \in Nat
          /\ bucket.count \in Nat /\ bucket.resetAt \in Nat
      BY RateTypes DEF RateInv
    <2>2. ASSUME NEW l \in 1 .. life, NEW from \in 0 .. time
          PROVE  Cardinality(AdmittedIn(l, from)) <= 2 * PerBucket
      <3>1. l \in Nat /\ from \in Nat
        BY <2>1
      <3>2. PICK p \in Nat, q \in Nat :
                AdmittedIn(l, from) \subseteq Into(admitted, l, p) \cup Into(admitted, l, q)
        BY <3>1, TwoBuckets
      <3>3. PICK P, Q : P = Into(admitted, l, p) /\ Q = Into(admitted, l, q)
        OBVIOUS
      <3>4. /\ IsFiniteSet(P) /\ Cardinality(P) \in Nat /\ Cardinality(P) <= PerBucket
            /\ IsFiniteSet(Q) /\ Cardinality(Q) \in Nat /\ Cardinality(Q) <= PerBucket
        BY <3>1, <3>3, IntoFinite DEF RateInv
      <3>5. /\ IsFiniteSet(P \cup Q) /\ IsFiniteSet(P \cap Q)
            /\ Cardinality(P \cup Q) = Cardinality(P) + Cardinality(Q) - Cardinality(P \cap Q)
        BY <3>4, FS_Union, FS_Intersection
      <3>6. /\ Cardinality(P \cap Q) \in Nat
            /\ Cardinality(AdmittedIn(l, from)) <= Cardinality(P \cup Q)
            /\ Cardinality(AdmittedIn(l, from)) \in Nat
        BY <3>2, <3>3, <3>5, FS_Subset, FS_CardinalityType
      <3> QED
        BY <2>1, <3>4, <3>5, <3>6
    <2>3. ASSUME ~ Expired, ~ HasRoom
          PROVE  Cardinality(AdmittedIn(life, time - Window)) >= PerBucket
      <3>1. /\ bucket.count > 0 /\ time <= bucket.resetAt /\ bucket.count >= PerBucket
            /\ OpenedAt \in 0 .. time
        BY <2>1, <2>3 DEF Expired, HasRoom, RateInv, BucketFits
      <3>2. Cardinality(Into(admitted, life, OpenedAt)) = PerBucket
        BY <2>1, <3>1 DEF RateInv, BucketFits
      <3>3. Into(admitted, life, OpenedAt) \subseteq AdmittedIn(life, time - Window)
        BY <2>1, <3>1 DEF Into, AdmittedIn, RateInv, AdmittedInTime, OpenedAt
      <3>4. IsFiniteSet(AdmittedIn(life, time - Window))
        <4>1. DOMAIN admitted = 1 .. Len(admitted) /\ Len(admitted) \in Nat
          BY DEF RateInv, RateTypeOK
        <4>2. AdmittedIn(life, time - Window) \in SUBSET (1 .. Len(admitted))
          BY <4>1 DEF AdmittedIn
        <4>3. IsFiniteSet(1 .. Len(admitted))
          BY <4>1, FS_Interval
        <4> QED
          BY <4>2, <4>3, FS_Subset
      <3>5. Cardinality(AdmittedIn(life, time - Window)) \in Nat
        BY <3>4, FS_CardinalityType
      <3> QED
        BY <2>1, <3>2, <3>3, <3>4, <3>5, FS_Subset
    <2> QED
      BY <2>2, <2>3 DEF RateKept
  <1> QED
    BY <1>1, RateAtFirst, RateAlways, PTL DEF RateSpec

-----------------------------------------------------------------------------
(* The composition.                                                        *)

LEMMA PartsStart ==
  Init => /\ AuthInit /\ PortalInit /\ PagesInit
          /\ DockInit /\ GrowthInit /\ LeadsInit /\ RateInit
  BY DEF Init

LEMMA PartsStep ==
  ASSUME [Next]_<<authVars, portalVars, pagesVars, dockVars, growthVars, leadVars,
                  rateVars, part>>
  PROVE  /\ [AuthNext]_authVars /\ [PortalNext]_portalVars /\ [PagesNext]_pagesVars
         /\ [DockNext]_dockVars /\ [GrowthNext]_growthVars /\ [LeadsNext]_leadVars
         /\ [RateNext]_rateVars
  <1>1. /\ AuthNext \/ UNCHANGED authVars
        /\ PortalNext \/ UNCHANGED portalVars
        /\ PagesNext \/ UNCHANGED pagesVars
    BY DEF Next
  <1>2. /\ DockNext \/ UNCHANGED dockVars
        /\ MarketingNext \/ BusinessNext \/ UNCHANGED growthVars
        /\ LeadsNext \/ UNCHANGED leadVars
        /\ RateNext \/ UNCHANGED rateVars
    BY DEF Next
  <1> QED
    BY <1>1, <1>2 DEF GrowthNext

\* Whatever part of the app runs, every part behaves as it does by itself.
THEOREM PartsOfTheApp ==
  Spec => /\ AuthSpec /\ PortalSpec /\ PagesSpec
          /\ DockSpec /\ GrowthSpec /\ LeadsSpec /\ RateSpec
  <1>1. [Next]_<<authVars, portalVars, pagesVars, dockVars, growthVars, leadVars,
                 rateVars, part>>
           => /\ [AuthNext]_authVars /\ [PortalNext]_portalVars /\ [PagesNext]_pagesVars
              /\ [DockNext]_dockVars /\ [GrowthNext]_growthVars /\ [LeadsNext]_leadVars
              /\ [RateNext]_rateVars
    BY PartsStep
  <1> QED
    BY <1>1, PartsStart, PTL
       DEF Spec, AuthSpec, PortalSpec, PagesSpec, DockSpec, GrowthSpec, LeadsSpec, RateSpec

\* What the screens of the portal, of the consultants and of the dock tell their users
\* is so, whatever their calls, answers and readers do in whatever order.
THEOREM ScreensAlwaysHold == Spec => []ScreensHold
  <1>1. PortalHolds /\ PagesHold /\ OneMic => ScreensHold
    BY DEF ScreensHold
  <1> QED
    BY <1>1, PartsOfTheApp, PortalAlwaysHolds, PagesAlwaysHold, DockHasOneMic, PTL

LEMMA LeadsAreTyped == LeadsInv => LeadsTypeOK
  <1> SUFFICES ASSUME LeadsInv PROVE LeadsTypeOK
    OBVIOUS
  <1>1. /\ file \in [Leads -> Lead] /\ table \in [Leads -> Lead]
        /\ mirrors \subseteq [Leads -> Lead]
    BY DEF LeadsInv, NamesItsOwn
  <1>2. \A n \in Made : made[n] \in Leads \cup {0}
    BY DEF LeadsInv, AreMade, Made
  <1>3. \A c \in Conversions : converting[c] # <<>> => converting[c] \in Leads \X Made
    BY DEF LeadsInv, ConversionFits, Made
  <1> QED
    BY <1>1, <1>2, <1>3 DEF LeadsTypeOK, LeadsInv

LEMMA PortalIsTyped == PortalInv => PortalTypeOK
  <1> SUFFICES ASSUME PortalInv PROVE PortalTypeOK
    OBVIOUS
  <1>1. view \in {NoView} \cup Views
    BY DEF PortalInv, BrowserFits, StillSo
  <1>2. tickets \subseteq [client : Clients \cup {NoClient}, eng : Engs \cup {NoEng}]
    BY DEF PortalInv, ServerFits, TicketFits
  <1>3. /\ book \in [Engs -> Record] /\ saves \in 0 .. MaxSaves
        /\ latest \in [Clients -> Engs \cup {NoEng}]
    BY DEF PortalInv, ServerFits, LatestFits
  <1>4. calls \in [Slots -> CallSet]
    BY DEF PortalInv, CallsFit
  <1> QED
    BY <1>1, <1>2, <1>3, <1>4 DEF PortalInv, ServerFits, BrowserFits, PortalTypeOK

\* Every variable of the part that runs keeps its type.
THEOREM AppTyped == Spec => []TypeOK
  <1>1. PortalSpec => []PortalTypeOK
    BY PortalAtFirst, PortalAlways, PortalIsTyped, PTL DEF PortalSpec
  <1>2. PagesSpec => []PagesTypeOK
    BY PagesAlways, PagesSafe, PTL
  <1>3. DockSpec => []DockTypeOK
    <2>1. DockInv => DockTypeOK
      BY DEF DockInv
    <2> QED
      BY <2>1, DockAtFirst, DockAlways, PTL DEF DockSpec
  <1>4. GrowthSpec => []GrowthTypeOK
    <2>1. GrowthInv => GrowthTypeOK
      BY DEF GrowthInv
    <2> QED
      BY <2>1, GrowthAtFirst, GrowthAlways, PTL DEF GrowthSpec
  <1>5. LeadsSpec => []LeadsTypeOK
    BY LeadsAtFirst, LeadsAlways, LeadsAreTyped, PTL DEF LeadsSpec
  <1>6. RateSpec => []RateTypeOK
    <2>1. RateInv => RateTypeOK
      BY DEF RateInv
    <2> QED
      BY <2>1, RateAtFirst, RateAlways, PTL DEF RateSpec
  <1>7. ASSUME AuthTypeOK, PortalTypeOK, PagesTypeOK, DockTypeOK, GrowthTypeOK,
               LeadsTypeOK, RateTypeOK
        PROVE  TypeOK
    BY <1>7 DEF TypeOK
  <1> QED
    BY <1>1, <1>2, <1>3, <1>4, <1>5, <1>6, <1>7, PartsOfTheApp, AuthTypeCorrect, PTL

=============================================================================
