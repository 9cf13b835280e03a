---------------------------- MODULE AccountProofs ----------------------------
(***************************************************************************)
(* For any number of users, requests and containers: addresses stay        *)
(* unique whatever sessions overlap, the trail is truthful, a demotion     *)
(* holds for the next request, no update undoes another, and a seed that   *)
(* commits has healed.                                                     *)
(***************************************************************************)
EXTENDS Accounts, TLAPS

Column == {"email", "role", "password", "is_active", "is_system", "is_deleted"}
Changed == [id : Id, row : User, written : SUBSET Column]
Legacy == [id : Id, row : User]
Action == {"login", "login_failed", "create", "update"}
Entries == [action : Action, actor : Id \cup {None}, actor_type : {"system", "user"},
            resource : Id \cup {None}, disabled : BOOLEAN]

-----------------------------------------------------------------------------
(* Shapes *)

TableTypes ==
    /\ users \in [Id -> User \cup {None}]
    /\ changes \in [Session -> SUBSET Changed]

TokenTypes ==
    /\ tokens \subseteq [sub : Id, role : Role]
    /\ \A t \in tokens : users[t.sub] # None

Asking == [pc : {"idle", "missing", "acting", "loaded", "flushed"}, actor : Id \cup {None},
           me : User \cup {None}, token : BOOLEAN, role : Role \cup {None}, id : Id \cup {None},
           row : User \cup {None}, entry : Entries \cup {None}, overtaken : BOOLEAN]

RequestTypes == request \in [Request -> Asking]

\* What a request remembers, when it has come that far.
RequestFacts ==
    \A r \in Request :
        /\ request[r].pc \in {"acting", "loaded", "flushed"} =>
              request[r].actor \in Id /\ request[r].me \in User /\ request[r].role \in Role
        /\ request[r].pc = "loaded" => request[r].id \in Id /\ request[r].row \in User
        /\ request[r].pc = "flushed" => request[r].entry \in Entries

SeedTypes ==
    /\ seed \in [Container -> [pc : {"start", "migrate", "users", "flushed", "done"},
                               todo : SUBSET (Legacy \cup USERS), plan : SUBSET Changed]]
    /\ \A c \in Container :
          /\ seed[c].pc = "migrate" => seed[c].todo \subseteq Legacy
          /\ seed[c].pc = "users" => seed[c].todo \subseteq USERS

TrailTypes == audit_logs \subseteq Entries /\ AUTH_DISABLED \in BOOLEAN

Shapes == TableTypes /\ TokenTypes /\ RequestTypes /\ RequestFacts /\ SeedTypes /\ TrailTypes

LEMMA NoneIsNobody == None \notin User /\ None \notin Id
BY Addresses

LEMMA ColumnsOfUser ==
    ASSUME NEW row \in User
    PROVE  DOMAIN row = Column
BY DEF User, Column

\* Columns of two rows, mixed, are a row.
LEMMA MixIsUser ==
    ASSUME NEW row \in User, NEW old \in User, NEW written
    PROVE  /\ [c \in DOMAIN row |-> IF c \in written THEN row[c] ELSE old[c]] \in User
           /\ \A c \in Column :
                [d \in DOMAIN row |-> IF d \in written THEN row[d] ELSE old[d]][c] =
                    IF c \in written THEN row[c] ELSE old[c]
<1>1. DOMAIN row = Column
    BY ColumnsOfUser
<1>2. [c \in DOMAIN row |-> IF c \in written THEN row[c] ELSE old[c]] \in User
    BY DEF User
<1> QED BY <1>1, <1>2

LEMMA MergeIsUser ==
    ASSUME TableTypes, NEW x \in Changed
    PROVE  /\ Merge(x) \in User
           /\ users[x.id] = None => Merge(x) = x.row
           /\ users[x.id] # None => \A c \in Column :
                Merge(x)[c] = IF c \in x.written THEN x.row[c] ELSE users[x.id][c]
<1>1. x.id \in Id /\ x.row \in User
    BY DEF Changed
<1>2. CASE users[x.id] = None
    BY <1>1, <1>2 DEF Merge
<1>3. CASE users[x.id] # None
    <2>1. users[x.id] \in User
        BY <1>1, <1>3 DEF TableTypes
    <2> QED BY <1>1, <1>3, <2>1, MixIsUser DEF Merge
<1> QED BY <1>2, <1>3

LEMMA PatchIsUser ==
    ASSUME NEW row \in User, NEW patch \in Patches
    PROVE  /\ [c \in DOMAIN row |-> IF c \in DOMAIN patch THEN patch[c] ELSE row[c]] \in User
           /\ \A c \in {"email", "is_system", "is_deleted"} :
                [d \in DOMAIN row |-> IF d \in DOMAIN patch THEN patch[d] ELSE row[d]][c] = row[c]
<1>1. /\ DOMAIN patch \subseteq DOMAIN Patchable
      /\ \A c \in DOMAIN patch : patch[c] \in Patchable[c]
    BY Accounted
<1>2. DOMAIN row = Column
    BY ColumnsOfUser
<1> QED BY <1>1, <1>2 DEF User, Patchable, Column

LEMMA ChangeTypes ==
    ASSUME NEW id \in Id, NEW row \in User, NEW written \in SUBSET Column
    PROVE  /\ Change(id, row, written) \in Changed
           /\ Change(id, row, written).id = id
           /\ Change(id, row, written).row = row
           /\ Change(id, row, written).written = written
BY DEF Change, Changed

LEMMA UnusedIsFree ==
    ASSUME Unused # {}
    PROVE  LET id == CHOOSE i \in Unused : TRUE
           IN  /\ id \in Id /\ users[id] = None
               /\ \A s \in Session : \A x \in changes[s] : x.id # id
               /\ \A c \in Container : \A x \in seed[c].plan : x.id # id
BY DEF Unused

LEMMA PrincipalIsUser == Principal \in User /\ DOMAIN Principal = Column
BY Addresses DEF Principal, User, Role, Column

\* A commit writes what the session holds, and removes nobody.
LEMMA CommitWrites ==
    ASSUME TableTypes, NEW s \in Session, CommitChanges(s)
    PROVE  /\ TableTypes'
           /\ changes' = [changes EXCEPT ![s] = {}]
           /\ \A i \in Id :
                 \/ users'[i] = users[i] /\ \A x \in changes[s] : x.id # i
                 \/ \E x \in changes[s] : x.id = i /\ users'[i] = Merge(x)
           /\ \A i \in Id : users[i] # None => users'[i] # None
<1>1. ASSUME NEW i \in Id
      PROVE  \/ users'[i] = users[i] /\ \A x \in changes[s] : x.id # i
             \/ \E x \in changes[s] : x.id = i /\ users'[i] = Merge(x)
    <2>1. CASE \E x \in changes[s] : x.id = i
        <3> DEFINE y == CHOOSE x \in changes[s] : x.id = i
        <3>1. y \in changes[s] /\ y.id = i
            BY <2>1
        <3>2. users'[i] = Merge(y)
            BY <2>1 DEF CommitChanges
        <3> QED BY <3>1, <3>2
    <2>2. CASE ~\E x \in changes[s] : x.id = i
        BY <2>2 DEF CommitChanges
    <2> QED BY <2>1, <2>2
<1>2. ASSUME NEW x \in changes[s] PROVE x \in Changed /\ Merge(x) \in User
    BY MergeIsUser DEF TableTypes
<1>3. ASSUME NEW i \in Id PROVE users'[i] \in User \cup {None}
    BY <1>1, <1>2 DEF TableTypes
<1>4. ASSUME NEW i \in Id, users[i] # None PROVE users'[i] # None
    BY <1>1, <1>2, <1>4, NoneIsNobody
<1>5. users' = [i \in Id |-> users'[i]]
    BY DEF CommitChanges
<1>6. users' \in [Id -> User \cup {None}]
    BY <1>3, <1>5
<1>7. changes' = [changes EXCEPT ![s] = {}] /\ changes' \in [Session -> SUBSET Changed]
    BY DEF CommitChanges, TableTypes
<1> QED BY <1>1, <1>4, <1>6, <1>7 DEF TableTypes

LEMMA EntryTypes ==
    ASSUME AUTH_DISABLED \in BOOLEAN, NEW action \in Action, NEW actor \in Id \cup {None},
           NEW is_system \in BOOLEAN, NEW resource \in Id \cup {None}
    PROVE  Entry(action, actor, is_system, resource) \in Entries
BY DEF Entry, Entries

LEMMA InitShapes == Init => Shapes
<1> SUFFICES ASSUME Init PROVE Shapes
    OBVIOUS
<1>1. TableTypes /\ TokenTypes /\ TrailTypes
    BY Accounted DEF Init, TableTypes, TokenTypes, TrailTypes
<1>2. RequestTypes /\ RequestFacts
    BY DEF Init, NoRequest, RequestTypes, Asking, RequestFacts
<1>3. SeedTypes
    BY DEF Init, Starting, SeedTypes
<1> QED BY <1>1, <1>2, <1>3 DEF Shapes

\* Tokens.
LEMMA TokenShapes ==
    ASSUME Shapes,
           \/ \E email \in Email, password \in Password :
                 Login(email, password) \/ LoginFailed(email, password)
           \/ \E token \in tokens : Refresh(token)
    PROVE  Shapes'
<1> USE DEF Shapes
<1>1. ASSUME NEW id \in Id, users[id] # None, Issue(id)
      PROVE  /\ tokens' \subseteq [sub : Id, role : Role]
             /\ \A t \in tokens' : users[t.sub] # None
    <2>1. users[id].role \in Role
        BY <1>1 DEF TableTypes, User
    <2> QED BY <1>1, <2>1 DEF Issue, TokenTypes
<1>2. ASSUME NEW email \in Email, NEW password \in Password, Login(email, password)
      PROVE  Shapes'
    <2>1. PICK id \in Id : /\ users[id] # None /\ Issue(id)
                           /\ audit_logs' = audit_logs \cup {Entry("login", id, FALSE, id)}
        BY <1>2 DEF Login, Holding
    <2>2. UNCHANGED <<users, AUTH_DISABLED, request, seed, changes>>
        BY <1>2 DEF Login, CountLogin
    <2>3. TokenTypes'
        BY <1>1, <2>1, <2>2 DEF TokenTypes
    <2>4. TrailTypes'
        <3>1. Entry("login", id, FALSE, id) \in Entries
            BY DEF TrailTypes, Entry, Entries, Action
        <3> DEFINE entry == Entry("login", id, FALSE, id)
        <3>2. entry \in Entries /\ audit_logs' = audit_logs \cup {entry}
            BY <2>1, <3>1
        <3> HIDE DEF entry
        <3> QED BY <2>2, <3>2 DEF TrailTypes
    <2>5. TableTypes' /\ SeedTypes'
        BY <2>2 DEF TableTypes, SeedTypes
    <2>6. RequestTypes' /\ RequestFacts'
        BY <2>2 DEF RequestTypes, Asking, RequestFacts
    <2> QED BY <2>3, <2>4, <2>5, <2>6
<1>3. ASSUME NEW email \in Email, NEW password \in Password, LoginFailed(email, password)
      PROVE  Shapes'
    <2>1. UNCHANGED <<users, AUTH_DISABLED, request, seed, changes, tokens>>
        BY <1>3 DEF LoginFailed, CountLogin
    <2>2. TrailTypes'
        <3>1. Entry("login_failed", None, FALSE, None) \in Entries
            BY DEF TrailTypes, Entry, Entries, Action
        <3> DEFINE entry == Entry("login_failed", None, FALSE, None)
        <3>2. entry \in Entries /\ audit_logs' = audit_logs \cup {entry}
            BY <1>3, <3>1 DEF LoginFailed
        <3> HIDE DEF entry
        <3> QED BY <2>1, <3>2 DEF TrailTypes
    <2>3. TableTypes' /\ TokenTypes' /\ SeedTypes'
        BY <2>1 DEF TableTypes, TokenTypes, SeedTypes
    <2>4. RequestTypes' /\ RequestFacts'
        BY <2>1 DEF RequestTypes, Asking, RequestFacts
    <2> QED BY <2>2, <2>3, <2>4
<1>4. ASSUME NEW token \in tokens, Refresh(token) PROVE Shapes'
    <2>1. UNCHANGED <<users, AUTH_DISABLED, request, seed, changes, audit_logs>>
        BY <1>4 DEF Refresh
    <2>2. TokenTypes'
        BY <1>1, <1>4, <2>1 DEF Refresh, TokenTypes
    <2>3. TableTypes' /\ TrailTypes' /\ SeedTypes'
        BY <2>1 DEF TableTypes, TrailTypes, SeedTypes
    <2>4. RequestTypes' /\ RequestFacts'
        BY <2>1 DEF RequestTypes, Asking, RequestFacts
    <2> QED BY <2>2, <2>3, <2>4
<1> QED BY <1>2, <1>3, <1>4

\* A request that knows who makes it.
LEMMA ResolvedTypes ==
    ASSUME RequestTypes, RequestFacts, NEW r \in Request, NEW id \in Id, NEW row \in User,
           NEW role \in Role, NEW token \in BOOLEAN, Resolved(r, id, row, role, token)
    PROVE  RequestTypes' /\ RequestFacts'
<1> DEFINE q == [NoRequest EXCEPT !.pc = "acting", !.actor = id, !.me = row, !.role = role,
                                  !.token = token]
<1>1. request' = [request EXCEPT ![r] = q]
    BY DEF Resolved
<1>2. /\ q \in Asking
      /\ q.pc = "acting" /\ q.actor = id /\ q.me = row /\ q.role = role
    BY DEF NoRequest, Asking
<1> HIDE DEF q
<1>3. RequestTypes'
    BY <1>1, <1>2 DEF RequestTypes, Asking
<1>4. RequestFacts'
    BY <1>1, <1>2 DEF RequestTypes, Asking, RequestFacts
<1> QED BY <1>3, <1>4

LEMMA FlushedTypes ==
    ASSUME RequestTypes, RequestFacts, TrailTypes, NEW r \in Request, NEW action \in Action,
           NEW resource \in Id \cup {None},
           request[r].pc \in {"acting", "loaded"}, Flushed(r, action, resource)
    PROVE  RequestTypes' /\ RequestFacts'
<1> DEFINE entry == Entry(action, request[r].actor, request[r].me.is_system, resource)
<1>1. request[r].me.is_system \in BOOLEAN
    BY DEF RequestFacts, User
<1>2. entry \in Entries
    BY <1>1, EntryTypes DEF RequestTypes, Asking, TrailTypes
<1> HIDE DEF entry
<1>3. request' = [request EXCEPT ![r].pc = "flushed", ![r].entry = entry]
    BY DEF Flushed, entry
<1>a. [request[r] EXCEPT !.pc = "flushed", !.entry = entry] \in Asking
    BY <1>2 DEF RequestTypes, Asking
<1>4. RequestTypes'
    BY <1>3, <1>a DEF RequestTypes
<1>5. /\ request'[r].pc = "flushed" /\ request'[r].entry = entry
      /\ request'[r].actor = request[r].actor /\ request'[r].me = request[r].me
      /\ request'[r].role = request[r].role
      /\ \A q \in Request \ {r} : request'[q] = request[q]
    BY <1>3 DEF RequestTypes, Asking
<1>6. RequestFacts'
    BY <1>2, <1>5 DEF RequestFacts
<1> QED BY <1>4, <1>6

\* A session that flushes one more change.
LEMMA AddTypes ==
    ASSUME TableTypes, NEW s \in Session, NEW X \in SUBSET Changed, UNCHANGED users,
           changes' = [changes EXCEPT ![s] = @ \cup X]
    PROVE  TableTypes'
BY DEF TableTypes

LEMMA SameTokens ==
    ASSUME TokenTypes, UNCHANGED <<users, tokens>>
    PROVE  TokenTypes'
BY DEF TokenTypes

LEMMA RequestsAreSessions == Request \subseteq Session /\ Container \subseteq Session
BY DEF Session

\* Who makes a request.
LEMMA PrincipalShapes ==
    ASSUME Shapes, NEW r \in Request,
           \/ \E token \in tokens : Authenticate(r, token)
           \/ FindPrincipal(r)
           \/ InsertPrincipal(r)
           \/ RereadPrincipal(r)
    PROVE  Shapes'
<1> USE DEF Shapes
<1>1. ASSUME NEW token \in tokens, Authenticate(r, token) PROVE Shapes'
    <2>1. token.sub \in Id /\ users[token.sub] \in User
        BY DEF TokenTypes, TableTypes
    <2>2. users[token.sub].role \in Role
        BY <2>1 DEF User
    <2>3. RequestTypes' /\ RequestFacts'
        BY <1>1, <2>1, <2>2, ResolvedTypes DEF Authenticate
    <2>4. UNCHANGED <<users, audit_logs, AUTH_DISABLED, tokens, seed, changes>>
        BY <1>1 DEF Authenticate, BeginRequest
    <2>5. TableTypes' /\ SeedTypes' /\ TrailTypes'
        BY <2>4 DEF TableTypes, SeedTypes, TrailTypes
    <2> QED BY <2>3, <2>4, <2>5, SameTokens
<1>2. ASSUME NEW id \in Holding(SYSTEM_USER_EMAIL)
      PROVE  id \in Id /\ users[id] \in User /\ users[id].role \in Role
    <2>1. id \in Id /\ users[id] # None
        BY DEF Holding
    <2>2. users[id] \in User
        BY <2>1 DEF TableTypes
    <2> QED BY <2>1, <2>2 DEF User
<1>3. CASE FindPrincipal(r)
    <2>1. RequestTypes' /\ RequestFacts'
        <3>1. CASE \E id \in Holding(SYSTEM_USER_EMAIL) :
                      Resolved(r, id, users[id], users[id].role, FALSE)
            BY <1>2, <3>1, ResolvedTypes
        <3>2. CASE request' = [request EXCEPT ![r].pc = "missing"]
            BY <3>2 DEF RequestTypes, Asking, RequestFacts
        <3> QED BY <1>3, <3>1, <3>2 DEF FindPrincipal
    <2>2. UNCHANGED <<users, audit_logs, AUTH_DISABLED, tokens, seed, changes>>
        BY <1>3 DEF FindPrincipal, BeginRequest
    <2>3. TableTypes' /\ SeedTypes' /\ TrailTypes'
        BY <2>2 DEF TableTypes, SeedTypes, TrailTypes
    <2> QED BY <2>1, <2>2, <2>3, SameTokens
<1>4. CASE InsertPrincipal(r)
    <2> DEFINE id == CHOOSE i \in Unused : TRUE
    <2>1. id \in Id
        BY <1>4, UnusedIsFree DEF InsertPrincipal
    <2> HIDE DEF id
    <2>2. Change(id, Principal, DOMAIN Principal) \in Changed
        BY <2>1, PrincipalIsUser, ChangeTypes
    <2>3. changes' = [changes EXCEPT ![r] = {Change(id, Principal, DOMAIN Principal)}]
        BY <1>4 DEF InsertPrincipal, id
    <2>4. UNCHANGED <<users, audit_logs, AUTH_DISABLED, tokens, seed>>
        BY <1>4 DEF InsertPrincipal
    <2>5. TableTypes'
        BY <2>2, <2>3, <2>4 DEF TableTypes
    <2>6. Resolved(r, id, Principal, "admin", FALSE)
        BY <1>4 DEF InsertPrincipal, id
    <2>7. RequestTypes' /\ RequestFacts'
        BY <2>1, <2>6, PrincipalIsUser, ResolvedTypes DEF Role
    <2>8. SeedTypes' /\ TrailTypes'
        BY <2>4 DEF SeedTypes, TrailTypes
    <2> QED BY <2>4, <2>5, <2>7, <2>8, SameTokens
<1>5. CASE RereadPrincipal(r)
    <2>1. RequestTypes' /\ RequestFacts'
        BY <1>2, <1>5, ResolvedTypes DEF RereadPrincipal
    <2>2. UNCHANGED <<users, audit_logs, AUTH_DISABLED, tokens, seed, changes>>
        BY <1>5 DEF RereadPrincipal
    <2>3. TableTypes' /\ SeedTypes' /\ TrailTypes'
        BY <2>2 DEF TableTypes, SeedTypes, TrailTypes
    <2> QED BY <2>1, <2>2, <2>3, SameTokens
<1> QED BY <1>1, <1>3, <1>4, <1>5

\* What a request does.
LEMMA WorkShapes ==
    ASSUME Shapes, NEW r \in Request,
           \/ Work(r)
           \/ \E draft \in Drafts : CreateUser(r, draft)
           \/ \E id \in Id : GetUser(r, id)
           \/ \E patch \in Patches : UpdateUser(r, patch)
    PROVE  Shapes'
<1> USE DEF Shapes
<1>1. CASE Work(r)
    <2>1. RequestTypes' /\ RequestFacts'
        BY <1>1, FlushedTypes DEF Work, Authorised, Action
    <2>2. UNCHANGED <<users, audit_logs, AUTH_DISABLED, tokens, seed, changes>>
        BY <1>1 DEF Work
    <2>3. TableTypes' /\ SeedTypes' /\ TrailTypes'
        BY <2>2 DEF TableTypes, SeedTypes, TrailTypes
    <2> QED BY <2>1, <2>2, <2>3, SameTokens
<1>2. ASSUME NEW draft \in Drafts, CreateUser(r, draft) PROVE Shapes'
    <2> DEFINE id == CHOOSE i \in Unused : TRUE
    <2>1. id \in Id
        BY <1>2, UnusedIsFree DEF CreateUser
    <2> HIDE DEF id
    <2>2. draft \in User /\ DOMAIN draft = Column
        BY Accounted, ColumnsOfUser
    <2>3. Change(id, draft, DOMAIN draft) \in Changed
        BY <2>1, <2>2, ChangeTypes
    <2>4. changes' = [changes EXCEPT ![r] = @ \cup {Change(id, draft, DOMAIN draft)}]
        BY <1>2 DEF CreateUser, id
    <2>5. UNCHANGED <<users, audit_logs, AUTH_DISABLED, tokens, seed>>
        BY <1>2 DEF CreateUser
    <2>6. TableTypes'
        BY <2>3, <2>4, <2>5 DEF TableTypes
    <2>7. Flushed(r, "create", id) /\ request[r].pc = "acting"
        BY <1>2 DEF CreateUser, Authorised, id
    <2>8. RequestTypes' /\ RequestFacts'
        BY <2>1, <2>7, FlushedTypes DEF Action
    <2>9. SeedTypes' /\ TrailTypes'
        BY <2>5 DEF SeedTypes, TrailTypes
    <2> QED BY <2>5, <2>6, <2>8, <2>9, SameTokens
<1>3. ASSUME NEW id \in Id, GetUser(r, id) PROVE Shapes'
    <2> DEFINE row == IF id = request[r].actor THEN request[r].me ELSE users[id]
    <2>1. users[id] \in User /\ request[r].pc = "acting"
        BY <1>3 DEF GetUser, Authorised, TableTypes
    <2>2. row \in User
        BY <2>1 DEF RequestFacts
    <2>3. request' = [request EXCEPT ![r].pc = "loaded", ![r].id = id, ![r].row = row]
        BY <1>3 DEF GetUser
    <2> HIDE DEF row
    <2>a. [request[r] EXCEPT !.pc = "loaded", !.id = id, !.row = row] \in Asking
        BY <2>2 DEF RequestTypes, Asking
    <2>4. RequestTypes'
        BY <2>3, <2>a DEF RequestTypes
    <2>5. /\ request'[r].pc = "loaded" /\ request'[r].id = id /\ request'[r].row = row
          /\ request'[r].actor = request[r].actor /\ request'[r].me = request[r].me
          /\ request'[r].role = request[r].role
          /\ \A q \in Request \ {r} : request'[q] = request[q]
        BY <2>3 DEF RequestTypes, Asking
    <2>6. RequestFacts'
        BY <2>1, <2>2, <2>5 DEF RequestFacts
    <2>7. UNCHANGED <<users, audit_logs, AUTH_DISABLED, tokens, seed, changes>>
        BY <1>3 DEF GetUser
    <2>8. TableTypes' /\ SeedTypes' /\ TrailTypes'
        BY <2>7 DEF TableTypes, SeedTypes, TrailTypes
    <2> QED BY <2>4, <2>6, <2>7, <2>8, SameTokens
<1>4. ASSUME NEW patch \in Patches, UpdateUser(r, patch) PROVE Shapes'
    <2> DEFINE q == request[r]
               row == [c \in DOMAIN q.row |-> IF c \in DOMAIN patch THEN patch[c] ELSE q.row[c]]
               written == {c \in DOMAIN row : row[c] # q.row[c]}
                              \cup ({"password"} \cap DOMAIN patch)
    <2>1. q.pc = "loaded" /\ q.id \in Id /\ q.row \in User
        BY <1>4 DEF UpdateUser, RequestFacts
    <2>2. row \in User
        BY <2>1, PatchIsUser
    <2>3. Change(q.id, row, written) \in Changed
        <3>1. written \in SUBSET Column
            BY <2>1, <2>2, ColumnsOfUser DEF Column
        <3> HIDE DEF row, written
        <3> QED BY <2>1, <2>2, <3>1, ChangeTypes
    <2>4. changes' = [changes EXCEPT ![r] =
                        IF written = {} THEN @ ELSE @ \cup {Change(q.id, row, written)}]
        BY <1>4 DEF UpdateUser
    <2>5. UNCHANGED <<users, audit_logs, AUTH_DISABLED, tokens, seed>> /\ Flushed(r, "update", q.id)
        BY <1>4 DEF UpdateUser
    <2> HIDE DEF row, written
    <2>6. TableTypes'
        BY <2>3, <2>4, <2>5 DEF TableTypes
    <2>7. RequestTypes' /\ RequestFacts'
        BY <2>1, <2>5, FlushedTypes DEF Action
    <2>8. SeedTypes' /\ TrailTypes'
        BY <2>5 DEF SeedTypes, TrailTypes
    <2> QED BY <2>5, <2>6, <2>7, <2>8, SameTokens
<1> QED BY <1>1, <1>2, <1>3, <1>4

\* A commit goes on with other requests as they are, but for what they know of it.
LEMMA OvertakeTypes ==
    ASSUME RequestTypes, RequestFacts, NEW s \in Session
    PROVE  /\ Overtake(s) \in
                [Request -> Asking]
           /\ \A r \in Request :
                /\ Overtake(s)[r].pc = request[r].pc /\ Overtake(s)[r].actor = request[r].actor
                /\ Overtake(s)[r].me = request[r].me /\ Overtake(s)[r].role = request[r].role
                /\ Overtake(s)[r].id = request[r].id /\ Overtake(s)[r].row = request[r].row
                /\ Overtake(s)[r].entry = request[r].entry
                /\ Overtake(s)[r].token = request[r].token
                /\ Overtake(s)[r].overtaken <=>
                      request[r].overtaken \/ \E x \in changes[s] : x.id = request[r].actor /\ r # s
BY DEF Overtake, RequestTypes, Asking

LEMMA IdleRequest == NoRequest \in Asking /\ NoRequest.pc = "idle"
BY DEF NoRequest, Asking

\* The end of a request, and of the API.
LEMMA EndShapes ==
    ASSUME Shapes, Reconfigure \/ \E r \in Request : Commit(r) \/ Abort(r)
    PROVE  Shapes'
<1> USE DEF Shapes
<1>1. ASSUME NEW r \in Request, Commit(r) PROVE Shapes'
    <2>1. TableTypes' /\ \A i \in Id : users[i] # None => users'[i] # None
        BY <1>1, CommitWrites, RequestsAreSessions DEF Commit
    <2>2. TokenTypes'
        BY <1>1, <2>1 DEF Commit, TokenTypes
    <2>3. request[r].entry \in Entries
        BY <1>1 DEF Commit, RequestFacts
    <2>4. TrailTypes'
        BY <1>1, <2>3 DEF Commit, TrailTypes
    <2>5. request' = [Overtake(r) EXCEPT ![r] = NoRequest]
        BY <1>1 DEF Commit
    <2>6. RequestTypes'
        BY <2>5, OvertakeTypes, IdleRequest, RequestsAreSessions DEF RequestTypes
    <2>7. RequestFacts'
        BY <2>5, OvertakeTypes, IdleRequest, RequestsAreSessions DEF RequestFacts
    <2>8. SeedTypes'
        BY <1>1 DEF Commit, SeedTypes
    <2> QED BY <2>1, <2>2, <2>4, <2>6, <2>7, <2>8
<1>2. ASSUME NEW r \in Request, Abort(r) PROVE Shapes'
    <2>1. UNCHANGED <<users, audit_logs, AUTH_DISABLED, tokens, seed>>
        BY <1>2 DEF Abort
    <2>2. changes' = [changes EXCEPT ![r] = {}] /\ request' = [request EXCEPT ![r] = NoRequest]
        BY <1>2 DEF Abort
    <2>3. TableTypes' /\ SeedTypes' /\ TrailTypes'
        BY <2>1, <2>2 DEF TableTypes, SeedTypes, TrailTypes
    <2>4. RequestTypes'
        BY <2>2, IdleRequest DEF RequestTypes
    <2>5. RequestFacts'
        BY <2>2, IdleRequest DEF RequestFacts, RequestTypes
    <2> QED BY <2>1, <2>3, <2>4, <2>5, SameTokens
<1>3. CASE Reconfigure
    <2>1. UNCHANGED <<users, audit_logs, tokens, seed>> /\ AUTH_DISABLED' = ~AUTH_DISABLED
        BY <1>3 DEF Reconfigure
    <2>2. /\ request' = [r \in Request |-> NoRequest]
          /\ changes' = [s \in Session |-> IF s \in Request THEN {} ELSE changes[s]]
        BY <1>3 DEF Reconfigure
    <2>3. TableTypes' /\ SeedTypes' /\ TrailTypes'
        BY <2>1, <2>2 DEF TableTypes, SeedTypes, TrailTypes
    <2>4. RequestTypes' /\ RequestFacts'
        BY <2>2, IdleRequest DEF RequestTypes, RequestFacts
    <2> QED BY <2>1, <2>3, <2>4, SameTokens
<1> QED BY <1>1, <1>2, <1>3

\* What a legacy row becomes.
LEMMA RepairTypes ==
    ASSUME NEW row \in User, row.email \in DOMAIN Renamed
    PROVE  /\ [row EXCEPT !.email = Renamed[row.email]] \in User
           /\ [row EXCEPT !.is_deleted = TRUE, !.is_active = FALSE] \in User
BY Addresses DEF User

Starts == [pc : {"start", "migrate", "users", "flushed", "done"},
           todo : SUBSET (Legacy \cup USERS), plan : SUBSET Changed]

LEMMA StartingIsOne == Starting \in Starts /\ Starting.pc = "start"
BY DEF Starting, Starts

\* A seed at a time.
LEMMA SeedingTypes ==
    ASSUME SeedTypes, NEW c \in Container, NEW next \in Starts, seed' = [seed EXCEPT ![c] = next],
           next.pc = "migrate" => next.todo \subseteq Legacy,
           next.pc = "users" => next.todo \subseteq USERS
    PROVE  SeedTypes'
BY DEF SeedTypes, Starts

\* The rows that are to be repaired have a legacy address.
LegacyRead ==
    \A c \in Container : seed[c].pc = "migrate" =>
        \A x \in seed[c].todo : x.row.email \in DOMAIN Renamed

LEMMA FlushShapes ==
    ASSUME Shapes, NEW c \in Container, NEW next \in Starts, Flush(c, next),
           next.pc = "migrate" => next.todo \subseteq Legacy,
           next.pc = "users" => next.todo \subseteq USERS
    PROVE  Shapes'
<1> USE DEF Shapes
<1> DEFINE writes == {x \in seed[c].plan : x.written # {}}
<1>1. UNCHANGED <<users, audit_logs, AUTH_DISABLED, tokens, request>>
    BY DEF Flush
<1>2. \/ seed' = [seed EXCEPT ![c] = Starting] /\ changes' = [changes EXCEPT ![c] = {}]
      \/ seed' = [seed EXCEPT ![c] = next] /\ changes' = [changes EXCEPT ![c] = @ \cup writes]
    BY DEF Flush
<1>3. writes \subseteq Changed
    BY DEF SeedTypes
<1> HIDE DEF writes
<1>4. TableTypes'
    BY <1>1, <1>2, <1>3 DEF TableTypes
<1>5. SeedTypes'
    BY <1>2, SeedingTypes, StartingIsOne
<1>6. RequestTypes' /\ RequestFacts'
    BY <1>1 DEF RequestTypes, RequestFacts
<1>7. TrailTypes'
    BY <1>1 DEF TrailTypes
<1> QED BY <1>1, <1>4, <1>5, <1>6, <1>7, SameTokens

LEMMA SeedShapes ==
    ASSUME Shapes, LegacyRead, NEW c \in Container, SeedStep(c) \/ Restart(c)
    PROVE  Shapes'
<1> USE DEF Shapes
<1>0. ASSUME UNCHANGED <<users, audit_logs, AUTH_DISABLED, tokens, request>>,
             changes' = changes \/ changes' = [changes EXCEPT ![c] = {}], SeedTypes'
      PROVE  Shapes'
    <2>1. RequestTypes' /\ RequestFacts'
        BY <1>0 DEF RequestTypes, RequestFacts
    <2>2. TableTypes' /\ TrailTypes'
        BY <1>0 DEF TableTypes, TrailTypes
    <2> QED BY <1>0, <2>1, <2>2, SameTokens
<1>1. CASE SelectLegacy(c)
    <2> DEFINE todo == {[id |-> i, row |-> users[i]] :
                          i \in {j \in Id : users[j] # None /\ users[j].email \in DOMAIN Renamed}}
               next == [pc |-> "migrate", plan |-> {}, todo |-> todo]
    <2>1. todo \subseteq Legacy
        BY DEF TableTypes, Legacy
    <2>2. seed' = [seed EXCEPT ![c] = next]
        BY <1>1 DEF SelectLegacy
    <2> HIDE DEF todo
    <2>3. next \in Starts /\ next.todo = todo /\ next.pc = "migrate"
        BY <2>1 DEF Starts
    <2> HIDE DEF next
    <2>4. SeedTypes'
        BY <2>1, <2>2, <2>3, SeedingTypes
    <2> QED BY <1>0, <1>1, <2>4 DEF SelectLegacy
<1>2. ASSUME NEW x \in seed[c].todo, Migrate(c, x) PROVE Shapes'
    <2> DEFINE replacement == Renamed[x.row.email]
               repaired == IF Holding(replacement) = {}
                           THEN [x.row EXCEPT !.email = replacement]
                           ELSE [x.row EXCEPT !.is_deleted = TRUE, !.is_active = FALSE]
               written == {f \in DOMAIN x.row : repaired[f] # x.row[f]}
               change == Change(x.id, repaired, written)
    <2>1. x.id \in Id /\ x.row \in User /\ x.row.email \in DOMAIN Renamed
        BY <1>2 DEF Migrate, SeedTypes, Legacy, LegacyRead
    <2>2. change \in Changed
        BY <2>1, RepairTypes, ColumnsOfUser, ChangeTypes
    <2>3. seed' = [seed EXCEPT ![c].todo = @ \ {x}, ![c].plan = @ \cup {change}]
        BY <1>2 DEF Migrate
    <2> HIDE DEF change
    <2>4. SeedTypes'
        BY <2>2, <2>3 DEF SeedTypes
    <2> QED BY <1>0, <1>2, <2>4 DEF Migrate
<1>3. ASSUME NEW u \in seed[c].todo, SeedUser(c, u) PROVE Shapes'
    <2> DEFINE id == CHOOSE i \in Unused : TRUE
               exists == Holding(u.email) # {} \/ \E x \in changes[c] : x.row.email = u.email
               change == Change(id, u, DOMAIN u)
               plan == IF exists THEN seed[c].plan ELSE seed[c].plan \cup {change}
    <2>1. u \in USERS
        BY <1>3 DEF SeedUser, SeedTypes
    <2>2. u \in User /\ DOMAIN u = Column
        BY <2>1, Accounted, ColumnsOfUser
    <2>3. ~exists => id \in Id
        BY <1>3, UnusedIsFree DEF SeedUser
    <2>4. ~exists => change \in Changed
        BY <2>2, <2>3, ChangeTypes
    <2>5. plan \subseteq Changed
        BY <2>4 DEF SeedTypes
    <2>6. seed' = [seed EXCEPT ![c].todo = @ \ {u}, ![c].plan = plan]
        BY <1>3 DEF SeedUser, SeedTypes
    <2> HIDE DEF plan
    <2>7. SeedTypes'
        BY <2>5, <2>6 DEF SeedTypes
    <2> QED BY <1>0, <1>3, <2>7 DEF SeedUser
<1>4. CASE FlushMigration(c)
    <2>1. [pc |-> "users", todo |-> USERS, plan |-> {}] \in Starts
        BY DEF Starts
    <2> QED BY <1>4, <2>1, FlushShapes DEF FlushMigration
<1>5. CASE FlushUsers(c)
    <2>1. [pc |-> "flushed", todo |-> {}, plan |-> {}] \in Starts
        BY DEF Starts
    <2> QED BY <1>5, <2>1, FlushShapes DEF FlushUsers
<1>6. CASE CommitSeed(c)
    <2>1. TableTypes' /\ \A i \in Id : users[i] # None => users'[i] # None
        BY <1>6, CommitWrites, RequestsAreSessions DEF CommitSeed
    <2>2. TokenTypes' /\ TrailTypes'
        BY <1>6, <2>1 DEF CommitSeed, TokenTypes, TrailTypes
    <2>3. RequestTypes' /\ RequestFacts'
        BY <1>6, OvertakeTypes, RequestsAreSessions DEF CommitSeed, RequestTypes, RequestFacts
    <2>4. SeedTypes'
        BY <1>6 DEF CommitSeed, SeedTypes
    <2> QED BY <2>1, <2>2, <2>3, <2>4
<1>7. CASE Restart(c)
    <2>1. SeedTypes'
        BY <1>7, SeedingTypes, StartingIsOne DEF Restart
    <2> QED BY <1>0, <1>7, <2>1 DEF Restart
<1> QED BY <1>1, <1>2, <1>3, <1>4, <1>5, <1>6, <1>7 DEF SeedStep

-----------------------------------------------------------------------------
(* Unique addresses *)

Unique ==
    \A i, j \in Id : users[i] # None /\ users[j] # None /\ users[i].email = users[j].email
                         => i = j

\* What sessions have flushed does not collide once it is committed, in any order.
Claims ==
    /\ \A s, t \in Session : \A x \in changes[s], y \in changes[t] :
          x.id = y.id => s = t /\ x = y
    /\ \A s, t \in Session : \A x \in changes[s], y \in changes[t] :
          x.id # y.id => Merge(x).email # Merge(y).email
    /\ \A s \in Session : \A x \in changes[s] : \A i \in Id \ {x.id} :
          users[i] # None => users[i].email # Merge(x).email

\* The change decides the address of its row.
Names(x) == users[x.id] = None \/ "email" \in x.written

LEMMA MergedEmail ==
    ASSUME TableTypes, NEW x \in Changed
    PROVE  /\ Names(x) => Merge(x).email = x.row.email
           /\ ~Names(x) => users[x.id] # None /\ Merge(x).email = users[x.id].email
BY MergeIsUser DEF Names, Column

\* What a session may add to what it holds.
Fits(s, X) ==
    /\ \A x \in X, t \in Session : \A y \in changes[t] : x.id # y.id
    /\ \A x, y \in X : x.id = y.id => x = y
    /\ \A x, y \in X : Names(x) /\ Names(y) /\ x.row.email = y.row.email => x = y
    /\ \A x \in X : Names(x) =>
          /\ ~Conflicts(s, x.id, x.row.email)
          /\ \A t \in Session \ {s} : \A y \in changes[t] : x.row.email # y.row.email

LEMMA AddKeeps ==
    ASSUME TableTypes, Unique, Claims, NEW s \in Session, NEW X \in SUBSET Changed,
           Fits(s, X), UNCHANGED users, changes' = [changes EXCEPT ![s] = @ \cup X]
    PROVE  Unique' /\ Claims'
<1>1. ASSUME NEW x \in Changed PROVE Merge(x)' = Merge(x)
    BY DEF Merge
<1>2. ASSUME NEW t \in Session, NEW x \in changes'[t]
      PROVE  /\ x \in Changed
             /\ x \in changes[t] \/ (t = s /\ x \in X)
    BY DEF TableTypes
<1>3. ASSUME NEW x \in X, NEW i \in Id \ {x.id}, users[i] # None
      PROVE  users[i].email # Merge(x).email
    <2>1. CASE Names(x)
        <3>1. users[i].email # x.row.email
            BY <1>3, <2>1 DEF Fits, Conflicts, Holding
        <3> QED BY <2>1, <3>1, MergedEmail
    <2>2. CASE ~Names(x)
        <3>1. x.id \in Id
            BY DEF Changed
        <3> QED BY <1>3, <2>2, <3>1, MergedEmail DEF Unique
    <2> QED BY <2>1, <2>2
<1>4. ASSUME NEW x \in X, NEW t \in Session, NEW y \in changes[t]
      PROVE  Merge(x).email # Merge(y).email
    <2>1. x \in Changed /\ y \in Changed /\ x.id # y.id /\ x.id \in Id /\ y.id \in Id
        BY DEF TableTypes, Changed, Fits
    <2>2. CASE ~Names(x)
        <3>1. users[x.id] # None /\ Merge(x).email = users[x.id].email
            BY <2>1, <2>2, MergedEmail
        <3> QED BY <2>1, <3>1 DEF Claims
    <2>3. CASE ~Names(y)
        <3>1. users[y.id] # None /\ Merge(y).email = users[y.id].email
            BY <2>1, <2>3, MergedEmail
        <3> QED BY <1>3, <2>1, <3>1
    <2>4. CASE Names(x) /\ Names(y)
        <3>1. x.row.email # y.row.email
            BY <2>1, <2>4 DEF Fits, Conflicts
        <3> QED BY <2>1, <2>4, <3>1, MergedEmail
    <2> QED BY <2>2, <2>3, <2>4
<1>5. ASSUME NEW x \in X, NEW y \in X, x.id # y.id
      PROVE  Merge(x).email # Merge(y).email
    <2>1. x.id \in Id /\ y.id \in Id
        BY DEF Changed
    <2>2. CASE ~Names(x)
        BY <1>3, <1>5, <2>1, <2>2, MergedEmail
    <2>3. CASE ~Names(y)
        BY <1>3, <1>5, <2>1, <2>3, MergedEmail
    <2>4. CASE Names(x) /\ Names(y)
        BY <1>5, <2>4, MergedEmail DEF Fits
    <2> QED BY <2>2, <2>3, <2>4
<1>6. Unique'
    BY DEF Unique
<1>7. ASSUME NEW t \in Session, NEW q \in Session, NEW x \in changes'[t], NEW y \in changes'[q]
      PROVE  /\ x.id = y.id => t = q /\ x = y
             /\ x.id # y.id => Merge(x).email # Merge(y).email
    <2>1. CASE x \in changes[t] /\ y \in changes[q]
        BY <2>1 DEF Claims
    <2>2. CASE x \in X /\ t = s /\ y \in changes[q]
        BY <1>4, <2>2 DEF Fits
    <2>3. CASE x \in changes[t] /\ y \in X /\ q = s
        BY <1>4, <2>3 DEF Fits
    <2>4. CASE x \in X /\ t = s /\ y \in X /\ q = s
        BY <1>5, <2>4 DEF Fits
    <2> QED BY <1>2, <2>1, <2>2, <2>3, <2>4
<1>8. ASSUME NEW t \in Session, NEW x \in changes'[t], NEW i \in Id \ {x.id}, users[i] # None
      PROVE  users[i].email # Merge(x).email
    BY <1>2, <1>3, <1>8 DEF Claims
<1>9. Claims'
    <2>1. ASSUME NEW t \in Session, NEW x \in changes'[t] PROVE Merge(x)' = Merge(x)
        BY <1>1, <1>2
    <2> QED BY <1>7, <1>8, <2>1 DEF Claims
<1> QED BY <1>6, <1>9

\* Rolling back claims nothing.
LEMMA DropKeeps ==
    ASSUME Unique, Claims, UNCHANGED users,
           \A s \in Session : changes'[s] \subseteq changes[s]
    PROVE  Unique' /\ Claims'
<1>1. \A x : Merge(x)' = Merge(x)
    BY DEF Merge
<1>2. Unique'
    BY DEF Unique
<1>3. Claims'
    BY <1>1 DEF Claims
<1> QED BY <1>2, <1>3

LEMMA CommitKeeps ==
    ASSUME TableTypes, Unique, Claims, NEW s \in Session, CommitChanges(s)
    PROVE  Unique' /\ Claims'
<1>1. /\ \A i \in Id :
            \/ users'[i] = users[i] /\ \A x \in changes[s] : x.id # i
            \/ \E x \in changes[s] : x.id = i /\ users'[i] = Merge(x)
      /\ changes' = [changes EXCEPT ![s] = {}]
    BY CommitWrites
<1>2. ASSUME NEW t \in Session, NEW x \in changes'[t]
      PROVE  x \in changes[t] /\ t # s /\ x \in Changed /\ x.id \in Id
    BY <1>1 DEF TableTypes, Changed
<1>3. ASSUME NEW t \in Session, NEW x \in changes'[t]
      PROVE  users'[x.id] = users[x.id] /\ Merge(x)' = Merge(x)
    <2>1. users'[x.id] = users[x.id]
        BY <1>1, <1>2, <1>3 DEF Claims
    <2> QED BY <2>1 DEF Merge
<1>4. ASSUME NEW i \in Id, NEW j \in Id, users'[i] # None, users'[j] # None,
             users'[i].email = users'[j].email
      PROVE  i = j
    <2>1. CASE /\ users'[i] = users[i] /\ \A x \in changes[s] : x.id # i
               /\ users'[j] = users[j] /\ \A x \in changes[s] : x.id # j
        BY <1>4, <2>1 DEF Unique
    <2>2. ASSUME NEW x \in changes[s], x.id = i, users'[i] = Merge(x),
                 users'[j] = users[j] /\ \A y \in changes[s] : y.id # j
          PROVE  i = j
        BY <1>4, <2>2 DEF Claims
    <2>3. ASSUME NEW x \in changes[s], x.id = j, users'[j] = Merge(x),
                 users'[i] = users[i] /\ \A y \in changes[s] : y.id # i
          PROVE  i = j
        BY <1>4, <2>3 DEF Claims
    <2>4. ASSUME NEW x \in changes[s], x.id = i, users'[i] = Merge(x),
                 NEW y \in changes[s], y.id = j, users'[j] = Merge(y)
          PROVE  i = j
        BY <1>4, <2>4 DEF Claims
    <2> QED BY <1>1, <2>1, <2>2, <2>3, <2>4
<1>5. ASSUME NEW t \in Session, NEW x \in changes'[t], NEW i \in Id \ {x.id}, users'[i] # None
      PROVE  users'[i].email # Merge(x).email
    <2>1. CASE users'[i] = users[i]
        BY <1>2, <1>5, <2>1 DEF Claims
    <2>2. ASSUME NEW y \in changes[s], y.id = i, users'[i] = Merge(y)
          PROVE  users'[i].email # Merge(x).email
        BY <1>2, <2>2 DEF Claims
    <2> QED BY <1>1, <2>1, <2>2
<1>6. Claims'
    BY <1>2, <1>3, <1>5 DEF Claims
<1> QED BY <1>4, <1>6 DEF Unique

-----------------------------------------------------------------------------
(* Keys that are taken *)

\* The repairs of a seed, planned and still to be planned, do not collide.
Repairs(todo, plan) ==
    /\ \A x \in todo : x.row.email \in DOMAIN Renamed /\ users[x.id] # None
    /\ \A x, y \in todo : x.id = y.id \/ x.row.email = y.row.email => x = y
    /\ \A x \in plan : users[x.id] # None
    /\ \A x, y \in plan : x.id = y.id \/ x.row.email = y.row.email => x = y
    /\ \A x \in todo, y \in plan :
          x.id # y.id /\ x.row.email # y.row.email /\ Renamed[x.row.email] # y.row.email

\* The accounts that a seed plans have keys of their own.
Additions(todo, plan) ==
    /\ \A x \in plan : users[x.id] = None /\ "email" \in x.written
    /\ \A x \in plan, s \in Session : \A y \in changes[s] : x.id # y.id
    /\ \A x, y \in plan : x.id = y.id \/ x.row.email = y.row.email => x = y
    /\ \A x \in plan, u \in todo : x.row.email # u.email

SeedReserve(c) ==
    /\ seed[c].pc \notin {"migrate", "users"} => seed[c].plan = {}
    /\ seed[c].pc \in {"start", "migrate", "done"} => changes[c] = {}
    /\ seed[c].pc = "migrate" => Repairs(seed[c].todo, seed[c].plan)
    /\ seed[c].pc = "users" => Additions(seed[c].todo, seed[c].plan)

RequestReserve(r) ==
    /\ request[r].pc \in {"idle", "missing"} => changes[r] = {}
    /\ request[r].pc \in {"acting", "loaded"} => \A x \in changes[r] : users[x.id] = None
    /\ request[r].pc = "loaded" => users[request[r].id] # None

\* Two seeds never plan for the same key.
Apart ==
    \A c, d \in Container : c # d /\ seed[c].pc = "users" /\ seed[d].pc = "users" =>
        \A x \in seed[c].plan, y \in seed[d].plan : x.id # y.id

Reserve ==
    /\ \A c \in Container : SeedReserve(c)
    /\ \A r \in Request : RequestReserve(r)
    /\ Apart

LEMMA InitReserve == Init => Reserve /\ Unique /\ Claims
<1> SUFFICES ASSUME Init PROVE Reserve /\ Unique /\ Claims
    OBVIOUS
<1>1. ASSUME NEW c \in Container PROVE SeedReserve(c)
    BY DEF Init, Starting, SeedReserve, Session
<1>2. ASSUME NEW r \in Request PROVE RequestReserve(r)
    BY DEF Init, NoRequest, RequestReserve, Session
<1>3. Apart
    BY DEF Init, Starting, Apart
<1>4. Unique /\ Claims
    BY Accounted DEF Init, Unique, Claims
<1> QED BY <1>1, <1>2, <1>3, <1>4 DEF Reserve

\* What a step of one session leaves to the others.
LEMMA OthersReserve ==
    ASSUME Shapes, Reserve, NEW s \in Session,
           \A i \in Id : users[i] # None => users'[i] # None,
           \A t \in Session \ {s} : changes'[t] = changes[t],
           \A c \in Container \ {s} : seed'[c] = seed[c],
           \A r \in Request \ {s} :
              request'[r].pc = request[r].pc /\ request'[r].id = request[r].id,
           \A t \in Session \ {s} : \A x \in changes[t] : users'[x.id] = users[x.id],
           \A c \in Container \ {s} : seed[c].pc = "users" => \A x \in seed[c].plan :
              users'[x.id] = None /\ \A y \in changes'[s] : x.id # y.id
    PROVE  /\ \A c \in Container \ {s} : SeedReserve(c)'
           /\ \A r \in Request \ {s} : RequestReserve(r)'
<1>1. ASSUME NEW c \in Container \ {s} PROVE SeedReserve(c)'
    <2>1. SeedReserve(c) /\ seed'[c] = seed[c] /\ changes'[c] = changes[c]
        BY RequestsAreSessions DEF Reserve
    <2>2. ASSUME seed[c].pc = "migrate" PROVE Repairs(seed[c].todo, seed[c].plan)'
        <3>1. Repairs(seed[c].todo, seed[c].plan)
            BY <2>1, <2>2 DEF SeedReserve
        <3>2. \A x \in seed[c].todo \cup seed[c].plan : x.id \in Id
            BY <2>2 DEF Shapes, SeedTypes, Legacy, Changed
        <3> QED BY <2>1, <3>1, <3>2 DEF Repairs
    <2>3. ASSUME seed[c].pc = "users" PROVE Additions(seed[c].todo, seed[c].plan)'
        <3>1. Additions(seed[c].todo, seed[c].plan)
            BY <2>1, <2>3 DEF SeedReserve
        <3>2. \A x \in seed[c].plan, t \in Session : \A y \in changes'[t] : x.id # y.id
            BY <2>3, <3>1 DEF Additions
        <3> QED BY <2>1, <2>3, <3>1, <3>2 DEF Additions
    <2> QED BY <2>1, <2>2, <2>3 DEF SeedReserve
<1>2. ASSUME NEW r \in Request \ {s} PROVE RequestReserve(r)'
    <2>1. RequestReserve(r) /\ changes'[r] = changes[r]
        BY RequestsAreSessions DEF Reserve
    <2>2. request[r].pc = "loaded" => request[r].id \in Id
        BY DEF Shapes, RequestFacts
    <2>3. \A x \in changes[r] : users'[x.id] = users[x.id]
        BY RequestsAreSessions
    <2> QED BY <2>1, <2>2, <2>3 DEF RequestReserve
<1> QED BY <1>1, <1>2

Keeps == Reserve /\ Unique /\ Claims

\* A request that neither flushes nor commits.
LEMMA QuietRequest ==
    ASSUME Shapes, Keeps, NEW r \in Request, UNCHANGED <<users, seed>>,
           changes' = changes \/ changes' = [changes EXCEPT ![r] = {}],
           \A q \in Request \ {r} :
              request'[q].pc = request[q].pc /\ request'[q].id = request[q].id,
           RequestReserve(r)'
    PROVE  Keeps'
<1> USE DEF Keeps
<1>0. r \in Session /\ r \notin Container
    BY Addresses, RequestsAreSessions
<1>1. changes'[r] \subseteq changes[r] /\ \A t \in Session \ {r} : changes'[t] = changes[t]
    BY <1>0 DEF Shapes, TableTypes
<1>2. Unique' /\ Claims'
    BY <1>0, <1>1, DropKeeps
<1>3. \A c \in Container : seed[c].pc = "users" => \A x \in seed[c].plan :
        users'[x.id] = None /\ \A y \in changes'[r] : x.id # y.id
    BY <1>0, <1>1 DEF Reserve, SeedReserve, Additions
<1>4. /\ \A c \in Container \ {r} : SeedReserve(c)'
      /\ \A q \in Request \ {r} : RequestReserve(q)'
    BY <1>0, <1>1, <1>3, OthersReserve
<1>5. Apart'
    BY DEF Reserve, Apart
<1> QED BY <1>0, <1>2, <1>4, <1>5 DEF Reserve

\* A request that flushes.
LEMMA FlushingRequest ==
    ASSUME Shapes, Keeps, NEW r \in Request, NEW x \in Changed, UNCHANGED <<users, seed>>,
           changes' = [changes EXCEPT ![r] = @ \cup {x}],
           \A q \in Request \ {r} :
              request'[q].pc = request[q].pc /\ request'[q].id = request[q].id,
           Fits(r, {x}),
           \A c \in Container : seed[c].pc = "users" => \A y \in seed[c].plan : y.id # x.id,
           RequestReserve(r)'
    PROVE  Keeps'
<1> USE DEF Keeps
<1>0. r \in Session /\ r \notin Container
    BY Addresses, RequestsAreSessions
<1>1. \A t \in Session \ {r} : changes'[t] = changes[t]
    BY <1>0 DEF Shapes, TableTypes
<1>2. Unique' /\ Claims'
    BY <1>0, AddKeeps DEF Shapes
<1>3. changes'[r] = changes[r] \cup {x}
    BY <1>0 DEF Shapes, TableTypes
<1>4. \A c \in Container : seed[c].pc = "users" => \A y \in seed[c].plan :
        users'[y.id] = None /\ \A z \in changes'[r] : y.id # z.id
    BY <1>0, <1>3 DEF Reserve, SeedReserve, Additions
<1>5. /\ \A c \in Container \ {r} : SeedReserve(c)'
      /\ \A q \in Request \ {r} : RequestReserve(q)'
    BY <1>0, <1>1, <1>4, OthersReserve
<1>6. Apart'
    BY DEF Reserve, Apart
<1> QED BY <1>0, <1>2, <1>5, <1>6 DEF Reserve

LEMMA ResolvedIsActing ==
    ASSUME RequestTypes, NEW r \in Request, NEW id, NEW row, NEW role, NEW token,
           Resolved(r, id, row, role, token)
    PROVE  /\ request'[r].pc = "acting"
           /\ request'[r].actor = id /\ request'[r].me = row /\ request'[r].role = role
           /\ request'[r].token = token /\ request'[r].overtaken = FALSE
           /\ \A q \in Request \ {r} : request'[q] = request[q]
BY DEF Resolved, RequestTypes, NoRequest

LEMMA FlushedIsFlushed ==
    ASSUME RequestTypes, NEW r \in Request, NEW action, NEW resource, Flushed(r, action, resource)
    PROVE  /\ request'[r].pc = "flushed"
           /\ request'[r].actor = request[r].actor /\ request'[r].me = request[r].me
           /\ request'[r].role = request[r].role /\ request'[r].token = request[r].token
           /\ request'[r].overtaken = request[r].overtaken
           /\ request'[r].entry =
                 Entry(action, request[r].actor, request[r].me.is_system, resource)
           /\ \A q \in Request \ {r} : request'[q] = request[q]
BY DEF Flushed, RequestTypes, Asking

\* What is new fits.
LEMMA NewFits ==
    ASSUME Shapes, NEW r \in Request, NEW row \in User, Unused # {},
           LET id == CHOOSE i \in Unused : TRUE
           IN  Free(r, id, row.email) /\ ~Conflicts(r, id, row.email)
    PROVE  LET id == CHOOSE i \in Unused : TRUE
               x == Change(id, row, DOMAIN row)
           IN  /\ x \in Changed /\ x.id = id /\ x.row = row /\ users[x.id] = None
               /\ Fits(r, {x})
               /\ \A c \in Container : \A y \in seed[c].plan : y.id # x.id
<1> DEFINE id == CHOOSE i \in Unused : TRUE
           x == Change(id, row, DOMAIN row)
<1>1. /\ id \in Id /\ users[id] = None
      /\ \A s \in Session : \A y \in changes[s] : y.id # id
      /\ \A c \in Container : \A y \in seed[c].plan : y.id # id
    BY UnusedIsFree
<1>2. Free(r, id, row.email) /\ ~Conflicts(r, id, row.email)
    OBVIOUS
<1> HIDE DEF id
<1>3. DOMAIN row = Column
    BY ColumnsOfUser
<1>4. x \in Changed /\ x.id = id /\ x.row = row
    BY <1>1, <1>3, ChangeTypes
<1> HIDE DEF x
<1>5. Fits(r, {x})
    BY <1>1, <1>2, <1>4 DEF Fits, Free
<1> QED BY <1>1, <1>4, <1>5 DEF x, id

LEMMA RequestKeeps ==
    ASSUME Shapes, Keeps, NEW r \in Request, RequestStep(r) \/ Abort(r)
    PROVE  Keeps'
<1>0. /\ RequestReserve(r) /\ RequestTypes /\ RequestFacts /\ TableTypes
      /\ r \in Session
    BY RequestsAreSessions DEF Keeps, Reserve, Shapes
<1>1. ASSUME NEW token \in tokens, Authenticate(r, token) PROVE Keeps'
    <2>1. request[r].pc = "idle" /\ UNCHANGED <<users, seed, changes>>
        BY <1>1 DEF Authenticate, BeginRequest
    <2>2. request'[r].pc = "acting" /\ \A q \in Request \ {r} : request'[q] = request[q]
        BY <1>0, <1>1, ResolvedIsActing DEF Authenticate
    <2>3. RequestReserve(r)'
        BY <1>0, <2>1, <2>2 DEF RequestReserve
    <2> QED BY <2>1, <2>2, <2>3, QuietRequest
<1>2. CASE FindPrincipal(r)
    <2>1. request[r].pc = "idle" /\ UNCHANGED <<users, seed, changes>>
        BY <1>2 DEF FindPrincipal, BeginRequest
    <2>2. /\ request'[r].pc \in {"acting", "missing"}
          /\ \A q \in Request \ {r} : request'[q] = request[q]
        <3>1. CASE \E id \in Holding(SYSTEM_USER_EMAIL) :
                      Resolved(r, id, users[id], users[id].role, FALSE)
            BY <1>0, <3>1, ResolvedIsActing
        <3>2. CASE request' = [request EXCEPT ![r].pc = "missing"]
            BY <1>0, <3>2 DEF RequestTypes, Asking
        <3> QED BY <1>2, <3>1, <3>2 DEF FindPrincipal
    <2>3. RequestReserve(r)'
        BY <1>0, <2>1, <2>2 DEF RequestReserve
    <2> QED BY <2>1, <2>2, <2>3, QuietRequest
<1>3. CASE InsertPrincipal(r)
    <2> DEFINE id == CHOOSE i \in Unused : TRUE
               x == Change(id, Principal, DOMAIN Principal)
    <2>1. /\ x \in Changed /\ users[x.id] = None /\ Fits(r, {x})
          /\ \A c \in Container : \A y \in seed[c].plan : y.id # x.id
        BY <1>3, NewFits, PrincipalIsUser DEF InsertPrincipal, Principal
    <2>2. /\ changes' = [changes EXCEPT ![r] = {x}] /\ request[r].pc = "missing"
          /\ Resolved(r, id, Principal, "admin", FALSE) /\ UNCHANGED <<users, seed>>
        BY <1>3 DEF InsertPrincipal
    <2> HIDE DEF x, id
    <2>3. changes[r] = {}
        BY <1>0, <2>2 DEF RequestReserve
    <2>4. changes' = [changes EXCEPT ![r] = @ \cup {x}] /\ changes'[r] = {x}
        BY <1>0, <2>2, <2>3 DEF TableTypes
    <2>5. request'[r].pc = "acting" /\ \A q \in Request \ {r} : request'[q] = request[q]
        BY <1>0, <2>2, ResolvedIsActing
    <2>6. RequestReserve(r)'
        BY <2>1, <2>2, <2>4, <2>5 DEF RequestReserve
    <2> QED BY <2>1, <2>2, <2>4, <2>5, <2>6, FlushingRequest
<1>4. CASE RereadPrincipal(r)
    <2>1. request[r].pc = "missing" /\ UNCHANGED <<users, seed, changes>>
        BY <1>4 DEF RereadPrincipal
    <2>2. request'[r].pc = "acting" /\ \A q \in Request \ {r} : request'[q] = request[q]
        BY <1>0, <1>4, ResolvedIsActing DEF RereadPrincipal
    <2>3. RequestReserve(r)'
        BY <1>0, <2>1, <2>2 DEF RequestReserve
    <2> QED BY <2>1, <2>2, <2>3, QuietRequest
<1>5. CASE Work(r)
    <2>1. UNCHANGED <<users, seed, changes>>
        BY <1>5 DEF Work
    <2>2. request'[r].pc = "flushed" /\ \A q \in Request \ {r} : request'[q] = request[q]
        BY <1>0, <1>5, FlushedIsFlushed DEF Work
    <2>3. RequestReserve(r)'
        BY <2>2 DEF RequestReserve
    <2> QED BY <2>1, <2>2, <2>3, QuietRequest
<1>6. ASSUME NEW draft \in Drafts, CreateUser(r, draft) PROVE Keeps'
    <2> DEFINE id == CHOOSE i \in Unused : TRUE
               x == Change(id, draft, DOMAIN draft)
    <2>1. draft \in User
        BY Accounted
    <2>2. /\ x \in Changed /\ users[x.id] = None /\ Fits(r, {x})
          /\ \A c \in Container : \A y \in seed[c].plan : y.id # x.id
        BY <1>6, <2>1, NewFits DEF CreateUser
    <2>3. /\ changes' = [changes EXCEPT ![r] = @ \cup {x}]
          /\ Flushed(r, "create", id) /\ UNCHANGED <<users, seed>>
        BY <1>6 DEF CreateUser
    <2> HIDE DEF x, id
    <2>4. request'[r].pc = "flushed" /\ \A q \in Request \ {r} : request'[q] = request[q]
        BY <1>0, <2>3, FlushedIsFlushed
    <2>5. RequestReserve(r)'
        BY <2>4 DEF RequestReserve
    <2> QED BY <2>2, <2>3, <2>4, <2>5, FlushingRequest
<1>7. ASSUME NEW id \in Id, GetUser(r, id) PROVE Keeps'
    <2>1. /\ request[r].pc = "acting" /\ users[id] # None /\ UNCHANGED <<users, seed, changes>>
        BY <1>7 DEF GetUser, Authorised
    <2>2. /\ request'[r].pc = "loaded" /\ request'[r].id = id
          /\ \A q \in Request \ {r} : request'[q] = request[q]
        BY <1>0, <1>7 DEF GetUser, RequestTypes, Asking
    <2>3. RequestReserve(r)'
        BY <1>0, <2>1, <2>2 DEF RequestReserve
    <2> QED BY <2>1, <2>2, <2>3, QuietRequest
<1>8. ASSUME NEW patch \in Patches, UpdateUser(r, patch) PROVE Keeps'
    <2> DEFINE q == request[r]
               row == [c \in DOMAIN q.row |-> IF c \in DOMAIN patch THEN patch[c] ELSE q.row[c]]
               written == {c \in DOMAIN row : row[c] # q.row[c]}
                              \cup ({"password"} \cap DOMAIN patch)
               x == Change(q.id, row, written)
    <2>1. q.pc = "loaded" /\ q.id \in Id /\ q.row \in User /\ users[q.id] # None
        BY <1>0, <1>8 DEF UpdateUser, RequestFacts, RequestReserve
    <2>2. row \in User /\ row.email = q.row.email
        BY <2>1, PatchIsUser
    <2>3. /\ Flushed(r, "update", q.id) /\ UNCHANGED <<users, seed>>
          /\ written # {} => \A s \in Session \ {r} : \A y \in changes[s] : y.id # q.id
          /\ changes' = [changes EXCEPT ![r] = IF written = {} THEN @ ELSE @ \cup {x}]
        BY <1>8 DEF UpdateUser
    <2>4. /\ x \in Changed /\ x.id = q.id /\ x.written = written /\ "email" \notin written
        <3>1. written \in SUBSET Column /\ "email" \notin written
            BY <2>1, <2>2, ColumnsOfUser DEF Column
        <3> HIDE DEF row, written
        <3> QED BY <2>1, <2>2, <3>1, ChangeTypes DEF x
    <2> HIDE DEF row, written, x
    <2>5. request'[r].pc = "flushed" /\ \A p \in Request \ {r} : request'[p] = request[p]
        BY <1>0, <2>3, FlushedIsFlushed
    <2>6. RequestReserve(r)'
        BY <2>5 DEF RequestReserve
    <2>7. CASE written = {}
        <3>1. changes' = changes
            BY <1>0, <2>3, <2>7 DEF TableTypes
        <3> QED BY <2>3, <2>5, <2>6, <3>1, QuietRequest
    <2>8. CASE written # {}
        <3>1. changes' = [changes EXCEPT ![r] = @ \cup {x}]
            BY <2>3, <2>8
        <3>2. \A y \in changes[r] : y.id # q.id
            BY <1>0, <2>1 DEF RequestReserve
        <3>3. Fits(r, {x})
            BY <2>1, <2>3, <2>4, <2>8, <3>2 DEF Fits, Names
        <3>4. \A c \in Container : seed[c].pc = "users" => \A y \in seed[c].plan : y.id # x.id
            BY <2>1, <2>4 DEF Keeps, Reserve, SeedReserve, Additions
        <3> QED BY <2>3, <2>4, <2>5, <2>6, <3>1, <3>3, <3>4, FlushingRequest
    <2> QED BY <2>7, <2>8
<1>9. CASE Abort(r)
    <2>1. /\ changes' = [changes EXCEPT ![r] = {}] /\ UNCHANGED <<users, seed>>
          /\ request' = [request EXCEPT ![r] = NoRequest]
        BY <1>9 DEF Abort
    <2>2. changes'[r] = {} /\ request'[r].pc = "idle"
        BY <1>0, <2>1, IdleRequest DEF TableTypes, RequestTypes
    <2>3. \A q \in Request \ {r} : request'[q] = request[q]
        BY <1>0, <2>1 DEF RequestTypes
    <2>4. RequestReserve(r)'
        BY <2>2 DEF RequestReserve
    <2> QED BY <2>1, <2>3, <2>4, QuietRequest
<1> QED BY <1>1, <1>2, <1>3, <1>4, <1>5, <1>6, <1>7, <1>8, <1>9 DEF RequestStep

\* A session that commits.
LEMMA CommittingKeeps ==
    ASSUME Shapes, Keeps, NEW s \in Session, CommitChanges(s),
           \A c \in Container \ {s} : seed'[c] = seed[c],
           \A r \in Request \ {s} :
              request'[r].pc = request[r].pc /\ request'[r].id = request[r].id,
           s \in Container => SeedReserve(s)',
           s \in Request => RequestReserve(s)',
           Apart'
    PROVE  Keeps'
<1> USE DEF Keeps
<1>1. /\ \A i \in Id :
            \/ users'[i] = users[i] /\ \A x \in changes[s] : x.id # i
            \/ \E x \in changes[s] : x.id = i /\ users'[i] = Merge(x)
      /\ \A i \in Id : users[i] # None => users'[i] # None
      /\ changes' = [changes EXCEPT ![s] = {}]
    BY CommitWrites DEF Shapes
<1>2. Unique' /\ Claims'
    BY CommitKeeps DEF Shapes
<1>3. changes'[s] = {} /\ \A t \in Session \ {s} : changes'[t] = changes[t]
    BY <1>1 DEF Shapes, TableTypes
<1>4. ASSUME NEW t \in Session \ {s}, NEW x \in changes[t] PROVE users'[x.id] = users[x.id]
    <2>1. x.id \in Id
        BY DEF Shapes, TableTypes, Changed
    <2> QED BY <1>1, <2>1 DEF Claims
<1>5. ASSUME NEW c \in Container, seed[c].pc = "users", NEW x \in seed[c].plan
      PROVE  users'[x.id] = None /\ \A y \in changes'[s] : x.id # y.id
    <2>1. x.id \in Id
        BY DEF Shapes, SeedTypes, Changed
    <2>2. users[x.id] = None /\ \A y \in changes[s] : y.id # x.id
        BY <1>5 DEF Reserve, SeedReserve, Additions
    <2> QED BY <1>1, <1>3, <2>1, <2>2
<1>6. /\ \A c \in Container \ {s} : SeedReserve(c)'
      /\ \A r \in Request \ {s} : RequestReserve(r)'
    BY <1>1, <1>3, <1>4, <1>5, OthersReserve
<1> QED BY <1>2, <1>6 DEF Reserve

LEMMA CommitRequestKeeps ==
    ASSUME Shapes, Keeps, NEW r \in Request, Commit(r)
    PROVE  Keeps'
<1>0. r \in Session /\ r \notin Container /\ RequestTypes /\ RequestFacts /\ TableTypes
    BY Addresses, RequestsAreSessions DEF Shapes
<1>1. CommitChanges(r) /\ request' = [Overtake(r) EXCEPT ![r] = NoRequest] /\ UNCHANGED seed
    BY DEF Commit
<1>2. changes' = [changes EXCEPT ![r] = {}]
    BY <1>0, <1>1, CommitWrites
<1>3. /\ request'[r].pc = "idle"
      /\ \A q \in Request \ {r} :
            request'[q].pc = request[q].pc /\ request'[q].id = request[q].id
    BY <1>0, <1>1, IdleRequest, OvertakeTypes
<1>4. RequestReserve(r)'
    BY <1>0, <1>2, <1>3 DEF RequestReserve, TableTypes
<1>5. Apart'
    BY <1>1 DEF Keeps, Reserve, Apart
<1> QED BY <1>0, <1>1, <1>3, <1>4, <1>5, CommittingKeeps

\* A seed that neither flushes nor commits.
LEMMA QuietSeed ==
    ASSUME Shapes, Keeps, NEW c \in Container, UNCHANGED <<users, request>>,
           changes' = changes \/ changes' = [changes EXCEPT ![c] = {}],
           \A d \in Container \ {c} : seed'[d] = seed[d],
           SeedReserve(c)', Apart'
    PROVE  Keeps'
<1> USE DEF Keeps
<1>0. c \in Session /\ c \notin Request
    BY Addresses, RequestsAreSessions
<1>1. changes'[c] \subseteq changes[c] /\ \A t \in Session \ {c} : changes'[t] = changes[t]
    BY <1>0 DEF Shapes, TableTypes
<1>2. Unique' /\ Claims'
    BY <1>0, <1>1, DropKeeps
<1>3. \A d \in Container : seed[d].pc = "users" => \A x \in seed[d].plan :
        users'[x.id] = None /\ \A y \in changes'[c] : x.id # y.id
    BY <1>0, <1>1 DEF Reserve, SeedReserve, Additions
<1>4. /\ \A d \in Container \ {c} : SeedReserve(d)'
      /\ \A q \in Request \ {c} : RequestReserve(q)'
    BY <1>0, <1>1, <1>3, OthersReserve
<1> QED BY <1>0, <1>2, <1>4 DEF Reserve

\* A seed that is started again.
LEMMA StartsAgain ==
    ASSUME Shapes, Keeps, NEW c \in Container, UNCHANGED <<users, request>>,
           changes' = [changes EXCEPT ![c] = {}], seed' = [seed EXCEPT ![c] = Starting]
    PROVE  Keeps'
<1>1. /\ seed'[c] = Starting /\ \A d \in Container \ {c} : seed'[d] = seed[d]
      /\ changes'[c] = {}
    BY RequestsAreSessions DEF Shapes, TableTypes, SeedTypes
<1>2. SeedReserve(c)'
    BY <1>1 DEF SeedReserve, Starting
<1>3. Apart'
    BY <1>1 DEF Keeps, Reserve, Apart, Starting
<1> QED BY <1>1, <1>2, <1>3, QuietSeed

LEMMA FlushingSeed ==
    ASSUME Shapes, Keeps, NEW c \in Container, NEW next \in Starts, next.plan = {},
           (seed[c].pc = "migrate" /\ next.pc = "users") \/ (seed[c].pc = "users" /\ next.pc = "flushed"),
           Flush(c, next)
    PROVE  Keeps'
<1> DEFINE writes == {x \in seed[c].plan : x.written # {}}
           conflict == \E x \in writes : "email" \in x.written /\ Conflicts(c, x.id, x.row.email)
<1>0. /\ c \in Session /\ c \notin Request /\ SeedReserve(c)
      /\ UNCHANGED <<users, request>>
    BY Addresses, RequestsAreSessions DEF Flush, Keeps, Reserve
<1>1. CASE conflict
    <2>1. changes' = [changes EXCEPT ![c] = {}] /\ seed' = [seed EXCEPT ![c] = Starting]
        BY <1>1 DEF Flush
    <2> QED BY <1>0, <2>1, StartsAgain
<1>2. CASE ~conflict
    <2>1. /\ changes' = [changes EXCEPT ![c] = @ \cup writes]
          /\ seed' = [seed EXCEPT ![c] = next]
          /\ \A x \in writes : Free(c, x.id, x.row.email)
        BY <1>2 DEF Flush
    <2>2. writes \subseteq seed[c].plan /\ writes \subseteq Changed
        BY DEF Shapes, SeedTypes
    <2>3. \A x \in writes : Names(x) => ~Conflicts(c, x.id, x.row.email)
        BY <1>0, <1>2 DEF Names, SeedReserve, Repairs, Additions
    <2>4. \A x \in writes : \A y \in changes[c] : x.id # y.id
        BY <1>0 DEF SeedReserve, Additions
    <2> HIDE DEF writes
    <2>5. \A x, y \in writes : x.id = y.id \/ x.row.email = y.row.email => x = y
        BY <1>0, <2>2 DEF SeedReserve, Repairs, Additions
    <2>6. Fits(c, writes)
        BY <2>1, <2>3, <2>4, <2>5 DEF Fits, Free
    <2>7. Unique' /\ Claims'
        BY <1>0, <2>1, <2>2, <2>6, AddKeeps DEF Keeps, Shapes
    <2>8. /\ changes'[c] = changes[c] \cup writes
          /\ \A t \in Session \ {c} : changes'[t] = changes[t]
          /\ seed'[c] = next /\ \A d \in Container \ {c} : seed'[d] = seed[d]
        BY <1>0, <2>1 DEF Shapes, TableTypes, SeedTypes
    <2>9. ASSUME NEW d \in Container \ {c}, seed[d].pc = "users", NEW x \in seed[d].plan
          PROVE  users'[x.id] = None /\ \A y \in changes'[c] : x.id # y.id
        <3>1. /\ users[x.id] = None
              /\ \A y \in changes[c] : x.id # y.id
            BY <1>0, <2>9 DEF Keeps, Reserve, SeedReserve, Additions
        <3>2. ASSUME NEW y \in writes PROVE x.id # y.id
            <4>1. CASE seed[c].pc = "migrate"
                BY <1>0, <2>2, <3>1, <4>1 DEF SeedReserve, Repairs
            <4>2. CASE seed[c].pc = "users"
                BY <2>2, <2>9, <4>2 DEF Keeps, Reserve, Apart
            <4> QED BY <4>1, <4>2
        <3> QED BY <1>0, <2>8, <3>1, <3>2
    <2>10. /\ \A d \in Container \ {c} : SeedReserve(d)'
           /\ \A q \in Request \ {c} : RequestReserve(q)'
        BY <1>0, <2>8, <2>9, OthersReserve DEF Keeps
    <2>11. SeedReserve(c)'
        BY <2>8 DEF SeedReserve, Additions
    <2>12. Apart'
        BY <2>8 DEF Keeps, Reserve, Apart
    <2> QED BY <1>0, <2>7, <2>10, <2>11, <2>12 DEF Keeps, Reserve
<1> QED BY <1>1, <1>2

LEMMA SeedKeeps ==
    ASSUME Shapes, Keeps, NEW c \in Container, SeedStep(c) \/ Restart(c)
    PROVE  Keeps'
<1>0. /\ c \in Session /\ SeedReserve(c) /\ Apart /\ Unique
      /\ TableTypes /\ SeedTypes
    BY RequestsAreSessions DEF Keeps, Reserve, Shapes
<1>1. CASE SelectLegacy(c)
    <2> DEFINE todo == {[id |-> i, row |-> users[i]] :
                          i \in {j \in Id : users[j] # None /\ users[j].email \in DOMAIN Renamed}}
               next == [pc |-> "migrate", plan |-> {}, todo |-> todo]
    <2>1. /\ seed' = [seed EXCEPT ![c] = next] /\ UNCHANGED <<users, request, changes>>
          /\ seed[c].pc = "start"
        BY <1>1 DEF SelectLegacy
    <2>2. Repairs(todo, {})
        BY <1>0 DEF Repairs, Unique
    <2> HIDE DEF todo
    <2>3. /\ seed'[c].pc = "migrate" /\ seed'[c].plan = {} /\ seed'[c].todo = todo
          /\ \A d \in Container \ {c} : seed'[d] = seed[d]
        BY <1>0, <2>1 DEF SeedTypes
    <2>4. SeedReserve(c)'
        BY <1>0, <2>1, <2>2, <2>3 DEF SeedReserve, Repairs
    <2>5. Apart'
        BY <1>0, <2>3 DEF Apart
    <2> QED BY <2>1, <2>3, <2>4, <2>5, QuietSeed
<1>2. ASSUME NEW x \in seed[c].todo, Migrate(c, x) PROVE Keeps'
    <2> DEFINE replacement == Renamed[x.row.email]
               repaired == IF Holding(replacement) = {}
                           THEN [x.row EXCEPT !.email = replacement]
                           ELSE [x.row EXCEPT !.is_deleted = TRUE, !.is_active = FALSE]
               change == Change(x.id, repaired, {f \in DOMAIN x.row : repaired[f] # x.row[f]})
               todo == seed[c].todo \ {x}
               plan == seed[c].plan \cup {change}
    <2>1. /\ seed' = [seed EXCEPT ![c].todo = @ \ {x}, ![c].plan = @ \cup {change}]
          /\ seed[c].pc = "migrate" /\ UNCHANGED <<users, request, changes>>
        BY <1>2 DEF Migrate
    <2>2. /\ seed'[c].pc = "migrate" /\ seed'[c].todo = todo /\ seed'[c].plan = plan
          /\ \A d \in Container \ {c} : seed'[d] = seed[d]
        BY <1>0, <2>1 DEF SeedTypes
    <2>3. Repairs(seed[c].todo, seed[c].plan)
        BY <1>0, <2>1 DEF SeedReserve
    <2>4. /\ change.id = x.id
          /\ change.row.email \in {replacement, x.row.email}
        <3>1. x.row \in User
            BY <1>0, <2>1 DEF SeedTypes, Legacy
        <3> QED BY <3>1 DEF Change, User
    <2> HIDE DEF change
    <2>5. Repairs(todo, plan)
        <3>1. /\ x.row.email \in DOMAIN Renamed /\ users[x.id] # None
              /\ replacement \notin DOMAIN Renamed
            BY <2>3, Addresses DEF Repairs
        <3>2. ASSUME NEW y \in seed[c].plan PROVE y.id # change.id /\ y.row.email # change.row.email
            BY <2>3, <2>4 DEF Repairs
        <3>3. ASSUME NEW z \in todo
              PROVE  /\ z.row.email \in DOMAIN Renamed /\ Renamed[z.row.email] \notin DOMAIN Renamed
                     /\ z.id # x.id /\ z.row.email # x.row.email
                     /\ Renamed[z.row.email] # replacement
            BY <2>3, <3>1, Addresses DEF Repairs
        <3>4. ASSUME NEW z \in todo
              PROVE  /\ z.id # change.id /\ z.row.email # change.row.email
                     /\ Renamed[z.row.email] # change.row.email
            BY <2>4, <3>1, <3>3
        <3> QED BY <2>3, <2>4, <3>1, <3>2, <3>4 DEF Repairs
    <2> HIDE DEF todo, plan
    <2>6. SeedReserve(c)'
        BY <1>0, <2>1, <2>2, <2>5 DEF SeedReserve, Repairs
    <2>7. Apart'
        BY <1>0, <2>2 DEF Apart
    <2> QED BY <2>1, <2>2, <2>6, <2>7, QuietSeed
<1>3. ASSUME NEW u \in seed[c].todo, SeedUser(c, u) PROVE Keeps'
    <2> DEFINE id == CHOOSE i \in Unused : TRUE
               exists == Holding(u.email) # {} \/ \E x \in changes[c] : x.row.email = u.email
               change == Change(id, u, DOMAIN u)
               todo == seed[c].todo \ {u}
               plan == IF exists THEN seed[c].plan ELSE seed[c].plan \cup {change}
    <2>1. /\ seed' = [seed EXCEPT ![c].todo = @ \ {u}, ![c].plan = plan]
          /\ seed[c].pc = "users" /\ UNCHANGED <<users, request, changes>>
        BY <1>0, <1>3 DEF SeedUser, SeedTypes
    <2>2. /\ seed'[c].pc = "users" /\ seed'[c].todo = todo /\ seed'[c].plan = plan
          /\ \A d \in Container \ {c} : seed'[d] = seed[d]
        BY <1>0, <2>1 DEF SeedTypes
    <2>3. Additions(seed[c].todo, seed[c].plan)
        BY <1>0, <2>1 DEF SeedReserve
    <2>4. /\ seed[c].todo \subseteq USERS
          /\ u \in User /\ DOMAIN u = Column
        BY <1>0, <2>1, Accounted, ColumnsOfUser DEF SeedTypes
    <2>5. ~exists => /\ id \in Id /\ users[id] = None
                     /\ \A s \in Session : \A x \in changes[s] : x.id # id
                     /\ \A d \in Container : \A x \in seed[d].plan : x.id # id
        BY <1>3, UnusedIsFree DEF SeedUser
    <2>6. change.id = id /\ change.row = u /\ "email" \in change.written
        BY <2>4 DEF Change, Column
    <2> HIDE DEF id, exists, change
    <2>7. Additions(todo, plan)
        <3>1. \A v \in todo : v.email # u.email
            BY <2>4, Accounted
        <3> QED BY <2>3, <2>5, <2>6, <3>1 DEF Additions
    <2>8. \A d \in Container \ {c} : \A y \in seed[d].plan : \A x \in plan :
              seed[d].pc = "users" => x.id # y.id
        BY <1>0, <2>1, <2>5, <2>6 DEF Apart
    <2> HIDE DEF todo, plan
    <2>9. SeedReserve(c)'
        <3>1. Additions(seed'[c].todo, seed'[c].plan)
            BY <2>2, <2>7
        <3>2. seed'[c].pc = "users" /\ UNCHANGED <<users, changes>>
            BY <2>1, <2>2
        <3> QED BY <3>1, <3>2 DEF SeedReserve, Additions
    <2>10. Apart'
        BY <1>0, <2>2, <2>8 DEF Apart
    <2> QED BY <2>1, <2>2, <2>9, <2>10, QuietSeed
<1>4. CASE FlushMigration(c)
    <2> DEFINE next == [pc |-> "users", todo |-> USERS, plan |-> {}]
    <2>1. next \in Starts /\ next.plan = {} /\ next.pc = "users"
        BY DEF Starts
    <2> QED BY <1>4, <2>1, FlushingSeed DEF FlushMigration
<1>5. CASE FlushUsers(c)
    <2> DEFINE next == [pc |-> "flushed", todo |-> {}, plan |-> {}]
    <2>1. next \in Starts /\ next.plan = {} /\ next.pc = "flushed"
        BY DEF Starts
    <2> QED BY <1>5, <2>1, FlushingSeed DEF FlushUsers
<1>6. CASE CommitSeed(c)
    <2>1. /\ CommitChanges(c) /\ seed' = [seed EXCEPT ![c].pc = "done"]
          /\ request' = Overtake(c) /\ seed[c].pc = "flushed"
        BY <1>6 DEF CommitSeed
    <2>2. /\ seed'[c].pc = "done" /\ seed'[c].plan = {}
          /\ \A d \in Container \ {c} : seed'[d] = seed[d]
        BY <1>0, <2>1 DEF SeedTypes, SeedReserve
    <2>3. changes'[c] = {}
        BY <1>0, <2>1, CommitWrites DEF TableTypes
    <2>4. SeedReserve(c)' /\ Apart'
        BY <1>0, <2>2, <2>3 DEF SeedReserve, Apart
    <2>5. \A r \in Request \ {c} :
              request'[r].pc = request[r].pc /\ request'[r].id = request[r].id
        BY <1>0, <2>1, OvertakeTypes DEF Shapes
    <2>6. c \notin Request
        BY Addresses
    <2> QED BY <1>0, <2>1, <2>2, <2>4, <2>5, <2>6, CommittingKeeps
<1>7. CASE Restart(c)
    BY <1>7, StartsAgain DEF Restart
<1> QED BY <1>1, <1>2, <1>3, <1>4, <1>5, <1>6, <1>7 DEF SeedStep

LEMMA ReconfigureKeeps ==
    ASSUME Shapes, Keeps, Reconfigure
    PROVE  Keeps'
<1>1. /\ request' = [r \in Request |-> NoRequest] /\ UNCHANGED <<users, seed>>
      /\ changes' = [s \in Session |-> IF s \in Request THEN {} ELSE changes[s]]
    BY DEF Reconfigure
<1>2. /\ \A s \in Session : changes'[s] \subseteq changes[s]
      /\ \A r \in Request : changes'[r] = {}
      /\ \A c \in Container : changes'[c] = changes[c]
    BY <1>1, Addresses, RequestsAreSessions
<1>3. Unique' /\ Claims'
    BY <1>1, <1>2, DropKeeps DEF Keeps
<1>4. ASSUME NEW r \in Request PROVE RequestReserve(r)'
    BY <1>1, <1>2, IdleRequest DEF RequestReserve
<1>5. ASSUME NEW c \in Container PROVE SeedReserve(c)'
    <2>1. SeedReserve(c) /\ seed'[c] = seed[c] /\ changes'[c] = changes[c] /\ users' = users
        BY <1>1, <1>2 DEF Keeps, Reserve
    <2>2. Repairs(seed[c].todo, seed[c].plan) => Repairs(seed[c].todo, seed[c].plan)'
        BY <2>1 DEF Repairs
    <2>3. Additions(seed[c].todo, seed[c].plan) => Additions(seed[c].todo, seed[c].plan)'
        BY <1>2, <2>1 DEF Additions
    <2> QED BY <2>1, <2>2, <2>3 DEF SeedReserve
<1>6. Apart'
    BY <1>1 DEF Keeps, Reserve, Apart
<1> QED BY <1>3, <1>4, <1>5, <1>6 DEF Keeps, Reserve

\* A step that leaves sessions and rows alone.
LEMMA SameKeeps ==
    ASSUME Keeps, UNCHANGED <<users, request, seed, changes>>
    PROVE  Keeps'
<1>1. Unique' /\ Claims'
    BY DropKeeps DEF Keeps
<1>2. Reserve'
    BY DEF Keeps, Reserve, SeedReserve, RequestReserve, Apart, Repairs, Additions
<1> QED BY <1>1, <1>2 DEF Keeps

-----------------------------------------------------------------------------

Registered == Shapes /\ Keeps

LEMMA TokensOnly ==
    ASSUME \/ \E email \in Email, password \in Password :
                 Login(email, password) \/ LoginFailed(email, password)
           \/ \E token \in tokens : Refresh(token)
    PROVE  UNCHANGED <<users, request, seed, changes>>
BY DEF Login, LoginFailed, CountLogin, Refresh

LEMMA NextRegistered ==
    ASSUME Registered, [Next]_vars
    PROVE  Registered'
<1>0. Shapes /\ Keeps
    BY DEF Registered
<1>1. CASE \/ \E email \in Email \ DOMAIN Renamed, password \in Password :
                 Login(email, password) \/ LoginFailed(email, password)
           \/ \E token \in tokens : Refresh(token)
    <2>1. Shapes'
        BY <1>0, <1>1, TokenShapes
    <2>2. Keeps'
        BY <1>0, <1>1, TokensOnly, SameKeeps
    <2> QED BY <2>1, <2>2 DEF Registered
<1>2. ASSUME NEW r \in Request, RequestStep(r) \/ Ends(r) PROVE Registered'
    <2>1. Shapes'
        BY <1>0, <1>2, PrincipalShapes, WorkShapes, EndShapes DEF RequestStep, Ends
    <2>2. Keeps'
        BY <1>0, <1>2, RequestKeeps, CommitRequestKeeps DEF Ends
    <2> QED BY <2>1, <2>2 DEF Registered
<1>3. ASSUME NEW c \in Container, SeedStep(c) \/ Restart(c) PROVE Registered'
    <2>1. LegacyRead
        BY <1>0 DEF LegacyRead, Keeps, Reserve, SeedReserve, Repairs
    <2>2. Shapes' /\ Keeps'
        BY <1>0, <1>3, <2>1, SeedShapes, SeedKeeps
    <2> QED BY <2>2 DEF Registered
<1>4. CASE Reconfigure
    BY <1>0, <1>4, EndShapes, ReconfigureKeeps DEF Registered
<1>5. CASE UNCHANGED vars
    <2>1. Keeps'
        BY <1>0, <1>5, SameKeeps DEF vars
    <2>2. TableTypes' /\ TokenTypes' /\ SeedTypes' /\ TrailTypes'
        BY <1>0, <1>5 DEF Shapes, TableTypes, TokenTypes, SeedTypes, TrailTypes, vars
    <2>3. RequestTypes' /\ RequestFacts'
        BY <1>0, <1>5 DEF Shapes, RequestTypes, RequestFacts, vars
    <2> QED BY <2>1, <2>2, <2>3 DEF Registered, Shapes
<1> QED BY <1>1, <1>2, <1>3, <1>4, <1>5 DEF Next

THEOREM AlwaysRegistered == Spec => []Registered
<1>1. Init => Registered
    BY InitShapes, InitReserve DEF Registered, Keeps
<1>2. Registered /\ [Next]_vars => Registered'
    BY NextRegistered
<1> QED BY <1>1, <1>2, PTL DEF Spec

\* Shapes; no two rows share an email, whatever sessions overlap, deleted rows included.
THEOREM TypeCorrect == Spec => []TypeOK
<1>1. Registered => TypeOK
    <2> SUFFICES ASSUME Registered PROVE TypeOK
        OBVIOUS
    <2>1. /\ users \in [Id -> User \cup {None}]
          /\ \A t \in tokens : t.sub \in Id /\ users[t.sub] # None /\ t.role \in Role
        BY DEF Registered, Shapes, TableTypes, TokenTypes
    <2>2. \A s \in Session : \A x \in changes[s] : x.id \in Id /\ x.row \in User
        BY DEF Registered, Shapes, TableTypes, Changed
    <2>3. \A c \in Container : \A x \in seed[c].plan : x.id \in Id /\ x.row \in User
        BY DEF Registered, Shapes, SeedTypes, Changed
    <2>4. \A r \in Request : request[r].role \in Role \cup {None}
        BY DEF Registered, Shapes, RequestTypes, Asking
    <2>5. Unique
        BY DEF Registered, Keeps
    <2> QED BY <2>1, <2>2, <2>3, <2>4, <2>5 DEF TypeOK, Unique
<1> QED BY <1>1, AlwaysRegistered, PTL

-----------------------------------------------------------------------------
(* What becomes of a row *)

\* The new address of a row is the replacement of a legacy one.
Renaming(id, email) ==
    /\ email \notin DOMAIN Renamed /\ email # SYSTEM_USER_EMAIL
    /\ \/ users[id].email = email
       \/ users[id].email \in DOMAIN Renamed /\ Renamed[users[id].email] = email

\* What a change may do to a row that exists.
Kept(x) ==
    users[x.id] # None =>
        /\ "is_system" \notin x.written
        /\ "is_deleted" \in x.written => x.row.is_deleted
        /\ "email" \in x.written => Renaming(x.id, x.row.email)

Fresh(x) == users[x.id] = None => x.row.email \notin DOMAIN Renamed

Sound(x) == Kept(x) /\ Fresh(x)

\* A row that a seed has read and not repaired yet.
Stale(x) ==
    /\ users[x.id].email \in {x.row.email, Renamed[x.row.email]}
    /\ x.row.is_deleted => users[x.id].is_deleted

Writes ==
    /\ \A s \in Session : \A x \in changes[s] : Sound(x)
    /\ \A c \in Container : \A x \in seed[c].plan : Sound(x)
    /\ \A c \in Container : seed[c].pc = "migrate" => \A x \in seed[c].todo : Stale(x)

\* A row is what it was, a deleted one stays deleted, and only a legacy address changes.
Follows(i) ==
    users[i] # None =>
        /\ users'[i] # None
        /\ users'[i].is_system = users[i].is_system
        /\ users[i].is_deleted => users'[i].is_deleted
        /\ \/ users'[i].email = users[i].email
           \/ users[i].email \in DOMAIN Renamed /\ users'[i].email = Renamed[users[i].email]

Born(i) == users[i] = None /\ users'[i] # None => users'[i].email \notin DOMAIN Renamed

Grows == \A i \in Id : Follows(i) /\ Born(i)

LEMMA SameGrows == UNCHANGED users => Grows
BY DEF Grows, Follows, Born

LEMMA CommitGrows ==
    ASSUME TableTypes, Writes, NEW s \in Session, CommitChanges(s)
    PROVE  Grows
<1> SUFFICES ASSUME NEW i \in Id PROVE Follows(i) /\ Born(i)
    BY DEF Grows
<1>1. CASE users'[i] = users[i]
    BY <1>1 DEF Follows, Born
<1>2. ASSUME NEW x \in changes[s], x.id = i, users'[i] = Merge(x)
      PROVE  Follows(i) /\ Born(i)
    <2>1. x \in Changed /\ Sound(x)
        BY DEF TableTypes, Writes
    <2>2. CASE users[i] = None
        <3>1. users'[i] = x.row
            BY <1>2, <2>1, <2>2, MergeIsUser
        <3> QED BY <1>2, <2>1, <2>2, <3>1 DEF Follows, Born, Sound, Fresh
    <2>3. CASE users[i] # None
        <3>1. /\ Merge(x) \in User
              /\ \A c \in Column :
                    Merge(x)[c] = IF c \in x.written THEN x.row[c] ELSE users[i][c]
            BY <1>2, <2>1, <2>3, MergeIsUser
        <3>2. /\ users'[i].email = IF "email" \in x.written THEN x.row.email ELSE users[i].email
              /\ users'[i].is_system =
                    IF "is_system" \in x.written THEN x.row.is_system ELSE users[i].is_system
              /\ users'[i].is_deleted =
                    IF "is_deleted" \in x.written THEN x.row.is_deleted ELSE users[i].is_deleted
            BY <1>2, <3>1 DEF Column
        <3>3. users'[i] # None
            BY <1>2, <3>1, NoneIsNobody
        <3> QED BY <1>2, <2>1, <2>3, <3>2, <3>3 DEF Follows, Born, Sound, Kept, Renaming
    <2> QED BY <2>2, <2>3
<1> QED BY <1>1, <1>2, CommitWrites

LEMMA KeptFollows ==
    ASSUME NEW x, x.id \in Id, Grows, Sound(x),
           users[x.id] # None \/ users'[x.id] = users[x.id]
    PROVE  Sound(x)'
<1>1. CASE users'[x.id] = users[x.id]
    BY <1>1 DEF Sound, Kept, Fresh, Renaming
<1>2. CASE users[x.id] # None
    BY <1>2 DEF Grows, Follows, Sound, Kept, Fresh, Renaming
<1> QED BY <1>1, <1>2

LEMMA StaleFollows ==
    ASSUME NEW x, x.id \in Id, x.row.email \in DOMAIN Renamed, users[x.id] # None, Grows, Stale(x)
    PROVE  Stale(x)'
BY Addresses DEF Grows, Follows, Stale

\* A step that commits nothing.
LEMMA WritesStay ==
    ASSUME Writes, UNCHANGED users,
           \A s \in Session : \A x \in changes'[s] :
              x \in changes[s] \/ Sound(x),
           \A c \in Container : \A x \in seed'[c].plan : x \in seed[c].plan \/ Sound(x),
           \A c \in Container : seed'[c].pc = "migrate" => \A x \in seed'[c].todo :
              (seed[c].pc = "migrate" /\ x \in seed[c].todo) \/ Stale(x)
    PROVE  Writes'
<1>1. \A x : Sound(x)' <=> Sound(x)
    BY DEF Sound, Kept, Fresh, Renaming
<1>2. \A x : Stale(x)' <=> Stale(x)
    BY DEF Stale
<1> QED BY <1>1, <1>2 DEF Writes

LEMMA WritesCommit ==
    ASSUME Shapes, Keeps, Writes, NEW s \in Session, CommitChanges(s),
           \A c \in Container \ {s} : seed'[c] = seed[c],
           s \in Container => seed'[s].plan = {} /\ seed'[s].pc # "migrate"
    PROVE  Writes'
<1>1. Grows
    BY CommitGrows DEF Shapes
<1>2. /\ \A i \in Id :
            \/ users'[i] = users[i] /\ \A x \in changes[s] : x.id # i
            \/ \E x \in changes[s] : x.id = i /\ users'[i] = Merge(x)
      /\ changes' = [changes EXCEPT ![s] = {}]
    BY CommitWrites DEF Shapes
<1>3. ASSUME NEW t \in Session, NEW x \in changes'[t] PROVE Sound(x)'
    <2>1. x \in changes[t] /\ t # s /\ x.id \in Id
        BY <1>2 DEF Shapes, TableTypes, Changed
    <2>2. users'[x.id] = users[x.id]
        BY <1>2, <2>1 DEF Keeps, Claims
    <2> QED BY <1>1, <2>1, <2>2, KeptFollows DEF Writes
<1>4. ASSUME NEW c \in Container, NEW x \in seed'[c].plan PROVE Sound(x)'
    <2>1. c # s /\ seed'[c] = seed[c]
        BY <1>4
    <2>2. x \in seed[c].plan /\ x.id \in Id /\ SeedReserve(c) /\ Sound(x)
        BY <1>4, <2>1 DEF Shapes, SeedTypes, Changed, Keeps, Reserve, Writes
    <2>3. CASE seed[c].pc = "migrate"
        BY <1>1, <2>2, <2>3, KeptFollows DEF SeedReserve, Repairs
    <2>4. CASE seed[c].pc = "users"
        <3>1. users'[x.id] = users[x.id]
            BY <1>2, <2>2, <2>4 DEF SeedReserve, Additions
        <3> QED BY <1>1, <2>2, <3>1, KeptFollows
    <2> QED BY <2>2, <2>3, <2>4 DEF SeedReserve
<1>5. ASSUME NEW c \in Container, seed'[c].pc = "migrate", NEW x \in seed'[c].todo
      PROVE  Stale(x)'
    <2>1. c # s /\ seed'[c] = seed[c]
        BY <1>5
    <2>2. x.id \in Id /\ SeedReserve(c) /\ Stale(x)
        BY <1>5, <2>1 DEF Shapes, SeedTypes, Legacy, Keeps, Reserve, Writes
    <2>3. x.row.email \in DOMAIN Renamed /\ users[x.id] # None
        BY <1>5, <2>1, <2>2 DEF SeedReserve, Repairs
    <2> QED BY <1>1, <2>2, <2>3, StaleFollows
<1> QED BY <1>3, <1>4, <1>5 DEF Writes

\* Requests change nothing that the others need.
LEMMA RequestWrites ==
    ASSUME Shapes, Keeps, Writes, NEW r \in Request, RequestStep(r) \/ Abort(r)
    PROVE  /\ UNCHANGED <<users, seed>>
           /\ \A s \in Session \ {r} : changes'[s] = changes[s]
           /\ \A x \in changes'[r] : x \in changes[r] \/ Sound(x)
<1>0. /\ RequestReserve(r) /\ RequestTypes /\ RequestFacts /\ TableTypes
      /\ r \in Session
    BY RequestsAreSessions DEF Keeps, Reserve, Shapes
<1> DEFINE Goal == /\ UNCHANGED <<users, seed>>
                   /\ \A s \in Session \ {r} : changes'[s] = changes[s]
                   /\ \A x \in changes'[r] : x \in changes[r] \/ Sound(x)
<1>1. ASSUME UNCHANGED <<users, seed, changes>> PROVE Goal
    BY <1>1
<1>2. ASSUME NEW x, Sound(x), UNCHANGED <<users, seed>>,
             \/ changes' = [changes EXCEPT ![r] = @ \cup {x}]
             \/ changes' = [changes EXCEPT ![r] = {x}]
      PROVE  Goal
    BY <1>0, <1>2 DEF TableTypes
<1>3. ASSUME NEW x, users[x.id] = None, x.row.email \notin DOMAIN Renamed PROVE Sound(x)
    BY <1>3 DEF Sound, Kept, Fresh
<1> HIDE DEF Goal
<1>4. CASE (\E token \in tokens : Authenticate(r, token)) \/ FindPrincipal(r)
    BY <1>1, <1>4 DEF Authenticate, FindPrincipal, BeginRequest
<1>5. CASE \/ RereadPrincipal(r) \/ Work(r) \/ \E id \in Id : GetUser(r, id)
    BY <1>1, <1>5 DEF RereadPrincipal, Work, GetUser
<1>6. CASE InsertPrincipal(r)
    <2> DEFINE id == CHOOSE i \in Unused : TRUE
               x == Change(id, Principal, DOMAIN Principal)
    <2>1. x.row = Principal /\ x.id = id /\ users[id] = None
        BY <1>6, UnusedIsFree DEF InsertPrincipal, Change
    <2>2. /\ changes' = [changes EXCEPT ![r] = {x}] /\ UNCHANGED <<users, seed>>
        BY <1>6 DEF InsertPrincipal
    <2> HIDE DEF x, id
    <2>3. Sound(x)
        BY <1>3, <2>1, Addresses DEF Principal
    <2> QED BY <1>2, <2>2, <2>3
<1>7. ASSUME NEW draft \in Drafts, CreateUser(r, draft) PROVE Goal
    <2> DEFINE id == CHOOSE i \in Unused : TRUE
               x == Change(id, draft, DOMAIN draft)
    <2>1. x.row = draft /\ x.id = id /\ users[id] = None
        BY <1>7, UnusedIsFree DEF CreateUser, Change
    <2>2. /\ changes' = [changes EXCEPT ![r] = @ \cup {x}] /\ UNCHANGED <<users, seed>>
        BY <1>7 DEF CreateUser
    <2> HIDE DEF x, id
    <2>3. Sound(x)
        BY <1>3, <2>1, Accounted
    <2> QED BY <1>2, <2>2, <2>3
<1>8. ASSUME NEW patch \in Patches, UpdateUser(r, patch) PROVE Goal
    <2> DEFINE q == request[r]
               row == [c \in DOMAIN q.row |-> IF c \in DOMAIN patch THEN patch[c] ELSE q.row[c]]
               written == {c \in DOMAIN row : row[c] # q.row[c]}
                              \cup ({"password"} \cap DOMAIN patch)
               x == Change(q.id, row, written)
    <2>1. q.pc = "loaded" /\ q.id \in Id /\ q.row \in User /\ users[q.id] # None
        BY <1>0, <1>8 DEF UpdateUser, RequestFacts, RequestReserve
    <2>2. \A c \in {"email", "is_system", "is_deleted"} : c \notin written
        BY <2>1, PatchIsUser
    <2>3. x.id = q.id /\ x.written = written
        BY DEF Change
    <2>4. changes' = [changes EXCEPT ![r] = IF written = {} THEN @ ELSE @ \cup {x}]
          /\ UNCHANGED <<users, seed>>
        BY <1>8 DEF UpdateUser
    <2> HIDE DEF x, row, written
    <2>5. Sound(x)
        BY <2>1, <2>2, <2>3 DEF Sound, Kept, Fresh
    <2>6. CASE written = {}
        <3>1. changes' = changes
            BY <1>0, <2>4, <2>6 DEF TableTypes
        <3> QED BY <1>1, <2>4, <3>1
    <2>7. CASE written # {}
        <3>1. changes' = [changes EXCEPT ![r] = @ \cup {x}]
            BY <2>4, <2>7
        <3> QED BY <1>2, <2>4, <2>5, <3>1
    <2> QED BY <2>6, <2>7
<1>9. CASE Abort(r)
    <2>1. changes' = [changes EXCEPT ![r] = {}] /\ UNCHANGED <<users, seed>>
        BY <1>9 DEF Abort
    <2> QED BY <1>0, <2>1 DEF Goal, TableTypes
<1> QED BY <1>4, <1>5, <1>6, <1>7, <1>8, <1>9 DEF RequestStep, Goal

\* What a seed plans for a legacy row is sound.
LEMMA RepairIsSound ==
    ASSUME Shapes, Keeps, Writes, NEW c \in Container, NEW x \in seed[c].todo, Migrate(c, x)
    PROVE  LET repaired == IF Holding(Renamed[x.row.email]) = {}
                           THEN [x.row EXCEPT !.email = Renamed[x.row.email]]
                           ELSE [x.row EXCEPT !.is_deleted = TRUE, !.is_active = FALSE]
               change == Change(x.id, repaired, {f \in DOMAIN x.row : repaired[f] # x.row[f]})
           IN  /\ x.row \in User /\ change.id = x.id
               /\ \/ /\ "email" \in change.written
                     /\ change.row.email = Renamed[x.row.email]
                  \/ /\ change.row.email = x.row.email
                     /\ change.row.is_deleted
                     /\ x.row.is_deleted \/ "is_deleted" \in change.written
               /\ Sound(change)
<1> DEFINE repaired == IF Holding(Renamed[x.row.email]) = {}
                       THEN [x.row EXCEPT !.email = Renamed[x.row.email]]
                       ELSE [x.row EXCEPT !.is_deleted = TRUE, !.is_active = FALSE]
           written == {f \in DOMAIN x.row : repaired[f] # x.row[f]}
           change == Change(x.id, repaired, written)
<1>1. /\ x.row \in User /\ x.id \in Id /\ x.row.email \in DOMAIN Renamed
      /\ users[x.id] # None /\ Stale(x)
    BY DEF Migrate, Shapes, SeedTypes, Legacy, Keeps, Reserve, SeedReserve, Repairs, Writes
<1>2. change.id = x.id /\ change.row = repaired /\ change.written = written
    BY DEF Change
<1>3. CASE Holding(Renamed[x.row.email]) = {}
    <2>1. /\ repaired.email = Renamed[x.row.email] /\ written = {"email"}
        BY <1>1, <1>3, Addresses DEF User
    <2>2. Sound(change)
        BY <1>1, <1>2, <2>1, Addresses DEF Stale, Sound, Kept, Fresh, Renaming
    <2> QED BY <1>1, <1>2, <2>1, <2>2
<1>4. CASE Holding(Renamed[x.row.email]) # {}
    <2>1. /\ repaired.email = x.row.email /\ repaired.is_deleted
          /\ written \subseteq {"is_deleted", "is_active"}
          /\ x.row.is_deleted \/ "is_deleted" \in written
        BY <1>1, <1>4 DEF User
    <2>2. Sound(change)
        BY <1>1, <1>2, <2>1 DEF Sound, Kept, Fresh
    <2> QED BY <1>1, <1>2, <2>1, <2>2
<1> QED BY <1>3, <1>4

LEMMA SeedWrites ==
    ASSUME Shapes, Keeps, Writes, NEW c \in Container, SeedStep(c) \/ Restart(c)
    PROVE  Writes'
<1>0. /\ c \in Session /\ SeedReserve(c) /\ TableTypes /\ SeedTypes
    BY RequestsAreSessions DEF Keeps, Reserve, Shapes
<1>1. ASSUME UNCHANGED users, \A d \in Container \ {c} : seed'[d] = seed[d],
             \A s \in Session \ {c} : changes'[s] = changes[s],
             \A x \in changes'[c] : x \in changes[c] \/ x \in seed[c].plan,
             \A x \in seed'[c].plan : x \in seed[c].plan \/ Sound(x),
             seed'[c].pc = "migrate" => \A x \in seed'[c].todo :
                (seed[c].pc = "migrate" /\ x \in seed[c].todo) \/ Stale(x)
      PROVE  Writes'
    <2>1. \A s \in Session : \A x \in changes'[s] : x \in changes[s] \/ Sound(x)
        BY <1>1 DEF Writes
    <2>2. \A d \in Container : \A x \in seed'[d].plan : x \in seed[d].plan \/ Sound(x)
        BY <1>1
    <2>3. \A d \in Container : seed'[d].pc = "migrate" => \A x \in seed'[d].todo :
              (seed[d].pc = "migrate" /\ x \in seed[d].todo) \/ Stale(x)
        BY <1>1
    <2> QED BY <1>1, <2>1, <2>2, <2>3, WritesStay
<1>2. CASE SelectLegacy(c)
    <2> DEFINE todo == {[id |-> i, row |-> users[i]] :
                          i \in {j \in Id : users[j] # None /\ users[j].email \in DOMAIN Renamed}}
               next == [pc |-> "migrate", plan |-> {}, todo |-> todo]
    <2>1. /\ seed' = [seed EXCEPT ![c] = next] /\ UNCHANGED <<users, changes>>
        BY <1>2 DEF SelectLegacy
    <2>2. \A x \in todo : Stale(x)
        BY DEF Stale
    <2> HIDE DEF todo
    <2>3. /\ seed'[c].plan = {} /\ seed'[c].todo = todo
          /\ \A d \in Container \ {c} : seed'[d] = seed[d]
        BY <1>0, <2>1 DEF SeedTypes
    <2> QED BY <1>1, <2>1, <2>2, <2>3
<1>3. ASSUME NEW x \in seed[c].todo, Migrate(c, x) PROVE Writes'
    <2> DEFINE repaired == IF Holding(Renamed[x.row.email]) = {}
                           THEN [x.row EXCEPT !.email = Renamed[x.row.email]]
                           ELSE [x.row EXCEPT !.is_deleted = TRUE, !.is_active = FALSE]
               change == Change(x.id, repaired, {f \in DOMAIN x.row : repaired[f] # x.row[f]})
    <2>1. /\ seed' = [seed EXCEPT ![c].todo = @ \ {x}, ![c].plan = @ \cup {change}]
          /\ seed[c].pc = "migrate" /\ UNCHANGED <<users, changes>>
        BY <1>3 DEF Migrate
    <2>2. Sound(change)
        BY <1>3, RepairIsSound
    <2> HIDE DEF change
    <2>3. /\ seed'[c].todo = seed[c].todo \ {x} /\ seed'[c].plan = seed[c].plan \cup {change}
          /\ \A d \in Container \ {c} : seed'[d] = seed[d]
        BY <1>0, <2>1 DEF SeedTypes
    <2> QED BY <1>1, <2>1, <2>2, <2>3
<1>4. ASSUME NEW u \in seed[c].todo, SeedUser(c, u) PROVE Writes'
    <2> DEFINE id == CHOOSE i \in Unused : TRUE
               change == Change(id, u, DOMAIN u)
               exists == Holding(u.email) # {} \/ \E x \in changes[c] : x.row.email = u.email
               plan == IF exists THEN seed[c].plan ELSE seed[c].plan \cup {change}
    <2>1. /\ seed' = [seed EXCEPT ![c].todo = @ \ {u}, ![c].plan = plan]
          /\ seed[c].pc = "users" /\ UNCHANGED <<users, changes>>
        BY <1>0, <1>4 DEF SeedUser, SeedTypes
    <2>2. change.id = id /\ change.row = u /\ u \in USERS
        BY <1>0, <2>1 DEF Change, SeedTypes
    <2>3. ~exists => users[id] = None
        BY <1>4, UnusedIsFree DEF SeedUser
    <2> HIDE DEF id, exists, change
    <2>4. \A x \in plan : x \in seed[c].plan \/ Sound(x)
        BY <2>2, <2>3, Accounted DEF Sound, Kept, Fresh
    <2> HIDE DEF plan
    <2>5. /\ seed'[c].pc = "users" /\ seed'[c].plan = plan
          /\ \A d \in Container \ {c} : seed'[d] = seed[d]
        BY <1>0, <2>1 DEF SeedTypes
    <2> QED BY <1>1, <2>1, <2>4, <2>5
<1>5. ASSUME NEW next \in Starts, Flush(c, next), next.plan = {}, next.pc # "migrate"
      PROVE  Writes'
    <2>1. /\ \/ seed' = [seed EXCEPT ![c] = Starting] /\ changes' = [changes EXCEPT ![c] = {}]
             \/ /\ seed' = [seed EXCEPT ![c] = next]
                /\ changes' = [changes EXCEPT ![c] = @ \cup {x \in seed[c].plan : x.written # {}}]
          /\ UNCHANGED users
        BY <1>5 DEF Flush
    <2>2. /\ seed'[c].plan = {} /\ seed'[c].pc # "migrate"
          /\ \A d \in Container \ {c} : seed'[d] = seed[d]
        BY <1>0, <1>5, <2>1 DEF SeedTypes, Starting
    <2>3. /\ \A s \in Session \ {c} : changes'[s] = changes[s]
          /\ \A x \in changes'[c] : x \in changes[c] \/ x \in seed[c].plan
        BY <1>0, <2>1 DEF TableTypes
    <2> QED BY <1>1, <2>1, <2>2, <2>3
<1>6. CASE FlushMigration(c)
    <2> DEFINE next == [pc |-> "users", todo |-> USERS, plan |-> {}]
    <2>1. next \in Starts /\ next.plan = {} /\ next.pc = "users"
        BY DEF Starts
    <2> QED BY <1>5, <1>6, <2>1 DEF FlushMigration
<1>7. CASE FlushUsers(c)
    <2> DEFINE next == [pc |-> "flushed", todo |-> {}, plan |-> {}]
    <2>1. next \in Starts /\ next.plan = {} /\ next.pc = "flushed"
        BY DEF Starts
    <2> QED BY <1>5, <1>7, <2>1 DEF FlushUsers
<1>8. CASE CommitSeed(c)
    <2>1. CommitChanges(c) /\ seed' = [seed EXCEPT ![c].pc = "done"] /\ seed[c].pc = "flushed"
        BY <1>8 DEF CommitSeed
    <2>2. /\ seed'[c].pc = "done" /\ seed'[c].plan = {}
          /\ \A d \in Container \ {c} : seed'[d] = seed[d]
        BY <1>0, <2>1 DEF SeedTypes, SeedReserve
    <2> QED BY <1>0, <2>1, <2>2, WritesCommit
<1>9. CASE Restart(c)
    <2>1. /\ seed' = [seed EXCEPT ![c] = Starting] /\ changes' = [changes EXCEPT ![c] = {}]
          /\ UNCHANGED users
        BY <1>9 DEF Restart
    <2>2. /\ seed'[c].plan = {} /\ seed'[c].pc # "migrate"
          /\ \A d \in Container \ {c} : seed'[d] = seed[d]
          /\ changes'[c] = {} /\ \A s \in Session \ {c} : changes'[s] = changes[s]
        BY <1>0, <2>1 DEF SeedTypes, TableTypes, Starting
    <2> QED BY <1>1, <2>1, <2>2
<1> QED BY <1>2, <1>3, <1>4, <1>6, <1>7, <1>8, <1>9 DEF SeedStep

LEMMA NextWrites ==
    ASSUME Registered, Writes, [Next]_vars
    PROVE  Writes' /\ Grows
<1>0. Shapes /\ Keeps /\ TableTypes
    BY DEF Registered, Shapes
<1>1. ASSUME UNCHANGED <<users, seed>>, \A s \in Session : \A x \in changes'[s] :
                x \in changes[s] \/ Sound(x)
      PROVE  Writes' /\ Grows
    BY <1>1, WritesStay, SameGrows
<1>2. CASE \/ \E email \in Email \ DOMAIN Renamed, password \in Password :
                 Login(email, password) \/ LoginFailed(email, password)
           \/ \E token \in tokens : Refresh(token)
    BY <1>1, <1>2, TokensOnly
<1>3. ASSUME NEW r \in Request, RequestStep(r) \/ Abort(r) PROVE Writes' /\ Grows
    <2>1. /\ UNCHANGED <<users, seed>>
          /\ \A s \in Session \ {r} : changes'[s] = changes[s]
          /\ \A x \in changes'[r] : x \in changes[r] \/ Sound(x)
        BY <1>0, <1>3, RequestWrites
    <2> QED BY <1>1, <2>1
<1>4. ASSUME NEW r \in Request, Commit(r) PROVE Writes' /\ Grows
    <2>1. CommitChanges(r) /\ UNCHANGED seed /\ r \in Session /\ r \notin Container
        BY <1>4, Addresses, RequestsAreSessions DEF Commit
    <2> QED BY <1>0, <2>1, WritesCommit, CommitGrows
<1>5. ASSUME NEW c \in Container, SeedStep(c) \/ Restart(c) PROVE Writes' /\ Grows
    <2>1. Writes'
        BY <1>0, <1>5, SeedWrites
    <2>2. UNCHANGED users \/ CommitChanges(c)
        BY <1>5 DEF SeedStep, SelectLegacy, Migrate, SeedUser, FlushMigration, FlushUsers, Flush,
                    CommitSeed, Restart
    <2> QED BY <1>0, <2>1, <2>2, SameGrows, CommitGrows, RequestsAreSessions
<1>6. CASE Reconfigure
    <2>1. \A s \in Session : changes'[s] \subseteq changes[s]
        BY <1>6 DEF Reconfigure
    <2> QED BY <1>1, <1>6, <2>1 DEF Reconfigure
<1>7. CASE UNCHANGED vars
    BY <1>1, <1>7 DEF vars
<1> QED BY <1>2, <1>3, <1>4, <1>5, <1>6, <1>7 DEF Next, Ends

-----------------------------------------------------------------------------
(* Who acts *)

Acts == {"acting", "loaded", "flushed"}

CurrentFor(r) ==
    request[r].token =>
        /\ request[r].pc \in Acts
        /\ ~request[r].overtaken =>
              LET user == users[request[r].actor]
              IN  /\ user.is_active /\ ~user.is_deleted /\ ~user.is_system
                  /\ user.role = request[r].role

\* A request knows the label of its actor, also of one that it has inserted itself.
Labelled(r) ==
    /\ request[r].pc = "missing" => AUTH_DISABLED
    /\ request[r].pc \in Acts =>
          /\ request[r].me.is_system => AUTH_DISABLED
          /\ \/ /\ users[request[r].actor] # None
                /\ users[request[r].actor].is_system = request[r].me.is_system
                /\ AUTH_DISABLED => users[request[r].actor].email = SYSTEM_USER_EMAIL
             \/ /\ request[r].me.is_system /\ users[request[r].actor] = None
                /\ \E x \in changes[r] : x.id = request[r].actor /\ x.row = Principal
    /\ request[r].pc = "flushed" =>
          /\ request[r].entry.actor = request[r].actor
          /\ request[r].entry.actor_type = "system" <=> request[r].me.is_system
          /\ request[r].entry.disabled = AUTH_DISABLED

Known(r) == CurrentFor(r) /\ Labelled(r)

LEMMA NobodyIsKnown ==
    ASSUME NEW r \in Request, request'[r] = NoRequest
    PROVE  Known(r)'
BY DEF NoRequest, Known, CurrentFor, Labelled, Acts

\* Somebody else's step.
LEMMA OthersKnown ==
    ASSUME Shapes, Grows, NEW r \in Request, Known(r), UNCHANGED AUTH_DISABLED,
           changes'[r] = changes[r], \A x \in changes[r] : users'[x.id] = users[x.id],
           request'[r].pc = request[r].pc, request'[r].actor = request[r].actor,
           request'[r].me = request[r].me, request'[r].role = request[r].role,
           request'[r].entry = request[r].entry, request'[r].token = request[r].token,
           ~request'[r].overtaken =>
              ~request[r].overtaken /\ users'[request[r].actor] = users[request[r].actor]
    PROVE  Known(r)'
<1>1. CurrentFor(r)'
    BY DEF Known, CurrentFor
<1>2. request[r].pc \in Acts => request[r].actor \in Id
    BY DEF Shapes, RequestFacts, Acts
<1>3. ASSUME request[r].pc \in Acts, users[request[r].actor] # None,
             users[request[r].actor].is_system = request[r].me.is_system,
             AUTH_DISABLED => users[request[r].actor].email = SYSTEM_USER_EMAIL
      PROVE  /\ users'[request[r].actor] # None
             /\ users'[request[r].actor].is_system = request[r].me.is_system
             /\ AUTH_DISABLED => users'[request[r].actor].email = SYSTEM_USER_EMAIL
    <2>1. Follows(request[r].actor)
        BY <1>2, <1>3 DEF Grows
    <2> QED BY <1>3, <2>1, Addresses DEF Follows
<1>4. Labelled(r)'
    BY <1>2, <1>3 DEF Known, Labelled
<1> QED BY <1>1, <1>4 DEF Known

LEMMA EntryLabel ==
    ASSUME NEW action, NEW actor \in Id, NEW is_system \in BOOLEAN, NEW resource
    PROVE  /\ Entry(action, actor, is_system, resource).actor = actor
           /\ Entry(action, actor, is_system, resource).actor_type = "system" <=> is_system
           /\ Entry(action, actor, is_system, resource).disabled = AUTH_DISABLED
BY NoneIsNobody DEF Entry

LEMMA RequestKnown ==
    ASSUME Shapes, Keeps, NEW r \in Request, Known(r), RequestStep(r)
    PROVE  /\ Known(r)' /\ UNCHANGED <<users, audit_logs, AUTH_DISABLED>>
           /\ \A q \in Request \ {r} : request'[q] = request[q] /\ changes'[q] = changes[q]
<1>0. RequestTypes /\ RequestFacts /\ TableTypes /\ r \in Session /\ RequestReserve(r)
    BY RequestsAreSessions DEF Shapes, Keeps, Reserve
<1>1. ASSUME UNCHANGED <<users, AUTH_DISABLED>>, request[r].pc \in Acts, request'[r].pc \in Acts,
             request'[r].actor = request[r].actor, request'[r].me = request[r].me,
             request'[r].role = request[r].role, request'[r].token = request[r].token,
             request'[r].overtaken = request[r].overtaken, changes[r] \subseteq changes'[r],
             request'[r].pc = "flushed" => \E action, resource : request'[r].entry =
                Entry(action, request[r].actor, request[r].me.is_system, resource)
      PROVE  Known(r)'
    <2>1. CurrentFor(r)'
        BY <1>1 DEF Known, CurrentFor
    <2>2. request'[r].pc = "flushed" =>
              /\ request'[r].entry.actor = request[r].actor
              /\ request'[r].entry.actor_type = "system" <=> request[r].me.is_system
              /\ request'[r].entry.disabled = AUTH_DISABLED
        <3>1. request[r].actor \in Id /\ request[r].me.is_system \in BOOLEAN
            BY <1>0, <1>1 DEF RequestFacts, Acts, User
        <3> QED BY <1>1, <3>1, EntryLabel
    <2>3. /\ request'[r].pc # "missing"
          /\ request[r].me.is_system => AUTH_DISABLED
          /\ \/ /\ users[request[r].actor] # None
                /\ users[request[r].actor].is_system = request[r].me.is_system
                /\ AUTH_DISABLED => users[request[r].actor].email = SYSTEM_USER_EMAIL
             \/ /\ request[r].me.is_system /\ users[request[r].actor] = None
                /\ \E x \in changes'[r] : x.id = request[r].actor /\ x.row = Principal
        BY <1>1 DEF Known, Labelled, Acts
    <2>4. Labelled(r)'
        BY <1>1, <2>2, <2>3 DEF Labelled
    <2> QED BY <2>1, <2>4 DEF Known
<1>2. ASSUME NEW action, NEW resource, Flushed(r, action, resource), request[r].pc \in Acts,
             changes[r] \subseteq changes'[r], UNCHANGED <<users, AUTH_DISABLED>>
      PROVE  Known(r)' /\ \A q \in Request \ {r} : request'[q] = request[q]
    <2>1. /\ request'[r].pc = "flushed"
          /\ request'[r].actor = request[r].actor /\ request'[r].me = request[r].me
          /\ request'[r].role = request[r].role /\ request'[r].token = request[r].token
          /\ request'[r].overtaken = request[r].overtaken
          /\ request'[r].entry =
                Entry(action, request[r].actor, request[r].me.is_system, resource)
          /\ \A q \in Request \ {r} : request'[q] = request[q]
        BY <1>0, <1>2, FlushedIsFlushed
    <2>2. request'[r].pc \in Acts
        BY <2>1 DEF Acts
    <2> QED BY <1>1, <1>2, <2>1, <2>2
<1>3. ASSUME NEW id, NEW row, NEW role, NEW token, Resolved(r, id, row, role, token)
      PROVE  /\ request'[r].pc = "acting"
             /\ request'[r].actor = id /\ request'[r].me = row /\ request'[r].role = role
             /\ request'[r].token = token
             /\ \A q \in Request \ {r} : request'[q] = request[q]
    BY <1>0, <1>3, ResolvedIsActing
<1>4. \A X : changes' = [changes EXCEPT ![r] = X] =>
        changes'[r] = X /\ \A q \in Request \ {r} : changes'[q] = changes[q]
    BY <1>0, RequestsAreSessions DEF TableTypes
<1> DEFINE Goal == /\ Known(r)' /\ UNCHANGED <<users, audit_logs, AUTH_DISABLED>>
                   /\ \A q \in Request \ {r} :
                         request'[q] = request[q] /\ changes'[q] = changes[q]
<1>5. ASSUME NEW token \in tokens, Authenticate(r, token)
      PROVE  Known(r)' /\ \A q \in Request \ {r} : request'[q] = request[q]
    <2>1. /\ ~AUTH_DISABLED /\ UNCHANGED <<users, AUTH_DISABLED>>
          /\ ~users[token.sub].is_deleted /\ users[token.sub].is_active
          /\ ~users[token.sub].is_system /\ users[token.sub] # None
        BY <1>5 DEF Authenticate, BeginRequest, Shapes, TokenTypes
    <2>2. Resolved(r, token.sub, users[token.sub], users[token.sub].role, TRUE)
        BY <1>5 DEF Authenticate
    <2>3. /\ request'[r].pc = "acting" /\ request'[r].actor = token.sub
          /\ request'[r].me = users[token.sub] /\ request'[r].role = users[token.sub].role
          /\ \A q \in Request \ {r} : request'[q] = request[q]
        BY <1>3, <2>2
    <2> QED BY <2>1, <2>3 DEF Known, CurrentFor, Labelled, Acts
<1>6. ASSUME NEW id \in Holding(SYSTEM_USER_EMAIL), AUTH_DISABLED,
             Resolved(r, id, users[id], users[id].role, FALSE), UNCHANGED <<users, AUTH_DISABLED>>
      PROVE  Known(r)' /\ \A q \in Request \ {r} : request'[q] = request[q]
    <2>1. users[id] # None /\ users[id].email = SYSTEM_USER_EMAIL
        BY DEF Holding
    <2>2. /\ request'[r].pc = "acting" /\ request'[r].actor = id
          /\ request'[r].me = users[id] /\ ~request'[r].token
          /\ \A q \in Request \ {r} : request'[q] = request[q]
        BY <1>3, <1>6
    <2> QED BY <1>6, <2>1, <2>2 DEF Known, CurrentFor, Labelled, Acts
<1> HIDE DEF Goal
<1>7. ASSUME NEW token \in tokens, Authenticate(r, token) PROVE Goal
    BY <1>5, <1>7 DEF Goal, Authenticate, BeginRequest
<1>8. CASE FindPrincipal(r)
    <2>1. /\ AUTH_DISABLED /\ UNCHANGED <<users, audit_logs, AUTH_DISABLED, changes>>
          /\ request[r].pc = "idle"
        BY <1>8 DEF FindPrincipal, BeginRequest
    <2>2. CASE request' = [request EXCEPT ![r].pc = "missing"]
        <3>1. /\ request'[r].pc = "missing" /\ request'[r].token = request[r].token
              /\ \A q \in Request \ {r} : request'[q] = request[q]
            BY <1>0, <2>2 DEF RequestTypes, Asking
        <3> QED BY <2>1, <3>1 DEF Known, CurrentFor, Labelled, Acts, Goal
    <2>3. CASE \E id \in Holding(SYSTEM_USER_EMAIL) :
                  Resolved(r, id, users[id], users[id].role, FALSE)
        BY <1>6, <2>1, <2>3 DEF Goal
    <2> QED BY <1>8, <2>2, <2>3 DEF FindPrincipal
<1>9. CASE RereadPrincipal(r)
    <2>1. /\ AUTH_DISABLED /\ UNCHANGED <<users, audit_logs, AUTH_DISABLED, changes>>
        BY <1>9 DEF RereadPrincipal, Known, Labelled
    <2> QED BY <1>6, <1>9, <2>1 DEF RereadPrincipal, Goal
<1>10. CASE InsertPrincipal(r)
    <2> DEFINE id == CHOOSE i \in Unused : TRUE
               x == Change(id, Principal, DOMAIN Principal)
    <2>1. x.row = Principal /\ x.id = id /\ users[id] = None
        BY <1>10, UnusedIsFree DEF InsertPrincipal, Change
    <2>2. /\ changes' = [changes EXCEPT ![r] = {x}]
          /\ Resolved(r, id, Principal, "admin", FALSE)
          /\ UNCHANGED <<users, audit_logs, AUTH_DISABLED>>
        BY <1>10 DEF InsertPrincipal
    <2>3. AUTH_DISABLED
        BY <1>10 DEF InsertPrincipal, Known, Labelled
    <2> HIDE DEF x, id
    <2>4. /\ request'[r].pc = "acting" /\ request'[r].actor = id
          /\ request'[r].me = Principal /\ ~request'[r].token
          /\ \A q \in Request \ {r} : request'[q] = request[q]
          /\ changes'[r] = {x} /\ \A q \in Request \ {r} : changes'[q] = changes[q]
        BY <1>3, <1>4, <2>2
    <2>5. Principal.is_system
        BY DEF Principal
    <2> QED BY <2>1, <2>2, <2>3, <2>4, <2>5 DEF Known, CurrentFor, Labelled, Acts, Goal
<1>11. CASE Work(r)
    <2>1. /\ Flushed(r, "update", None) /\ request[r].pc \in Acts
          /\ UNCHANGED <<users, audit_logs, AUTH_DISABLED, changes>>
        BY <1>11 DEF Work, Authorised, Acts
    <2> QED BY <1>2, <2>1 DEF Goal
<1>12. ASSUME NEW draft \in Drafts, CreateUser(r, draft) PROVE Goal
    <2> DEFINE id == CHOOSE i \in Unused : TRUE
               X == changes[r] \cup {Change(id, draft, DOMAIN draft)}
    <2>1. /\ Flushed(r, "create", id) /\ request[r].pc \in Acts
          /\ UNCHANGED <<users, audit_logs, AUTH_DISABLED>>
          /\ changes' = [changes EXCEPT ![r] = X]
        BY <1>0, <1>12 DEF CreateUser, Authorised, Acts, TableTypes
    <2>2. changes[r] \subseteq X
        OBVIOUS
    <2> HIDE DEF id, X
    <2>3. changes'[r] = X /\ \A q \in Request \ {r} : changes'[q] = changes[q]
        BY <1>4, <2>1
    <2> QED BY <1>2, <2>1, <2>2, <2>3 DEF Goal
<1>13. ASSUME NEW id \in Id, GetUser(r, id) PROVE Goal
    <2> DEFINE row == IF id = request[r].actor THEN request[r].me ELSE users[id]
    <2>1. /\ request[r].pc \in Acts /\ UNCHANGED <<users, audit_logs, AUTH_DISABLED, changes>>
          /\ request' = [request EXCEPT ![r].pc = "loaded", ![r].id = id, ![r].row = row]
        BY <1>13 DEF GetUser, Authorised, Acts
    <2> HIDE DEF row
    <2>2. /\ request'[r].pc = "loaded"
          /\ request'[r].actor = request[r].actor /\ request'[r].me = request[r].me
          /\ request'[r].role = request[r].role /\ request'[r].token = request[r].token
          /\ request'[r].overtaken = request[r].overtaken
          /\ \A q \in Request \ {r} : request'[q] = request[q]
        BY <1>0, <2>1 DEF RequestTypes, Asking
    <2>3. request'[r].pc \in Acts
        BY <2>2 DEF Acts
    <2> QED BY <1>1, <2>1, <2>2, <2>3 DEF Goal
<1>14. ASSUME NEW patch \in Patches, UpdateUser(r, patch) PROVE Goal
    <2> DEFINE q == request[r]
               row == [c \in DOMAIN q.row |-> IF c \in DOMAIN patch THEN patch[c] ELSE q.row[c]]
               written == {c \in DOMAIN row : row[c] # q.row[c]}
                              \cup ({"password"} \cap DOMAIN patch)
               X == IF written = {} THEN changes[r]
                    ELSE changes[r] \cup {Change(q.id, row, written)}
    <2>1. /\ Flushed(r, "update", q.id) /\ request[r].pc \in Acts
          /\ UNCHANGED <<users, audit_logs, AUTH_DISABLED>>
        BY <1>14 DEF UpdateUser, Acts
    <2>2. changes' = [changes EXCEPT ![r] = X]
        BY <1>0, <1>14 DEF UpdateUser, TableTypes
    <2>3. changes[r] \subseteq X
        OBVIOUS
    <2> HIDE DEF row, written, X
    <2>4. changes'[r] = X /\ \A p \in Request \ {r} : changes'[p] = changes[p]
        BY <1>4, <2>2
    <2> QED BY <1>2, <2>1, <2>3, <2>4 DEF Goal
<1> QED BY <1>7, <1>8, <1>9, <1>10, <1>11, <1>12, <1>13, <1>14 DEF RequestStep, Goal

Truthful(e) ==
    e.actor # None =>
        /\ users[e.actor] # None
        /\ e.actor_type = "system" <=> users[e.actor].is_system
        /\ e.actor_type = "system" => e.disabled
        /\ e.disabled /\ e.action # "login" => users[e.actor].email = SYSTEM_USER_EMAIL

LEMMA EntryStays ==
    ASSUME NEW e \in Entries, Truthful(e), Grows
    PROVE  Truthful(e)'
<1>1. CASE e.actor = None
    BY <1>1 DEF Truthful
<1>2. CASE e.actor # None
    <2>1. e.actor \in Id /\ Follows(e.actor)
        BY <1>2 DEF Entries, Grows
    <2> QED BY <1>2, <2>1, Addresses DEF Truthful, Follows
<1> QED BY <1>1, <1>2

\* What a commit adds to the trail.
LEMMA CommittedEntry ==
    ASSUME Shapes, Keeps, Grows, NEW r \in Request, Known(r), Commit(r),
           NEW e, e = request[r].entry
    PROVE  Truthful(e)'
<1> DEFINE a == request[r].actor
<1>1. /\ request[r].pc = "flushed" /\ a \in Id /\ request[r].me.is_system \in BOOLEAN
      /\ CommitChanges(r)
    BY DEF Commit, Shapes, RequestFacts, User
<1>2. /\ e.actor = a /\ e.disabled = AUTH_DISABLED
      /\ e.actor_type = "system" <=> request[r].me.is_system
      /\ request[r].me.is_system => AUTH_DISABLED
    BY <1>1 DEF Known, Labelled, Acts
<1>3. /\ users'[a] # None
      /\ users'[a].is_system <=> request[r].me.is_system
      /\ AUTH_DISABLED => users'[a].email = SYSTEM_USER_EMAIL
    <2>1. CASE /\ users[a] # None /\ users[a].is_system = request[r].me.is_system
               /\ AUTH_DISABLED => users[a].email = SYSTEM_USER_EMAIL
        <3>1. Follows(a)
            BY <1>1 DEF Grows
        <3> QED BY <2>1, <3>1, Addresses DEF Follows
    <2>2. ASSUME NEW x \in changes[r], x.id = a, x.row = Principal, users[a] = None,
                 request[r].me.is_system
          PROVE  /\ users'[a] # None /\ users'[a].is_system
                 /\ users'[a].email = SYSTEM_USER_EMAIL
        <3>1. PICK y \in changes[r] : y.id = a /\ users'[a] = Merge(y)
            BY <1>1, <2>2, CommitWrites, RequestsAreSessions DEF Shapes
        <3>2. y = x
            BY <2>2, <3>1, RequestsAreSessions DEF Keeps, Claims
        <3>3. users'[a] = Principal
            BY <2>2, <3>1, <3>2 DEF Merge
        <3>4. Principal # None
            BY PrincipalIsUser, NoneIsNobody
        <3>5. Principal.is_system = TRUE /\ Principal.email = SYSTEM_USER_EMAIL
            BY DEF Principal
        <3> QED BY <3>3, <3>4, <3>5
    <2>3. \/ /\ users[a] # None /\ users[a].is_system = request[r].me.is_system
             /\ AUTH_DISABLED => users[a].email = SYSTEM_USER_EMAIL
          \/ /\ request[r].me.is_system /\ users[a] = None
             /\ \E x \in changes[r] : x.id = a /\ x.row = Principal
        BY <1>1 DEF Known, Labelled, Acts
    <2> QED BY <2>1, <2>2, <2>3
<1> HIDE DEF a
<1> QED BY <1>2, <1>3 DEF Truthful

Audited == (\A r \in Request : Known(r)) /\ \A e \in audit_logs : Truthful(e)

LEMMA CommitKnown ==
    ASSUME Shapes, Keeps, Grows, NEW s \in Session, CommitChanges(s), UNCHANGED AUTH_DISABLED,
           NEW r \in Request \ {s}, Known(r), request'[r] = Overtake(s)[r]
    PROVE  Known(r)'
<1>1. /\ \A i \in Id :
            \/ users'[i] = users[i] /\ \A x \in changes[s] : x.id # i
            \/ \E x \in changes[s] : x.id = i /\ users'[i] = Merge(x)
      /\ changes' = [changes EXCEPT ![s] = {}]
    BY CommitWrites DEF Shapes
<1>2. r \in Session /\ changes'[r] = changes[r]
    BY <1>1, RequestsAreSessions DEF Shapes, TableTypes
<1>3. \A x \in changes[r] : users'[x.id] = users[x.id]
    <2> SUFFICES ASSUME NEW x \in changes[r] PROVE users'[x.id] = users[x.id]
        OBVIOUS
    <2>1. x.id \in Id /\ \A y \in changes[s] : y.id # x.id
        BY <1>2 DEF Shapes, TableTypes, Changed, Keeps, Claims
    <2> QED BY <1>1, <2>1
<1>4. /\ request'[r].pc = request[r].pc /\ request'[r].actor = request[r].actor
      /\ request'[r].me = request[r].me /\ request'[r].role = request[r].role
      /\ request'[r].entry = request[r].entry /\ request'[r].token = request[r].token
      /\ request'[r].overtaken <=>
            request[r].overtaken \/ \E x \in changes[s] : x.id = request[r].actor /\ r # s
    BY OvertakeTypes DEF Shapes
<1>5. ASSUME ~request'[r].overtaken, request[r].pc \in Acts
      PROVE  ~request[r].overtaken /\ users'[request[r].actor] = users[request[r].actor]
    <2>1. request[r].actor \in Id
        BY <1>5 DEF Shapes, RequestFacts, Acts
    <2>2. ~request[r].overtaken /\ \A x \in changes[s] : x.id # request[r].actor
        BY <1>4, <1>5
    <2> QED BY <1>1, <2>1, <2>2
<1>6. CASE request[r].pc \in Acts
    BY <1>2, <1>3, <1>4, <1>5, <1>6, OthersKnown
<1>7. CASE request[r].pc \notin Acts
    <2>1. ~request[r].token /\ (request[r].pc = "missing" => AUTH_DISABLED)
        BY <1>7 DEF Known, CurrentFor, Labelled
    <2> QED BY <1>4, <1>7, <2>1 DEF Known, CurrentFor, Labelled, Acts
<1> QED BY <1>6, <1>7

LEMMA NextAudited ==
    ASSUME Registered, Writes, Audited, [Next]_vars
    PROVE  Audited'
<1>0. Shapes /\ Keeps /\ Grows
    BY NextWrites DEF Registered
<1>1. \A e \in audit_logs : e \in Entries /\ Truthful(e)'
    BY <1>0, EntryStays DEF Shapes, TrailTypes, Audited
<1>2. ASSUME UNCHANGED <<users, AUTH_DISABLED>>, NEW r \in Request,
             request'[r] = request[r], changes'[r] = changes[r]
      PROVE  Known(r)'
    BY <1>2 DEF Audited, Known, CurrentFor, Labelled
<1>3. ASSUME NEW email \in Email \ DOMAIN Renamed, NEW password \in Password,
             Login(email, password)
      PROVE  Audited'
    <2>1. PICK id \in Holding(email) :
              /\ Accepted(id, password)
              /\ audit_logs' = audit_logs \cup {Entry("login", id, FALSE, id)}
        BY <1>3 DEF Login
    <2> DEFINE e == Entry("login", id, FALSE, id)
    <2>2. UNCHANGED <<users, AUTH_DISABLED, request, changes>>
        BY <1>3 DEF Login, CountLogin
    <2>3. id \in Id /\ users[id] # None /\ ~users[id].is_system
        BY <2>1 DEF Holding, Accepted
    <2>4. e.actor = id /\ e.actor_type = "user" /\ e.action = "login"
        BY <2>3, NoneIsNobody DEF Entry
    <2>5. audit_logs' = audit_logs \cup {e}
        BY <2>1
    <2> HIDE DEF e
    <2>6. ASSUME NEW f \in audit_logs' PROVE Truthful(f)'
        <3>1. CASE f = e
            BY <2>2, <2>3, <2>4, <3>1 DEF Truthful
        <3> QED BY <1>1, <2>5, <2>6, <3>1
    <2> QED BY <1>2, <2>2, <2>6 DEF Audited
<1>4. ASSUME NEW email \in Email \ DOMAIN Renamed, NEW password \in Password,
             LoginFailed(email, password)
      PROVE  Audited'
    <2> DEFINE e == Entry("login_failed", None, FALSE, None)
    <2>1. /\ UNCHANGED <<users, AUTH_DISABLED, request, changes>>
          /\ audit_logs' = audit_logs \cup {e}
        BY <1>4 DEF LoginFailed, CountLogin
    <2>2. e.actor = None
        BY DEF Entry
    <2> HIDE DEF e
    <2>3. ASSUME NEW f \in audit_logs' PROVE Truthful(f)'
        <3>1. CASE f = e
            BY <2>2, <3>1 DEF Truthful
        <3> QED BY <1>1, <2>1, <2>3, <3>1
    <2> QED BY <1>2, <2>1, <2>3 DEF Audited
<1>5. ASSUME UNCHANGED <<users, audit_logs, AUTH_DISABLED, request>>,
             \A r \in Request : changes'[r] = changes[r]
      PROVE  Audited'
    BY <1>1, <1>2, <1>5 DEF Audited
<1>6. ASSUME NEW token \in tokens, Refresh(token) PROVE Audited'
    BY <1>5, <1>6 DEF Refresh
<1>7. ASSUME NEW r \in Request, RequestStep(r) PROVE Audited'
    <2>1. /\ Known(r)' /\ UNCHANGED <<users, audit_logs, AUTH_DISABLED>>
          /\ \A q \in Request \ {r} : request'[q] = request[q] /\ changes'[q] = changes[q]
        BY <1>0, <1>7, RequestKnown DEF Audited
    <2> QED BY <1>1, <1>2, <2>1 DEF Audited
<1>8. ASSUME NEW r \in Request, Abort(r) PROVE Audited'
    <2>1. /\ UNCHANGED <<users, audit_logs, AUTH_DISABLED>>
          /\ request' = [request EXCEPT ![r] = NoRequest]
          /\ changes' = [changes EXCEPT ![r] = {}]
        BY <1>8 DEF Abort
    <2>2. /\ request'[r] = NoRequest
          /\ \A q \in Request \ {r} : request'[q] = request[q] /\ changes'[q] = changes[q]
        BY <1>0, <2>1, RequestsAreSessions DEF Shapes, RequestTypes, TableTypes
    <2>3. Known(r)'
        BY <2>2, NobodyIsKnown
    <2> QED BY <1>1, <1>2, <2>1, <2>2, <2>3 DEF Audited
<1>9. ASSUME NEW r \in Request, Commit(r) PROVE Audited'
    <2>1. /\ CommitChanges(r) /\ UNCHANGED AUTH_DISABLED
          /\ request' = [Overtake(r) EXCEPT ![r] = NoRequest]
          /\ audit_logs' = audit_logs \cup {request[r].entry}
        BY <1>9 DEF Commit
    <2>2. request'[r] = NoRequest /\ \A q \in Request \ {r} : request'[q] = Overtake(r)[q]
        BY <1>0, <2>1, OvertakeTypes, RequestsAreSessions DEF Shapes
    <2>3. Known(r)'
        BY <2>2, NobodyIsKnown
    <2>4. \A q \in Request \ {r} : Known(q)'
        BY <1>0, <2>1, <2>2, CommitKnown, RequestsAreSessions DEF Audited
    <2>5. ASSUME NEW f \in audit_logs' PROVE Truthful(f)'
        <3>1. CASE f \in audit_logs
            BY <1>1, <3>1
        <3>2. CASE f = request[r].entry
            BY <1>0, <1>9, <3>2, CommittedEntry DEF Audited
        <3> QED BY <2>1, <2>5, <3>1, <3>2
    <2> QED BY <2>3, <2>4, <2>5 DEF Audited
<1>10. ASSUME NEW c \in Container, SeedStep(c) \/ Restart(c) PROVE Audited'
    <2>0. c \in Session /\ c \notin Request
        BY Addresses, RequestsAreSessions
    <2>1. CASE CommitSeed(c)
        <3>1. /\ CommitChanges(c) /\ request' = Overtake(c)
              /\ UNCHANGED <<audit_logs, AUTH_DISABLED>>
            BY <2>1 DEF CommitSeed
        <3>2. \A q \in Request : Known(q)'
            BY <1>0, <2>0, <3>1, CommitKnown DEF Audited
        <3> QED BY <1>1, <3>1, <3>2 DEF Audited
    <2>2. CASE ~CommitSeed(c)
        <3>1. /\ UNCHANGED <<users, audit_logs, AUTH_DISABLED, request>>
              /\ \/ changes' = changes
                 \/ changes' = [changes EXCEPT ![c] = {}]
                 \/ changes' = [changes EXCEPT ![c] = @ \cup {x \in seed[c].plan : x.written # {}}]
            BY <1>10, <2>2 DEF SeedStep, SelectLegacy, Migrate, SeedUser, FlushMigration,
                               FlushUsers, Flush, Restart
        <3>2. \A r \in Request : changes'[r] = changes[r]
            BY <1>0, <2>0, <3>1, RequestsAreSessions DEF Shapes, TableTypes
        <3> QED BY <1>5, <3>1, <3>2
    <2> QED BY <2>1, <2>2
<1>11. CASE Reconfigure
    <2>1. UNCHANGED audit_logs /\ \A r \in Request : request'[r] = NoRequest
        BY <1>11 DEF Reconfigure
    <2> QED BY <1>1, <2>1, NobodyIsKnown DEF Audited
<1>12. CASE UNCHANGED vars
    BY <1>5, <1>12 DEF vars
<1> QED BY <1>3, <1>4, <1>6, <1>7, <1>8, <1>9, <1>10, <1>11, <1>12 DEF Next, Ends

LEMMA InitAudited == Init => Writes /\ Audited
<1> SUFFICES ASSUME Init PROVE Writes /\ Audited
    OBVIOUS
<1>1. Writes
    BY DEF Init, Writes, Starting
<1>2. Audited
    BY DEF Init, Audited, NoRequest, Known, CurrentFor, Labelled, Acts
<1> QED BY <1>1, <1>2

THEOREM AlwaysAudited == Spec => [](Registered /\ Writes /\ Audited)
<1>1. Init => Registered /\ Writes /\ Audited
    BY InitShapes, InitReserve, InitAudited DEF Registered, Keeps
<1>2. Registered /\ Writes /\ Audited /\ [Next]_vars => (Registered /\ Writes /\ Audited)'
    BY NextRegistered, NextWrites, NextAudited
<1> QED BY <1>1, <1>2, PTL DEF Spec

\* "a truthful audit trail": who acted is a row that exists; an entry is labelled system
\* exactly if that row is the system principal, and without authentication the row with the
\* reserved address acts, however the row was found, inserted or changed meanwhile.
THEOREM TrailIsTruthful == Spec => []TruthfulTrail
<1>1. Audited => TruthfulTrail
    BY DEF Audited, Truthful, TruthfulTrail
<1> QED BY <1>1, AlwaysAudited, PTL

\* Demoting or disabling a user holds for every request that begins afterwards, whatever
\* tokens are still about.
THEOREM TokensGrantNothing == Spec => []AuthorityIsCurrent
<1>1. Audited => AuthorityIsCurrent
    BY DEF Audited, Known, CurrentFor, AuthorityIsCurrent
<1> QED BY <1>1, AlwaysAudited, PTL

-----------------------------------------------------------------------------
(* What a seed heals *)

Broken(i) == users[i] # None /\ users[i].email \in DOMAIN Renamed /\ ~users[i].is_deleted

Mended(x) ==
    \/ "email" \in x.written /\ x.row.email \notin DOMAIN Renamed
    \/ "is_deleted" \in x.written /\ x.row.is_deleted

\* A change of a seed that is read as an account is one once it is committed.
Honest(x) == "email" \in x.written \/ x.row.email \in DOMAIN Renamed

Healed == (\A i \in Id : ~Broken(i)) /\ \A u \in USERS : Holding(u.email) # {}

Heals(c) ==
    /\ \A x \in changes[c] \cup seed[c].plan : Honest(x)
    /\ seed[c].pc = "migrate" => \A i \in Id : Broken(i) =>
          \/ \E x \in seed[c].todo : x.id = i
          \/ \E x \in seed[c].plan : x.id = i /\ Mended(x)
    /\ seed[c].pc \in {"users", "flushed"} => \A i \in Id : Broken(i) =>
          \E x \in changes[c] : x.id = i /\ Mended(x)
    /\ seed[c].pc = "users" => \A u \in USERS :
          \/ u \in seed[c].todo \/ Holding(u.email) # {}
          \/ \E x \in changes[c] \cup seed[c].plan : x.row.email = u.email
    /\ seed[c].pc = "flushed" => \A u \in USERS :
          Holding(u.email) # {} \/ \E x \in changes[c] : x.row.email = u.email
    /\ seed[c].pc = "done" => Healed

\* No row breaks again, and no demo address is lost.
LEMMA HealthLasts ==
    ASSUME Grows
    PROVE  /\ \A i \in Id : Broken(i)' => Broken(i)
           /\ \A u \in USERS : Holding(u.email) # {} => (Holding(u.email) # {})'
<1>1. ASSUME NEW i \in Id, Broken(i)' PROVE Broken(i)
    BY <1>1, Addresses DEF Grows, Follows, Born, Broken
<1>2. ASSUME NEW u \in USERS, Holding(u.email) # {} PROVE (Holding(u.email) # {})'
    <2>1. PICK i \in Id : users[i] # None /\ users[i].email = u.email
        BY <1>2 DEF Holding
    <2>2. u.email \notin DOMAIN Renamed
        BY Accounted
    <2>3. users'[i] # None /\ users'[i].email = u.email
        BY <2>1, <2>2 DEF Grows, Follows
    <2> QED BY <2>3 DEF Holding
<1> QED BY <1>1, <1>2

LEMMA OthersHeal ==
    ASSUME Grows, NEW c \in Container, Heals(c), seed'[c] = seed[c], changes'[c] = changes[c]
    PROVE  Heals(c)'
<1>1. /\ \A i \in Id : Broken(i)' => Broken(i)
      /\ \A u \in USERS : Holding(u.email) # {} => (Holding(u.email) # {})'
    BY HealthLasts
<1>2. \A x : (Mended(x)' <=> Mended(x)) /\ (Honest(x)' <=> Honest(x))
    BY DEF Mended, Honest
<1>3. Healed => Healed'
    BY <1>1 DEF Healed
<1> QED BY <1>1, <1>2, <1>3 DEF Heals

\* What a seed has committed has healed.
LEMMA CommitHeals ==
    ASSUME Shapes, Keeps, Writes, NEW c \in Container, Heals(c), CommitSeed(c)
    PROVE  Healed'
<1>0. /\ c \in Session /\ seed[c].pc = "flushed" /\ CommitChanges(c) /\ TableTypes /\ Grows
    BY CommitGrows, RequestsAreSessions DEF CommitSeed, Shapes
<1>1. ASSUME NEW x \in changes[c]
      PROVE  x \in Changed /\ x.id \in Id /\ users'[x.id] = Merge(x) /\ Merge(x) \in User
    <2>1. x \in Changed /\ x.id \in Id
        BY <1>0 DEF TableTypes, Changed
    <2>2. PICK y \in changes[c] : y.id = x.id /\ users'[x.id] = Merge(y)
        BY <1>0, <2>1, CommitWrites
    <2>3. y = x
        BY <1>0, <2>2 DEF Keeps, Claims
    <2> QED BY <2>1, <2>2, <2>3, MergeIsUser, <1>0
<1>2. ASSUME NEW i \in Id, Broken(i)' PROVE FALSE
    <2>1. Broken(i)
        BY <1>0, <1>2, HealthLasts
    <2>2. PICK x \in changes[c] : x.id = i /\ Mended(x)
        BY <1>0, <2>1 DEF Heals
    <2>3. /\ users'[i].email = IF "email" \in x.written THEN x.row.email ELSE users[i].email
          /\ users'[i].is_deleted =
                IF "is_deleted" \in x.written THEN x.row.is_deleted ELSE users[i].is_deleted
        BY <1>0, <1>1, <2>1, <2>2, MergeIsUser DEF Broken, Column
    <2> QED BY <1>2, <2>2, <2>3 DEF Broken, Mended
<1>3. ASSUME NEW u \in USERS PROVE (Holding(u.email) # {})'
    <2>1. CASE Holding(u.email) # {}
        BY <1>0, <2>1, HealthLasts
    <2>2. ASSUME NEW x \in changes[c], x.row.email = u.email PROVE (Holding(u.email) # {})'
        <3>1. Names(x)
            BY <2>2, Accounted DEF Heals, Honest, Names
        <3>2. Merge(x).email = u.email
            BY <1>0, <1>1, <2>2, <3>1, MergedEmail
        <3>3. users'[x.id] # None /\ users'[x.id].email = u.email /\ x.id \in Id
            BY <1>1, <3>2, NoneIsNobody
        <3> QED BY <3>3 DEF Holding
    <2> QED BY <1>0, <2>1, <2>2 DEF Heals
<1> QED BY <1>2, <1>3 DEF Healed

LEMMA SeedHealing ==
    ASSUME Shapes, Keeps, Writes, NEW c \in Container, Heals(c), SeedStep(c) \/ Restart(c)
    PROVE  Heals(c)'
<1>0. /\ c \in Session /\ SeedReserve(c) /\ TableTypes /\ SeedTypes
    BY RequestsAreSessions DEF Keeps, Reserve, Shapes
<1>1. ASSUME seed' = [seed EXCEPT ![c] = Starting], changes' = [changes EXCEPT ![c] = {}]
      PROVE  Heals(c)'
    BY <1>0, <1>1 DEF SeedTypes, TableTypes, Starting, Heals
<1>2. ASSUME UNCHANGED users
      PROVE  /\ \A i : Broken(i)' <=> Broken(i)
             /\ \A e : Holding(e)' = Holding(e)
    BY <1>2 DEF Broken, Holding
<1>3. CASE SelectLegacy(c)
    <2> DEFINE todo == {[id |-> i, row |-> users[i]] :
                          i \in {j \in Id : users[j] # None /\ users[j].email \in DOMAIN Renamed}}
               next == [pc |-> "migrate", plan |-> {}, todo |-> todo]
    <2>1. /\ seed' = [seed EXCEPT ![c] = next] /\ UNCHANGED <<users, changes>>
          /\ changes[c] = {}
        BY <1>0, <1>3 DEF SelectLegacy, SeedReserve
    <2>2. \A i \in Id : Broken(i) => \E x \in todo : x.id = i
        <3> SUFFICES ASSUME NEW i \in Id, Broken(i) PROVE \E x \in todo : x.id = i
            OBVIOUS
        <3>1. [id |-> i, row |-> users[i]] \in todo
            BY DEF Broken
        <3> QED BY <3>1
    <2> HIDE DEF todo
    <2>3. seed'[c].pc = "migrate" /\ seed'[c].plan = {} /\ seed'[c].todo = todo
        BY <1>0, <2>1 DEF SeedTypes
    <2> QED BY <1>2, <2>1, <2>2, <2>3 DEF Heals
<1>4. ASSUME NEW x \in seed[c].todo, Migrate(c, x) PROVE Heals(c)'
    <2> DEFINE repaired == IF Holding(Renamed[x.row.email]) = {}
                           THEN [x.row EXCEPT !.email = Renamed[x.row.email]]
                           ELSE [x.row EXCEPT !.is_deleted = TRUE, !.is_active = FALSE]
               change == Change(x.id, repaired, {f \in DOMAIN x.row : repaired[f] # x.row[f]})
    <2>1. /\ seed' = [seed EXCEPT ![c].todo = @ \ {x}, ![c].plan = @ \cup {change}]
          /\ seed[c].pc = "migrate" /\ UNCHANGED <<users, changes>>
        BY <1>4 DEF Migrate
    <2>2. /\ change.id = x.id
          /\ \/ /\ "email" \in change.written
                /\ change.row.email = Renamed[x.row.email]
             \/ /\ change.row.email = x.row.email
                /\ change.row.is_deleted
                /\ x.row.is_deleted \/ "is_deleted" \in change.written
        BY <1>4, RepairIsSound
    <2> HIDE DEF change
    <2>3. /\ seed'[c].pc = "migrate" /\ seed'[c].todo = seed[c].todo \ {x}
          /\ seed'[c].plan = seed[c].plan \cup {change}
        BY <1>0, <2>1 DEF SeedTypes
    <2>4. x.row.email \in DOMAIN Renamed /\ Stale(x)
        BY <1>0, <2>1 DEF SeedReserve, Repairs, Writes
    <2>5. Honest(change)
        BY <2>2, <2>4 DEF Honest
    <2>6. Broken(x.id) => Mended(change)
        BY <2>2, <2>4, Addresses DEF Broken, Mended, Stale
    <2>7. \A i \in Id : Broken(i) =>
              \/ \E y \in seed'[c].todo : y.id = i
              \/ \E y \in seed'[c].plan : y.id = i /\ Mended(y)
        BY <2>1, <2>2, <2>3, <2>6 DEF Heals
    <2>8. \A y \in changes'[c] \cup seed'[c].plan : Honest(y)
        BY <2>1, <2>3, <2>5 DEF Heals
    <2> QED BY <1>2, <2>1, <2>3, <2>7, <2>8 DEF Heals, Mended, Honest
<1>5. ASSUME NEW u \in seed[c].todo, SeedUser(c, u) PROVE Heals(c)'
    <2> DEFINE id == CHOOSE i \in Unused : TRUE
               change == Change(id, u, DOMAIN u)
               exists == Holding(u.email) # {} \/ \E x \in changes[c] : x.row.email = u.email
               plan == IF exists THEN seed[c].plan ELSE seed[c].plan \cup {change}
    <2>1. /\ seed' = [seed EXCEPT ![c].todo = @ \ {u}, ![c].plan = plan]
          /\ seed[c].pc = "users" /\ UNCHANGED <<users, changes>>
        BY <1>0, <1>5 DEF SeedUser, SeedTypes
    <2>2. u \in USERS /\ u \in User /\ DOMAIN u = Column
        BY <1>0, <2>1, Accounted, ColumnsOfUser DEF SeedTypes
    <2>3. change.row = u /\ "email" \in change.written
        BY <2>2 DEF Change, Column
    <2> HIDE DEF change
    <2>4. /\ \A x \in plan : x \in seed[c].plan \/ Honest(x)
          /\ seed[c].plan \subseteq plan
          /\ \/ Holding(u.email) # {}
             \/ \E x \in changes[c] \cup plan : x.row.email = u.email
        BY <2>3 DEF Honest
    <2> HIDE DEF plan, exists
    <2>5. /\ seed'[c].pc = "users" /\ seed'[c].plan = plan /\ seed'[c].todo = seed[c].todo \ {u}
        BY <1>0, <2>1 DEF SeedTypes
    <2>6. \A v \in USERS :
              \/ v \in seed'[c].todo \/ Holding(v.email) # {}
              \/ \E x \in changes'[c] \cup seed'[c].plan : x.row.email = v.email
        BY <2>1, <2>4, <2>5 DEF Heals
    <2>7. \A y \in changes'[c] \cup seed'[c].plan : Honest(y)
        BY <2>1, <2>4, <2>5 DEF Heals
    <2> QED BY <1>2, <2>1, <2>5, <2>6, <2>7 DEF Heals, Mended, Honest
<1>6. ASSUME NEW next \in Starts, Flush(c, next), next.plan = {},
             \/ seed[c].pc = "migrate" /\ next.pc = "users" /\ next.todo = USERS
             \/ seed[c].pc = "users" /\ next.pc = "flushed"
      PROVE  Heals(c)'
    <2> DEFINE writes == {x \in seed[c].plan : x.written # {}}
    <2>1. /\ \/ seed' = [seed EXCEPT ![c] = Starting] /\ changes' = [changes EXCEPT ![c] = {}]
             \/ /\ seed' = [seed EXCEPT ![c] = next]
                /\ changes' = [changes EXCEPT ![c] = @ \cup writes]
          /\ seed[c].todo = {} /\ UNCHANGED users
        BY <1>6 DEF Flush
    <2>2. CASE seed' = [seed EXCEPT ![c] = Starting] /\ changes' = [changes EXCEPT ![c] = {}]
        BY <1>1, <2>2
    <2>3. CASE /\ seed' = [seed EXCEPT ![c] = next]
               /\ changes' = [changes EXCEPT ![c] = @ \cup writes]
        <3>1. seed'[c] = next /\ changes'[c] = changes[c] \cup writes
            BY <1>0, <2>3 DEF SeedTypes, TableTypes
        <3>2. \A y \in changes'[c] \cup seed'[c].plan : Honest(y)
            BY <1>6, <3>1 DEF Heals
        <3>3. \A x \in seed[c].plan : Mended(x) => x \in writes
            BY DEF Mended
        <3>4. \A i \in Id : Broken(i) => \E x \in changes'[c] : x.id = i /\ Mended(x)
            BY <1>6, <2>1, <3>1, <3>3 DEF Heals
        <3>5. next.pc = "flushed" => \A u \in USERS :
                  Holding(u.email) # {} \/ \E x \in changes'[c] : x.row.email = u.email
            <4> SUFFICES ASSUME next.pc = "flushed", NEW u \in USERS, Holding(u.email) = {}
                         PROVE  \E x \in changes'[c] : x.row.email = u.email
                OBVIOUS
            <4>1. PICK x \in changes[c] \cup seed[c].plan : x.row.email = u.email
                BY <1>6, <2>1 DEF Heals
            <4>2. "email" \in x.written
                BY <4>1, Accounted DEF Heals, Honest
            <4> QED BY <3>1, <4>1, <4>2
        <3> HIDE DEF writes
        <3>6. next.pc \in {"users", "flushed"} /\ (next.pc = "users" => next.todo = USERS)
            BY <1>6
        <3> QED BY <1>2, <2>1, <3>1, <3>2, <3>4, <3>5, <3>6 DEF Heals, Mended, Honest
    <2> QED BY <2>1, <2>2, <2>3
<1>7. CASE FlushMigration(c)
    <2> DEFINE next == [pc |-> "users", todo |-> USERS, plan |-> {}]
    <2>1. next \in Starts /\ next.plan = {} /\ next.pc = "users" /\ next.todo = USERS
        BY DEF Starts
    <2>2. Flush(c, next) /\ seed[c].pc = "migrate"
        BY <1>7 DEF FlushMigration
    <2> HIDE DEF next
    <2> QED BY <1>6, <2>1, <2>2
<1>8. CASE FlushUsers(c)
    <2> DEFINE next == [pc |-> "flushed", todo |-> {}, plan |-> {}]
    <2>1. next \in Starts /\ next.plan = {} /\ next.pc = "flushed"
        BY DEF Starts
    <2>2. Flush(c, next) /\ seed[c].pc = "users"
        BY <1>8 DEF FlushUsers
    <2> HIDE DEF next
    <2> QED BY <1>6, <2>1, <2>2
<1>9. CASE CommitSeed(c)
    <2>1. Healed'
        BY <1>9, CommitHeals
    <2>2. /\ seed' = [seed EXCEPT ![c].pc = "done"] /\ seed[c].pc = "flushed"
          /\ changes' = [changes EXCEPT ![c] = {}]
        BY <1>9 DEF CommitSeed, CommitChanges
    <2>3. seed'[c].pc = "done" /\ seed'[c].plan = {} /\ changes'[c] = {}
        BY <1>0, <2>2 DEF SeedTypes, TableTypes, SeedReserve
    <2> QED BY <2>1, <2>3 DEF Heals
<1>10. CASE Restart(c)
    BY <1>1, <1>10 DEF Restart
<1> QED BY <1>3, <1>4, <1>5, <1>7, <1>8, <1>9, <1>10 DEF SeedStep

Healing == \A c \in Container : Heals(c)

LEMMA NextHealing ==
    ASSUME Registered, Writes, Healing, [Next]_vars
    PROVE  Healing'
<1>0. Shapes /\ Keeps /\ Grows
    BY NextWrites DEF Registered
<1>1. ASSUME NEW c \in Container, seed'[c] = seed[c], changes'[c] = changes[c] PROVE Heals(c)'
    BY <1>0, <1>1, OthersHeal DEF Healing
<1>2. CASE \/ \E email \in Email \ DOMAIN Renamed, password \in Password :
                 Login(email, password) \/ LoginFailed(email, password)
           \/ \E token \in tokens : Refresh(token)
    BY <1>1, <1>2, TokensOnly DEF Healing
<1>3. ASSUME NEW r \in Request, RequestStep(r) \/ Ends(r) PROVE Healing'
    <2>1. r \in Session /\ r \notin Container
        BY Addresses, RequestsAreSessions
    <2>2. UNCHANGED seed /\ \A s \in Session \ {r} : changes'[s] = changes[s]
        <3>1. CASE RequestStep(r) \/ Abort(r)
            BY <1>0, <3>1, RequestWrites
        <3>2. CASE Commit(r)
            BY <1>0, <2>1, <3>2, CommitWrites DEF Commit, Shapes, TableTypes
        <3> QED BY <1>3, <3>1, <3>2 DEF Ends
    <2> QED BY <1>1, <2>1, <2>2, RequestsAreSessions DEF Healing
<1>4. ASSUME NEW c \in Container, SeedStep(c) \/ Restart(c) PROVE Healing'
    <2>1. Heals(c)'
        BY <1>0, <1>4, SeedHealing DEF Healing
    <2>2. ASSUME NEW d \in Container \ {c} PROVE seed'[d] = seed[d] /\ changes'[d] = changes[d]
        BY <1>0, <1>4, RequestsAreSessions
           DEF SeedStep, SelectLegacy, Migrate, SeedUser, FlushMigration, FlushUsers, Flush,
               CommitSeed, CommitChanges, Restart, Shapes, TableTypes, SeedTypes
    <2> QED BY <1>1, <2>1, <2>2 DEF Healing
<1>5. CASE Reconfigure
    <2>1. UNCHANGED seed /\ \A c \in Container : changes'[c] = changes[c]
        BY <1>5, Addresses, RequestsAreSessions DEF Reconfigure
    <2> QED BY <1>1, <2>1 DEF Healing
<1>6. CASE UNCHANGED vars
    BY <1>1, <1>6 DEF vars, Healing
<1> QED BY <1>2, <1>3, <1>4, <1>5, <1>6 DEF Next

\* "an existing database has to be healed": once any container has seeded, no live row has a
\* legacy address and every demo address has its row, whatever other containers, requests and
\* restarts do in between and afterwards.
THEOREM SeedsHeal == Spec => []SeedHeals
<1>1. Init => Healing
    BY DEF Init, Starting, Session, Healing, Heals
<1>2. Registered /\ Writes /\ Healing /\ [Next]_vars => Healing'
    BY NextHealing
<1>3. Healing => SeedHeals
    <2> SUFFICES ASSUME Healing, NEW c \in Container, seed[c].pc = "done"
                 PROVE  /\ \A i \in Id : users[i] # None /\ users[i].email \in DOMAIN Renamed =>
                              users[i].is_deleted
                        /\ \A u \in USERS : Holding(u.email) # {}
        BY DEF SeedHeals
    <2>1. Healed
        BY DEF Healing, Heals
    <2> QED BY <2>1 DEF Healed, Broken
<1> QED BY <1>1, <1>2, <1>3, AlwaysAudited, PTL DEF Spec

-----------------------------------------------------------------------------
(* What an update writes *)

\* The change writes what some patch says, and nothing else.
Patching(x) ==
    \E patch \in Patches : \A c \in x.written : c \in DOMAIN patch /\ x.row[c] = patch[c]

\* A request inserts, or does as a patch says.
Asked == \A r \in Request : \A x \in changes[r] : users[x.id] # None => Patching(x)

\* What a request adds to its session.
LEMMA WhatIsAdded ==
    ASSUME Shapes, [Next]_vars, NEW r \in Request, NEW x \in changes'[r], x \notin changes[r]
    PROVE  \/ InsertPrincipal(r)
           \/ \E draft \in Drafts : CreateUser(r, draft)
           \/ \E patch \in Patches : UpdateUser(r, patch)
<1>0. r \in Session /\ r \notin Container /\ changes \in [Session -> SUBSET Changed]
    BY Addresses, RequestsAreSessions DEF Shapes, TableTypes
<1>1. ASSUME NEW p \in Request, RequestStep(p) \/ Ends(p)
      PROVE  p = r /\ RequestStep(r)
    <2>1. p \in Session
        BY RequestsAreSessions
    <2>2. CASE Ends(p)
        BY <1>0, <2>1, <2>2 DEF Ends, Commit, CommitChanges, Abort
    <2>3. CASE RequestStep(p)
        <3>1. \A s \in Session \ {p} : changes'[s] = changes[s]
            BY <1>0, <2>1, <2>3 DEF RequestStep, Authenticate, FindPrincipal, BeginRequest,
                   InsertPrincipal, RereadPrincipal, Work, CreateUser, GetUser, UpdateUser
        <3> QED BY <1>0, <2>3, <3>1
    <2> QED BY <1>1, <2>2, <2>3
<1>2. ASSUME NEW c \in Container, SeedStep(c) \/ Restart(c) PROVE changes'[r] = changes[r]
    <2>1. c \in Session /\ c # r
        BY <1>0, RequestsAreSessions
    <2> QED BY <1>0, <1>2, <2>1
            DEF SeedStep, SelectLegacy, Migrate, SeedUser, FlushMigration, FlushUsers, Flush,
                CommitSeed, CommitChanges, Restart
<1>3. CASE Reconfigure
    BY <1>0, <1>3 DEF Reconfigure
<1>4. CASE UNCHANGED vars
    BY <1>4 DEF vars
<1>5. CASE \/ \E email \in Email \ DOMAIN Renamed, password \in Password :
                 Login(email, password) \/ LoginFailed(email, password)
           \/ \E token \in tokens : Refresh(token)
    BY <1>5 DEF Login, LoginFailed, Refresh, CountLogin
<1>6. CASE RequestStep(r)
    <2>1. CASE \/ \E token \in tokens : Authenticate(r, token)
               \/ FindPrincipal(r)
               \/ RereadPrincipal(r)
               \/ Work(r)
               \/ \E id \in Id : GetUser(r, id)
        <3>1. UNCHANGED changes
            BY <2>1 DEF Authenticate, FindPrincipal, BeginRequest, RereadPrincipal, Work, GetUser
        <3> QED BY <3>1
    <2> QED BY <1>6, <2>1 DEF RequestStep
<1> QED BY <1>1, <1>2, <1>3, <1>4, <1>5, <1>6 DEF Next

\* Rows change only by a commit.
LEMMA UsersChangeByCommit ==
    ASSUME [Next]_vars
    PROVE  UNCHANGED users \/ \E s \in Session : CommitChanges(s)
<1>1. ASSUME NEW r \in Request, RequestStep(r) PROVE UNCHANGED users
    BY <1>1 DEF RequestStep, Authenticate, FindPrincipal, BeginRequest, InsertPrincipal,
                RereadPrincipal, Work, CreateUser, GetUser, UpdateUser
<1>2. ASSUME NEW r \in Request, Ends(r) PROVE UNCHANGED users \/ CommitChanges(r)
    BY <1>2 DEF Ends, Commit, Abort
<1>3. ASSUME NEW c \in Container, SeedStep(c) \/ Restart(c)
      PROVE  UNCHANGED users \/ CommitChanges(c)
    BY <1>3 DEF SeedStep, SelectLegacy, Migrate, SeedUser, FlushMigration, FlushUsers, Flush,
                CommitSeed, Restart
<1>4. CASE \/ \E email \in Email \ DOMAIN Renamed, password \in Password :
                 Login(email, password) \/ LoginFailed(email, password)
           \/ \E token \in tokens : Refresh(token)
    BY <1>4 DEF Login, LoginFailed, Refresh, CountLogin
<1>5. CASE Reconfigure \/ UNCHANGED vars
    BY <1>5 DEF Reconfigure, vars
<1> QED BY <1>1, <1>2, <1>3, <1>4, <1>5, RequestsAreSessions DEF Next

\* The columns that an update writes are those of its patch.
LEMMA UpdatePatches ==
    ASSUME Shapes, NEW r \in Request, NEW patch \in Patches, UpdateUser(r, patch),
           NEW x \in changes'[r], x \notin changes[r]
    PROVE  Patching(x)
<1> DEFINE q == request[r]
           row == [c \in DOMAIN q.row |-> IF c \in DOMAIN patch THEN patch[c] ELSE q.row[c]]
           written == {c \in DOMAIN row : row[c] # q.row[c]}
                          \cup ({"password"} \cap DOMAIN patch)
<1>1. q.row \in User /\ DOMAIN q.row = Column
    BY ColumnsOfUser DEF UpdateUser, Shapes, RequestFacts
<1>2. DOMAIN row = Column /\ \A c \in Column : row[c] = IF c \in DOMAIN patch THEN patch[c] ELSE q.row[c]
    BY <1>1
<1>3. \A c \in written : c \in DOMAIN patch /\ row[c] = patch[c]
    BY <1>1, <1>2 DEF Column
<1>4. changes' = [changes EXCEPT ![r] =
                    IF written = {} THEN @ ELSE @ \cup {Change(q.id, row, written)}]
    BY DEF UpdateUser
<1> HIDE DEF row, written
<1>5. x = Change(q.id, row, written)
    BY <1>4, RequestsAreSessions DEF Shapes, TableTypes
<1>6. x.row = row /\ x.written = written
    BY <1>5 DEF Change
<1> QED BY <1>3, <1>6 DEF Patching

LEMMA NextAsked ==
    ASSUME Registered, Asked, [Next]_vars
    PROVE  Asked'
<1>0. Shapes /\ Claims
    BY DEF Registered, Keeps
<1> SUFFICES ASSUME NEW r \in Request, NEW x \in changes'[r], users'[x.id] # None
             PROVE  Patching(x)
    BY DEF Asked, Patching
<1>1. CASE x \in changes[r]
    <2>1. CASE users[x.id] # None
        BY <1>1, <2>1 DEF Asked
    <2>2. CASE users[x.id] = None
        <3>1. x.id \in Id /\ r \in Session
            BY <1>0, <1>1, RequestsAreSessions DEF Shapes, TableTypes, Changed
        <3>2. PICK s \in Session : CommitChanges(s)
            BY <2>2, UsersChangeByCommit
        <3>3. PICK y \in changes[s] : y.id = x.id
            BY <1>0, <2>2, <3>1, <3>2, CommitWrites DEF Shapes
        <3>4. s = r
            BY <1>0, <1>1, <3>1, <3>3 DEF Claims
        <3>5. changes'[r] = {}
            BY <1>0, <3>1, <3>2, <3>4 DEF CommitChanges, Shapes, TableTypes
        <3> QED BY <3>5
    <2> QED BY <2>1, <2>2
<1>2. CASE x \notin changes[r]
    <2>1. r \in Session /\ changes \in [Session -> SUBSET Changed]
        BY <1>0, RequestsAreSessions DEF Shapes, TableTypes
    <2>2. CASE InsertPrincipal(r)
        <3> DEFINE id == CHOOSE i \in Unused : TRUE
        <3>1. id \in Id /\ users[id] = None /\ UNCHANGED users
            BY <2>2 DEF InsertPrincipal, Unused
        <3>2. changes' = [changes EXCEPT ![r] = {Change(id, Principal, DOMAIN Principal)}]
            BY <2>2 DEF InsertPrincipal
        <3> HIDE DEF id
        <3>3. x.id = id
            BY <2>1, <3>2 DEF Change
        <3> QED BY <3>1, <3>3
    <2>3. ASSUME NEW draft \in Drafts, CreateUser(r, draft) PROVE Patching(x)
        <3> DEFINE id == CHOOSE i \in Unused : TRUE
        <3>1. id \in Id /\ users[id] = None /\ UNCHANGED users
            BY <2>3 DEF CreateUser, Unused
        <3>2. changes' = [changes EXCEPT ![r] = @ \cup {Change(id, draft, DOMAIN draft)}]
            BY <2>3 DEF CreateUser
        <3> HIDE DEF id
        <3>3. x.id = id
            BY <1>2, <2>1, <3>2 DEF Change
        <3> QED BY <3>1, <3>3
    <2> QED BY <1>0, <1>2, <2>2, <2>3, WhatIsAdded, UpdatePatches
<1> QED BY <1>1, <1>2

\* An administrator's update brings back no column that another update has changed since
\* the row was read: a request changes an existing row only as a patch says.
THEOREM UpdatesUndoNothing == Spec => NoLostUpdate
<1>1. Init => Asked
    BY RequestsAreSessions DEF Init, Asked
<1>2. Registered /\ Asked /\ [Next]_vars => Asked'
    BY NextAsked
<1>3. ASSUME Registered, Asked, [Next]_vars
      PROVE  [\A r \in Request : request[r].pc = "flushed" /\ request'[r].pc = "idle" =>
                \A i \in Id : users[i] # None /\ users'[i] # users[i] =>
                    \E patch \in Patches : \A c \in DOMAIN users[i] :
                        users'[i][c] # users[i][c] =>
                            c \in DOMAIN patch /\ users'[i][c] = patch[c]]_vars
    <2> SUFFICES ASSUME NEW r \in Request, request[r].pc = "flushed", request'[r].pc = "idle",
                        NEW i \in Id, users[i] # None, users'[i] # users[i]
                 PROVE  \E patch \in Patches : \A c \in DOMAIN users[i] :
                            users'[i][c] # users[i][c] =>
                                c \in DOMAIN patch /\ users'[i][c] = patch[c]
        OBVIOUS
    <2>1. Shapes /\ r \in Session
        BY <1>3, RequestsAreSessions DEF Registered
    <2>2. CommitChanges(r)
        <3>1. ASSUME NEW p \in Request, Commit(p) PROVE p = r
            BY <2>1, <3>1 DEF Commit, Overtake, Shapes, RequestTypes, Asking
        <3>2. ASSUME NEW c \in Container, CommitSeed(c) PROVE FALSE
            BY <2>1, <3>2 DEF CommitSeed, Overtake, Shapes, RequestTypes, Asking
        <3>3. \/ \E p \in Request : Commit(p)
              \/ \E c \in Container : CommitSeed(c)
            <4>1. ASSUME NEW p \in Request, RequestStep(p) \/ Abort(p) PROVE UNCHANGED users
                BY <4>1 DEF RequestStep, Authenticate, FindPrincipal, BeginRequest, InsertPrincipal,
                            RereadPrincipal, Work, CreateUser, GetUser, UpdateUser, Abort
            <4>2. ASSUME NEW c \in Container, SeedStep(c) \/ Restart(c)
                  PROVE  UNCHANGED users \/ CommitSeed(c)
                BY <4>2 DEF SeedStep, SelectLegacy, Migrate, SeedUser, FlushMigration, FlushUsers,
                            Flush, Restart
            <4>3. CASE \/ \E email \in Email \ DOMAIN Renamed, password \in Password :
                             Login(email, password) \/ LoginFailed(email, password)
                       \/ \E token \in tokens : Refresh(token)
                BY <4>3 DEF Login, LoginFailed, Refresh, CountLogin
            <4>4. CASE Reconfigure \/ UNCHANGED vars
                BY <4>4 DEF Reconfigure, vars
            <4> QED BY <1>3, <4>1, <4>2, <4>3, <4>4 DEF Next, Ends
        <3> QED BY <3>1, <3>2, <3>3 DEF Commit
    <2>3. PICK x \in changes[r] : x.id = i /\ users'[i] = Merge(x)
        BY <2>1, <2>2, CommitWrites DEF Shapes
    <2>4. x \in Changed /\ DOMAIN users[i] = Column
        BY <2>1, ColumnsOfUser DEF Shapes, TableTypes
    <2>5. \A c \in Column : users'[i][c] = IF c \in x.written THEN x.row[c] ELSE users[i][c]
        BY <2>1, <2>3, <2>4, MergeIsUser DEF Shapes
    <2>6. PICK patch \in Patches : \A c \in x.written : c \in DOMAIN patch /\ x.row[c] = patch[c]
        BY <1>3, <2>3 DEF Asked, Patching
    <2> QED BY <2>4, <2>5, <2>6
<1> QED BY <1>1, <1>2, <1>3, AlwaysRegistered, PTL DEF Spec, NoLostUpdate

=============================================================================
