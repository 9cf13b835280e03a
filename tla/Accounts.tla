------------------------------- MODULE Accounts -------------------------------
(***************************************************************************)
(* Accounts: who makes a request, what administrators do to users, the     *)
(* system principal of a deployment without authentication, what the audit *)
(* trail says of all of them, and the demo accounts that every container   *)
(* seeds when it starts.                                                   *)
(*                                                                         *)
(* A request and a seed have one database session each.  What a session    *)
(* has flushed is its alone until it commits (READ COMMITTED); meanwhile   *)
(* a session that needs the same row or the same email waits for it.       *)
(***************************************************************************)
EXTENDS Naturals, FiniteSets

CONSTANTS
    Id,                 \* primary keys
    Email, Password,
    SYSTEM_USER_EMAIL,
    Renamed,            \* legacy demo addresses, and the addresses that replace them
    USERS,              \* the demo accounts
    Drafts,             \* what administrators create
    Patches,            \* and change
    Founders,           \* what the table may hold at first
    Request, Container,
    None,
    MaxRequests, MaxLogins, MaxRestarts  \* bounds on what happens in a behaviour

Role == {"admin", "risk_officer", "viewer"}

User == [email : Email, role : Role, password : Password \cup {None}, is_active : BOOLEAN,
         is_system : BOOLEAN, is_deleted : BOOLEAN]

\* UserUpdate
Patchable == [role |-> Role, password |-> Password, is_active |-> BOOLEAN]

Session == Request \cup Container

ASSUME Addresses ==
    /\ SYSTEM_USER_EMAIL \in Email
    /\ DOMAIN Renamed \subseteq Email \ {SYSTEM_USER_EMAIL}
    /\ \A old \in DOMAIN Renamed :
          /\ Renamed[old] \in (Email \ DOMAIN Renamed) \ {SYSTEM_USER_EMAIL}
          /\ \A other \in DOMAIN Renamed : Renamed[old] = Renamed[other] => old = other
    /\ Request \cap Container = {} /\ None \notin Id \cup User \cup Password
    /\ MaxRequests \in Nat /\ MaxLogins \in Nat /\ MaxRestarts \in Nat

\* The API takes no legacy address, to log in either (EmailStr refuses it); only the principal is a system user.
ASSUME Accounted ==
    /\ USERS \cup Drafts \subseteq
          {u \in User : u.email \notin DOMAIN Renamed /\ ~u.is_system /\ ~u.is_deleted}
    /\ \A u, v \in USERS : u.email = v.email => u = v
    /\ \A patch \in Patches :
          /\ DOMAIN patch \subseteq DOMAIN Patchable
          /\ \A c \in DOMAIN patch : patch[c] \in Patchable[c]
    /\ Founders \subseteq [Id -> {u \in User : ~u.is_system} \cup {None}]
    /\ \A f \in Founders, i, j \in Id :
          f[i] # None /\ f[j] # None /\ f[i].email = f[j].email => i = j

VARIABLES
    users,          \* rows, by id; None: not created
    audit_logs,     \* entries of the trail; disabled, for the properties: AUTH_DISABLED then
    AUTH_DISABLED,  \* the setting of the API that is running
    tokens,         \* pairs of tokens that clients have
    request,        \* requests
    seed,           \* containers that start
    changes,        \* what each session has flushed and not committed
    count           \* requests, logins and restarts so far

vars == <<users, audit_logs, AUTH_DISABLED, tokens, request, seed, changes, count>>

-----------------------------------------------------------------------------
(* Sessions *)

\* me: the caller's row as the session has it; row: the user to change.  overtaken, for the
\* properties: the caller's row has been changed since.
NoRequest == [pc |-> "idle", actor |-> None, me |-> None, token |-> FALSE, role |-> None,
              id |-> None, row |-> None, entry |-> None, overtaken |-> FALSE]

\* todo: legacy rows or accounts still to look up; plan: what the next flush writes.
Starting == [pc |-> "start", todo |-> {}, plan |-> {}]

Change(id, row, written) == [id |-> id, row |-> row, written |-> written]

\* Variant: the whole row, as the session has it.
MergeAll(change) == change.row

Merge(change) ==
    IF users[change.id] = None THEN change.row
    ELSE [c \in DOMAIN change.row |->
             IF c \in change.written THEN change.row[c] ELSE users[change.id][c]]

\* Keys are random: a new one is nobody's.
Unused ==
    {i \in Id : /\ users[i] = None
                /\ \A s \in Session : \A x \in changes[s] : x.id # i
                /\ \A c \in Container : \A x \in seed[c].plan : x.id # i}

Holding(email) == {i \in Id : users[i] # None /\ users[i].email = email}

\* No other session has the row or the email.
Free(s, id, email) ==
    \A t \in Session \ {s} : \A x \in changes[t] : x.id # id /\ x.row.email # email

\* Variant: without the index.
NeverConflicts(s, id, email) == FALSE

\* The unique index on email.
Conflicts(s, id, email) ==
    \/ Holding(email) \ {id} # {}
    \/ \E x \in changes[s] : x.id # id /\ x.row.email = email

CommitChanges(s) ==
    /\ users' = [i \in Id |-> IF \E x \in changes[s] : x.id = i
                              THEN Merge(CHOOSE x \in changes[s] : x.id = i) ELSE users[i]]
    /\ changes' = [changes EXCEPT ![s] = {}]

\* What a commit of s means to the requests of the users that it changes.
Overtake(s) ==
    [r \in Request |-> [request[r] EXCEPT !.overtaken =
        @ \/ \E x \in changes[s] : x.id = request[r].actor /\ r # s]]

Init ==
    /\ users \in Founders
    /\ audit_logs = {}
    /\ AUTH_DISABLED \in BOOLEAN
    /\ tokens = {}
    /\ request = [r \in Request |-> NoRequest]
    /\ seed = [c \in Container |-> Starting]
    /\ changes = [s \in Session |-> {}]
    /\ count = [requests |-> 0, logins |-> 0, restarts |-> 0]

-----------------------------------------------------------------------------
(* The trail *)

\* record_audit
Entry(action, actor, is_system, resource) ==
    [action |-> action, actor |-> actor,
     actor_type |-> IF actor = None \/ is_system THEN "system" ELSE "user",
     resource |-> resource, disabled |-> AUTH_DISABLED]

-----------------------------------------------------------------------------
(* Tokens *)

CountLogin ==
    /\ count.logins < MaxLogins
    /\ count' = [count EXCEPT !.logins = @ + 1]
    /\ UNCHANGED <<users, AUTH_DISABLED, request, seed, changes>>

Issue(id) == tokens' = tokens \cup {[sub |-> id, role |-> users[id].role]}

\* authenticate
Accepted(id, password) ==
    /\ ~users[id].is_deleted /\ ~users[id].is_system
    /\ password = users[id].password
    /\ users[id].is_active

Login(email, password) ==
    /\ CountLogin
    /\ \E id \in Holding(email) :
          /\ Accepted(id, password)
          /\ audit_logs' = audit_logs \cup {Entry("login", id, FALSE, id)}
          /\ Issue(id)

\* The entry is committed before the error leaves the handler.
LoginFailed(email, password) ==
    /\ CountLogin
    /\ \A id \in Holding(email) : ~Accepted(id, password)
    /\ audit_logs' = audit_logs \cup {Entry("login_failed", None, FALSE, None)}
    /\ UNCHANGED tokens

\* is_active is not asked here.
Refresh(token) ==
    /\ ~users[token.sub].is_deleted
    /\ Issue(token.sub)
    /\ UNCHANGED <<users, audit_logs, AUTH_DISABLED, request, seed, changes, count>>

-----------------------------------------------------------------------------
(* resolve_principal *)

Resolved(r, id, row, role, token) ==
    request' = [request EXCEPT ![r] = [NoRequest EXCEPT !.pc = "acting", !.actor = id,
                    !.me = row, !.role = role, !.token = token]]

BeginRequest(r) ==
    /\ request[r].pc = "idle"
    /\ count.requests < MaxRequests
    /\ count' = [count EXCEPT !.requests = @ + 1]
    /\ UNCHANGED <<users, audit_logs, AUTH_DISABLED, tokens, seed, changes>>

\* Variant: the role is the one that the token claims.
AuthenticateByClaim(r, token) ==
    LET user == users[token.sub]
    IN  /\ ~AUTH_DISABLED
        /\ ~user.is_deleted /\ user.is_active /\ ~user.is_system
        /\ BeginRequest(r)
        /\ Resolved(r, token.sub, user, token.role, TRUE)

\* _authenticate_token
Authenticate(r, token) ==
    LET user == users[token.sub]
    IN  /\ ~AUTH_DISABLED
        /\ ~user.is_deleted /\ user.is_active /\ ~user.is_system
        /\ BeginRequest(r)
        /\ Resolved(r, token.sub, user, user.role, TRUE)

\* get_system_user: whoever has the address, or nobody yet.
FindPrincipal(r) ==
    /\ AUTH_DISABLED
    /\ BeginRequest(r)
    /\ \/ \E id \in Holding(SYSTEM_USER_EMAIL) : Resolved(r, id, users[id], users[id].role, FALSE)
       \/ /\ Holding(SYSTEM_USER_EMAIL) = {}
          /\ request' = [request EXCEPT ![r].pc = "missing"]

Principal == [email |-> SYSTEM_USER_EMAIL, role |-> "admin", password |-> None,
              is_active |-> TRUE, is_system |-> TRUE, is_deleted |-> FALSE]

InsertPrincipal(r) ==
    LET id == CHOOSE i \in Unused : TRUE
    IN  /\ request[r].pc = "missing" /\ Unused # {}
        /\ Free(r, id, SYSTEM_USER_EMAIL)
        /\ ~Conflicts(r, id, SYSTEM_USER_EMAIL)
        /\ changes' = [changes EXCEPT ![r] = {Change(id, Principal, DOMAIN Principal)}]
        /\ Resolved(r, id, Principal, "admin", FALSE)
        /\ UNCHANGED <<users, audit_logs, AUTH_DISABLED, tokens, seed, count>>

\* Variant: goes on with the row that it could not insert.
KeepPrincipal(r) ==
    LET id == CHOOSE i \in Unused : TRUE
    IN  /\ request[r].pc = "missing" /\ Unused # {}
        /\ Holding(SYSTEM_USER_EMAIL) # {}
        /\ Resolved(r, id, Principal, "admin", FALSE)
        /\ UNCHANGED <<users, audit_logs, AUTH_DISABLED, tokens, seed, changes, count>>

\* Somebody else has inserted it: roll back, and read again.
RereadPrincipal(r) ==
    /\ request[r].pc = "missing"
    /\ \E id \in Holding(SYSTEM_USER_EMAIL) : Resolved(r, id, users[id], users[id].role, FALSE)
    /\ UNCHANGED <<users, audit_logs, AUTH_DISABLED, tokens, seed, changes, count>>

-----------------------------------------------------------------------------
(* What a request does: require_roles, then the operation *)

Authorised(r, roles) == request[r].pc = "acting" /\ request[r].role \in roles

Flushed(r, action, resource) ==
    request' = [request EXCEPT
        ![r].pc = "flushed",
        ![r].entry = Entry(action, request[r].actor, request[r].me.is_system, resource)]

\* Any other change that is audited.
Work(r) ==
    /\ Authorised(r, {"admin", "risk_officer"})
    /\ Flushed(r, "update", None)
    /\ UNCHANGED <<users, audit_logs, AUTH_DISABLED, tokens, seed, changes, count>>

\* A conflict rolls the session back and ends the request: Abort.
CreateUser(r, draft) ==
    LET id == CHOOSE i \in Unused : TRUE
    IN  /\ Authorised(r, {"admin"}) /\ Unused # {}
        /\ Free(r, id, draft.email) /\ ~Conflicts(r, id, draft.email)
        /\ changes' = [changes EXCEPT ![r] = @ \cup {Change(id, draft, DOMAIN draft)}]
        /\ Flushed(r, "create", id)
        /\ UNCHANGED <<users, audit_logs, AUTH_DISABLED, tokens, seed, count>>

\* The caller's own row is in the session already, and is not refreshed.
GetUser(r, id) ==
    /\ Authorised(r, {"admin"}) /\ users[id] # None /\ ~users[id].is_deleted
    /\ request' = [request EXCEPT ![r].pc = "loaded", ![r].id = id,
                      ![r].row = IF id = request[r].actor THEN request[r].me ELSE users[id]]
    /\ UNCHANGED <<users, audit_logs, AUTH_DISABLED, tokens, seed, changes, count>>

\* Only columns that differ from what was read are written; a password always is: its hash
\* has a new salt.
UpdateUser(r, patch) ==
    LET q == request[r]
        row == [c \in DOMAIN q.row |-> IF c \in DOMAIN patch THEN patch[c] ELSE q.row[c]]
        written == {c \in DOMAIN row : row[c] # q.row[c]} \cup ({"password"} \cap DOMAIN patch)
    IN  /\ q.pc = "loaded"
        /\ written # {} => \A s \in Session \ {r} : \A x \in changes[s] : x.id # q.id
        /\ changes' = [changes EXCEPT ![r] =
                          IF written = {} THEN @ ELSE @ \cup {Change(q.id, row, written)}]
        /\ Flushed(r, "update", q.id)
        /\ UNCHANGED <<users, audit_logs, AUTH_DISABLED, tokens, seed, count>>

Commit(r) ==
    /\ request[r].pc = "flushed"
    /\ CommitChanges(r)
    /\ audit_logs' = audit_logs \cup {request[r].entry}
    /\ request' = [Overtake(r) EXCEPT ![r] = NoRequest]
    /\ UNCHANGED <<AUTH_DISABLED, tokens, seed, count>>

\* Refused, a conflict, another error, or a lost client.
Abort(r) ==
    /\ request[r].pc # "idle"
    /\ changes' = [changes EXCEPT ![r] = {}]
    /\ request' = [request EXCEPT ![r] = NoRequest]
    /\ UNCHANGED <<users, audit_logs, AUTH_DISABLED, tokens, seed, count>>

-----------------------------------------------------------------------------
(* run_seed, in every container that starts *)

\* migrate_legacy_demo_emails, retired rows too
SelectLegacy(c) ==
    /\ seed[c].pc = "start"
    /\ seed' = [seed EXCEPT ![c] = [pc |-> "migrate", plan |-> {},
          todo |-> {[id |-> i, row |-> users[i]] :
                      i \in {j \in Id : users[j] # None /\ users[j].email \in DOMAIN Renamed}}]]
    /\ UNCHANGED <<users, audit_logs, AUTH_DISABLED, tokens, request, changes, count>>

\* Variant: a legacy row with a replacement is left as it is.
RenameOnly(c, x) ==
    LET replacement == Renamed[x.row.email]
        renamed == IF Holding(replacement) = {} THEN [x.row EXCEPT !.email = replacement] ELSE x.row
    IN  /\ seed[c].pc = "migrate" /\ x \in seed[c].todo
        /\ seed' = [seed EXCEPT
              ![c].todo = @ \ {x},
              ![c].plan = @ \cup {Change(x.id, renamed, {f \in DOMAIN x.row : renamed[f] # x.row[f]})}]
        /\ UNCHANGED <<users, audit_logs, AUTH_DISABLED, tokens, request, changes, count>>

Migrate(c, x) ==
    LET replacement == Renamed[x.row.email]
        repaired == IF Holding(replacement) = {} THEN [x.row EXCEPT !.email = replacement]
                    ELSE [x.row EXCEPT !.is_deleted = TRUE, !.is_active = FALSE]
    IN  /\ seed[c].pc = "migrate" /\ x \in seed[c].todo
        /\ seed' = [seed EXCEPT
              ![c].todo = @ \ {x},
              ![c].plan = @ \cup {Change(x.id, repaired, {f \in DOMAIN x.row : repaired[f] # x.row[f]})}]
        /\ UNCHANGED <<users, audit_logs, AUTH_DISABLED, tokens, request, changes, count>>

\* db.flush; SQLAlchemy updates in the order of the ids, so two seeds never wait for each
\* other.  A conflict rolls everything back; the container ends, and is started again.
Flush(c, next) ==
    LET writes == {x \in seed[c].plan : x.written # {}}
        conflict == \E x \in writes : "email" \in x.written /\ Conflicts(c, x.id, x.row.email)
    IN  /\ seed[c].todo = {}
        /\ \A x \in writes : Free(c, x.id, x.row.email)
        /\ IF conflict
           THEN /\ seed' = [seed EXCEPT ![c] = Starting]
                /\ changes' = [changes EXCEPT ![c] = {}]
           ELSE /\ seed' = [seed EXCEPT ![c] = next]
                /\ changes' = [changes EXCEPT ![c] = @ \cup writes]
        /\ UNCHANGED <<users, audit_logs, AUTH_DISABLED, tokens, request, count>>

FlushMigration(c) ==
    /\ seed[c].pc = "migrate"
    /\ Flush(c, [pc |-> "users", todo |-> USERS, plan |-> {}])

\* Variant: inserts without looking.
SeedUserBlindly(c, u) ==
    LET id == CHOOSE i \in Unused : TRUE
    IN  /\ seed[c].pc = "users" /\ u \in seed[c].todo
        /\ Unused # {}
        /\ seed' = [seed EXCEPT ![c].todo = @ \ {u},
                                ![c].plan = @ \cup {Change(id, u, DOMAIN u)}]
        /\ UNCHANGED <<users, audit_logs, AUTH_DISABLED, tokens, request, changes, count>>

\* An account that exists is left as it is.
SeedUser(c, u) ==
    LET id == CHOOSE i \in Unused : TRUE
        exists == Holding(u.email) # {} \/ \E x \in changes[c] : x.row.email = u.email
    IN  /\ seed[c].pc = "users" /\ u \in seed[c].todo
        /\ exists \/ Unused # {}
        /\ seed' = [seed EXCEPT
              ![c].todo = @ \ {u},
              ![c].plan = IF exists THEN @ ELSE @ \cup {Change(id, u, DOMAIN u)}]
        /\ UNCHANGED <<users, audit_logs, AUTH_DISABLED, tokens, request, changes, count>>

FlushUsers(c) ==
    /\ seed[c].pc = "users"
    /\ Flush(c, [pc |-> "flushed", todo |-> {}, plan |-> {}])

CommitSeed(c) ==
    /\ seed[c].pc = "flushed"
    /\ CommitChanges(c)
    /\ request' = Overtake(c)
    /\ seed' = [seed EXCEPT ![c].pc = "done"]
    /\ UNCHANGED <<audit_logs, AUTH_DISABLED, tokens, count>>

SeedStep(c) ==
    \/ SelectLegacy(c)
    \/ \E x \in seed[c].todo : Migrate(c, x) \/ SeedUser(c, x)
    \/ FlushMigration(c) \/ FlushUsers(c)
    \/ CommitSeed(c)

\* The container dies, or is started again later: it seeds again.
Restart(c) ==
    /\ seed[c].pc # "start"
    /\ count.restarts < MaxRestarts
    /\ count' = [count EXCEPT !.restarts = @ + 1]
    /\ seed' = [seed EXCEPT ![c] = Starting]
    /\ changes' = [changes EXCEPT ![c] = {}]
    /\ UNCHANGED <<users, audit_logs, AUTH_DISABLED, tokens, request>>

\* The API is started with the other setting; its requests are gone.
Reconfigure ==
    /\ count.restarts < MaxRestarts
    /\ count' = [count EXCEPT !.restarts = @ + 1]
    /\ AUTH_DISABLED' = ~AUTH_DISABLED
    /\ request' = [r \in Request |-> NoRequest]
    /\ changes' = [s \in Session |-> IF s \in Request THEN {} ELSE changes[s]]
    /\ UNCHANGED <<users, audit_logs, tokens, seed>>

-----------------------------------------------------------------------------

RequestStep(r) ==
    \/ \E token \in tokens : Authenticate(r, token)
    \/ FindPrincipal(r)
    \/ InsertPrincipal(r)
    \/ RereadPrincipal(r)
    \/ Work(r)
    \/ \E draft \in Drafts : CreateUser(r, draft)
    \/ \E id \in Id : GetUser(r, id)
    \/ \E patch \in Patches : UpdateUser(r, patch)

Ends(r) == Commit(r) \/ Abort(r)

Next ==
    \/ \E email \in Email \ DOMAIN Renamed, password \in Password : Login(email, password) \/ LoginFailed(email, password)
    \/ \E token \in tokens : Refresh(token)
    \/ \E r \in Request : RequestStep(r) \/ Ends(r)
    \/ \E c \in Container : SeedStep(c) \/ Restart(c)
    \/ Reconfigure

Spec == Init /\ [][Next]_vars

\* A handler returns or raises, and the containers run and are restarted.
FairSpec ==
    /\ Spec
    /\ \A r \in Request : WF_vars(Ends(r))
    /\ \A c \in Container : WF_vars(SeedStep(c))

-----------------------------------------------------------------------------
(* Properties *)

\* Shapes; no two rows share an email, whatever sessions overlap, deleted rows included.
TypeOK ==
    /\ users \in [Id -> User \cup {None}]
    /\ \A i, j \in Id : users[i] # None /\ users[j] # None /\ users[i].email = users[j].email
                           => i = j
    /\ \A t \in tokens : t.sub \in Id /\ users[t.sub] # None /\ t.role \in Role
    /\ \A s \in Session : \A x \in changes[s] : x.id \in Id /\ x.row \in User
    /\ \A c \in Container : \A x \in seed[c].plan : x.id \in Id /\ x.row \in User
    /\ \A r \in Request : request[r].role \in Role \cup {None}

\* "a truthful audit trail": who acted is a row that exists; an entry is labelled system
\* exactly if that row is the system principal, which acts for nobody who logged in; without
\* authentication it is the row with the reserved address that acts, logins apart.
TruthfulTrail ==
    \A e \in audit_logs : e.actor # None =>
        /\ users[e.actor] # None
        /\ e.actor_type = "system" <=> users[e.actor].is_system
        /\ e.actor_type = "system" => e.disabled
        /\ e.disabled /\ e.action # "login" => users[e.actor].email = SYSTEM_USER_EMAIL

\* Demoting or disabling a user holds for every request that begins afterwards, whatever
\* tokens are still about: unless the row has changed since, a request with a token acts in
\* the role of an active row.
AuthorityIsCurrent ==
    \A r \in Request : request[r].token /\ ~request[r].overtaken =>
        LET user == users[request[r].actor]
        IN  user.is_active /\ ~user.is_deleted /\ ~user.is_system /\ user.role = request[r].role

\* An administrator's update of a row that another has changed since it was read brings none
\* of its old columns back: a request changes an existing row only as some patch says.
NoLostUpdate ==
    [][\A r \in Request : request[r].pc = "flushed" /\ request'[r].pc = "idle" =>
          \A i \in Id : users[i] # None /\ users'[i] # users[i] =>
              \E patch \in Patches : \A c \in DOMAIN users[i] :
                  users'[i][c] # users[i][c] => c \in DOMAIN patch /\ users'[i][c] = patch[c]]_vars

\* "an existing database has to be healed": once a container has seeded, no live row has a
\* legacy address, for good, and every demo address has its row.
SeedHeals ==
    (\E c \in Container : seed[c].pc = "done") =>
        /\ \A i \in Id : users[i] # None /\ users[i].email \in DOMAIN Renamed =>
              users[i].is_deleted
        /\ \A u \in USERS : Holding(u.email) # {}

\* Containers that seed at once, and administrators, may make each other's seed fail; every
\* container gets through in the end.  That is where demo accounts are allowed; elsewhere
\* seed_users refuses, and no seed gets through.
EventuallySeeded == \A c \in Container : []<>(seed[c].pc = "done")

-----------------------------------------------------------------------------
(* What the repository says and the code does not do *)

\* "retire the broken duplicate": only a duplicate; a demo account is there to log in with
\* after any number of seeds.
DemoAccountsLive ==
    (\E c \in Container : seed[c].pc = "done") =>
        \A u \in USERS : \E i \in Holding(u.email) : ~users[i].is_deleted

=============================================================================
